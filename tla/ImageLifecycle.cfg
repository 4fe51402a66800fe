SPECIFICATION Spec
CONSTANTS
  a = a
  b = b
  c = c
  v1 = v1
  v2 = v2
  v3 = v3
  t1 = t1
  t2 = t2
  None = None
  Lib = {a, b, c}
  Var = {v1, v2, v3}
  Thread = {t1, t2}
  Needed <- Chain
  Object = {c}
  Trivial = {}
  CoreVar = {}
SYMMETRY Symmetry
CHECK_DEADLOCK FALSE
INVARIANTS
  TypeOK
  NoDanglingBinding
  RunningCodeMapped
  NoLeak
  FinalisedOnce
