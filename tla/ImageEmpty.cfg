SPECIFICATION Spec
CONSTANTS
  a = a
  b = b
  c = c
  v1 = v1
  v2 = v2
  v3 = v3
  t1 = t1
  t2 = t2
  None = None
  Lib = {a, b}
  Var = {v1, v2, v3}
  Thread = {t1}
  Needed <- Chain
  Object = {}
  Trivial = {b}
  CoreVar = {}
SYMMETRY Symmetry
CHECK_DEADLOCK FALSE
INVARIANTS
  LoadedIsInitialised
