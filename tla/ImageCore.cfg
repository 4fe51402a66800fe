SPECIFICATION FairSpec
CONSTANTS
  a = a
  b = b
  c = c
  v1 = v1
  v2 = v2
  v3 = v3
  t1 = t1
  t2 = t2
  None = None
  Lib = {a, b, c}
  Var = {v1, v2}
  Thread = {t1, t2}
  Needed <- Chain
  Object = {}
  Trivial = {a}
  CoreVar = {v2}
CHECK_DEADLOCK FALSE
INVARIANTS
  NoLeak
PROPERTIES
  DropEnds
