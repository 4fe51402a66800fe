SPECIFICATION Spec
CONSTANTS
  Sym = {"local", "weak", "preboth", "both", "second", "nowhere", "post", "own"}
  Local = {"local"}
  Weak = {"weak"}
  Own = {"local", "own"}
  PreFind = {"preboth"}
  PostFind = {"post"}
  LazyFind = {"post"}
  N = 2
  Defs <- MCDefs
  Self = 1
  Needed = {2}
  Handlers = {"none", "done", "dep", "err"}
  MaxRela = 1
  MaxPlt = 1
  Thread = {"t1", "t2"}
CHECK_DEADLOCK FALSE
INVARIANTS
  DepsCover
  SameFunction
  InitSeesRelocated
PROPERTIES
  ReadOnlyAfterRelro
  BoundOnce
