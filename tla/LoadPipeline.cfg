SPECIFICATION FairSpec
CONSTANTS
  Files <- MCFiles
  Readers = {"unix", "syscall", "binary"}
  EHDR_SIZE = 2
  MaxLoads = 2
  DF_BIND_NOW = 8
  DF_1_NOW = 1
  DT_RELA = 7
  ElfRelType = "ElfRela"
CHECK_DEADLOCK FALSE
INVARIANT HeldIsMapped
INVARIANT HookSawFile
INVARIANT PhdrsInImage
INVARIANT DispatchFits
INVARIANT DynamicRead
PROPERTY LoadEnds
