SPECIFICATION FairSpec
CONSTANTS
  Name <- MCName
  Versions <- MCVersions
  Base <- MCBase
  MaxSyms <- MCMaxSyms
  NBucket <- MCNBucket
  NBloom = 2
  NShift = 6
  GnuHash <- gnu_hash
  ElfHash <- elf_hash
  DlElfHash <- dl_elf_hash
CHECK_DEADLOCK FALSE
INVARIANTS
  FoundFirst
  InBounds
  ExactVersion
  CountReaches
PROPERTIES
  LookupEnds
