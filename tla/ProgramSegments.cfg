SPECIFICATION Spec
CONSTANTS
  PAGE = 4
  Size = 32
  Starts <- MCStarts
  FileLen = 12
  Vaddr = {5, 12, 15}
  Filesz = {0, 4}
  Bss = {0, 1, 6}
  Offset = {0, 1}
  Flags = {{"R", "X"}, {"R", "W"}}
  MaxLoads = 2
INVARIANTS
  ImageInPlace
  ImageProtected
  Contained
  Released
  NoFault
CHECK_DEADLOCK FALSE
