SPECIFICATION Spec
CONSTANTS
  PAGE = 4
  Size = 40
  Starts <- MCStarts
  FileLen = 24
  Secsz = {0, 3, 5}
  Align = {1, 4}
  Flags = {{}, {"W"}, {"X"}}
  HeaderLen = 5
  MaxSections = 2
  MaxEntries = 1
  WORD = 2
  GOT_ALIGN = 4
  PLT_ENTRY_SIZE = 3
CHECK_DEADLOCK FALSE
INVARIANTS
  SectionsInPlace
  SectionsApart
  ObjectProtected
  Contained
