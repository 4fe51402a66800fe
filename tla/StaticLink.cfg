SPECIFICATION Spec
CONSTANTS
  Sym = {"f", "g", "undefined"}
  Found = {"f", "g"}
  Type = {"64", "PC32", "PLT32", "GOTPCREL", "other"}
  Unreadable = {}
  MaxRel = 3
CHECK_DEADLOCK FALSE
INVARIANTS
  GotFits
  EntriesLead
PROPERTY
  BindsReferences
