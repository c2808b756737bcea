SPECIFICATION Spec
CONSTANTS
  Entries = 2
  SectorsPerPage = 2
  End = 5
  Value = {0, 1}
INVARIANTS
  CleanIsStored
PROPERTIES
  ImplementsDisc
