SPECIFICATION Spec
CONSTANTS
  page1 = page1
  page2 = page2
  MaxId = 2
  NOld = 1
  Old <- ReadArchived
  Window <- OneWindow
  Filters = {"all"}
  Batch = 1
  Faults = {"write"}
SYMMETRY Symmetric
INVARIANTS
  TypeOK
  CountedRight
  ListsRight
PROPERTIES
  NoBitLost
