SPECIFICATION Spec
CONSTANTS
  Program <- Code
  Roots <- AllRoots
  Faults = {"sql", "commit", "lost"}
  UserEvents = TRUE
  AutoRefresh = 5
  AutoIncorporate = FALSE
  MaxFrames = 12
  MaxCount = 1
INVARIANTS
  TypeOK
  AllOrNothing
