SPECIFICATION Spec
CONSTANTS
  Program <- Code
  Roots <- HonestRoots
  Faults = {"sql"}
  UserEvents = TRUE
  AutoRefresh = 5
  AutoIncorporate = FALSE
  MaxFrames = 12
  MaxCount = 1
INVARIANTS
  SuccessIsDurable
  Balanced
  NoAbruptEnd
