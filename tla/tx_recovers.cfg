SPECIFICATION FairSpec
CONSTANTS
  Program <- Code
  Roots <- EndingRoots
  Faults = {"lost"}
  UserEvents = TRUE
  AutoRefresh = 5
  AutoIncorporate = FALSE
  MaxFrames = 12
  MaxCount = 1
PROPERTY
  SessionRecovers
