SPECIFICATION Spec
CONSTANTS
  Program <- MCProgram
  Roots <- DisciplinedRoots
  Held <- MCHeld
  Escapes <- MCEscapes
  Clean <- MCClean
  Silent <- MCSilent
  Faults = {"sql"}
  UserEvents = TRUE
  AutoRefresh = 5
  AutoIncorporate = TRUE
  MaxFrames = 12
  MaxCount = 1
INVARIANT IndInv
