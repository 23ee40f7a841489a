SPECIFICATION Spec
CONSTANTS
  ListWindows = {"w1"}
  SelectDialogs = {"d1"}
  FilterTests = {"t1"}
  MaxCnx = 2
  FaultSets = {{}, {"logon", "lost"}}
INVARIANT
  OrderlyThreads
PROPERTIES
  ConnectionsComeBack
  LendsConnections
CHECK_DEADLOCK FALSE
