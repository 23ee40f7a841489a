SPECIFICATION Spec
CONSTANTS
  Msgs = {1, 2, 3, 4}
  Dates = {1, 2}
  Sizes = {1, 2}
  Faults = {}
  MaxChanges = 2
INVARIANTS
  TypeOK
  NothingSkipped
  EndMeansAll
  Aligned
CHECK_DEADLOCK FALSE
