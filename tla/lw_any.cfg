SPECIFICATION Spec
CONSTANTS
  Queries = {"q1"}
  Limits = {2}
  Ids = {1, 2, 3}
  Dialogs = TRUE
  Bars = {TRUE, FALSE}
  Faults = {"build", "lost"}
INVARIANTS
  TypeOK
  PointersAgree
