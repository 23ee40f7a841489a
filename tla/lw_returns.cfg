SPECIFICATION FairSpec
CONSTANTS
  Queries = {"q1", "q2"}
  Limits = {2}
  Ids = {1, 2, 3}
  Dialogs = FALSE
  Bars = {FALSE}
  Faults = {"query", "abort"}
INVARIANTS
  ShownMatchesFilter
  InteractionPaired
  ListsUsable
PROPERTY
  InteractionComesBack
