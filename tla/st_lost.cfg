SPECIFICATION Spec
CONSTANTS
  page1 = page1
  page2 = page2
  MaxId = 1
  NOld = 1
  Old = {{}}
  Window <- TwoWindows
  Filters = {"all"}
  Batch = 1
  Faults = {}
PROPERTIES
  NoBitLost
