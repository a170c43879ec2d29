SPECIFICATION FairSpec
CONSTANTS
  MaxId = 8
  Limit = 2
  Tags = {1, 2}
  Plans <- MCPlans
INVARIANTS
  ItemsRight
PROPERTIES
  NoStalePage
  WaitsEnd
CHECK_DEADLOCK FALSE
