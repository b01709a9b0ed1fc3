SPECIFICATION TrashSpec
CONSTANTS
  Paths <- MCPaths
  Retention = 1
  MaxTime = 2
  MaxFaults = 0
PROPERTY ComesWithItsDate
CHECK_DEADLOCK FALSE
