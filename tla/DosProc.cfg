CONSTANTS
  MaxProcs = 1
  MaxDepth = 2
  MaxPkts = 0
  MaxWorks = 1
SPECIFICATION ProcSpec
CHECK_DEADLOCK FALSE
PROPERTIES StackRestored
