SPECIFICATION FairSpec
CONSTANTS
  MaxLba = 3
  NumberSlots = 1
  QueueDepth = 2
  MaxLen = 3
  Info <- MCInfo
  None = None
INVARIANTS ReturnsOutcome QuietBetweenCalls
PROPERTY OperationsReturn
CHECK_DEADLOCK FALSE
