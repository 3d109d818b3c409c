SPECIFICATION Spec
CONSTANTS
  HeapUnits = 3
  MaxUnits = 12
  Fine = 4
  Threshold = 8
  Requests = {2, 3, 5, 7}
  Large = {l1}
  None = None
INVARIANTS TypeOK ChunksTile BinsHoldFree NoFreeNeighbours BlocksKept
CHECK_DEADLOCK FALSE
