SPECIFICATION Spec
CONSTANTS
  D = 1
  P = 2
  NumBits = 14
  Prealloc = 1
  PreallocDir = 0
  Files <- MCFiles
  InitBits <- MCInitBits
  InitDisk <- MCInitDisk
  InitInode <- MCInitInode
  Offsets = {0, 1, 2, 6, 14}
  Lens = {1, 2, 4, 6}
  MaxNames = 2
  MaxCalls = 5
INVARIANTS TypeOK  ContentsKept ReadsMatch CountsMatch
CHECK_DEADLOCK FALSE
