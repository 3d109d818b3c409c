SPECIFICATION Spec
CONSTANTS
  Keys = {0, 1, 2, 3}
  MaxLba = 2
  MaxLen = 3
  Values = {v1, v2}
  None = None
INVARIANTS TypeOK ListIsRecency ReadsAreLatest NothingLost
SYMMETRY ValueSymmetry
CHECK_DEADLOCK FALSE
