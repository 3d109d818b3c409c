SPECIFICATION Spec
CONSTANTS
  NumKeys = 10
  Core = 6
  Keys <- MCKeys
  Nodes <- MCNodes
  Marked = v2
  Values = {v1, v2}
  MaxNumKeys = 11
  None = None
INVARIANTS SearchTree RedBlack
PROPERTIES IsAMap LoopsEnd
CONSTRAINTS OneMarked LargeTreesDense
VIEW Addressless
CHECK_DEADLOCK FALSE
