SPECIFICATION Spec
CONSTANTS
  Maps = {a, b}
  Frames = {f1,f2,f3,f4,f5,f6}
  Levels = 3
  Fanout = 2
  VPages = {0, 1, 2, 4}
  PPages = {0,1,2}
  Offsets <- MCOffsets
  None = None
INVARIANT TreesOwnFrames
PROPERTY IsAnAddressSpace
SYMMETRY FrameSymmetry
VIEW Observable
CHECK_DEADLOCK FALSE
