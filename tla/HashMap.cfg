SPECIFICATION Spec
CONSTANTS
  k1 = k1
  k2 = k2
  k3 = k3
  k4 = k4
  Keys = {k1, k2, k3, k4}
  Values = {v1, v2}
  NullOpt = NullOpt
  Hash <- MCHash
  InitialSize = 1
  InvLoadFactor = 3
  MaxCapacity = 15
CONSTRAINT Bound
INVARIANTS TypeOK ProbesEnd EntriesFound
PROPERTY IsAMap
