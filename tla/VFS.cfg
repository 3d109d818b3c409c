SPECIFICATION Spec
CONSTANTS
  Inos = {2, 3, 4, 5}
  RootIno = 2
  Names = {"d", "f", "n"}
  Paths <- MCPaths
  Objs = {o1, o2}
  Handles = {h1, h2}
  NoObj = NoObj
  NoIno = NoIno
  Dirs = {2, 3}
  InitUsed = {2, 3, 4}
  InitEntries <- MCInitEntries
  MaxPins = 3
  MaxEntries = 3
  MaxMounts = 1
SYMMETRY VNodeSymmetry
CONSTRAINT Bound
INVARIANTS TypeOK TablesAgree PinsCoverUsers OpenVNodeStaysPinned OneVNodePerFile MountsStayReachable
