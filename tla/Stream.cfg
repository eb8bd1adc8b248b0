SPECIFICATION Spec
CONSTANTS
  Buf = 8
  Sector = 4
  Numbers = {2, 3, 4}
  EndMark = 6
  Chains <- MCChains
  DirClusters = 2
  Entries = {0}
  Sizes = {6}
  Records <- MCRecords
  Offsets = {0, 6, 8, 12}
  Careless = {}
INVARIANTS StreamTypeOK OwnBlocks
PROPERTY Stream
