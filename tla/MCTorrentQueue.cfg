CONSTANTS
  a = a
  b = b
  c = c
  d = d
  Torrents <- MCTorrents
  Requests = {0, 1, 2, 3, 7}
  MaxBatch = 3
  SizeMax = 15
  UintMax = 7
SPECIFICATION Spec
INVARIANTS TypeOK  BatchLands
PROPERTIES OthersKeepOrder
