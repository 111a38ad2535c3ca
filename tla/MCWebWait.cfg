CONSTANTS
  a = a
  Torrents <- MCTorrents
  Tasks <- Request
  N = 2
  MaxEvents = 1
  MaxInFlight = 2
SPECIFICATION FairSpec
PROPERTY CloseReturns
CHECK_DEADLOCK FALSE
