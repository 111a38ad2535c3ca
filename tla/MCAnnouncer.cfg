CONSTANTS
  a = a
  Torrents <- MCTorrents
  Tasks <- Request
  N = 2
  MaxEvents = 3
  MaxInFlight = 2
SPECIFICATION FairSpec
INVARIANTS TypeOK WaitsForSomething RunningKeepsAnnouncing EventsMerged  OneAnnounceAtATime PendingStopsAreUnderWay
PROPERTIES DueIsAnnounced CloseEnds
CHECK_DEADLOCK FALSE
