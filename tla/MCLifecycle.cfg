CONSTANTS
  a = a
  b = b
  None = None
  Torrents <- MCTorrents
  Watched <- MCa
  Movable <- MCb
  QueueSize = 1
  MaxCommands = 2
SPECIFICATION Spec
INVARIANTS TypeOK VerifierHoldsLive VerifyStateConsistent VerifyExcludesRunning RunningKnowsCompleteness
CHECK_DEADLOCK FALSE
