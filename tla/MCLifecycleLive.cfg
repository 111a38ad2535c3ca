CONSTANTS
  a = a
  b = b
  None = None
  Torrents <- MCTorrents
  Watched <- MCa
  Movable <- MCb
  QueueSize = 1
  MaxCommands = 1
SPECIFICATION Spec
PROPERTIES SessionNeverStuck StartsWhenStable
CHECK_DEADLOCK FALSE
