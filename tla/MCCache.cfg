CONSTANTS
  d1 = d1
  d2 = d2
  Torn = Torn
  Torrents <- MCTorrents
  NBlocks <- MCNBlocks
  FileSpans <- MCFileSpans
  Data <- MCData
  Limits = {0, 1, 3}
  MaxTime = 1
SPECIFICATION Spec
INVARIANTS TypeOK OrphansComeFromErrors
PROPERTIES ImplementsStore OverLimitExplained
