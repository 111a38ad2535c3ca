CONSTANTS
  x = x
  y = y
  Blocks <- MCBlocks
  N = 2
  PieceBlocks <- MCAligned
  FileBlocks <- MCWholeFile
  PieceFiles <- MCAlignedFiles
  Peers <- MCOnePeer
  HasWebseed = FALSE
  MaxAsked = 1
  MayCrash = TRUE
SPECIFICATION Spec
INVARIANTS CheckedMeansGood
