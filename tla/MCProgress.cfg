CONSTANTS
  x = x
  y = y
  Blocks <- MCBlocks
  N = 2
  PieceBlocks <- MCPieceBlocks
  FileBlocks <- MCFileBlocks
  PieceFiles <- MCPieceFiles
  Peers <- MCOnePeer
  HasWebseed = FALSE
  MaxAsked = 2
  MayCrash = TRUE
SPECIFICATION Spec
INVARIANTS TypeOK HaveMeansGood
