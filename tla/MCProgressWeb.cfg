CONSTANTS
  x = x
  y = y
  Blocks <- MCBlocks
  N = 1
  PieceBlocks <- MCWholePiece
  FileBlocks <- MCWholeFile
  PieceFiles <- MCWholeFiles
  Peers <- MCPeers
  HasWebseed = TRUE
  MaxAsked = 2
  MayCrash = TRUE
SPECIFICATION Spec
SYMMETRY MCSymmetry
INVARIANTS AskedIsMissing HaveMeansGood
