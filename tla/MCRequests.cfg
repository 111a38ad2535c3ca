CONSTANTS
  x = x
  y = y
  Blocks <- MCBlocks
  PieceOf <- MCPieceOf
  Peers <- MCPeers
  Offers <- MCOffers
  Fext <- MCFext
  Window <- MCWindow
  ReqQ = 6
  MaxMishaps = 1
SPECIFICATION FairSpec
INVARIANTS TypeOK RequestsAreAnswered  NothingAskedInVain HadIsCancelled
PROPERTY Completes
CHECK_DEADLOCK FALSE
