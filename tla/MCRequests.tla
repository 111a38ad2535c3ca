----------------------------- MODULE MCRequests -----------------------------
(* Requests.tla for TLC: two pieces that share a block. *)
EXTENDS Requests

CONSTANTS x, y

MCBlocks == 1 .. 2
MCPieceOf == <<<<1>>, <<1, 2>>>>
MCPeers == {x, y}
MCOffers == [p \in MCPeers |-> 1 .. 2]
MCFext == {x}
MCWindow == x :> 2 @@ y :> 2
=============================================================================
