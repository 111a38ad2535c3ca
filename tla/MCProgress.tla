---------------------------- MODULE MCProgress ----------------------------
(* Progress.tla for TLC, on three layouts of two blocks. *)
EXTENDS Progress, TLC

CONSTANTS x, y

MCBlocks == 1 .. 2

(* Two pieces that share a block: the first ends in the middle of the second *)
(* block.  Each block is a file of its own.                                   *)
MCPieceBlocks == [p \in 1 .. 2 |-> p .. 2]
MCFileBlocks == [f \in 1 .. 2 |-> {f}]
MCPieceFiles == [p \in 1 .. 2 |-> p .. 2]

(* One piece of two blocks, in one file. *)
MCWholePiece == [p \in 1 .. 1 |-> MCBlocks]
MCWholeFile == <<MCBlocks>>
MCWholeFiles == [p \in 1 .. 1 |-> {1}]

(* A piece to a block, both in one file. *)
MCAligned == [p \in 1 .. 2 |-> {p}]
MCAlignedFiles == [p \in 1 .. 2 |-> {1}]

MCOnePeer == {x}
MCPeers == {x, y}
MCSymmetry == Permutations(MCPeers)
=============================================================================
