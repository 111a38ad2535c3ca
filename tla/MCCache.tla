------------------------------ MODULE MCCache ------------------------------
(* Cache.tla on a torrent of two blocks in two files and one of a single block, for TLC. *)
EXTENDS Cache

CONSTANTS d1, d2

MCTorrents  == {1, 2}
MCNBlocks   == <<2, 1>>
MCFileSpans == <<{{0}, {0, 1}}, {{0}}>>
MCData      == {d1, d2}
=============================================================================
