--------------------------- MODULE MCTorrentQueue ---------------------------
(* TorrentQueue.tla with four torrents, for TLC; the widths of size_t and    *)
(* unsigned int are in the configurations.                                   *)
EXTENDS TorrentQueue, TLC

CONSTANTS a, b, c, d

MCTorrents == {a, b, c, d}
MCSymmetry == Permutations(MCTorrents)
=============================================================================
