---------------------------- MODULE MCLifecycle ----------------------------
(* Lifecycle.tla with two torrents, for TLC.                                 *)
EXTENDS Lifecycle

CONSTANTS a, b

MCTorrents == {a, b}
MCa == {a}
MCb == {b}
=============================================================================
