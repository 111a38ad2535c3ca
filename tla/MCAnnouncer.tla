----------------------------- MODULE MCAnnouncer -----------------------------
(* Announcer.tla for TLC: one torrent with a tier of two trackers. *)
EXTENDS Announcer

CONSTANTS a

MCTorrents == {a}
=============================================================================
