----------------------------- MODULE BlockStore -----------------------------
(***************************************************************************)
(* What the write cache promises to the rest of libtransmission: a block   *)
(* of a torrent holds the bytes that were last written to it.  Where those *)
(* bytes live (in memory, on the disk, in both) and when they move is not  *)
(* visible here.  Cache.tla implements this module.                        *)
(***************************************************************************)
CONSTANTS Keys,     \* the blocks of all torrents
          Data,     \* the contents a block can be written with
          Initial   \* the contents of a block that was never written

VARIABLE store      \* store[k]: what a reader of block k is given

TypeOK == store \in [Keys -> Data \cup {Initial}]

Init == store = [k \in Keys |-> Initial]

Write(k, d) == store' = [store EXCEPT ![k] = d]

Next == \E k \in Keys, d \in Data : Write(k, d)

Spec == Init /\ [][Next]_store
=============================================================================
