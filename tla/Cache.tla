-------------------------------- MODULE Cache --------------------------------
(***************************************************************************)
(* The write cache (cache.cc) over the disk I/O of inout.cc.               *)
(*                                                                         *)
(* Cache::blocks_ is a vector sorted by the pair (torrent id, block) that  *)
(* holds no key twice; here it is the function from its keys to its        *)
(* entries, and the order of the vector is KeyLess.  Everything runs on    *)
(* the session thread, so that one call is one action, the trim that ends  *)
(* it and the torrent that a failed write stops included.  Each write to   *)
(* the disk may fail, and a failed write may leave the block torn.         *)
(***************************************************************************)
EXTENDS Naturals, FiniteSets

CONSTANTS Torrents,   \* ids of the torrents: naturals, never used again
          NBlocks,    \* NBlocks[t]: the number of blocks of t
          FileSpans,  \* FileSpans[t]: the block spans of t's files
          Data,       \* contents of a block
          Torn,       \* contents of a block never, or only partly, written
          Limits,     \* values, in blocks, that the size limit may be given
          MaxTime     \* bound on the clock

Keys == UNION {{t} \X (0 .. NBlocks[t] - 1) : t \in Torrents}

ASSUME CacheAssumption ==
  /\ Torrents \subseteq Nat
  /\ NBlocks \in [Torrents -> Nat]
  /\ FileSpans \in [Torrents -> SUBSET SUBSET Nat]
  /\ Torn \notin Data
  /\ Limits \subseteq Nat /\ Limits # {}
  /\ MaxTime \in Nat

VARIABLES blocks,     \* blocks_: the cached blocks, a partial function on Keys
          maxBlocks,  \* max_blocks_
          disk,       \* what the torrents' files hold
          torrents,   \* ids that torrents_.get() finds
          error,      \* error[t]: tor->error is TR_STAT_LOCAL_ERROR
          now         \* tr_time()

vars == <<blocks, maxBlocks, disk, torrents, error, now>>

CacheBlock == [buf : Data, added : Nat]

KeyLess(j, k) == j[1] < k[1] \/ (j[1] = k[1] /\ j[2] < k[2])

KeysOf(t, B) == {k \in DOMAIN B : k[1] = t}

Drop(B, S) == [k \in DOMAIN B \ S |-> B[k]]

\* The disk D once the blocks S of the cache B are written to it.
Overlay(D, B, S) == [k \in Keys |-> IF k \in S THEN B[k].buf ELSE D[k]]

-----------------------------------------------------------------------------
(* Flushing *)

\* The loops of findContiguous() test the neighbours and never move
\* span_begin or span_end, so that a span is the block it started from.
FindContiguous(B, k) == {k}

\* What the disk D may hold after writing the blocks S of the cache B in key
\* order failed at one of them, f: those before f are written, and f is
\* untouched or torn.  Nothing is erased from the cache.
PartialDisks(S, B, D) ==
  UNION {{[Overlay(D, B, {k \in S : KeyLess(k, f)}) EXCEPT ![f] = x] :
            x \in {D[f], Torn}} : f \in S}

\* Mutant of WriteFailed: the blocks are erased however their flush ended.
WriteFailedErases(t, B, D) ==
  LET S == KeysOf(t, B)
  IN /\ error' = [error EXCEPT ![t] = TRUE]
     /\ blocks' = Drop(B, S)
     /\ disk' \in {Overlay(D, B, S)} \cup PartialDisks(S, B, D)

\* A write of a block of torrent t failed, with B in the cache and D on the
\* disk.  The first failure sets the torrent's error and stops the torrent,
\* which flushes all its blocks once more.
WriteFailed(t, B, D) ==
  IF error[t]
    THEN blocks' = B /\ disk' = D /\ UNCHANGED error
    ELSE /\ error' = [error EXCEPT ![t] = TRUE]
         /\ LET S == KeysOf(t, B)
            IN \/ blocks' = Drop(B, S) /\ disk' = Overlay(D, B, S)
               \/ blocks' = B /\ disk' \in PartialDisks(S, B, D)

\* flushSpan() on the blocks S, all of them blocks of torrent t.
FlushSpan(t, S) ==
  \/ /\ blocks' = Drop(blocks, S)
     /\ disk' = Overlay(disk, blocks, S)
     /\ UNCHANGED error
  \/ \E D \in PartialDisks(S, blocks, disk) : WriteFailed(t, blocks, D)

\* std::min_element by time_added: the first of the oldest, in key order.
Older(B, j, k) ==
  \/ B[j].added < B[k].added
  \/ B[j].added = B[k].added /\ KeyLess(j, k)

OldestOf(B, F) == \A j \in F, k \in DOMAIN B \ F : Older(B, j, k)

\* flushOldest() fails on the block f of the cache B.  A torrent that is no
\* longer in the session is not found, and no file is touched.
FlushOldestFailed(f, B, D) ==
  IF f[1] \in torrents
    THEN \E E \in PartialDisks(FindContiguous(B, f), B, D) : WriteFailed(f[1], B, E)
    ELSE blocks' = B /\ disk' = D /\ UNCHANGED error

\* Mutant of Trim: a cache that is one block too large is left alone.
TrimOneShort(B, limit) ==
  LET size   == Cardinality(DOMAIN B)
      excess == IF size > limit + 1 THEN size - limit - 1 ELSE 0
  IN \E F \in SUBSET DOMAIN B :
       /\ Cardinality(F) = excess
       /\ OldestOf(B, F)
       /\ blocks' = Drop(B, F)
       /\ disk' = Overlay(disk, B, F)
       /\ UNCHANGED error

\* cacheTrim() on B: flush the oldest block until the limit is met or a
\* write fails.  F holds the blocks flushed by then, each a span of its own.
Trim(B, limit) ==
  LET size   == Cardinality(DOMAIN B)
      excess == IF size > limit THEN size - limit ELSE 0
  IN \E F \in SUBSET DOMAIN B :
       /\ Cardinality(F) <= excess
       /\ OldestOf(B, F)
       /\ \A k \in F : k[1] \in torrents
       /\ LET C == Drop(B, F)
              D == Overlay(disk, B, F)
          IN IF Cardinality(F) = excess
               THEN blocks' = C /\ disk' = D /\ UNCHANGED error
               ELSE \E f \in DOMAIN C : OldestOf(C, {f}) /\ FlushOldestFailed(f, C, D)

-----------------------------------------------------------------------------
(* The operations *)

Init ==
  /\ blocks = [k \in {} |-> [buf |-> Torn, added |-> 0]]
  /\ maxBlocks \in Limits
  /\ disk = [k \in Keys |-> Torn]
  /\ torrents = Torrents
  /\ error = [t \in Torrents |-> FALSE]
  /\ now = 0

\* Cache::writeBlock(), from a peer (clientGotBlock) or a web seed
\* (write_block_func), both of which know the torrent to be in the session.
WriteBlock(k, d) ==
  /\ k[1] \in torrents
  /\ Trim([j \in DOMAIN blocks \cup {k} |->
             IF j = k THEN [buf |-> d, added |-> now] ELSE blocks[j]], maxBlocks)
  /\ UNCHANGED <<maxBlocks, torrents, now>>

\* Mutant of SetLimit: a limit that is no quotient of the bytes asked for.
SetLimitOffByOne(n) ==
  /\ maxBlocks' = n + 1
  /\ Trim(blocks, n + 1)
  /\ UNCHANGED <<torrents, now>>

\* Cache::setLimit()
SetLimit(n) ==
  /\ maxBlocks' = n
  /\ Trim(blocks, n)
  /\ UNCHANGED <<torrents, now>>

\* tr_session::closeTorrentFiles(): Cache::flushTorrent()
FlushTorrent(t) ==
  /\ t \in torrents
  /\ FlushSpan(t, KeysOf(t, blocks))
  /\ UNCHANGED <<maxBlocks, torrents, now>>

\* tr_session::closeTorrentFile(), once a file is complete: Cache::flushFile()
FlushFile(t, span) ==
  /\ t \in torrents
  /\ FlushSpan(t, {k \in KeysOf(t, blocks) : k[2] \in span})
  /\ UNCHANGED <<maxBlocks, torrents, now>>

\* Mutant of RemoveTorrent: the torrent goes without its files being closed.
RemoveTorrentUnflushed(t) ==
  /\ t \in torrents
  /\ torrents' = torrents \ {t}
  /\ UNCHANGED <<blocks, maxBlocks, disk, error, now>>

\* tr_torrentFreeInSessionThread(): stop the torrent, which flushes its
\* blocks, and take it out of the session whatever came of that.
RemoveTorrent(t) ==
  /\ t \in torrents
  /\ FlushSpan(t, KeysOf(t, blocks))
  /\ torrents' = torrents \ {t}
  /\ UNCHANGED <<maxBlocks, now>>

\* torrentStartImpl() clears the error of a torrent that is started again.
StartTorrent(t) ==
  /\ t \in torrents
  /\ error' = [error EXCEPT ![t] = FALSE]
  /\ UNCHANGED <<blocks, maxBlocks, disk, torrents, now>>

Tick ==
  /\ now < MaxTime
  /\ now' = now + 1
  /\ UNCHANGED <<blocks, maxBlocks, disk, torrents, error>>

Next ==
  \/ \E k \in Keys, d \in Data : WriteBlock(k, d)
  \/ \E n \in Limits : SetLimit(n)
  \/ \E t \in Torrents : FlushTorrent(t)
  \/ \E t \in Torrents : \E span \in FileSpans[t] : FlushFile(t, span)
  \/ \E t \in Torrents : RemoveTorrent(t)
  \/ \E t \in Torrents : StartTorrent(t)
  \/ Tick

Spec == Init /\ [][Next]_vars

-----------------------------------------------------------------------------
\* The types: only the blocks that a torrent has are cached, and the limit is one
\* that was asked for.
TypeOK ==
  /\ DOMAIN blocks \subseteq Keys
  /\ blocks \in [DOMAIN blocks -> CacheBlock]
  /\ maxBlocks \in Limits
  /\ disk \in [Keys -> Data \cup {Torn}]
  /\ torrents \subseteq Torrents
  /\ error \in [Torrents -> BOOLEAN]
  /\ now \in Nat

\* What a block-aligned readBlock() gives with B in the cache and D on the
\* disk: the cached bytes if there are any, and those on the disk otherwise.
ReadBlock(B, D) == [k \in Keys |-> IF k \in DOMAIN B THEN B[k].buf ELSE D[k]]

Contents == ReadBlock(blocks, disk)

Store == INSTANCE BlockStore WITH store <- Contents, Initial <- Torn

\* No flush, failed flush, trim or removal ever changes the bytes that a
\* reader of a block is given: only writeBlock() does.  In particular a block
\* leaves the cache only once all of it is on the disk.
ImplementsStore == Store!Spec

\* A torrent removed without a disk error leaves no block behind in the cache
\* (freeTorrent() deletes the torrent, and no later flush can find it).
OrphansComeFromErrors ==
  \A k \in DOMAIN blocks : k[1] \notin torrents => error[k[1]]

Orphan(B) == \E k \in DOMAIN B : k[1] \notin torrents

\* A call that adds a block or lowers the limit leaves the cache above its
\* limit only when a torrent has a disk error, or when the block of a removed
\* torrent is in the way.
OverLimitExplained ==
  [][Cardinality(DOMAIN blocks') > maxBlocks'
       => \/ DOMAIN blocks' \subseteq DOMAIN blocks /\ maxBlocks' >= maxBlocks
          \/ \E t \in torrents : error'[t]
          \/ Orphan(blocks')]_vars
=============================================================================
