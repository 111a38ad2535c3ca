----------------------------- MODULE CacheProofs -----------------------------
(***************************************************************************)
(* Theorems about the write cache (Cache.tla), for any torrents, blocks,   *)
(* contents and limits: its types; what a removed torrent may leave        *)
(* behind; that a flush, whole or failed, never changes what a reader is   *)
(* given (Cache implements BlockStore); and that the size limit holds but  *)
(* for disk errors and orphans.                                            *)
(***************************************************************************)
EXTENDS Cache, FiniteSetTheorems, TLAPS

\* A cache, and a disk, with blocks and contents of the right types.
CacheType(B) == DOMAIN B \subseteq Keys /\ B \in [DOMAIN B -> CacheBlock]

DiskType(D) == D \in [Keys -> Data \cup {Torn}]

LEMMA KeyTorrent == ASSUME NEW k \in Keys PROVE k[1] \in Torrents
BY DEF Keys

\* Dropping cached blocks that were written to the disk changes no reading.
LEMMA FlushedReads ==
  ASSUME NEW B, NEW D, NEW S, CacheType(B), DiskType(D), S \subseteq DOMAIN B
  PROVE  /\ CacheType(Drop(B, S)) /\ DiskType(Overlay(D, B, S))
         /\ DOMAIN Drop(B, S) = DOMAIN B \ S
         /\ ReadBlock(Drop(B, S), Overlay(D, B, S)) = ReadBlock(B, D)
<1>1. CacheType(Drop(B, S)) /\ DOMAIN Drop(B, S) = DOMAIN B \ S
  BY DEF CacheType, Drop
<1>2. \A k \in S : B[k].buf \in Data
  BY DEF CacheType, CacheBlock
<1>3. DiskType(Overlay(D, B, S))
  BY <1>2 DEF DiskType, Overlay
<1>4. \A k \in Keys : (IF k \in DOMAIN Drop(B, S) THEN Drop(B, S)[k].buf ELSE Overlay(D, B, S)[k])
                        = (IF k \in DOMAIN B THEN B[k].buf ELSE D[k])
  BY DEF Drop, Overlay
<1>. QED  BY <1>1, <1>3, <1>4 DEF ReadBlock

\* A disk that a failed write has touched only where blocks are still cached.
LEMMA PartialReads ==
  ASSUME NEW B, NEW D, NEW S, CacheType(B), DiskType(D), S \subseteq DOMAIN B,
         NEW E \in PartialDisks(S, B, D)
  PROVE  DiskType(E) /\ ReadBlock(B, E) = ReadBlock(B, D)
<1>1. PICK f \in S : \E x \in {D[f], Torn} :
        E = [Overlay(D, B, {k \in S : KeyLess(k, f)}) EXCEPT ![f] = x]
  BY DEF PartialDisks
<1>2. f \in Keys /\ D[f] \in Data \cup {Torn}
  BY DEF CacheType, DiskType
<1>3. DiskType(Overlay(D, B, {k \in S : KeyLess(k, f)}))
  BY FlushedReads
<1>4. DiskType(E)
  BY <1>1, <1>2, <1>3 DEF DiskType
<1>5. \A k \in Keys : k \notin DOMAIN B => E[k] = D[k]
  BY <1>1 DEF Overlay
<1>6. ReadBlock(B, E) = ReadBlock(B, D)
  BY <1>5 DEF ReadBlock
<1>. QED  BY <1>4, <1>6

\* What every operation that may flush leaves as it was, B in the cache and D
\* on the disk: what a reader is given, and the errors there were.
Flushed(B, D) ==
  /\ CacheType(blocks') /\ DiskType(disk') /\ DOMAIN blocks' \subseteq DOMAIN B
  /\ ReadBlock(blocks', disk') = ReadBlock(B, D)
  /\ error' \in [Torrents -> BOOLEAN]
  /\ \A t \in Torrents : error[t] => error'[t]

LEMMA WriteFailedFlushed ==
  ASSUME TypeOK, NEW B, NEW D, CacheType(B), DiskType(D), NEW t \in Torrents,
         WriteFailed(t, B, D)
  PROVE  Flushed(B, D) /\ error'[t]
<1>1. CASE error[t]
  BY <1>1 DEF WriteFailed, Flushed, TypeOK
<1>2. CASE ~error[t]
  <2>. DEFINE S == KeysOf(t, B)
  <2>1. S \subseteq DOMAIN B
    BY DEF KeysOf
  <2>2. /\ error' = [error EXCEPT ![t] = TRUE]
        /\ \/ blocks' = Drop(B, S) /\ disk' = Overlay(D, B, S)
           \/ blocks' = B /\ disk' \in PartialDisks(S, B, D)
    BY <1>2 DEF WriteFailed
  <2>3. /\ error' \in [Torrents -> BOOLEAN] /\ error'[t]
        /\ \A u \in Torrents : error[u] => error'[u]
    BY <2>2 DEF TypeOK
  <2>4. CASE blocks' = Drop(B, S) /\ disk' = Overlay(D, B, S)
    <3>1. /\ CacheType(Drop(B, S)) /\ DiskType(Overlay(D, B, S))
          /\ DOMAIN Drop(B, S) = DOMAIN B \ S
          /\ ReadBlock(Drop(B, S), Overlay(D, B, S)) = ReadBlock(B, D)
      BY <2>1, FlushedReads
    <3>2. CacheType(blocks') /\ DiskType(disk') /\ ReadBlock(blocks', disk') = ReadBlock(B, D)
      BY <2>4, <3>1, Zenon
    <3>. QED  BY <2>3, <2>4, <3>1, <3>2 DEF Flushed
  <2>5. CASE blocks' = B /\ disk' \in PartialDisks(S, B, D)
    BY <2>1, <2>3, <2>5, PartialReads DEF Flushed
  <2>. QED  BY <2>2, <2>4, <2>5
<1>. QED  BY <1>1, <1>2

\* A flush leaves one of its blocks in the cache only with an error.
LEMMA FlushSpanFlushed ==
  ASSUME TypeOK, NEW t \in Torrents, NEW S, S \subseteq DOMAIN blocks, FlushSpan(t, S)
  PROVE  Flushed(blocks, disk) /\ (error'[t] \/ DOMAIN blocks' \cap S = {})
<1>0. CacheType(blocks) /\ DiskType(disk)
  BY DEF TypeOK, CacheType, DiskType
<1>1. CASE blocks' = Drop(blocks, S) /\ disk' = Overlay(disk, blocks, S) /\ error' = error
  <2>1. /\ CacheType(Drop(blocks, S)) /\ DiskType(Overlay(disk, blocks, S))
        /\ DOMAIN Drop(blocks, S) = DOMAIN blocks \ S
        /\ ReadBlock(Drop(blocks, S), Overlay(disk, blocks, S)) = ReadBlock(blocks, disk)
    BY <1>0, FlushedReads
  <2>2. CacheType(blocks') /\ DiskType(disk') /\ ReadBlock(blocks', disk') = ReadBlock(blocks, disk)
    BY <1>1, <2>1, Zenon
  <2>. QED  BY <1>1, <2>1, <2>2 DEF Flushed, TypeOK
<1>2. ASSUME NEW D \in PartialDisks(S, blocks, disk), WriteFailed(t, blocks, D)
      PROVE  Flushed(blocks, disk) /\ error'[t]
  <2>1. DiskType(D) /\ ReadBlock(blocks, D) = ReadBlock(blocks, disk)
    BY <1>0, PartialReads
  <2>2. Flushed(blocks, D) /\ error'[t]
    BY <1>0, <1>2, <2>1, WriteFailedFlushed
  <2>. QED  BY <2>1, <2>2 DEF Flushed
<1>. QED  BY <1>1, <1>2 DEF FlushSpan

LEMMA FlushOldestFailedFlushed ==
  ASSUME TypeOK, NEW B, NEW D, CacheType(B), DiskType(D), NEW f \in DOMAIN B,
         FlushOldestFailed(f, B, D)
  PROVE  Flushed(B, D) /\ (IF f[1] \in torrents THEN error'[f[1]] ELSE blocks' = B)
<1>1. CASE f[1] \in torrents
  <2>1. PICK E \in PartialDisks(FindContiguous(B, f), B, D) : WriteFailed(f[1], B, E)
    BY <1>1 DEF FlushOldestFailed
  <2>2. FindContiguous(B, f) \subseteq DOMAIN B
    BY DEF FindContiguous
  <2>3. DiskType(E) /\ ReadBlock(B, E) = ReadBlock(B, D)
    BY <2>2, PartialReads
  <2>4. f[1] \in Torrents
    BY KeyTorrent DEF CacheType
  <2>5. Flushed(B, E) /\ error'[f[1]]
    BY <2>1, <2>3, <2>4, WriteFailedFlushed
  <2>6. Flushed(B, D)
    BY <2>3, <2>5 DEF Flushed
  <2>. QED  BY <1>1, <2>5, <2>6
<1>2. CASE f[1] \notin torrents
  <2>1. blocks' = B /\ disk' = D /\ error' = error
    BY <1>2 DEF FlushOldestFailed
  <2>2. CacheType(blocks') /\ DiskType(disk') /\ ReadBlock(blocks', disk') = ReadBlock(B, D)
    BY <2>1, Zenon
  <2>3. Flushed(B, D)
    BY <2>1, <2>2 DEF Flushed, TypeOK
  <2>. QED  BY <1>2, <2>1, <2>3
<1>. QED  BY <1>1, <1>2

\* The trim meets the limit, or fails for a reason that can still be seen.
LEMMA TrimFlushed ==
  ASSUME TypeOK, NEW B, CacheType(B), IsFiniteSet(DOMAIN B), NEW limit \in Nat,
         Trim(B, limit)
  PROVE  /\ Flushed(B, disk)
         /\ \/ Cardinality(DOMAIN blocks') <= limit
            \/ \E t \in torrents : error'[t]
            \/ Orphan(blocks')
<1>. DEFINE size   == Cardinality(DOMAIN B)
            excess == IF size > limit THEN size - limit ELSE 0
<1>1. PICK F \in SUBSET DOMAIN B :
        LET C == Drop(B, F)
            D == Overlay(disk, B, F)
        IN IF Cardinality(F) = excess
             THEN blocks' = C /\ disk' = D /\ UNCHANGED error
             ELSE \E f \in DOMAIN C : OldestOf(C, {f}) /\ FlushOldestFailed(f, C, D)
  BY DEF Trim
<1>. DEFINE C == Drop(B, F)
            D == Overlay(disk, B, F)
<1>2. DiskType(disk) /\ size \in Nat
  BY FS_CardinalityType DEF TypeOK, DiskType
<1>3. CacheType(C) /\ DiskType(D) /\ DOMAIN C = DOMAIN B \ F /\ ReadBlock(C, D) = ReadBlock(B, disk)
  BY <1>2, FlushedReads
<1>4. CASE Cardinality(F) = excess
  <2>1. blocks' = C /\ disk' = D /\ error' = error
    BY <1>1, <1>4
  <2>2. CacheType(blocks') /\ DiskType(disk') /\ ReadBlock(blocks', disk') = ReadBlock(C, D)
    BY <1>3, <2>1, Zenon
  <2>3. Cardinality(DOMAIN C) = size - Cardinality((DOMAIN B) \cap F)
    BY <1>3, FS_Difference
  <2>4. (DOMAIN B) \cap F = F
    OBVIOUS
  <2>5. Cardinality(DOMAIN C) = size - excess
    BY <1>4, <2>3, <2>4
  <2>6. Cardinality(DOMAIN blocks') <= limit
    BY <1>2, <2>1, <2>5
  <2>. QED  BY <1>3, <2>1, <2>2, <2>6 DEF Flushed, TypeOK
<1>5. CASE Cardinality(F) # excess
  <2>1. PICK f \in DOMAIN C : FlushOldestFailed(f, C, D)
    BY <1>1, <1>5
  <2>2. Flushed(C, D) /\ (IF f[1] \in torrents THEN error'[f[1]] ELSE blocks' = C)
    BY <1>3, <2>1, FlushOldestFailedFlushed
  <2>3. Flushed(B, disk)
    BY <1>3, <2>2 DEF Flushed
  <2>. HIDE DEF C, D
  <2>4. CASE f[1] \in torrents
    BY <2>2, <2>3, <2>4
  <2>5. CASE f[1] \notin torrents
    <3>1. DOMAIN blocks' = DOMAIN C
      BY <2>2, <2>5
    <3>. QED  BY <2>1, <2>3, <2>5, <3>1 DEF Orphan
  <2>. QED  BY <2>4, <2>5
<1>. QED  BY <1>4, <1>5

-----------------------------------------------------------------------------
(* The invariant *)

IInv == TypeOK /\ IsFiniteSet(DOMAIN blocks) /\ OrphansComeFromErrors

\* The cache as writeBlock() has it before the trim.
Added(k, d) == [j \in DOMAIN blocks \cup {k} |->
                  IF j = k THEN [buf |-> d, added |-> now] ELSE blocks[j]]

LEMMA AddedReads ==
  ASSUME IInv, NEW k \in Keys, NEW d \in Data
  PROVE  /\ CacheType(Added(k, d)) /\ IsFiniteSet(DOMAIN Added(k, d))
         /\ DOMAIN Added(k, d) = DOMAIN blocks \cup {k}
         /\ ReadBlock(Added(k, d), disk) = [Contents EXCEPT ![k] = d]
<1>1. DOMAIN Added(k, d) = DOMAIN blocks \cup {k}
  BY DEF Added
<1>2. IsFiniteSet(DOMAIN Added(k, d))
  BY <1>1, FS_AddElement DEF IInv
<1>3. CacheType(Added(k, d))
  BY <1>1 DEF CacheType, Added, CacheBlock, IInv, TypeOK
<1>4. ReadBlock(Added(k, d), disk) = [Contents EXCEPT ![k] = d]
  BY DEF ReadBlock, Added, Contents
<1>. QED  BY <1>1, <1>2, <1>3, <1>4

\* A flush without an addition preserves the invariant and the contents.
LEMMA FlushedStep ==
  ASSUME IInv, Flushed(blocks, disk), maxBlocks' \in Limits, now' \in Nat,
         torrents' \subseteq torrents,
         \A k \in DOMAIN blocks' : k[1] \in torrents => k[1] \in torrents' \/ error'[k[1]]
  PROVE  IInv' /\ Contents' = Contents
<1>1. TypeOK'
  BY DEF IInv, TypeOK, Flushed, CacheType, DiskType
<1>2. IsFiniteSet(DOMAIN blocks')
  BY FS_Subset DEF IInv, Flushed
<1>3. ASSUME NEW k \in DOMAIN blocks', k[1] \notin torrents'
      PROVE  error'[k[1]]
  <2>1. k \in DOMAIN blocks /\ k[1] \in Torrents
    BY KeyTorrent DEF Flushed, IInv, TypeOK
  <2>. QED  BY <1>3, <2>1 DEF Flushed, IInv, OrphansComeFromErrors
<1>4. Contents' = Contents
  BY DEF Flushed, Contents
<1>. QED  BY <1>1, <1>2, <1>3, <1>4 DEF IInv, OrphansComeFromErrors

LEMMA WriteBlockStep ==
  ASSUME IInv, NEW k \in Keys, NEW d \in Data, WriteBlock(k, d)
  PROVE  IInv' /\ Contents' = [Contents EXCEPT ![k] = d]
<1>1. k[1] \in torrents /\ Trim(Added(k, d), maxBlocks)
      /\ UNCHANGED <<maxBlocks, torrents, now>>
  BY DEF WriteBlock, Added
<1>2. maxBlocks \in Nat
  BY CacheAssumption DEF IInv, TypeOK
<1>3. Flushed(Added(k, d), disk)
  BY <1>1, <1>2, AddedReads, TrimFlushed DEF IInv
<1>4. TypeOK'
  BY <1>1, <1>3 DEF IInv, TypeOK, Flushed, CacheType, DiskType
<1>5. IsFiniteSet(DOMAIN blocks')
  BY <1>3, AddedReads, FS_Subset DEF Flushed
<1>6. ASSUME NEW j \in DOMAIN blocks', j[1] \notin torrents'
      PROVE  error'[j[1]]
  <2>1. j \in DOMAIN blocks \cup {k}
    BY <1>3, AddedReads DEF Flushed
  <2>2. j # k
    BY <1>1, <1>6
  <2>3. j \in DOMAIN blocks /\ j[1] \in Torrents
    BY <2>1, <2>2, KeyTorrent DEF IInv, TypeOK
  <2>. QED  BY <1>1, <1>3, <1>6, <2>3 DEF Flushed, IInv, OrphansComeFromErrors
<1>7. Contents' = [Contents EXCEPT ![k] = d]
  BY <1>3, AddedReads DEF Flushed, Contents
<1>. QED  BY <1>4, <1>5, <1>6, <1>7 DEF IInv, OrphansComeFromErrors

LEMMA InitIInv == Init => IInv /\ Store!Init
<1>. SUFFICES ASSUME Init PROVE IInv /\ Store!Init
  OBVIOUS
<1>1. DOMAIN blocks = {}
  BY DEF Init
<1>2. TypeOK
  BY <1>1, CacheAssumption DEF Init, TypeOK
<1>3. IsFiniteSet(DOMAIN blocks)
  BY <1>1, FS_EmptySet
<1>4. Store!Init
  BY <1>1 DEF Init, Store!Init, Contents, ReadBlock
<1>. QED  BY <1>1, <1>2, <1>3, <1>4 DEF IInv, OrphansComeFromErrors

\* One step keeps the invariant and is a step, or a stutter, of the store.
LEMMA NextIInv == IInv /\ [Next]_vars => IInv' /\ [Store!Next]_Contents
<1>. SUFFICES ASSUME IInv, [Next]_vars PROVE IInv' /\ [Store!Next]_Contents
  OBVIOUS
<1>0. TypeOK /\ IsFiniteSet(DOMAIN blocks) /\ torrents \subseteq Torrents
  BY DEF IInv, TypeOK
<1>1. ASSUME NEW k \in Keys, NEW d \in Data, WriteBlock(k, d)
      PROVE  IInv' /\ Store!Next
  BY <1>1, WriteBlockStep DEF Store!Next, Store!Write
<1>2. ASSUME NEW n \in Limits, SetLimit(n)
      PROVE  IInv' /\ Contents' = Contents
  <2>1. CacheType(blocks) /\ n \in Nat
    BY <1>0, CacheAssumption DEF TypeOK, CacheType
  <2>2. Flushed(blocks, disk)
    BY <1>0, <1>2, <2>1, TrimFlushed DEF SetLimit
  <2>. QED  BY <1>0, <1>2, <2>2, FlushedStep DEF SetLimit, TypeOK
<1>3. ASSUME NEW t \in Torrents, FlushTorrent(t)
      PROVE  IInv' /\ Contents' = Contents
  <2>1. Flushed(blocks, disk)
    BY <1>0, <1>3, FlushSpanFlushed DEF FlushTorrent, KeysOf
  <2>. QED  BY <1>0, <1>3, <2>1, FlushedStep DEF FlushTorrent, TypeOK
<1>4. ASSUME NEW t \in Torrents, NEW span \in FileSpans[t], FlushFile(t, span)
      PROVE  IInv' /\ Contents' = Contents
  <2>1. {k \in KeysOf(t, blocks) : k[2] \in span} \subseteq DOMAIN blocks
    BY DEF KeysOf
  <2>2. Flushed(blocks, disk)
    BY <1>0, <1>4, <2>1, FlushSpanFlushed DEF FlushFile
  <2>. QED  BY <1>0, <1>4, <2>2, FlushedStep DEF FlushFile, TypeOK
<1>5. ASSUME NEW t \in Torrents, RemoveTorrent(t)
      PROVE  IInv' /\ Contents' = Contents
  <2>1. KeysOf(t, blocks) \subseteq DOMAIN blocks
    BY DEF KeysOf
  <2>2. Flushed(blocks, disk) /\ (error'[t] \/ DOMAIN blocks' \cap KeysOf(t, blocks) = {})
    BY <1>0, <1>5, <2>1, FlushSpanFlushed DEF RemoveTorrent
  <2>3. ASSUME NEW k \in DOMAIN blocks', k[1] \in torrents
        PROVE  k[1] \in torrents' \/ error'[k[1]]
    <3>1. k \in DOMAIN blocks
      BY <2>2 DEF Flushed
    <3>2. CASE k[1] # t
      BY <1>5, <2>3, <3>2 DEF RemoveTorrent
    <3>3. CASE k[1] = t
      BY <2>2, <3>1, <3>3 DEF KeysOf
    <3>. QED  BY <3>2, <3>3
  <2>. QED  BY <1>0, <1>5, <2>2, <2>3, FlushedStep DEF RemoveTorrent, TypeOK
<1>6. ASSUME NEW t \in Torrents, StartTorrent(t)
      PROVE  IInv' /\ Contents' = Contents
  <2>1. IInv'
    BY <1>6, KeyTorrent DEF StartTorrent, IInv, TypeOK, OrphansComeFromErrors
  <2>. QED  BY <1>6, <2>1 DEF StartTorrent, Contents
<1>7. CASE Tick
  BY <1>7 DEF Tick, IInv, TypeOK, OrphansComeFromErrors, Contents
<1>8. CASE UNCHANGED vars
  BY <1>8 DEF vars, IInv, TypeOK, OrphansComeFromErrors, Contents
<1>. QED  BY <1>1, <1>2, <1>3, <1>4, <1>5, <1>6, <1>7, <1>8 DEF Next

LEMMA Invariance == Spec => []IInv
<1>1. IInv /\ [Next]_vars => IInv'
  BY NextIInv
<1>. QED  BY <1>1, InitIInv, PTL DEF Spec

\* The cache's variables keep their types: every cached block is whole data
\* of a torrent's block (cache.h).
THEOREM CacheTypeCorrect == Spec => []TypeOK
BY Invariance, PTL DEF IInv

\* A torrent removed without a disk error leaves no block in the cache
\* (tr_torrentFreeInSessionThread() flushes before freeTorrent()).
THEOREM OrphansOnlyFromErrors == Spec => []OrphansComeFromErrors
BY Invariance, PTL DEF IInv

\* The cache implements the abstract store: whatever is flushed, trimmed or
\* fails, a block reads as what writeBlock() was last given.
THEOREM CacheImplementsStore == Spec => ImplementsStore
<1>1. IInv /\ [Next]_vars => [Store!Next]_Contents
  BY NextIInv
<1>2. Init => Store!Init
  BY InitIInv
<1>. QED  BY <1>1, <1>2, Invariance, PTL DEF Spec, ImplementsStore, Store!Spec

-----------------------------------------------------------------------------
(* The size limit *)

OverLimitStep ==
  Cardinality(DOMAIN blocks') > maxBlocks'
    => \/ DOMAIN blocks' \subseteq DOMAIN blocks /\ maxBlocks' >= maxBlocks
       \/ \E t \in torrents : error'[t]
       \/ Orphan(blocks')

LEMMA NextOverLimit == IInv /\ [Next]_vars => [OverLimitStep]_vars
<1>. SUFFICES ASSUME IInv, Next PROVE OverLimitStep
  OBVIOUS
<1>0. /\ TypeOK /\ CacheType(blocks) /\ IsFiniteSet(DOMAIN blocks) /\ torrents \subseteq Torrents
      /\ maxBlocks \in Nat
  BY CacheAssumption DEF IInv, TypeOK, CacheType
<1>1. ASSUME NEW k \in Keys, NEW d \in Data, WriteBlock(k, d)
      PROVE  OverLimitStep
  <2>1. Trim(Added(k, d), maxBlocks) /\ maxBlocks' = maxBlocks
    BY <1>1 DEF WriteBlock, Added
  <2>2. /\ DOMAIN blocks' \subseteq DOMAIN Added(k, d)
        /\ \/ Cardinality(DOMAIN blocks') <= maxBlocks
           \/ \E t \in torrents : error'[t]
           \/ Orphan(blocks')
    BY <1>0, <2>1, AddedReads, TrimFlushed DEF Flushed
  <2>3. Cardinality(DOMAIN blocks') \in Nat
    BY <2>2, AddedReads, FS_Subset, FS_CardinalityType
  <2>. QED  BY <1>0, <2>1, <2>2, <2>3 DEF OverLimitStep
<1>2. ASSUME NEW n \in Limits, SetLimit(n)
      PROVE  OverLimitStep
  <2>1. Trim(blocks, n) /\ maxBlocks' = n /\ n \in Nat
    BY <1>2, CacheAssumption DEF SetLimit
  <2>2. /\ DOMAIN blocks' \subseteq DOMAIN blocks
        /\ \/ Cardinality(DOMAIN blocks') <= n
           \/ \E t \in torrents : error'[t]
           \/ Orphan(blocks')
    BY <1>0, <2>1, TrimFlushed DEF Flushed
  <2>3. Cardinality(DOMAIN blocks') \in Nat
    BY <1>0, <2>2, FS_Subset, FS_CardinalityType
  <2>. QED  BY <2>1, <2>2, <2>3 DEF OverLimitStep
<1>3. ASSUME DOMAIN blocks' \subseteq DOMAIN blocks, maxBlocks' = maxBlocks
      PROVE  OverLimitStep
  BY <1>0, <1>3 DEF OverLimitStep
<1>4. ASSUME NEW t \in Torrents, FlushTorrent(t) \/ RemoveTorrent(t)
      PROVE  OverLimitStep
  <2>1. FlushSpan(t, KeysOf(t, blocks)) /\ maxBlocks' = maxBlocks
    BY <1>4 DEF FlushTorrent, RemoveTorrent
  <2>2. DOMAIN blocks' \subseteq DOMAIN blocks
    BY <1>0, <2>1, FlushSpanFlushed DEF Flushed, KeysOf
  <2>. QED  BY <1>3, <2>1, <2>2
<1>5. ASSUME NEW t \in Torrents, NEW span \in FileSpans[t], FlushFile(t, span)
      PROVE  OverLimitStep
  <2>1. maxBlocks' = maxBlocks
    BY <1>5 DEF FlushFile
  <2>2. DOMAIN blocks' \subseteq DOMAIN blocks
    BY <1>0, <1>5, FlushSpanFlushed DEF FlushFile, Flushed, KeysOf
  <2>. QED  BY <1>3, <2>1, <2>2
<1>6. ASSUME NEW t \in Torrents, StartTorrent(t)
      PROVE  OverLimitStep
  BY <1>3, <1>6 DEF StartTorrent
<1>7. CASE Tick
  BY <1>3, <1>7 DEF Tick
<1>. QED  BY <1>1, <1>2, <1>4, <1>5, <1>6, <1>7 DEF Next

\* cacheTrim() leaves the cache above its limit only when a torrent has a disk
\* error or a removed torrent's block is in the way.
THEOREM OverLimitOnlyFromErrors == Spec => OverLimitExplained
<1>1. IInv /\ [Next]_vars => [OverLimitStep]_vars
  BY NextOverLimit
<1>2. Spec => [][OverLimitStep]_vars
  BY <1>1, Invariance, PTL DEF Spec
<1>. QED  BY <1>2 DEF OverLimitExplained, OverLimitStep
=============================================================================
