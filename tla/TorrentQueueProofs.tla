------------------------- MODULE TorrentQueueProofs -------------------------
(***************************************************************************)
(* Theorems about the torrent queue (TorrentQueue.tla), for any number of  *)
(* torrents and any widths: when a size_t is wider than an unsigned int    *)
(* and no request asks for the position size_t(-1), the positions are      *)
(* always 0 .. n - 1.  Both conditions are needed: see the README.         *)
(***************************************************************************)
EXTENDS TorrentQueue, FiniteSetTheorems, TLAPS

\* The build and the requests for which the algorithm of
\* tr_torrentSetQueuePosition() is right.
Wide == UintMax < SizeMax /\ \A n \in Requests : n < SizeMax

LEMMA WrapFacts ==
  /\ \A n \in 0 .. SizeMax : Wrap(n) = n
  /\ Wrap(SizeMax + 1) = 0
  /\ \A n \in 1 .. SizeMax : Wrap(n + SizeMax) = n - 1
<1>1. SizeMax \in Nat
  BY QueueAssumption
<1>2. ASSUME NEW n \in 0 .. SizeMax PROVE n % (SizeMax + 1) = n
  BY <1>1
<1>3. (SizeMax + 1) % (SizeMax + 1) = 0
  BY <1>1
<1>4. ASSUME NEW n \in 1 .. SizeMax PROVE (n + SizeMax) % (SizeMax + 1) = n - 1
  BY <1>1
<1>. QED  BY <1>2, <1>3, <1>4 DEF Wrap

\* What the invariant says of the variables' types.
PosType ==
  /\ DOMAIN pos \subseteq Torrents
  /\ pos \in [DOMAIN pos -> 0 .. SizeMax]
  /\ todo \in Seq(DOMAIN pos)

LEMMA SizeFacts ==
  ASSUME PosType
  PROVE  IsFiniteSet(DOMAIN pos) /\ Size \in Nat /\ Size < UintMax
<1>1. IsFiniteSet(Torrents) /\ Cardinality(Torrents) < UintMax /\ UintMax \in Nat
  BY QueueAssumption
<1>2. IsFiniteSet(DOMAIN pos) /\ Cardinality(DOMAIN pos) <= Cardinality(Torrents)
  BY <1>1, FS_Subset DEF PosType
<1>3. Cardinality(DOMAIN pos) \in Nat /\ Cardinality(Torrents) \in Nat
  BY <1>1, <1>2, FS_CardinalityType
<1>. QED  BY <1>1, <1>2, <1>3 DEF Size

\* A torrent that moves lands on the position asked for, or on the last one,
\* and the others fill the remaining positions.
LEMMA SetSequenced ==
  ASSUME Wide, PosType, Sequenced, NEW t \in DOMAIN pos, NEW new \in 0 .. SizeMax,
         new < SizeMax, SetQueuePosition(t, new)
  PROVE  /\ DOMAIN pos' = DOMAIN pos
         /\ pos' \in [DOMAIN pos -> 0 .. SizeMax]
         /\ Sequenced'
         /\ \A u, v \in DOMAIN pos \ {t} : pos[u] < pos[v] => pos'[u] < pos'[v]
         /\ pos'[t] = IF new < Size - 1 THEN new ELSE Size - 1
<1>. DEFINE old   == pos[t]
            n     == Size
            other == DOMAIN pos \ {t}
            fin   == IF new < n - 1 THEN new ELSE n - 1
            moved == [u \in DOMAIN pos |-> Shift(IF u = t THEN SizeMax ELSE pos[u], pos[t], new)]
            past  == {0} \cup {Wrap(moved[u] + 1) : u \in DOMAIN pos}
<1>1. n \in Nat /\ n < SizeMax /\ SizeMax \in Nat /\ old \in 0 .. n - 1 /\ n >= 1
  BY SizeFacts, QueueAssumption DEF Wide, Sequenced
<1>2. moved[t] = SizeMax
  BY <1>1 DEF Shift
<1>3. ASSUME NEW u \in other
      PROVE  moved[u] = IF old < new /\ old < pos[u] /\ pos[u] <= new THEN pos[u] - 1
                        ELSE IF new < old /\ new <= pos[u] /\ pos[u] < old THEN pos[u] + 1
                        ELSE pos[u]
  <2>1. pos[u] \in 0 .. n - 1 /\ pos[u] # old
    BY DEF Sequenced
  <2>2. moved[u] = Shift(pos[u], old, new)
    OBVIOUS
  <2>3. pos[u] \in 1 .. SizeMax => Wrap(pos[u] + SizeMax) = pos[u] - 1
    BY WrapFacts
  <2>4. Wrap(pos[u] + 1) = pos[u] + 1
    BY <1>1, <2>1, WrapFacts
  <2>. QED  BY <1>1, <2>1, <2>2, <2>3, <2>4 DEF Shift
<1>. HIDE DEF moved
<1>4. \A u \in other : pos[u] \in 0 .. n - 1 /\ pos[u] # old
  BY DEF Sequenced
<1>5. \A u \in other : moved[u] \in 0 .. n - 1 /\ moved[u] # fin
  BY <1>1, <1>3, <1>4
<1>6. \A u, v \in other : moved[u] = moved[v] => u = v
  <2>1. \A u, v \in other : pos[u] = pos[v] => u = v
    BY DEF Sequenced
  <2>. QED  BY <1>1, <1>3, <1>4, <2>1
<1>7. ASSUME NEW i \in 0 .. n - 1, i # fin
      PROVE  \E u \in other : moved[u] = i
  <2>. DEFINE j == IF old <= i /\ i < new THEN i + 1
                   ELSE IF new < i /\ i <= old THEN i - 1 ELSE i
  <2>1. j \in 0 .. n - 1 /\ j # old
    BY <1>1, <1>7
  <2>2. PICK u \in DOMAIN pos : pos[u] = j
    BY <2>1 DEF Sequenced
  <2>3. u \in other
    BY <2>1, <2>2
  <2>. QED  BY <1>1, <1>3, <1>7, <2>1, <2>2, <2>3
<1>8. PICK current \in past :
        /\ \A m \in past : m <= current
        /\ pos' = [moved EXCEPT ![t] = IF new < current THEN new ELSE current]
  BY DEF SetQueuePosition, moved
<1>9. \A u \in other : Wrap(moved[u] + 1) = moved[u] + 1 /\ moved[u] + 1 \in past
  BY <1>1, <1>5, WrapFacts
<1>10. current = 0 \/ \E u \in other : current = moved[u] + 1
  BY <1>2, <1>9, WrapFacts
<1>11. DOMAIN moved = DOMAIN pos
  BY DEF moved
<1>12. pos'[t] = fin
  <2>1. CASE new < n - 1
    <3>1. \E u \in other : moved[u] = n - 1
      BY <1>1, <1>7, <2>1
    <3>2. n <= current
      BY <1>1, <1>8, <1>9, <3>1
    <3>. QED  BY <1>1, <1>8, <1>10, <1>11, <1>5, <2>1, <3>2
  <2>2. CASE ~(new < n - 1)
    <3>1. current <= n - 1 /\ current \in Nat
      BY <1>1, <1>5, <1>10, <2>2
    <3>2. n - 1 <= current
      <4>1. CASE n = 1
        BY <3>1, <4>1
      <4>2. CASE n # 1
        <5>1. \E u \in other : moved[u] = n - 2
          BY <1>1, <1>7, <2>2, <4>2
        <5>. QED  BY <1>1, <1>8, <1>9, <5>1
      <4>. QED  BY <4>1, <4>2
    <3>. QED  BY <1>1, <1>8, <1>11, <2>2, <3>1, <3>2
  <2>. QED  BY <2>1, <2>2
<1>13. /\ DOMAIN pos' = DOMAIN pos
       /\ \A u \in other : pos'[u] = moved[u]
  BY <1>8, <1>11
<1>14. Size' = n
  BY <1>13 DEF Size
<1>15. fin \in 0 .. n - 1
  BY <1>1
<1>16. \A u \in DOMAIN pos : pos'[u] \in 0 .. n - 1
  BY <1>5, <1>12, <1>13, <1>15
<1>17. \A u, v \in DOMAIN pos : pos'[u] = pos'[v] => u = v
  BY <1>5, <1>6, <1>12, <1>13
<1>18. \A i \in 0 .. n - 1 : \E u \in DOMAIN pos : pos'[u] = i
  BY <1>7, <1>12, <1>13
<1>19. pos' \in [DOMAIN pos -> 0 .. SizeMax]
  <2>1. pos' = [u \in DOMAIN pos |-> pos'[u]]
    BY <1>8, <1>11
  <2>. QED  BY <1>1, <1>16, <2>1
<1>20. \A u, v \in other : pos[u] < pos[v] => pos'[u] < pos'[v]
  BY <1>1, <1>3, <1>4, <1>13
<1>. QED  BY <1>12, <1>13, <1>14, <1>16, <1>17, <1>18, <1>19, <1>20 DEF Sequenced

-----------------------------------------------------------------------------
(* The invariant *)

IInv == TypeOK /\ Sequenced

LEMMA IInvPosType == IInv => PosType
BY DEF IInv, TypeOK, PosType

LEMMA AddSequenced ==
  ASSUME IInv, NEW t \in Torrents, AddTorrent(t)
  PROVE  IInv'
<1>1. IsFiniteSet(DOMAIN pos) /\ Size \in Nat /\ Size < UintMax /\ UintMax \in 0 .. SizeMax
  BY IInvPosType, SizeFacts, QueueAssumption
<1>2. /\ t \notin DOMAIN pos /\ todo = <<>> /\ todo' = <<>> /\ op' = "none"
      /\ pos' = [u \in DOMAIN pos \cup {t} |-> IF u = t THEN Size ELSE pos[u]]
      /\ named' = named /\ start' = start
  BY DEF AddTorrent, Alone
<1>3. DOMAIN pos' = DOMAIN pos \cup {t} /\ Size' = Size + 1
  BY <1>1, <1>2, FS_AddElement DEF Size
<1>4. \A u \in DOMAIN pos : pos[u] \in 0 .. Size - 1
  BY DEF IInv, Sequenced
<1>5. \A u \in DOMAIN pos' : pos'[u] \in 0 .. Size
  BY <1>1, <1>2, <1>3, <1>4
<1>6. TypeOK'
  <2>1. pos' = [u \in DOMAIN pos' |-> pos'[u]]
    BY <1>2
  <2>2. \A u \in DOMAIN pos' : pos'[u] \in 0 .. SizeMax
    BY <1>1, <1>5, QueueAssumption
  <2>3. pos' \in [DOMAIN pos' -> 0 .. SizeMax]
    BY <2>1, <2>2
  <2>. QED  BY <1>2, <1>3, <2>3 DEF IInv, TypeOK
<1>7. \A u, v \in DOMAIN pos' : pos'[u] = pos'[v] => u = v
  BY <1>1, <1>2, <1>4 DEF IInv, Sequenced
<1>8. ASSUME NEW i \in 0 .. Size
      PROVE  \E u \in DOMAIN pos' : pos'[u] = i
  <2>1. CASE i = Size
    BY <1>2, <2>1
  <2>2. CASE i # Size
    <3>1. PICK u \in DOMAIN pos : pos[u] = i
      BY <1>1, <2>2 DEF IInv, Sequenced
    <3>. QED  BY <1>2, <3>1
  <2>. QED  BY <2>1, <2>2
<1>9. Size' - 1 = Size
  BY <1>1, <1>3
<1>10. Sequenced'
  BY <1>5, <1>7, <1>8, <1>9 DEF Sequenced
<1>. QED  BY <1>6, <1>10 DEF IInv

LEMMA FreeSequenced ==
  ASSUME IInv, NEW t \in Torrents, FreeTorrent(t)
  PROVE  IInv'
<1>1. IsFiniteSet(DOMAIN pos) /\ Size \in Nat /\ Size < UintMax /\ UintMax \in 0 .. SizeMax
  BY IInvPosType, SizeFacts, QueueAssumption
<1>2. /\ t \in DOMAIN pos /\ todo = <<>> /\ todo' = <<>> /\ op' = "none"
      /\ pos' = [u \in DOMAIN pos \ {t} |-> IF pos[u] > pos[t] THEN pos[u] - 1 ELSE pos[u]]
      /\ named' = named /\ start' = start
  BY DEF FreeTorrent, Alone
<1>3. DOMAIN pos' = DOMAIN pos \ {t} /\ Size' = Size - 1
  BY <1>1, <1>2, FS_RemoveElement DEF Size
<1>4. /\ \A u \in DOMAIN pos : pos[u] \in 0 .. Size - 1
      /\ \A u \in DOMAIN pos' : pos[u] # pos[t]
  BY <1>2, <1>3 DEF IInv, Sequenced
<1>5. \A u \in DOMAIN pos' : pos'[u] \in 0 .. Size' - 1
  BY <1>1, <1>2, <1>3, <1>4
<1>6. TypeOK'
  <2>1. pos' \in [DOMAIN pos' -> 0 .. SizeMax]
    BY <1>1, <1>2, <1>3, <1>5, QueueAssumption
  <2>. QED  BY <1>2, <1>3, <2>1 DEF IInv, TypeOK
<1>7. \A u, v \in DOMAIN pos' : pos'[u] = pos'[v] => u = v
  BY <1>1, <1>2, <1>3, <1>4 DEF IInv, Sequenced
<1>8. ASSUME NEW i \in 0 .. Size' - 1
      PROVE  \E u \in DOMAIN pos' : pos'[u] = i
  <2>. DEFINE j == IF i < pos[t] THEN i ELSE i + 1
  <2>1. j \in 0 .. Size - 1 /\ j # pos[t]
    BY <1>1, <1>2, <1>3, <1>4
  <2>2. PICK u \in DOMAIN pos : pos[u] = j
    BY <2>1 DEF IInv, Sequenced
  <2>3. u \in DOMAIN pos'
    BY <1>3, <2>1, <2>2
  <2>4. pos[t] \in Nat
    BY <1>1, <1>2, <1>4
  <2>5. pos'[u] = i
    BY <1>2, <1>3, <2>1, <2>2, <2>3, <2>4
  <2>. QED  BY <2>3, <2>5
<1>9. Sequenced'
  BY <1>5, <1>7, <1>8 DEF Sequenced
<1>. QED  BY <1>6, <1>9 DEF IInv

LEMMA MoveSequenced ==
  ASSUME Wide, IInv, MoveNext
  PROVE  IInv'
<1>. DEFINE t == Head(todo)
<1>1. /\ todo # <<>> /\ todo' = Tail(todo) /\ op' = op /\ named' = named /\ start' = start
      /\ \/ op = "top" /\ SetQueuePosition(t, 0)
         \/ op = "up" /\ pos[t] > 0 /\ SetQueuePosition(t, pos[t] - 1)
         \/ op = "down" /\ pos[t] < UintMax /\ SetQueuePosition(t, pos[t] + 1)
         \/ op = "bottom" /\ SetQueuePosition(t, UintMax)
         \/ pos' = pos
  BY DEF MoveNext
<1>2. todo \in Seq(DOMAIN pos) /\ t \in DOMAIN pos /\ Tail(todo) \in Seq(DOMAIN pos)
  BY <1>1 DEF IInv, TypeOK
<1>3. PosType /\ Sequenced /\ pos[t] \in 0 .. SizeMax
  BY <1>2, IInvPosType DEF IInv, TypeOK
<1>4. UintMax \in Nat /\ SizeMax \in Nat /\ UintMax < SizeMax
  BY QueueAssumption DEF Wide
<1>5. CASE pos' = pos
  <2>1. Sequenced'
    BY <1>3, <1>5 DEF Sequenced, Size
  <2>. QED  BY <1>1, <1>2, <1>5, <2>1 DEF IInv, TypeOK
<1>6. ASSUME NEW new \in 0 .. SizeMax, new < SizeMax, SetQueuePosition(t, new)
      PROVE  IInv'
  <2>1. DOMAIN pos' = DOMAIN pos /\ pos' \in [DOMAIN pos -> 0 .. SizeMax] /\ Sequenced'
    BY <1>2, <1>3, <1>6, SetSequenced
  <2>. QED  BY <1>1, <1>2, <2>1 DEF IInv, TypeOK
<1>7. CASE op = "top" /\ SetQueuePosition(t, 0)
  BY <1>4, <1>6, <1>7
<1>8. CASE op = "up" /\ pos[t] > 0 /\ SetQueuePosition(t, pos[t] - 1)
  BY <1>3, <1>4, <1>6, <1>8
<1>9. CASE op = "down" /\ pos[t] < UintMax /\ SetQueuePosition(t, pos[t] + 1)
  BY <1>3, <1>4, <1>6, <1>9
<1>10. CASE op = "bottom" /\ SetQueuePosition(t, UintMax)
  BY <1>4, <1>6, <1>10
<1>. QED  BY <1>1, <1>5, <1>7, <1>8, <1>9, <1>10

LEMMA NextIInv ==
  ASSUME Wide
  PROVE  IInv /\ [Next]_vars => IInv'
<1>. SUFFICES ASSUME IInv, [Next]_vars PROVE IInv'
  OBVIOUS
<1>1. ASSUME NEW t \in Torrents, AddTorrent(t) PROVE IInv'
  BY <1>1, AddSequenced
<1>2. ASSUME NEW t \in Torrents, FreeTorrent(t) PROVE IInv'
  BY <1>2, FreeSequenced
<1>3. ASSUME NEW t \in Torrents, NEW n \in Requests, TorrentSet(t, n)
      PROVE  IInv'
  <2>1. t \in DOMAIN pos /\ SetQueuePosition(t, n) /\ n \in 0 .. SizeMax /\ n < SizeMax
    BY <1>3, QueueAssumption DEF TorrentSet, Wide
  <2>2. DOMAIN pos' = DOMAIN pos /\ pos' \in [DOMAIN pos -> 0 .. SizeMax] /\ Sequenced'
    BY <2>1, IInvPosType, SetSequenced DEF IInv
  <2>. QED  BY <1>3, <2>2 DEF TorrentSet, Alone, IInv, TypeOK
<1>4. ASSUME NEW method \in {"top", "up", "down", "bottom"}, NEW s \in Batches,
             BeginMove(method, s)
      PROVE  IInv'
  <2>1. s \in Seq(DOMAIN pos) /\ \A i \in DOMAIN s : s[i] \in DOMAIN pos
    BY QueueAssumption DEF Batches
  <2>2. pos' = pos /\ todo' = s /\ op' = method /\ start' = pos /\ named' \subseteq DOMAIN pos
    BY <1>4, <2>1 DEF BeginMove
  <2>3. Sequenced'
    BY <2>2 DEF IInv, Sequenced, Size
  <2>. QED  BY <2>1, <2>2, <2>3 DEF IInv, TypeOK
<1>5. CASE MoveNext
  BY <1>5, MoveSequenced
<1>6. CASE UNCHANGED vars
  BY <1>6 DEF vars, IInv, TypeOK, Sequenced, Size
<1>. QED  BY <1>1, <1>2, <1>3, <1>4, <1>5, <1>6 DEF Next

LEMMA InitIInv == Init => IInv
<1>. SUFFICES ASSUME Init PROVE IInv
  OBVIOUS
<1>1. DOMAIN pos = {} /\ Size = 0
  BY FS_EmptySet DEF Init, Size
<1>. QED  BY <1>1 DEF Init, IInv, TypeOK, Sequenced

LEMMA Invariance ==
  ASSUME Wide
  PROVE  Spec => []IInv
<1>1. IInv /\ [Next]_vars => IInv'
  BY NextIInv
<1>. QED  BY <1>1, InitIInv, PTL DEF Spec

\* The variables keep their types (torrent.h): positions are of the torrents
\* in the session, and a batch names only such torrents.
THEOREM QueueTypeCorrect ==
  ASSUME Wide
  PROVE  Spec => []TypeOK
BY Invariance, PTL DEF IInv

\* The assertion queueIsSequenced() of tr_torrentSetQueuePosition() and
\* freeTorrent() holds, after every single move of a batch as well.
THEOREM QueueIsSequenced ==
  ASSUME Wide
  PROVE  Spec => []Sequenced
BY Invariance, PTL DEF IInv

-----------------------------------------------------------------------------
(* The order of the others *)

KeepOrderStep ==
  \E t \in Torrents :
    \A u, v \in (DOMAIN pos \cap DOMAIN pos') \ {t} :
      pos[u] < pos[v] => pos'[u] < pos'[v]

LEMMA NextKeepOrder ==
  ASSUME Wide
  PROVE  IInv /\ [Next]_vars => [KeepOrderStep]_vars
<1>. SUFFICES ASSUME IInv, Next, vars' # vars PROVE KeepOrderStep
  OBVIOUS
<1>0. PosType /\ Sequenced /\ UintMax \in 0 .. SizeMax /\ SizeMax \in Nat /\ UintMax < SizeMax
  BY IInvPosType, QueueAssumption DEF IInv, Wide
<1>1. ASSUME NEW t \in DOMAIN pos, NEW new \in 0 .. SizeMax, new < SizeMax, SetQueuePosition(t, new)
      PROVE  KeepOrderStep
  <2>1. t \in Torrents
    BY <1>0 DEF PosType
  <2>2. \A u, v \in DOMAIN pos \ {t} : pos[u] < pos[v] => pos'[u] < pos'[v]
    BY <1>0, <1>1, SetSequenced
  <2>. QED  BY <2>1, <2>2 DEF KeepOrderStep
<1>2. ASSUME pos' = pos, Torrents # {}
      PROVE  KeepOrderStep
  BY <1>2 DEF KeepOrderStep
<1>3. ASSUME NEW t \in Torrents, AddTorrent(t) \/ FreeTorrent(t)
      PROVE  KeepOrderStep
  <2>1. CASE AddTorrent(t)
    BY <2>1 DEF AddTorrent, KeepOrderStep
  <2>2. CASE FreeTorrent(t)
    <3>1. pos' = [u \in DOMAIN pos \ {t} |-> IF pos[u] > pos[t] THEN pos[u] - 1 ELSE pos[u]]
      BY <2>2 DEF FreeTorrent
    <3>2. \A u \in DOMAIN pos \ {t} : pos[u] \in Nat /\ pos[t] \in Nat /\ pos[u] # pos[t]
      BY <1>0, <2>2 DEF FreeTorrent, PosType, Sequenced
    <3>3. \A u, v \in DOMAIN pos \ {t} : pos[u] < pos[v] => pos'[u] < pos'[v]
      BY <3>1, <3>2
    <3>. QED  BY <3>3 DEF KeepOrderStep
  <2>. QED  BY <1>3, <2>1, <2>2
<1>4. ASSUME NEW t \in Torrents, NEW n \in Requests, TorrentSet(t, n)
      PROVE  KeepOrderStep
  BY <1>1, <1>4, QueueAssumption DEF TorrentSet, Wide
<1>5. ASSUME NEW method \in {"top", "up", "down", "bottom"}, NEW s \in Batches,
             BeginMove(method, s)
      PROVE  KeepOrderStep
  <2>1. Torrents # {}
    <3>1. PICK n \in 1 .. MaxBatch : s \in [1 .. n -> DOMAIN pos]
      BY DEF Batches
    <3>2. s[1] \in DOMAIN pos
      BY <3>1, QueueAssumption
    <3>. QED  BY <1>0, <3>2 DEF PosType
  <2>. QED  BY <1>2, <1>5, <2>1 DEF BeginMove
<1>6. CASE MoveNext
  <2>. DEFINE t == Head(todo)
  <2>1. todo # <<>> /\ todo \in Seq(DOMAIN pos)
    BY <1>0, <1>6 DEF MoveNext, PosType
  <2>2. t \in DOMAIN pos /\ pos[t] \in 0 .. SizeMax /\ Torrents # {}
    BY <1>0, <2>1 DEF PosType
  <2>3. \/ SetQueuePosition(t, 0)
        \/ pos[t] > 0 /\ SetQueuePosition(t, pos[t] - 1)
        \/ pos[t] < UintMax /\ SetQueuePosition(t, pos[t] + 1)
        \/ SetQueuePosition(t, UintMax)
        \/ pos' = pos
    BY <1>6 DEF MoveNext
  <2>. HIDE DEF t
  <2>4. CASE SetQueuePosition(t, 0)
    BY <1>0, <1>1, <2>2, <2>4
  <2>5. CASE pos[t] > 0 /\ SetQueuePosition(t, pos[t] - 1)
    BY <1>0, <1>1, <2>2, <2>5
  <2>6. CASE pos[t] < UintMax /\ SetQueuePosition(t, pos[t] + 1)
    BY <1>0, <1>1, <2>2, <2>6
  <2>7. CASE SetQueuePosition(t, UintMax)
    BY <1>0, <1>1, <2>2, <2>7
  <2>8. CASE pos' = pos
    BY <1>2, <2>2, <2>8
  <2>. QED  BY <2>3, <2>4, <2>5, <2>6, <2>7, <2>8
<1>. QED  BY <1>3, <1>4, <1>5, <1>6 DEF Next

\* A move, an addition or a removal changes the order of at most one torrent
\* with the others (the shifting loop of tr_torrentSetQueuePosition()).
THEOREM QueueKeepsOrder ==
  ASSUME Wide
  PROVE  Spec => OthersKeepOrder
<1>1. IInv /\ [Next]_vars => [KeepOrderStep]_vars
  BY NextKeepOrder
<1>2. Spec => [][KeepOrderStep]_vars
  BY <1>1, Invariance, PTL DEF Spec
<1>. QED  BY <1>2 DEF OthersKeepOrder, KeepOrderStep

-----------------------------------------------------------------------------
(* Where a batch lands *)

\* The order of the session's torrents once those of D were moved: as before the
\* batch among D and among the others, and D on the side that the method says.
OrderAfter(D) ==
  \A u, v \in DOMAIN pos :
    pos[u] < pos[v] <=>
      IF u \in D <=> v \in D THEN start[u] < start[v] ELSE (u \in D <=> op = "top")

\* The torrents of D were moved and those of todo are to be: a torrent named
\* twice is in both, and none of D is to be passed the wrong way.
MovedSoFar(D) ==
  /\ D \subseteq named
  /\ named \subseteq D \cup {todo[i] : i \in DOMAIN todo}
  /\ \A d \in D, i \in DOMAIN todo :
       IF op = "top" THEN start[d] >= start[todo[i]] ELSE start[d] <= start[todo[i]]
  /\ OrderAfter(D)

\* What is true all along a batch that goes to the top or to the bottom, and
\* after it until something else moves.
Landing ==
  op \in {"top", "bottom"} =>
    /\ DOMAIN start = DOMAIN pos
    /\ \A u, v \in DOMAIN start : start[u] = start[v] => u = v
    /\ \A i \in DOMAIN todo : todo[i] \in named
    /\ \A i, j \in DOMAIN todo :
         i < j => IF op = "top" THEN start[todo[i]] >= start[todo[j]]
                                ELSE start[todo[i]] <= start[todo[j]]
    /\ \E D \in SUBSET DOMAIN pos : MovedSoFar(D)

\* The moves of such a batch put each torrent past all the others.
LEMMA MoveLands ==
  ASSUME Wide, IInv, Landing, MoveNext
  PROVE  Landing'
<1>. SUFFICES ASSUME op' \in {"top", "bottom"} PROVE Landing'
  BY DEF Landing
<1>1. todo # <<>> /\ todo' = Tail(todo) /\ op' = op /\ named' = named /\ start' = start
  BY DEF MoveNext
<1>2. todo \in Seq(DOMAIN pos) /\ op \in {"top", "bottom"}
  BY <1>1 DEF IInv, TypeOK
<1>3. PICK t \in DOMAIN pos : t = Head(todo) /\ t = todo[1] /\ 1 \in DOMAIN todo
  BY <1>1, <1>2
<1>4. /\ DOMAIN start = DOMAIN pos
      /\ \A u, v \in DOMAIN start : start[u] = start[v] => u = v
      /\ \A i \in DOMAIN todo : todo[i] \in named
      /\ \A i, j \in DOMAIN todo :
           i < j => IF op = "top" THEN start[todo[i]] >= start[todo[j]]
                                  ELSE start[todo[i]] <= start[todo[j]]
  BY <1>2 DEF Landing
<1>5. PICK D \in SUBSET DOMAIN pos : MovedSoFar(D)
  BY <1>2 DEF Landing
<1>6. PosType /\ Sequenced /\ SizeMax \in Nat /\ UintMax \in Nat /\ UintMax < SizeMax
  BY IInvPosType, QueueAssumption DEF IInv, Wide
<1>7. Size \in Nat /\ Size < UintMax
  BY <1>6, SizeFacts
<1>8. PICK new \in 0 .. SizeMax :
        /\ new = IF op = "top" THEN 0 ELSE UintMax
        /\ new < SizeMax
        /\ SetQueuePosition(t, new)
  <2>1. CASE op = "top"
    BY <1>3, <1>6, <2>1 DEF MoveNext
  <2>2. CASE op = "bottom"
    BY <1>3, <1>6, <2>2 DEF MoveNext
  <2>. QED  BY <1>2, <2>1, <2>2
<1>9. /\ DOMAIN pos' = DOMAIN pos
      /\ Sequenced'
      /\ \A u, v \in DOMAIN pos \ {t} : pos[u] < pos[v] => pos'[u] < pos'[v]
      /\ pos'[t] = IF new < Size - 1 THEN new ELSE Size - 1
  BY <1>6, <1>8, SetSequenced
<1>10. Size' = Size /\ \A u \in DOMAIN pos : pos[u] \in 0 .. Size - 1 /\ pos'[u] \in 0 .. Size - 1
  <2>1. Size' = Size
    BY <1>9 DEF Size
  <2>. QED  BY <1>6, <1>9, <2>1 DEF Sequenced
<1>11. pos'[t] = IF op = "top" THEN 0 ELSE Size - 1
  BY <1>2, <1>7, <1>8, <1>9, <1>10
<1>12. \A u, v \in DOMAIN pos : pos'[u] = pos'[v] => u = v
  BY <1>9 DEF Sequenced
<1>13. \A u, v \in DOMAIN pos \ {t} : pos'[u] < pos'[v] <=> pos[u] < pos[v]
  <2>1. \A u, v \in DOMAIN pos : pos[u] = pos[v] => u = v
    BY <1>6 DEF Sequenced
  <2>. QED  BY <1>9, <1>10, <2>1
<1>14. \A u \in DOMAIN pos \ {t} : IF op = "top" THEN pos'[t] < pos'[u] ELSE pos'[u] < pos'[t]
  BY <1>7, <1>10, <1>11, <1>12
<1>15. \A u \in DOMAIN pos : start[u] \in Nat
  BY <1>4 DEF IInv, TypeOK
<1>16. /\ todo' \in Seq(DOMAIN pos)
       /\ \A i \in DOMAIN todo' : i \in Nat /\ i + 1 \in DOMAIN todo /\ 1 < i + 1 /\ todo'[i] = todo[i + 1]
       /\ \A i \in DOMAIN todo : i = 1 \/ (i - 1 \in DOMAIN todo' /\ todo'[i - 1] = todo[i])
  BY <1>1, <1>2
<1>. DEFINE E == D \cup {t}
<1>17. \A d \in D : IF op = "top" THEN start[d] >= start[t] ELSE start[d] <= start[t]
  BY <1>3, <1>5 DEF MovedSoFar
<1>18. OrderAfter(E)'
  <2>. SUFFICES ASSUME NEW u \in DOMAIN pos, NEW v \in DOMAIN pos
                PROVE  pos'[u] < pos'[v] <=>
                         IF u \in E <=> v \in E THEN start[u] < start[v] ELSE (u \in E <=> op = "top")
    BY <1>1, <1>9 DEF OrderAfter
  <2>1. start[u] \in Nat /\ start[v] \in Nat /\ start[t] \in Nat
    BY <1>15
  <2>2. pos'[u] \in Nat /\ pos'[v] \in Nat /\ pos'[t] \in Nat
    BY <1>10
  <2>3. CASE u # t /\ v # t
    <3>1. pos'[u] < pos'[v] <=> pos[u] < pos[v]
      BY <1>13, <2>3
    <3>2. pos[u] < pos[v] <=>
            IF u \in D <=> v \in D THEN start[u] < start[v] ELSE (u \in D <=> op = "top")
      BY <1>5 DEF MovedSoFar, OrderAfter
    <3>3. (u \in E <=> u \in D) /\ (v \in E <=> v \in D)
      BY <2>3
    <3>. QED  BY <3>1, <3>2, <3>3
  <2>4. CASE u = t /\ v = t
    BY <2>1, <2>2, <2>4
  <2>5. CASE u = t /\ v # t
    <3>1. IF op = "top" THEN pos'[u] < pos'[v] ELSE ~(pos'[u] < pos'[v])
      BY <1>14, <2>2, <2>5
    <3>2. v \in D => IF op = "top" THEN start[u] < start[v] ELSE ~(start[u] < start[v])
      BY <1>4, <1>17, <2>1, <2>5
    <3>3. u \in E /\ (v \in E <=> v \in D)
      BY <2>5
    <3>. QED  BY <3>1, <3>2, <3>3
  <2>6. CASE u # t /\ v = t
    <3>1. IF op = "top" THEN ~(pos'[u] < pos'[v]) ELSE pos'[u] < pos'[v]
      BY <1>14, <2>2, <2>6
    <3>2. u \in D => IF op = "top" THEN ~(start[u] < start[v]) ELSE start[u] < start[v]
      BY <1>4, <1>17, <2>1, <2>6
    <3>3. v \in E /\ (u \in E <=> u \in D)
      BY <2>6
    <3>. QED  BY <3>1, <3>2, <3>3
  <2>. QED  BY <2>3, <2>4, <2>5, <2>6
<1>19. E \subseteq named /\ named \subseteq E \cup {todo'[i] : i \in DOMAIN todo'}
  <2>1. D \subseteq named /\ named \subseteq D \cup {todo[i] : i \in DOMAIN todo} /\ t \in named
    BY <1>3, <1>4, <1>5 DEF MovedSoFar
  <2>2. \A i \in DOMAIN todo : todo[i] \in E \cup {todo'[k] : k \in DOMAIN todo'}
    BY <1>3, <1>16
  <2>. QED  BY <2>1, <2>2
<1>20. \A d \in E, i \in DOMAIN todo' :
         IF op = "top" THEN start[d] >= start[todo'[i]] ELSE start[d] <= start[todo'[i]]
  <2>. SUFFICES ASSUME NEW d \in E, NEW i \in DOMAIN todo'
                PROVE  IF op = "top" THEN start[d] >= start[todo[i + 1]]
                                     ELSE start[d] <= start[todo[i + 1]]
    BY <1>16
  <2>1. i + 1 \in DOMAIN todo /\ 1 < i + 1
    BY <1>16
  <2>2. CASE d \in D
    BY <1>5, <2>1, <2>2 DEF MovedSoFar
  <2>3. CASE d = t
    BY <1>3, <1>4, <2>1, <2>3
  <2>. QED  BY <2>2, <2>3
<1>21. MovedSoFar(E)'
  BY <1>1, <1>18, <1>19, <1>20 DEF MovedSoFar
<1>22. \A i, j \in DOMAIN todo' :
         i < j => IF op = "top" THEN start[todo'[i]] >= start[todo'[j]]
                                ELSE start[todo'[i]] <= start[todo'[j]]
  <2>. SUFFICES ASSUME NEW i \in DOMAIN todo', NEW j \in DOMAIN todo', i < j
                PROVE  IF op = "top" THEN start[todo[i + 1]] >= start[todo[j + 1]]
                                     ELSE start[todo[i + 1]] <= start[todo[j + 1]]
    BY <1>16
  <2>. QED  BY <1>4, <1>16
<1>23. E \in SUBSET DOMAIN pos
  OBVIOUS
<1>24. \A i \in DOMAIN todo' : todo'[i] \in named
  BY <1>4, <1>16
<1>. HIDE DEF E
<1>25. \E F \in SUBSET DOMAIN pos' : MovedSoFar(F)'
  BY <1>9, <1>21, <1>23
<1>. QED  BY <1>1, <1>4, <1>9, <1>22, <1>24, <1>25 DEF Landing

\* A batch begins with nobody moved.
LEMMA BeginLands ==
  ASSUME IInv, NEW method \in {"top", "up", "down", "bottom"}, NEW s \in Batches,
         BeginMove(method, s)
  PROVE  Landing'
<1>1. /\ op' = method /\ todo' = s /\ named' = {s[i] : i \in DOMAIN s}
      /\ start' = pos /\ pos' = pos /\ Sorted(method, s)
  BY DEF BeginMove
<1>2. /\ DOMAIN start' = DOMAIN pos'
      /\ \A u, v \in DOMAIN start' : start'[u] = start'[v] => u = v
      /\ \A i \in DOMAIN todo' : todo'[i] \in named'
  BY <1>1 DEF IInv, Sequenced
<1>3. ASSUME op' \in {"top", "bottom"}
      PROVE  \A i, j \in DOMAIN todo' :
               i < j => IF op' = "top" THEN start'[todo'[i]] >= start'[todo'[j]]
                                       ELSE start'[todo'[i]] <= start'[todo'[j]]
  BY <1>1, <1>3 DEF Sorted
<1>4. MovedSoFar({})'
  BY <1>1 DEF MovedSoFar, OrderAfter
<1>. QED  BY <1>2, <1>3, <1>4 DEF Landing

LEMMA NextLands ==
  ASSUME Wide
  PROVE  IInv /\ Landing /\ [Next]_vars => Landing'
<1>. SUFFICES ASSUME IInv, Landing, [Next]_vars PROVE Landing'
  OBVIOUS
<1>1. CASE op' = "none"
  BY <1>1 DEF Landing
<1>2. ASSUME NEW t \in Torrents, AddTorrent(t) \/ FreeTorrent(t) PROVE Landing'
  BY <1>1, <1>2 DEF AddTorrent, FreeTorrent, Alone
<1>3. ASSUME NEW t \in Torrents, NEW n \in Requests, TorrentSet(t, n) PROVE Landing'
  BY <1>1, <1>3 DEF TorrentSet, Alone
<1>4. ASSUME NEW method \in {"top", "up", "down", "bottom"}, NEW s \in Batches,
             BeginMove(method, s)
      PROVE  Landing'
  BY <1>4, BeginLands
<1>5. CASE MoveNext
  BY <1>5, MoveLands
<1>6. CASE UNCHANGED vars
  BY <1>6 DEF vars, Landing, MovedSoFar, OrderAfter
<1>. QED  BY <1>2, <1>3, <1>4, <1>5, <1>6 DEF Next

\* A batch that was moved to the top (the bottom) precedes (follows) all the
\* others, each in its former order, whichever torrents it named and however
\* often (tr_torrentsQueueMoveTop() and tr_torrentsQueueMoveBottom()).
THEOREM BatchesLand ==
  ASSUME Wide
  PROVE  Spec => []BatchLands
<1>1. Init => Landing
  BY DEF Init, Landing
<1>2. IInv /\ Landing /\ [Next]_vars => Landing'
  BY NextLands
<1>3. Landing => BatchLands
  <2>. SUFFICES ASSUME Landing, todo = <<>>, op \in {"top", "bottom"}
                PROVE  OrderAfter(named)
    BY DEF BatchLands, OrderAfter
  <2>1. PICK D \in SUBSET DOMAIN pos : MovedSoFar(D)
    BY DEF Landing
  <2>2. D = named
    <3>1. DOMAIN todo = {}
      OBVIOUS
    <3>. QED  BY <2>1, <3>1 DEF MovedSoFar
  <2>. QED  BY <2>1, <2>2 DEF MovedSoFar
<1>. QED  BY <1>1, <1>2, <1>3, Invariance, PTL DEF Spec
=============================================================================
