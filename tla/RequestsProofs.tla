--------------------------- MODULE RequestsProofs ---------------------------
(***************************************************************************)
(* Theorems about Requests.tla, for any number of peers and blocks and     *)
(* however blocks are cut into parts: what we have is not asked for and no *)
(* block is asked of more than two peers; messages keep their types; what  *)
(* we have is cancelled wherever it is still owed; what is expected of a   *)
(* peer is on its way, as long as no peer is asked for more than it keeps. *)
(* The first needs nothing of what is under way on the connections; the    *)
(* others rest on Good, the invariant of one connection.                   *)
(***************************************************************************)
EXTENDS Requests, Counting

\* The requests are about the torrent's blocks, and as NothingAskedInVain says.
AskedWell ==
  /\ active \subseteq Blocks \X Peers
  /\ NothingAskedInVain

LEMMA AskedFinite == ASSUME NEW b PROVE IsFiniteSet(Asked(b)) /\ Cardinality(Asked(b)) \in Nat
<1>1. IsFiniteSet(Peers) /\ Asked(b) \in SUBSET Peers
  BY RequestsAssumption DEF Asked
<1>2. IsFiniteSet(Asked(b))
  BY <1>1, FS_Subset
<1>. QED  BY <1>2, FS_CardinalityType

\* The variables change, but neither the requests become more nor the blocks.
LEMMA FewerRequests ==
  ASSUME AskedWell, active' \subseteq active, have' \subseteq have
  PROVE  AskedWell'
<1>1. ASSUME NEW b \in Blocks
      PROVE  Cardinality(Asked(b))' <= IF b \in have' THEN 0 ELSE 2
  <2>1. IsFiniteSet(Asked(b)) /\ Asked(b)' \in SUBSET Asked(b)
    BY AskedFinite DEF Asked
  <2>2. Cardinality(Asked(b)') <= Cardinality(Asked(b)) /\ IsFiniteSet(Asked(b)')
    BY <2>1, FS_Subset
  <2>3. Cardinality(Asked(b)) \in Nat /\ Cardinality(Asked(b)') \in Nat
    BY <2>1, <2>2, FS_CardinalityType
  <2>4. Cardinality(Asked(b)) <= IF b \in have THEN 0 ELSE 2
    BY DEF AskedWell, NothingAskedInVain
  <2>. QED  BY <2>2, <2>3, <2>4
<1>. QED  BY <1>1 DEF AskedWell, NothingAskedInVain

\* A pulse asks p for blocks that are missing, that are not asked of it, and that
\* are asked of one peer less than the endgame allows.
LEMMA AskWell == ASSUME AskedWell, NEW p \in Peers, Ask(p) PROVE AskedWell'
<1>1. PICK S \in SUBSET Wanted(p) : active' = active \cup (S \X {p})
  BY DEF Ask
<1>2. have' = have /\ S \subseteq Blocks
  BY <1>1 DEF Ask, Wanted, Missing
<1>3. ASSUME NEW b \in Blocks
      PROVE  Cardinality(Asked(b))' <= IF b \in have' THEN 0 ELSE 2
  <2>1. IsFiniteSet(Asked(b)) /\ Cardinality(Asked(b)) \in Nat
    BY AskedFinite
  <2>2. Cardinality(Asked(b)) <= IF b \in have THEN 0 ELSE 2
    BY DEF AskedWell, NothingAskedInVain
  <2>3. CASE b \in S
    <3>1. Asked(b)' = Asked(b) \cup {p}
      BY <1>1, <2>3 DEF Asked
    <3>2. Cardinality(Asked(b)) < MaxPeers /\ MaxPeers \in {1, 2} /\ b \notin have
      BY <1>1, <2>3 DEF Wanted, Missing, MaxPeers
    <3>3. Cardinality(Asked(b) \cup {p}) =
            IF p \in Asked(b) THEN Cardinality(Asked(b)) ELSE Cardinality(Asked(b)) + 1
      BY <2>1, FS_AddElement, Zenon
    <3>4. Cardinality(Asked(b) \cup {p}) \in Nat
      BY <2>1, FS_AddElement, FS_CardinalityType
    <3>. QED  BY <1>2, <2>1, <3>1, <3>2, <3>3, <3>4
  <2>4. CASE b \notin S
    <3>1. Asked(b)' = Asked(b)
      BY <1>1, <2>4 DEF Asked
    <3>. QED  BY <1>2, <2>2, <3>1
  <2>. QED  BY <2>3, <2>4
<1>. QED  BY <1>1, <1>2, <1>3 DEF AskedWell, NothingAskedInVain

\* A block that arrives is asked of nobody any more, and no other block is gained.
LEMMA ReadPieceWell == ASSUME AskedWell, NEW p \in Peers, ReadPiece(p) PROVE AskedWell'
<1>. PICK b : b = Head(inbuf[p]).block
  OBVIOUS
<1>1. CASE UNCHANGED <<have, active>>
  BY <1>1, FewerRequests
<1>2. CASE active' = Settled(b, p) /\ have' \subseteq have \cup {b}
  <2>1. active' \subseteq active /\ Asked(b)' = {}
    BY <1>2 DEF Settled, Asked
  <2>2. ASSUME NEW c \in Blocks
        PROVE  Cardinality(Asked(c))' <= IF c \in have' THEN 0 ELSE 2
    <3>1. CASE c = b
      BY <2>1, <3>1, FS_EmptySet
    <3>2. CASE c # b
      <4>1. Asked(c)' = Asked(c)
        BY <1>2, <3>2 DEF Settled, Asked
      <4>2. c \in have' => c \in have
        BY <1>2, <3>2
      <4>3. Cardinality(Asked(c)) \in Nat
        BY AskedFinite
      <4>. QED  BY <4>1, <4>2, <4>3 DEF AskedWell, NothingAskedInVain
    <3>. QED  BY <3>1, <3>2
  <2>. QED  BY <2>1, <2>2 DEF AskedWell, NothingAskedInVain
<1>3. \/ UNCHANGED <<have, active>>
      \/ active' = Settled(b, p) /\ have' \subseteq have \cup {b}
  BY DEF ReadPiece, Lost
<1>. QED  BY <1>1, <1>2, <1>3

LEMMA AskedWellInit == Init => AskedWell
<1>. SUFFICES ASSUME Init PROVE AskedWell
  OBVIOUS
<1>1. \A b \in Blocks : Asked(b) = {}
  BY DEF Init, Asked
<1>. QED  BY <1>1, FS_EmptySet DEF Init, AskedWell, NothingAskedInVain

LEMMA AskedWellNext == AskedWell /\ [Next]_vars => AskedWell'
<1>. SUFFICES ASSUME AskedWell, [Next]_vars PROVE AskedWell'
  OBVIOUS
<1>1. CASE UpdateInterest
  BY <1>1, FewerRequests DEF UpdateInterest, torrentVars
<1>2. ASSUME NEW p \in Peers, Ask(p) PROVE AskedWell'
  BY <1>2, AskWell
<1>3. ASSUME NEW p \in Peers, NEW b \in Blocks, CancelOld(b, p) PROVE AskedWell'
  BY <1>3, FewerRequests DEF CancelOld
<1>4. ASSUME NEW p \in Peers, PeerReads(p) PROVE AskedWell'
  BY <1>4, FewerRequests DEF PeerReads, torrentVars
<1>5. ASSUME NEW p \in Peers, Serve(p) PROVE AskedWell'
  BY <1>5, FewerRequests DEF Serve, torrentVars
<1>6. ASSUME NEW p \in Peers, PeerChokes(p) \/ PeerUnchokes(p) PROVE AskedWell'
  BY <1>6, FewerRequests DEF PeerChokes, PeerUnchokes, torrentVars
<1>7. ASSUME NEW p \in Peers, Receive(p) \/ Break(p) PROVE AskedWell'
  BY <1>7, FewerRequests DEF Receive, Break, torrentVars
<1>8. ASSUME NEW p \in Peers, ReadChoke(p) \/ ReadUnchoke(p) PROVE AskedWell'
  BY <1>8, FewerRequests DEF ReadChoke, ReadUnchoke, torrentVars
<1>9. ASSUME NEW p \in Peers, ReadReject(p) \/ ReadUnrequested(p) PROVE AskedWell'
  BY <1>9, FewerRequests DEF ReadReject, ReadUnrequested, torrentVars
<1>10. ASSUME NEW p \in Peers, ReadPiece(p) PROVE AskedWell'
  BY <1>10, ReadPieceWell
<1>11. ASSUME NEW p \in Peers, Close(p) PROVE AskedWell'
  BY <1>11, FewerRequests DEF Close
<1>12. CASE UNCHANGED vars
  BY <1>12, FewerRequests DEF vars, torrentVars
<1>. QED
  BY <1>1, <1>2, <1>3, <1>4, <1>5, <1>6, <1>7, <1>8, <1>9, <1>10, <1>11, <1>12 DEF Next, Read

\* However many peers there are and whatever they send: a block that we have is not
\* asked for, and a block that we lack is asked of two peers at the most.
THEOREM NothingIsAskedInVain == Spec => []NothingAskedInVain
<1>1. Init => AskedWell
  BY AskedWellInit
<1>2. AskedWell /\ [Next]_vars => AskedWell'
  BY AskedWellNext
<1>3. AskedWell => NothingAskedInVain
  BY DEF AskedWell
<1>. QED  BY <1>1, <1>2, <1>3, PTL DEF Spec

-----------------------------------------------------------------------------
(* The messages *)

LEMMA MessageFacts ==
  /\ \A kinds : \A m \in About(kinds) :
       /\ m.kind \in kinds /\ m.block \in Blocks /\ m.part \in DOMAIN PieceOf[m.block]
       /\ m = Message(m.kind, m.block, m.part)
  /\ \A kinds : \A kind \in kinds, b \in Blocks :
       \A i \in DOMAIN PieceOf[b] : Message(kind, b, i) \in About(kinds)
  /\ \A kind, b, i, kind2, b2, i2 :
       Message(kind, b, i) = Message(kind2, b2, i2) <=> kind = kind2 /\ b = b2 /\ i = i2
  /\ \A kind, b, i : LET m == Message(kind, b, i) IN m.kind = kind /\ m.block = b /\ m.part = i
<1>1. ASSUME NEW kinds, NEW m \in About(kinds)
      PROVE  /\ m.kind \in kinds /\ m.block \in Blocks /\ m.part \in DOMAIN PieceOf[m.block]
             /\ m = Message(m.kind, m.block, m.part)
  <2>1. PICK kind \in kinds, r \in Parts : m = Message(kind, r[1], r[2])
    BY DEF About
  <2>2. PICK b \in Blocks : r \in PartsOf(b)
    BY DEF Parts
  <2>3. PICK i \in DOMAIN PieceOf[b] : r = <<b, i>>
    BY <2>2 DEF PartsOf
  <2>. QED  BY <2>1, <2>3 DEF Message
<1>2. ASSUME NEW kinds, NEW kind \in kinds, NEW b \in Blocks, NEW i \in DOMAIN PieceOf[b]
      PROVE  Message(kind, b, i) \in About(kinds)
  <2>1. <<b, i>> \in Parts
    BY DEF Parts, PartsOf
  <2>. QED  BY <2>1 DEF About
<1>3. \A kind, b, i, kind2, b2, i2 :
        Message(kind, b, i) = Message(kind2, b2, i2) <=> kind = kind2 /\ b = b2 /\ i = i2
  BY DEF Message
<1>4. \A kind, b, i : LET m == Message(kind, b, i) IN m.kind = kind /\ m.block = b /\ m.part = i
  BY DEF Message
<1>. QED  BY <1>1, <1>2, <1>3, <1>4

\* What a message of ours is, and one of theirs.
LEMMA KindFacts ==
  /\ \A m \in Ours : \/ m \in About({"request"}) /\ m.kind = "request"
                     \/ \E b \in Blocks : m = Cancelled(b) /\ m.kind = "cancel" /\ m.block = b
  /\ \A m \in Theirs : \/ m \in About({"piece", "reject"}) /\ m.kind \in {"piece", "reject"}
                       \/ m = Choke /\ m.kind = "choke"
                       \/ m = Unchoke /\ m.kind = "unchoke"
  /\ \A b \in Blocks : Cancelled(b) \in Ours
  /\ About({"request"}) \subseteq Ours /\ About({"piece", "reject"}) \subseteq Theirs
  /\ Choke \in Theirs /\ Unchoke \in Theirs
  /\ Choke.kind = "choke" /\ Unchoke.kind = "unchoke"
BY MessageFacts DEF Ours, Theirs, Cancelled, Choke, Unchoke

\* A block in one piece has one part.
LEMMA PartFacts ==
  ASSUME NEW b \in Blocks
  PROVE  /\ 1 \in DOMAIN PieceOf[b]
         /\ ~Split(b) => DOMAIN PieceOf[b] = {1}
<1>1. PieceOf[b] \in Seq(Nat) /\ PieceOf[b] # <<>>
  BY RequestsAssumption
<1>2. Len(PieceOf[b]) \in Nat \ {0} /\ DOMAIN PieceOf[b] = 1 .. Len(PieceOf[b])
  BY <1>1
<1>. QED  BY <1>2 DEF Split

\* The requests of a pulse.
LEMMA AsksFacts ==
  ASSUME NEW S \in SUBSET Blocks, NEW asks \in SetToSeqs(UNION {Requested(b) : b \in S})
  PROVE  /\ asks \in Seq(About({"request"})) /\ asks \in Seq(Ours)
         /\ \A i, j \in DOMAIN asks : asks[i] = asks[j] => i = j
         /\ \A m : Has(asks, m) <=> \E b \in S : \E i \in DOMAIN PieceOf[b] : m = Message("request", b, i)
<1>. DEFINE X == UNION {Requested(b) : b \in S}
<1>1. IsFiniteSet(X)
  <2>1. ASSUME NEW b \in S PROVE IsFiniteSet(Requested(b))
    <3>. DEFINE f == [i \in DOMAIN PieceOf[b] |-> Message("request", b, i)]
    <3>1. IsFiniteSet(DOMAIN PieceOf[b])
      <4>1. PieceOf[b] \in Seq(Nat)
        BY RequestsAssumption
      <4>2. DOMAIN PieceOf[b] = 1 .. Len(PieceOf[b]) /\ Len(PieceOf[b]) \in Nat
        BY <4>1
      <4>. QED  BY <4>2, FS_Interval
    <3>2. f \in Surjection(DOMAIN PieceOf[b], Requested(b))
      BY DEF Surjection, Requested
    <3>. QED  BY <3>1, <3>2, FS_Surjection
  <2>2. IsFiniteSet({Requested(b) : b \in S})
    <3>. DEFINE f == [b \in S |-> Requested(b)]
    <3>1. IsFiniteSet(S)
      BY RequestsAssumption, FS_Subset
    <3>2. f \in Surjection(S, {Requested(b) : b \in S})
      BY DEF Surjection
    <3>. QED  BY <3>1, <3>2, FS_Surjection
  <2>. QED  BY <2>1, <2>2, FS_UNION
<1>2. \A m : m \in X <=> \E b \in S : \E i \in DOMAIN PieceOf[b] : m = Message("request", b, i)
  BY DEF Requested
<1>3. X \subseteq About({"request"})
  <2>1. ASSUME NEW b \in S, NEW i \in DOMAIN PieceOf[b]
        PROVE  Message("request", b, i) \in About({"request"})
    BY MessageFacts
  <2>. QED  BY <1>2, <2>1
<1>. HIDE DEF X
<1>4. /\ asks \in Seq(X)
      /\ \A i, j \in DOMAIN asks : asks[i] = asks[j] => i = j
      /\ \A m : Has(asks, m) <=> m \in X
  BY <1>1, Enumerated DEF X
<1>5. asks \in Seq(About({"request"})) /\ asks \in Seq(Ours)
  BY <1>3, <1>4, KindFacts
<1>. QED  BY <1>2, <1>4, <1>5

-----------------------------------------------------------------------------
(* The types *)

LEMMA Lines ==
  ASSUME TypeOK, NEW p \in Peers
  PROVE  /\ sent[p] \in Seq(Ours) /\ owed[p] \in Seq(About({"request"}))
         /\ coming[p] \in Seq(Theirs) /\ inbuf[p] \in Seq(Theirs)
         /\ partial[p] \subseteq Parts
BY DEF TypeOK

\* What a peer reads, and what its answer is.
LEMMA PeerReadsTypes ==
  ASSUME TypeOK, NEW p \in Peers, PeerReads(p)
  PROVE  TypeOK'
<1>1. /\ sent[p] # <<>> /\ sent' = [sent EXCEPT ![p] = Tail(@)]
      /\ UNCHANGED <<torrentVars, ourSide, choking, inbuf, history>>
  BY DEF PeerReads
<1>2. sent[p] \in Seq(Ours) /\ owed[p] \in Seq(About({"request"})) /\ coming[p] \in Seq(Theirs)
  BY Lines
<1>. PICK m \in Ours : m = Head(sent[p])
  BY <1>1, <1>2
<1>. PICK hits : hits = {k \in DOMAIN owed[p] : owed[p][k].block = m.block /\ ~Split(m.block)}
  OBVIOUS
<1>. PICK refused \in BOOLEAN : refused = IF m.kind = "cancel" THEN hits # {} ELSE ~Takes(p, m)
  OBVIOUS
<1>3. /\ owed' = [owed EXCEPT ![p] =
                     IF m.kind = "cancel" THEN (IF hits = {} THEN @ ELSE RemoveAt(@, CHOOSE k \in hits : TRUE))
                     ELSE IF refused THEN @ ELSE Append(@, m)]
      /\ coming' = IF refused /\ p \in Fext
                   THEN [coming EXCEPT ![p] = Append(@, Message("reject", m.block, IF m.kind = "cancel" THEN 1 ELSE m.part))]
                   ELSE coming
  BY DEF PeerReads
<1>4. m.kind # "cancel" => m \in About({"request"})
  BY KindFacts
<1>5. hits # {} => RemoveAt(owed[p], CHOOSE k \in hits : TRUE) \in Seq(About({"request"}))
  <2>1. hits # {} => (CHOOSE k \in hits : TRUE) \in 1 .. Len(owed[p])
    BY <1>2
  <2>. QED  BY <1>2, <2>1, CountRemoveAt
<1>6. owed' \in [Peers -> Seq(About({"request"}))]
  <2>1. m.kind # "cancel" => Append(owed[p], m) \in Seq(About({"request"}))
    BY <1>2, <1>4
  <2>2. owed \in [Peers -> Seq(About({"request"}))]
    BY DEF TypeOK
  <2>. QED  BY <1>3, <1>5, <2>1, <2>2
<1>7. Message("reject", m.block, IF m.kind = "cancel" THEN 1 ELSE m.part) \in Theirs
  <2>1. CASE m.kind = "cancel"
    <3>1. m.block \in Blocks
      BY <2>1, KindFacts
    <3>2. Message("reject", m.block, 1) \in About({"piece", "reject"})
      BY <3>1, PartFacts, MessageFacts
    <3>. QED  BY <2>1, <3>2, KindFacts
  <2>2. CASE m.kind # "cancel"
    <3>1. m.block \in Blocks /\ m.part \in DOMAIN PieceOf[m.block]
      BY <1>4, <2>2, MessageFacts
    <3>2. Message("reject", m.block, m.part) \in About({"piece", "reject"})
      BY <3>1, MessageFacts
    <3>. QED  BY <2>2, <3>2, KindFacts
  <2>. QED  BY <2>1, <2>2
<1>8. coming' \in [Peers -> Seq(Theirs)]
  <2>1. coming \in [Peers -> Seq(Theirs)]
    BY DEF TypeOK
  <2>. QED  BY <1>2, <1>3, <1>7, <2>1
<1>9. sent' \in [Peers -> Seq(Ours)]
  <2>1. sent \in [Peers -> Seq(Ours)] /\ Tail(sent[p]) \in Seq(Ours)
    BY <1>1, <1>2 DEF TypeOK
  <2>. QED  BY <1>1, <2>1
<1>. QED  BY <1>1, <1>6, <1>8, <1>9 DEF TypeOK, torrentVars, ourSide, history

LEMMA ServeTypes ==
  ASSUME TypeOK, NEW p \in Peers, Serve(p)
  PROVE  TypeOK'
<1>1. /\ owed[p] # <<>> /\ owed' = [owed EXCEPT ![p] = Tail(@)]
      /\ UNCHANGED <<torrentVars, ourSide, sent, choking, inbuf, history>>
  BY DEF Serve
<1>2. PICK k \in Lingering(coming[p]) :
        coming' = [coming EXCEPT ![p] = InsertAt(@, k + 1, Reply("piece", Head(owed[p])))]
  BY DEF Serve
<1>3. owed[p] \in Seq(About({"request"})) /\ coming[p] \in Seq(Theirs)
  BY Lines
<1>4. Head(owed[p]) \in About({"request"}) /\ Tail(owed[p]) \in Seq(About({"request"}))
  BY <1>1, <1>3
<1>5. Reply("piece", Head(owed[p])) \in Theirs
  <2>1. Reply("piece", Head(owed[p])) \in About({"piece", "reject"})
    BY <1>4, MessageFacts DEF Reply
  <2>. QED  BY <2>1, KindFacts
<1>6. k + 1 \in 1 .. Len(coming[p]) + 1
  BY <1>3 DEF Lingering
<1>7. InsertAt(coming[p], k + 1, Reply("piece", Head(owed[p]))) \in Seq(Theirs)
  BY <1>3, <1>5, <1>6, CountInsertAt
<1>8. coming' \in [Peers -> Seq(Theirs)] /\ owed' \in [Peers -> Seq(About({"request"}))]
  BY <1>1, <1>2, <1>4, <1>7 DEF TypeOK
<1>. QED  BY <1>1, <1>8 DEF TypeOK, torrentVars, ourSide, history

\* What a peer that chokes us has to say of what it owes.
Refusals(p) ==
  IF p \in Fext THEN [k \in DOMAIN owed[p] |-> Reply("reject", owed[p][k])] ELSE <<>>

LEMMA RefusalsFacts ==
  ASSUME TypeOK, NEW p \in Peers, PeerChokes(p)
  PROVE  /\ Refusals(p) \in Seq(Theirs)
         /\ coming' = [coming EXCEPT ![p] = (coming[p] \o Refusals(p)) \o <<Choke>>]
<1>1. owed[p] \in Seq(About({"request"})) /\ coming[p] \in Seq(Theirs)
  BY Lines
<1>2. Refusals(p) \in Seq(Theirs)
  <2>1. \A k \in DOMAIN owed[p] : Reply("reject", owed[p][k]) \in Theirs
    <3>. SUFFICES ASSUME NEW k \in DOMAIN owed[p] PROVE Reply("reject", owed[p][k]) \in Theirs
      OBVIOUS
    <3>1. owed[p][k] \in About({"request"})
      BY <1>1
    <3>2. Reply("reject", owed[p][k]) \in About({"piece", "reject"})
      BY <3>1, MessageFacts DEF Reply
    <3>. QED  BY <3>2, KindFacts
  <2>. QED  BY <1>1, <2>1 DEF Refusals
<1>3. \A q \in Seq(Theirs) : Append(q, Choke) = q \o <<Choke>> /\ q \o <<>> = q
  BY KindFacts
<1>4. coming[p] \o Refusals(p) \in Seq(Theirs)
  BY <1>1, <1>2
<1>5. coming' = [coming EXCEPT ![p] = Append(coming[p] \o Refusals(p), Choke)]
  <2>1. CASE p \in Fext
    BY <2>1 DEF PeerChokes, Refusals
  <2>2. CASE p \notin Fext
    <3>1. coming' = [coming EXCEPT ![p] = Append(coming[p], Choke)] /\ Refusals(p) = <<>>
      BY <2>2 DEF PeerChokes, Refusals
    <3>. QED  BY <1>1, <1>3, <3>1
  <2>. QED  BY <2>1, <2>2
<1>. QED  BY <1>2, <1>3, <1>4, <1>5

LEMMA ReadsTypes ==
  ASSUME TypeOK, NEW p \in Peers, inbuf[p] # <<>>, NEW m, NEW goesOn, Reads(p, m, goesOn)
  PROVE  /\ m = Head(inbuf[p]) /\ m \in Theirs
         /\ inbuf' \in [Peers -> Seq(Theirs)] /\ reading' \subseteq peers
         /\ UNCHANGED <<peers, broken, keen, owed, choking, coming, twice>>
<1>1. inbuf[p] \in Seq(Theirs) /\ Head(inbuf[p]) \in Theirs /\ Tail(inbuf[p]) \in Seq(Theirs)
  BY Lines
<1>2. m = Head(inbuf[p]) /\ inbuf' = [inbuf EXCEPT ![p] = Tail(@)]
  BY DEF Reads
<1>. QED  BY <1>1, <1>2 DEF Reads, TypeOK

LEMMA AskTypes ==
  ASSUME TypeOK, NEW p \in Peers, Ask(p)
  PROVE  TypeOK'
<1>0. PICK S \in SUBSET Wanted(p) :
        /\ active' = active \cup (S \X {p})
        /\ twice' = twice \cup {<<b, p>> : b \in {c \in S : UnderWay(p, c)}}
        /\ \E asks \in SetToSeqs(UNION {Requested(b) : b \in S}) :
             sent' = [sent EXCEPT ![p] = @ \o asks]
  BY DEF Ask
<1>1. PICK asks \in SetToSeqs(UNION {Requested(b) : b \in S}) :
        sent' = [sent EXCEPT ![p] = @ \o asks]
  BY <1>0
<1>2. S \subseteq Blocks /\ p \in peers
  BY DEF Ask, Wanted, Missing
<1>3. asks \in Seq(Ours) /\ sent[p] \in Seq(Ours)
  BY <1>2, AsksFacts, Lines
<1>4. sent[p] \o asks \in Seq(Ours)
  BY <1>3
<1>5. sent' \in [Peers -> Seq(Ours)]
  BY <1>1, <1>4 DEF TypeOK
<1>6. active' \subseteq Blocks \X peers /\ twice' \subseteq Blocks \X Peers
  BY <1>0, <1>2 DEF TypeOK
<1>7. UNCHANGED <<have, ourSide, owed, choking, coming, inbuf, mishaps>>
  BY DEF Ask
<1>. QED  BY <1>5, <1>6, <1>7 DEF TypeOK, ourSide

LEMMA ReadTypes ==
  ASSUME TypeOK, NEW p \in Peers, inbuf[p] # <<>>, Read(p)
  PROVE  TypeOK'
<1>1. CASE ReadChoke(p)
  <2>1. \E m : Reads(p, m, TRUE)
    BY <1>1 DEF ReadChoke
  <2>. QED  BY <1>1, <2>1, ReadsTypes DEF ReadChoke, TypeOK
<1>2. CASE ReadUnchoke(p)
  <2>1. \E m : Reads(p, m, TRUE)
    BY <1>2 DEF ReadUnchoke
  <2>. QED  BY <1>2, <2>1, ReadsTypes DEF ReadUnchoke, TypeOK, torrentVars
<1>3. CASE ReadReject(p)
  <2>1. \E m : Reads(p, m, TRUE)
    BY <1>3 DEF ReadReject
  <2>. QED  BY <1>3, <2>1, ReadsTypes DEF ReadReject, TypeOK
<1>4. CASE ReadUnrequested(p)
  <2>1. \E m : Reads(p, m, FALSE)
    BY <1>4 DEF ReadUnrequested
  <2>. QED  BY <1>4, <2>1, ReadsTypes DEF ReadUnrequested, TypeOK, torrentVars
<1>5. CASE ReadPiece(p)
  <2>. PICK m : m = Head(inbuf[p])
    OBVIOUS
  <2>. PICK b : b = m.block
    OBVIOUS
  <2>. PICK got : got = partial[p] \cup {<<b, m.part>>}
    OBVIOUS
  <2>. PICK whole : whole = (PartsOf(b) \subseteq got)
    OBVIOUS
  <2>1. /\ m.kind = "piece" /\ Reads(p, m, whole) /\ choked' = choked
        /\ partial' = [partial EXCEPT ![p] = IF whole THEN got \ PartsOf(b) ELSE got]
        /\ IF whole /\ ~HasPiece(PieceOf[b][1])
           THEN /\ active' = Settled(b, p)
                /\ Send(CancelsFor(b, p))
                /\ \E bad \in SUBSET Range(PieceOf[b]) :
                     /\ have' = Lost(b, have \cup {b}, bad)
                     /\ IF b \in have' THEN UNCHANGED mishaps ELSE Mishap
           ELSE UNCHANGED <<have, active, sent, mishaps>>
    BY <1>5 DEF ReadPiece
  <2>2. /\ m \in Theirs
        /\ inbuf' \in [Peers -> Seq(Theirs)] /\ reading' \subseteq peers
        /\ UNCHANGED <<peers, broken, keen, owed, choking, coming, twice>>
    BY <2>1, ReadsTypes
  <2>3. m \in About({"piece", "reject"})
    BY <2>1, <2>2, KindFacts
  <2>4. b \in Blocks /\ m.part \in DOMAIN PieceOf[b]
    BY <2>3, MessageFacts
  <2>5. got \subseteq Parts
    BY <2>4, Lines DEF Parts, PartsOf
  <2>6. partial' \in [Peers -> SUBSET Parts]
    BY <2>1, <2>5 DEF TypeOK
  <2>7. CASE UNCHANGED <<have, active, sent, mishaps>>
    BY <2>1, <2>2, <2>6, <2>7 DEF TypeOK
  <2>8. CASE /\ active' = Settled(b, p)
             /\ Send(CancelsFor(b, p))
             /\ \E bad \in SUBSET Range(PieceOf[b]) :
                  /\ have' = Lost(b, have \cup {b}, bad)
                  /\ IF b \in have' THEN UNCHANGED mishaps ELSE Mishap
    <3>1. have' \subseteq Blocks
      BY <2>4, <2>8 DEF TypeOK, Lost
    <3>2. active' \subseteq Blocks \X peers
      BY <2>8 DEF TypeOK, Settled
    <3>3. sent' \in [Peers -> Seq(Ours)]
      <4>1. \A q \in Peers : CancelsFor(b, p)[q] \in Seq(Ours)
        BY <2>4, KindFacts DEF CancelsFor
      <4>2. \A q \in Peers : sent[q] \o CancelsFor(b, p)[q] \in Seq(Ours)
        BY <4>1, Lines
      <4>. QED  BY <2>8, <4>2 DEF Send
    <3>4. mishaps' \in 0 .. MaxMishaps
      BY <2>8, RequestsAssumption DEF Mishap, TypeOK
    <3>. QED  BY <2>1, <2>2, <2>6, <3>1, <3>2, <3>3, <3>4 DEF TypeOK
  <2>. QED  BY <2>1, <2>7, <2>8
<1>. QED  BY <1>1, <1>2, <1>3, <1>4, <1>5 DEF Read

LEMMA TypesNext ==
  ASSUME TypeOK, \A p \in reading : inbuf[p] # <<>>, [Next]_vars
  PROVE  TypeOK'
<1>1. CASE UpdateInterest
  BY <1>1 DEF UpdateInterest, TypeOK, torrentVars, wires, history
<1>2. ASSUME NEW p \in Peers, Ask(p) PROVE TypeOK'
  BY <1>2, AskTypes
<1>3. ASSUME NEW p \in Peers, NEW b \in Blocks, CancelOld(b, p) PROVE TypeOK'
  <2>1. Append(sent[p], Cancelled(b)) \in Seq(Ours)
    BY Lines, KindFacts
  <2>2. sent' \in [Peers -> Seq(Ours)] /\ mishaps' \in 0 .. MaxMishaps /\ active' \subseteq active
    BY <1>3, <2>1, RequestsAssumption DEF CancelOld, Mishap, TypeOK
  <2>. QED  BY <1>3, <2>2 DEF CancelOld, TypeOK, ourSide
<1>4. ASSUME NEW p \in Peers, PeerReads(p) PROVE TypeOK'
  BY <1>4, PeerReadsTypes
<1>5. ASSUME NEW p \in Peers, Serve(p) PROVE TypeOK'
  BY <1>5, ServeTypes
<1>6. ASSUME NEW p \in Peers, PeerChokes(p) PROVE TypeOK'
  <2>1. (coming[p] \o Refusals(p)) \o <<Choke>> \in Seq(Theirs)
    BY <1>6, RefusalsFacts, Lines, KindFacts
  <2>2. coming' \in [Peers -> Seq(Theirs)]
    BY <1>6, <2>1, RefusalsFacts DEF TypeOK
  <2>3. mishaps' \in 0 .. MaxMishaps /\ owed' \in [Peers -> Seq(About({"request"}))]
    BY <1>6, RequestsAssumption DEF PeerChokes, Mishap, TypeOK
  <2>. QED  BY <1>6, <2>2, <2>3 DEF PeerChokes, TypeOK, torrentVars, ourSide
<1>7. ASSUME NEW p \in Peers, PeerUnchokes(p) PROVE TypeOK'
  <2>1. Append(coming[p], Unchoke) \in Seq(Theirs)
    BY Lines, KindFacts
  <2>. QED  BY <1>7, <2>1 DEF PeerUnchokes, TypeOK, torrentVars, ourSide, history
<1>8. ASSUME NEW p \in Peers, Receive(p) PROVE TypeOK'
  <2>1. inbuf[p] \o coming[p] \in Seq(Theirs)
    BY Lines
  <2>. QED  BY <1>8, <2>1 DEF Receive, TypeOK, torrentVars, history
<1>9. ASSUME NEW p \in Peers, Read(p) PROVE TypeOK'
  <2>1. p \in reading
    BY <1>9 DEF Read, ReadChoke, ReadUnchoke, ReadReject, ReadPiece, ReadUnrequested, Reads
  <2>. QED  BY <1>9, <2>1, ReadTypes
<1>10. ASSUME NEW p \in Peers, Break(p) PROVE TypeOK'
  <2>1. mishaps' \in 0 .. MaxMishaps
    BY <1>10, RequestsAssumption DEF Break, Mishap, TypeOK
  <2>. QED  BY <1>10, <2>1 DEF Break, TypeOK, torrentVars, wires
<1>11. ASSUME NEW p \in Peers, Close(p) PROVE TypeOK'
  <2>1. mishaps' \in 0 .. MaxMishaps
    BY <1>11, RequestsAssumption DEF Close, Mishap, TypeOK
  <2>2. active' \subseteq Blocks \X peers'
    BY <1>11 DEF Close, TypeOK
  <2>. QED  BY <1>11, <2>1, <2>2 DEF Close, TypeOK
<1>12. CASE UNCHANGED vars
  BY <1>12 DEF vars, TypeOK, torrentVars, ourSide, wires, history
<1>. QED
  BY <1>1, <1>2, <1>3, <1>4, <1>5, <1>6, <1>7, <1>8, <1>9, <1>10, <1>11, <1>12 DEF Next

-----------------------------------------------------------------------------
(* The invariant of a connection *)

\* The request for a block in one piece, and what may become of it on the way.
Ask1(b) == Message("request", b, 1)
Tokens(b) == {Message(kind, b, 1) : kind \in {"request", "piece", "reject"}}
OnTheWay(q, b) ==
  Count(sent[q], Tokens(b)) + Count(owed[q], Tokens(b))
    + Count(coming[q], Tokens(b)) + Count(inbuf[q], Tokens(b))

\* What q has said and we have yet to read, in order.
Back(q) == inbuf[q] \o coming[q]

\* What is being read is not empty.
Waiting(q) == q \in reading => inbuf[q] # <<>>

\* A block that was never asked of q with an earlier request under way is
\* requested, owed, answered or refused in one place only.
Single(q) == \A b \in Blocks : ~Split(b) /\ <<b, q>> \notin twice => OnTheWay(q, b) <= 1

\* A peer with the fast extension owes nothing that is neither expected nor about
\* to be cancelled.
CalledOff(q) ==
  q \in Fext => \A b \in Blocks : (~Split(b) /\ <<b, q>> \notin twice /\ <<b, q>> \notin active) =>
    /\ Follows(sent[q], Ask1(b), Cancelled(b))
    /\ Has(owed[q], Ask1(b)) => Has(sent[q], Cancelled(b))

\* A peer that chokes us owes nothing, and we know of it or will read of it, after
\* whatever it said before.
OwesNothing(q) == q \in choking => owed[q] = <<>>
LastWord(q) ==
  q \in choking => /\ q \in choked \/ Has(Back(q), Choke)
                   /\ Follows(Back(q), Unchoke, Choke)

\* Of a peer without the fast extension, nothing is expected while it chokes us.
Forgotten(q) == q \in choked \ Fext => AskedOf(q) = {}

\* What such a peer is expected to send, though a cancel is on its way, is requested
\* again behind the cancel.
AskedAgain(q) ==
  q \notin Fext => \A b \in Blocks : (~Split(b) /\ <<b, q>> \in active) =>
    Follows(sent[q], Cancelled(b), Ask1(b))

Good(q) ==
  q \in peers => /\ Waiting(q) /\ Single(q) /\ CalledOff(q) /\ OwesNothing(q)
                 /\ LastWord(q) /\ Forgotten(q) /\ AskedAgain(q)

IInv == TypeOK /\ AskedWell /\ \A q \in Peers : Good(q)

LEMMA TokenFacts ==
  ASSUME NEW b
  PROVE  /\ \A kind, c, i : Message(kind, c, i) \in Tokens(b) <=>
              kind \in {"request", "piece", "reject"} /\ c = b /\ i = 1
         /\ \A c : Cancelled(c) \notin Tokens(b)
         /\ Choke \notin Tokens(b) /\ Unchoke \notin Tokens(b)
<1>1. \A kind, c, i : Message(kind, c, i) \in Tokens(b) <=>
        kind \in {"request", "piece", "reject"} /\ c = b /\ i = 1
  BY MessageFacts DEF Tokens
<1>. QED  BY <1>1 DEF Cancelled, Choke, Unchoke

\* What is on the way is a number of messages of each line.
LEMMA OnTheWayType ==
  ASSUME TypeOK, NEW q \in Peers, NEW b
  PROVE  /\ Count(sent[q], Tokens(b)) \in Nat /\ Count(owed[q], Tokens(b)) \in Nat
         /\ Count(coming[q], Tokens(b)) \in Nat /\ Count(inbuf[q], Tokens(b)) \in Nat
         /\ OnTheWay(q, b) \in Nat
<1>1. /\ Count(sent[q], Tokens(b)) \in Nat /\ Count(owed[q], Tokens(b)) \in Nat
      /\ Count(coming[q], Tokens(b)) \in Nat /\ Count(inbuf[q], Tokens(b)) \in Nat
  BY Lines, CountType
<1>. QED  BY <1>1 DEF OnTheWay

\* A connection that a step leaves alone stays as it is.
Untouched(q) ==
  /\ sent'[q] = sent[q] /\ owed'[q] = owed[q] /\ coming'[q] = coming[q] /\ inbuf'[q] = inbuf[q]
  /\ \A b : (<<b, q>> \in active' <=> <<b, q>> \in active) /\ (<<b, q>> \in twice' <=> <<b, q>> \in twice)
  /\ q \in peers' => q \in peers
  /\ q \in reading' => q \in reading
  /\ (q \in choked' <=> q \in choked) /\ (q \in choking' <=> q \in choking)

LEMMA UntouchedGood ==
  ASSUME NEW q, Good(q), Untouched(q)
  PROVE  Good(q)'
<1>. SUFFICES ASSUME q \in peers' PROVE Good(q)'
  BY DEF Good
<1>1. /\ sent'[q] = sent[q] /\ owed'[q] = owed[q] /\ coming'[q] = coming[q] /\ inbuf'[q] = inbuf[q]
      /\ \A b : (<<b, q>> \in active' <=> <<b, q>> \in active) /\ (<<b, q>> \in twice' <=> <<b, q>> \in twice)
      /\ q \in peers
      /\ q \in reading' => q \in reading
      /\ (q \in choked' <=> q \in choked) /\ (q \in choking' <=> q \in choking)
  BY DEF Untouched
<1>2. Waiting(q)' /\ OwesNothing(q)'
  BY <1>1 DEF Good, Waiting, OwesNothing
<1>3. Single(q)'
  <2>1. \A b : OnTheWay(q, b)' = OnTheWay(q, b)
    BY <1>1 DEF OnTheWay
  <2>. QED  BY <1>1, <2>1 DEF Good, Single
<1>4. CalledOff(q)'
  BY <1>1 DEF Good, CalledOff
<1>5. LastWord(q)'
  <2>1. Back(q)' = Back(q)
    BY <1>1 DEF Back
  <2>. QED  BY <1>1, <2>1 DEF Good, LastWord
<1>6. Forgotten(q)'
  BY <1>1 DEF Good, Forgotten, AskedOf
<1>7. AskedAgain(q)'
  BY <1>1 DEF Good, AskedAgain
<1>. QED  BY <1>2, <1>3, <1>4, <1>5, <1>6, <1>7 DEF Good

\* Where there is something, there is a request on our line or with the peer, or an
\* answer on the line back.
LEMMA TokenPlaces ==
  ASSUME TypeOK, NEW q \in Peers, NEW b
  PROVE  /\ Count(sent[q], Tokens(b)) > 0 <=> Has(sent[q], Ask1(b))
         /\ Count(owed[q], Tokens(b)) > 0 <=> Has(owed[q], Ask1(b))
         /\ Count(coming[q], Tokens(b)) > 0 <=>
              Has(coming[q], Message("piece", b, 1)) \/ Has(coming[q], Message("reject", b, 1))
         /\ Count(inbuf[q], Tokens(b)) > 0 <=>
              Has(inbuf[q], Message("piece", b, 1)) \/ Has(inbuf[q], Message("reject", b, 1))
<1>1. \A m \in Tokens(b) : m = Ask1(b) \/ m = Message("piece", b, 1) \/ m = Message("reject", b, 1)
  BY DEF Tokens, Ask1
<1>2. /\ Ask1(b) \in Tokens(b) /\ Message("piece", b, 1) \in Tokens(b)
      /\ Message("reject", b, 1) \in Tokens(b)
  BY DEF Tokens, Ask1
<1>3. Ask1(b).kind = "request" /\ Message("piece", b, 1).kind = "piece" /\ Message("reject", b, 1).kind = "reject"
  BY DEF Ask1, Message
<1>4. \A m \in Ours : m \in Tokens(b) <=> m = Ask1(b)
  BY <1>1, <1>2, <1>3, KindFacts
<1>5. \A m \in Theirs : m \in Tokens(b) <=> m = Message("piece", b, 1) \/ m = Message("reject", b, 1)
  BY <1>1, <1>2, <1>3, KindFacts
<1>6. ASSUME NEW s \in Seq(Ours) PROVE Count(s, Tokens(b)) > 0 <=> Has(s, Ask1(b))
  <2>1. Count(s, Tokens(b)) > 0 <=> \E i \in DOMAIN s : s[i] \in Tokens(b)
    BY CountType
  <2>2. \A i \in DOMAIN s : s[i] \in Ours
    OBVIOUS
  <2>. QED  BY <1>4, <2>1, <2>2 DEF Has
<1>7. ASSUME NEW s \in Seq(Theirs)
      PROVE  Count(s, Tokens(b)) > 0 <=> Has(s, Message("piece", b, 1)) \/ Has(s, Message("reject", b, 1))
  <2>1. Count(s, Tokens(b)) > 0 <=> \E i \in DOMAIN s : s[i] \in Tokens(b)
    BY CountType
  <2>2. \A i \in DOMAIN s : s[i] \in Theirs
    OBVIOUS
  <2>. QED  BY <1>5, <2>1, <2>2 DEF Has
<1>8. owed[q] \in Seq(Ours)
  <2>1. owed[q] \in Seq(About({"request"})) /\ About({"request"}) \subseteq Ours
    BY Lines, KindFacts
  <2>. QED  BY <2>1
<1>. QED  BY <1>6, <1>7, <1>8, Lines

\* Where nothing of b is under way, nothing counts.
LEMMA NothingUnderWay ==
  ASSUME TypeOK, NEW q \in Peers, NEW b \in Blocks, ~UnderWay(q, b)
  PROVE  OnTheWay(q, b) = 0
<1>1. 1 \in DOMAIN PieceOf[b]
  BY PartFacts
<1>2. /\ ~Has(sent[q] \o owed[q], Ask1(b))
      /\ ~Has(inbuf[q] \o coming[q], Message("piece", b, 1))
      /\ ~Has(inbuf[q] \o coming[q], Message("reject", b, 1))
  BY <1>1 DEF UnderWay, InFlight, Has, Ask1
<1>3. /\ sent[q] \in Seq(Ours) /\ owed[q] \in Seq(About({"request"})) /\ owed[q] \in Seq(Ours)
      /\ inbuf[q] \in Seq(Theirs) /\ coming[q] \in Seq(Theirs)
  BY Lines, KindFacts
<1>4. ~Has(sent[q], Ask1(b)) /\ ~Has(owed[q], Ask1(b))
  BY <1>2, <1>3, HasConcat
<1>5. /\ ~Has(inbuf[q], Message("piece", b, 1)) /\ ~Has(coming[q], Message("piece", b, 1))
      /\ ~Has(inbuf[q], Message("reject", b, 1)) /\ ~Has(coming[q], Message("reject", b, 1))
  BY <1>2, <1>3, HasConcat
<1>. QED  BY <1>4, <1>5, TokenPlaces, OnTheWayType DEF OnTheWay

LEMMA AskGood ==
  ASSUME IInv, NEW p \in Peers, Ask(p)
  PROVE  \A q \in Peers : Good(q)'
<1>0. TypeOK /\ Good(p) /\ p \in peers /\ p \notin choked
  BY DEF IInv, Ask
<1>1. PICK S \in SUBSET Wanted(p) :
        /\ active' = active \cup (S \X {p})
        /\ twice' = twice \cup {<<b, p>> : b \in {c \in S : UnderWay(p, c)}}
        /\ \E asks \in SetToSeqs(UNION {Requested(b) : b \in S}) :
             sent' = [sent EXCEPT ![p] = @ \o asks]
  BY DEF Ask
<1>2. PICK asks \in SetToSeqs(UNION {Requested(b) : b \in S}) :
        sent' = [sent EXCEPT ![p] = @ \o asks]
  BY <1>1
<1>3. UNCHANGED <<have, ourSide, owed, choking, coming, inbuf, mishaps>>
  BY DEF Ask
<1>4. S \in SUBSET Blocks
  BY DEF Wanted, Missing
<1>5. /\ asks \in Seq(Ours) /\ sent[p] \in Seq(Ours)
      /\ \A i, j \in DOMAIN asks : asks[i] = asks[j] => i = j
      /\ \A m : Has(asks, m) <=> \E b \in S : \E i \in DOMAIN PieceOf[b] : m = Message("request", b, i)
  BY <1>0, <1>4, AsksFacts, Lines
<1>6. sent'[p] = sent[p] \o asks /\ \A q \in Peers \ {p} : sent'[q] = sent[q]
  BY <1>0, <1>2 DEF TypeOK
<1>7. /\ \A b : <<b, p>> \in active' <=> <<b, p>> \in active \/ b \in S
      /\ \A b, q : q # p => (<<b, q>> \in active' <=> <<b, q>> \in active)
      /\ \A b, q : q # p => (<<b, q>> \in twice' <=> <<b, q>> \in twice)
      /\ \A b : <<b, p>> \notin twice' => <<b, p>> \notin twice
      /\ \A b \in S : <<b, p>> \notin twice' => ~UnderWay(p, b)
  BY <1>1
<1>8. /\ \A b \in S : Has(asks, Ask1(b))
      /\ \A b : b \notin S => ~Has(asks, Ask1(b))
      /\ \A b : ~Has(asks, Cancelled(b))
  <2>1. \A b \in S : Has(asks, Ask1(b))
    BY <1>4, <1>5, PartFacts DEF Ask1
  <2>2. \A b : b \notin S => ~Has(asks, Ask1(b))
    BY <1>5, MessageFacts DEF Ask1
  <2>3. \A b : ~Has(asks, Cancelled(b))
    BY <1>5, MessageFacts DEF Cancelled
  <2>. QED  BY <2>1, <2>2, <2>3
<1>9. ASSUME NEW q \in Peers, q # p PROVE Good(q)'
  <2>1. Untouched(q)
    BY <1>3, <1>6, <1>7, <1>9 DEF Untouched, ourSide
  <2>. QED  BY <2>1, UntouchedGood DEF IInv
<1>10. Waiting(p)' /\ OwesNothing(p)' /\ LastWord(p)' /\ Forgotten(p)'
  BY <1>0, <1>3 DEF Good, Waiting, OwesNothing, LastWord, Forgotten, Back, ourSide
<1>11. ASSUME NEW b \in Blocks, ~Split(b), <<b, p>> \notin twice'
       PROVE  OnTheWay(p, b)' <= 1
  <2>1. OnTheWay(p, b)' = OnTheWay(p, b) + Count(asks, Tokens(b))
    <3>1. Count(sent[p] \o asks, Tokens(b)) = Count(sent[p], Tokens(b)) + Count(asks, Tokens(b))
      BY <1>5, CountConcat
    <3>2. OnTheWay(p, b)' = Count(sent[p] \o asks, Tokens(b)) + Count(owed[p], Tokens(b))
                              + Count(coming[p], Tokens(b)) + Count(inbuf[p], Tokens(b))
      BY <1>3, <1>6 DEF OnTheWay
    <3>3. Count(asks, Tokens(b)) \in Nat
      BY <1>5, CountType
    <3>. QED  BY <1>0, <3>1, <3>2, <3>3, OnTheWayType DEF OnTheWay
  <2>2. \A i \in DOMAIN asks : asks[i] \in Tokens(b) => asks[i] = Ask1(b) /\ b \in S
    <3>. SUFFICES ASSUME NEW i \in DOMAIN asks, asks[i] \in Tokens(b)
                  PROVE  asks[i] = Ask1(b) /\ b \in S
      OBVIOUS
    <3>1. PICK c \in S : \E k \in DOMAIN PieceOf[c] : asks[i] = Message("request", c, k)
      BY <1>5 DEF Has
    <3>. QED  BY <1>11, <3>1, TokenFacts DEF Ask1
  <2>3. CASE b \in S
    <3>1. OnTheWay(p, b) = 0
      BY <1>0, <1>7, <1>11, <2>3, NothingUnderWay
    <3>2. Count(asks, Tokens(b)) <= 1
      BY <1>5, <2>2, CountOnce
    <3>. QED  BY <1>5, <2>1, <3>1, <3>2, CountType
  <2>4. CASE b \notin S
    <3>1. Count(asks, Tokens(b)) = 0
      BY <1>5, <2>2, <2>4, CountNone
    <3>2. OnTheWay(p, b) <= 1
      BY <1>0, <1>7, <1>11 DEF Good, Single
    <3>. QED  BY <1>0, <2>1, <3>1, <3>2, OnTheWayType
  <2>. QED  BY <2>3, <2>4
<1>12. ASSUME p \in Fext, NEW b \in Blocks, ~Split(b), <<b, p>> \notin twice', <<b, p>> \notin active'
       PROVE  /\ Follows(sent'[p], Ask1(b), Cancelled(b))
              /\ Has(owed'[p], Ask1(b)) => Has(sent'[p], Cancelled(b))
  <2>1. b \notin S /\ <<b, p>> \notin active /\ <<b, p>> \notin twice
    BY <1>7, <1>12
  <2>2. /\ Follows(sent[p], Ask1(b), Cancelled(b))
        /\ Has(owed[p], Ask1(b)) => Has(sent[p], Cancelled(b))
    BY <1>0, <1>12, <2>1 DEF Good, CalledOff
  <2>3. Follows(asks, Ask1(b), Cancelled(b))
    BY <1>8, <2>1, FollowsNone
  <2>4. Follows(sent[p] \o asks, Ask1(b), Cancelled(b))
    BY <1>5, <2>2, <2>3, FollowsConcat
  <2>5. Has(sent[p], Cancelled(b)) => Has(sent[p] \o asks, Cancelled(b))
    BY <1>5, HasConcat
  <2>. QED  BY <1>3, <1>6, <2>2, <2>4, <2>5
<1>13. ASSUME p \notin Fext, NEW b \in Blocks, ~Split(b), <<b, p>> \in active'
       PROVE  Follows(sent'[p], Cancelled(b), Ask1(b))
  <2>1. Follows(asks, Cancelled(b), Ask1(b))
    BY <1>8, FollowsNone
  <2>2. Follows(sent[p], Cancelled(b), Ask1(b)) \/ Has(asks, Ask1(b))
    BY <1>0, <1>7, <1>8, <1>13 DEF Good, AskedAgain
  <2>3. Follows(sent[p] \o asks, Cancelled(b), Ask1(b))
    BY <1>5, <2>1, <2>2, FollowsConcat
  <2>. QED  BY <1>6, <2>3
<1>14. Good(p)'
  BY <1>10, <1>11, <1>12, <1>13 DEF Good, Single, CalledOff, AskedAgain
<1>. QED  BY <1>9, <1>14

\* Of q, a block is expected no more, and q is told so if it was expected.
Notified(q, c) ==
  /\ \/ sent'[q] = sent[q] /\ <<c, q>> \notin active
     \/ sent'[q] = sent[q] \o <<Cancelled(c)>>
  /\ <<c, q>> \notin active' /\ \A b : b # c => (<<b, q>> \in active' <=> <<b, q>> \in active)
  /\ owed'[q] = owed[q] /\ coming'[q] = coming[q] /\ inbuf'[q] = inbuf[q]
  /\ UNCHANGED <<peers, choked, choking, twice>>
  /\ q \in reading' => q \in reading

LEMMA NotifiedGood ==
  ASSUME TypeOK, NEW q \in Peers, NEW c \in Blocks, Good(q), Notified(q, c)
  PROVE  Good(q)'
<1>1. CASE sent'[q] = sent[q] /\ <<c, q>> \notin active
  <2>1. Untouched(q)
    BY <1>1 DEF Notified, Untouched
  <2>. QED  BY <2>1, UntouchedGood
<1>2. CASE sent'[q] = sent[q] \o <<Cancelled(c)>> /\ q \in peers
  <2>1. /\ <<c, q>> \notin active' /\ \A b : b # c => (<<b, q>> \in active' <=> <<b, q>> \in active)
        /\ owed'[q] = owed[q] /\ coming'[q] = coming[q] /\ inbuf'[q] = inbuf[q]
        /\ UNCHANGED <<peers, choked, choking, twice>>
        /\ q \in reading' => q \in reading
    BY DEF Notified
  <2>2. sent[q] \in Seq(Ours) /\ <<Cancelled(c)>> \in Seq(Ours)
    BY Lines, KindFacts
  <2>3. Waiting(q)' /\ OwesNothing(q)' /\ LastWord(q)' /\ Forgotten(q)'
    <3>1. AskedOf(q)' \subseteq AskedOf(q)
      BY <2>1 DEF AskedOf
    <3>. QED  BY <1>2, <2>1, <3>1 DEF Good, Waiting, OwesNothing, LastWord, Forgotten, Back
  <2>4. Single(q)'
    <3>1. ASSUME NEW b PROVE OnTheWay(q, b)' = OnTheWay(q, b)
      <4>1. Count(sent[q] \o <<Cancelled(c)>>, Tokens(b)) = Count(sent[q], Tokens(b)) + Count(<<Cancelled(c)>>, Tokens(b))
        BY <2>2, CountConcat
      <4>2. Count(<<Cancelled(c)>>, Tokens(b)) = 0
        BY CountOne, TokenFacts
      <4>3. Count(sent'[q], Tokens(b)) = Count(sent[q], Tokens(b))
        BY <1>2, <4>1, <4>2, OnTheWayType
      <4>. QED  BY <2>1, <4>3 DEF OnTheWay
    <3>. QED  BY <1>2, <2>1, <3>1 DEF Good, Single
  <2>5. ASSUME q \in Fext, NEW b \in Blocks, ~Split(b), <<b, q>> \notin twice, <<b, q>> \notin active'
        PROVE  /\ Follows(sent'[q], Ask1(b), Cancelled(b))
               /\ Has(owed'[q], Ask1(b)) => Has(sent'[q], Cancelled(b))
    <3>1. Follows(<<Cancelled(c)>>, Ask1(b), Cancelled(b))
      <4>1. ~Has(<<Cancelled(c)>>, Ask1(b))
        BY HasOne, MessageFacts DEF Cancelled, Ask1
      <4>. QED  BY <4>1, FollowsNone
    <3>2. CASE b = c
      <4>1. Has(<<Cancelled(c)>>, Cancelled(b))
        BY <3>2, HasOne
      <4>2. Follows(sent[q] \o <<Cancelled(c)>>, Ask1(b), Cancelled(b))
        BY <2>2, <3>1, <4>1, FollowsConcat
      <4>3. Has(sent[q] \o <<Cancelled(c)>>, Cancelled(b))
        BY <2>2, <4>1, HasConcat
      <4>. QED  BY <1>2, <4>2, <4>3
    <3>3. CASE b # c
      <4>1. /\ Follows(sent[q], Ask1(b), Cancelled(b))
            /\ Has(owed[q], Ask1(b)) => Has(sent[q], Cancelled(b))
        BY <1>2, <2>1, <2>5, <3>3 DEF Good, CalledOff
      <4>2. Follows(sent[q] \o <<Cancelled(c)>>, Ask1(b), Cancelled(b))
        BY <2>2, <3>1, <4>1, FollowsConcat
      <4>3. Has(sent[q], Cancelled(b)) => Has(sent[q] \o <<Cancelled(c)>>, Cancelled(b))
        BY <2>2, HasConcat
      <4>. QED  BY <1>2, <2>1, <4>1, <4>2, <4>3
    <3>. QED  BY <3>2, <3>3
  <2>6. ASSUME q \notin Fext, NEW b \in Blocks, ~Split(b), <<b, q>> \in active'
        PROVE  Follows(sent'[q], Cancelled(b), Ask1(b))
    <3>1. b # c /\ <<b, q>> \in active
      BY <2>1, <2>6
    <3>2. ~Has(<<Cancelled(c)>>, Cancelled(b))
      BY <3>1, HasOne, MessageFacts DEF Cancelled
    <3>3. Follows(sent[q], Cancelled(b), Ask1(b)) /\ Follows(<<Cancelled(c)>>, Cancelled(b), Ask1(b))
      BY <1>2, <2>6, <3>1, <3>2, FollowsNone DEF Good, AskedAgain
    <3>4. Follows(sent[q] \o <<Cancelled(c)>>, Cancelled(b), Ask1(b))
      BY <2>2, <3>3, FollowsConcat
    <3>. QED  BY <1>2, <3>4
  <2>7. CalledOff(q)' /\ AskedAgain(q)'
    BY <2>1, <2>5, <2>6 DEF CalledOff, AskedAgain
  <2>. QED  BY <2>3, <2>4, <2>7 DEF Good
<1>3. CASE q \notin peers
  BY <1>3 DEF Notified, Good
<1>. QED  BY <1>1, <1>2, <1>3 DEF Notified

LEMMA CancelOldGood ==
  ASSUME IInv, NEW p \in Peers, NEW b \in Blocks, CancelOld(b, p)
  PROVE  \A q \in Peers : Good(q)'
<1>1. /\ active' = active \ {<<b, p>>} /\ sent' = [sent EXCEPT ![p] = Append(@, Cancelled(b))]
      /\ UNCHANGED <<have, ourSide, owed, choking, coming, inbuf, twice>> /\ TypeOK
  BY DEF CancelOld, IInv
<1>2. sent'[p] = sent[p] \o <<Cancelled(b)>> /\ \A q \in Peers \ {p} : sent'[q] = sent[q]
  <2>1. sent[p] \in Seq(Ours)
    BY <1>1, Lines
  <2>2. Append(sent[p], Cancelled(b)) = sent[p] \o <<Cancelled(b)>>
    BY <2>1, KindFacts
  <2>. QED  BY <1>1, <2>2 DEF TypeOK
<1>3. Good(p)'
  <2>1. Notified(p, b)
    BY <1>1, <1>2 DEF Notified, ourSide
  <2>. QED  BY <1>1, <2>1, NotifiedGood DEF IInv
<1>4. ASSUME NEW q \in Peers, q # p PROVE Good(q)'
  <2>1. Untouched(q)
    BY <1>1, <1>2, <1>4 DEF Untouched, ourSide
  <2>. QED  BY <2>1, UntouchedGood DEF IInv
<1>. QED  BY <1>3, <1>4

\* What becomes of the message that a peer reads: a request is taken or not, and a
\* cancel finds the request that it revokes or nothing.
Fate(p, m) ==
  \/ /\ m \in About({"request"}) /\ Takes(p, m)
     /\ owed'[p] = Append(owed[p], m) /\ coming'[p] = coming[p]
  \/ /\ m \in About({"request"}) /\ ~Takes(p, m) /\ owed'[p] = owed[p]
     /\ coming'[p] = IF p \in Fext THEN Append(coming[p], Message("reject", m.block, m.part)) ELSE coming[p]
  \/ /\ \E b \in Blocks : m = Cancelled(b) /\ (Split(b) \/ ~Has(owed[p], Ask1(b)))
     /\ owed'[p] = owed[p] /\ coming'[p] = coming[p]
  \/ \E b \in Blocks : \E k \in 1 .. Len(owed[p]) :
       /\ m = Cancelled(b) /\ ~Split(b) /\ owed[p][k] = Ask1(b)
       /\ owed'[p] = RemoveAt(owed[p], k)
       /\ coming'[p] = IF p \in Fext THEN Append(coming[p], Message("reject", b, 1)) ELSE coming[p]

LEMMA PeerReadsFacts ==
  ASSUME TypeOK, NEW p \in Peers, PeerReads(p)
  PROVE  /\ sent[p] # <<>> /\ sent'[p] = Tail(sent[p]) /\ p \in peers
         /\ Fate(p, Head(sent[p]))
         /\ UNCHANGED <<torrentVars, ourSide, choking, inbuf, history>>
         /\ \A q \in Peers \ {p} : sent'[q] = sent[q] /\ owed'[q] = owed[q] /\ coming'[q] = coming[q]
<1>1. /\ sent[p] # <<>> /\ sent' = [sent EXCEPT ![p] = Tail(@)] /\ p \in peers
      /\ UNCHANGED <<torrentVars, ourSide, choking, inbuf, history>>
  BY DEF PeerReads
<1>2. sent[p] \in Seq(Ours) /\ owed[p] \in Seq(About({"request"})) /\ coming[p] \in Seq(Theirs)
  BY Lines
<1>. PICK m \in Ours : m = Head(sent[p])
  BY <1>1, <1>2
<1>. PICK hits : hits = {k \in DOMAIN owed[p] : owed[p][k].block = m.block /\ ~Split(m.block)}
  OBVIOUS
<1>. PICK refused \in BOOLEAN : refused = IF m.kind = "cancel" THEN hits # {} ELSE ~Takes(p, m)
  OBVIOUS
<1>3. /\ owed' = [owed EXCEPT ![p] =
                     IF m.kind = "cancel" THEN (IF hits = {} THEN @ ELSE RemoveAt(@, CHOOSE k \in hits : TRUE))
                     ELSE IF refused THEN @ ELSE Append(@, m)]
      /\ coming' = IF refused /\ p \in Fext
                   THEN [coming EXCEPT ![p] = Append(@, Message("reject", m.block, IF m.kind = "cancel" THEN 1 ELSE m.part))]
                   ELSE coming
  BY DEF PeerReads
<1>4. /\ owed'[p] = IF m.kind = "cancel" THEN (IF hits = {} THEN owed[p] ELSE RemoveAt(owed[p], CHOOSE k \in hits : TRUE))
                    ELSE IF refused THEN owed[p] ELSE Append(owed[p], m)
      /\ coming'[p] = IF refused /\ p \in Fext
                      THEN Append(coming[p], Message("reject", m.block, IF m.kind = "cancel" THEN 1 ELSE m.part))
                      ELSE coming[p]
      /\ sent'[p] = Tail(sent[p])
      /\ \A q \in Peers \ {p} : sent'[q] = sent[q] /\ owed'[q] = owed[q] /\ coming'[q] = coming[q]
  BY <1>1, <1>3 DEF TypeOK
<1>5. ASSUME m \in About({"request"}) /\ m.kind = "request"
      PROVE  Fate(p, m)
  <2>1. refused <=> ~Takes(p, m)
    BY <1>5
  <2>2. CASE Takes(p, m)
    <3>1. owed'[p] = Append(owed[p], m) /\ coming'[p] = coming[p]
      BY <1>4, <1>5, <2>1, <2>2
    <3>. QED  BY <1>5, <2>2, <3>1, Zenon DEF Fate
  <2>3. CASE ~Takes(p, m)
    <3>1. owed'[p] = owed[p]
      BY <1>4, <1>5, <2>1, <2>3
    <3>2. coming'[p] = IF p \in Fext THEN Append(coming[p], Message("reject", m.block, m.part)) ELSE coming[p]
      BY <1>4, <1>5, <2>1, <2>3
    <3>. QED  BY <1>5, <2>3, <3>1, <3>2, Zenon DEF Fate
  <2>. QED  BY <2>2, <2>3
<1>6. ASSUME NEW b \in Blocks, m = Cancelled(b), m.kind = "cancel", m.block = b
      PROVE  Fate(p, m)
  <2>1. CASE hits = {}
    <3>1. Split(b) \/ ~Has(owed[p], Ask1(b))
      BY <1>6, <2>1 DEF Has, Ask1, Message
    <3>. QED  BY <1>4, <1>6, <2>1, <3>1 DEF Fate
  <2>2. CASE hits # {}
    <3>. PICK k : k = CHOOSE j \in hits : TRUE
      OBVIOUS
    <3>1. k \in hits
      BY <2>2
    <3>2. k \in 1 .. Len(owed[p]) /\ owed[p][k].block = b /\ ~Split(b) /\ owed[p][k] \in About({"request"})
      <4>1. k \in DOMAIN owed[p] /\ owed[p][k].block = b /\ ~Split(b)
        BY <1>6, <3>1
      <4>2. \A s \in Seq(About({"request"})) : \A j \in DOMAIN s : j \in 1 .. Len(s) /\ s[j] \in About({"request"})
        OBVIOUS
      <4>. QED  BY <1>2, <4>1, <4>2
    <3>3. owed[p][k] = Ask1(b)
      <4>1. \E c \in Blocks : \E i \in DOMAIN PieceOf[c] : owed[p][k] = Message("request", c, i)
        <5>1. ASSUME NEW x \in About({"request"})
              PROVE  \E c \in Blocks : \E i \in DOMAIN PieceOf[c] : x = Message("request", c, i)
          <6>1. x.kind \in {"request"} /\ x.block \in Blocks /\ x.part \in DOMAIN PieceOf[x.block]
            BY MessageFacts
          <6>2. x = Message(x.kind, x.block, x.part)
            BY MessageFacts
          <6>. QED  BY <6>1, <6>2
        <5>. QED  BY <3>2, <5>1
      <4>2. \E i \in DOMAIN PieceOf[b] : owed[p][k] = Message("request", b, i)
        BY <3>2, <4>1 DEF Message
      <4>. QED  BY <3>2, <4>2, PartFacts DEF Ask1
    <3>4. owed'[p] = RemoveAt(owed[p], k)
      BY <1>4, <1>6, <2>2
    <3>5. coming'[p] = IF p \in Fext THEN Append(coming[p], Message("reject", b, 1)) ELSE coming[p]
      BY <1>4, <1>6, <2>2
    <3>. QED  BY <1>6, <3>2, <3>3, <3>4, <3>5 DEF Fate
  <2>. QED  BY <2>1, <2>2
<1>7. Fate(p, m)
  BY <1>5, <1>6, KindFacts
<1>. QED  BY <1>1, <1>4, <1>7

\* Whatever a peer makes of a message, what was on the way in one place stays so.
LEMMA FateSingle ==
  ASSUME TypeOK, NEW p \in Peers, PeerReads(p), NEW b \in Blocks, ~Split(b)
  PROVE  OnTheWay(p, b)' <= OnTheWay(p, b)
<1>. DEFINE N(s) == Count(s, Tokens(b))
<1>1. /\ sent[p] # <<>> /\ sent'[p] = Tail(sent[p]) /\ Fate(p, Head(sent[p])) /\ inbuf' = inbuf
  BY PeerReadsFacts
<1>2. sent[p] \in Seq(Ours) /\ owed[p] \in Seq(About({"request"})) /\ coming[p] \in Seq(Theirs)
  BY Lines
<1>. PICK m \in Ours : m = Head(sent[p])
  BY <1>1, <1>2
<1>. DEFINE d == IF m \in Tokens(b) THEN 1 ELSE 0
<1>3. /\ N(sent[p]) \in Nat /\ N(owed[p]) \in Nat /\ N(coming[p]) \in Nat /\ N(inbuf[p]) \in Nat
      /\ N(Tail(sent[p])) \in Nat
  <2>1. Tail(sent[p]) \in Seq(Ours)
    BY <1>1, <1>2
  <2>. QED  BY <2>1, OnTheWayType, CountType
<1>4. N(sent[p]) = N(Tail(sent[p])) + d
  BY <1>1, <1>2, CountTail
<1>5. OnTheWay(p, b)' = N(sent'[p]) + N(owed'[p]) + N(coming'[p]) + N(inbuf[p])
  BY <1>1 DEF OnTheWay
<1>6. OnTheWay(p, b) = N(sent[p]) + N(owed[p]) + N(coming[p]) + N(inbuf[p])
  BY DEF OnTheWay
<1>7. ASSUME NEW x \in Theirs
      PROVE  N(Append(coming[p], x)) = N(coming[p]) + (IF x \in Tokens(b) THEN 1 ELSE 0)
  BY <1>2, CountAppend
<1>. HIDE DEF N
<1>8. CASE /\ m \in About({"request"}) /\ owed'[p] = Append(owed[p], m) /\ coming'[p] = coming[p]
  <2>1. N(Append(owed[p], m)) = N(owed[p]) + d
    BY <1>2, <1>8, CountAppend DEF N
  <2>. QED  BY <1>1, <1>3, <1>4, <1>5, <1>6, <1>8, <2>1
<1>9. CASE /\ m \in About({"request"}) /\ owed'[p] = owed[p]
           /\ coming'[p] = IF p \in Fext THEN Append(coming[p], Message("reject", m.block, m.part)) ELSE coming[p]
  <2>1. Message("reject", m.block, m.part) \in Theirs
    BY <1>9, MessageFacts, KindFacts
  <2>2. Message("reject", m.block, m.part) \in Tokens(b) <=> m \in Tokens(b)
    <3>1. m = Message("request", m.block, m.part)
      BY <1>9, MessageFacts
    <3>. QED  BY <3>1, TokenFacts
  <2>3. N(coming'[p]) <= N(coming[p]) + d
    BY <1>3, <1>7, <1>9, <2>1, <2>2
  <2>4. N(coming'[p]) \in Nat
    BY <1>3, <1>7, <1>9, <2>1
  <2>. QED  BY <1>1, <1>3, <1>4, <1>5, <1>6, <1>9, <2>3, <2>4
<1>10. CASE owed'[p] = owed[p] /\ coming'[p] = coming[p]
  BY <1>1, <1>3, <1>4, <1>5, <1>6, <1>10
<1>11. ASSUME NEW c \in Blocks, NEW k \in 1 .. Len(owed[p]), ~Split(c), owed[p][k] = Ask1(c),
              owed'[p] = RemoveAt(owed[p], k),
              coming'[p] = IF p \in Fext THEN Append(coming[p], Message("reject", c, 1)) ELSE coming[p]
       PROVE  OnTheWay(p, b)' <= OnTheWay(p, b)
  <2>. DEFINE e == IF owed[p][k] \in Tokens(b) THEN 1 ELSE 0
  <2>1. N(owed[p]) = N(RemoveAt(owed[p], k)) + e
    BY <1>2, CountRemoveAt DEF N
  <2>2. N(RemoveAt(owed[p], k)) \in Nat
    BY <1>2, CountRemoveAt, CountType DEF N
  <2>3. Message("reject", c, 1) \in Theirs
    BY PartFacts, MessageFacts, KindFacts
  <2>4. Message("reject", c, 1) \in Tokens(b) <=> owed[p][k] \in Tokens(b)
    BY <1>11, TokenFacts DEF Ask1
  <2>5. N(coming'[p]) <= N(coming[p]) + e
    BY <1>3, <1>7, <1>11, <2>3, <2>4
  <2>6. N(coming'[p]) \in Nat
    BY <1>3, <1>7, <1>11, <2>3
  <2>7. OnTheWay(p, b)' = N(Tail(sent[p])) + N(RemoveAt(owed[p], k)) + N(coming'[p]) + N(inbuf[p])
    BY <1>1, <1>5, <1>11
  <2>8. d \in Nat /\ e \in Nat
    OBVIOUS
  <2>. HIDE DEF d, e
  <2>9. /\ N(Tail(sent[p])) <= N(sent[p])
        /\ N(RemoveAt(owed[p], k)) + N(coming'[p]) <= N(owed[p]) + N(coming[p])
    BY <1>3, <1>4, <2>1, <2>2, <2>5, <2>6, <2>8
  <2>. QED  BY <1>3, <1>6, <2>2, <2>6, <2>7, <2>9
<1>. QED  BY <1>1, <1>8, <1>9, <1>10, <1>11 DEF Fate

LEMMA PeerReadsGood ==
  ASSUME IInv, NEW p \in Peers, PeerReads(p)
  PROVE  \A q \in Peers : Good(q)'
<1>0. TypeOK /\ Good(p)
  BY DEF IInv
<1>1. /\ sent[p] # <<>> /\ sent'[p] = Tail(sent[p]) /\ p \in peers
      /\ Fate(p, Head(sent[p]))
      /\ UNCHANGED <<active, peers, broken, choked, reading, choking, inbuf, twice>>
      /\ \A q \in Peers \ {p} : sent'[q] = sent[q] /\ owed'[q] = owed[q] /\ coming'[q] = coming[q]
  BY <1>0, PeerReadsFacts DEF torrentVars, ourSide, history
<1>2. /\ sent[p] \in Seq(Ours) /\ owed[p] \in Seq(About({"request"}))
      /\ coming[p] \in Seq(Theirs) /\ inbuf[p] \in Seq(Theirs)
  BY <1>0, Lines
<1>. PICK m \in Ours : m = Head(sent[p])
  BY <1>1, <1>2
<1>3. ASSUME NEW q \in Peers, q # p PROVE Good(q)'
  <2>1. Untouched(q)
    BY <1>1, <1>3 DEF Untouched
  <2>. QED  BY <2>1, UntouchedGood DEF IInv
<1>4. Waiting(p)' /\ Forgotten(p)'
  BY <1>0, <1>1 DEF Good, Waiting, Forgotten, AskedOf
<1>5. OwesNothing(p)'
  <2>. SUFFICES ASSUME p \in choking' PROVE owed'[p] = <<>>
    BY DEF OwesNothing
  <2>1. p \in choking /\ owed[p] = <<>>
    BY <1>0, <1>1 DEF Good, OwesNothing
  <2>2. ~Takes(p, m) /\ Len(owed[p]) = 0
    BY <2>1 DEF Takes
  <2>3. owed'[p] = owed[p] \/ \E k \in 1 .. Len(owed[p]) : TRUE
    BY <1>1, <2>2 DEF Fate
  <2>. QED  BY <2>1, <2>2, <2>3
<1>6. LastWord(p)'
  <2>1. CASE coming'[p] = coming[p]
    BY <1>0, <1>1, <2>1 DEF Good, LastWord, Back
  <2>2. ASSUME NEW x \in About({"piece", "reject"}), coming'[p] = Append(coming[p], x)
        PROVE  LastWord(p)'
    <3>1. x \in Theirs /\ x # Unchoke
      BY KindFacts, MessageFacts DEF Unchoke
    <3>2. Back(p)' = Back(p) \o <<x>> /\ Back(p) \in Seq(Theirs) /\ <<x>> \in Seq(Theirs)
      <4>0. ASSUME NEW s \in Seq(Theirs), NEW r \in Seq(Theirs)
            PROVE  s \o Append(r, x) = (s \o r) \o <<x>>
        BY <3>1, AppendConcat
      <4>1. inbuf[p] \o Append(coming[p], x) = (inbuf[p] \o coming[p]) \o <<x>>
        BY <1>2, <4>0
      <4>. QED  BY <1>1, <1>2, <2>2, <3>1, <4>1 DEF Back
    <3>3. ~Has(<<x>>, Unchoke)
      BY <3>1, HasOne
    <3>4. Follows(<<x>>, Unchoke, Choke)
      BY <3>3, FollowsNone
    <3>5. Has(Back(p), Choke) => Has(Back(p) \o <<x>>, Choke)
      BY <3>2, HasConcat
    <3>6. Follows(Back(p), Unchoke, Choke) => Follows(Back(p) \o <<x>>, Unchoke, Choke)
      BY <3>2, <3>4, FollowsConcat
    <3>. QED  BY <1>0, <1>1, <3>2, <3>5, <3>6 DEF Good, LastWord
  <2>3. \/ coming'[p] = coming[p]
        \/ \E x \in About({"piece", "reject"}) : coming'[p] = Append(coming[p], x)
    <3>1. \A c \in Blocks : Message("reject", c, 1) \in About({"piece", "reject"})
      BY PartFacts, MessageFacts
    <3>2. m \in About({"request"}) => Message("reject", m.block, m.part) \in About({"piece", "reject"})
      BY MessageFacts
    <3>. QED  BY <1>1, <3>1, <3>2 DEF Fate
  <2>. QED  BY <2>1, <2>2, <2>3
<1>7. Single(p)'
  <2>. SUFFICES ASSUME NEW b \in Blocks, ~Split(b), <<b, p>> \notin twice
                PROVE  OnTheWay(p, b)' <= 1
    BY <1>1 DEF Single
  <2>1. OnTheWay(p, b)' <= OnTheWay(p, b) /\ OnTheWay(p, b) <= 1
    BY <1>0, <1>1, FateSingle DEF Good, Single
  <2>2. OnTheWay(p, b) \in Nat
    BY <1>0, OnTheWayType
  <2>3. OnTheWay(p, b)' \in Nat
    <3>1. TypeOK'
      BY <1>0, PeerReadsTypes
    <3>2. /\ sent'[p] \in Seq(Ours) /\ owed'[p] \in Seq(About({"request"}))
          /\ coming'[p] \in Seq(Theirs) /\ inbuf'[p] \in Seq(Theirs)
      BY <3>1 DEF TypeOK
    <3>3. /\ Count(sent'[p], Tokens(b)) \in Nat /\ Count(owed'[p], Tokens(b)) \in Nat
          /\ Count(coming'[p], Tokens(b)) \in Nat /\ Count(inbuf'[p], Tokens(b)) \in Nat
      BY <3>2, CountType
    <3>. QED  BY <3>3 DEF OnTheWay
  <2>. QED  BY <2>1, <2>2, <2>3
<1>8. ASSUME p \in Fext, NEW b \in Blocks, ~Split(b), <<b, p>> \notin twice, <<b, p>> \notin active
      PROVE  /\ Follows(sent'[p], Ask1(b), Cancelled(b))
             /\ Has(owed'[p], Ask1(b)) => Has(sent'[p], Cancelled(b))
  <2>1. /\ Follows(sent[p], Ask1(b), Cancelled(b))
        /\ Has(owed[p], Ask1(b)) => Has(sent[p], Cancelled(b))
    BY <1>0, <1>1, <1>8 DEF Good, CalledOff
  <2>2. /\ Follows(sent'[p], Ask1(b), Cancelled(b))
        /\ m = Ask1(b) => Has(sent'[p], Cancelled(b))
    BY <1>1, <1>2, <2>1, FollowsTail
  <2>3. Has(sent[p], Cancelled(b)) => m = Cancelled(b) \/ Has(sent'[p], Cancelled(b))
    BY <1>1, <1>2, HasTail
  <2>4. ASSUME m \in About({"request"}), owed'[p] = owed[p] \/ owed'[p] = Append(owed[p], m)
        PROVE  Has(owed'[p], Ask1(b)) => Has(sent'[p], Cancelled(b))
    <3>1. m # Cancelled(b)
      BY <2>4, MessageFacts DEF Cancelled
    <3>2. Has(owed'[p], Ask1(b)) => Has(owed[p], Ask1(b)) \/ m = Ask1(b)
      <4>1. Has(Append(owed[p], m), Ask1(b)) <=> Has(owed[p], Ask1(b)) \/ m = Ask1(b)
        BY <1>2, <2>4, HasAppend
      <4>. QED  BY <2>4, <4>1
    <3>. QED  BY <2>1, <2>2, <2>3, <3>1, <3>2
  <2>5. ASSUME NEW c \in Blocks, m = Cancelled(c), Split(c) \/ ~Has(owed[p], Ask1(c)), owed'[p] = owed[p]
        PROVE  Has(owed'[p], Ask1(b)) => Has(sent'[p], Cancelled(b))
    <3>1. c # b => m # Cancelled(b)
      BY <2>5, MessageFacts DEF Cancelled
    <3>. QED  BY <1>8, <2>1, <2>3, <2>5, <3>1
  <2>6. ASSUME NEW c \in Blocks, NEW k \in 1 .. Len(owed[p]), m = Cancelled(c), owed[p][k] = Ask1(c),
               owed'[p] = RemoveAt(owed[p], k)
        PROVE  Has(owed'[p], Ask1(b)) => Has(sent'[p], Cancelled(b))
    <3>1. CASE c = b
      <4>1. OnTheWay(p, b) <= 1
        BY <1>0, <1>1, <1>8 DEF Good, Single
      <4>2. Count(owed[p], Tokens(b)) <= 1
        BY <1>0, <4>1, OnTheWayType DEF OnTheWay
      <4>3. Ask1(b) \in Tokens(b)
        BY DEF Ask1, Tokens
      <4>4. RemoveAt(owed[p], k) \in Seq(About({"request"}))
        BY <1>2, CountRemoveAt
      <4>5. Count(owed[p], Tokens(b)) = Count(RemoveAt(owed[p], k), Tokens(b)) + 1
        BY <1>2, <2>6, <3>1, <4>3, CountRemoveAt
      <4>6. /\ Count(RemoveAt(owed[p], k), Tokens(b)) \in Nat
            /\ Count(RemoveAt(owed[p], k), Tokens(b)) > 0 <=>
                 \E i \in DOMAIN RemoveAt(owed[p], k) : RemoveAt(owed[p], k)[i] \in Tokens(b)
        BY <4>4, CountType
      <4>. QED  BY <2>6, <4>2, <4>3, <4>5, <4>6 DEF Has
    <3>2. CASE c # b
      <4>1. m # Cancelled(b)
        BY <2>6, <3>2, MessageFacts DEF Cancelled
      <4>2. Has(owed'[p], Ask1(b)) => Has(owed[p], Ask1(b))
        BY <1>2, <2>6, HasRemoveAt
      <4>. QED  BY <2>1, <2>3, <4>1, <4>2
    <3>. QED  BY <3>1, <3>2
  <2>. QED  BY <1>1, <2>2, <2>4, <2>5, <2>6 DEF Fate
<1>9. ASSUME p \notin Fext, NEW b \in Blocks, ~Split(b), <<b, p>> \in active
      PROVE  Follows(sent'[p], Cancelled(b), Ask1(b))
  <2>1. Follows(sent[p], Cancelled(b), Ask1(b))
    BY <1>0, <1>1, <1>9 DEF Good, AskedAgain
  <2>. QED  BY <1>1, <1>2, <2>1, FollowsTail
<1>10. CalledOff(p)' /\ AskedAgain(p)'
  BY <1>1, <1>8, <1>9 DEF CalledOff, AskedAgain
<1>11. Good(p)'
  BY <1>4, <1>5, <1>6, <1>7, <1>10 DEF Good
<1>. QED  BY <1>3, <1>11

LEMMA ServeGood ==
  ASSUME IInv, NEW p \in Peers, Serve(p)
  PROVE  \A q \in Peers : Good(q)'
<1>0. TypeOK /\ Good(p)
  BY DEF IInv
<1>1. /\ p \in peers /\ owed[p] # <<>> /\ owed' = [owed EXCEPT ![p] = Tail(@)]
      /\ UNCHANGED <<torrentVars, ourSide, sent, choking, inbuf, history>>
  BY DEF Serve
<1>. PICK h : h = Head(owed[p])
  OBVIOUS
<1>2. PICK k \in Lingering(coming[p]) :
        coming' = [coming EXCEPT ![p] = InsertAt(@, k + 1, Reply("piece", h))]
  BY DEF Serve
<1>3. owed[p] \in Seq(About({"request"})) /\ coming[p] \in Seq(Theirs)
  BY <1>0, Lines
<1>4. h \in About({"request"}) /\ Tail(owed[p]) \in Seq(About({"request"}))
  BY <1>1, <1>3
<1>5. Reply("piece", h) \in Theirs
  <2>1. Reply("piece", h) \in About({"piece", "reject"})
    BY <1>4, MessageFacts DEF Reply
  <2>. QED  BY <2>1, KindFacts
<1>6. k + 1 \in 1 .. Len(coming[p]) + 1
  BY <1>3 DEF Lingering
<1>7. /\ owed'[p] = Tail(owed[p]) /\ coming'[p] = InsertAt(coming[p], k + 1, Reply("piece", h))
      /\ \A q \in Peers \ {p} : owed'[q] = owed[q] /\ coming'[q] = coming[q]
      /\ UNCHANGED <<active, peers, choked, reading, sent, choking, inbuf, twice>>
  BY <1>0, <1>1, <1>2 DEF TypeOK, torrentVars, ourSide, history
<1>8. ASSUME NEW q \in Peers, q # p PROVE Good(q)'
  <2>1. Untouched(q)
    BY <1>7, <1>8 DEF Untouched
  <2>. QED  BY <2>1, UntouchedGood DEF IInv
<1>9. p \notin choking
  BY <1>0, <1>1 DEF Good, OwesNothing
<1>10. Waiting(p)' /\ OwesNothing(p)' /\ LastWord(p)' /\ Forgotten(p)' /\ AskedAgain(p)'
  BY <1>0, <1>1, <1>7, <1>9 DEF Good, Waiting, OwesNothing, LastWord, Forgotten, AskedOf, AskedAgain
<1>11. CalledOff(p)'
  <2>1. \A m : Has(Tail(owed[p]), m) => Has(owed[p], m)
    BY <1>1, <1>3, HasTail
  <2>. QED  BY <1>0, <1>1, <1>7, <2>1 DEF Good, CalledOff
<1>12. ASSUME NEW b \in Blocks PROVE OnTheWay(p, b)' = OnTheWay(p, b)
  <2>1. Count(owed[p], Tokens(b)) = Count(Tail(owed[p]), Tokens(b)) + (IF h \in Tokens(b) THEN 1 ELSE 0)
    BY <1>1, <1>3, CountTail
  <2>2. Count(coming'[p], Tokens(b)) = Count(coming[p], Tokens(b)) + (IF Reply("piece", h) \in Tokens(b) THEN 1 ELSE 0)
    <3>1. Count(InsertAt(coming[p], k + 1, Reply("piece", h)), Tokens(b))
            = Count(coming[p], Tokens(b)) + (IF Reply("piece", h) \in Tokens(b) THEN 1 ELSE 0)
      BY <1>3, <1>5, <1>6, CountInsertAt
    <3>. QED  BY <1>7, <3>1
  <2>3. Reply("piece", h) \in Tokens(b) <=> h \in Tokens(b)
    <3>1. h = Message("request", h.block, h.part)
      BY <1>4, MessageFacts
    <3>. QED  BY <3>1, TokenFacts DEF Reply
  <2>4. Count(Tail(owed[p]), Tokens(b)) \in Nat
    BY <1>4, CountType
  <2>. QED  BY <1>0, <1>7, <2>1, <2>2, <2>3, <2>4, OnTheWayType DEF OnTheWay
<1>13. Single(p)'
  BY <1>0, <1>1, <1>7, <1>12 DEF Good, Single
<1>14. Good(p)'
  BY <1>10, <1>11, <1>13 DEF Good
<1>. QED  BY <1>8, <1>14

LEMMA PeerChokesGood ==
  ASSUME IInv, NEW p \in Peers, PeerChokes(p)
  PROVE  \A q \in Peers : Good(q)'
<1>0. TypeOK /\ Good(p)
  BY DEF IInv
<1>1. /\ Refusals(p) \in Seq(Theirs)
      /\ coming' = [coming EXCEPT ![p] = (coming[p] \o Refusals(p)) \o <<Choke>>]
  BY <1>0, RefusalsFacts
<1>2. /\ owed[p] \in Seq(About({"request"})) /\ coming[p] \in Seq(Theirs) /\ inbuf[p] \in Seq(Theirs)
      /\ <<Choke>> \in Seq(Theirs) /\ coming[p] \o Refusals(p) \in Seq(Theirs)
      /\ (coming[p] \o Refusals(p)) \o <<Choke>> \in Seq(Theirs)
  BY <1>0, <1>1, Lines, KindFacts
<1>3. /\ p \in peers /\ owed'[p] = <<>> /\ coming'[p] = (coming[p] \o Refusals(p)) \o <<Choke>>
      /\ \A q \in Peers \ {p} : owed'[q] = owed[q] /\ coming'[q] = coming[q]
      /\ \A q \in Peers \ {p} : q \in choking' <=> q \in choking
      /\ UNCHANGED <<active, peers, choked, reading, sent, inbuf, twice>>
  BY <1>0, <1>1 DEF PeerChokes, TypeOK, torrentVars, ourSide
<1>4. ASSUME NEW q \in Peers, q # p PROVE Good(q)'
  <2>1. Untouched(q)
    BY <1>3, <1>4 DEF Untouched
  <2>. QED  BY <2>1, UntouchedGood DEF IInv
<1>5. Waiting(p)' /\ OwesNothing(p)' /\ Forgotten(p)' /\ AskedAgain(p)'
  BY <1>0, <1>3 DEF Good, Waiting, OwesNothing, Forgotten, AskedOf, AskedAgain
<1>6. LastWord(p)'
  <2>1. Has(<<Choke>>, Choke) /\ Follows(<<Choke>>, Unchoke, Choke)
    <3>1. ~Has(<<Choke>>, Unchoke)
      BY HasOne, MessageFacts DEF Choke, Unchoke
    <3>. QED  BY <3>1, HasOne, FollowsNone
  <2>2. Follows(coming'[p], Unchoke, Choke)
    BY <1>2, <1>3, <2>1, FollowsConcat
  <2>3. Has(coming'[p], Choke)
    <3>1. Has((coming[p] \o Refusals(p)) \o <<Choke>>, Choke)
      BY <1>2, <2>1, HasConcat
    <3>. QED  BY <1>3, <3>1
  <2>4. Follows(inbuf[p] \o coming'[p], Unchoke, Choke)
    BY <1>2, <1>3, <2>2, <2>3, FollowsConcat
  <2>5. Has(inbuf[p] \o coming'[p], Choke)
    <3>1. coming'[p] \in Seq(Theirs)
      BY <1>2, <1>3
    <3>. QED  BY <1>2, <2>3, <3>1, HasConcat
  <2>. QED  BY <1>3, <2>4, <2>5 DEF LastWord, Back
<1>7. CalledOff(p)'
  <2>1. \A m : ~Has(<<>>, m)
    BY DEF Has
  <2>. QED  BY <1>0, <1>3, <2>1 DEF Good, CalledOff
<1>8. ASSUME NEW b \in Blocks PROVE OnTheWay(p, b)' <= OnTheWay(p, b)
  <2>1. Count(Refusals(p), Tokens(b)) <= Count(owed[p], Tokens(b)) /\ Count(Refusals(p), Tokens(b)) \in Nat
    <3>1. CASE p \in Fext
      <4>1. Refusals(p) = [k \in DOMAIN owed[p] |-> Reply("reject", owed[p][k])]
        BY <3>1 DEF Refusals
      <4>2. ASSUME NEW k \in 1 .. Len(owed[p])
            PROVE  Refusals(p)[k] \in Tokens(b) <=> owed[p][k] \in Tokens(b)
        <5>1. owed[p][k] \in About({"request"}) /\ k \in DOMAIN owed[p]
          BY <1>2
        <5>2. owed[p][k] = Message("request", owed[p][k].block, owed[p][k].part)
          BY <5>1, MessageFacts
        <5>3. Refusals(p)[k] = Message("reject", owed[p][k].block, owed[p][k].part)
          BY <4>1, <5>1 DEF Reply
        <5>. QED  BY <5>2, <5>3, TokenFacts
      <4>3. Len(Refusals(p)) = Len(owed[p])
        BY <1>2, <4>1
      <4>4. owed[p] \in Seq(Ours \cup Theirs) /\ Refusals(p) \in Seq(Ours \cup Theirs)
        BY <1>1, <1>2, KindFacts
      <4>5. Count(Refusals(p), Tokens(b)) = Count(owed[p], Tokens(b))
        BY <4>2, <4>3, <4>4, CountAlike
      <4>. QED  BY <1>0, <4>5, OnTheWayType
    <3>2. CASE p \notin Fext
      <4>1. Count(Refusals(p), Tokens(b)) = 0
        BY <3>2, CountEmpty DEF Refusals
      <4>. QED  BY <1>0, <4>1, OnTheWayType
    <3>. QED  BY <3>1, <3>2
  <2>2. Count(coming[p] \o Refusals(p), Tokens(b)) = Count(coming[p], Tokens(b)) + Count(Refusals(p), Tokens(b))
    <3>1. coming[p] \in Seq(Theirs) /\ Refusals(p) \in Seq(Theirs)
      BY <1>1, <1>2
    <3>. QED  BY <3>1, CountConcat
  <2>3. Count(coming'[p], Tokens(b)) = Count(coming[p] \o Refusals(p), Tokens(b)) + Count(<<Choke>>, Tokens(b))
    <3>. DEFINE said == coming[p] \o Refusals(p)
    <3>1. said \in Seq(Theirs) /\ <<Choke>> \in Seq(Theirs) /\ coming'[p] = said \o <<Choke>>
      BY <1>2, <1>3
    <3>. HIDE DEF said
    <3>2. Count(said \o <<Choke>>, Tokens(b)) = Count(said, Tokens(b)) + Count(<<Choke>>, Tokens(b))
      BY <3>1, CountConcat
    <3>. QED  BY <3>1, <3>2 DEF said
  <2>4. Count(<<Choke>>, Tokens(b)) = 0 /\ Count(owed'[p], Tokens(b)) = 0
    BY <1>3, CountOne, CountEmpty, TokenFacts
  <2>5. OnTheWay(p, b)' = Count(sent[p], Tokens(b)) + Count(owed'[p], Tokens(b))
                            + Count(coming'[p], Tokens(b)) + Count(inbuf[p], Tokens(b))
    BY <1>3 DEF OnTheWay
  <2>6. Count(coming'[p], Tokens(b)) <= Count(coming[p], Tokens(b)) + Count(owed[p], Tokens(b))
        /\ Count(coming'[p], Tokens(b)) \in Nat
    BY <1>0, <2>1, <2>2, <2>3, <2>4, OnTheWayType
  <2>7. OnTheWay(p, b) = Count(sent[p], Tokens(b)) + Count(owed[p], Tokens(b))
                           + Count(coming[p], Tokens(b)) + Count(inbuf[p], Tokens(b))
    BY DEF OnTheWay
  <2>8. /\ Count(sent[p], Tokens(b)) \in Nat /\ Count(owed[p], Tokens(b)) \in Nat
        /\ Count(coming[p], Tokens(b)) \in Nat /\ Count(inbuf[p], Tokens(b)) \in Nat
    BY <1>0, OnTheWayType
  <2>. QED  BY <2>4, <2>5, <2>6, <2>7, <2>8
<1>9. ASSUME NEW b \in Blocks PROVE OnTheWay(p, b)' \in Nat
  <2>1. coming'[p] \in Seq(Theirs) /\ owed'[p] \in Seq(About({"request"}))
    BY <1>2, <1>3
  <2>2. Count(coming'[p], Tokens(b)) \in Nat /\ Count(owed'[p], Tokens(b)) \in Nat
    BY <2>1, CountType
  <2>3. OnTheWay(p, b)' = Count(sent[p], Tokens(b)) + Count(owed'[p], Tokens(b))
                            + Count(coming'[p], Tokens(b)) + Count(inbuf[p], Tokens(b))
    BY <1>3 DEF OnTheWay
  <2>4. Count(sent[p], Tokens(b)) \in Nat /\ Count(inbuf[p], Tokens(b)) \in Nat
    BY <1>0, OnTheWayType
  <2>. QED  BY <2>2, <2>3, <2>4
<1>10. Single(p)'
  <2>. SUFFICES ASSUME NEW b \in Blocks, ~Split(b), <<b, p>> \notin twice
                PROVE  OnTheWay(p, b)' <= 1
    BY <1>3 DEF Single
  <2>1. OnTheWay(p, b) <= 1
    BY <1>0, <1>3 DEF Good, Single
  <2>. QED  BY <1>0, <1>8, <1>9, <2>1, OnTheWayType
<1>11. Good(p)'
  BY <1>5, <1>6, <1>7, <1>10 DEF Good
<1>. QED  BY <1>4, <1>11

LEMMA PeerUnchokesGood ==
  ASSUME IInv, NEW p \in Peers, PeerUnchokes(p)
  PROVE  \A q \in Peers : Good(q)'
<1>0. TypeOK /\ Good(p)
  BY DEF IInv
<1>1. /\ p \in peers /\ p \notin choking' /\ coming'[p] = Append(coming[p], Unchoke)
      /\ \A q \in Peers \ {p} : coming'[q] = coming[q]
      /\ \A q \in Peers \ {p} : q \in choking' <=> q \in choking
      /\ UNCHANGED <<active, peers, choked, reading, sent, owed, inbuf, twice>>
  BY <1>0 DEF PeerUnchokes, TypeOK, torrentVars, ourSide, history
<1>2. ASSUME NEW q \in Peers, q # p PROVE Good(q)'
  <2>1. Untouched(q)
    BY <1>1, <1>2 DEF Untouched
  <2>. QED  BY <2>1, UntouchedGood DEF IInv
<1>3. /\ Waiting(p)' /\ OwesNothing(p)' /\ LastWord(p)' /\ Forgotten(p)' /\ AskedAgain(p)'
      /\ CalledOff(p)'
  BY <1>0, <1>1 DEF Good, Waiting, OwesNothing, LastWord, Forgotten, AskedOf, AskedAgain, CalledOff
<1>4. ASSUME NEW b \in Blocks PROVE OnTheWay(p, b)' = OnTheWay(p, b)
  <2>1. Count(Append(coming[p], Unchoke), Tokens(b)) = Count(coming[p], Tokens(b))
    <3>1. Count(Append(coming[p], Unchoke), Tokens(b)) = Count(coming[p], Tokens(b)) + 0
      BY <1>0, Lines, KindFacts, TokenFacts, CountAppend
    <3>. QED  BY <1>0, <3>1, OnTheWayType
  <2>. QED  BY <1>1, <2>1 DEF OnTheWay
<1>5. Single(p)'
  BY <1>0, <1>1, <1>4 DEF Good, Single
<1>6. Good(p)'
  BY <1>3, <1>5 DEF Good
<1>. QED  BY <1>2, <1>6

LEMMA ReceiveGood ==
  ASSUME IInv, NEW p \in Peers, Receive(p)
  PROVE  \A q \in Peers : Good(q)'
<1>0. TypeOK /\ Good(p)
  BY DEF IInv
<1>1. /\ p \in peers /\ (coming[p] # <<>> \/ inbuf[p] # <<>>)
      /\ inbuf'[p] = inbuf[p] \o coming[p] /\ coming'[p] = <<>>
      /\ \A q \in Peers \ {p} : coming'[q] = coming[q] /\ inbuf'[q] = inbuf[q]
      /\ \A q \in Peers \ {p} : q \in reading' => q \in reading
      /\ UNCHANGED <<active, peers, choked, choking, sent, owed, twice>>
  BY <1>0 DEF Receive, TypeOK, torrentVars, history
<1>2. coming[p] \in Seq(Theirs) /\ inbuf[p] \in Seq(Theirs) /\ inbuf[p] \o coming[p] \in Seq(Theirs)
  BY <1>0, Lines
<1>3. ASSUME NEW q \in Peers, q # p PROVE Good(q)'
  <2>1. Untouched(q)
    BY <1>1, <1>3 DEF Untouched
  <2>. QED  BY <2>1, UntouchedGood DEF IInv
<1>4. Back(p)' = Back(p)
  <2>1. (inbuf[p] \o coming[p]) \o <<>> = inbuf[p] \o coming[p]
    BY <1>2
  <2>. QED  BY <1>1, <2>1 DEF Back
<1>5. Waiting(p)'
  BY <1>1, <1>2 DEF Waiting
<1>6. /\ OwesNothing(p)' /\ LastWord(p)' /\ Forgotten(p)' /\ AskedAgain(p)' /\ CalledOff(p)'
  BY <1>0, <1>1, <1>4 DEF Good, OwesNothing, LastWord, Forgotten, AskedOf, AskedAgain, CalledOff
<1>7. ASSUME NEW b \in Blocks PROVE OnTheWay(p, b)' = OnTheWay(p, b)
  <2>1. Count(inbuf[p] \o coming[p], Tokens(b)) = Count(inbuf[p], Tokens(b)) + Count(coming[p], Tokens(b))
    BY <1>2, CountConcat
  <2>2. Count(<<>>, Tokens(b)) = 0
    BY CountEmpty
  <2>. QED  BY <1>0, <1>1, <2>1, <2>2, OnTheWayType DEF OnTheWay
<1>8. Single(p)'
  BY <1>0, <1>1, <1>7 DEF Good, Single
<1>9. Good(p)'
  BY <1>5, <1>6, <1>8 DEF Good
<1>. QED  BY <1>3, <1>9

\* Once the answer to a request is at hand, nothing of the request is left behind.
LEMMA AnswerAtHand ==
  ASSUME TypeOK, NEW p \in Peers, p \in peers, Single(p), NEW b \in Blocks,
         ~Split(b), <<b, p>> \notin twice, inbuf[p] # <<>>, Head(inbuf[p]) \in Tokens(b)
  PROVE  ~Has(sent[p], Ask1(b)) /\ ~Has(owed[p], Ask1(b))
<1>1. OnTheWay(p, b) <= 1
  BY DEF Single
<1>2. inbuf[p] \in Seq(Theirs) /\ Tail(inbuf[p]) \in Seq(Theirs)
  BY Lines
<1>3. Count(inbuf[p], Tokens(b)) = Count(Tail(inbuf[p]), Tokens(b)) + 1
  BY <1>2, CountTail
<1>4. Count(Tail(inbuf[p]), Tokens(b)) \in Nat
  BY <1>2, CountType
<1>. QED  BY <1>1, <1>3, <1>4, OnTheWayType, TokenPlaces DEF OnTheWay

\* What reading the message m of p may change.
Reading(p, m, goesOn) ==
  /\ Reads(p, m, goesOn) /\ sent'[p] = sent[p]
  /\ \A b : <<b, p>> \in active' => <<b, p>> \in active
  /\ \A b : (<<b, p>> \in active /\ <<b, p>> \notin active') =>
       p \notin Fext \/ (m \in About({"piece", "reject"}) /\ m.block = b)
  /\ \/ m = Choke /\ choked' = choked \cup {p} /\ (p \notin Fext => \A b : <<b, p>> \notin active')
     \/ m = Unchoke /\ choked' = choked \ {p}
     \/ m \notin {Choke, Unchoke} /\ choked' = choked

LEMMA ReadingGood ==
  ASSUME IInv, NEW p \in Peers, inbuf[p] # <<>>, NEW m, NEW goesOn, Reading(p, m, goesOn)
  PROVE  Good(p)'
<1>0. TypeOK /\ Good(p) /\ p \in peers
  BY DEF IInv, Reading, Reads, TypeOK
<1>1. /\ m = Head(inbuf[p]) /\ inbuf'[p] = Tail(inbuf[p])
      /\ p \in reading' => Len(inbuf[p]) > 1
      /\ UNCHANGED <<peers, owed, choking, coming, twice>>
  BY <1>0 DEF Reading, Reads, TypeOK
<1>2. /\ inbuf[p] \in Seq(Theirs) /\ coming[p] \in Seq(Theirs) /\ Tail(inbuf[p]) \in Seq(Theirs)
      /\ inbuf[p] \o coming[p] \in Seq(Theirs)
  BY <1>0, Lines
<1>3. /\ Back(p) \in Seq(Theirs) /\ Back(p) # <<>> /\ Head(Back(p)) = m
      /\ Back(p)' = Tail(Back(p))
  <2>1. /\ Head(inbuf[p] \o coming[p]) = Head(inbuf[p]) /\ inbuf[p] \o coming[p] # <<>>
        /\ Tail(inbuf[p] \o coming[p]) = Tail(inbuf[p]) \o coming[p]
    BY <1>2, TailConcat
  <2>. QED  BY <1>1, <1>2, <2>1 DEF Back
<1>4. Waiting(p)'
  <2>1. p \in reading' => Tail(inbuf[p]) # <<>>
    BY <1>1, <1>2, TailNotEmpty
  <2>. QED  BY <1>1, <2>1 DEF Waiting
<1>5. OwesNothing(p)'
  BY <1>0, <1>1 DEF Good, OwesNothing
<1>6. LastWord(p)'
  <2>. SUFFICES ASSUME p \in choking
                PROVE  /\ p \in choked' \/ Has(Tail(Back(p)), Choke)
                       /\ Follows(Tail(Back(p)), Unchoke, Choke)
    BY <1>1, <1>3 DEF LastWord
  <2>1. (p \in choked \/ Has(Back(p), Choke)) /\ Follows(Back(p), Unchoke, Choke)
    BY <1>0 DEF Good, LastWord
  <2>2. Follows(Tail(Back(p)), Unchoke, Choke) /\ (m = Unchoke => Has(Tail(Back(p)), Choke))
    BY <1>3, <2>1, FollowsTail
  <2>3. Has(Back(p), Choke) => m = Choke \/ Has(Tail(Back(p)), Choke)
    BY <1>3, HasTail
  <2>. QED  BY <2>1, <2>2, <2>3 DEF Reading
<1>7. Forgotten(p)'
  <2>. SUFFICES ASSUME p \in choked' \ Fext PROVE AskedOf(p)' = {}
    BY DEF Forgotten
  <2>1. CASE p \in choked
    <3>1. AskedOf(p) = {}
      BY <1>0, <2>1 DEF Good, Forgotten
    <3>. QED  BY <3>1 DEF Reading, AskedOf
  <2>2. CASE p \notin choked
    BY <2>2 DEF Reading, AskedOf
  <2>. QED  BY <2>1, <2>2
<1>8. AskedAgain(p)'
  BY <1>0 DEF Good, AskedAgain, Reading
<1>9. Single(p)'
  <2>. SUFFICES ASSUME NEW b \in Blocks, ~Split(b), <<b, p>> \notin twice
                PROVE  OnTheWay(p, b)' <= 1
    BY <1>1 DEF Single
  <2>1. OnTheWay(p, b) <= 1
    BY <1>0 DEF Good, Single
  <2>2. Count(inbuf[p], Tokens(b)) = Count(inbuf'[p], Tokens(b)) + (IF m \in Tokens(b) THEN 1 ELSE 0)
    BY <1>1, <1>2, CountTail
  <2>3. Count(inbuf'[p], Tokens(b)) \in Nat
    BY <1>1, <1>2, CountType
  <2>4. OnTheWay(p, b)' = Count(sent[p], Tokens(b)) + Count(owed[p], Tokens(b))
                            + Count(coming[p], Tokens(b)) + Count(inbuf'[p], Tokens(b))
    BY <1>1 DEF OnTheWay, Reading
  <2>. QED  BY <1>0, <2>1, <2>2, <2>3, <2>4, OnTheWayType DEF OnTheWay
<1>10. CalledOff(p)'
  <2>. SUFFICES ASSUME p \in Fext, NEW b \in Blocks, ~Split(b), <<b, p>> \notin twice, <<b, p>> \notin active'
                PROVE  /\ Follows(sent[p], Ask1(b), Cancelled(b))
                       /\ Has(owed[p], Ask1(b)) => Has(sent[p], Cancelled(b))
    BY <1>1 DEF CalledOff, Reading
  <2>1. CASE <<b, p>> \notin active
    BY <1>0, <2>1 DEF Good, CalledOff
  <2>2. CASE <<b, p>> \in active
    <3>1. m \in About({"piece", "reject"}) /\ m.block = b
      BY <2>2 DEF Reading
    <3>2. m \in Tokens(b)
      <4>1. m.kind \in {"piece", "reject"} /\ m.part = 1 /\ m = Message(m.kind, b, m.part)
        BY <3>1, MessageFacts, PartFacts
      <4>. QED  BY <4>1, TokenFacts
    <3>3. ~Has(sent[p], Ask1(b)) /\ ~Has(owed[p], Ask1(b))
      BY <1>0, <1>1, <3>2, AnswerAtHand DEF Good
    <3>. QED  BY <3>3, FollowsNone
  <2>. QED  BY <2>1, <2>2
<1>. QED  BY <1>4, <1>5, <1>6, <1>7, <1>8, <1>9, <1>10 DEF Good

\* The other connections, while p is read.
LEMMA ReadsOthers ==
  ASSUME TypeOK, NEW p \in Peers, NEW m, NEW goesOn, Reads(p, m, goesOn), NEW q \in Peers, q # p
  PROVE  /\ inbuf'[q] = inbuf[q] /\ owed'[q] = owed[q] /\ coming'[q] = coming[q]
         /\ q \in reading' => q \in reading
         /\ UNCHANGED <<peers, broken, choking, twice>>
BY DEF Reads, TypeOK

\* A block that has come is asked of nobody, and the others are told.
LEMMA ReadPieceGood ==
  ASSUME IInv, NEW p \in Peers, ReadPiece(p)
  PROVE  \A q \in Peers : Good(q)'
<1>0. TypeOK /\ inbuf[p] # <<>>
  BY DEF IInv, ReadPiece
<1>. PICK m : m = Head(inbuf[p])
  OBVIOUS
<1>. PICK b : b = m.block
  OBVIOUS
<1>1. PICK whole :
        /\ m.kind = "piece" /\ Reads(p, m, whole) /\ choked' = choked
        /\ \/ active' = Settled(b, p) /\ Send(CancelsFor(b, p))
           \/ UNCHANGED <<have, active, sent, mishaps>>
  BY DEF ReadPiece
<1>2. m \in About({"piece", "reject"}) /\ b \in Blocks /\ m \notin {Choke, Unchoke}
  <2>1. m \in Theirs
    BY <1>0, <1>1, ReadsTypes
  <2>2. m \in About({"piece", "reject"}) /\ m \notin {Choke, Unchoke}
    BY <1>1, <2>1, KindFacts
  <2>. QED  BY <2>2, MessageFacts
<1>3. CASE UNCHANGED <<have, active, sent, mishaps>>
  <2>1. ASSUME NEW q \in Peers, q # p PROVE Good(q)'
    <3>1. Untouched(q)
      BY <1>0, <1>1, <1>3, <2>1, ReadsOthers DEF Untouched
    <3>. QED  BY <3>1, UntouchedGood DEF IInv
  <2>2. Reading(p, m, whole)
    BY <1>1, <1>2, <1>3 DEF Reading
  <2>. QED  BY <1>0, <2>1, <2>2, ReadingGood
<1>4. CASE active' = Settled(b, p) /\ Send(CancelsFor(b, p))
  <2>1. \A c, q : <<c, q>> \in active' <=> <<c, q>> \in active /\ c # b
    BY <1>4 DEF Settled
  <2>2. \A q \in Peers : sent'[q] = IF q \in Asked(b) \ {p} THEN sent[q] \o <<Cancelled(b)>> ELSE sent[q]
    <3>1. \A q \in Peers : sent[q] \o <<>> = sent[q]
      BY <1>0, Lines
    <3>. QED  BY <1>4, <3>1 DEF Send, CancelsFor
  <2>3. ASSUME NEW q \in Peers, q # p PROVE Good(q)'
    <3>1. \/ sent'[q] = sent[q] /\ <<b, q>> \notin active
          \/ sent'[q] = sent[q] \o <<Cancelled(b)>>
      BY <2>2, <2>3 DEF Asked
    <3>2. Notified(q, b)
      BY <1>0, <1>1, <2>1, <2>3, <3>1, ReadsOthers DEF Notified
    <3>. QED  BY <1>0, <1>2, <3>2, NotifiedGood DEF IInv
  <2>4. Reading(p, m, whole)
    BY <1>1, <1>2, <2>1, <2>2 DEF Reading
  <2>. QED  BY <1>0, <2>3, <2>4, ReadingGood
<1>. QED  BY <1>1, <1>3, <1>4

LEMMA ReadGood ==
  ASSUME IInv, NEW p \in Peers, Read(p)
  PROVE  \A q \in Peers : Good(q)'
<1>0. TypeOK /\ inbuf[p] # <<>>
  <2>1. p \in reading
    BY DEF Read, ReadChoke, ReadUnchoke, ReadReject, ReadPiece, ReadUnrequested, Reads
  <2>. QED  BY <2>1 DEF IInv, Good, Waiting, TypeOK
<1>1. ASSUME NEW m, NEW goesOn, Reading(p, m, goesOn),
             \A q \in Peers \ {p} :
               /\ sent'[q] = sent[q] /\ (q \in choked' <=> q \in choked)
               /\ \A b : <<b, q>> \in active' <=> <<b, q>> \in active
      PROVE  \A q \in Peers : Good(q)'
  <2>1. ASSUME NEW q \in Peers, q # p PROVE Good(q)'
    <3>1. Untouched(q)
      BY <1>0, <1>1, <2>1, ReadsOthers DEF Untouched, Reading
    <3>. QED  BY <3>1, UntouchedGood DEF IInv
  <2>. QED  BY <1>0, <1>1, <2>1, ReadingGood
<1>2. CASE ReadChoke(p)
  <2>1. Reading(p, Choke, TRUE)
    BY <1>2 DEF ReadChoke, Reading
  <2>. QED  BY <1>1, <1>2, <2>1 DEF ReadChoke
<1>3. CASE ReadUnchoke(p)
  <2>1. Reading(p, Unchoke, TRUE)
    BY <1>3 DEF ReadUnchoke, Reading, torrentVars
  <2>. QED  BY <1>1, <1>3, <2>1 DEF ReadUnchoke, torrentVars
<1>4. CASE ReadReject(p)
  <2>. PICK m : m = Head(inbuf[p])
    OBVIOUS
  <2>1. /\ Reads(p, m, TRUE) /\ m.kind = "reject" /\ active' = active \ {<<m.block, p>>}
        /\ UNCHANGED <<have, choked, partial, sent, mishaps>>
    BY <1>4 DEF ReadReject
  <2>2. m \in About({"piece", "reject"}) /\ m \notin {Choke, Unchoke}
    <3>1. m \in Theirs
      BY <1>0, <2>1, ReadsTypes
    <3>. QED  BY <2>1, <3>1, KindFacts
  <2>3. Reading(p, m, TRUE)
    BY <2>1, <2>2 DEF Reading
  <2>. QED  BY <1>1, <2>1, <2>3
<1>5. CASE ReadPiece(p)
  BY <1>5, ReadPieceGood
<1>6. CASE ReadUnrequested(p)
  <2>. PICK m : m = Head(inbuf[p])
    OBVIOUS
  <2>1. /\ Reads(p, m, FALSE) /\ m.kind = "piece"
        /\ UNCHANGED <<torrentVars, choked, partial, sent, mishaps>>
    BY <1>6 DEF ReadUnrequested
  <2>2. m \notin {Choke, Unchoke}
    BY <2>1, KindFacts
  <2>3. Reading(p, m, FALSE)
    BY <2>1, <2>2 DEF Reading, torrentVars
  <2>. QED  BY <1>1, <2>1, <2>3 DEF torrentVars
<1>. QED  BY <1>2, <1>3, <1>4, <1>5, <1>6 DEF Read

-----------------------------------------------------------------------------
(* The invariant holds *)

LEMMA InitIInv == Init => IInv
<1>. SUFFICES ASSUME Init PROVE IInv
  OBVIOUS
<1>1. TypeOK
  BY RequestsAssumption DEF Init, TypeOK
<1>2. ASSUME NEW q \in Peers PROVE Good(q)
  <2>1. /\ sent[q] = <<>> /\ owed[q] = <<>> /\ coming[q] = <<>> /\ inbuf[q] = <<>>
        /\ active = {} /\ reading = {} /\ q \in choked
    BY DEF Init
  <2>2. \A b : OnTheWay(q, b) = 0
    BY <2>1, CountEmpty DEF OnTheWay
  <2>3. \A m : ~Has(<<>>, m)
    BY DEF Has
  <2>4. \A m, n : Follows(<<>>, m, n)
    BY <2>3, FollowsNone
  <2>5. Back(q) = <<>>
    BY <2>1 DEF Back
  <2>6. Waiting(q) /\ OwesNothing(q) /\ LastWord(q) /\ Forgotten(q)
    BY <2>1, <2>4, <2>5 DEF Waiting, OwesNothing, LastWord, Forgotten, AskedOf
  <2>7. Single(q) /\ CalledOff(q) /\ AskedAgain(q)
    BY <2>1, <2>2, <2>3, <2>4 DEF Single, CalledOff, AskedAgain
  <2>. QED  BY <2>6, <2>7 DEF Good
<1>. QED  BY <1>1, <1>2, AskedWellInit DEF IInv

LEMMA NextIInv == IInv /\ [Next]_vars => IInv'
<1>. SUFFICES ASSUME IInv, [Next]_vars PROVE IInv'
  OBVIOUS
<1>1. TypeOK'
  <2>1. \A p \in reading : inbuf[p] # <<>>
    BY DEF IInv, TypeOK, Good, Waiting
  <2>. QED  BY <2>1, TypesNext DEF IInv
<1>2. AskedWell'
  BY AskedWellNext DEF IInv
<1>3. \A q \in Peers : Good(q)'
  <2>1. CASE UpdateInterest
    <3>1. \A q \in Peers : Untouched(q)
      BY <2>1 DEF UpdateInterest, Untouched, torrentVars, wires, history
    <3>. QED  BY <3>1, UntouchedGood DEF IInv
  <2>2. ASSUME NEW p \in Peers, Ask(p) PROVE \A q \in Peers : Good(q)'
    BY <2>2, AskGood
  <2>3. ASSUME NEW p \in Peers, NEW b \in Blocks, CancelOld(b, p) PROVE \A q \in Peers : Good(q)'
    BY <2>3, CancelOldGood
  <2>4. ASSUME NEW p \in Peers, PeerReads(p) PROVE \A q \in Peers : Good(q)'
    BY <2>4, PeerReadsGood
  <2>5. ASSUME NEW p \in Peers, Serve(p) PROVE \A q \in Peers : Good(q)'
    BY <2>5, ServeGood
  <2>6. ASSUME NEW p \in Peers, PeerChokes(p) PROVE \A q \in Peers : Good(q)'
    BY <2>6, PeerChokesGood
  <2>7. ASSUME NEW p \in Peers, PeerUnchokes(p) PROVE \A q \in Peers : Good(q)'
    BY <2>7, PeerUnchokesGood
  <2>8. ASSUME NEW p \in Peers, Receive(p) PROVE \A q \in Peers : Good(q)'
    BY <2>8, ReceiveGood
  <2>9. ASSUME NEW p \in Peers, Read(p) PROVE \A q \in Peers : Good(q)'
    BY <2>9, ReadGood
  <2>10. ASSUME NEW p \in Peers, Break(p) PROVE \A q \in Peers : Good(q)'
    <3>1. \A q \in Peers : Untouched(q)
      BY <2>10 DEF Break, Untouched, torrentVars, wires
    <3>. QED  BY <3>1, UntouchedGood DEF IInv
  <2>11. ASSUME NEW p \in Peers, Close(p) PROVE \A q \in Peers : Good(q)'
    <3>1. Good(p)'
      BY <2>11 DEF Close, Good
    <3>2. ASSUME NEW q \in Peers, q # p PROVE Untouched(q)
      <4>1. /\ sent'[q] = sent[q] /\ owed'[q] = owed[q] /\ coming'[q] = coming[q] /\ inbuf'[q] = inbuf[q]
            /\ UNCHANGED <<choked, choking, twice>>
            /\ q \in peers' => q \in peers
            /\ q \in reading' => q \in reading
        BY <2>11, <3>2 DEF Close, IInv, TypeOK
      <4>2. \A b : <<b, q>> \in active' <=> <<b, q>> \in active
        BY <2>11, <3>2 DEF Close
      <4>. QED  BY <4>1, <4>2 DEF Untouched
    <3>. QED  BY <3>1, <3>2, UntouchedGood DEF IInv
  <2>12. CASE UNCHANGED vars
    <3>1. \A q \in Peers : Untouched(q)
      BY <2>12 DEF vars, Untouched, torrentVars, ourSide, wires, history
    <3>. QED  BY <3>1, UntouchedGood DEF IInv
  <2>. QED
    BY <2>1, <2>2, <2>3, <2>4, <2>5, <2>6, <2>7, <2>8, <2>9, <2>10, <2>11, <2>12 DEF Next
<1>. QED  BY <1>1, <1>2, <1>3 DEF IInv

LEMMA Invariance == Spec => []IInv
BY InitIInv, NextIInv, PTL DEF Spec

\* The messages on each line, what is owed and what was received keep their types:
\* whatever peers we have and however a block is cut into parts.
THEOREM RequestsTypeCorrect == Spec => []TypeOK
BY Invariance, PTL DEF IInv

\* Once we have a block, each peer with the fast extension that was asked for it and
\* owes it still has a cancel ahead of it (cancelAllRequestsForBlock() and
\* cancelOldRequests()), and the answer to no other request is mistaken for it.
THEOREM WhatWeHaveIsCancelled == Spec => []HadIsCancelled
<1>1. IInv => HadIsCancelled
  <2>. SUFFICES ASSUME IInv, NEW b \in {c \in have : ~Split(c)}, NEW p \in (peers \cap Fext) \ broken,
                       <<b, p>> \notin twice
                PROVE  /\ \A k \in DOMAIN sent[p] : sent[p][k] = Ask1(b) => CancelFollows(p, b, k)
                       /\ InFlight(owed[p], "request", b, 1) => CancelFollows(p, b, 0)
    BY DEF HadIsCancelled, Ask1
  <2>1. b \in Blocks /\ p \in Peers /\ ~Split(b) /\ TypeOK
    BY DEF IInv, TypeOK
  <2>2. <<b, p>> \notin active
    <3>1. Cardinality(Asked(b)) <= 0
      BY <2>1 DEF IInv, AskedWell, NothingAskedInVain
    <3>2. IsFiniteSet(Asked(b)) /\ Cardinality(Asked(b)) \in Nat
      BY AskedFinite
    <3>3. Asked(b) = {}
      BY <3>1, <3>2, FS_EmptySet
    <3>. QED  BY <2>1, <3>3 DEF Asked
  <2>3. /\ Follows(sent[p], Ask1(b), Cancelled(b))
        /\ Has(owed[p], Ask1(b)) => Has(sent[p], Cancelled(b))
    BY <2>1, <2>2 DEF IInv, Good, CalledOff
  <2>4. sent[p] \in Seq(Ours)
    BY <2>1, Lines
  <2>. QED  BY <2>3, <2>4 DEF Follows, Has, CancelFollows, InFlight, Ask1
<1>. QED  BY <1>1, Invariance, PTL
-----------------------------------------------------------------------------
(* What is expected is on its way *)

\* Where a part that is expected of q may be.
Answer(q, b, i) ==
  \/ <<b, i>> \in partial[q]
  \/ Has(sent[q], Message("request", b, i)) \/ Has(owed[q], Message("request", b, i))
  \/ Has(Back(q), Message("piece", b, i))
  \/ \E j \in DOMAIN PieceOf[b] : Has(Back(q), Message("reject", b, j))
  \/ q \notin Fext /\ Has(Back(q), Choke)

Expected(q) ==
  q \in peers \ broken =>
    \A b \in Blocks : <<b, q>> \in active =>
      \A i \in DOMAIN PieceOf[b] : PieceOf[b][i] \in Offers[q] => Answer(q, b, i)

LEMMA ExpectedAnswered ==
  ASSUME TypeOK
  PROVE  RequestsAreAnswered <=> \A q \in Peers : Expected(q)
<1>1. \A q, b, i : Answer(q, b, i) <=> <<b, i>> \in partial[q] \/ WillAnswer(q, b, i)
  <2>1. \A s, kind, b, i : InFlight(s, kind, b, i) <=> Has(s, Message(kind, b, i))
    BY DEF InFlight, Has, Range
  <2>2. \A s : Choke \in Range(s) <=> Has(s, Choke)
    BY DEF Has, Range
  <2>. QED  BY <2>1, <2>2 DEF Answer, WillAnswer, Back
<1>2. peers \subseteq Peers
  BY DEF TypeOK
<1>. QED  BY <1>1, <1>2 DEF RequestsAreAnswered, Expected, AskedOf

LEMMA HasBack ==
  ASSUME TypeOK, NEW q \in Peers, NEW m
  PROVE  Has(Back(q), m) <=> Has(inbuf[q], m) \/ Has(coming[q], m)
BY Lines, HasConcat DEF Back

\* Nothing is lost on the way, nor is more expected.
Kept(q) ==
  /\ q \in peers' \ broken' => q \in peers \ broken
  /\ \A b : <<b, q>> \in active' => <<b, q>> \in active
  /\ partial'[q] = partial[q]
  /\ \A m : Has(sent[q], m) => Has(sent'[q], m)
  /\ owed'[q] = owed[q]
  /\ \A m : Has(Back(q), m) => Has(Back(q)', m)

LEMMA KeptExpected ==
  ASSUME NEW q, Expected(q), Kept(q)
  PROVE  Expected(q)'
<1>1. \A b, i : Answer(q, b, i) => Answer(q, b, i)'
  BY DEF Kept, Answer
<1>. QED  BY <1>1 DEF Kept, Expected

\* A connection that a step does not touch loses nothing.
LEMMA UntouchedKept ==
  ASSUME NEW q, Untouched(q), partial'[q] = partial[q], q \in peers' \ broken' => q \notin broken
  PROVE  Kept(q)
<1>1. Back(q)' = Back(q)
  BY DEF Untouched, Back
<1>. QED  BY <1>1 DEF Untouched, Kept

LEMMA AskExpected ==
  ASSUME TypeOK, NEW p \in Peers, Ask(p), \A q \in Peers : Expected(q)
  PROVE  \A q \in Peers : Expected(q)'
<1>1. PICK S \in SUBSET Wanted(p) :
        /\ active' = active \cup (S \X {p})
        /\ \E asks \in SetToSeqs(UNION {Requested(b) : b \in S}) :
             sent' = [sent EXCEPT ![p] = @ \o asks]
  BY DEF Ask
<1>2. PICK asks \in SetToSeqs(UNION {Requested(b) : b \in S}) :
        sent' = [sent EXCEPT ![p] = @ \o asks]
  BY <1>1
<1>3. /\ UNCHANGED <<peers, broken, partial, owed, coming, inbuf>>
      /\ p \in peers /\ S \in SUBSET Blocks
  BY DEF Ask, ourSide, Wanted, Missing
<1>4. /\ asks \in Seq(Ours) /\ sent[p] \in Seq(Ours)
      /\ \A m : Has(asks, m) <=> \E b \in S : \E i \in DOMAIN PieceOf[b] : m = Message("request", b, i)
  BY <1>3, AsksFacts, Lines
<1>5. sent'[p] = sent[p] \o asks /\ \A q \in Peers \ {p} : sent'[q] = sent[q]
  BY <1>2 DEF TypeOK
<1>6. \A m : Has(sent'[p], m) <=> Has(sent[p], m) \/ Has(asks, m)
  BY <1>4, <1>5, HasConcat
<1>7. \A q : Back(q)' = Back(q)
  BY <1>3 DEF Back
<1>8. ASSUME NEW q \in Peers, q # p PROVE Expected(q)'
  <2>1. Kept(q)
    BY <1>1, <1>3, <1>5, <1>7, <1>8 DEF Kept
  <2>. QED  BY <2>1, KeptExpected
<1>9. Expected(p)'
  <2>. SUFFICES ASSUME p \in peers \ broken, NEW b \in Blocks, <<b, p>> \in active',
                       NEW i \in DOMAIN PieceOf[b], PieceOf[b][i] \in Offers[p]
                PROVE  Answer(p, b, i)'
    BY <1>3 DEF Expected
  <2>1. CASE b \in S
    <3>1. Has(sent'[p], Message("request", b, i))
      BY <1>4, <1>6, <2>1
    <3>. QED  BY <3>1 DEF Answer
  <2>2. CASE b \notin S
    <3>1. Answer(p, b, i)
      BY <1>1, <2>2 DEF Expected
    <3>. QED  BY <1>3, <1>6, <1>7, <3>1 DEF Answer
  <2>. QED  BY <2>1, <2>2
<1>. QED  BY <1>8, <1>9

\* A request that a peer reads is owed, or refused in so many words, or refused
\* silently, and then the peer has said that it chokes us.
LEMMA PeerReadsExpected ==
  ASSUME IInv, Roomy, NEW p \in Peers, PeerReads(p), \A q \in Peers : Expected(q)
  PROVE  \A q \in Peers : Expected(q)'
<1>0. TypeOK /\ TypeOK' /\ Good(p)
  BY PeerReadsTypes DEF IInv
<1>1. /\ sent[p] # <<>> /\ sent'[p] = Tail(sent[p]) /\ p \in peers
      /\ Fate(p, Head(sent[p]))
      /\ UNCHANGED <<active, peers, broken, partial, inbuf>>
      /\ \A q \in Peers \ {p} : sent'[q] = sent[q] /\ owed'[q] = owed[q] /\ coming'[q] = coming[q]
  BY <1>0, PeerReadsFacts DEF torrentVars, ourSide
<1>2. /\ sent[p] \in Seq(Ours) /\ owed[p] \in Seq(About({"request"})) /\ coming[p] \in Seq(Theirs)
  BY <1>0, Lines
<1>. PICK m \in Ours : m = Head(sent[p])
  BY <1>1, <1>2
<1>3. ASSUME NEW q \in Peers, q # p PROVE Expected(q)'
  <2>1. Back(q)' = Back(q)
    BY <1>1, <1>3 DEF Back
  <2>2. Kept(q)
    BY <1>1, <1>3, <2>1 DEF Kept
  <2>. QED  BY <2>2, KeptExpected
<1>4. \A x : Has(sent[p], x) <=> m = x \/ Has(sent'[p], x)
  BY <1>1, <1>2, HasTail
<1>5. \A x \in Theirs : coming'[p] = Append(coming[p], x) =>
        Has(Back(p)', x) /\ \A y : Has(Back(p), y) => Has(Back(p)', y)
  <2>. SUFFICES ASSUME NEW x \in Theirs, coming'[p] = Append(coming[p], x), NEW y
                PROVE  Has(Back(p)', x) /\ (Has(Back(p), y) => Has(Back(p)', y))
    OBVIOUS
  <2>1. \A z : Has(Append(coming[p], x), z) <=> Has(coming[p], z) \/ x = z
    BY <1>2, HasAppend
  <2>2. \A z : Has(Back(p), z) <=> Has(inbuf[p], z) \/ Has(coming[p], z)
    BY <1>0, HasBack
  <2>3. \A z : Has(Back(p)', z) <=> Has(inbuf'[p], z) \/ Has(coming'[p], z)
    <3>1. inbuf'[p] \in Seq(Theirs) /\ coming'[p] \in Seq(Theirs)
      BY <1>0 DEF TypeOK
    <3>. QED  BY <3>1, HasConcat DEF Back
  <2>. QED  BY <1>1, <2>1, <2>2, <2>3
<1>6. \A y : Has(Back(p), y) => Has(Back(p)', y)
  <2>1. coming'[p] = coming[p] => Back(p)' = Back(p)
    BY <1>1 DEF Back
  <2>2. \A c \in Blocks : Message("reject", c, 1) \in Theirs
    BY PartFacts, MessageFacts, KindFacts
  <2>3. m \in About({"request"}) => Message("reject", m.block, m.part) \in Theirs
    BY MessageFacts, KindFacts
  <2>. QED  BY <1>1, <1>5, <2>1, <2>2, <2>3 DEF Fate
<1>7. ASSUME p \notin broken, NEW b \in Blocks, <<b, p>> \in active,
             NEW i \in DOMAIN PieceOf[b], PieceOf[b][i] \in Offers[p]
      PROVE  Answer(p, b, i)'
  <2>. DEFINE r == Message("request", b, i)
  <2>0. Answer(p, b, i)
    BY <1>1, <1>7 DEF Expected
  <2>1. CASE ~Has(sent[p], r) /\ ~Has(owed[p], r)
    BY <1>1, <1>6, <2>0, <2>1 DEF Answer
  <2>2. CASE Has(sent'[p], r)
    BY <2>2 DEF Answer
  <2>3. CASE Has(owed'[p], r)
    BY <2>3 DEF Answer
  <2>4. ASSUME m = r, ~Has(owed'[p], r) PROVE Answer(p, b, i)'
    <3>1. m \in About({"request"}) /\ m.block = b /\ m.part = i
      <4>1. "request" \in {"request"}
        OBVIOUS
      <4>2. r \in About({"request"})
        BY <4>1, MessageFacts
      <4>. QED  BY <2>4, <4>2, MessageFacts
    <3>2. \A c : m # Cancelled(c)
      BY <2>4, MessageFacts DEF Cancelled
    <3>3. ~Takes(p, m)
      <4>1. Has(Append(owed[p], m), m)
        BY <1>2, <3>1, HasAppend
      <4>. QED  BY <1>1, <2>4, <3>2, <4>1 DEF Fate
    <3>4. CASE p \in Fext
      <4>1. coming'[p] = Append(coming[p], Message("reject", b, i))
        BY <1>1, <3>1, <3>2, <3>3, <3>4 DEF Fate
      <4>2. Message("reject", b, i) \in Theirs
        BY MessageFacts, KindFacts
      <4>3. Has(Back(p)', Message("reject", b, i))
        BY <1>5, <4>1, <4>2
      <4>. QED  BY <4>3 DEF Answer
    <3>5. CASE p \notin Fext
      <4>1. Len(owed[p]) < ReqQ
        <5>1. m.kind = "request"
          BY <2>4, MessageFacts
        <5>. QED  BY <1>1, <3>5, <5>1 DEF Roomy
      <4>2. p \in choking
        BY <1>7, <3>1, <3>3, <4>1 DEF Takes
      <4>3. p \notin choked
        BY <1>0, <1>1, <1>7, <3>5 DEF Good, Forgotten, AskedOf
      <4>4. Has(Back(p), Choke)
        BY <1>0, <1>1, <4>2, <4>3 DEF Good, LastWord
      <4>. QED  BY <1>6, <3>5, <4>4 DEF Answer
    <3>. QED  BY <3>4, <3>5
  <2>5. ASSUME Has(owed[p], r), ~Has(owed'[p], r) PROVE Answer(p, b, i)'
    <3>1. \A x \in About({"request"}) : Has(owed[p], r) => Has(Append(owed[p], x), r)
      BY <1>2, HasAppend
    <3>2. PICK c \in Blocks : \E k \in 1 .. Len(owed[p]) :
            /\ m = Cancelled(c) /\ ~Split(c) /\ owed[p][k] = Ask1(c) /\ owed'[p] = RemoveAt(owed[p], k)
            /\ coming'[p] = IF p \in Fext THEN Append(coming[p], Message("reject", c, 1)) ELSE coming[p]
      BY <1>1, <2>5, <3>1 DEF Fate
    <3>3. PICK k \in 1 .. Len(owed[p]) :
            /\ m = Cancelled(c) /\ ~Split(c) /\ owed[p][k] = Ask1(c) /\ owed'[p] = RemoveAt(owed[p], k)
            /\ coming'[p] = IF p \in Fext THEN Append(coming[p], Message("reject", c, 1)) ELSE coming[p]
      BY <3>2
    <3>4. r = Ask1(c)
      <4>1. Has(owed[p], r) <=> owed[p][k] = r \/ Has(RemoveAt(owed[p], k), r)
        BY <1>2, HasRemoveAt
      <4>. QED  BY <2>5, <3>3, <4>1
    <3>5. b = c /\ i = 1
      BY <3>4, MessageFacts DEF Ask1
    <3>6. CASE p \in Fext
      <4>1. Message("reject", b, 1) \in Theirs /\ 1 \in DOMAIN PieceOf[b]
        BY PartFacts, MessageFacts, KindFacts
      <4>2. Has(Back(p)', Message("reject", b, 1))
        BY <1>5, <3>3, <3>5, <3>6, <4>1
      <4>. QED  BY <4>1, <4>2 DEF Answer
    <3>7. CASE p \notin Fext
      <4>1. Follows(sent[p], Cancelled(b), Ask1(b))
        BY <1>0, <1>1, <1>7, <3>3, <3>5, <3>7 DEF Good, AskedAgain
      <4>2. Has(sent'[p], Ask1(b))
        BY <1>1, <1>2, <3>3, <3>5, <4>1, FollowsTail
      <4>. QED  BY <3>4, <3>5, <4>2 DEF Answer
    <3>. QED  BY <3>6, <3>7
  <2>. HIDE DEF r
  <2>. QED  BY <1>4, <2>1, <2>2, <2>3, <2>4, <2>5
<1>8. Expected(p)'
  BY <1>1, <1>7 DEF Expected
<1>. QED  BY <1>3, <1>8
\* What was owed is served.
LEMMA ServeExpected ==
  ASSUME IInv, NEW p \in Peers, Serve(p), \A q \in Peers : Expected(q)
  PROVE  \A q \in Peers : Expected(q)'
<1>0. TypeOK /\ TypeOK'
  BY ServeTypes DEF IInv
<1>1. /\ p \in peers /\ owed[p] # <<>> /\ owed' = [owed EXCEPT ![p] = Tail(@)]
      /\ UNCHANGED <<active, peers, broken, partial, sent, inbuf>>
  BY DEF Serve, torrentVars, ourSide
<1>. PICK h : h = Head(owed[p])
  OBVIOUS
<1>2. PICK k \in Lingering(coming[p]) :
        coming' = [coming EXCEPT ![p] = InsertAt(@, k + 1, Reply("piece", h))]
  BY DEF Serve
<1>3. owed[p] \in Seq(About({"request"})) /\ coming[p] \in Seq(Theirs)
  BY <1>0, Lines
<1>4. Reply("piece", h) \in Theirs
  <2>1. h \in About({"request"})
    BY <1>1, <1>3
  <2>2. Reply("piece", h) \in About({"piece", "reject"})
    BY <2>1, MessageFacts DEF Reply
  <2>. QED  BY <2>2, KindFacts
<1>5. /\ owed'[p] = Tail(owed[p]) /\ coming'[p] = InsertAt(coming[p], k + 1, Reply("piece", h))
      /\ \A q \in Peers \ {p} : owed'[q] = owed[q] /\ coming'[q] = coming[q]
  BY <1>0, <1>1, <1>2 DEF TypeOK
<1>6. \A y : Has(coming'[p], y) <=> Reply("piece", h) = y \/ Has(coming[p], y)
  <2>1. k + 1 \in 1 .. Len(coming[p]) + 1
    BY <1>3 DEF Lingering
  <2>. QED  BY <1>3, <1>4, <1>5, <2>1, HasInsertAt
<1>7. \A y : Has(Back(p)', y) <=> Reply("piece", h) = y \/ Has(Back(p), y)
  <2>1. inbuf'[p] \in Seq(Theirs) /\ coming'[p] \in Seq(Theirs)
    BY <1>0 DEF TypeOK
  <2>2. \A y : Has(Back(p)', y) <=> Has(inbuf'[p], y) \/ Has(coming'[p], y)
    BY <2>1, HasConcat DEF Back
  <2>3. \A y : Has(Back(p), y) <=> Has(inbuf[p], y) \/ Has(coming[p], y)
    BY <1>0, HasBack
  <2>. QED  BY <1>1, <1>6, <2>2, <2>3
<1>8. \A y : Has(owed[p], y) <=> h = y \/ Has(owed'[p], y)
  BY <1>1, <1>3, <1>5, HasTail
<1>9. ASSUME NEW q \in Peers, q # p PROVE Expected(q)'
  <2>1. Back(q)' = Back(q)
    BY <1>1, <1>5, <1>9 DEF Back
  <2>2. Kept(q)
    BY <1>1, <1>5, <1>9, <2>1 DEF Kept
  <2>. QED  BY <2>2, KeptExpected
<1>10. ASSUME NEW b, NEW i, Answer(p, b, i) PROVE Answer(p, b, i)'
  <2>1. h = Message("request", b, i) => Reply("piece", h) = Message("piece", b, i)
    BY MessageFacts DEF Reply
  <2>. QED  BY <1>1, <1>7, <1>8, <1>10, <2>1 DEF Answer
<1>11. Expected(p)'
  BY <1>1, <1>10 DEF Expected
<1>. QED  BY <1>9, <1>11

\* What a peer that chokes us owed is refused, one by one or all in one word.
LEMMA PeerChokesExpected ==
  ASSUME IInv, NEW p \in Peers, PeerChokes(p), \A q \in Peers : Expected(q)
  PROVE  \A q \in Peers : Expected(q)'
<1>0. TypeOK
  BY DEF IInv
<1>1. /\ Refusals(p) \in Seq(Theirs)
      /\ coming' = [coming EXCEPT ![p] = (coming[p] \o Refusals(p)) \o <<Choke>>]
  BY <1>0, RefusalsFacts
<1>2. /\ owed[p] \in Seq(About({"request"})) /\ coming[p] \in Seq(Theirs) /\ inbuf[p] \in Seq(Theirs)
      /\ <<Choke>> \in Seq(Theirs) /\ coming[p] \o Refusals(p) \in Seq(Theirs)
      /\ (coming[p] \o Refusals(p)) \o <<Choke>> \in Seq(Theirs)
  BY <1>0, <1>1, Lines, KindFacts
<1>3. /\ p \in peers /\ owed'[p] = <<>> /\ coming'[p] = (coming[p] \o Refusals(p)) \o <<Choke>>
      /\ \A q \in Peers \ {p} : owed'[q] = owed[q] /\ coming'[q] = coming[q]
      /\ UNCHANGED <<active, peers, broken, partial, sent, inbuf>>
  BY <1>0, <1>1 DEF PeerChokes, TypeOK, torrentVars, ourSide
<1>4. ASSUME NEW q \in Peers, q # p PROVE Expected(q)'
  <2>1. Back(q)' = Back(q)
    BY <1>3, <1>4 DEF Back
  <2>2. Kept(q)
    BY <1>3, <1>4, <2>1 DEF Kept
  <2>. QED  BY <2>2, KeptExpected
<1>5. \A y : Has(coming'[p], y) <=> Has(coming[p], y) \/ Has(Refusals(p), y) \/ Choke = y
  <2>1. \A y : Has((coming[p] \o Refusals(p)) \o <<Choke>>, y) <=> Has(coming[p] \o Refusals(p), y) \/ Has(<<Choke>>, y)
    BY <1>2, HasConcat
  <2>2. \A y : Has(coming[p] \o Refusals(p), y) <=> Has(coming[p], y) \/ Has(Refusals(p), y)
    BY <1>1, <1>2, HasConcat
  <2>. QED  BY <1>3, <2>1, <2>2, HasOne
<1>6. \A y : Has(Back(p)', y) <=> Has(Back(p), y) \/ Has(Refusals(p), y) \/ Choke = y
  <2>1. inbuf'[p] \in Seq(Theirs) /\ coming'[p] \in Seq(Theirs)
    BY <1>2, <1>3
  <2>2. \A y : Has(Back(p)', y) <=> Has(inbuf'[p], y) \/ Has(coming'[p], y)
    BY <2>1, HasConcat DEF Back
  <2>3. \A y : Has(Back(p), y) <=> Has(inbuf[p], y) \/ Has(coming[p], y)
    BY <1>0, HasBack
  <2>. QED  BY <1>3, <1>5, <2>2, <2>3
<1>7. ASSUME NEW b, NEW i \in DOMAIN PieceOf[b], Answer(p, b, i) PROVE Answer(p, b, i)'
  <2>1. CASE Has(owed[p], Message("request", b, i)) /\ p \in Fext
    <3>1. PICK k \in DOMAIN owed[p] : owed[p][k] = Message("request", b, i)
      BY <2>1 DEF Has
    <3>2. k \in DOMAIN Refusals(p) /\ Refusals(p)[k] = Message("reject", b, i)
      BY <2>1, <3>1, MessageFacts DEF Refusals, Reply
    <3>3. Has(Back(p)', Message("reject", b, i))
      BY <1>6, <3>2 DEF Has
    <3>. QED  BY <3>3 DEF Answer
  <2>2. CASE p \notin Fext
    BY <1>6, <2>2 DEF Answer
  <2>3. CASE ~Has(owed[p], Message("request", b, i))
    BY <1>3, <1>6, <1>7, <2>3 DEF Answer
  <2>. QED  BY <2>1, <2>2, <2>3
<1>8. Expected(p)'
  BY <1>3, <1>7 DEF Expected
<1>. QED  BY <1>4, <1>8

\* Of a message that is read, nothing is expected afterwards, unless it was a part of a
\* block that is not whole, which is kept.
LEMMA ReadingExpected ==
  ASSUME IInv, NEW p \in Peers, inbuf[p] # <<>>, NEW m, NEW goesOn, Reading(p, m, goesOn), Expected(p),
         \A b : <<b, p>> \in active' =>
           /\ \A i : <<b, i>> \in partial[p] => <<b, i>> \in partial'[p]
           /\ \A i : m = Message("piece", b, i) => <<b, i>> \in partial'[p]
           /\ \A j : m # Message("reject", b, j)
  PROVE  Expected(p)'
<1>0. TypeOK /\ p \in peers /\ p \notin broken
  BY DEF IInv, Reading, Reads, TypeOK
<1>1. /\ m = Head(inbuf[p]) /\ inbuf'[p] = Tail(inbuf[p])
      /\ UNCHANGED <<peers, broken, owed, coming>> /\ sent'[p] = sent[p]
  BY <1>0 DEF Reading, Reads, TypeOK
<1>2. /\ inbuf[p] \in Seq(Theirs) /\ coming[p] \in Seq(Theirs)
      /\ inbuf[p] \o coming[p] \in Seq(Theirs)
  BY <1>0, Lines
<1>3. \A y : Has(Back(p), y) <=> m = y \/ Has(Back(p)', y)
  <2>1. /\ Head(inbuf[p] \o coming[p]) = Head(inbuf[p]) /\ inbuf[p] \o coming[p] # <<>>
        /\ Tail(inbuf[p] \o coming[p]) = Tail(inbuf[p]) \o coming[p]
    BY <1>2, TailConcat
  <2>2. Back(p) = inbuf[p] \o coming[p] /\ Back(p)' = Tail(inbuf[p] \o coming[p])
    BY <1>1, <2>1 DEF Back
  <2>3. \A y : Has(inbuf[p] \o coming[p], y) <=> m = y \/ Has(Tail(inbuf[p] \o coming[p]), y)
    BY <1>1, <1>2, <2>1, HasTail
  <2>. QED  BY <2>2, <2>3
<1>4. ASSUME NEW b \in Blocks, <<b, p>> \in active', NEW i \in DOMAIN PieceOf[b], PieceOf[b][i] \in Offers[p]
      PROVE  Answer(p, b, i)'
  <2>1. Answer(p, b, i)
    BY <1>0, <1>4 DEF Expected, Reading
  <2>2. p \notin Fext => m # Choke
    BY <1>4, MessageFacts DEF Reading, Choke, Unchoke
  <2>. QED  BY <1>1, <1>3, <1>4, <2>1, <2>2 DEF Answer
<1>. QED  BY <1>4 DEF Expected

\* What a message of p does not do to the others.
LEMMA ReadsKeeps ==
  ASSUME TypeOK, NEW p \in Peers, NEW m, NEW goesOn, Reads(p, m, goesOn), NEW q \in Peers, q # p,
         \A b : <<b, q>> \in active' => <<b, q>> \in active, partial'[q] = partial[q],
         \A x : Has(sent[q], x) => Has(sent'[q], x)
  PROVE  Kept(q)
<1>1. inbuf'[q] = inbuf[q] /\ owed'[q] = owed[q] /\ coming'[q] = coming[q] /\ UNCHANGED <<peers, broken>>
  BY ReadsOthers
<1>2. Back(q)' = Back(q)
  BY <1>1 DEF Back
<1>. QED  BY <1>1, <1>2 DEF Kept

LEMMA ReadPieceExpected ==
  ASSUME IInv, NEW p \in Peers, ReadPiece(p), \A q \in Peers : Expected(q)
  PROVE  \A q \in Peers : Expected(q)'
<1>0. TypeOK /\ inbuf[p] # <<>>
  BY DEF IInv, ReadPiece
<1>. PICK m : m = Head(inbuf[p])
  OBVIOUS
<1>. PICK b : b = m.block
  OBVIOUS
<1>. PICK got : got = partial[p] \cup {<<b, m.part>>}
  OBVIOUS
<1>. PICK whole : whole = (PartsOf(b) \subseteq got)
  OBVIOUS
<1>1. /\ m.kind = "piece" /\ <<b, p>> \in active /\ Reads(p, m, whole) /\ choked' = choked
      /\ partial' = [partial EXCEPT ![p] = IF whole THEN got \ PartsOf(b) ELSE got]
      /\ IF whole /\ ~HasPiece(PieceOf[b][1])
         THEN active' = Settled(b, p) /\ Send(CancelsFor(b, p))
         ELSE UNCHANGED <<have, active, sent, mishaps>>
  BY DEF ReadPiece
<1>2. m \in About({"piece", "reject"}) /\ b \in Blocks /\ m \notin {Choke, Unchoke}
  <2>1. m \in Theirs
    BY <1>0, <1>1, ReadsTypes
  <2>2. m \in About({"piece", "reject"}) /\ m \notin {Choke, Unchoke}
    BY <1>1, <2>1, KindFacts
  <2>. QED  BY <2>2, MessageFacts
<1>3. ~HasPiece(PieceOf[b][1])
  <2>1. 1 \in DOMAIN PieceOf[b]
    BY <1>2, PartFacts
  <2>2. b \in PieceBlocks(PieceOf[b][1])
    BY <1>2, <2>1 DEF PieceBlocks, Range
  <2>3. b \in have => Cardinality(Asked(b)) <= 0
    BY <1>2 DEF IInv, AskedWell, NothingAskedInVain
  <2>4. p \in Asked(b) /\ IsFiniteSet(Asked(b)) /\ Cardinality(Asked(b)) \in Nat
    BY <1>1, AskedFinite DEF Asked
  <2>5. b \notin have
    BY <2>3, <2>4, FS_EmptySet
  <2>. QED  BY <2>2, <2>5 DEF HasPiece
<1>4. /\ partial'[p] = IF whole THEN got \ PartsOf(b) ELSE got
      /\ \A q \in Peers \ {p} : partial'[q] = partial[q]
  BY <1>0, <1>1 DEF TypeOK
<1>5. /\ \A c, q : <<c, q>> \in active' => <<c, q>> \in active
      /\ \A c, q : <<c, q>> \in active /\ <<c, q>> \notin active' => c = b
      /\ whole => \A q : <<b, q>> \notin active'
  BY <1>1, <1>3 DEF Settled
<1>6. sent'[p] = sent[p] /\ \A q \in Peers : \A x : Has(sent[q], x) => Has(sent'[q], x)
  <2>1. CASE UNCHANGED sent
    BY <2>1
  <2>2. CASE Send(CancelsFor(b, p))
    <3>1. \A q \in Peers : CancelsFor(b, p)[q] \in Seq(Ours)
      BY <1>2, KindFacts DEF CancelsFor
    <3>2. ASSUME NEW q \in Peers, NEW x PROVE Has(sent[q], x) => Has(sent'[q], x)
      BY <1>0, <2>2, <3>1, Lines, HasConcat DEF Send
    <3>3. sent'[p] = sent[p] \o <<>> /\ sent[p] \in Seq(Ours)
      BY <1>0, <2>2, Lines DEF Send, CancelsFor
    <3>. QED  BY <3>2, <3>3
  <2>. QED  BY <1>1, <2>1, <2>2
<1>7. ASSUME NEW q \in Peers, q # p PROVE Expected(q)'
  <2>1. Kept(q)
    BY <1>0, <1>1, <1>4, <1>5, <1>6, <1>7, ReadsKeeps
  <2>. QED  BY <2>1, KeptExpected
<1>8. Expected(p)'
  <2>1. Reading(p, m, whole)
    BY <1>1, <1>2, <1>5, <1>6 DEF Reading
  <2>2. ASSUME NEW c, <<c, p>> \in active'
        PROVE  /\ \A i : <<c, i>> \in partial[p] => <<c, i>> \in partial'[p]
               /\ \A i : m = Message("piece", c, i) => <<c, i>> \in partial'[p]
               /\ \A j : m # Message("reject", c, j)
    <3>1. ASSUME NEW j PROVE m # Message("reject", c, j)
      BY <1>1, MessageFacts
    <3>2. ASSUME NEW i, m = Message("piece", c, i) PROVE <<c, i>> \in partial'[p]
      <4>1. c = b /\ i = m.part
        BY <3>2, MessageFacts
      <4>. QED  BY <1>4, <1>5, <2>2, <4>1
    <3>3. ASSUME NEW i, <<c, i>> \in partial[p] PROVE <<c, i>> \in partial'[p]
      <4>1. CASE whole
        <5>1. c # b
          BY <1>5, <2>2, <4>1
        <5>2. <<c, i>> \notin PartsOf(b)
          BY <5>1 DEF PartsOf
        <5>. QED  BY <1>4, <3>3, <4>1, <5>2
      <4>2. CASE ~whole
        BY <1>4, <3>3, <4>2
      <4>. QED  BY <4>1, <4>2
    <3>. QED  BY <3>1, <3>2, <3>3
  <2>. QED  BY <1>0, <2>1, <2>2, ReadingExpected
<1>. QED  BY <1>7, <1>8

LEMMA ReadExpected ==
  ASSUME IInv, NEW p \in Peers, Read(p), \A q \in Peers : Expected(q)
  PROVE  \A q \in Peers : Expected(q)'
<1>0. TypeOK /\ inbuf[p] # <<>>
  <2>1. p \in reading
    BY DEF Read, ReadChoke, ReadUnchoke, ReadReject, ReadPiece, ReadUnrequested, Reads
  <2>. QED  BY <2>1 DEF IInv, Good, Waiting, TypeOK
<1>1. ASSUME NEW m, NEW goesOn, Reading(p, m, goesOn), UNCHANGED <<partial, sent>>,
             \A q \in Peers \ {p} : \A b : <<b, q>> \in active' => <<b, q>> \in active,
             \A b : <<b, p>> \in active' => \A i : m # Message("piece", b, i) /\ m # Message("reject", b, i)
      PROVE  \A q \in Peers : Expected(q)'
  <2>1. ASSUME NEW q \in Peers, q # p PROVE Expected(q)'
    <3>1. Kept(q)
      BY <1>0, <1>1, <2>1, ReadsKeeps DEF Reading
    <3>. QED  BY <3>1, KeptExpected
  <2>2. Expected(p)'
    BY <1>0, <1>1, ReadingExpected
  <2>. QED  BY <2>1, <2>2
<1>2. CASE ReadChoke(p)
  <2>1. Reading(p, Choke, TRUE)
    BY <1>2 DEF ReadChoke, Reading
  <2>2. \A b, i : Choke # Message("piece", b, i) /\ Choke # Message("reject", b, i)
    BY MessageFacts DEF Choke
  <2>. QED  BY <1>1, <1>2, <2>1, <2>2 DEF ReadChoke
<1>3. CASE ReadUnchoke(p)
  <2>1. Reading(p, Unchoke, TRUE)
    BY <1>3 DEF ReadUnchoke, Reading, torrentVars
  <2>2. \A b, i : Unchoke # Message("piece", b, i) /\ Unchoke # Message("reject", b, i)
    BY MessageFacts DEF Unchoke
  <2>. QED  BY <1>1, <1>3, <2>1, <2>2 DEF ReadUnchoke, torrentVars
<1>4. CASE ReadReject(p)
  <2>. PICK m : m = Head(inbuf[p])
    OBVIOUS
  <2>1. /\ Reads(p, m, TRUE) /\ m.kind = "reject" /\ active' = active \ {<<m.block, p>>}
        /\ UNCHANGED <<have, choked, partial, sent, mishaps>>
    BY <1>4 DEF ReadReject
  <2>2. m \in About({"piece", "reject"}) /\ m \notin {Choke, Unchoke}
    <3>1. m \in Theirs
      BY <1>0, <2>1, ReadsTypes
    <3>. QED  BY <2>1, <3>1, KindFacts
  <2>3. Reading(p, m, TRUE)
    BY <2>1, <2>2 DEF Reading
  <2>4. \A b : <<b, p>> \in active' => \A i : m # Message("piece", b, i) /\ m # Message("reject", b, i)
    BY <2>1, MessageFacts
  <2>. QED  BY <1>1, <2>1, <2>3, <2>4
<1>5. CASE ReadPiece(p)
  BY <1>5, ReadPieceExpected
<1>6. CASE ReadUnrequested(p)
  <2>. PICK m : m = Head(inbuf[p])
    OBVIOUS
  <2>1. /\ Reads(p, m, FALSE) /\ m.kind = "piece" /\ <<m.block, p>> \notin active
        /\ UNCHANGED <<have, active, choked, partial, sent, mishaps>>
    BY <1>6 DEF ReadUnrequested, torrentVars
  <2>2. m \notin {Choke, Unchoke}
    BY <2>1, KindFacts
  <2>3. Reading(p, m, FALSE)
    BY <2>1, <2>2 DEF Reading
  <2>4. \A b : <<b, p>> \in active' => \A i : m # Message("piece", b, i) /\ m # Message("reject", b, i)
    BY <2>1, MessageFacts
  <2>. QED  BY <1>1, <2>1, <2>3, <2>4
<1>. QED  BY <1>2, <1>3, <1>4, <1>5, <1>6 DEF Read

LEMMA NextExpected ==
  IInv /\ Roomy /\ (\A q \in Peers : Expected(q)) /\ [Next]_vars => \A q \in Peers : Expected(q)'
<1>. SUFFICES ASSUME IInv, Roomy, \A q \in Peers : Expected(q), [Next]_vars
              PROVE  \A q \in Peers : Expected(q)'
  OBVIOUS
<1>0. TypeOK
  BY DEF IInv
<1>1. CASE UpdateInterest
  <2>1. \A q \in Peers : Untouched(q) /\ UNCHANGED <<partial, broken>>
    BY <1>1 DEF UpdateInterest, Untouched, torrentVars, wires, history
  <2>. QED  BY <2>1, UntouchedKept, KeptExpected
<1>2. ASSUME NEW p \in Peers, Ask(p) PROVE \A q \in Peers : Expected(q)'
  BY <1>0, <1>2, AskExpected
<1>3. ASSUME NEW p \in Peers, NEW b \in Blocks, CancelOld(b, p) PROVE \A q \in Peers : Expected(q)'
  <2>. SUFFICES ASSUME NEW q \in Peers PROVE Kept(q)
    BY KeptExpected
  <2>1. /\ active' \subseteq active /\ sent' = [sent EXCEPT ![p] = Append(@, Cancelled(b))]
        /\ UNCHANGED <<peers, broken, partial, owed, coming, inbuf>>
    BY <1>3 DEF CancelOld, ourSide
  <2>2. \A x : Has(sent[q], x) => Has(sent'[q], x)
    <3>1. sent'[q] = IF q = p THEN Append(sent[q], Cancelled(b)) ELSE sent[q]
      BY <1>0, <2>1 DEF TypeOK
    <3>2. \A x : Has(sent[q], x) => Has(Append(sent[q], Cancelled(b)), x)
      BY <1>0, Lines, KindFacts, HasAppend
    <3>. QED  BY <3>1, <3>2
  <2>3. Back(q)' = Back(q)
    BY <2>1 DEF Back
  <2>. QED  BY <2>1, <2>2, <2>3 DEF Kept
<1>4. ASSUME NEW p \in Peers, PeerReads(p) PROVE \A q \in Peers : Expected(q)'
  BY <1>4, PeerReadsExpected
<1>5. ASSUME NEW p \in Peers, Serve(p) PROVE \A q \in Peers : Expected(q)'
  BY <1>5, ServeExpected
<1>6. ASSUME NEW p \in Peers, PeerChokes(p) PROVE \A q \in Peers : Expected(q)'
  BY <1>6, PeerChokesExpected
<1>7. ASSUME NEW p \in Peers, PeerUnchokes(p) PROVE \A q \in Peers : Expected(q)'
  <2>. SUFFICES ASSUME NEW q \in Peers PROVE Kept(q)
    BY KeptExpected
  <2>1. /\ coming' = [coming EXCEPT ![p] = Append(@, Unchoke)]
        /\ UNCHANGED <<active, peers, broken, partial, sent, owed, inbuf>>
    BY <1>7 DEF PeerUnchokes, torrentVars, ourSide
  <2>2. ASSUME NEW x, Has(Back(q), x) PROVE Has(Back(q)', x)
    <3>1. coming'[q] = IF q = p THEN Append(coming[q], Unchoke) ELSE coming[q]
      BY <1>0, <2>1 DEF TypeOK
    <3>2. Has(coming[q], x) => Has(coming'[q], x)
      BY <1>0, <3>1, Lines, KindFacts, HasAppend
    <3>3. coming'[q] \in Seq(Theirs) /\ inbuf[q] \in Seq(Theirs)
      BY <1>0, <3>1, Lines, KindFacts
    <3>4. Has(inbuf[q] \o coming'[q], x) <=> Has(inbuf[q], x) \/ Has(coming'[q], x)
      BY <3>3, HasConcat
    <3>. QED  BY <1>0, <2>1, <2>2, <3>2, <3>4, HasBack DEF Back
  <2>. QED  BY <2>1, <2>2 DEF Kept
<1>8. ASSUME NEW p \in Peers, Receive(p) PROVE \A q \in Peers : Expected(q)'
  <2>. SUFFICES ASSUME NEW q \in Peers PROVE Kept(q)
    BY KeptExpected
  <2>1. /\ inbuf' = [inbuf EXCEPT ![p] = @ \o coming[p]] /\ coming' = [coming EXCEPT ![p] = <<>>]
        /\ UNCHANGED <<active, peers, broken, partial, sent, owed>>
    BY <1>8 DEF Receive, torrentVars
  <2>2. Back(q)' = Back(q)
    <3>1. CASE q = p
      <4>1. inbuf'[p] = inbuf[p] \o coming[p] /\ coming'[p] = <<>>
        BY <1>0, <2>1 DEF TypeOK
      <4>2. (inbuf[p] \o coming[p]) \o <<>> = inbuf[p] \o coming[p]
        BY <1>0, Lines
      <4>. QED  BY <3>1, <4>1, <4>2 DEF Back
    <3>2. CASE q # p
      BY <1>0, <2>1, <3>2 DEF Back, TypeOK
    <3>. QED  BY <3>1, <3>2
  <2>. QED  BY <2>1, <2>2 DEF Kept
<1>9. ASSUME NEW p \in Peers, Read(p) PROVE \A q \in Peers : Expected(q)'
  BY <1>9, ReadExpected
<1>10. ASSUME NEW p \in Peers, Break(p) PROVE \A q \in Peers : Expected(q)'
  <2>1. \A q \in Peers : /\ Untouched(q) /\ partial'[q] = partial[q]
                         /\ q \in peers' \ broken' => q \notin broken
    BY <1>10 DEF Break, Untouched, torrentVars, wires
  <2>. QED  BY <2>1, UntouchedKept, KeptExpected
<1>11. ASSUME NEW p \in Peers, Close(p) PROVE \A q \in Peers : Expected(q)'
  <2>1. Expected(p)'
    BY <1>11 DEF Close, Expected
  <2>2. ASSUME NEW q \in Peers, q # p PROVE Expected(q)'
    <3>1. /\ sent'[q] = sent[q] /\ owed'[q] = owed[q] /\ coming'[q] = coming[q] /\ inbuf'[q] = inbuf[q]
          /\ partial'[q] = partial[q] /\ active' \subseteq active
          /\ q \in peers' \ broken' => q \in peers \ broken
      BY <1>0, <1>11, <2>2 DEF Close, TypeOK
    <3>2. Back(q)' = Back(q)
      BY <3>1 DEF Back
    <3>3. Kept(q)
      BY <3>1, <3>2 DEF Kept
    <3>. QED  BY <3>3, KeptExpected
  <2>. QED  BY <2>1, <2>2
<1>12. CASE UNCHANGED vars
  <2>1. \A q \in Peers : Untouched(q) /\ UNCHANGED <<partial, broken>>
    BY <1>12 DEF vars, Untouched, torrentVars, ourSide, wires, history
  <2>. QED  BY <2>1, UntouchedKept, KeptExpected
<1>. QED
  BY <1>1, <1>2, <1>3, <1>4, <1>5, <1>6, <1>7, <1>8, <1>9, <1>10, <1>11, <1>12 DEF Next

\* As long as no peer without the fast extension is sent a request for which it has no
\* room: every part that is counted as expected of a peer (active_requests) is in our own
\* queue, with the peer, on the way back, received or refused, whatever is cancelled,
\* choked and asked again meanwhile.
THEOREM NoRequestIsForgotten == Spec /\ []Roomy => []RequestsAreAnswered
<1>. DEFINE Exp == \A q \in Peers : Expected(q)
<1>1. Init => Exp
  BY DEF Init, Expected
<1>2. IInv /\ Roomy /\ Exp /\ [Next]_vars => Exp'
  BY NextExpected
<1>3. IInv /\ Exp => RequestsAreAnswered
  BY ExpectedAnswered DEF IInv
<1>. HIDE DEF Exp
<1>. QED  BY <1>1, <1>2, <1>3, Invariance, PTL DEF Spec
=============================================================================
