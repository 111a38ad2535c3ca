------------------------------- MODULE Requests -------------------------------
(***************************************************************************)
(* How the blocks of a running torrent are asked for and sent: the swarm's *)
(* active_requests, endgame and cancels (peer-mgr.cc,                      *)
(* peer-mgr-active-requests.cc, peer-mgr-wishlist.cc), the connections     *)
(* that carry the messages, with a read buffer that may be left half read  *)
(* (peer-msgs.cc, peer-io.cc), and peers that run the same code on their   *)
(* side.  A block that spans pieces is asked for in a part per piece.      *)
(*                                                                         *)
(* What a block does to the torrent's pieces, files and cache is in        *)
(* Progress.tla: here a piece that is whole is good or bad.  Connections   *)
(* are made with the handshake behind them; a peer that left stays away.   *)
(***************************************************************************)
EXTENDS Naturals, Sequences, FiniteSets, SequencesExt

CONSTANTS Blocks,   \* the blocks of the torrent, 1 .. their number
          PieceOf,  \* PieceOf[b]: the pieces of b's parts, in order
          Peers,    \* the peers we may be connected to
          Offers,   \* Offers[p]: the pieces that p has
          Fext,     \* the peers with the fast extension
          Window,   \* Window[p]: desired_request_count of p
          ReqQ,     \* requests that a peer keeps
          MaxMishaps \* bounds the pieces that fail, chokes, early timeouts and closed connections

Pieces == UNION {Range(PieceOf[b]) : b \in Blocks}
PieceBlocks(i) == {b \in Blocks : i \in Range(PieceOf[b])}
Split(b) == Len(PieceOf[b]) > 1

ASSUME RequestsAssumption ==
  /\ IsFiniteSet(Blocks) /\ Blocks \subseteq Nat /\ IsFiniteSet(Peers)
  /\ PieceOf \in [Blocks -> Seq(Nat)] /\ \A b \in Blocks : PieceOf[b] # <<>>
  /\ DOMAIN Offers = Peers /\ \A p \in Peers : Offers[p] \subseteq Pieces
  /\ Fext \subseteq Peers
  /\ Window \in [Peers -> Nat] /\ {ReqQ, MaxMishaps} \subseteq Nat

VARIABLES have,    \* the torrent's blocks
          active,  \* active_requests: <<block, peer>>
          peers,   \* the swarm's peers
          broken,  \* those with do_purge
          keen,    \* those with client_is_interested_
          choked,  \* those with client_is_choked_
          sent,    \* sent[p]: our messages that p has yet to read
          owed,    \* owed[p]: peer_requested_ of p
          choking, \* the peers that choke us, by themselves
          coming,  \* coming[p]: p's messages that we have yet to receive
          inbuf,   \* inbuf[p]: p's messages that we have yet to read
          reading, \* the peers whose messages are being read
          partial, \* partial[p]: the parts in incoming.blocks
          twice,   \* history: <<block, peer>> asked for with an earlier request or its answer under way
          mishaps  \* what went wrong so far

torrentVars == <<have, active>>
ourSide == <<peers, broken, keen, choked, reading, partial>>
wires == <<sent, owed, choking, coming, inbuf>>
history == <<twice, mishaps>>
vars == <<torrentVars, ourSide, wires, history>>

\* Of a message only its kind counts and the part it is about; a cancel is about a block.
Message(kind, b, i) == [kind |-> kind, block |-> b, part |-> i]
Requested(b) == {Message("request", b, i) : i \in DOMAIN PieceOf[b]}
Cancelled(b) == Message("cancel", b, 0)
Reply(kind, r) == Message(kind, r.block, r.part)
Choke == Message("choke", 0, 0)
Unchoke == Message("unchoke", 0, 0)

PartsOf(b) == {<<b, i>> : i \in DOMAIN PieceOf[b]}
Parts == UNION {PartsOf(b) : b \in Blocks}
About(kinds) == {Message(kind, r[1], r[2]) : kind \in kinds, r \in Parts}
Ours == About({"request"}) \cup {Cancelled(b) : b \in Blocks}
Theirs == About({"piece", "reject"}) \cup {Choke, Unchoke}

TypeOK ==
  /\ have \subseteq Blocks /\ active \subseteq Blocks \X peers
  /\ peers \subseteq Peers /\ broken \subseteq peers /\ keen \subseteq peers
  /\ choked \subseteq Peers /\ choking \subseteq Peers /\ reading \subseteq peers
  /\ sent \in [Peers -> Seq(Ours)] /\ owed \in [Peers -> Seq(About({"request"}))]
  /\ coming \in [Peers -> Seq(Theirs)] /\ inbuf \in [Peers -> Seq(Theirs)]
  /\ partial \in [Peers -> SUBSET Parts]
  /\ twice \subseteq Blocks \X Peers /\ mishaps \in 0 .. MaxMishaps

Init ==
  /\ have = {} /\ active = {}
  /\ peers = Peers /\ broken = {} /\ keen = {} /\ choked = Peers /\ choking = Peers
  /\ sent = [p \in Peers |-> <<>>] /\ owed = [p \in Peers |-> <<>>]
  /\ coming = [p \in Peers |-> <<>>] /\ inbuf = [p \in Peers |-> <<>>]
  /\ reading = {} /\ partial = [p \in Peers |-> {}]
  /\ twice = {} /\ mishaps = 0

\* Something goes wrong, at most MaxMishaps times.
Mishap == mishaps < MaxMishaps /\ mishaps' = mishaps + 1

\* Our handlers run one at a time, can_read_wrapper() too, and what the peers do
\* during one of them they may as well do after it.
Between == reading = {}

Missing == Blocks \ have
HasPiece(i) == PieceBlocks(i) \subseteq have
Asked(b) == {p \in Peers : <<b, p>> \in active}
AskedOf(p) == {b \in Blocks : <<b, p>> \in active}

\* The messages of m at the end of what goes to each peer
Send(more) == sent' = [p \in Peers |-> sent[p] \o more[p]]

InFlight(s, kind, b, i) == \E k \in DOMAIN s : s[k] = Message(kind, b, i)
UnderWay(p, b) ==
  \E i \in DOMAIN PieceOf[b] :
    \/ InFlight(sent[p] \o owed[p], "request", b, i)
    \/ \E kind \in {"piece", "reject"} : InFlight(inbuf[p] \o coming[p], kind, b, i)

-----------------------------------------------------------------------------
\* Mutant of Interesting: a piece that was begun is as good as had.
InterestingIfNew(p) == \E i \in Offers[p] : PieceBlocks(i) \cap have = {}

\* A peer is interesting if it has a piece that we lack (isPeerInteresting()).
Interesting(p) == \E i \in Offers[p] : ~HasPiece(i)

\* set_interested(), by the rechoke pulse and when the torrent is done
UpdateInterest ==
  /\ Between
  /\ keen' = {p \in peers : Interesting(p)}
  /\ keen' # keen
  /\ UNCHANGED <<torrentVars, peers, broken, choked, reading, partial, wires, history>>

\* updateEndgame(), which comes before every use of is_endgame_
Endgame == Cardinality(active) >= Cardinality(Missing)

\* How many peers may be asked for a block (Wishlist::next()).
MaxPeers == IF Endgame THEN 2 ELSE 1

\* Mutant of Wanted: what was asked of p is asked of it again.
WantedAgain(p) ==
  {b \in Missing : Range(PieceOf[b]) \cap Offers[p] # {} /\ Cardinality(Asked(b)) < MaxPeers}

\* clientCanRequestPiece() and clientCanRequestBlock(), and not of too many peers
Wanted(p) ==
  {b \in Missing : /\ Range(PieceOf[b]) \cap Offers[p] # {}
                   /\ p \notin Asked(b)
                   /\ Cardinality(Asked(b)) < MaxPeers}

\* Requests are written in the order of the blocks, and of the parts of each.
InOrder(s) ==
  \A j, k \in DOMAIN s :
    j < k => \/ s[j].block < s[k].block
             \/ s[j].block = s[k].block /\ s[j].part < s[k].part

Smaller(m, n) == IF m < n THEN m ELSE n

\* updateBlockRequests(), in the pulse of p: as many blocks as p may still be asked
\* for.  Which pieces come first is left open.
Ask(p) ==
  /\ Between /\ p \in peers /\ p \in keen \ choked /\ Missing # {}
  /\ Cardinality(AskedOf(p)) < Window[p]
  /\ \E S \in SUBSET Wanted(p) :
       /\ Cardinality(S) = Smaller(Window[p] - Cardinality(AskedOf(p)), Cardinality(Wanted(p)))
       /\ S # {}
       /\ active' = active \cup (S \X {p})
       /\ twice' = twice \cup {<<b, p>> : b \in {c \in S : UnderWay(p, c)}}
       /\ \E asks \in SetToSeqs(UNION {Requested(b) : b \in S}) :
            /\ InOrder(asks)
            /\ sent' = [sent EXCEPT ![p] = @ \o asks]
  /\ UNCHANGED <<have, ourSide, owed, choking, coming, inbuf, mishaps>>

\* Nothing moves between us and p.
Still(p) == sent[p] \o owed[p] \o coming[p] \o inbuf[p] = <<>>

\* A request has been under way for RequestTtlSecs: refillUpkeep() cancels it.  That
\* is by chance, at most MaxMishaps times, or because nothing moves any more.
CancelOld(b, p) ==
  /\ Between /\ <<b, p>> \in active
  /\ \/ Still(p) /\ UNCHANGED mishaps
     \/ Mishap
  /\ active' = active \ {<<b, p>>}
  /\ sent' = [sent EXCEPT ![p] = Append(@, Cancelled(b))]
  /\ UNCHANGED <<have, ourSide, owed, choking, coming, inbuf, twice>>

-----------------------------------------------------------------------------
\* The peer's side of the connection to p.

\* canAddRequestFromPeer()
Takes(p, r) ==
  /\ p \notin choking /\ Len(owed[p]) < ReqQ
  /\ PieceOf[r.block][r.part] \in Offers[p]

\* peerMadeRequest(), or a cancel, which must equal the request: that of a block in
\* parts equals none.
PeerReads(p) ==
  /\ Between /\ p \in peers \ broken /\ sent[p] # <<>>
  /\ sent' = [sent EXCEPT ![p] = Tail(@)]
  /\ LET m == Head(sent[p])
         hits == {k \in DOMAIN owed[p] : owed[p][k].block = m.block /\ ~Split(m.block)}
         refused == IF m.kind = "cancel" THEN hits # {} ELSE ~Takes(p, m)
     IN /\ owed' = [owed EXCEPT ![p] =
                      IF m.kind = "cancel" THEN (IF hits = {} THEN @ ELSE RemoveAt(@, CHOOSE k \in hits : TRUE))
                      ELSE IF refused THEN @ ELSE Append(@, m)]
        /\ coming' = IF refused /\ p \in Fext
                     THEN [coming EXCEPT ![p] = Append(@, Message("reject", m.block, IF m.kind = "cancel" THEN 1 ELSE m.part))]
                     ELSE coming
  /\ UNCHANGED <<torrentVars, ourSide, choking, inbuf, history>>

\* The rejects at the end of s, which may still be in outMessages.
Lingering(s) == {k \in 0 .. Len(s) : \A j \in k + 1 .. Len(s) : s[j].kind = "reject"}

\* fillOutputBuffer() sends the first block that is owed, ahead of messages that wait
\* for the end of their batch.
Serve(p) ==
  /\ Between /\ p \in peers \ broken /\ owed[p] # <<>>
  /\ owed' = [owed EXCEPT ![p] = Tail(@)]
  /\ \E k \in Lingering(coming[p]) :
       coming' = [coming EXCEPT ![p] = InsertAt(@, k + 1, Reply("piece", Head(owed[p])))]
  /\ UNCHANGED <<torrentVars, ourSide, sent, choking, inbuf, history>>

\* set_choke(): what a peer with the fast extension owes is rejected one by one.
PeerChokes(p) ==
  /\ Between /\ p \in (peers \ broken) \ choking /\ Mishap
  /\ choking' = choking \cup {p}
  /\ owed' = [owed EXCEPT ![p] = <<>>]
  /\ coming' = [coming EXCEPT ![p] =
                  Append(IF p \in Fext THEN @ \o [k \in DOMAIN owed[p] |-> Reply("reject", owed[p][k])]
                         ELSE @, Choke)]
  /\ UNCHANGED <<torrentVars, ourSide, sent, inbuf, twice>>

PeerUnchokes(p) ==
  /\ Between /\ p \in peers \ broken /\ p \in choking
  /\ choking' = choking \ {p}
  /\ coming' = [coming EXCEPT ![p] = Append(@, Unchoke)]
  /\ UNCHANGED <<torrentVars, ourSide, sent, owed, inbuf, history>>

-----------------------------------------------------------------------------
\* try_read(): what has come is received, be it a keep-alive, and can_read_wrapper() begins.
Receive(p) ==
  /\ Between /\ p \in peers \ broken
  /\ coming[p] # <<>> \/ (inbuf[p] # <<>> /\ p \notin reading)
  /\ inbuf' = [inbuf EXCEPT ![p] = @ \o coming[p]]
  /\ coming' = [coming EXCEPT ![p] = <<>>]
  /\ reading' = reading \cup {p}
  /\ UNCHANGED <<torrentVars, peers, broken, keen, choked, partial, sent, owed, choking, history>>

\* can_read_wrapper() reads the next message m of p, and goes on as long as there is
\* one, unless canRead() says READ_LATER or READ_ERR.
Reads(p, m, goesOn) ==
  /\ p \in reading /\ p \notin broken /\ m = Head(inbuf[p])
  /\ inbuf' = [inbuf EXCEPT ![p] = Tail(@)]
  /\ reading' = IF goesOn /\ Len(inbuf[p]) > 1 THEN reading ELSE reading \ {p}
  /\ UNCHANGED <<peers, broken, keen, owed, choking, coming, twice>>

\* Mutant of ReadChoke: what the peer owed is expected from it still.
ReadChokeKeeps(p) ==
  /\ Reads(p, Choke, TRUE)
  /\ choked' = choked \cup {p}
  /\ UNCHANGED <<have, active, partial, sent, mishaps>>

\* A peer without the fast extension has forgotten what it owed, without a word.
ReadChoke(p) ==
  /\ Reads(p, Choke, TRUE)
  /\ choked' = choked \cup {p}
  /\ active' = IF p \in Fext THEN active ELSE {r \in active : r[2] # p}
  /\ UNCHANGED <<have, partial, sent, mishaps>>

ReadUnchoke(p) ==
  /\ Reads(p, Unchoke, TRUE)
  /\ choked' = choked \ {p}
  /\ UNCHANGED <<torrentVars, partial, sent, mishaps>>

ReadReject(p) ==
  /\ inbuf[p] # <<>> /\ Head(inbuf[p]).kind = "reject"
  /\ Reads(p, Head(inbuf[p]), TRUE)
  /\ active' = active \ {<<Head(inbuf[p]).block, p>>}
  /\ UNCHANGED <<have, choked, partial, sent, mishaps>>

\* What is left of the blocks h once the pieces of b are checked in order, where
\* those of bad fail: a piece that fails loses all its blocks.
Lost(b, h, bad) ==
  LET whole(i) == PieceBlocks(i) \subseteq h
      pieces == PieceOf[b]
      failed == {k \in DOMAIN pieces :
                   /\ whole(pieces[k]) /\ pieces[k] \in bad
                   /\ \A j \in 1 .. k - 1 : ~(whole(pieces[j]) /\ pieces[j] \in bad)}
  IN h \ UNION {PieceBlocks(pieces[k]) : k \in failed}

\* Mutant of CancelsFor: nobody is told.
CancelsForNone(b, p) == [q \in Peers |-> <<>>]

\* cancelAllRequestsForBlock(): the other peers that were asked for b are told.
CancelsFor(b, p) == [q \in Peers |-> IF q \in Asked(b) \ {p} THEN <<Cancelled(b)>> ELSE <<>>]

\* Mutant of Settled: only the peer that brought b is done with it.
SettledByOne(b, p) == active \ {<<b, p>>}

\* What is still asked for when p has brought b.
Settled(b, p) == {r \in active : r[1] # b}

\* read_piece_data() of a part that was asked for, and clientGotBlock() and
\* tr_torrentGotBlock() once all parts of its block are there.
ReadPiece(p) ==
  /\ inbuf[p] # <<>> /\ Head(inbuf[p]).kind = "piece"
  /\ LET m == Head(inbuf[p])
         b == m.block
         got == partial[p] \cup {<<b, m.part>>}
         whole == PartsOf(b) \subseteq got
     IN /\ <<b, p>> \in active
        /\ Reads(p, m, whole)
        /\ partial' = [partial EXCEPT ![p] = IF whole THEN got \ PartsOf(b) ELSE got]
        /\ IF whole /\ ~HasPiece(PieceOf[b][1])
           THEN /\ active' = Settled(b, p)
                /\ Send(CancelsFor(b, p))
                /\ \E bad \in SUBSET Range(PieceOf[b]) :
                     /\ have' = Lost(b, have \cup {b}, bad)
                     /\ IF b \in have' THEN UNCHANGED mishaps ELSE Mishap
           ELSE UNCHANGED <<have, active, sent, mishaps>>
  /\ UNCHANGED choked

\* A part that was not asked for is dropped, and the rest is read later.
ReadUnrequested(p) ==
  /\ inbuf[p] # <<>> /\ Head(inbuf[p]).kind = "piece"
  /\ <<Head(inbuf[p]).block, p>> \notin active
  /\ Reads(p, Head(inbuf[p]), FALSE)
  /\ UNCHANGED <<torrentVars, choked, partial, sent, mishaps>>

-----------------------------------------------------------------------------
\* The connection to p fails: gotError() marks p, and nothing moves any more.
Break(p) ==
  /\ Between /\ p \in peers \ broken /\ Mishap
  /\ broken' = broken \cup {p}
  /\ UNCHANGED <<torrentVars, peers, keen, choked, reading, partial, wires, twice>>

\* Mutant of Close: the requests stay.
CloseKeepsRequests(p) ==
  /\ Between /\ p \in broken
  /\ peers' = peers \ {p} /\ broken' = broken \ {p} /\ keen' = keen \ {p}
  /\ reading' = reading \ {p}
  /\ sent' = [sent EXCEPT ![p] = <<>>] /\ owed' = [owed EXCEPT ![p] = <<>>]
  /\ coming' = [coming EXCEPT ![p] = <<>>] /\ inbuf' = [inbuf EXCEPT ![p] = <<>>]
  /\ partial' = [partial EXCEPT ![p] = {}]
  /\ UNCHANGED <<torrentVars, choked, choking, history>>

\* closePeer(), for a peer that failed or that was idle for too long
Close(p) ==
  /\ Between
  /\ \/ p \in broken /\ UNCHANGED mishaps
     \/ p \in peers \ broken /\ Mishap
  /\ peers' = peers \ {p} /\ broken' = broken \ {p} /\ keen' = keen \ {p}
  /\ reading' = reading \ {p}
  /\ active' = {r \in active : r[2] # p}
  /\ sent' = [sent EXCEPT ![p] = <<>>] /\ owed' = [owed EXCEPT ![p] = <<>>]
  /\ coming' = [coming EXCEPT ![p] = <<>>] /\ inbuf' = [inbuf EXCEPT ![p] = <<>>]
  /\ partial' = [partial EXCEPT ![p] = {}]
  /\ UNCHANGED <<have, choked, choking, twice>>

Read(p) == ReadChoke(p) \/ ReadUnchoke(p) \/ ReadReject(p) \/ ReadPiece(p) \/ ReadUnrequested(p)

Next ==
  \/ UpdateInterest
  \/ \E p \in Peers :
       \/ Ask(p) \/ \E b \in Blocks : CancelOld(b, p)
       \/ PeerReads(p) \/ Serve(p) \/ PeerChokes(p) \/ PeerUnchokes(p)
       \/ Receive(p) \/ Read(p) \/ Break(p) \/ Close(p)

\* Pulses come, messages arrive and are read, peers unchoke and serve, and what
\* is stuck times out.
Fairness ==
  /\ WF_vars(UpdateInterest)
  /\ \A p \in Peers :
       /\ WF_vars(Ask(p)) /\ WF_vars(PeerReads(p)) /\ WF_vars(Serve(p)) /\ WF_vars(PeerUnchokes(p))
       /\ WF_vars(Receive(p)) /\ WF_vars(Read(p)) /\ WF_vars(p \in broken /\ Close(p))

Spec == Init /\ [][Next]_vars
FairSpec == Spec /\ Fairness

-----------------------------------------------------------------------------
\* A request that is counted as active is one that will be answered: each of its
\* parts is under way, or was received, or it will be refused.  A peer is asked for
\* nothing in vain, and only a peer that fails makes us wait for the timeout.
WillAnswer(p, b, i) ==
  LET back == inbuf[p] \o coming[p]
  IN \/ InFlight(sent[p], "request", b, i) \/ InFlight(owed[p], "request", b, i)
     \/ InFlight(back, "piece", b, i)
     \/ \E j \in DOMAIN PieceOf[b] : InFlight(back, "reject", b, j)
     \/ p \notin Fext /\ Choke \in Range(back)
RequestsAreAnswered ==
  \A p \in peers \ broken : \A b \in AskedOf(p) : \A i \in DOMAIN PieceOf[b] :
    PieceOf[b][i] \in Offers[p] => <<b, i>> \in partial[p] \/ WillAnswer(p, b, i)

\* A peer without the fast extension drops a request for which it has no room, without
\* a word: none is read when the peer keeps all it can.  A choke, or a cancel that finds
\* nothing, may leave a whole window of requests to be asked again behind the first:
\* a peer keeps 512 (ReqQ), and the window is 250 at most unless the peer says more.
\* Two chokes before it has read the first requests are more than it has room for.
Roomy ==
  \A p \in peers \ Fext :
    (sent[p] # <<>> /\ Head(sent[p]).kind = "request") => Len(owed[p]) < ReqQ

\* What we have is not asked for, and no block is asked of more than two peers.
NothingAskedInVain ==
  \A b \in Blocks : Cardinality(Asked(b)) <= IF b \in have THEN 0 ELSE 2

\* Once we have a block, a peer that was asked for it too, and owes it still, has a
\* cancel ahead of it.  Left out are blocks in parts, whose cancel equals no request;
\* peers without the fast extension, who may serve what their choke made us forget; and
\* blocks asked of a peer twice, where the answer to the first is taken for that to
\* the second.
CancelFollows(p, b, k) == \E j \in DOMAIN sent[p] : j > k /\ sent[p][j] = Cancelled(b)
HadIsCancelled ==
  \A b \in {c \in have : ~Split(c)}, p \in (peers \cap Fext) \ broken : <<b, p>> \notin twice =>
    /\ \A k \in DOMAIN sent[p] : sent[p][k] = Message("request", b, 1) => CancelFollows(p, b, k)
    /\ InFlight(owed[p], "request", b, 1) => CancelFollows(p, b, 0)

\* A torrent is completed, as long as its missing blocks are offered.
Completes == <>[](Missing = {} \/ \E b \in Missing : \A p \in peers : Range(PieceOf[b]) \cap Offers[p] = {})
=============================================================================
