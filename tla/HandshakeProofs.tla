--------------------------- MODULE HandshakeProofs ---------------------------
(***************************************************************************)
(* Proofs about Handshake.tla, for any bounds and modes.                   *)
(*                                                                         *)
(* A client has one connection to the other at most, and one that requires *)
(* encryption has no other: both rest on what is known of each end by      *)
(* itself (Sound).  The types rest on that and on what is known of sockets *)
(* (Fresh).                                                                *)
(*                                                                         *)
(* Nobody gives up a peer without a reason: that rests, while nothing has  *)
(* failed (Quiet), on what the two ends of a connection have said to each  *)
(* other (Talk) and on what connections that cross leave of each other     *)
(* (Orderly).                                                              *)
(***************************************************************************)
EXTENDS Handshake, FiniteSetTheorems, SequenceTheorems, TLAPS

Filters == {{}, {"enc"}, {"enc", "dec"}}
End == [at : Awaiting \cup {"none", "closed", "peer"}, filter : Filters,
        heard : BOOLEAN, greeted : BOOLEAN]

\* An end r of a client of mode m: the filter is on in both directions before the
\* last read of a handshake, if m requires it.
Sound(r, m) ==
  /\ r \in End
  /\ r.at = "Vc" => r.filter = {"enc"}
  /\ m = "required" /\ r.at \in {"PeerId", "PayloadStream", "peer"} => r.filter = {"enc", "dec"}

IInv ==
  /\ end \in [Ends -> End]
  /\ \A e \in Ends : Sound(end[e], mode[Mine(e)])
  /\ OnePeer

-----------------------------------------------------------------------------
\* A step keeps the invariant if every end that it changes is sound and no peer.
LEMMA SoundChanges ==
  ASSUME IInv, mode' = mode, DOMAIN end' = Ends, end' = [x \in Ends |-> end'[x]],
         \A x \in Ends : \/ end'[x] = end[x]
                         \/ Sound(end'[x], mode[Mine(x)]) /\ end'[x].at # "peer"
  PROVE  IInv'
<1>1. \A x \in Ends : Sound(end'[x], mode'[Mine(x)])
  BY DEF IInv
<1>2. end' \in [Ends -> End]
  <2>1. \A x \in Ends : end'[x] \in End
    BY <1>1 DEF Sound
  <2>. QED  BY <2>1
<1>3. OnePeer'
  <2>1. \A x \in Ends : end'[x].at = "peer" => end[x].at = "peer"
    OBVIOUS
  <2>. QED  BY <2>1 DEF IInv, OnePeer, Mine, Ends, Sockets
<1>. QED  BY <1>1, <1>2, <1>3 DEF IInv, Ends, Sockets, Sound, End, Filters, Awaiting, Mine

\* New records are ends.
LEMMA NewIsSound ==
  ASSUME NEW at \in Awaiting \cup {"none", "closed"}, at \notin {"Vc", "PeerId", "PayloadStream"},
         NEW m
  PROVE  Sound(New(at), m) /\ New(at).at = at
BY DEF Sound, New, End, Filters, Awaiting

\* Quit() closes ends and changes no other.
LEMMA QuitCloses ==
  ASSUME NEW e \in Ends, end \in [Ends -> End]
  PROVE  /\ Quit(end, e) = [x \in Ends |-> Quit(end, e)[x]]
         /\ \A x \in Ends : Quit(end, e)[x] \in {end[x], New("closed")}
BY DEF Quit

\* Closing an end keeps the invariant.
LEMMA QuitKeeps ==
  ASSUME IInv, NEW e \in Ends, mode' = mode, end' = Quit(end, e)
  PROVE  IInv'
<1>1. \A m : Sound(New("closed"), m) /\ New("closed").at # "peer"
  BY NewIsSound
<1>. QED  BY <1>1, QuitCloses, SoundChanges DEF IInv

\* Going on with a handshake keeps it, if what it goes on as is sound.
LEMMA GoOnKeeps ==
  ASSUME IInv, NEW e \in Ends, NEW r, NEW n, NEW sent,
         Sound(r, mode[Mine(e)]), r.at # "peer", GoOn(e, r, n, sent)
  PROVE  IInv'
<1>1. mode' = mode /\ end' = [end EXCEPT ![e] = r]
  BY DEF GoOn
<1>. QED  BY <1>1, SoundChanges DEF IInv

\* The end of a handshake keeps it: a peer is made only where there is none.
LEMMA DoneKeeps ==
  ASSUME IInv, NEW e \in Ends, NEW r, NEW n, NEW ok \in BOOLEAN,
         ok => Sound([r EXCEPT !.at = "peer"], mode[Mine(e)]), HandshakeDone(e, r, n, ok)
  PROVE  IInv'
<1>1. mode' = mode
  BY DEF HandshakeDone
<1>2. CASE end' = Quit(end, e)
  BY <1>1, <1>2, QuitKeeps
<1>3. CASE ok /\ ~Connected(Mine(e)) /\ end' = [end EXCEPT ![e] = [r EXCEPT !.at = "peer"]]
  <2>. DEFINE p == [r EXCEPT !.at = "peer"]
  <2>1. Sound(p, mode[Mine(e)])
    BY <1>3
  <2>. HIDE DEF p
  <2>2. \A x \in Ends : end'[x] = IF x = e THEN p ELSE end[x]
    BY <1>3 DEF IInv, p
  <2>3. end' \in [Ends -> End]
    BY <1>3, <2>1 DEF IInv, Sound, p
  <2>4. \A x \in Ends : Sound(end'[x], mode'[Mine(x)])
    BY <1>1, <2>1, <2>2 DEF IInv
  <2>5. \A x \in Ends : Mine(x) = Mine(e) => end[x].at # "peer"
    BY <1>3 DEF Connected
  <2>6. OnePeer'
    BY <2>2, <2>5 DEF IInv, OnePeer, Mine, Ends, Sockets
  <2>. QED  BY <2>3, <2>4, <2>6 DEF IInv, Ends, Sockets, Sound, End, Filters, Awaiting, Mine
<1>. QED  BY <1>2, <1>3 DEF HandshakeDone

-----------------------------------------------------------------------------
\* Reading a handshake, plain or not, keeps the invariant: the plain one is refused
\* where encryption is required, so that the filter has decrypted what was read.
LEMMA ReadHandshakeKeeps ==
  ASSUME IInv, NEW e \in Ends, ReadHandshake(e)
  PROVE  IInv'
<1>. DEFINE x == Head(wire[e])
            r == [end[e] EXCEPT !.heard = TRUE]
            m == mode[Mine(e)]
<1>1. Sound(end[e], m) /\ end[e].at = "Handshake"
  BY DEF IInv, ReadHandshake, At
<1>2. r \in End /\ r.at = "Handshake" /\ r.filter = end[e].filter
  BY <1>1 DEF Sound, End
<1>3. CASE HandshakeDone(e, r, 1, FALSE)
  BY <1>3, DoneKeeps
<1>4. CASE GoOn(e, [r EXCEPT !.at = "Ya"], 0, <<>>)
  <2>1. Sound([r EXCEPT !.at = "Ya"], m) /\ [r EXCEPT !.at = "Ya"].at # "peer"
    BY <1>2 DEF Sound, End, Awaiting
  <2>. QED  BY <1>4, <2>1, GoOnKeeps
<1>5. ASSUME NEW sent, IF IsPlain(x) THEN ~Refused(e) ELSE ~IsIncoming(e), IsName(e, x),
             GoOn(e, [r EXCEPT !.at = "PeerId", !.greeted = TRUE], 1, sent)
      PROVE  IInv'
  <2>. DEFINE p == [r EXCEPT !.at = "PeerId", !.greeted = TRUE]
  <2>1. m = "required" => ~IsPlain(x)
    BY <1>5 DEF Refused
  <2>2. m = "required" => "dec" \in end[e].filter
    BY <1>5, <2>1 DEF IsPlain, IsName
  <2>3. m = "required" => r.filter = {"enc", "dec"}
    BY <1>2, <2>2 DEF End, Filters
  <2>4. Sound(p, m) /\ p.at # "peer"
    BY <1>2, <2>3 DEF Sound, End, Awaiting
  <2>. QED  BY <1>5, <2>4, GoOnKeeps
<1>. QED  BY <1>3, <1>4, <1>5 DEF ReadHandshake

\* So does every other read.
LEMMA ReadsKeep ==
  ASSUME IInv, NEW e \in Ends, Reads(e)
  PROVE  IInv'
<1>. DEFINE r == end[e]
            m == mode[Mine(e)]
<1>1. Sound(r, m) /\ r \in End
  BY DEF IInv, Sound
<1>2. CASE ReadHandshake(e)
  BY <1>2, ReadHandshakeKeeps
<1>3. CASE ReadPeerId(e)
  <2>1. Sound([r EXCEPT !.at = "peer"], m)
    BY <1>1, <1>3 DEF ReadPeerId, At, Sound, End
  <2>. QED  BY <1>3, <2>1, DoneKeeps DEF ReadPeerId
<1>4. CASE ReadYa(e)
  <2>1. Sound([r EXCEPT !.at = "PadA"], m) /\ [r EXCEPT !.at = "PadA"].at # "peer"
    BY <1>1 DEF Sound, End, Awaiting
  <2>. QED  BY <1>4, <2>1, GoOnKeeps DEF ReadYa
<1>5. CASE ReadPadA(e)
  <2>1. Sound([r EXCEPT !.at = "CryptoProvide"], m) /\ [r EXCEPT !.at = "CryptoProvide"].at # "peer"
    BY <1>1 DEF Sound, End, Awaiting
  <2>2. r.at # "peer"
    BY <1>5 DEF ReadPadA, At
  <2>. QED  BY <1>1, <1>5, <2>1, <2>2, GoOnKeeps, DoneKeeps DEF ReadPadA
<1>6. CASE ReadCryptoProvide(e)
  <2>. DEFINE p == [r EXCEPT !.at = "PayloadStream", !.filter = {"enc", "dec"}, !.greeted = TRUE]
  <2>1. Sound(p, m) /\ p.at # "peer"
    BY <1>1 DEF Sound, End, Awaiting, Filters
  <2>2. CASE HandshakeDone(e, p, 1, FALSE)
    BY <2>2, DoneKeeps
  <2>3. ASSUME NEW sent, GoOn(e, p, 1, sent)  PROVE IInv'
    BY <2>1, <2>3, GoOnKeeps
  <2>. QED  BY <1>6, <2>2, <2>3 DEF ReadCryptoProvide
<1>7. CASE ReadPayloadStream(e)
  <2>1. Sound([r EXCEPT !.at = "peer"], m)
    BY <1>1, <1>7 DEF ReadPayloadStream, At, Sound, End
  <2>2. IsName(e, Head(wire[e])) \in BOOLEAN
    BY DEF IsName
  <2>. QED  BY <1>7, <2>1, <2>2, DoneKeeps DEF ReadPayloadStream
<1>8. CASE ReadYb(e)
  <2>. DEFINE p == [at |-> "Vc", filter |-> {"enc"}, heard |-> TRUE, greeted |-> TRUE]
              q == [r EXCEPT !.at = "Handshake"]
  <2>1. Sound(p, m) /\ p.at # "peer"
    BY DEF Sound, End, Awaiting, Filters
  <2>2. Sound(q, m) /\ q.at # "peer"
    BY <1>1 DEF Sound, End, Awaiting
  <2>3. ASSUME NEW n, NEW sent, GoOn(e, p, n, sent) \/ GoOn(e, q, n, sent)  PROVE IInv'
    BY <2>1, <2>2, <2>3, GoOnKeeps
  <2>. QED  BY <1>8, <2>3 DEF ReadYb
<1>9. CASE ReadVc(e)
  <2>. DEFINE p == [r EXCEPT !.at = "CryptoSelect", !.filter = @ \cup {"dec"}]
  <2>1. r.at = "Vc" /\ r.filter = {"enc"}
    BY <1>1, <1>9 DEF ReadVc, At, Sound
  <2>2. r.filter \cup {"dec"} \in Filters
    BY <2>1 DEF Filters
  <2>3. Sound(p, m) /\ p.at # "peer"
    BY <1>1, <2>2 DEF Sound, End, Awaiting
  <2>. QED  BY <1>9, <2>3, GoOnKeeps DEF ReadVc
<1>10. CASE ReadCryptoSelect(e)
  <2>1. Sound([r EXCEPT !.at = "Handshake"], m) /\ [r EXCEPT !.at = "Handshake"].at # "peer"
    BY <1>1 DEF Sound, End, Awaiting
  <2>. QED  BY <1>10, <2>1, GoOnKeeps, DoneKeeps DEF ReadCryptoSelect
<1>. QED
  BY <1>2, <1>3, <1>4, <1>5, <1>6, <1>7, <1>8, <1>9, <1>10 DEF Reads

-----------------------------------------------------------------------------
\* An error keeps the invariant, whether the handshake ends or falls back.
LEMMA OnErrorKeeps ==
  ASSUME IInv, NEW e \in Ends, NEW refused, OnError(e, refused)
  PROVE  IInv'
<1>1. ASSUME NEW unread, Reconnect(e, unread)  PROVE IInv'
  <2>. DEFINE f == <<Len(opener) + 1, Mine(e)>>
              p == [end[e] EXCEPT !.at = "Handshake", !.greeted = TRUE]
  <2>1. \A m : Sound(p, m) /\ p.at # "peer"
    BY DEF IInv, Sound, End, Awaiting
  <2>2. \A m : Sound(New("closed"), m) /\ New("closed").at # "peer"
    BY NewIsSound
  <2>3. mode' = mode /\ end' = [Quit(end, e) EXCEPT ![f] = p]
    BY <1>1 DEF Reconnect
  <2>. HIDE DEF p, f
  <2>4. /\ end' = [x \in Ends |-> end'[x]]
        /\ \A x \in Ends : end'[x] \in {end[x], New("closed"), p}
    BY <2>3, QuitCloses DEF IInv
  <2>. QED  BY <2>1, <2>2, <2>3, <2>4, SoundChanges
<1>. QED  BY <1>1, DoneKeeps DEF OnError

\* A client that connects, and one that is connected to.
LEMMA BeginKeeps ==
  ASSUME IInv, (\E c \in Clients : Initiate(c)) \/ (\E e \in Ends : Accept(e))
  PROVE  IInv'
<1>1. ASSUME NEW c \in Clients, Initiate(c)  PROVE IInv'
  <2>. DEFINE plain == mode[c] \in {"clear", "foreign"}
              p == [New(IF plain THEN "Handshake" ELSE "Yb") EXCEPT !.greeted = plain]
  <2>1. \A m : Sound(p, m) /\ p.at # "peer"
    <3>1. plain \in BOOLEAN
      OBVIOUS
    <3>. HIDE DEF plain
    <3>. QED  BY <3>1 DEF Sound, New, End, Awaiting, Filters
  <2>2. mode' = mode /\ end' = [end EXCEPT ![<<Len(opener) + 1, c>>] = p]
    BY <1>1 DEF Initiate
  <2>. HIDE DEF p
  <2>. QED  BY <2>1, <2>2, SoundChanges DEF IInv
<1>2. ASSUME NEW e \in Ends, Accept(e)  PROVE IInv'
  <2>1. \A m : Sound(New("Handshake"), m) /\ New("Handshake").at # "peer"
    BY DEF Sound, New, End, Awaiting, Filters
  <2>. QED  BY <1>2, <2>1, GoOnKeeps, QuitKeeps DEF Accept, Close
<1>. QED  BY <1>1, <1>2

LEMMA InitSound == Init => IInv
<1>. SUFFICES ASSUME Init PROVE IInv
  OBVIOUS
<1>1. \A m : Sound(New("none"), m) /\ New("none").at = "none"
  BY NewIsSound
<1>. QED  BY <1>1 DEF Init, IInv, OnePeer, Sound

LEMMA NextSound == IInv /\ [Next]_vars => IInv'
<1>. SUFFICES ASSUME IInv, [Next]_vars PROVE IInv'
  OBVIOUS
<1>1. CASE \E c \in Clients : Initiate(c)
  BY <1>1, BeginKeeps
<1>2. ASSUME NEW e \in Ends, Reads(e)  PROVE IInv'
  BY <1>2, ReadsKeep
<1>3. ASSUME NEW e \in Ends, Accept(e)  PROVE IInv'
  BY <1>3, BeginKeeps
<1>4. ASSUME NEW e \in Ends, Lost(e)  PROVE IInv'
  BY <1>4, OnErrorKeeps, QuitKeeps DEF Lost, Close
<1>5. ASSUME NEW e \in Ends, Timeout(e)  PROVE IInv'
  BY <1>5, DoneKeeps DEF Timeout
<1>6. ASSUME NEW e \in Ends, ConnectFails(e)  PROVE IInv'
  BY <1>6, OnErrorKeeps DEF ConnectFails
<1>7. CASE UNCHANGED <<mode, end>>
  BY <1>7 DEF IInv, OnePeer, Sound
<1>8. ASSUME NEW s \in Sockets, Break(s)  PROVE IInv'
  BY <1>7, <1>8 DEF Break
<1>9. CASE UNCHANGED vars
  BY <1>7, <1>9 DEF vars
<1>. QED
  BY <1>1, <1>2, <1>3, <1>4, <1>5, <1>6, <1>8, <1>9 DEF Next

-----------------------------------------------------------------------------
\* A client has at most one connection to the other, however many they open and
\* lose, and in whatever order both sides notice (peer-mgr.cc:1076).
THEOREM AtMostOnePeer == Spec => []OnePeer
<1>1. IInv => OnePeer
  BY DEF IInv
<1>. QED  BY InitSound, NextSound, <1>1, PTL DEF Spec

\* A client that requires encryption has an encrypted connection or none, whichever
\* of the two began it and through every fallback (handshake.cc:337-344).
THEOREM RequiredMeansEncrypted == Spec => []RequiredIsEncrypted
<1>1. IInv => RequiredIsEncrypted
  BY DEF IInv, Sound, RequiredIsEncrypted
<1>. QED  BY InitSound, NextSound, <1>1, PTL DEF Spec
-----------------------------------------------------------------------------
(* The types *)

\* The states of a handshake that only the client reaches that began it.
OnlyOutgoing == {"Yb", "Vc", "CryptoSelect"}

\* Nobody is at a socket that was not opened.
Fresh == \A e \in Ends : Socket(e) \notin DOMAIN opener => end[e].at = "none"

Typed == IInv /\ TypeOK /\ Fresh

LEMMA OpenerFacts ==
  /\ \A s : s \in BoundedSeq(Clients, MaxSockets) <=>
              s \in Seq(Clients) /\ Len(s) <= MaxSockets
  /\ \A s \in Seq(Clients) : DOMAIN s = 1 .. Len(s) /\ Len(s) \in Nat
  /\ \A s \in Seq(Clients), c \in Clients :
       /\ Append(s, c) \in Seq(Clients) /\ Len(Append(s, c)) = Len(s) + 1
       /\ Append(s, c)[Len(s) + 1] = c /\ \A i \in DOMAIN s : Append(s, c)[i] = s[i]
       /\ DOMAIN Append(s, c) = DOMAIN s \cup {Len(s) + 1} /\ Len(s) + 1 \notin DOMAIN s
<1>1. \A s : s \in BoundedSeq(Clients, MaxSockets) <=> s \in Seq(Clients) /\ Len(s) <= MaxSockets
  <2>1. BoundedSeq(Clients, MaxSockets) = UNION {[1 .. m -> Clients] : m \in 0 .. MaxSockets}
    BY DEF BoundedSeq, SeqOf
  <2>2. ASSUME NEW s \in Seq(Clients), Len(s) <= MaxSockets
        PROVE  s \in BoundedSeq(Clients, MaxSockets)
    <3>1. Len(s) \in 0 .. MaxSockets /\ s \in [1 .. Len(s) -> Clients]
      BY <2>2, HandshakeAssumption
    <3>. QED  BY <2>1, <3>1
  <2>3. ASSUME NEW s \in BoundedSeq(Clients, MaxSockets)
        PROVE  s \in Seq(Clients) /\ Len(s) <= MaxSockets
    <3>1. PICK m \in 0 .. MaxSockets : s \in [1 .. m -> Clients]
      BY <2>1
    <3>2. m \in Nat /\ m <= MaxSockets
      BY <3>1, HandshakeAssumption
    <3>3. s \in Seq(Clients) /\ Len(s) = m
      BY <3>1, <3>2
    <3>. QED  BY <3>2, <3>3
  <2>. QED  BY <2>2, <2>3
<1>2. \A s \in Seq(Clients) : DOMAIN s = 1 .. Len(s) /\ Len(s) \in Nat
  OBVIOUS
<1>3. ASSUME NEW s \in Seq(Clients), NEW c \in Clients
      PROVE  /\ Append(s, c) \in Seq(Clients) /\ Len(Append(s, c)) = Len(s) + 1
             /\ Append(s, c)[Len(s) + 1] = c /\ \A i \in DOMAIN s : Append(s, c)[i] = s[i]
             /\ DOMAIN Append(s, c) = DOMAIN s \cup {Len(s) + 1} /\ Len(s) + 1 \notin DOMAIN s
  OBVIOUS
<1>. QED  BY <1>1, <1>2, <1>3

\* Both ends of a connection are ends of its socket.
LEMMA EndFacts ==
  ASSUME NEW e \in Ends
  PROVE  /\ Socket(e) \in Sockets /\ Mine(e) \in Clients /\ e = <<Socket(e), Mine(e)>>
         /\ Socket(Far(e)) = Socket(e)
BY DEF Ends, Socket, Mine, Far

\* With two clients, each is the other's other.
LEMMA OtherFacts ==
  ASSUME NEW c \in Clients
  PROVE  Other(c) \in Clients /\ Other(c) # c /\ Other(Other(c)) = c
<1>1. PICK a, b : Clients = {a, b} /\ a # b
  <2>1. IsFiniteSet(Clients \ {c}) /\ Cardinality(Clients \ {c}) = 1
    BY HandshakeAssumption, FS_RemoveElement
  <2>2. PICK d : Clients \ {c} = {d}
    BY <2>1, FS_Singleton
  <2>3. Clients = {c, d} /\ c # d
    BY <2>2
  <2>. QED  BY <2>3
<1>. QED  BY <1>1 DEF Other

LEMMA FarFacts ==
  ASSUME NEW e \in Ends
  PROVE  Far(e) \in Ends /\ Far(Far(e)) = e
BY OtherFacts DEF Ends, Far

\* A step on the sockets that there are: ends that change are those of an open socket,
\* and none goes where only the client that began may be, unless it began.
Steps(x) ==
  \/ end'[x] = end[x]
  \/ Socket(x) \in DOMAIN opener /\ (end'[x].at \in OnlyOutgoing => ~IsIncoming(x))

LEMMA StepsTyped ==
  ASSUME Typed, IInv', \A x \in Ends : Steps(x),
         UNCHANGED <<mode, opener>>, utp' \subseteq Sockets, broken' \subseteq Sockets,
         utpFailed' \in [Clients -> BOOLEAN], unreach' \in [Clients -> BOOLEAN],
         faults' \in 0 .. MaxFaults
  PROVE  Typed'
<1>1. \A e \in Ends : end'[e].at \in Awaiting \cup {"none", "closed", "peer"} /\ end'[e].filter \subseteq {"enc", "dec"}
  BY DEF IInv, End, Filters, Ends, Sockets, Awaiting
<1>2. \A e \in Ends : IsIncoming(e)' => end'[e].at \notin OnlyOutgoing
  BY DEF Steps, Typed, TypeOK, IsIncoming, OnlyOutgoing
<1>3. Fresh'
  BY DEF Typed, Fresh, Steps, Ends, Sockets, Socket
<1>4. mode' \in [Clients -> Modes] /\ opener' \in BoundedSeq(Clients, MaxSockets)
  BY DEF Typed, TypeOK
<1>5. TypeOK'
  BY <1>1, <1>2, <1>4 DEF TypeOK, OnlyOutgoing, Ends, Sockets, Awaiting, Modes
<1>. QED  BY <1>3, <1>5 DEF Typed

\* A step that opens the next socket, for c.
LEMMA OpensTyped ==
  ASSUME Typed, IInv', NEW c \in Clients, Len(opener) < MaxSockets, opener' = Append(opener, c),
         \A x \in Ends : \/ Steps(x)
                         \/ x = <<Len(opener) + 1, c>>,
         mode' = mode, utp' \subseteq Sockets, broken' \subseteq Sockets,
         utpFailed' \in [Clients -> BOOLEAN], unreach' \in [Clients -> BOOLEAN],
         faults' \in 0 .. MaxFaults
  PROVE  Typed'
<1>1. \A e \in Ends : end'[e].at \in Awaiting \cup {"none", "closed", "peer"} /\ end'[e].filter \subseteq {"enc", "dec"}
  BY DEF IInv, End, Filters, Ends, Sockets, Awaiting
<1>2. opener \in Seq(Clients) /\ Len(opener) \in Nat
  BY OpenerFacts DEF Typed, TypeOK
<1>3. opener' \in BoundedSeq(Clients, MaxSockets)
  <2>1. Append(opener, c) \in Seq(Clients) /\ Len(Append(opener, c)) = Len(opener) + 1
    BY <1>2, OpenerFacts
  <2>2. Len(opener) + 1 <= MaxSockets
    BY <1>2, HandshakeAssumption
  <2>. QED  BY <2>1, <2>2, OpenerFacts
<1>4. /\ opener'[Len(opener) + 1] = c /\ \A i \in DOMAIN opener : opener'[i] = opener[i]
      /\ DOMAIN opener' = DOMAIN opener \cup {Len(opener) + 1} /\ Len(opener) + 1 \notin DOMAIN opener
  BY <1>2, OpenerFacts
<1>5. ASSUME NEW e \in Ends, IsIncoming(e)' PROVE end'[e].at \notin OnlyOutgoing
  <2>1. e # <<Len(opener) + 1, c>>
    BY <1>4, <1>5 DEF IsIncoming, Socket, Mine
  <2>2. CASE Socket(e) \in DOMAIN opener
    <3>1. IsIncoming(e)
      BY <1>4, <1>5, <2>2 DEF IsIncoming
    <3>. QED  BY <2>1, <3>1 DEF Steps, Typed, TypeOK, OnlyOutgoing
  <2>3. CASE Socket(e) \notin DOMAIN opener
    <3>1. end'[e] = end[e] /\ end[e].at = "none"
      BY <2>1, <2>3 DEF Steps, Typed, Fresh
    <3>. QED  BY <3>1 DEF OnlyOutgoing
  <2>. QED  BY <2>2, <2>3
<1>6. ASSUME NEW e \in Ends, Socket(e) \notin DOMAIN opener' PROVE end'[e].at = "none"
  <2>1. Socket(e) \notin DOMAIN opener /\ e # <<Len(opener) + 1, c>>
    BY <1>4, <1>6 DEF Socket
  <2>. QED  BY <2>1 DEF Steps, Typed, Fresh
<1>7. Fresh'
  BY <1>6 DEF Fresh, Ends, Sockets, Socket
<1>8. mode' \in [Clients -> Modes]
  BY DEF Typed, TypeOK
<1>9. TypeOK'
  BY <1>1, <1>3, <1>5, <1>8 DEF TypeOK, OnlyOutgoing, Ends, Sockets, Awaiting, Modes
<1>. QED  BY <1>7, <1>9 DEF Typed

\* Whoever is at a socket, the socket is open.
LEMMA ThereIsOpen ==
  ASSUME Typed, NEW e \in Ends, end[e].at # "none"
  PROVE  Socket(e) \in DOMAIN opener
BY DEF Typed, Fresh

\* A connection whose socket is open is closed.
LEMMA QuitSteps ==
  ASSUME Typed, NEW e \in Ends, Socket(e) \in DOMAIN opener, NEW f, f = Quit(end, e),
         \A x \in Ends : end'[x] = f[x]
  PROVE  \A x \in Ends : Steps(x)
<1>. SUFFICES ASSUME NEW x \in Ends, end'[x] # end[x] PROVE Steps(x)
  BY DEF Steps
<1>1. end'[x] = New("closed")
  BY QuitCloses DEF Typed, IInv
<1>2. x = e \/ x = Far(e)
  BY DEF Quit, Typed, IInv
<1>3. Socket(x) \in DOMAIN opener
  BY <1>2, EndFacts
<1>. QED  BY <1>1, <1>3 DEF Steps, New, OnlyOutgoing

LEMMA GoOnTyped ==
  ASSUME Typed, IInv', NEW e \in Ends, Socket(e) \in DOMAIN opener, NEW r, NEW n, NEW sent,
         GoOn(e, r, n, sent), UNCHANGED <<utpFailed, faults>>,
         r.at \in OnlyOutgoing => ~IsIncoming(e)
  PROVE  Typed'
<1>1. \A x \in Ends : end'[x] = IF x = e THEN r ELSE end[x]
  BY DEF GoOn, Typed, IInv
<1>2. \A x \in Ends : Steps(x)
  BY <1>1 DEF Steps
<1>. QED  BY <1>2, StepsTyped DEF GoOn, Typed, TypeOK

LEMMA DoneTyped ==
  ASSUME Typed, IInv', NEW e \in Ends, Socket(e) \in DOMAIN opener, NEW r, r \in End, NEW n,
         NEW ok \in BOOLEAN, HandshakeDone(e, r, n, ok),
         utpFailed' \in [Clients -> BOOLEAN], faults' \in 0 .. MaxFaults
  PROVE  Typed'
<1>1. \A x \in Ends : Steps(x)
  <2>1. CASE end' = Quit(end, e)
    BY <2>1, QuitSteps
  <2>2. CASE end' = [end EXCEPT ![e] = [r EXCEPT !.at = "peer"]]
    <3>1. \A x \in Ends : end'[x] = IF x = e THEN [r EXCEPT !.at = "peer"] ELSE end[x]
      BY <2>2 DEF Typed, IInv
    <3>2. [r EXCEPT !.at = "peer"].at = "peer"
      BY DEF End
    <3>. QED  BY <3>1, <3>2 DEF Steps, OnlyOutgoing
  <2>. QED  BY <2>1, <2>2 DEF HandshakeDone
<1>2. unreach' \in [Clients -> BOOLEAN]
  BY EndFacts DEF HandshakeDone, Typed, TypeOK
<1>. QED  BY <1>1, <1>2, StepsTyped DEF HandshakeDone, Typed, TypeOK

LEMMA ReadsTyped ==
  ASSUME Typed, NEW e \in Ends, Reads(e)
  PROVE  Typed'
<1>. DEFINE r == end[e]
<1>1. IInv' /\ UNCHANGED <<utpFailed, faults>> /\ utpFailed' \in [Clients -> BOOLEAN] /\ faults' \in 0 .. MaxFaults
  BY ReadsKeep
     DEF Typed, TypeOK, Reads, At, ReadHandshake, ReadPeerId, ReadYa, ReadPadA, ReadCryptoProvide,
         ReadPayloadStream, ReadYb, ReadVc, ReadCryptoSelect
<1>2. r \in End /\ (IsIncoming(e) => r.at \notin OnlyOutgoing)
  BY DEF Typed, IInv, TypeOK, OnlyOutgoing
<1>3. Socket(e) \in DOMAIN opener
  BY ThereIsOpen
     DEF Reads, At, ReadHandshake, ReadPeerId, ReadYa, ReadPadA, ReadCryptoProvide,
         ReadPayloadStream, ReadYb, ReadVc, ReadCryptoSelect
<1>4. ASSUME NEW p, NEW n, NEW sent, GoOn(e, p, n, sent), p.at \notin OnlyOutgoing \/ ~IsIncoming(e)
      PROVE  Typed'
  BY <1>1, <1>3, <1>4, GoOnTyped
<1>5. ASSUME NEW p \in End, NEW n, NEW ok \in BOOLEAN, HandshakeDone(e, p, n, ok) PROVE Typed'
  BY <1>1, <1>3, <1>5, DoneTyped
<1>6. \A at \in Awaiting : [r EXCEPT !.at = at].at = at
  BY <1>2 DEF End
<1>7. CASE ReadHandshake(e)
  <2>. DEFINE h == [r EXCEPT !.heard = TRUE]
  <2>1. h \in End /\ [h EXCEPT !.at = "Ya"].at = "Ya" /\ [h EXCEPT !.at = "PeerId", !.greeted = TRUE].at = "PeerId"
    BY <1>2 DEF End
  <2>2. "Ya" \notin OnlyOutgoing /\ "PeerId" \notin OnlyOutgoing
    BY DEF OnlyOutgoing
  <2>. QED  BY <1>4, <1>5, <1>7, <2>1, <2>2 DEF ReadHandshake
<1>8. CASE ReadPeerId(e) \/ ReadPayloadStream(e)
  <2>1. IsName(e, Head(wire[e])) \in BOOLEAN
    BY DEF IsName
  <2>. QED  BY <1>2, <1>5, <1>8, <2>1 DEF ReadPeerId, ReadPayloadStream
<1>9. CASE ReadYa(e)
  BY <1>4, <1>6, <1>9 DEF ReadYa, Awaiting, OnlyOutgoing
<1>10. CASE ReadPadA(e)
  <2>1. r.at = "PadA"
    BY <1>10 DEF ReadPadA, At
  <2>. QED  BY <1>2, <1>4, <1>5, <1>6, <1>10, <2>1 DEF ReadPadA, Awaiting, OnlyOutgoing
<1>11. CASE ReadCryptoProvide(e)
  <2>. DEFINE p == [r EXCEPT !.at = "PayloadStream", !.filter = {"enc", "dec"}, !.greeted = TRUE]
  <2>1. p \in End /\ p.at = "PayloadStream" /\ p.at \notin OnlyOutgoing
    BY <1>2 DEF End, Awaiting, Filters, OnlyOutgoing
  <2>. HIDE DEF p
  <2>2. \/ HandshakeDone(e, p, 1, FALSE)
        \/ \E sent : GoOn(e, p, 1, sent)
    BY <1>11 DEF ReadCryptoProvide, p
  <2>. QED  BY <1>4, <1>5, <2>1, <2>2
<1>12. CASE ReadYb(e) \/ ReadVc(e)
  <2>1. ~IsIncoming(e)
    BY <1>2, <1>12 DEF ReadYb, ReadVc, At, OnlyOutgoing
  <2>2. \E p, n, sent : GoOn(e, p, n, sent)
    BY <1>12 DEF ReadYb, ReadVc
  <2>. QED  BY <1>4, <2>1, <2>2
<1>13. CASE ReadCryptoSelect(e)
  BY <1>2, <1>4, <1>5, <1>6, <1>13 DEF ReadCryptoSelect, Awaiting, OnlyOutgoing
<1>. QED
  BY <1>7, <1>8, <1>9, <1>10, <1>11, <1>12, <1>13 DEF Reads

LEMMA OnErrorTyped ==
  ASSUME Typed, IInv', NEW e \in Ends, end[e].at # "none", NEW refused, OnError(e, refused),
         faults' \in 0 .. MaxFaults
  PROVE  Typed'
<1>1. Socket(e) \in DOMAIN opener /\ end[e] \in End /\ Mine(e) \in Clients
  BY ThereIsOpen, EndFacts DEF Typed, IInv
<1>2. utpFailed' \in [Clients -> BOOLEAN]
  BY <1>1 DEF OnError, Typed, TypeOK
<1>3. ASSUME NEW unread, Reconnect(e, unread), CanReconnect(e) PROVE Typed'
  <2>. DEFINE f == <<Len(opener) + 1, Mine(e)>>
              p == [end[e] EXCEPT !.at = "Handshake", !.greeted = TRUE]
  <2>1. /\ opener' = Append(opener, Mine(e)) /\ end' = [Quit(end, e) EXCEPT ![f] = p]
        /\ UNCHANGED <<mode, utp, broken, unreach>>
    BY <1>3 DEF Reconnect
  <2>. HIDE DEF p
  <2>2. ASSUME NEW x \in Ends, x # f, end'[x] # end[x] PROVE Steps(x)
    <3>1. end'[x] = Quit(end, e)[x]
      BY <2>1, <2>2, QuitCloses DEF Typed, IInv
    <3>2. end'[x] = New("closed") /\ (x = e \/ x = Far(e))
      BY <2>2, <3>1 DEF Quit, Typed, IInv
    <3>3. Socket(x) \in DOMAIN opener
      BY <1>1, <3>2, EndFacts
    <3>. QED  BY <3>2, <3>3 DEF Steps, New, OnlyOutgoing
  <2>3. \A x \in Ends : Steps(x) \/ x = f
    BY <2>2 DEF Steps
  <2>4. Len(opener) < MaxSockets
    BY <1>3 DEF CanReconnect
  <2>. QED  BY <1>1, <1>2, <2>1, <2>3, <2>4, OpensTyped DEF Typed, TypeOK
<1>4. CASE HandshakeDone(e, end[e], 0, FALSE)
  BY <1>1, <1>2, <1>4, DoneTyped
<1>. QED  BY <1>3, <1>4 DEF OnError

LEMMA NextTyped == Typed /\ [Next]_vars => Typed'
<1>. SUFFICES ASSUME Typed, [Next]_vars PROVE Typed'
  OBVIOUS
<1>0. IInv' /\ IInv
  BY NextSound DEF Typed
<1>1. ASSUME NEW c \in Clients, Initiate(c) PROVE Typed'
  <2>. DEFINE s == Len(opener) + 1
              plain == mode[c] \in {"clear", "foreign"}
              p == [New(IF plain THEN "Handshake" ELSE "Yb") EXCEPT !.greeted = plain]
  <2>1. /\ s <= MaxSockets /\ opener' = Append(opener, c) /\ utp' \subseteq utp \cup {s}
        /\ end' = [end EXCEPT ![<<s, c>>] = p]
        /\ UNCHANGED <<mode, broken, utpFailed, unreach, faults>>
    BY <1>1 DEF Initiate
  <2>2. Len(opener) \in Nat /\ MaxSockets \in Nat
    BY OpenerFacts, HandshakeAssumption DEF Typed, TypeOK
  <2>3. utp' \subseteq Sockets /\ Len(opener) < MaxSockets
    BY <2>1, <2>2 DEF Typed, TypeOK, Sockets
  <2>. HIDE DEF p
  <2>4. \A x \in Ends : Steps(x) \/ x = <<Len(opener) + 1, c>>
    BY <2>1 DEF Steps, Typed, IInv
  <2>. QED  BY <1>0, <2>1, <2>3, <2>4, OpensTyped DEF Typed, TypeOK
<1>2. ASSUME NEW e \in Ends, Reads(e) PROVE Typed'
  BY <1>2, ReadsTyped
<1>3. ASSUME NEW e \in Ends, Accept(e) PROVE Typed'
  <2>1. Handshaking(Far(e)) /\ UNCHANGED <<utpFailed, faults>>
    BY <1>3 DEF Accept, CanAccept
  <2>2. Socket(e) \in DOMAIN opener
    <3>1. Far(e) \in Ends
      BY FarFacts
    <3>2. end[Far(e)].at # "none"
      BY <2>1 DEF Handshaking, Awaiting
    <3>. QED  BY <3>1, <3>2, ThereIsOpen, EndFacts
  <2>3. CASE Close(e)
    <3>1. \A x \in Ends : Steps(x)
      BY <2>2, <2>3, QuitSteps DEF Close
    <3>. QED  BY <1>0, <2>1, <2>3, <3>1, StepsTyped DEF Close, Typed, TypeOK
  <2>4. CASE GoOn(e, New("Handshake"), 0, <<>>)
    <3>1. New("Handshake").at \notin OnlyOutgoing
      BY DEF New, OnlyOutgoing
    <3>. QED  BY <1>0, <2>1, <2>2, <2>4, <3>1, GoOnTyped
  <2>. QED  BY <1>3, <2>3, <2>4 DEF Accept
<1>4. ASSUME NEW e \in Ends, Lost(e) PROVE Typed'
  <2>1. end[e].at # "none" /\ UNCHANGED faults
    BY <1>4 DEF Lost, IsLost, Handshaking, Awaiting
  <2>2. ASSUME NEW refused, OnError(e, refused) PROVE Typed'
    BY <1>0, <2>1, <2>2, OnErrorTyped DEF Typed, TypeOK
  <2>3. CASE Close(e) /\ UNCHANGED utpFailed
    <3>1. \A x \in Ends : Steps(x)
      BY <2>1, <2>3, ThereIsOpen, QuitSteps DEF Close
    <3>. QED  BY <1>0, <2>1, <2>3, <3>1, StepsTyped DEF Close, Typed, TypeOK
  <2>. QED  BY <1>4, <2>2, <2>3 DEF Lost
<1>5. ASSUME NEW e \in Ends, Timeout(e) PROVE Typed'
  <2>1. end[e].at # "none" /\ end[e] \in End
    BY <1>0, <1>5 DEF Timeout, TimedOut, Handshaking, Awaiting, IInv
  <2>2. faults' \in 0 .. MaxFaults /\ utpFailed' \in [Clients -> BOOLEAN]
    BY <1>5, HandshakeAssumption DEF Timeout, Typed, TypeOK
  <2>3. HandshakeDone(e, end[e], 0, FALSE)
    BY <1>5 DEF Timeout
  <2>. QED  BY <1>0, <2>1, <2>2, <2>3, ThereIsOpen, DoneTyped
<1>6. ASSUME NEW e \in Ends, ConnectFails(e) PROVE Typed'
  <2>1. faults' \in 0 .. MaxFaults
    BY <1>6, HandshakeAssumption DEF ConnectFails, Typed, TypeOK
  <2>2. end[e].at # "none"
    BY <1>6, FarFacts DEF ConnectFails, CanAccept, Handshaking, Awaiting
  <2>. QED  BY <1>0, <1>6, <2>1, <2>2, OnErrorTyped DEF ConnectFails
<1>7. ASSUME NEW s \in Sockets, Break(s) PROVE Typed'
  <2>1. faults' \in 0 .. MaxFaults /\ broken' \subseteq Sockets
    BY <1>7, HandshakeAssumption DEF Break, Typed, TypeOK
  <2>2. \A x \in Ends : Steps(x)
    BY <1>7 DEF Break, Steps
  <2>. QED  BY <1>0, <1>7, <2>1, <2>2, StepsTyped DEF Break, Typed, TypeOK
<1>8. CASE UNCHANGED vars
  <2>1. \A x \in Ends : Steps(x)
    BY <1>8 DEF vars, Steps
  <2>. QED  BY <1>0, <1>8, <2>1, StepsTyped DEF vars, Typed, TypeOK
<1>. QED
  BY <1>1, <1>2, <1>3, <1>4, <1>5, <1>6, <1>7, <1>8 DEF Next

LEMMA InitTyped == Init => Typed
<1>. SUFFICES ASSUME Init PROVE Typed
  OBVIOUS
<1>1. \A e \in Ends : end[e].at = "none" /\ end[e].filter = {}
  BY DEF Init, New
<1>2. opener \in BoundedSeq(Clients, MaxSockets)
  <2>1. <<>> \in Seq(Clients) /\ Len(<<>>) <= MaxSockets
    BY HandshakeAssumption
  <2>. QED  BY <2>1, OpenerFacts DEF Init
<1>3. mode \in [Clients -> Modes] /\ faults \in 0 .. MaxFaults
  BY PairingsAssumption, HandshakeAssumption DEF Init
<1>4. utpFailed \in [Clients -> BOOLEAN] /\ unreach \in [Clients -> BOOLEAN]
  BY DEF Init
<1>5. TypeOK
  BY <1>1, <1>2, <1>3, <1>4 DEF Init, TypeOK
<1>. QED  BY <1>1, <1>5, InitSound DEF Typed, Fresh

\* An end is at a state of its side only: no connection that came in waits for Yb, for
\* the verification constant or for the choice of a cipher (handshake.cc), and there are
\* no more sockets, faults and kinds of filter than are named.
THEOREM HandshakeTypeCorrect == Spec => []TypeOK
<1>1. Typed => TypeOK
  BY DEF Typed
<1>. QED  BY InitTyped, <1>1, NextTyped, PTL DEF Spec

-----------------------------------------------------------------------------
(* The order of connections *)

\* What is to know of an end to follow how connections cross.  O: the ends that began a
\* connection.  k[e]: whether e is not there, shakes hands, is a peer, or is closed.
Kinds == {"none", "busy", "peer", "closed"}

\* A client that shakes hands on a connection that it began has closed all the others
\* that it began.
OneOut(O, k) == \A e, g \in O : e # g /\ Mine(e) = Mine(g) /\ k[e] = "busy" => k[g] = "closed"
\* It shakes hands on one at most of those that came in (peer-mgr.cc:1076).
OneIn(O, k) ==
  \A e, g \in O : Mine(e) = Mine(g) /\ k[Far(e)] = "busy" /\ k[Far(g)] = "busy" => e = g
\* The client of e shakes hands on a connection that it began; the other client does.
Tries(O, k, e) == \E g \in O : Mine(g) = Mine(e) /\ k[g] = "busy"
TriesBack(O, k, e) == \E g \in O : Mine(g) # Mine(e) /\ k[g] = "busy"
\* A client that has a peer on a connection that came in, and shakes hands on one that
\* it began, shakes hands on no other that came in.
Engaged(O, k) ==
  \A e, y \in O : Mine(y) = Mine(e) /\ TriesBack(O, k, e) /\ k[Far(y)] = "peer" => k[Far(e)] # "busy"
\* The client of e has a peer on a connection that the other began, and has not left.
HasPeer(O, k, e) ==
  \E h \in O : Mine(h) # Mine(e) /\ k[Far(h)] = "peer" /\ k[h] # "closed"
\* The client of e has closed e, and the other has not noticed: it shakes hands there, or
\* it has a peer there and shakes hands on a connection of its own.
LeftBehind(O, k, e) ==
  k[e] = "closed" /\ (k[Far(e)] = "busy" \/ (k[Far(e)] = "peer" /\ TriesBack(O, k, e)))
\* A client leaves behind a connection that it began for a peer on one that came in, and
\* it tries no other.
Crossed(O, k) == \A e \in O : LeftBehind(O, k, e) => ~Tries(O, k, e) /\ HasPeer(O, k, e)
\* All of it: what the crossing of connections without a fault may lead to.
Orderly(O, k) ==
  /\ O \subseteq Ends /\ (\A e \in O : Far(e) \notin O)
  /\ k \in [Ends -> Kinds] /\ (\A e \in O : k[e] # "none")
  /\ \A x \in Ends : k[x] # "none" => x \in O \/ Far(x) \in O
  /\ OneOut(O, k) /\ OneIn(O, k) /\ Engaged(O, k) /\ Crossed(O, k)

\* There is no third client.
LEMMA OnlyTwo ==
  ASSUME NEW c \in Clients, NEW d \in Clients, c # d
  PROVE  c = Other(d)
<1>1. PICK a, b : Clients = {a, b}
  <2>1. IsFiniteSet(Clients \ {c}) /\ Cardinality(Clients \ {c}) = 1
    BY HandshakeAssumption, FS_RemoveElement
  <2>2. PICK x : Clients \ {c} = {x}
    BY <2>1, FS_Singleton
  <2>3. Clients = {c, x}
    BY <2>2
  <2>. QED  BY <2>3
<1>. QED  BY <1>1, OtherFacts

\* Two ends that are not of the same client as a third are of the same client.
LEMMA TwoClients ==
  /\ \A e \in Ends : Far(e) \in Ends /\ Far(Far(e)) = e /\ Mine(Far(e)) # Mine(e)
  /\ \A e, g, h \in Ends : Mine(e) # Mine(g) /\ Mine(h) # Mine(g) => Mine(e) = Mine(h)
<1>1. \A e, g, h \in Ends : Mine(e) # Mine(g) /\ Mine(h) # Mine(g) => Mine(e) = Mine(h)
  <2>1. \A c, d \in Clients : c # d => c = Other(d)
    BY OnlyTwo
  <2>. QED  BY <2>1, EndFacts
<1>. QED  BY <1>1, FarFacts, OtherFacts, EndFacts DEF Far, Mine

\* A connection is taken.
LEMMA TakenOrderly ==
  ASSUME NEW O, NEW k, Orderly(O, k), NEW e \in O, k[e] = "busy", k[Far(e)] = "none"
  PROVE  /\ \A g \in O : Mine(g) = Mine(e) => k[Far(g)] # "busy"
         /\ Orderly(O, [k EXCEPT ![Far(e)] = "busy"])
<1>. DEFINE l == [k EXCEPT ![Far(e)] = "busy"]
<1>1. l \in [Ends -> Kinds] /\ \A x \in Ends : l[x] = IF x = Far(e) THEN "busy" ELSE k[x]
  BY TwoClients DEF Orderly, Kinds
<1>2. ASSUME NEW g \in O, Mine(g) = Mine(e) PROVE k[Far(g)] # "busy"
  BY <1>2 DEF Orderly, OneOut, Crossed, LeftBehind, Tries
<1>. HIDE DEF l
<1>3. \A g \in O : l[g] = k[g]
  BY <1>1 DEF Orderly
<1>4. \A g \in O : l[Far(g)] = IF g = e THEN "busy" ELSE k[Far(g)]
  BY <1>1, TwoClients DEF Orderly
<1>5. OneOut(O, l) /\ OneIn(O, l)
  BY <1>2, <1>3, <1>4 DEF Orderly, OneOut, OneIn
<1>6. \A g \in O : Tries(O, l, g) = Tries(O, k, g) /\ TriesBack(O, l, g) = TriesBack(O, k, g)
  BY <1>3 DEF Tries, TriesBack
<1>7. Engaged(O, l)
  <2>. SUFFICES ASSUME NEW y \in O, Mine(y) = Mine(e), TriesBack(O, l, e), l[Far(y)] = "peer" PROVE FALSE
    BY <1>3, <1>4, <1>6 DEF Orderly, Engaged
  <2>1. y # e /\ k[y] = "closed" /\ k[Far(y)] = "peer" /\ TriesBack(O, k, e)
    BY <1>4, <1>6 DEF Orderly, OneOut
  <2>2. TriesBack(O, k, y) /\ Tries(O, k, y)
    BY <2>1 DEF TriesBack, Tries
  <2>. QED  BY <2>1, <2>2 DEF Orderly, Crossed, LeftBehind
<1>8. Crossed(O, l)
  BY <1>3, <1>4, <1>6 DEF Orderly, Crossed, LeftBehind, HasPeer
<1>. QED  BY <1>1, <1>2, <1>3, <1>5, <1>7, <1>8, TwoClients DEF Orderly, l

\* An end becomes a peer, of a client that has none.
LEMMA PeerOrderly ==
  ASSUME NEW O, NEW k, Orderly(O, k), NEW x \in Ends, k[x] = "busy",
         \A y \in Ends : Mine(y) = Mine(x) => k[y] # "peer"
  PROVE  Orderly(O, [k EXCEPT ![x] = "peer"])
<1>. DEFINE l == [k EXCEPT ![x] = "peer"]
<1>1. l \in [Ends -> Kinds] /\ \A y \in Ends : l[y] = IF y = x THEN "peer" ELSE k[y]
  BY DEF Orderly, Kinds
<1>. HIDE DEF l
<1>2. \A e \in O : e \in Ends /\ Far(e) \in Ends
  BY TwoClients DEF Orderly
<1>3. OneOut(O, l) /\ OneIn(O, l)
  BY <1>1, <1>2 DEF Orderly, OneOut, OneIn
<1>4. \A e \in O : /\ Tries(O, l, e) => Tries(O, k, e)
                   /\ TriesBack(O, l, e) => TriesBack(O, k, e)
                   /\ HasPeer(O, k, e) => HasPeer(O, l, e)
  BY <1>1, <1>2 DEF Tries, TriesBack, HasPeer
<1>5. Engaged(O, l)
  BY <1>1, <1>2, <1>4 DEF Orderly, Engaged, OneIn
<1>6. \A e \in O : LeftBehind(O, l, e) => LeftBehind(O, k, e)
  BY <1>1, <1>2, <1>4 DEF LeftBehind
<1>7. Crossed(O, l)
  BY <1>4, <1>6 DEF Orderly, Crossed
<1>. QED  BY <1>1, <1>2, <1>3, <1>5, <1>7 DEF Orderly, l

\* An end is closed: one that came in, one whose other end is closed, or one whose
\* client has a peer already.
LEMMA ClosedOrderly ==
  ASSUME NEW O, NEW k, Orderly(O, k), NEW x \in Ends, k[x] \in {"busy", "peer"},
         \/ x \notin O /\ k[x] = "busy"
         \/ k[Far(x)] = "closed"
         \/ x \in O /\ k[x] = "busy" /\ \E y \in Ends : Mine(y) = Mine(x) /\ k[y] = "peer"
  PROVE  Orderly(O, [k EXCEPT ![x] = "closed"])
<1>. DEFINE l == [k EXCEPT ![x] = "closed"]
<1>1. l \in [Ends -> Kinds] /\ \A y \in Ends : l[y] = IF y = x THEN "closed" ELSE k[y]
  BY DEF Orderly, Kinds
<1>. HIDE DEF l
<1>2. \A e \in O : e \in Ends /\ Far(e) \in Ends /\ Far(Far(e)) = e
  BY TwoClients DEF Orderly
<1>3. OneOut(O, l) /\ OneIn(O, l)
  BY <1>1, <1>2 DEF Orderly, OneOut, OneIn
<1>4. \A e \in O : /\ Tries(O, l, e) => Tries(O, k, e)
                   /\ TriesBack(O, l, e) => TriesBack(O, k, e)
  BY <1>1, <1>2 DEF Tries, TriesBack
<1>5. Engaged(O, l)
  BY <1>1, <1>2, <1>4 DEF Orderly, Engaged
<1>6. ASSUME NEW e \in O, LeftBehind(O, l, e) PROVE ~Tries(O, l, e) /\ HasPeer(O, l, e)
  <2>1. CASE x = e /\ k[Far(x)] # "closed"
    <3>1. PICK y \in Ends : Mine(y) = Mine(x) /\ k[y] = "peer" /\ k[x] = "busy"
      BY <2>1
    <3>2. y \notin O
      BY <2>1, <3>1 DEF Orderly, OneOut
    <3>3. Far(y) \in O /\ Far(Far(y)) = y /\ Mine(Far(y)) # Mine(e)
      BY <2>1, <3>1, <3>2, TwoClients DEF Orderly
    <3>4. ~Tries(O, l, e)
      BY <1>1, <1>2, <2>1, <3>1 DEF Orderly, OneOut, Tries
    <3>5. k[Far(y)] # "closed"
      <4>. SUFFICES ASSUME k[Far(y)] = "closed" PROVE FALSE
        OBVIOUS
      <4>1. LeftBehind(O, k, Far(y)) /\ Mine(e) # Mine(Far(y))
        BY <2>1, <3>1, <3>3 DEF LeftBehind, TriesBack
      <4>2. PICK h \in O : Mine(h) # Mine(Far(y)) /\ k[Far(h)] = "peer" /\ k[h] # "closed"
        BY <3>3, <4>1 DEF Orderly, Crossed, HasPeer
      <4>3. Mine(h) = Mine(e)
        BY <1>2, <2>1, <3>3, <4>1, <4>2, TwoClients
      <4>4. h = e
        BY <2>1, <3>1, <4>2, <4>3 DEF Orderly, OneOut
      <4>5. TriesBack(O, k, e)
        BY <1>1, <1>6, <2>1, <4>2, <4>4, <1>2, <1>4 DEF LeftBehind
      <4>. QED  BY <3>3, <4>1, <4>5, <1>2, <2>1, TwoClients DEF Orderly, Crossed, TriesBack, Tries
    <3>. QED  BY <1>1, <1>2, <2>1, <3>1, <3>3, <3>4, <3>5 DEF HasPeer
  <2>2. CASE x = e /\ k[Far(x)] = "closed"
    BY <1>1, <1>2, <1>6, <2>2, TwoClients DEF LeftBehind
  <2>3. CASE x # e
    <3>1. LeftBehind(O, k, e)
      BY <1>1, <1>2, <1>4, <1>6, <2>3 DEF LeftBehind
    <3>2. ~Tries(O, l, e)
      BY <1>4, <3>1 DEF Orderly, Crossed
    <3>3. PICK h \in O : Mine(h) # Mine(e) /\ k[Far(h)] = "peer" /\ k[h] # "closed"
      BY <3>1 DEF Orderly, Crossed, HasPeer
    <3>4. CASE h # x /\ Far(h) # x
      BY <1>1, <1>2, <3>2, <3>3, <3>4 DEF HasPeer
    <3>5. CASE Far(h) = x
      BY <1>2, <3>3, <3>5
    <3>6. CASE h = x
      <4>1. PICK y \in Ends : Mine(y) = Mine(x) /\ k[y] = "peer" /\ k[x] = "busy"
        BY <3>3, <3>6
      <4>2. y \notin O
        BY <3>6, <4>1 DEF Orderly, OneOut
      <4>3. Far(y) \in O /\ Far(Far(y)) = y /\ Mine(Far(y)) = Mine(e)
        BY <1>2, <3>3, <3>6, <4>1, <4>2, TwoClients DEF Orderly
      <4>4. TriesBack(O, k, e)
        BY <3>3, <3>6, <4>1 DEF TriesBack
      <4>5. k[Far(e)] # "busy"
        BY <4>1, <4>3, <4>4 DEF Orderly, Engaged
      <4>6. ~TriesBack(O, l, e)
        BY <1>1, <1>2, <3>3, <3>6, <4>1, TwoClients DEF Orderly, OneOut, TriesBack
      <4>. QED  BY <1>1, <1>2, <1>6, <2>3, <4>5, <4>6 DEF LeftBehind
    <3>. QED  BY <3>4, <3>5, <3>6
  <2>. QED  BY <2>1, <2>2, <2>3
<1>7. Crossed(O, l)
  BY <1>6 DEF Crossed
<1>. QED  BY <1>1, <1>2, <1>3, <1>5, <1>7 DEF Orderly, l

\* A client that is not in use begins a connection.
LEMMA BegunOrderly ==
  ASSUME NEW O, NEW k, Orderly(O, k), NEW f \in Ends, f \notin O, Far(f) \notin O,
         k[f] = "none", k[Far(f)] = "none",
         \A y \in Ends : Mine(y) = Mine(f) => k[y] \notin {"busy", "peer"}
  PROVE  Orderly(O \cup {f}, [k EXCEPT ![f] = "busy"])
<1>. DEFINE l == [k EXCEPT ![f] = "busy"]
            P == O \cup {f}
<1>1. l \in [Ends -> Kinds] /\ \A y \in Ends : l[y] = IF y = f THEN "busy" ELSE k[y]
  BY DEF Orderly, Kinds
<1>. HIDE DEF l
<1>2. \A e \in P : e \in Ends /\ Far(e) \in Ends /\ Far(Far(e)) = e /\ Far(e) \notin P
  BY TwoClients DEF Orderly
<1>3. \A e \in O : l[e] = k[e] /\ l[Far(e)] = k[Far(e)] /\ (Mine(e) = Mine(f) => k[e] = "closed")
  BY <1>1, <1>2 DEF Orderly, Kinds
<1>4. l[f] = "busy" /\ l[Far(f)] = "none"
  BY <1>1, <1>2, TwoClients
<1>5. OneOut(P, l) /\ OneIn(P, l)
  BY <1>3, <1>4 DEF Orderly, OneOut, OneIn
<1>6. \A e \in O : Mine(e) = Mine(f) =>
        /\ k[Far(e)] # "busy" /\ (k[Far(e)] = "peer" => ~TriesBack(O, k, e))
  <2>1. SUFFICES ASSUME NEW e \in O, Mine(e) = Mine(f), LeftBehind(O, k, e) PROVE FALSE
    BY <1>3 DEF LeftBehind
  <2>2. PICK h \in O : Mine(h) # Mine(e) /\ k[Far(h)] = "peer"
    BY <2>1 DEF Orderly, Crossed, HasPeer
  <2>3. Mine(Far(h)) = Mine(f)
    BY <1>2, <2>1, <2>2, TwoClients
  <2>. QED  BY <1>2, <2>2, <2>3
<1>7. \A e \in O : Mine(e) # Mine(f) => k[Far(e)] \notin {"busy", "peer"}
  <2>1. \A e \in O : Mine(e) # Mine(f) => Mine(Far(e)) = Mine(f)
    BY <1>2, TwoClients
  <2>. QED  BY <1>2, <2>1
<1>8. \A e \in O : Mine(e) = Mine(f) => TriesBack(P, l, e) = TriesBack(O, k, e)
  BY <1>3 DEF TriesBack
<1>9. Engaged(P, l)
  BY <1>3, <1>4, <1>6, <1>7, <1>8 DEF Orderly, Engaged
<1>10. Crossed(P, l)
  <2>1. ASSUME NEW e \in P, LeftBehind(P, l, e) PROVE FALSE
    <3>1. e \in O
      BY <1>4, <2>1 DEF LeftBehind
    <3>. QED  BY <1>3, <1>6, <1>7, <1>8, <2>1, <3>1 DEF LeftBehind
  <2>. QED  BY <2>1 DEF Crossed
<1>11. \A x \in Ends : l[x] # "none" => x \in P \/ Far(x) \in P
  BY <1>1 DEF Orderly
<1>12. \A e \in P : l[e] # "none"
  BY <1>3, <1>4 DEF Orderly
<1>. QED  BY <1>1, <1>2, <1>5, <1>9, <1>10, <1>11, <1>12 DEF Orderly, l

\* A client goes on with another connection in the place of one that was closed.
LEMMA AgainOrderly ==
  ASSUME NEW O, NEW k, Orderly(O, k), NEW e \in O, k[e] = "busy", k[Far(e)] = "closed",
         NEW f \in Ends, f \notin O, Far(f) \notin O, Mine(f) = Mine(e),
         k[f] = "none", k[Far(f)] = "none"
  PROVE  Orderly(O \cup {f}, [k EXCEPT ![e] = "closed", ![f] = "busy"])
<1>. DEFINE l == [k EXCEPT ![e] = "closed", ![f] = "busy"]
            P == O \cup {f}
<1>1. l \in [Ends -> Kinds] /\ \A y \in Ends : l[y] = IF y = f THEN "busy" ELSE IF y = e THEN "closed" ELSE k[y]
  BY DEF Orderly, Kinds
<1>. HIDE DEF l
<1>2. \A g \in P : g \in Ends /\ Far(g) \in Ends /\ Far(Far(g)) = g /\ Far(g) \notin P
  BY TwoClients DEF Orderly
<1>3. \A g \in O : l[g] = (IF g = e THEN "closed" ELSE k[g]) /\ l[Far(g)] = k[Far(g)]
  BY <1>1, <1>2
<1>4. l[f] = "busy" /\ l[Far(f)] = "none"
  BY <1>1, <1>2, TwoClients
<1>5. \A g \in O : Mine(g) = Mine(e) /\ g # e => k[g] = "closed"
  BY DEF Orderly, OneOut
<1>6. OneOut(P, l) /\ OneIn(P, l)
  BY <1>3, <1>4, <1>5 DEF Orderly, OneOut, OneIn
<1>7. \A g \in O : Tries(P, l, g) = Tries(O, k, g) /\ TriesBack(P, l, g) = TriesBack(O, k, g)
  BY <1>3, <1>4 DEF Tries, TriesBack
<1>8. Engaged(P, l)
  BY <1>3, <1>4, <1>7 DEF Orderly, Engaged
<1>9. Crossed(P, l)
  <2>1. ASSUME NEW g \in P, LeftBehind(P, l, g) PROVE ~Tries(P, l, g) /\ HasPeer(P, l, g)
    <3>1. g \in O /\ g # e
      BY <1>3, <1>4, <2>1 DEF LeftBehind
    <3>2. LeftBehind(O, k, g)
      BY <1>3, <1>7, <2>1, <3>1 DEF LeftBehind
    <3>3. PICK h \in O : Mine(h) # Mine(g) /\ k[Far(h)] = "peer" /\ k[h] # "closed"
      BY <3>1, <3>2 DEF Orderly, Crossed, HasPeer
    <3>4. l[Far(h)] = "peer" /\ l[h] # "closed"
      BY <1>3, <3>3
    <3>. QED  BY <1>7, <3>1, <3>2, <3>3, <3>4 DEF Orderly, Crossed, HasPeer
  <2>. QED  BY <2>1 DEF Crossed
<1>10. \A x \in Ends : l[x] # "none" => x \in P \/ Far(x) \in P
  BY <1>1 DEF Orderly
<1>11. \A g \in P : l[g] # "none"
  BY <1>3, <1>4 DEF Orderly
<1>. QED  BY <1>1, <1>2, <1>6, <1>8, <1>9, <1>10, <1>11 DEF Orderly, l

-----------------------------------------------------------------------------
(* What is on the wire, a few parts at most *)

\* Who encrypts is offered encryption, and takes it (handshake.cc, get_crypto_select()).
LEMMA ChoicesMade ==
  ASSUME NEW m \in {"required", "preferred", "clear"}
  PROVE  CryptoSelect(m, {"crypto"}) = {"crypto"}
<1>1. CASE m = "required"
  BY <1>1 DEF CryptoSelect
<1>2. CASE m = "preferred"
  BY <1>2 DEF CryptoSelect
<1>3. CASE m = "clear"
  BY <1>3 DEF CryptoSelect
<1>. QED  BY <1>1, <1>2, <1>3

\* What is left of a short sequence without its head.
LEMMA Drop1 == ASSUME NEW a PROVE SubSeq(<<a>>, 2, Len(<<a>>)) = <<>>
BY SubSeqEmpty

\* Two parts were there.
LEMMA Drop2 ==
  ASSUME NEW a, NEW b
  PROVE  SubSeq(<<a, b>>, 2, Len(<<a, b>>)) = <<b>>
<1>. DEFINE S == {a, b}
<1>1. <<a, b>> \in Seq(S) /\ Len(<<a, b>>) = 2 /\ <<a, b>> # <<>>
  OBVIOUS
<1>2. Tail(<<a, b>>) = <<b>>
  OBVIOUS
<1>. QED  BY <1>1, <1>2, TailIsSubSeq

\* Three parts were there.
LEMMA Drop3 ==
  ASSUME NEW a, NEW b, NEW c
  PROVE  SubSeq(<<a, b, c>>, 2, Len(<<a, b, c>>)) = <<b, c>>
<1>. DEFINE S == {a, b, c}
<1>1. <<a, b, c>> \in Seq(S) /\ Len(<<a, b, c>>) = 3 /\ <<a, b, c>> # <<>>
  OBVIOUS
<1>2. Tail(<<a, b, c>>) = <<b, c>>
  OBVIOUS
<1>. QED  BY <1>1, <1>2, TailIsSubSeq

\* Four parts were there.
LEMMA Drop4 ==
  ASSUME NEW a, NEW b, NEW c, NEW d
  PROVE  SubSeq(<<a, b, c, d>>, 2, Len(<<a, b, c, d>>)) = <<b, c, d>>
<1>. DEFINE S == {a, b, c, d}
<1>1. <<a, b, c, d>> \in Seq(S) /\ Len(<<a, b, c, d>>) = 4 /\ <<a, b, c, d>> # <<>>
  OBVIOUS
<1>2. Tail(<<a, b, c, d>>) = <<b, c, d>>
  OBVIOUS
<1>. QED  BY <1>1, <1>2, TailIsSubSeq

\* What is sent where nothing waits to be read, and in two messages.
LEMMA Add1 == ASSUME NEW a PROVE <<>> \o <<a>> = <<a>> /\ <<a>> \o <<>> = <<a>>
<1>1. <<a>> \in Seq({a})
  OBVIOUS
<1>. QED  BY <1>1, ConcatEmptySeq

\* Two parts are sent.
LEMMA Add2 == ASSUME NEW a, NEW b PROVE <<>> \o <<a, b>> = <<a, b>> /\ <<a, b>> \o <<>> = <<a, b>>
<1>1. <<a, b>> \in Seq({a, b})
  OBVIOUS
<1>. QED  BY <1>1, ConcatEmptySeq

\* Four parts are sent.
LEMMA Add4 ==
  ASSUME NEW a, NEW b, NEW c, NEW d
  PROVE  /\ <<>> \o <<a, b, c, d>> = <<a, b, c, d>>
         /\ <<a, b>> \o <<c, d>> = <<a, b, c, d>>
<1>. DEFINE S == {a, b, c, d}
            t == <<a, b>> \o <<c, d>>
<1>1. <<a, b>> \in Seq(S) /\ <<c, d>> \in Seq(S) /\ <<a, b, c, d>> \in Seq(S)
  OBVIOUS
<1>2. t \in Seq(S) /\ Len(t) = 4 /\ t[1] = a /\ t[2] = b /\ t[3] = c /\ t[4] = d
  BY <1>1, ConcatProperties
<1>. HIDE DEF t
<1>3. \A i \in 1 .. 4 : t[i] = <<a, b, c, d>>[i]
  BY <1>2
<1>4. t = <<a, b, c, d>>
  BY <1>1, <1>2, <1>3, SeqEqual
<1>. QED  BY <1>1, <1>4, ConcatEmptySeq DEF t

\* Nothing is read.
LEMMA Whole1 == ASSUME NEW a PROVE SubSeq(<<a>>, 1, Len(<<a>>)) = <<a>>
<1>1. <<a>> \in Seq({a})
  OBVIOUS
<1>. QED  BY <1>1, SubSeqFull

\* Two parts are left unread.
LEMMA Whole2 == ASSUME NEW a, NEW b PROVE SubSeq(<<a, b>>, 1, Len(<<a, b>>)) = <<a, b>>
<1>1. <<a, b>> \in Seq({a, b})
  OBVIOUS
<1>. QED  BY <1>1, SubSeqFull

\* Nothing is read, and nothing is sent.
LEMMA Nothing == <<>> \o <<>> = <<>> /\ SubSeq(<<>>, 1, Len(<<>>)) = <<>>
<1>1. <<>> \in Seq({})
  OBVIOUS
<1>. QED  BY <1>1, ConcatEmptySeq, SubSeqFull

-----------------------------------------------------------------------------
(* What the two ends of a connection say to each other *)

\* The parts that are sent.
PlainHs == Part("hs", FALSE, {})
PlainId == Part("id", FALSE, {})
CipherHs == Part("hs", TRUE, {})
CipherId == Part("id", TRUE, {})
Req1 == Part("req1", FALSE, {})
Provide == Part("provide", TRUE, {"crypto"})
Verify == Part("vc", TRUE, {})
Select == Part("select", TRUE, {"crypto"})

\* There is no handshake at the end any more.
Over(r) == r.at \in {"peer", "closed"}
Both == {"enc", "dec"}

\* The phases of a connection.  a, u and c: the end that began, what it has yet to read,
\* the mode of its client; b, v and d: the other end.  In the first the other end has
\* not answered a plain handshake, and it refuses when it requires encryption.
Begun(a, b, u, v, c, d) ==
  /\ c # "required" /\ (d = "required" => c \in {"clear", "foreign"})
  /\ a.at = "Handshake" /\ a.filter = {} /\ a.greeted /\ u = <<>>
  /\ \/ b.at = "none" /\ v = <<PlainHs, PlainId>>
     \/ b = New("Handshake") /\ v = <<PlainHs, PlainId>>
     \/ b.at = "closed" /\ d = "required"

\* A plain handshake was answered.
PlainOut(a, u) ==
  \/ a.at = "Handshake" /\ a.filter = {} /\ a.greeted /\ u = <<PlainHs, PlainId>>
  \/ a.at = "PeerId" /\ a.filter = {} /\ a.heard /\ u = <<PlainId>>
  \/ Over(a)
PlainIn(b, v) == Over(b) \/ (b.at = "PeerId" /\ b.filter = {} /\ v = <<PlainId>>)

\* The keys are exchanged.  A foreign client has refused them, or will.
Keys(a, b, u, v, c, d) ==
  /\ c \in {"required", "preferred"} /\ a = New("Yb")
  /\ \/ u = <<>> /\ v = <<Key>> /\ b.at = "none"
     \/ u = <<>> /\ v = <<Key>> /\ b = New("Handshake")
     \/ u = <<>> /\ v = <<Key>> /\ b.at = "Ya" /\ d # "foreign"
     \/ u = <<>> /\ b.at = "closed" /\ d = "foreign"
     \/ u = <<Key>> /\ v = <<>> /\ b.at = "PadA" /\ d # "foreign"

\* The encryption is offered.
Offer(a, b, u, v, d) ==
  /\ d # "foreign" /\ a.at = "Vc" /\ a.filter = {"enc"} /\ a.heard /\ a.greeted /\ u = <<>>
  /\ \/ b.at = "PadA" /\ v = <<Req1, Provide, CipherHs, CipherId>>
     \/ b.at = "CryptoProvide" /\ v = <<Provide, CipherHs, CipherId>>

\* The encryption was chosen.
CipherOut(a, u) ==
  \/ /\ a.heard /\ a.greeted
     /\ \/ a.at = "Vc" /\ a.filter = {"enc"} /\ u = <<Verify, Select, CipherHs, CipherId>>
        \/ a.at = "CryptoSelect" /\ a.filter = Both /\ u = <<Select, CipherHs, CipherId>>
        \/ a.at = "Handshake" /\ a.filter = Both /\ u = <<CipherHs, CipherId>>
        \/ a.at = "PeerId" /\ a.filter = Both /\ u = <<CipherId>>
  \/ Over(a)
CipherIn(b, v) == Over(b) \/ (b.at = "PayloadStream" /\ b.filter = Both /\ v = <<CipherHs, CipherId>>)

\* A connection is in one of the phases, and what is on the wire belongs to it.
Talk(a, b, u, v, c, d) ==
  \/ Begun(a, b, u, v, c, d)
  \/ c # "required" /\ PlainOut(a, u) /\ PlainIn(b, v)
  \/ Keys(a, b, u, v, c, d) \/ Offer(a, b, u, v, d)
  \/ CipherOut(a, u) /\ CipherIn(b, v)

\* The connection that e began, before a step and after it.
TalkAt(e) == Talk(end[e], end[Far(e)], wire[e], wire[Far(e)], mode[Mine(e)], mode[Mine(Far(e))])
TalkNext(e) == Talk(end'[e], end'[Far(e)], wire'[e], wire'[Far(e)], mode[Mine(e)], mode[Mine(Far(e))])

\* The ends that began a connection, and what there is to know of each end to follow
\* how connections cross.
Outs == {e \in Ends : Socket(e) \in DOMAIN opener /\ opener[Socket(e)] = Mine(e)}
KindOf == [e \in Ends |-> IF Handshaking(e) THEN "busy" ELSE end[e].at]
\* The wire is a function of the ends.
IsWire == wire = [x \in Ends |-> wire[x]]

\* What the parts are told apart by.
LEMMA PartFacts ==
  /\ CipherHs.k = "hs" /\ PlainHs.k = "hs" /\ CipherId.k = "id" /\ PlainId.k = "id"
  /\ CipherHs.enc /\ ~PlainHs.enc /\ IsPlain(PlainHs) /\ ~IsPlain(CipherHs)
  /\ Key.k = "key" /\ ~IsPlain(Key) /\ Rest.k = "rest"
  /\ Req1.k = "req1" /\ Verify.k = "vc" /\ Provide.crypto = {"crypto"} /\ Select.crypto = {"crypto"}
  /\ Hello({}) = <<PlainHs, PlainId>> /\ Hello({"enc"}) = <<CipherHs, CipherId>>
  /\ Hello(Both) = <<CipherHs, CipherId>>
<1>1. /\ CipherHs.k = "hs" /\ PlainHs.k = "hs" /\ CipherId.k = "id" /\ PlainId.k = "id"
      /\ CipherHs.enc /\ ~PlainHs.enc
      /\ Key.k = "key" /\ Rest.k = "rest" /\ Req1.k = "req1" /\ Verify.k = "vc"
      /\ Provide.crypto = {"crypto"} /\ Select.crypto = {"crypto"}
  BY DEF PlainHs, PlainId, CipherHs, CipherId, Part, Key, Rest, Req1, Verify, Provide, Select
<1>2. IsPlain(PlainHs) /\ ~IsPlain(CipherHs) /\ ~IsPlain(Key)
  BY <1>1 DEF IsPlain
<1>3. /\ ("enc" \in {}) = FALSE /\ ("enc" \in {"enc"}) = TRUE /\ ("enc" \in Both) = TRUE
  BY DEF Both
<1>4. /\ Hello({}) = <<PlainHs, PlainId>> /\ Hello({"enc"}) = <<CipherHs, CipherId>>
      /\ Hello(Both) = <<CipherHs, CipherId>>
  BY <1>3 DEF Hello, PlainHs, PlainId, CipherHs, CipherId
<1>. QED  BY <1>1, <1>2, <1>4

\* One end of each connection began it, and the other came in.
LEMMA OutsFacts ==
  ASSUME Typed
  PROVE  /\ Outs \subseteq Ends
         /\ \A e \in Outs : /\ Far(e) \in Ends /\ Far(Far(e)) = e /\ Far(e) # e /\ Far(e) \notin Outs
                           /\ ~IsIncoming(e) /\ IsIncoming(Far(e))
         /\ \A x \in Ends : IsIncoming(x) => Far(x) \in Outs
         /\ \A x \in Ends : end[x].at # "none" => x \in Outs \/ Far(x) \in Outs
<1>1. \A x \in Ends : Far(x) \in Ends /\ Far(Far(x)) = x /\ Mine(Far(x)) # Mine(x) /\ Socket(Far(x)) = Socket(x)
  BY TwoClients, EndFacts
<1>2. \A x \in Ends : Socket(x) \in DOMAIN opener => opener[Socket(x)] \in Clients
  BY OpenerFacts DEF Typed, TypeOK
<1>3. \A x \in Ends, c \in Clients : c # Mine(x) => c = Mine(Far(x))
  <2>. SUFFICES ASSUME NEW x \in Ends, NEW c \in Clients, c # Mine(x) PROVE c = Mine(Far(x))
    OBVIOUS
  <2>1. <<Socket(x), c>> \in Ends /\ Mine(<<Socket(x), c>>) = c
    BY EndFacts DEF Ends, Mine
  <2>. QED  BY <1>1, <2>1, TwoClients
<1>. QED  BY <1>1, <1>2, <1>3, ThereIsOpen DEF Outs, IsIncoming

\* What GoOn() changes: the end that goes on, what it reads and what it sends.
LEMMA GoOnEffect ==
  ASSUME Typed, IsWire, NEW x \in Ends, NEW r, NEW n, NEW sent, GoOn(x, r, n, sent), end[x].at # "closed"
  PROVE  /\ end'[x] = r /\ end'[Far(x)] = end[Far(x)]
         /\ wire'[x] = SubSeq(wire[x], n + 1, Len(wire[x]))
         /\ end[Far(x)].at # "closed" => wire'[Far(x)] = wire[Far(x)] \o sent
         /\ \A y \in Ends : y \notin {x, Far(x)} =>
              end'[y] = end[y] /\ (wire'[y] = wire[y] \/ end[y].at = "closed")
         /\ IsWire'
<1>1. end \in [Ends -> End]
  BY DEF Typed, IInv
<1>2. Far(x) \in Ends /\ Far(x) # x
  BY TwoClients
<1>. QED  BY <1>1, <1>2 DEF GoOn, IsWire, Delivered

\* The two ends of the connection alone.
LEMMA GoOnHere ==
  ASSUME Typed, IsWire, NEW x \in Ends, NEW r, NEW n, NEW sent, GoOn(x, r, n, sent),
         end[x].at # "closed"
  PROVE  /\ end'[x] = r /\ end'[Far(x)] = end[Far(x)]
         /\ wire'[x] = SubSeq(wire[x], n + 1, Len(wire[x]))
         /\ end[Far(x)].at # "closed" => wire'[Far(x)] = wire[Far(x)] \o sent
BY GoOnEffect

\* What HandshakeDone() changes: the end becomes a peer, or is closed.
LEMMA DoneEffect ==
  ASSUME Typed, IsWire, NEW x \in Ends, NEW r \in End, NEW n, NEW ok \in BOOLEAN, HandshakeDone(x, r, n, ok),
         end[Far(x)].at # "none"
  PROVE  /\ end'[x].at = IF ok /\ ~Connected(Mine(x)) THEN "peer" ELSE "closed"
         /\ \A y \in Ends : y # x =>
              end'[y] = end[y] /\ (wire'[y] = wire[y] \/ end[y].at = "closed")
         /\ IsWire'
<1>1. end \in [Ends -> End]
  BY DEF Typed, IInv
<1>2. Far(x) \in Ends /\ Far(x) # x
  BY TwoClients
<1>3. CASE ok /\ ~Connected(Mine(x))
  <2>. DEFINE p == [r EXCEPT !.at = "peer"]
  <2>1. p.at = "peer"
    BY DEF End
  <2>. HIDE DEF p
  <2>2. end' = [end EXCEPT ![x] = p]
    BY <1>3 DEF HandshakeDone, p
  <2>. QED  BY <1>1, <1>2, <1>3, <2>1, <2>2 DEF HandshakeDone, IsWire, Delivered
<1>4. CASE ~(ok /\ ~Connected(Mine(x)))
  <2>1. end' = Quit(end, x)
    BY <1>4 DEF HandshakeDone
  <2>2. end'[x] = New("closed") /\ New("closed").at = "closed" /\ \A y \in Ends : y # x => end'[y] = end[y]
    BY <1>1, <1>2, <2>1 DEF Quit, New
  <2>. QED  BY <1>1, <1>2, <1>4, <2>1, <2>2 DEF HandshakeDone, IsWire, Delivered
<1>. QED  BY <1>3, <1>4

-----------------------------------------------------------------------------
(* Reading *)

\* x goes on with its handshake.
GoesOn(x) == \E r, n, sent : r.at \in Awaiting /\ GoOn(x, r, n, sent)
\* The handshake of x is done.
IsDone(x, ok) == \E r \in End : \E n : HandshakeDone(x, r, n, ok)

\* The end that began reads the key of the other, and offers encryption.
LEMMA ReadYbTalks ==
  ASSUME Typed, IsWire, NEW e \in Outs, TalkAt(e), ReadYb(e)
  PROVE  GoesOn(e) /\ TalkNext(e)
<1>. DEFINE r == [at |-> "Vc", filter |-> {"enc"}, heard |-> TRUE, greeted |-> TRUE]
            c == mode[Mine(e)]
<1>1. end[e].at = "Yb" /\ wire[e] # <<>>
  BY DEF ReadYb, At, CanRead
<1>2. /\ c \in {"required", "preferred"} /\ end[Far(e)].at = "PadA" /\ mode[Mine(Far(e))] # "foreign"
      /\ wire[e] = <<Key>> /\ wire[Far(e)] = <<>>
  BY <1>1 DEF TalkAt, Talk, Begun, PlainOut, Keys, Offer, CipherOut, Over
<1>3. Head(wire[e]) = Key
  BY <1>2
<1>4. Part("provide", TRUE, CryptoProvide(c)) = Provide
  BY <1>2 DEF CryptoProvide, Provide
<1>5. GoOn(e, r, 1, <<Req1, Provide>> \o Hello({"enc"}))
  BY <1>3, <1>4, PartFacts DEF ReadYb, Req1
<1>6. GoOn(e, r, 1, <<Req1, Provide, CipherHs, CipherId>>)
  <2>1. <<Req1, Provide>> \o <<CipherHs, CipherId>> = <<Req1, Provide, CipherHs, CipherId>>
    BY Add4
  <2>2. <<Req1, Provide>> \o Hello({"enc"}) = <<Req1, Provide, CipherHs, CipherId>>
    BY <2>1, PartFacts
  <2>. QED  BY <1>5, <2>2
<1>. HIDE DEF r
<1>7. /\ end'[e] = r /\ end'[Far(e)] = end[Far(e)]
      /\ wire'[e] = SubSeq(wire[e], 1 + 1, Len(wire[e]))
      /\ wire'[Far(e)] = wire[Far(e)] \o <<Req1, Provide, CipherHs, CipherId>>
  <2>1. e \in Ends /\ end[e].at # "closed" /\ end[Far(e)].at # "closed"
    BY <1>1, <1>2 DEF Outs
  <2>. QED  BY <1>6, <2>1, GoOnHere
<1>8. wire'[e] = <<>> /\ wire'[Far(e)] = <<Req1, Provide, CipherHs, CipherId>>
  BY <1>2, <1>7, Drop1, Add4
<1>9. r.at = "Vc" /\ r.filter = {"enc"} /\ r.heard /\ r.greeted
  BY DEF r
<1>10. Offer(end'[e], end'[Far(e)], wire'[e], wire'[Far(e)], mode[Mine(Far(e))])
  BY <1>2, <1>7, <1>8, <1>9 DEF Offer
<1>. QED  BY <1>6, <1>9, <1>10 DEF GoesOn, TalkNext, Talk, Awaiting

\* The end that began has had an answer, and reads on.
LEMMA ReadsOn ==
  ASSUME Typed, IsWire, NEW e \in Outs, end[e].at # "closed", NEW r, GoOn(e, r, 1, <<>>)
  PROVE  /\ end'[e] = r /\ end'[Far(e)] = end[Far(e)]
         /\ wire'[e] = SubSeq(wire[e], 2, Len(wire[e]))
         /\ PlainIn(end[Far(e)], wire[Far(e)]) => PlainIn(end'[Far(e)], wire'[Far(e)])
         /\ CipherIn(end[Far(e)], wire[Far(e)]) => CipherIn(end'[Far(e)], wire'[Far(e)])
<1>1. e \in Ends /\ 1 + 1 = 2
  BY OutsFacts
<1>2. /\ end'[e] = r /\ end'[Far(e)] = end[Far(e)]
      /\ wire'[e] = SubSeq(wire[e], 1 + 1, Len(wire[e]))
      /\ end[Far(e)].at # "closed" => wire'[Far(e)] = wire[Far(e)] \o <<>>
  BY <1>1, GoOnHere
<1>3. PlainIn(end[Far(e)], wire[Far(e)]) => PlainIn(end'[Far(e)], wire'[Far(e)])
  BY <1>2, Add1 DEF PlainIn, Over
<1>4. CipherIn(end[Far(e)], wire[Far(e)]) => CipherIn(end'[Far(e)], wire'[Far(e)])
  BY <1>2, Add2 DEF CipherIn, Over
<1>. QED  BY <1>1, <1>2, <1>3, <1>4

\* It reads that the other knows the keys.
LEMMA ReadVcTalks ==
  ASSUME Typed, IsWire, NEW e \in Outs, TalkAt(e), ReadVc(e)
  PROVE  GoesOn(e) /\ TalkNext(e)
<1>. DEFINE r == [end[e] EXCEPT !.at = "CryptoSelect", !.filter = @ \cup {"dec"}]
<1>1. end[e].at = "Vc" /\ wire[e] # <<>> /\ GoOn(e, r, 1, <<>>)
  BY DEF ReadVc, At, CanRead
<1>2. /\ end[e].heard /\ end[e].greeted /\ end[e].filter = {"enc"}
      /\ wire[e] = <<Verify, Select, CipherHs, CipherId>> /\ CipherIn(end[Far(e)], wire[Far(e)])
  BY <1>1 DEF TalkAt, Talk, Begun, PlainOut, Keys, New, Offer, CipherOut, Over
<1>3. r.at = "CryptoSelect" /\ r.filter = Both /\ r.heard /\ r.greeted
  <2>1. end[e] \in End /\ {"enc"} \cup {"dec"} = Both
    BY OutsFacts DEF Typed, IInv, Both
  <2>. QED  BY <1>2, <2>1 DEF End
<1>. HIDE DEF r
<1>4. end'[e] = r /\ wire'[e] = <<Select, CipherHs, CipherId>> /\ CipherIn(end'[Far(e)], wire'[Far(e)])
  <2>1. end'[e] = r /\ wire'[e] = SubSeq(wire[e], 2, Len(wire[e])) /\ CipherIn(end'[Far(e)], wire'[Far(e)])
    BY <1>1, <1>2, ReadsOn
  <2>. QED  BY <1>2, <2>1, Drop4
<1>5. CipherOut(end'[e], wire'[e])
  BY <1>3, <1>4 DEF CipherOut
<1>. QED  BY <1>1, <1>3, <1>4, <1>5 DEF GoesOn, TalkNext, Talk, Awaiting

\* It reads the choice of encryption, which is one that it offered.
LEMMA ReadCryptoSelectTalks ==
  ASSUME Typed, IsWire, NEW e \in Outs, TalkAt(e), ReadCryptoSelect(e)
  PROVE  GoesOn(e) /\ TalkNext(e)
<1>. DEFINE r == [end[e] EXCEPT !.at = "Handshake"]
<1>1. end[e].at = "CryptoSelect"
  BY DEF ReadCryptoSelect, At
<1>2. /\ end[e].heard /\ end[e].greeted /\ end[e].filter = Both
      /\ wire[e] = <<Select, CipherHs, CipherId>> /\ CipherIn(end[Far(e)], wire[Far(e)])
  BY <1>1 DEF TalkAt, Talk, Begun, PlainOut, Keys, New, Offer, CipherOut, Over
<1>3. GoOn(e, r, 1, <<>>)
  <2>1. Head(wire[e]).crypto = {"crypto"}
    BY <1>2, PartFacts
  <2>2. "crypto" \in CryptoProvide(mode[Mine(e)])
    BY DEF CryptoProvide
  <2>. QED  BY <2>1, <2>2 DEF ReadCryptoSelect
<1>4. r.at = "Handshake" /\ r.filter = Both /\ r.heard /\ r.greeted
  <2>1. end[e] \in End
    BY OutsFacts DEF Typed, IInv
  <2>. QED  BY <1>2, <2>1 DEF End
<1>. HIDE DEF r
<1>5. end'[e] = r /\ wire'[e] = <<CipherHs, CipherId>> /\ CipherIn(end'[Far(e)], wire'[Far(e)])
  <2>1. end'[e] = r /\ wire'[e] = SubSeq(wire[e], 2, Len(wire[e])) /\ CipherIn(end'[Far(e)], wire'[Far(e)])
    BY <1>1, <1>2, <1>3, ReadsOn
  <2>. QED  BY <1>2, <2>1, Drop3
<1>6. CipherOut(end'[e], wire'[e])
  BY <1>4, <1>5 DEF CipherOut
<1>. QED  BY <1>3, <1>4, <1>5, <1>6 DEF GoesOn, TalkNext, Talk, Awaiting

\* It reads the handshake of the other, which is what it asked for.
LEMMA ReadAnswerTalks ==
  ASSUME Typed, IsWire, NEW e \in Outs, TalkAt(e), ReadHandshake(e)
  PROVE  GoesOn(e) /\ TalkNext(e)
<1>. DEFINE a == end[e]
            x == Head(wire[e])
            r == [[end[e] EXCEPT !.heard = TRUE] EXCEPT !.at = "PeerId", !.greeted = TRUE]
<1>1. a.at = "Handshake" /\ wire[e] # <<>> /\ a \in End /\ ~IsIncoming(e)
  BY OutsFacts DEF ReadHandshake, At, CanRead, Typed, IInv
<1>2. /\ a.greeted
      /\ \/ /\ mode[Mine(e)] # "required" /\ a.filter = {}
            /\ wire[e] = <<PlainHs, PlainId>> /\ PlainIn(end[Far(e)], wire[Far(e)])
         \/ /\ a.filter = Both
            /\ wire[e] = <<CipherHs, CipherId>> /\ CipherIn(end[Far(e)], wire[Far(e)])
  BY <1>1 DEF TalkAt, Talk, Begun, PlainOut, Keys, New, Offer, CipherOut, Over
<1>3. ~Refused(e) /\ IsName(e, x)
  BY <1>2, PartFacts DEF Refused, IsName, Both
<1>4. GoOn(e, r, 1, <<>>)
  BY <1>1, <1>2, <1>3 DEF ReadHandshake, End
<1>5. r.at = "PeerId" /\ r.filter = a.filter /\ r.heard /\ r.greeted
  BY <1>1 DEF End
<1>. HIDE DEF r
<1>6. /\ end'[e] = r
      /\ \/ /\ mode[Mine(e)] # "required" /\ r.filter = {}
            /\ wire'[e] = <<PlainId>> /\ PlainIn(end'[Far(e)], wire'[Far(e)])
         \/ /\ r.filter = Both
            /\ wire'[e] = <<CipherId>> /\ CipherIn(end'[Far(e)], wire'[Far(e)])
  <2>1. /\ end'[e] = r /\ wire'[e] = SubSeq(wire[e], 2, Len(wire[e]))
        /\ PlainIn(end[Far(e)], wire[Far(e)]) => PlainIn(end'[Far(e)], wire'[Far(e)])
        /\ CipherIn(end[Far(e)], wire[Far(e)]) => CipherIn(end'[Far(e)], wire'[Far(e)])
    BY <1>1, <1>4, ReadsOn
  <2>. QED  BY <1>2, <1>5, <2>1, Drop2
<1>. QED  BY <1>4, <1>5, <1>6 DEF GoesOn, TalkNext, Talk, Awaiting, PlainOut, CipherOut

\* The end that began is done, whether its client wants another peer or not.
LEMMA OutDoneTalks ==
  ASSUME Typed, IsWire, NEW e \in Outs, TalkAt(e), ReadPeerId(e)
  PROVE  IsDone(e, TRUE) /\ TalkNext(e) /\ end[Far(e)].at # "none"
<1>1. end[e].at = "PeerId" /\ end[e] \in End /\ e \in Ends /\ HandshakeDone(e, end[e], 1, TRUE)
  BY OutsFacts DEF ReadPeerId, At, Typed, IInv
<1>2. \/ mode[Mine(e)] # "required" /\ PlainIn(end[Far(e)], wire[Far(e)])
      \/ CipherIn(end[Far(e)], wire[Far(e)])
  BY <1>1 DEF TalkAt, Talk, Begun, PlainOut, Keys, New, Offer, CipherOut, Over
<1>3. end[Far(e)].at # "none"
  BY <1>2 DEF PlainIn, CipherIn, Over
<1>4. Over(end'[e]) /\ end'[Far(e)] = end[Far(e)]
      /\ (wire'[Far(e)] = wire[Far(e)] \/ end[Far(e)].at = "closed")
  BY <1>1, <1>3, DoneEffect, OutsFacts DEF Over
<1>. QED  BY <1>1, <1>2, <1>3, <1>4 DEF IsDone, TalkNext, Talk, PlainOut, PlainIn, CipherOut, CipherIn, Over

\* Whatever the end that began reads, the connection is still in one of the phases.
LEMMA OutReads ==
  ASSUME Typed, IsWire, NEW e \in Outs, TalkAt(e), Reads(e)
  PROVE  /\ TalkNext(e) /\ Handshaking(e)
         /\ GoesOn(e) \/ (IsDone(e, TRUE) /\ end[Far(e)].at # "none")
<1>1. end[e].at \notin {"Ya", "PadA", "CryptoProvide", "PayloadStream"}
  BY DEF TalkAt, Talk, Begun, PlainOut, Keys, New, Offer, CipherOut, Over
<1>2. ~ReadYa(e) /\ ~ReadPadA(e) /\ ~ReadCryptoProvide(e) /\ ~ReadPayloadStream(e)
  BY <1>1 DEF ReadYa, ReadPadA, ReadCryptoProvide, ReadPayloadStream, At
<1>3. Handshaking(e)
  BY DEF Handshaking, Awaiting, Reads, At, ReadHandshake, ReadPeerId, ReadYa, ReadPadA, ReadCryptoProvide,
         ReadPayloadStream, ReadYb, ReadVc, ReadCryptoSelect
<1>. QED
  BY <1>2, <1>3, ReadYbTalks, ReadVcTalks, ReadCryptoSelectTalks, ReadAnswerTalks, OutDoneTalks DEF Reads

\* The end that was connected to reads, and sends.
LEMMA ReadsIn ==
  ASSUME Typed, IsWire, NEW e \in Outs, end[Far(e)].at # "closed", end[e].at # "closed",
         NEW r, NEW n, NEW sent, GoOn(Far(e), r, n, sent)
  PROVE  /\ end'[Far(e)] = r /\ end'[e] = end[e]
         /\ wire'[Far(e)] = SubSeq(wire[Far(e)], n + 1, Len(wire[Far(e)]))
         /\ wire'[e] = wire[e] \o sent
<1>1. Far(e) \in Ends /\ Far(Far(e)) = e
  BY OutsFacts
<1>2. end[Far(Far(e))].at # "closed"
  BY <1>1
<1>3. /\ end'[Far(e)] = r /\ end'[Far(Far(e))] = end[Far(Far(e))]
      /\ wire'[Far(e)] = SubSeq(wire[Far(e)], n + 1, Len(wire[Far(e)]))
      /\ wire'[Far(Far(e))] = wire[Far(Far(e))] \o sent
  BY <1>1, <1>2, GoOnHere
<1>. QED  BY <1>1, <1>3

\* The end that was connected to reads a handshake, the keys or a plain one.
LEMMA ReadFirstTalks ==
  ASSUME Typed, IsWire, NEW e \in Outs, TalkAt(e), ReadHandshake(Far(e))
  PROVE  /\ TalkNext(e) /\ end[e].at # "none"
         /\ GoesOn(Far(e)) \/ IsDone(Far(e), FALSE)
<1>. DEFINE f == Far(e)
            b == end[f]
            d == mode[Mine(f)]
            x == Head(wire[f])
            r == [end[f] EXCEPT !.heard = TRUE]
            ya == [r EXCEPT !.at = "Ya"]
            pid == [r EXCEPT !.at = "PeerId", !.greeted = TRUE]
<1>1. /\ b.at = "Handshake" /\ wire[f] # <<>> /\ b \in End /\ r \in End
      /\ f \in Ends /\ IsIncoming(f) /\ e \in Ends
  BY OutsFacts DEF ReadHandshake, At, CanRead, Typed, IInv, End
<1>2. /\ b = New("Handshake") /\ wire[e] = <<>> /\ end[e].at \notin {"none", "closed"}
      /\ \/ /\ mode[Mine(e)] # "required" /\ (d = "required" => mode[Mine(e)] \in {"clear", "foreign"})
            /\ wire[f] = <<PlainHs, PlainId>>
            /\ end[e].at = "Handshake" /\ end[e].filter = {} /\ end[e].greeted
         \/ wire[f] = <<Key>> /\ mode[Mine(e)] \in {"required", "preferred"} /\ end[e] = New("Yb")
  BY <1>1 DEF TalkAt, Talk, Begun, PlainIn, Keys, New, Offer, CipherIn, Over
<1>3. r.at = "Handshake" /\ r.filter = {} /\ ~r.greeted /\ b.filter = {}
  BY <1>1, <1>2 DEF New, End
<1>4. end[f].at # "closed" /\ end[e].at # "closed"
  BY <1>1, <1>2
<1>5. ASSUME HandshakeDone(f, r, 1, FALSE)
      PROVE  /\ end'[f].at = "closed" /\ end'[e] = end[e] /\ wire'[e] = wire[e]
             /\ IsDone(f, FALSE)
  <2>1. Far(f) = e /\ end[Far(f)].at # "none" /\ e # f
    BY <1>2, OutsFacts
  <2>. QED  BY <1>1, <1>2, <1>5, <2>1, DoneEffect DEF IsDone
<1>6. CASE wire[f] = <<PlainHs, PlainId>> /\ d = "required"
  <2>1. IsPlain(x) /\ Refused(f)
    BY <1>6, PartFacts DEF Refused
  <2>2. HandshakeDone(f, r, 1, FALSE)
    BY <2>1 DEF ReadHandshake
  <2>3. wire[f] # <<Key>>
    BY <1>6
  <2>4. Begun(end'[e], end'[f], wire'[e], wire'[f], mode[Mine(e)], d)
    BY <1>2, <1>5, <1>6, <2>2, <2>3 DEF Begun
  <2>. QED  BY <1>2, <1>5, <2>2, <2>4 DEF TalkNext, Talk
<1>7. CASE wire[f] = <<PlainHs, PlainId>> /\ d # "required"
  <2>1. x = PlainHs /\ IsPlain(x) /\ ~Refused(f) /\ IsName(f, x) /\ wire[f] # <<Key>>
    BY <1>3, <1>7, PartFacts DEF Refused, IsName
  <2>2. GoOn(f, pid, 1, <<PlainHs, PlainId>>)
    BY <1>3, <2>1, PartFacts DEF ReadHandshake
  <2>3. pid.at = "PeerId" /\ pid.filter = {}
    BY <1>1, <1>3 DEF End
  <2>. HIDE DEF pid
  <2>4. /\ end'[f] = pid /\ end'[e] = end[e]
        /\ wire'[f] = SubSeq(wire[f], 1 + 1, Len(wire[f])) /\ wire'[e] = wire[e] \o <<PlainHs, PlainId>>
    BY <1>4, <2>2, ReadsIn
  <2>5. wire'[f] = <<PlainId>> /\ wire'[e] = <<PlainHs, PlainId>>
    BY <1>2, <1>7, <2>4, Drop2, Add2
  <2>6. PlainOut(end'[e], wire'[e]) /\ PlainIn(end'[f], wire'[f])
    BY <1>2, <2>1, <2>3, <2>4, <2>5 DEF PlainOut, PlainIn
  <2>7. GoesOn(f)
    BY <2>2, <2>3 DEF GoesOn, Awaiting
  <2>. QED  BY <1>2, <2>1, <2>6, <2>7 DEF TalkNext, Talk
<1>8. CASE wire[f] = <<Key>>
  <2>1. x = Key /\ ~IsPlain(x) /\ ~Refused(f)
    BY <1>8, PartFacts DEF Refused
  <2>2. mode[Mine(e)] \in {"required", "preferred"} /\ end[e] = New("Yb")
    BY <1>2, <1>8
  <2>3. CASE d = "foreign"
    <3>1. HandshakeDone(f, r, 1, FALSE)
      BY <1>1, <2>1, <2>3 DEF ReadHandshake
    <3>2. Keys(end'[e], end'[f], wire'[e], wire'[f], mode[Mine(e)], d)
      BY <1>2, <1>5, <2>2, <2>3, <3>1 DEF Keys
    <3>. QED  BY <1>2, <1>5, <3>1, <3>2 DEF TalkNext, Talk
  <2>4. CASE d # "foreign"
    <3>1. GoOn(f, ya, 0, <<>>)
      BY <1>1, <2>1, <2>4 DEF ReadHandshake
    <3>2. ya.at = "Ya"
      BY <1>1 DEF End
    <3>. HIDE DEF ya
    <3>3. /\ end'[f] = ya /\ end'[e] = end[e]
          /\ wire'[f] = SubSeq(wire[f], 0 + 1, Len(wire[f])) /\ wire'[e] = wire[e] \o <<>>
      BY <1>4, <3>1, ReadsIn
    <3>4. wire'[f] = <<Key>> /\ wire'[e] = <<>>
      BY <1>2, <1>8, <3>3, Whole1, Nothing
    <3>5. Keys(end'[e], end'[f], wire'[e], wire'[f], mode[Mine(e)], d)
      BY <2>2, <2>4, <3>2, <3>3, <3>4 DEF Keys
    <3>6. GoesOn(f)
      BY <3>1, <3>2 DEF GoesOn, Awaiting
    <3>. QED  BY <1>2, <3>5, <3>6 DEF TalkNext, Talk
  <2>. QED  BY <2>3, <2>4
<1>. QED  BY <1>2, <1>6, <1>7, <1>8

\* It reads the key of the other, and sends its own.
LEMMA ReadYaTalks ==
  ASSUME Typed, IsWire, NEW e \in Outs, TalkAt(e), ReadYa(Far(e))
  PROVE  TalkNext(e) /\ end[e].at # "none" /\ GoesOn(Far(e))
<1>. DEFINE f == Far(e)
            r == [end[f] EXCEPT !.at = "PadA"]
<1>1. end[f].at = "Ya" /\ end[f] \in End /\ GoOn(f, r, 1, <<Key>>)
  BY OutsFacts DEF ReadYa, At, Typed, IInv
<1>2. /\ mode[Mine(e)] \in {"required", "preferred"} /\ end[e] = New("Yb") /\ mode[Mine(f)] # "foreign"
      /\ wire[e] = <<>> /\ wire[f] = <<Key>>
  BY <1>1 DEF TalkAt, Talk, Begun, PlainIn, Keys, New, Offer, CipherIn, Over
<1>3. end[e].at = "Yb" /\ r.at = "PadA"
  BY <1>1, <1>2 DEF New, End
<1>. HIDE DEF r
<1>4. /\ end'[f] = r /\ end'[e] = end[e]
      /\ wire'[f] = SubSeq(wire[f], 1 + 1, Len(wire[f])) /\ wire'[e] = wire[e] \o <<Key>>
  BY <1>1, <1>3, ReadsIn
<1>5. wire'[f] = <<>> /\ wire'[e] = <<Key>>
  BY <1>2, <1>4, Drop1, Add1
<1>6. Keys(end'[e], end'[f], wire'[e], wire'[f], mode[Mine(e)], mode[Mine(f)])
  BY <1>2, <1>3, <1>4, <1>5 DEF Keys
<1>. QED  BY <1>1, <1>3, <1>6 DEF TalkNext, Talk, GoesOn, Awaiting

\* It finds the end of the pad.
LEMMA ReadPadATalks ==
  ASSUME Typed, IsWire, NEW e \in Outs, TalkAt(e), ReadPadA(Far(e))
  PROVE  TalkNext(e) /\ end[e].at # "none" /\ GoesOn(Far(e))
<1>. DEFINE f == Far(e)
            r == [end[f] EXCEPT !.at = "CryptoProvide"]
<1>1. end[f].at = "PadA" /\ end[f] \in End /\ wire[f] # <<>>
  BY OutsFacts DEF ReadPadA, At, CanRead, Typed, IInv
<1>2. /\ end[e].at = "Vc" /\ end[e].filter = {"enc"} /\ end[e].heard /\ end[e].greeted
      /\ mode[Mine(f)] # "foreign"
      /\ wire[e] = <<>> /\ wire[f] = <<Req1, Provide, CipherHs, CipherId>>
  BY <1>1 DEF TalkAt, Talk, Begun, PlainIn, Keys, New, Offer, CipherIn, Over
<1>3. GoOn(f, r, 1, <<>>)
  <2>1. Head(wire[f]).k = "req1"
    BY <1>2, PartFacts
  <2>. QED  BY <2>1 DEF ReadPadA
<1>4. r.at = "CryptoProvide"
  BY <1>1 DEF End
<1>. HIDE DEF r
<1>5. /\ end'[f] = r /\ end'[e] = end[e]
      /\ wire'[f] = SubSeq(wire[f], 1 + 1, Len(wire[f])) /\ wire'[e] = wire[e] \o <<>>
  <2>1. end[f].at # "closed" /\ end[e].at # "closed"
    BY <1>1, <1>2
  <2>. QED  BY <1>3, <2>1, ReadsIn
<1>6. wire'[f] = <<Provide, CipherHs, CipherId>> /\ wire'[e] = <<>>
  BY <1>2, <1>5, Drop4, Nothing
<1>7. Offer(end'[e], end'[f], wire'[e], wire'[f], mode[Mine(f)])
  BY <1>2, <1>4, <1>5, <1>6 DEF Offer
<1>. QED  BY <1>2, <1>3, <1>4, <1>7 DEF TalkNext, Talk, GoesOn, Awaiting

\* It reads what is offered, chooses and sends its handshake.
LEMMA ReadCryptoProvideTalks ==
  ASSUME Typed, IsWire, NEW e \in Outs, TalkAt(e), ReadCryptoProvide(Far(e))
  PROVE  TalkNext(e) /\ end[e].at # "none" /\ GoesOn(Far(e))
<1>. DEFINE f == Far(e)
            r == [end[f] EXCEPT !.at = "PayloadStream", !.filter = {"enc", "dec"}, !.greeted = TRUE]
            select == CryptoSelect(mode[Mine(f)], Head(wire[f]).crypto)
<1>1. end[f].at = "CryptoProvide" /\ end[f] \in End /\ f \in Ends
  BY OutsFacts DEF ReadCryptoProvide, At, Typed, IInv
<1>2. /\ end[e].at = "Vc" /\ end[e].filter = {"enc"} /\ end[e].heard /\ end[e].greeted
      /\ mode[Mine(f)] # "foreign"
      /\ wire[e] = <<>> /\ wire[f] = <<Provide, CipherHs, CipherId>>
  BY <1>1 DEF TalkAt, Talk, Begun, PlainIn, Keys, New, Offer, CipherIn, Over
<1>3. select = {"crypto"}
  <2>1. mode[Mine(f)] \in {"required", "preferred", "clear"}
    BY <1>1, <1>2, EndFacts DEF Typed, TypeOK, Modes
  <2>2. Head(wire[f]).crypto = {"crypto"}
    BY <1>2, PartFacts
  <2>. QED  BY <2>1, <2>2, ChoicesMade
<1>4. GoOn(f, r, 1, <<Verify, Select, CipherHs, CipherId>>)
  <2>1. r.filter = Both
    BY <1>1 DEF End, Both
  <2>2. GoOn(f, r, 1, <<Verify, Select>> \o Hello(r.filter))
    BY <1>3 DEF ReadCryptoProvide, Verify, Select
  <2>3. <<Verify, Select>> \o <<CipherHs, CipherId>> = <<Verify, Select, CipherHs, CipherId>>
    BY Add4
  <2>4. <<Verify, Select>> \o Hello(r.filter) = <<Verify, Select, CipherHs, CipherId>>
    BY <2>1, <2>3, PartFacts
  <2>. QED  BY <2>2, <2>4
<1>5. r.at = "PayloadStream" /\ r.filter = Both
  BY <1>1 DEF End, Both
<1>. HIDE DEF r
<1>6. /\ end'[f] = r /\ end'[e] = end[e]
      /\ wire'[f] = SubSeq(wire[f], 1 + 1, Len(wire[f]))
      /\ wire'[e] = wire[e] \o <<Verify, Select, CipherHs, CipherId>>
  <2>1. end[f].at # "closed" /\ end[e].at # "closed"
    BY <1>1, <1>2
  <2>. QED  BY <1>4, <2>1, ReadsIn
<1>7. wire'[f] = <<CipherHs, CipherId>> /\ wire'[e] = <<Verify, Select, CipherHs, CipherId>>
  BY <1>2, <1>6, Drop3, Add4
<1>8. CipherOut(end'[e], wire'[e]) /\ CipherIn(end'[f], wire'[f])
  BY <1>2, <1>5, <1>6, <1>7 DEF CipherOut, CipherIn
<1>. QED  BY <1>2, <1>4, <1>5, <1>8 DEF TalkNext, Talk, GoesOn, Awaiting

\* The end that was connected to is done.
LEMMA InDoneTalks ==
  ASSUME Typed, IsWire, NEW e \in Outs, TalkAt(e), ReadPeerId(Far(e)) \/ ReadPayloadStream(Far(e))
  PROVE  TalkNext(e) /\ end[e].at # "none" /\ IsDone(Far(e), TRUE)
<1>. DEFINE f == Far(e)
<1>1. /\ end[f].at \in {"PeerId", "PayloadStream"} /\ end[f] \in End
      /\ f \in Ends /\ e \in Ends /\ Far(f) = e /\ e # f
  BY OutsFacts DEF ReadPeerId, ReadPayloadStream, At, Typed, IInv
<1>2. \/ end[f].at = "PeerId" /\ mode[Mine(e)] # "required" /\ PlainOut(end[e], wire[e])
      \/ /\ end[f].at = "PayloadStream" /\ CipherOut(end[e], wire[e])
         /\ wire[f] = <<CipherHs, CipherId>> /\ end[f].filter = Both
  BY <1>1 DEF TalkAt, Talk, Begun, PlainIn, Keys, New, Offer, CipherIn, Over
<1>3. end[e].at # "none"
  BY <1>2 DEF PlainOut, CipherOut, Over
<1>4. \E n : HandshakeDone(f, end[f], n, TRUE)
  <2>1. CASE ReadPeerId(f)
    BY <2>1 DEF ReadPeerId
  <2>2. CASE ReadPayloadStream(f)
    <3>1. end[f].at = "PayloadStream"
      BY <2>2 DEF ReadPayloadStream, At
    <3>2. IsName(f, Head(wire[f])) = TRUE
      BY <1>2, <3>1, PartFacts DEF IsName, Both
    <3>. QED  BY <2>2, <3>2 DEF ReadPayloadStream
  <2>. QED  BY <2>1, <2>2
<1>5. Over(end'[f]) /\ end'[e] = end[e] /\ (wire'[e] = wire[e] \/ end[e].at = "closed")
  BY <1>1, <1>3, <1>4, DoneEffect DEF Over
<1>. QED
  BY <1>1, <1>2, <1>3, <1>4, <1>5
     DEF IsDone, TalkNext, Talk, PlainOut, PlainIn, CipherOut, CipherIn, Over

\* Whatever the end that was connected to reads, the connection is still in one of the
\* phases.
LEMMA InReads ==
  ASSUME Typed, IsWire, NEW e \in Outs, TalkAt(e), Reads(Far(e))
  PROVE  /\ TalkNext(e) /\ Handshaking(Far(e)) /\ end[e].at # "none"
         /\ GoesOn(Far(e)) \/ IsDone(Far(e), TRUE) \/ IsDone(Far(e), FALSE)
<1>. DEFINE f == Far(e)
<1>1. f \in Ends /\ IsIncoming(f)
  BY OutsFacts
<1>2. end[f].at \notin OnlyOutgoing
  BY <1>1 DEF Typed, TypeOK, OnlyOutgoing
<1>3. ~ReadYb(f) /\ ~ReadVc(f) /\ ~ReadCryptoSelect(f)
  BY <1>2 DEF ReadYb, ReadVc, ReadCryptoSelect, At, OnlyOutgoing
<1>4. Handshaking(f)
  BY DEF Handshaking, Awaiting, Reads, At, ReadHandshake, ReadPeerId, ReadYa, ReadPadA, ReadCryptoProvide,
         ReadPayloadStream, ReadYb, ReadVc, ReadCryptoSelect
<1>. QED
  BY <1>3, <1>4, ReadFirstTalks, ReadYaTalks, ReadPadATalks, ReadCryptoProvideTalks, InDoneTalks DEF Reads

-----------------------------------------------------------------------------
(* What holds while nothing has failed *)

\* No fault, a socket left, and nobody requires encryption of one who knows none.
Quiet ==
  /\ faults = 0 /\ Len(opener) < MaxSockets
  /\ \A c \in Clients : mode[c] = "required" => mode[Other(c)] # "foreign"

\* While nothing has failed: each connection is in a phase, they cross in order, and
\* who gave a peer up had a reason.
Settled ==
  /\ IsWire /\ broken = {}
  /\ \A x \in Ends : Socket(x) \notin DOMAIN opener => wire[x] = <<>>
  /\ \A e \in Outs : TalkAt(e)
  /\ Orderly(Outs, KindOf)
  /\ \A c \in Clients : unreach[c] => ~Fits(c)

\* A connection on which nothing happens.
LEMMA TalkFrame ==
  ASSUME NEW a, NEW b, NEW u, NEW v, NEW c, NEW d, NEW p, NEW q, Talk(a, b, u, v, c, d),
         p = u \/ a.at = "closed", q = v \/ b.at = "closed"
  PROVE  Talk(a, b, p, q, c, d)
<1>1. CASE a.at = "closed"
  <2>1. PlainOut(a, p) /\ CipherOut(a, p) /\ ((c # "required" /\ PlainIn(b, v)) \/ CipherIn(b, v))
    BY <1>1 DEF Talk, Begun, Keys, New, Offer, PlainOut, CipherOut, Over
  <2>2. (PlainIn(b, v) => PlainIn(b, q)) /\ (CipherIn(b, v) => CipherIn(b, q))
    BY DEF PlainIn, CipherIn, Over
  <2>. QED  BY <2>1, <2>2 DEF Talk
<1>2. CASE p = u
  <2>1. /\ PlainIn(b, v) => PlainIn(b, q)
        /\ CipherIn(b, v) => CipherIn(b, q)
    BY DEF PlainIn, CipherIn, Over
  <2>2. /\ Begun(a, b, u, v, c, d) => Begun(a, b, u, q, c, d)
        /\ Keys(a, b, u, v, c, d) => Keys(a, b, u, q, c, d)
        /\ Offer(a, b, u, v, d) => Offer(a, b, u, q, d)
    BY DEF Begun, Keys, Offer, New
  <2>. QED  BY <1>2, <2>1, <2>2 DEF Talk
<1>. QED  BY <1>1, <1>2

\* A step of one connection keeps the others.
LEMMA StepSettles ==
  ASSUME Typed, Settled, NEW e \in Outs, UNCHANGED <<mode, opener, broken>>, IsWire',
         \A y \in Ends : y \notin {e, Far(e)} =>
           end'[y] = end[y] /\ (wire'[y] = wire[y] \/ end[y].at = "closed"),
         TalkNext(e), Orderly(Outs, KindOf'), \A c \in Clients : unreach'[c] => ~Fits(c)
  PROVE  Settled'
<1>1. Outs' = Outs
  BY DEF Outs
<1>2. ASSUME NEW g \in Outs PROVE TalkNext(g)
  <2>1. CASE g = e
    BY <2>1
  <2>2. CASE g # e
    <3>1. g \in Ends /\ Far(g) \in Ends /\ g \notin {e, Far(e)} /\ Far(g) \notin {e, Far(e)}
      BY <2>2, OutsFacts
    <3>2. /\ end'[g] = end[g] /\ (wire'[g] = wire[g] \/ end[g].at = "closed")
          /\ end'[Far(g)] = end[Far(g)] /\ (wire'[Far(g)] = wire[Far(g)] \/ end[Far(g)].at = "closed")
      BY <3>1
    <3>3. TalkAt(g)
      BY DEF Settled
    <3>. QED  BY <3>2, <3>3, TalkFrame DEF TalkAt, TalkNext
  <2>. QED  BY <2>1, <2>2
<1>3. \A g \in Outs' : TalkAt(g)'
  BY <1>1, <1>2 DEF TalkAt, TalkNext
<1>4. \A x \in Ends : Socket(x) \notin DOMAIN opener' => wire'[x] = <<>>
  <2>. SUFFICES ASSUME NEW x \in Ends, Socket(x) \notin DOMAIN opener PROVE wire'[x] = <<>>
    OBVIOUS
  <2>1. Socket(e) \in DOMAIN opener /\ Socket(Far(e)) = Socket(e) /\ x \notin {e, Far(e)}
    BY EndFacts DEF Outs
  <2>2. end[x].at = "none"
    BY DEF Typed, Fresh
  <2>. QED  BY <2>1, <2>2 DEF Settled
<1>5. \A c \in Clients : unreach'[c] => ~Fits(c)'
  BY DEF Fits
<1>6. Orderly(Outs', KindOf')
  BY <1>1
<1>. QED  BY <1>3, <1>4, <1>5, <1>6 DEF Settled

\* What the kind of an end says of it.
LEMMA KindFacts ==
  ASSUME Typed, NEW x \in Ends
  PROVE  /\ KindOf[x] = "busy" <=> Handshaking(x)
         /\ \A k \in {"none", "peer", "closed"} : KindOf[x] = k <=> end[x].at = k
<1>1. KindOf[x] = IF Handshaking(x) THEN "busy" ELSE end[x].at
  BY DEF KindOf
<1>2. end[x].at \in Awaiting \cup {"none", "closed", "peer"}
  BY DEF Typed, TypeOK
<1>3. "busy" \notin Awaiting /\ "none" \notin Awaiting /\ "peer" \notin Awaiting /\ "closed" \notin Awaiting
  BY DEF Awaiting
<1>. QED  BY <1>1, <1>2, <1>3 DEF Handshaking

\* What a step does to the kinds when one end changes.
LEMMA KindChange ==
  ASSUME NEW x \in Ends, \A y \in Ends : y # x => end'[y] = end[y]
  PROVE  /\ end'[x].at \in Awaiting /\ Handshaking(x) => KindOf' = KindOf
         /\ \A k \in {"peer", "closed"} : end'[x].at = k => KindOf' = [KindOf EXCEPT ![x] = k]
         /\ end'[x].at \in Awaiting => KindOf' = [KindOf EXCEPT ![x] = "busy"]
<1>1. KindOf' = [y \in Ends |-> IF end'[y].at \in Awaiting THEN "busy" ELSE end'[y].at]
  BY DEF KindOf, Handshaking
<1>2. KindOf = [y \in Ends |-> IF end[y].at \in Awaiting THEN "busy" ELSE end[y].at]
  BY DEF KindOf, Handshaking
<1>3. ASSUME NEW k, k = IF end'[x].at \in Awaiting THEN "busy" ELSE end'[x].at
      PROVE  KindOf' = [KindOf EXCEPT ![x] = k]
  BY <1>1, <1>2, <1>3
<1>4. end'[x].at \in Awaiting /\ Handshaking(x) => KindOf' = KindOf
  BY <1>1, <1>2 DEF Handshaking
<1>5. "peer" \notin Awaiting /\ "closed" \notin Awaiting
  BY DEF Awaiting
<1>. QED  BY <1>3, <1>4, <1>5

\* A handshake goes on.
LEMMA GoesOnSettles ==
  ASSUME Typed, Settled, NEW e \in Outs, NEW x \in {e, Far(e)}, Handshaking(x), GoesOn(x), TalkNext(e)
  PROVE  Settled'
<1>1. PICK r, n, sent : r.at \in Awaiting /\ GoOn(x, r, n, sent)
  BY DEF GoesOn
<1>2. x \in Ends /\ Far(x) \in {e, Far(e)} /\ IsWire /\ end[x].at # "closed"
  BY OutsFacts DEF Settled, Handshaking, Awaiting
<1>3. /\ end'[x] = r /\ end'[Far(x)] = end[Far(x)] /\ IsWire'
      /\ \A y \in Ends : y \notin {x, Far(x)} =>
           end'[y] = end[y] /\ (wire'[y] = wire[y] \/ end[y].at = "closed")
  BY <1>1, <1>2, GoOnEffect
<1>4. {x, Far(x)} = {e, Far(e)}
  BY OutsFacts
<1>5. UNCHANGED <<mode, opener, broken, unreach>>
  BY <1>1 DEF GoOn
<1>6. KindOf' = KindOf
  BY <1>1, <1>2, <1>3, KindChange
<1>. QED  BY <1>3, <1>4, <1>5, <1>6, StepSettles DEF Settled

\* A handshake is done.  Who gives up had been begun with, had no other end left, or
\* gives up nothing.
LEMMA DoneSettles ==
  ASSUME Typed, Settled, NEW e \in Outs, NEW x \in {e, Far(e)}, Handshaking(x),
         end[Far(x)].at # "none", NEW ok \in BOOLEAN, IsDone(x, ok), TalkNext(e),
         ok \/ x = Far(e) \/ end[Far(x)].at = "closed",
         ok \/ x = Far(e) \/ ~Fits(Mine(e))
  PROVE  Settled'
<1>1. PICK r \in End : \E n : HandshakeDone(x, r, n, ok)
  BY DEF IsDone
<1>2. x \in Ends /\ IsWire /\ KindOf[x] = "busy" /\ Mine(x) \in Clients
  BY OutsFacts, KindFacts, EndFacts DEF Settled
<1>3. /\ end'[x].at = IF ok /\ ~Connected(Mine(x)) THEN "peer" ELSE "closed"
      /\ \A y \in Ends : y # x =>
           end'[y] = end[y] /\ (wire'[y] = wire[y] \/ end[y].at = "closed")
      /\ IsWire'
  BY <1>1, <1>2, DoneEffect
<1>4. UNCHANGED <<mode, opener, broken>>
  BY <1>1 DEF HandshakeDone
<1>5. Orderly(Outs, KindOf')
  <2>1. CASE ok /\ ~Connected(Mine(x))
    <3>1. KindOf' = [KindOf EXCEPT ![x] = "peer"]
      BY <1>2, <1>3, <2>1, KindChange
    <3>2. \A y \in Ends : Mine(y) = Mine(x) => KindOf[y] # "peer"
      BY <2>1, KindFacts DEF Connected
    <3>. QED  BY <1>2, <3>1, <3>2, PeerOrderly DEF Settled
  <2>2. CASE ~(ok /\ ~Connected(Mine(x)))
    <3>1. KindOf' = [KindOf EXCEPT ![x] = "closed"]
      BY <1>2, <1>3, <2>2, KindChange
    <3>2. \/ x \notin Outs
          \/ KindOf[Far(x)] = "closed"
          \/ x \in Outs /\ \E y \in Ends : Mine(y) = Mine(x) /\ KindOf[y] = "peer"
      BY <2>2, OutsFacts, KindFacts DEF Connected
    <3>. QED  BY <1>2, <3>1, <3>2, ClosedOrderly DEF Settled
  <2>. QED  BY <2>1, <2>2
<1>6. \A c \in Clients : unreach'[c] => ~Fits(c)
  <2>1. CASE x = Far(e)
    BY <1>1, <2>1, OutsFacts DEF HandshakeDone, Settled
  <2>2. CASE x = e /\ (ok \/ ~Fits(Mine(e)))
    <3>1. unreach' = [unreach EXCEPT ![Mine(e)] = ~ok /\ (@ \/ ~r.heard)]
      BY <1>1, <2>2, OutsFacts DEF HandshakeDone
    <3>2. ok => ~unreach'[Mine(e)]
      BY <1>2, <2>2, <3>1 DEF Typed, TypeOK
    <3>3. \A c \in Clients : c # Mine(e) => unreach'[c] = unreach[c]
      BY <3>1 DEF Typed, TypeOK
    <3>. QED  BY <2>2, <3>2, <3>3 DEF Settled
  <2>. QED  BY <2>1, <2>2
<1>. QED  BY <1>3, <1>4, <1>5, <1>6, OutsFacts, StepSettles

\* A read leaves everything in order.
LEMMA ReadsSettle ==
  ASSUME Typed, Settled, NEW x \in Ends, Reads(x)
  PROVE  Settled'
<1>1. end[x].at # "none"
  BY DEF Reads, At, ReadHandshake, ReadPeerId, ReadYa, ReadPadA, ReadCryptoProvide,
         ReadPayloadStream, ReadYb, ReadVc, ReadCryptoSelect
<1>2. CASE x \in Outs
  <2>1. TalkAt(x) /\ IsWire
    BY <1>2 DEF Settled
  <2>2. TalkNext(x) /\ Handshaking(x) /\ (GoesOn(x) \/ (IsDone(x, TRUE) /\ end[Far(x)].at # "none"))
    BY <1>2, <2>1, OutReads
  <2>. QED  BY <1>2, <2>2, GoesOnSettles, DoneSettles
<1>3. CASE Far(x) \in Outs
  <2>1. TalkAt(Far(x)) /\ IsWire /\ Far(Far(x)) = x
    BY <1>3, FarFacts DEF Settled
  <2>2. /\ TalkNext(Far(x)) /\ Handshaking(x) /\ end[Far(x)].at # "none"
        /\ GoesOn(x) \/ IsDone(x, TRUE) \/ IsDone(x, FALSE)
    BY <1>3, <2>1, InReads
  <2>. QED  BY <1>3, <2>1, <2>2, GoesOnSettles, DoneSettles
<1>. QED  BY <1>1, <1>2, <1>3, OutsFacts

\* A connection on which nobody shakes hands any more.
LEMMA OverTalks ==
  ASSUME NEW a, NEW b, NEW u, NEW v, NEW c, NEW d, Over(a), Over(b)
  PROVE  Talk(a, b, u, v, c, d)
BY DEF Talk, CipherOut, CipherIn

\* What an end is to notice, when its other end is closed and it has read everything.
LEMMA NoticesClosed ==
  ASSUME Typed, Settled, NEW e \in Outs, end[Far(e)].at = "closed", Handshaking(e), ~CanRead(e)
  PROVE  \/ end[e].at = "Handshake" /\ ~Fits(Mine(e))
         \/ /\ end[e] = New("Yb") /\ wire[e] = <<>>
            /\ mode[Mine(e)] \in {"required", "preferred"} /\ mode[Mine(Far(e))] = "foreign"
<1>1. TalkAt(e) /\ end[e].at \notin {"closed", "peer"}
  BY DEF Settled, Handshaking, Awaiting
<1>2. ~PlainOut(end[e], wire[e])
  <2>. SUFFICES ASSUME PlainOut(end[e], wire[e]) PROVE FALSE
    OBVIOUS
  <2>1. CASE end[e].at = "Handshake" /\ wire[e] = <<PlainHs, PlainId>>
    <3>1. Len(wire[e]) > 1 /\ wire[e] # <<>>
      BY <2>1
    <3>. QED  BY <2>1, <3>1 DEF CanRead
  <2>2. CASE end[e].at = "PeerId" /\ wire[e] = <<PlainId>>
    <3>1. wire[e] # <<>>
      BY <2>2
    <3>. QED  BY <2>2, <3>1 DEF CanRead
  <2>. QED  BY <1>1, <2>1, <2>2 DEF PlainOut, Over
<1>3. ~CipherOut(end[e], wire[e])
  <2>. SUFFICES ASSUME CipherOut(end[e], wire[e]) PROVE FALSE
    OBVIOUS
  <2>1. CASE end[e].at = "Vc" /\ wire[e] = <<Verify, Select, CipherHs, CipherId>>
    <3>1. wire[e] # <<>> /\ Head(wire[e]) = Verify
      BY <2>1
    <3>. QED  BY <2>1, <3>1, PartFacts DEF CanRead
  <2>2. CASE end[e].at = "CryptoSelect" /\ wire[e] = <<Select, CipherHs, CipherId>>
    <3>1. wire[e] # <<>>
      BY <2>2
    <3>. QED  BY <2>2, <3>1 DEF CanRead
  <2>3. CASE end[e].at = "Handshake" /\ wire[e] = <<CipherHs, CipherId>>
    <3>1. Len(wire[e]) > 1 /\ wire[e] # <<>>
      BY <2>3
    <3>. QED  BY <2>3, <3>1 DEF CanRead
  <2>4. CASE end[e].at = "PeerId" /\ wire[e] = <<CipherId>>
    <3>1. wire[e] # <<>>
      BY <2>4
    <3>. QED  BY <2>4, <3>1 DEF CanRead
  <2>. QED  BY <1>1, <2>1, <2>2, <2>3, <2>4 DEF CipherOut, Over
<1>4. Mine(Far(e)) = Other(Mine(e))
  BY OutsFacts DEF Far, Mine
<1>5. CASE Begun(end[e], end[Far(e)], wire[e], wire[Far(e)], mode[Mine(e)], mode[Mine(Far(e))])
  <2>1. end[e].at = "Handshake" /\ mode[Mine(e)] \in {"clear", "foreign"} /\ mode[Other(Mine(e))] = "required"
    BY <1>4, <1>5 DEF Begun, New
  <2>. QED  BY <2>1 DEF Fits
<1>6. CASE Keys(end[e], end[Far(e)], wire[e], wire[Far(e)], mode[Mine(e)], mode[Mine(Far(e))])
  BY <1>6 DEF Keys, New
<1>7. ~Offer(end[e], end[Far(e)], wire[e], wire[Far(e)], mode[Mine(Far(e))])
  BY DEF Offer
<1>. QED  BY <1>1, <1>2, <1>3, <1>5, <1>6, <1>7 DEF TalkAt, Talk

\* Nobody waits for the timeout.
LEMMA NotStuck ==
  ASSUME Typed, Settled, NEW x \in Ends, Handshaking(x)
  PROVE  ~Stuck(x)
<1>1. PICK e \in Outs : {x, Far(x)} = {e, Far(e)}
  <2>1. x \in Outs \/ Far(x) \in Outs
    BY OutsFacts DEF Handshaking, Awaiting
  <2>. QED  BY <2>1, FarFacts
<1>2. SUFFICES \E f \in {e, Far(e)} : CanRead(f) \/ CanAccept(f) \/ IsLost(f)
  BY <1>1 DEF Stuck
<1>. DEFINE a == end[e]
            b == end[Far(e)]
            u == wire[e]
            v == wire[Far(e)]
<1>3. TalkAt(e) /\ Far(Far(e)) = e /\ (Handshaking(e) \/ Handshaking(Far(e)))
  BY <1>1, OutsFacts DEF Settled
<1>4. CASE b.at = "closed"
  <2>1. Handshaking(e)
    BY <1>3, <1>4 DEF Handshaking, Awaiting
  <2>. QED  BY <1>4, <2>1 DEF IsLost
<1>5. CASE a.at = "closed"
  <2>1. Handshaking(Far(e))
    BY <1>3, <1>5 DEF Handshaking, Awaiting
  <2>. QED  BY <1>3, <1>5, <2>1 DEF IsLost
<1>6. CASE b.at = "none"
  <2>1. Handshaking(e)
    BY <1>3, <1>6 DEF Handshaking, Awaiting
  <2>. QED  BY <1>3, <1>6, <2>1 DEF CanAccept
<1>7. ASSUME b.at \in {"Handshake", "Ya", "PadA", "PeerId"}, v # <<>>,
             b.at = "Handshake" => Head(v) # Rest, b.at = "Ya" => Head(v).k = "key"
      PROVE  CanRead(Far(e))
  BY <1>7 DEF CanRead, Handshaking, Awaiting
<1>8. ASSUME b.at \in {"CryptoProvide", "PayloadStream"}, v # <<>>, Len(v) > 1
      PROVE  CanRead(Far(e))
  BY <1>8 DEF CanRead
<1>9. ASSUME a.at \in {"Handshake", "Vc", "CryptoSelect", "PeerId", "Yb"}, u # <<>>,
             a.at = "Handshake" => Len(u) > 1, a.at = "Vc" => Head(u).k = "vc"
      PROVE  CanRead(e)
  BY <1>9 DEF CanRead, Handshaking, Awaiting
<1>10. ASSUME b.at \notin {"closed", "none"}, Begun(a, b, u, v, mode[Mine(e)], mode[Mine(Far(e))])
       PROVE  CanRead(Far(e))
  <2>1. b.at = "Handshake" /\ v = <<PlainHs, PlainId>>
    BY <1>10 DEF Begun, New
  <2>2. Head(v) # Rest /\ v # <<>>
    BY <2>1, PartFacts
  <2>. QED  BY <1>7, <2>1, <2>2
<1>11. ASSUME PlainOut(a, u), PlainIn(b, v), a.at # "closed", b.at # "closed"
       PROVE  CanRead(e) \/ CanRead(Far(e))
  <2>1. CASE b.at = "PeerId" /\ v = <<PlainId>>
    <3>1. v # <<>>
      BY <2>1
    <3>. QED  BY <1>7, <2>1, <3>1
  <2>2. CASE Over(b)
    <3>1. Handshaking(e)
      BY <1>3, <2>2 DEF Handshaking, Awaiting, Over
    <3>2. \/ a.at = "Handshake" /\ u = <<PlainHs, PlainId>>
          \/ a.at = "PeerId" /\ u = <<PlainId>>
      BY <1>11, <3>1 DEF PlainOut, Over, Handshaking, Awaiting
    <3>3. <<PlainHs, PlainId>> # <<>> /\ Len(<<PlainHs, PlainId>>) > 1 /\ <<PlainId>> # <<>>
      OBVIOUS
    <3>. QED  BY <1>9, <3>2, <3>3
  <2>. QED  BY <1>11, <2>1, <2>2 DEF PlainIn
<1>12. ASSUME Keys(a, b, u, v, mode[Mine(e)], mode[Mine(Far(e))]), b.at \notin {"closed", "none"}
       PROVE  CanRead(e) \/ CanRead(Far(e))
  <2>1. \/ v = <<Key>> /\ b.at \in {"Handshake", "Ya"}
        \/ u = <<Key>> /\ a.at = "Yb"
    BY <1>12 DEF Keys, New
  <2>2. CASE v = <<Key>> /\ b.at \in {"Handshake", "Ya"}
    <3>1. v # <<>> /\ Head(v).k = "key" /\ Head(v) # Rest
      BY <2>2, PartFacts
    <3>. QED  BY <1>7, <2>2, <3>1
  <2>3. CASE u = <<Key>> /\ a.at = "Yb"
    <3>1. u # <<>>
      BY <2>3
    <3>. QED  BY <1>9, <2>3, <3>1
  <2>. QED  BY <2>1, <2>2, <2>3
<1>13. ASSUME Offer(a, b, u, v, mode[Mine(Far(e))]) PROVE CanRead(Far(e))
  <2>1. CASE b.at = "PadA" /\ v = <<Req1, Provide, CipherHs, CipherId>>
    <3>1. v # <<>>
      BY <2>1
    <3>. QED  BY <1>7, <2>1, <3>1
  <2>2. CASE b.at = "CryptoProvide" /\ v = <<Provide, CipherHs, CipherId>>
    <3>1. v # <<>> /\ Len(v) > 1
      BY <2>2
    <3>. QED  BY <1>8, <2>2, <3>1
  <2>. QED  BY <1>13, <2>1, <2>2 DEF Offer
<1>14. ASSUME CipherOut(a, u), CipherIn(b, v), a.at # "closed", b.at # "closed"
       PROVE  CanRead(e) \/ CanRead(Far(e))
  <2>1. CASE b.at = "PayloadStream" /\ v = <<CipherHs, CipherId>>
    <3>1. v # <<>> /\ Len(v) > 1
      BY <2>1
    <3>. QED  BY <1>8, <2>1, <3>1
  <2>2. CASE Over(b)
    <3>1. ~Over(a)
      BY <1>3, <2>2 DEF Handshaking, Awaiting, Over
    <3>2. \/ a.at = "Vc" /\ u = <<Verify, Select, CipherHs, CipherId>>
          \/ a.at = "CryptoSelect" /\ u = <<Select, CipherHs, CipherId>>
          \/ a.at = "Handshake" /\ u = <<CipherHs, CipherId>>
          \/ a.at = "PeerId" /\ u = <<CipherId>>
      BY <1>14, <3>1 DEF CipherOut
    <3>3. u # <<>> /\ (a.at = "Handshake" => Len(u) > 1) /\ (a.at = "Vc" => Head(u).k = "vc")
      BY <3>2, PartFacts
    <3>. QED  BY <1>9, <3>2, <3>3
  <2>. QED  BY <1>14, <2>1, <2>2 DEF CipherIn
<1>. QED
  BY <1>3, <1>4, <1>5, <1>6, <1>10, <1>11, <1>12, <1>13, <1>14 DEF TalkAt, Talk

\* A connection is taken, because no other is (peer-mgr.cc:1076).
LEMMA AcceptSettles ==
  ASSUME Typed, Settled, NEW f \in Ends, Accept(f)
  PROVE  Settled'
<1>. DEFINE e == Far(f)
            r == New("Handshake")
<1>1. end[f].at = "none" /\ Handshaking(e)
  BY DEF Accept, CanAccept
<1>2. f \notin Outs
  <2>1. \A g \in Outs : KindOf[g] # "none" /\ g \in Ends
    BY OutsFacts DEF Settled, Orderly
  <2>. QED  BY <1>1, <2>1, KindFacts
<1>3. e \in Outs /\ Far(e) = f /\ f # e /\ e \in Ends
  <2>1. e \in Ends /\ Far(e) = f
    BY FarFacts
  <2>2. end[e].at # "none"
    BY <1>1 DEF Handshaking, Awaiting
  <2>. QED  BY <1>2, <2>1, <2>2, OutsFacts
<1>4. KindOf[e] = "busy" /\ KindOf[Far(e)] = "none"
  BY <1>1, <1>3, KindFacts
<1>5. ~\E g \in Ends : Mine(g) = Mine(f) /\ IsIncoming(g) /\ Handshaking(g)
  <2>. SUFFICES ASSUME NEW g \in Ends, Mine(g) = Mine(f), IsIncoming(g), Handshaking(g) PROVE FALSE
    OBVIOUS
  <2>1. Far(g) \in Outs /\ Far(Far(g)) = g /\ Far(g) \in Ends
    BY OutsFacts, FarFacts
  <2>2. Mine(Far(g)) = Mine(e)
    BY <1>3, <2>1, TwoClients
  <2>3. KindOf[Far(Far(g))] = "busy"
    BY <2>1, KindFacts
  <2>. QED  BY <1>3, <1>4, <2>1, <2>2, <2>3, TakenOrderly DEF Settled
<1>6. GoOn(f, r, 0, <<>>)
  BY <1>5 DEF Accept
<1>7. r.at = "Handshake" /\ r.at \in Awaiting
  BY DEF New, Awaiting
<1>. HIDE DEF r
<1>8. /\ end'[f] = r /\ end'[e] = end[e] /\ IsWire'
      /\ wire'[f] = SubSeq(wire[f], 0 + 1, Len(wire[f])) /\ wire'[e] = wire[e] \o <<>>
      /\ \A y \in Ends : y \notin {f, Far(f)} =>
           end'[y] = end[y] /\ (wire'[y] = wire[y] \/ end[y].at = "closed")
  <2>1. end[f].at # "closed" /\ end[Far(f)].at # "closed" /\ IsWire
    BY <1>1 DEF Handshaking, Awaiting, Settled
  <2>. QED  BY <1>6, <2>1, GoOnEffect
<1>9. TalkNext(e)
  <2>1. TalkAt(e) /\ end[e].at \notin {"peer", "closed"}
    BY <1>1, <1>3 DEF Settled, Handshaking, Awaiting
  <2>2. /\ wire[e] = <<>>
        /\ \/ /\ wire[f] = <<PlainHs, PlainId>>
              /\ Begun(end[e], end[f], wire[e], wire[f], mode[Mine(e)], mode[Mine(f)])
           \/ /\ wire[f] = <<Key>>
              /\ Keys(end[e], end[f], wire[e], wire[f], mode[Mine(e)], mode[Mine(f)])
    BY <1>1, <1>3, <2>1 DEF TalkAt, Talk, Begun, PlainIn, Keys, New, Offer, CipherIn, Over
  <2>3. wire'[e] = <<>> /\ wire'[f] = wire[f]
    BY <1>8, <2>2, Whole1, Whole2, Nothing
  <2>4. CASE /\ wire[f] = <<PlainHs, PlainId>>
             /\ Begun(end[e], end[f], wire[e], wire[f], mode[Mine(e)], mode[Mine(f)])
    <3>1. Begun(end'[e], end'[f], wire'[e], wire'[f], mode[Mine(e)], mode[Mine(f)])
      BY <1>8, <2>3, <2>4 DEF Begun, r
    <3>. QED  BY <1>3, <3>1 DEF TalkNext, Talk
  <2>5. CASE /\ wire[f] = <<Key>>
             /\ Keys(end[e], end[f], wire[e], wire[f], mode[Mine(e)], mode[Mine(f)])
    <3>1. Keys(end'[e], end'[f], wire'[e], wire'[f], mode[Mine(e)], mode[Mine(f)])
      BY <1>8, <2>2, <2>3, <2>5 DEF Keys, r
    <3>. QED  BY <1>3, <3>1 DEF TalkNext, Talk
  <2>. QED  BY <2>2, <2>4, <2>5
<1>10. Orderly(Outs, KindOf')
  <2>1. \A y \in Ends : y # f => end'[y] = end[y]
    BY <1>8
  <2>2. KindOf' = [KindOf EXCEPT ![f] = "busy"]
    BY <1>7, <1>8, <2>1, KindChange
  <2>. QED  BY <1>3, <1>4, <2>2, TakenOrderly DEF Settled
<1>11. UNCHANGED <<mode, opener, broken, unreach>>
  BY <1>6 DEF GoOn
<1>12. \A y \in Ends : y \notin {e, Far(e)} =>
         end'[y] = end[y] /\ (wire'[y] = wire[y] \/ end[y].at = "closed")
  BY <1>3, <1>8
<1>. QED  BY <1>3, <1>8, <1>9, <1>10, <1>11, <1>12, StepSettles DEF Settled

\* The next socket is nobody's yet.
LEMMA NextSocket ==
  ASSUME Typed, Settled, NEW c \in Clients, Len(opener) < MaxSockets, NEW f, f = <<Len(opener) + 1, c>>
  PROVE  /\ f \in Ends /\ Far(f) \in Ends /\ f # Far(f) /\ f \notin Outs /\ Far(f) \notin Outs /\ Mine(f) = c
         /\ Far(Far(f)) = f
         /\ end[f].at = "none" /\ end[Far(f)].at = "none" /\ wire[f] = <<>> /\ wire[Far(f)] = <<>>
         /\ KindOf[f] = "none" /\ KindOf[Far(f)] = "none"
         /\ opener' = Append(opener, c) =>
              Outs' = Outs \cup {f} /\ DOMAIN opener' = DOMAIN opener \cup {Socket(f)}
<1>1. /\ opener \in Seq(Clients) /\ Len(opener) \in Nat /\ Len(opener) + 1 \notin DOMAIN opener
      /\ MaxSockets \in Nat
  BY OpenerFacts, HandshakeAssumption DEF Typed, TypeOK
<1>2. f \in Ends /\ Socket(f) = Len(opener) + 1 /\ Mine(f) = c
  BY <1>1 DEF Ends, Sockets, Socket, Mine
<1>3. Far(f) \in Ends /\ Socket(Far(f)) = Socket(f) /\ f # Far(f) /\ Far(Far(f)) = f /\ Mine(Far(f)) # c
  BY <1>2, EndFacts, FarFacts, TwoClients
<1>4. /\ end[f].at = "none" /\ end[Far(f)].at = "none" /\ wire[f] = <<>> /\ wire[Far(f)] = <<>>
      /\ f \notin Outs /\ Far(f) \notin Outs
  BY <1>1, <1>2, <1>3 DEF Typed, Fresh, Settled, Outs
<1>5. ASSUME opener' = Append(opener, c)
      PROVE  Outs' = Outs \cup {f} /\ DOMAIN opener' = DOMAIN opener \cup {Socket(f)}
  <2>1. /\ DOMAIN opener' = DOMAIN opener \cup {Len(opener) + 1} /\ opener'[Len(opener) + 1] = c
        /\ \A i \in DOMAIN opener : opener'[i] = opener[i]
    BY <1>1, <1>5, OpenerFacts
  <2>2. \A x \in Ends : Socket(x) = Len(opener) + 1 /\ Mine(x) = c <=> x = f
    BY <1>2, EndFacts
  <2>3. \A x \in Ends : x \in Outs' <=> x \in Outs \/ x = f
    BY <1>1, <1>2, <2>1, <2>2 DEF Outs
  <2>4. Outs' \subseteq Ends /\ Outs \subseteq Ends
    BY DEF Outs
  <2>. QED  BY <1>2, <2>1, <2>3, <2>4
<1>. QED  BY <1>2, <1>3, <1>4, <1>5, KindFacts

\* A socket is opened for c, at whose end a handshake begins.
LEMMA OpensSettle ==
  ASSUME Typed, Settled, NEW c \in Clients, Len(opener) < MaxSockets, opener' = Append(opener, c),
         NEW f, f = <<Len(opener) + 1, c>>, UNCHANGED <<mode, broken, unreach>>, IsWire',
         \A g \in Outs : TalkNext(g), TalkNext(f),
         \A y \in Ends : end[y].at = "none" /\ y # Far(f) => wire'[y] = wire[y],
         Orderly(Outs \cup {f}, KindOf')
  PROVE  Settled'
<1>1. Outs' = Outs \cup {f} /\ DOMAIN opener' = DOMAIN opener \cup {Socket(f)} /\ f \in Ends
  BY NextSocket
<1>2. \A g \in Outs' : TalkAt(g)'
  BY <1>1 DEF TalkAt, TalkNext
<1>3. \A x \in Ends : Socket(x) \notin DOMAIN opener' => wire'[x] = <<>>
  <2>. SUFFICES ASSUME NEW x \in Ends, Socket(x) \notin DOMAIN opener' PROVE wire'[x] = <<>>
    OBVIOUS
  <2>1. Socket(x) \notin DOMAIN opener /\ x # Far(f)
    BY <1>1, EndFacts
  <2>. QED  BY <2>1 DEF Typed, Fresh, Settled
<1>4. \A d \in Clients : unreach'[d] => ~Fits(d)'
  BY DEF Fits, Settled
<1>5. Orderly(Outs', KindOf')
  BY <1>1
<1>. QED  BY <1>2, <1>3, <1>4, <1>5 DEF Settled

\* A client that is not in use tries to connect.
LEMMA InitiateSettles ==
  ASSUME Typed, Settled, NEW c \in Clients, Initiate(c)
  PROVE  Settled'
<1>. DEFINE s == Len(opener) + 1
            f == <<s, c>>
            plain == mode[c] \in {"clear", "foreign"}
            p == [New(IF plain THEN "Handshake" ELSE "Yb") EXCEPT !.greeted = plain]
            sent == IF plain THEN Hello({}) ELSE <<Key>>
<1>1. /\ s <= MaxSockets /\ ~InUse(c) /\ opener' = Append(opener, c)
      /\ end' = [end EXCEPT ![f] = p] /\ wire' = [wire EXCEPT ![<<s, Other(c)>>] = sent]
      /\ UNCHANGED <<mode, broken, unreach>>
  BY DEF Initiate
<1>2. Len(opener) < MaxSockets /\ Far(f) = <<s, Other(c)>>
  <2>1. Len(opener) \in Nat /\ MaxSockets \in Nat
    BY OpenerFacts, HandshakeAssumption DEF Typed, TypeOK
  <2>. QED  BY <1>1, <2>1 DEF Far
<1>3. \/ plain /\ p.at = "Handshake" /\ p.filter = {} /\ p.greeted /\ sent = <<PlainHs, PlainId>>
      \/ ~plain /\ p = New("Yb") /\ p.at = "Yb" /\ sent = <<Key>> /\ mode[c] \in {"required", "preferred"}
  <2>1. CASE plain
    <3>1. p = [New("Handshake") EXCEPT !.greeted = TRUE]
      BY <2>1
    <3>. QED  BY <2>1, <3>1, PartFacts DEF New
  <2>2. CASE ~plain
    <3>1. plain = FALSE
      BY <2>2
    <3>2. p = [New("Yb") EXCEPT !.greeted = FALSE]
      BY <3>1
    <3>3. New("Yb") \in [at : {"Yb"}, filter : {{}}, heard : {FALSE}, greeted : {FALSE}]
      BY DEF New
    <3>4. p = New("Yb") /\ p.at = "Yb"
      BY <3>2, <3>3
    <3>5. mode[c] \in Modes
      BY DEF Typed, TypeOK
    <3>. QED  BY <2>2, <3>4, <3>5 DEF Modes
  <2>. QED  BY <2>1, <2>2
<1>. HIDE DEF p, sent, plain
<1>4. /\ f \in Ends /\ Far(f) \in Ends /\ f # Far(f) /\ f \notin Outs /\ Far(f) \notin Outs /\ Mine(f) = c
      /\ end[f].at = "none" /\ end[Far(f)].at = "none" /\ wire[f] = <<>> /\ wire[Far(f)] = <<>>
      /\ KindOf[f] = "none" /\ KindOf[Far(f)] = "none" /\ Far(Far(f)) = f
  BY <1>2, NextSocket
<1>. HIDE DEF f
<1>5. /\ end'[f] = p /\ wire'[Far(f)] = sent /\ IsWire'
      /\ \A y \in Ends : y # f => end'[y] = end[y]
      /\ \A y \in Ends : y # Far(f) => wire'[y] = wire[y]
  BY <1>1, <1>2, <1>4 DEF Settled, IsWire, Typed, IInv
<1>6. TalkNext(f)
  <2>1. end'[Far(f)].at = "none" /\ wire'[f] = <<>>
    BY <1>4, <1>5
  <2>2. CASE plain
    <3>1. mode[c] \in {"clear", "foreign"}
      BY <2>2 DEF plain
    <3>2. Begun(end'[f], end'[Far(f)], wire'[f], wire'[Far(f)], mode[Mine(f)], mode[Mine(Far(f))])
      BY <1>3, <1>4, <1>5, <2>1, <2>2, <3>1 DEF Begun
    <3>. QED  BY <3>2 DEF TalkNext, Talk
  <2>3. CASE ~plain
    <3>1. Keys(end'[f], end'[Far(f)], wire'[f], wire'[Far(f)], mode[Mine(f)], mode[Mine(Far(f))])
      BY <1>3, <1>4, <1>5, <2>1, <2>3 DEF Keys
    <3>. QED  BY <3>1 DEF TalkNext, Talk
  <2>. QED  BY <2>2, <2>3
<1>7. \A g \in Outs : TalkNext(g)
  <2>. SUFFICES ASSUME NEW g \in Outs PROVE TalkNext(g)
    OBVIOUS
  <2>1. g # f /\ g # Far(f) /\ Far(g) # f /\ Far(g) # Far(f) /\ g \in Ends /\ Far(g) \in Ends
    BY <1>4, OutsFacts
  <2>2. end'[g] = end[g] /\ end'[Far(g)] = end[Far(g)] /\ wire'[g] = wire[g] /\ wire'[Far(g)] = wire[Far(g)]
    BY <1>5, <2>1
  <2>. QED  BY <2>2 DEF Settled, TalkAt, TalkNext
<1>8. Orderly(Outs \cup {f}, KindOf')
  <2>1. p.at \in Awaiting
    BY <1>3 DEF Awaiting
  <2>2. KindOf' = [KindOf EXCEPT ![f] = "busy"]
    BY <1>4, <1>5, <2>1, KindChange
  <2>3. \A y \in Ends : Mine(y) = Mine(f) => KindOf[y] \notin {"busy", "peer"}
    BY <1>1, <1>4, KindFacts DEF InUse
  <2>. QED  BY <1>4, <2>2, <2>3, BegunOrderly DEF Settled
<1>. QED  BY <1>1, <1>2, <1>5, <1>6, <1>7, <1>8, OpensSettle DEF f

\* A client that prefers encryption has sent its keys to one that knows none.
KeysRefused(e) ==
  /\ end[Far(e)].at = "closed" /\ end[e] = New("Yb") /\ wire[e] = <<>>
  /\ mode[Mine(e)] = "preferred" /\ mode[Mine(Far(e))] = "foreign"

\* The keys were refused, and a plain handshake is tried (handshake.cc:799).
LEMMA ReconnectSettles ==
  ASSUME Typed, Settled, NEW e \in Outs, NEW c \in Clients, c = Mine(e), KeysRefused(e),
         Len(opener) < MaxSockets, NEW f, f = <<Len(opener) + 1, c>>, Reconnect(e, <<>>)
  PROVE  Settled'
<1>. DEFINE p == [end[e] EXCEPT !.at = "Handshake", !.greeted = TRUE]
<1>1. /\ e \in Ends /\ Far(e) \in Ends /\ Far(e) # e /\ end[Far(e)].at = "closed"
      /\ end[e].at = "Yb" /\ end[e].filter = {} /\ wire[e] = <<>>
      /\ mode[c] = "preferred" /\ mode[Mine(Far(e))] = "foreign"
  BY OutsFacts, EndFacts DEF KeysRefused, New
<1>2. /\ opener' = Append(opener, c)
      /\ end' = [Quit(end, e) EXCEPT ![f] = p]
      /\ wire' = Delivered(end', [wire EXCEPT ![Far(f)] = <<>> \o Hello(end[e].filter), ![f] = <<>>])
      /\ UNCHANGED <<mode, broken, unreach>>
  BY <1>1 DEF Reconnect
<1>3. p.at = "Handshake" /\ p.filter = {} /\ p.greeted
  BY <1>1 DEF Typed, IInv, End
<1>. HIDE DEF p
<1>4. /\ f \in Ends /\ Far(f) \in Ends /\ f # Far(f) /\ f \notin Outs /\ Far(f) \notin Outs /\ Mine(f) = c
      /\ end[f].at = "none" /\ end[Far(f)].at = "none"
      /\ KindOf[f] = "none" /\ KindOf[Far(f)] = "none" /\ Far(Far(f)) = f /\ wire[f] = <<>>
  BY NextSocket
<1>5. <<>> \o Hello(end[e].filter) = <<PlainHs, PlainId>>
  BY <1>1, PartFacts, Add2
<1>6. /\ end'[f] = p /\ end'[e] = New("closed")
      /\ \A y \in Ends : y # f /\ y # e => end'[y] = end[y]
  <2>1. /\ Quit(end, e)[e] = New("closed") /\ \A y \in Ends : y # e => Quit(end, e)[y] = end[y]
        /\ Quit(end, e) = [x \in Ends |-> Quit(end, e)[x]]
    BY <1>1, QuitCloses DEF Quit, Typed, IInv
  <2>2. e # f
    BY <1>1, <1>4
  <2>. QED  BY <1>1, <1>2, <1>4, <2>1, <2>2
<1>7. /\ wire'[Far(f)] = <<PlainHs, PlainId>> /\ wire'[f] = <<>> /\ IsWire'
      /\ \A y \in Ends : y \notin {f, Far(f), e} => wire'[y] = wire[y] \/ end[y].at = "closed"
  <2>1. end'[Far(f)].at = "none" /\ Far(f) # e /\ end'[f].at # "closed"
    BY <1>1, <1>3, <1>4, <1>6
  <2>. QED  BY <1>2, <1>4, <1>5, <1>6, <2>1 DEF Delivered, Settled, IsWire
<1>8. TalkNext(f)
  <2>1. end'[Far(f)].at = "none"
    BY <1>1, <1>4, <1>6
  <2>2. Mine(Far(f)) = Mine(Far(e))
    BY <1>1, <1>4, TwoClients
  <2>3. Begun(end'[f], end'[Far(f)], wire'[f], wire'[Far(f)], mode[Mine(f)], mode[Mine(Far(f))])
    BY <1>1, <1>3, <1>4, <1>6, <1>7, <2>1, <2>2 DEF Begun
  <2>. QED  BY <2>3 DEF TalkNext, Talk
<1>9. ASSUME NEW g \in Outs PROVE TalkNext(g)
  <2>1. g # f /\ g # Far(f) /\ Far(g) # f /\ Far(g) # Far(f) /\ g \in Ends /\ Far(g) \in Ends /\ Far(g) # e
    BY <1>4, OutsFacts
  <2>2. CASE g = e
    <3>1. Over(end'[e]) /\ Over(end'[Far(e)])
      BY <1>1, <1>6, <2>1, <2>2 DEF Over, New
    <3>. QED  BY <2>2, <3>1 DEF TalkNext, Talk, CipherOut, CipherIn
  <2>3. CASE g # e
    <3>1. /\ end'[g] = end[g] /\ end'[Far(g)] = end[Far(g)]
          /\ (wire'[g] = wire[g] \/ end[g].at = "closed")
          /\ (wire'[Far(g)] = wire[Far(g)] \/ end[Far(g)].at = "closed")
      BY <1>6, <1>7, <2>1, <2>3
    <3>2. TalkAt(g)
      BY DEF Settled
    <3>. QED  BY <3>1, <3>2, TalkFrame DEF TalkAt, TalkNext
  <2>. QED  BY <2>2, <2>3
<1>10. Orderly(Outs \cup {f}, KindOf')
  <2>1. KindOf' = [KindOf EXCEPT ![e] = "closed", ![f] = "busy"]
    <3>1. KindOf' = [y \in Ends |-> IF end'[y].at \in Awaiting THEN "busy" ELSE end'[y].at]
      BY DEF KindOf, Handshaking
    <3>2. KindOf = [y \in Ends |-> IF end[y].at \in Awaiting THEN "busy" ELSE end[y].at]
      BY DEF KindOf, Handshaking
    <3>3. "Handshake" \in Awaiting /\ New("closed").at \notin Awaiting /\ New("closed").at = "closed" /\ e # f
      BY <1>4 DEF Awaiting, New
    <3>. QED  BY <1>1, <1>3, <1>4, <1>6, <3>1, <3>2, <3>3
  <2>2. KindOf[e] = "busy" /\ KindOf[Far(e)] = "closed"
    BY <1>1, KindFacts DEF Handshaking, Awaiting
  <2>. QED  BY <1>4, <2>1, <2>2, AgainOrderly DEF Settled
<1>11. \A y \in Ends : end[y].at = "none" /\ y # Far(f) => wire'[y] = wire[y]
  BY <1>1, <1>4, <1>7
<1>. QED  BY <1>1, <1>2, <1>7, <1>8, <1>9, <1>10, <1>11, OpensSettle

\* An end notices that the other is closed.  Without a fault that is a peer of a client
\* that has another, a handshake that cannot succeed, or keys that were refused.
LEMMA LostSettles ==
  ASSUME Typed, Settled, Quiet, NEW x \in Ends, Lost(x)
  PROVE  Settled'
<1>1. /\ end[Far(x)].at = "closed" /\ ~CanRead(x) /\ IsWire /\ broken = {}
      /\ Handshaking(x) \/ end[x].at = "peer"
  BY DEF Lost, IsLost, Settled
<1>2. end[x].at \notin {"none", "closed"} /\ Far(x) \in Ends /\ Far(Far(x)) = x /\ Far(x) # x
  BY <1>1, FarFacts DEF Handshaking, Awaiting
<1>3. PICK e \in Outs : x = e \/ x = Far(e)
  BY <1>2, OutsFacts
<1>4. {x, Far(x)} = {e, Far(e)} /\ e \in Ends /\ Far(e) \in Ends /\ Far(Far(e)) = e
  BY <1>2, <1>3, OutsFacts
<1>5. CASE end[x].at = "peer"
  <2>1. Close(x)
    BY <1>5 DEF Lost
  <2>2. /\ end' = [end EXCEPT ![x] = New("closed")] /\ New("closed").at = "closed"
        /\ UNCHANGED <<mode, opener, broken, unreach>>
    BY <1>1, <1>2, <2>1 DEF Close, Quit, New, Typed, IInv
  <2>3. end'[x].at = "closed" /\ \A y \in Ends : y # x => end'[y] = end[y]
    BY <2>2 DEF Typed, IInv
  <2>4. IsWire' /\ \A y \in Ends : y # x => wire'[y] = wire[y] \/ end[y].at = "closed"
    BY <1>1, <2>1, <2>3 DEF Close, Delivered, IsWire
  <2>5. TalkNext(e)
    <3>1. end'[e].at = "closed" /\ end'[Far(e)].at = "closed"
      BY <1>1, <1>2, <1>3, <1>4, <2>3
    <3>. QED  BY <3>1, OverTalks DEF Over, TalkNext
  <2>6. Orderly(Outs, KindOf')
    <3>1. KindOf' = [KindOf EXCEPT ![x] = "closed"]
      BY <2>3, KindChange
    <3>2. KindOf[x] = "peer" /\ KindOf[Far(x)] = "closed"
      BY <1>1, <1>2, <1>5, KindFacts
    <3>. QED  BY <3>1, <3>2, ClosedOrderly DEF Settled
  <2>. QED  BY <1>4, <2>2, <2>3, <2>4, <2>5, <2>6, StepSettles DEF Settled
<1>6. ASSUME Handshaking(x), HandshakeDone(x, end[x], 0, FALSE), x = Far(e) \/ ~Fits(Mine(e))
      PROVE  Settled'
  <2>1. end[x] \in End /\ end[Far(x)].at # "none" /\ IsDone(x, FALSE)
    BY <1>1, <1>6 DEF Typed, IInv, IsDone
  <2>2. end'[x].at = "closed" /\ end'[Far(x)].at = "closed"
    BY <1>1, <1>2, <1>6, <2>1, DoneEffect
  <2>3. TalkNext(e)
    <3>1. end'[e].at = "closed" /\ end'[Far(e)].at = "closed"
      BY <1>3, <1>4, <2>2
    <3>. QED  BY <3>1, OverTalks DEF Over, TalkNext
  <2>. QED  BY <1>1, <1>3, <1>6, <2>1, <2>3, DoneSettles
<1>7. CASE Handshaking(x)
  <2>1. PICK refused : OnError(x, refused)
    BY <1>7 DEF Lost, Handshaking, Awaiting
  <2>2. CASE x = Far(e)
    <3>1. ~CanReconnect(x)
      BY <2>2, OutsFacts DEF CanReconnect
    <3>. QED  BY <1>6, <1>7, <2>1, <2>2, <3>1 DEF OnError
  <2>3. CASE x = e
    <3>1. CASE end[e].at = "Handshake" /\ ~Fits(Mine(e))
      <4>1. ~FallsBack(x)
        BY <2>3, <3>1 DEF FallsBack
      <4>. QED  BY <1>6, <1>7, <2>1, <2>3, <3>1, <4>1 DEF OnError
    <3>2. CASE /\ end[e] = New("Yb") /\ wire[e] = <<>>
               /\ mode[Mine(e)] \in {"required", "preferred"} /\ mode[Mine(Far(e))] = "foreign"
      <4>1. Mine(e) \in Clients /\ Mine(Far(e)) = Other(Mine(e)) /\ end[e].at = "Yb"
        BY <1>4, <3>2, EndFacts DEF Far, Mine, New
      <4>2. KeysRefused(e)
        BY <1>1, <2>3, <3>2, <4>1 DEF Quiet, KeysRefused
      <4>3. FallsBack(e) /\ CanReconnect(e)
        BY <4>1, <4>2, OutsFacts DEF KeysRefused, FallsBack, CanReconnect, Quiet
      <4>4. Reconnect(e, <<>>) /\ Len(opener) < MaxSockets
        BY <2>1, <2>3, <3>2, <4>3 DEF OnError, CanReconnect
      <4>. QED  BY <4>1, <4>2, <4>4, ReconnectSettles
    <3>. QED  BY <1>1, <1>7, <2>3, <3>1, <3>2, NoticesClosed
  <2>. QED  BY <1>3, <2>2, <2>3
<1>. QED  BY <1>1, <1>5, <1>7

-----------------------------------------------------------------------------
\* The inductive invariant.  It says nothing once something has failed.
HInv == Typed /\ (Quiet => Settled)

\* A step opens one socket at most, and counts one fault at most.
LEMMA NextCounts ==
  ASSUME Typed, [Next]_vars
  PROVE  /\ mode' = mode
         /\ opener' = opener \/ \E c \in Clients : opener' = Append(opener, c)
         /\ faults' = faults \/ faults' = faults + 1
<1>1. ASSUME NEW e \in Ends, NEW refused, OnError(e, refused)
      PROVE  mode' = mode /\ (opener' = opener \/ \E c \in Clients : opener' = Append(opener, c))
  BY <1>1, EndFacts DEF OnError, Reconnect, HandshakeDone
<1>2. ASSUME NEW e \in Ends, Reads(e)
      PROVE  mode' = mode /\ opener' = opener /\ faults' = faults
  BY <1>2 DEF Reads, At, GoOn, HandshakeDone, ReadHandshake, ReadPeerId, ReadYa, ReadPadA, ReadCryptoProvide,
              ReadPayloadStream, ReadYb, ReadVc, ReadCryptoSelect
<1>3. ASSUME NEW e \in Ends, Accept(e)
      PROVE  mode' = mode /\ opener' = opener /\ faults' = faults
  BY <1>3 DEF Accept, Close, GoOn
<1>4. ASSUME NEW e \in Ends, Lost(e)
      PROVE  /\ mode' = mode /\ faults' = faults
             /\ opener' = opener \/ \E c \in Clients : opener' = Append(opener, c)
  BY <1>1, <1>4 DEF Lost, Close
<1>5. ASSUME NEW e \in Ends, Timeout(e)
      PROVE  mode' = mode /\ opener' = opener /\ (faults' = faults \/ faults' = faults + 1)
  BY <1>5 DEF Timeout, HandshakeDone
<1>6. ASSUME NEW e \in Ends, ConnectFails(e)
      PROVE  /\ mode' = mode /\ faults' = faults + 1
             /\ opener' = opener \/ \E c \in Clients : opener' = Append(opener, c)
  BY <1>1, <1>6 DEF ConnectFails
<1>7. ASSUME NEW s \in Sockets, Break(s)
      PROVE  mode' = mode /\ opener' = opener /\ faults' = faults + 1
  BY <1>7 DEF Break
<1>8. ASSUME NEW c \in Clients, Initiate(c)
      PROVE  mode' = mode /\ opener' = Append(opener, c) /\ faults' = faults
  BY <1>8 DEF Initiate
<1>. QED
  BY <1>2, <1>3, <1>4, <1>5, <1>6, <1>7, <1>8 DEF Next, vars

\* What has not failed after a step had not failed before it.
LEMMA QuietBefore ==
  ASSUME Typed, [Next]_vars, Quiet'
  PROVE  Quiet
<1>1. opener \in Seq(Clients) /\ Len(opener) \in Nat /\ MaxSockets \in Nat /\ faults \in Nat
  BY OpenerFacts, HandshakeAssumption DEF Typed, TypeOK
<1>2. Len(opener') = Len(opener) \/ Len(opener') = Len(opener) + 1
  BY <1>1, NextCounts, OpenerFacts
<1>3. faults = 0
  BY <1>1, NextCounts DEF Quiet
<1>4. Len(opener) < MaxSockets
  BY <1>1, <1>2 DEF Quiet
<1>5. mode' = mode
  BY NextCounts
<1>. QED  BY <1>3, <1>4, <1>5 DEF Quiet

\* At first nobody has connected.
LEMMA InitSettled == Init => Settled
<1>. SUFFICES ASSUME Init PROVE Settled
  OBVIOUS
<1>1. opener = <<>> /\ DOMAIN opener = {} /\ Outs = {}
  BY DEF Init, Outs
<1>2. KindOf = [x \in Ends |-> "none"]
  BY DEF Init, KindOf, Handshaking, New, Awaiting
<1>3. Orderly({}, KindOf)
  BY <1>2 DEF Orderly, Kinds, OneOut, OneIn, Engaged, Crossed
<1>4. IsWire /\ broken = {} /\ (\A x \in Ends : wire[x] = <<>>) /\ \A c \in Clients : ~unreach[c]
  BY DEF Init, IsWire
<1>. QED  BY <1>1, <1>3, <1>4 DEF Settled

\* No step without a fault disturbs it.
LEMMA NextSettled == HInv /\ [Next]_vars => HInv'
<1>. SUFFICES ASSUME HInv, [Next]_vars, Quiet' PROVE Settled'
  BY NextTyped DEF HInv
<1>1. Typed /\ Quiet /\ Settled
  BY QuietBefore DEF HInv
<1>2. ASSUME NEW c \in Clients, Initiate(c) PROVE Settled'
  BY <1>1, <1>2, InitiateSettles
<1>3. ASSUME NEW e \in Ends, Reads(e) PROVE Settled'
  BY <1>1, <1>3, ReadsSettle
<1>4. ASSUME NEW e \in Ends, Accept(e) PROVE Settled'
  BY <1>1, <1>4, AcceptSettles
<1>5. ASSUME NEW e \in Ends, Lost(e) PROVE Settled'
  BY <1>1, <1>5, LostSettles
<1>6. faults = 0 /\ faults' = 0
  BY <1>1 DEF Quiet
<1>7. ASSUME NEW e \in Ends, Timeout(e) PROVE FALSE
  <2>1. ~Stuck(e)
    BY <1>1, <1>7, NotStuck DEF Timeout, TimedOut
  <2>. QED  BY <1>6, <1>7, <2>1 DEF Timeout
<1>8. ASSUME NEW e \in Ends, ConnectFails(e) PROVE FALSE
  BY <1>6, <1>8 DEF ConnectFails
<1>9. ASSUME NEW s \in Sockets, Break(s) PROVE FALSE
  BY <1>6, <1>9 DEF Break
<1>10. CASE UNCHANGED vars
  <2>1. UNCHANGED <<mode, opener, end, wire, broken, unreach>>
    BY <1>10 DEF vars
  <2>2. Outs' = Outs /\ KindOf' = KindOf /\ (IsWire' <=> IsWire)
    BY <2>1 DEF Outs, KindOf, Handshaking, IsWire
  <2>3. \A e \in Outs' : TalkAt(e)'
    BY <1>1, <2>1, <2>2 DEF TalkAt, Settled
  <2>4. \A c \in Clients : unreach'[c] => ~Fits(c)'
    BY <1>1, <2>1 DEF Fits, Settled
  <2>. QED  BY <1>1, <2>1, <2>2, <2>3, <2>4 DEF Settled
<1>. QED
  BY <1>2, <1>3, <1>4, <1>5, <1>7, <1>8, <1>9, <1>10 DEF Next

\* Without a fault, and with a socket left to fall back on, nobody gives up a peer
\* with which a connection can succeed (handshake.cc:799).
THEOREM UnreachableOnlyForAReason == Spec => []UnreachableForAReason
<1>1. Init => HInv
  BY InitTyped, InitSettled DEF HInv
<1>2. HInv => UnreachableForAReason
  <2>. SUFFICES ASSUME HInv, NEW c \in Clients, unreach[c], ~(faults > 0), Fits(c), Len(opener) # MaxSockets
                PROVE  FALSE
    BY DEF UnreachableForAReason
  <2>1. faults = 0 /\ Len(opener) < MaxSockets
    <3>1. opener \in Seq(Clients) /\ Len(opener) <= MaxSockets /\ faults \in Nat /\ MaxSockets \in Nat
      BY OpenerFacts, HandshakeAssumption DEF HInv, Typed, TypeOK
    <3>2. Len(opener) \in Nat
      BY <3>1
    <3>. QED  BY <3>1, <3>2
  <2>2. ASSUME NEW d \in Clients, mode[d] = "required" PROVE mode[Other(d)] # "foreign"
    <3>1. CASE d = c
      BY <2>2, <3>1 DEF Fits
    <3>2. CASE d # c
      <4>1. d = Other(c) /\ Other(d) = c
        BY <3>2, OnlyTwo, OtherFacts
      <4>. QED  BY <2>2, <4>1 DEF Fits
    <3>. QED  BY <3>1, <3>2
  <2>. QED  BY <2>1, <2>2 DEF HInv, Quiet, Settled
<1>. QED  BY <1>1, <1>2, NextSettled, PTL DEF Spec
=============================================================================
