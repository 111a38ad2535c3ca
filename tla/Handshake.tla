----------------------------- MODULE Handshake -----------------------------
(***************************************************************************)
(* The handshake that makes a peer of a connection (handshake.cc), the     *)
(* part of peer-mgr.cc that begins handshakes and takes their result, and  *)
(* reconnect() of peer-io.cc.  Two clients run the same code, each with an *)
(* encryption mode of its own, and both try to connect to the other; one   *)
(* of them may be a foreign client that knows plain handshakes only.       *)
(*                                                                         *)
(* A connection is a socket with an end on each side.  What travels is     *)
(* told apart by the read_ function that takes it, and by whether it was   *)
(* encrypted; keys match, pads belong to the key before them.  Reading     *)
(* goes on one part at a time, because the parts of a message may arrive   *)
(* separately.  Both clients run the one torrent and have room for a peer, *)
(* neither is banned, and they are not both known as seeds.                *)
(***************************************************************************)
EXTENDS Naturals, Sequences, FiniteSets, Functions, SequencesExt

CONSTANTS Clients,    \* two of them
          Pairings,   \* the encryption modes that they may have
          MaxSockets, \* bound on the sockets that the two open
          MaxFaults   \* bound on failed connects, lost connections, early timeouts

ASSUME HandshakeAssumption ==
  /\ IsFiniteSet(Clients) /\ Cardinality(Clients) = 2
  /\ MaxSockets \in Nat \ {0} /\ MaxFaults \in Nat

Modes == {"required", "preferred", "clear", "foreign"}

ASSUME PairingsAssumption == Pairings \subseteq [Clients -> Modes]

VARIABLES mode,      \* encryption_mode_ of each client, or "foreign"
          opener,    \* who opened each socket
          utp,       \* the sockets that speak uTP
          end,       \* end[e]: the io and the handshake, or the peer, at e
          wire,      \* wire[e]: what was written to the other end and not read at e
          broken,    \* sockets whose connection is lost
          utpFailed, \* atom.utp_failed, by client
          unreach,   \* MyflagUnreachable, by client
          faults

vars == <<mode, opener, utp, end, wire, broken, utpFailed, unreach, faults>>

Sockets == 1 .. MaxSockets
Ends == Sockets \X Clients

Other(c) == CHOOSE d \in Clients : d # c
Socket(e) == e[1]
Mine(e) == e[2]
Far(e) == <<e[1], Other(e[2])>>
IsIncoming(e) == Socket(e) \in DOMAIN opener /\ opener[Socket(e)] # Mine(e)

\* Awaiting...: the handshake's state_.  PadC and Ia are part of CryptoProvide,
\* PadD is part of CryptoSelect.  none: not there yet.
Awaiting == {"Handshake", "PeerId", "Ya", "PadA", "CryptoProvide", "PayloadStream",
             "Yb", "Vc", "CryptoSelect"}
Handshaking(e) == end[e].at \in Awaiting

\* filter: which directions of filter_ are active.  heard:
\* have_read_anything_from_peer_.  greeted: have_sent_bittorrent_handshake_.
New(at) == [at |-> at, filter |-> {}, heard |-> FALSE, greeted |-> FALSE]

-----------------------------------------------------------------------------
\* A part of a message.  hs: the handshake up to the info hash, id: the rest of
\* it.  key: Ya or Yb.  req1, provide, vc, select: as the functions that read them.
Part(k, enc, crypto) == [k |-> k, enc |-> enc, crypto |-> crypto]

\* build_handshake_message(), written through the filter
Hello(filter) == <<Part("hs", "enc" \in filter, {}), Part("id", "enc" \in filter, {})>>
Key == Part("key", FALSE, {})
\* What is left in the read buffer of a message that did not come whole.
Rest == Part("rest", FALSE, {})

IsPlain(x) == x.k = "hs" /\ ~x.enc

\* What was read through the filter is the name of the protocol.
IsName(e, x) == x.k = "hs" /\ (x.enc <=> "dec" \in end[e].filter)

CryptoProvide(m) == IF m = "clear" THEN {"crypto", "plaintext"} ELSE {"crypto"}

\* get_crypto_select(): empty when there is no choice that both accept.
CryptoSelect(m, provide) ==
  LET choices == CASE m = "required" -> <<"crypto">>
                   [] m = "preferred" -> <<"crypto", "plaintext">>
                   [] m = "clear" -> <<"plaintext", "crypto">>
      IsFirst(i) == choices[i] \in provide /\ \A j \in 1 .. i - 1 : choices[j] \notin provide
  IN {choices[i] : i \in {j \in DOMAIN choices : IsFirst(j)}}

-----------------------------------------------------------------------------
\* Mutant of Connected: a second connection to the same peer is taken.
ConnectedNever(c) == FALSE

\* atom->is_connected
Connected(c) == \E e \in Ends : Mine(e) = c /\ end[e].at = "peer"

\* peer_is_in_use()
InUse(c) == \E e \in Ends : Mine(e) = c /\ (Handshaking(e) \/ end[e].at = "peer")

\* Whether the next read_ function finds what it waits for.
CanRead(e) ==
  /\ wire[e] # <<>>
  /\ CASE end[e].at = "Handshake" -> Head(wire[e]) # Rest \/ Len(wire[e]) > 1
       [] end[e].at = "Ya" -> Head(wire[e]).k = "key"
       [] end[e].at = "Vc" -> Head(wire[e]).k = "vc"
       [] end[e].at \in {"CryptoProvide", "PayloadStream"} -> Len(wire[e]) > 1
       [] OTHER -> Handshaking(e)

CanAccept(e) == end[e].at = "none" /\ Handshaking(Far(e))

\* The other end has closed the connection, which is seen once everything is
\* read, or the network has lost it.
IsLost(e) ==
  /\ Handshaking(e) \/ end[e].at = "peer"
  /\ (end[Far(e)].at = "closed" /\ ~CanRead(e)) \/ Socket(e) \in broken

\* A handshake that waits for nothing but its timeout.
Stuck(e) == \A f \in {e, Far(e)} : ~CanRead(f) /\ ~CanAccept(f) /\ ~IsLost(f)

-----------------------------------------------------------------------------
Quit(f, e) ==
  [f EXCEPT ![e] = New("closed"),
            ![Far(e)] = IF @.at = "none" THEN New("closed") ELSE @]

\* A closed end reads nothing, and nothing is sent to one.
Delivered(ends, w) == [e \in Ends |-> IF ends[e].at = "closed" THEN <<>> ELSE w[e]]

\* The handshake goes on as r; n parts are read and others are sent.
GoOn(e, r, n, sent) ==
  /\ end' = [end EXCEPT ![e] = r]
  /\ wire' = Delivered(end, [wire EXCEPT ![e] = SubSeq(@, n + 1, Len(@)), ![Far(e)] = @ \o sent])
  /\ UNCHANGED <<mode, opener, utp, broken, unreach>>

\* done() and on_handshake_done(): the io becomes a peer, which begins to talk,
\* or it is closed.  What a peer goes on to read is left on the wire.
HandshakeDone(e, r, n, ok) ==
  LET c == Mine(e)
      success == ok /\ ~Connected(c)
  IN /\ end' = IF success THEN [end EXCEPT ![e] = [r EXCEPT !.at = "peer"]] ELSE Quit(end, e)
     /\ wire' = Delivered(end', [wire EXCEPT ![e] = SubSeq(@, n + 1, Len(@))])
     /\ unreach' = IF IsIncoming(e) THEN unreach
                   ELSE [unreach EXCEPT ![c] = ~ok /\ (@ \/ ~r.heard)]
     /\ UNCHANGED <<mode, opener, utp, broken>>

At(e, state) == end[e].at = state /\ CanRead(e) /\ UNCHANGED <<utpFailed, faults>>

-----------------------------------------------------------------------------
(* Outgoing handshakes, and the plain handshake that both sides share.       *)

\* Mutant of Refused: a client that requires encryption takes plain handshakes.
RefusedNever(e) == FALSE

\* The peer is unencrypted, and we are disallowing that (handshake.cc:341).
Refused(e) == IsPlain(Head(wire[e])) /\ mode[Mine(e)] = "required"

\* read_handshake().  A foreign client has no other kind of handshake.
ReadHandshake(e) ==
  LET x == Head(wire[e])
      r == [end[e] EXCEPT !.heard = TRUE]
  IN /\ At(e, "Handshake")
     /\ \/ /\ Refused(e)
           /\ HandshakeDone(e, r, 1, FALSE)
        \/ /\ ~IsPlain(x) /\ IsIncoming(e)
           /\ IF mode[Mine(e)] = "foreign" THEN HandshakeDone(e, r, 1, FALSE)
              ELSE GoOn(e, [r EXCEPT !.at = "Ya"], 0, <<>>)
        \/ /\ IF IsPlain(x) THEN ~Refused(e) ELSE ~IsIncoming(e)
           /\ IF IsName(e, x)
              THEN GoOn(e, [r EXCEPT !.at = "PeerId", !.greeted = TRUE], 1,
                        IF r.greeted THEN <<>> ELSE Hello(r.filter))
              ELSE HandshakeDone(e, r, 1, FALSE)

\* read_peer_id()
ReadPeerId(e) == At(e, "PeerId") /\ HandshakeDone(e, end[e], 1, TRUE)

\* read_yb(): a plain handshake is left to read_handshake().
ReadYb(e) ==
  LET r == [at |-> "Vc", filter |-> {"enc"}, heard |-> TRUE, greeted |-> TRUE]
      provide == Part("provide", TRUE, CryptoProvide(mode[Mine(e)]))
  IN /\ At(e, "Yb")
     /\ IF IsPlain(Head(wire[e]))
        THEN GoOn(e, [end[e] EXCEPT !.at = "Handshake"], 0, <<>>)
        ELSE GoOn(e, r, 1, <<Part("req1", FALSE, {}), provide>> \o Hello(r.filter))

\* read_vc()
ReadVc(e) ==
  /\ At(e, "Vc")
  /\ GoOn(e, [end[e] EXCEPT !.at = "CryptoSelect", !.filter = @ \cup {"dec"}], 1, <<>>)

\* read_crypto_select() and read_pad_d()
ReadCryptoSelect(e) ==
  /\ At(e, "CryptoSelect")
  /\ IF Head(wire[e]).crypto \cap CryptoProvide(mode[Mine(e)]) = {}
     THEN HandshakeDone(e, end[e], 1, FALSE)
     ELSE GoOn(e, [end[e] EXCEPT !.at = "Handshake"], 1, <<>>)

-----------------------------------------------------------------------------
(* Incoming handshakes.                                                      *)

\* read_ya()
ReadYa(e) == At(e, "Ya") /\ GoOn(e, [end[e] EXCEPT !.at = "PadA"], 1, <<Key>>)

\* read_pad_a(): what is not the end of the pad is drained, up to a length.
ReadPadA(e) ==
  /\ At(e, "PadA")
  /\ \/ /\ Head(wire[e]).k = "req1"
        /\ GoOn(e, [end[e] EXCEPT !.at = "CryptoProvide"], 1, <<>>)
     \/ /\ Head(wire[e]).k # "req1"
        /\ GoOn(e, end[e], 1, <<>>) \/ HandshakeDone(e, end[e], 1, FALSE)

\* read_crypto_provide(), read_pad_c() and read_ia().  The handshake that came
\* with them is left to read_payload_stream().
ReadCryptoProvide(e) ==
  LET r == [end[e] EXCEPT !.at = "PayloadStream", !.filter = {"enc", "dec"}, !.greeted = TRUE]
      select == CryptoSelect(mode[Mine(e)], Head(wire[e]).crypto)
  IN /\ At(e, "CryptoProvide")
     /\ IF select = {} THEN HandshakeDone(e, r, 1, FALSE)
        ELSE GoOn(e, r, 1,
                  <<Part("vc", TRUE, {}), Part("select", TRUE, select)>> \o Hello(r.filter))

\* read_payload_stream() and parse_handshake()
ReadPayloadStream(e) ==
  /\ At(e, "PayloadStream")
  /\ HandshakeDone(e, end[e], 2, IsName(e, Head(wire[e])))

-----------------------------------------------------------------------------
\* initiateConnection(), new_outgoing() and the constructor.  Whether uTP is
\* tried is also up to how the peer was found.
Initiate(c) ==
  LET s == Len(opener) + 1
      plain == mode[c] \in {"clear", "foreign"}
  IN /\ s <= MaxSockets /\ ~unreach[c] /\ ~InUse(c)
     /\ opener' = Append(opener, c)
     /\ \/ utp' = utp
        \/ ~utpFailed[c] /\ mode[c] # "foreign" /\ utp' = utp \cup {s}
     /\ end' = [end EXCEPT ![<<s, c>>] =
          [New(IF plain THEN "Handshake" ELSE "Yb") EXCEPT !.greeted = plain]]
     /\ wire' = [wire EXCEPT ![<<s, Other(c)>>] = IF plain THEN Hello({}) ELSE <<Key>>]
     /\ UNCHANGED <<mode, broken, utpFailed, unreach, faults>>

\* close(), of an io or a socket
Close(e) ==
  /\ end' = Quit(end, e)
  /\ wire' = Delivered(end', wire)
  /\ UNCHANGED <<mode, opener, utp, broken, unreach>>

\* tr_peerMgrAddIncoming()
Accept(e) ==
  /\ CanAccept(e) /\ UNCHANGED <<utpFailed, faults>>
  /\ IF \E f \in Ends : Mine(f) = Mine(e) /\ IsIncoming(f) /\ Handshaking(f)
     THEN Close(e) ELSE GoOn(e, New("Handshake"), 0, <<>>)

\* reconnect(): a new socket for the same io.  Neither its filter nor what it has
\* not yet sent or read is reset; then a handshake is sent, in plaintext as the
\* caller means it (handshake.cc:799).
Reconnect(e, unread) ==
  LET c == Mine(e)
      f == <<Len(opener) + 1, c>>
      unsent == IF end[Far(e)].at = "none" THEN wire[Far(e)] ELSE <<>>
  IN /\ opener' = Append(opener, c)
     /\ end' = [Quit(end, e) EXCEPT
          ![f] = [end[e] EXCEPT !.at = "Handshake", !.greeted = TRUE]]
     /\ wire' = Delivered(end', [wire EXCEPT ![Far(f)] = unsent \o Hello(end[e].filter),
                                             ![f] = unread])
     /\ UNCHANGED <<mode, utp, broken, unreach>>

\* Mutant of FallsBack: no plain handshake is tried.
FallsBackToTcp(e) == end[e].at = "Yb" /\ Socket(e) \in utp

\* When on_error() reconnects: uTP gives way to TCP, whatever the mode, and a
\* failure around the keys to a plain handshake.
FallsBack(e) ==
  \/ end[e].at = "Yb" /\ Socket(e) \in utp
  \/ end[e].at \in {"Yb", "Vc"} /\ mode[Mine(e)] # "required"

\* Mutant of CanReconnect: the limit is not looked at.
CanReconnectAlways(e) == ~IsIncoming(e)

\* reconnect() fails at the limit of open sockets.
CanReconnect(e) == ~IsIncoming(e) /\ Len(opener) < MaxSockets

\* on_error().  refused: the connection could not be made, or timed out.
OnError(e, refused) ==
  /\ utpFailed' = [utpFailed EXCEPT
       ![Mine(e)] = @ \/ (refused /\ end[e].at = "Yb" /\ Socket(e) \in utp)]
  /\ IF FallsBack(e) /\ CanReconnect(e)
     THEN \E unread \in IF wire[e] = <<>> THEN {<<>>} ELSE {<<>>, <<Rest>>} : Reconnect(e, unread)
     ELSE HandshakeDone(e, end[e], 0, FALSE)

\* A connection is refused or not answered.
ConnectFails(e) ==
  /\ faults < MaxFaults /\ faults' = faults + 1
  /\ CanAccept(Far(e))
  /\ OnError(e, TRUE)

\* The network loses a connection; its ends notice later.
Break(s) ==
  /\ faults < MaxFaults /\ faults' = faults + 1
  /\ s \notin broken /\ broken' = broken \cup {s}
  /\ \A c \in Clients : end[<<s, c>>].at \notin {"none", "closed"}
  /\ UNCHANGED <<mode, opener, utp, end, wire, utpFailed, unreach>>

\* An end notices that the connection is gone.
Lost(e) ==
  /\ IsLost(e) /\ UNCHANGED faults
  /\ IF end[e].at = "peer"
     THEN Close(e) /\ UNCHANGED utpFailed
     ELSE \E refused \in {FALSE, Socket(e) \in broken} : OnError(e, refused)

\* Mutant of TimedOut: a handshake in which something was read goes on.
TimedOutUnheard(e) == Handshaking(e) /\ ~end[e].heard

\* timeout_timer_.  It is never restarted.
TimedOut(e) == Handshaking(e)

\* The timeout, of a handshake that is stuck, or early because the other is slow.
Timeout(e) ==
  /\ TimedOut(e)
  /\ \/ Stuck(e) /\ UNCHANGED faults
     \/ ~Stuck(e) /\ faults < MaxFaults /\ faults' = faults + 1
  /\ HandshakeDone(e, end[e], 0, FALSE) /\ UNCHANGED utpFailed

-----------------------------------------------------------------------------
Init ==
  /\ mode \in Pairings
  /\ opener = <<>>
  /\ utp = {} /\ broken = {}
  /\ end = [e \in Ends |-> New("none")]
  /\ wire = [e \in Ends |-> <<>>]
  /\ utpFailed = [c \in Clients |-> FALSE]
  /\ unreach = [c \in Clients |-> FALSE]
  /\ faults = 0

Reads(e) ==
  \/ ReadHandshake(e) \/ ReadPeerId(e) \/ ReadYa(e) \/ ReadPadA(e) \/ ReadCryptoProvide(e)
  \/ ReadPayloadStream(e) \/ ReadYb(e) \/ ReadVc(e) \/ ReadCryptoSelect(e)

Next ==
  \/ \E c \in Clients : Initiate(c)
  \/ \E e \in Ends : Reads(e) \/ Accept(e) \/ Lost(e) \/ Timeout(e) \/ ConnectFails(e)
  \/ \E s \in Sockets : Break(s)

\* Sockets are read and accepted, errors noticed, candidates tried on the next
\* pulse, and a handshake that is stuck times out.  There are finitely many
\* sockets: nobody can be busy forever while another waits.
Progress ==
  \/ \E c \in Clients : Initiate(c)
  \/ \E e \in Ends : Reads(e) \/ Accept(e) \/ Lost(e) \/ (Stuck(e) /\ Timeout(e))

Spec == Init /\ [][Next]_vars
FairSpec == Spec /\ WF_vars(Progress)

-----------------------------------------------------------------------------
TypeOK ==
  /\ mode \in [Clients -> Modes] /\ opener \in BoundedSeq(Clients, MaxSockets)
  /\ utp \subseteq Sockets /\ broken \subseteq Sockets
  /\ \A e \in Ends : end[e].at \in Awaiting \cup {"none", "closed", "peer"}
  /\ \A e \in Ends : end[e].filter \subseteq {"enc", "dec"}
  /\ \A e \in Ends : IsIncoming(e) => end[e].at \notin {"Yb", "Vc", "CryptoSelect"}
  /\ utpFailed \in [Clients -> BOOLEAN] /\ unreach \in [Clients -> BOOLEAN]
  /\ faults \in 0 .. MaxFaults

\* A client that requires encryption has no peer that it talks to in the clear,
\* whichever of the two began, and through every fallback (handshake.cc:337-344).
RequiredIsEncrypted ==
  \A e \in Ends : end[e].at = "peer" /\ mode[Mine(e)] = "required" => end[e].filter = {"enc", "dec"}

\* Connections that cross, or are begun anew while an old one is not yet known to
\* be lost, leave a client with one at most (peer-mgr.cc:1076).
OnePeer ==
  \A e, f \in Ends : end[e].at = "peer" /\ end[f].at = "peer" /\ Mine(e) = Mine(f) => e = f

Paired(s) == \A c \in Clients : end[<<s, c>>].at = "peer"

\* Whether a connection that c begins can succeed.
Fits(c) ==
  <<mode[c], mode[Other(c)]>> \notin
    {<<"clear", "required">>, <<"foreign", "required">>, <<"required", "foreign">>}

\* Without a fault, and with a socket left to fall back on, nobody gives up a peer
\* with which a connection can succeed, through the plain fallback if that is what
\* it takes (handshake.cc:799).
UnreachableForAReason ==
  \A c \in Clients : unreach[c] => faults > 0 \/ ~Fits(c) \/ Len(opener) = MaxSockets

\* A client that may still try is not kept from it by an old handshake: it tries
\* until the two are peers (peer-mgr.cc:2238).
Retried ==
  []<>((\E s \in Sockets : Paired(s)) \/ Len(opener) = MaxSockets \/ \A c \in Clients : unreach[c])

\* A fallback over TCP, of a client that does not require encryption, sends a
\* plain handshake (handshake.cc:799).
FallbackIsPlain ==
  \A e \in Ends :
    utp = {} /\ mode[Mine(e)] # "required" /\ end[e].at = "Handshake" /\ CanAccept(Far(e)) =>
      IsPlain(Head(wire[Far(e)]))
=============================================================================
