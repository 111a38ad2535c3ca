---------------------------- MODULE TorrentQueue ----------------------------
(***************************************************************************)
(* The positions of the torrents in the session's queue (torrent.cc, and   *)
(* the batch methods of rpcimpl.cc).  A size_t holds 0 .. SizeMax and an   *)
(* unsigned int 0 .. UintMax; the two are equal on a 32-bit target, which  *)
(* is what the Android application is built for.  A batch method moves its *)
(* torrents one by one and holds the session's lock throughout, so that    *)
(* nothing else moves a torrent while todo is not empty.                   *)
(***************************************************************************)
EXTENDS Naturals, Sequences, FiniteSets

CONSTANTS Torrents,  \* torrents that may be in the session
          Requests,  \* positions that a torrent-set request may ask for
          MaxBatch,  \* bound on the torrents that a batch request names
          SizeMax,   \* the largest size_t
          UintMax    \* the largest unsigned int: UINT_MAX

ASSUME QueueAssumption ==
  /\ SizeMax \in Nat /\ UintMax \in 0 .. SizeMax
  /\ IsFiniteSet(Torrents) /\ Cardinality(Torrents) < UintMax
  /\ Requests \subseteq 0 .. SizeMax
  /\ MaxBatch \in Nat

VARIABLES pos,    \* pos[t]: queuePosition of t, for each t in the session
          op,     \* the batch method that ran last, "none" once anything else has
          todo,   \* the torrents that it has yet to move
          named,  \* history: the torrents it was called with
          start   \* history: the positions before it

vars == <<pos, op, todo, named, start>>

Size == Cardinality(DOMAIN pos)

\* A size_t that wraps.
Wrap(n) == n % (SizeMax + 1)

-----------------------------------------------------------------------------
\* Mutant of Shift: torrents that were further ahead are moved too.
ShiftFar(p, old, new) ==
  CASE old < new /\ p <= new -> Wrap(p + SizeMax)
    [] old > new /\ new <= p /\ p < old -> Wrap(p + 1)
    [] OTHER -> p

\* Where a torrent at position p goes when one moves from old to new.
Shift(p, old, new) ==
  CASE old < new /\ old <= p /\ p <= new -> Wrap(p + SizeMax)
    [] old > new /\ new <= p /\ p < old  -> Wrap(p + 1)
    [] OTHER                             -> p

\* tr_torrentSetQueuePosition(): t stands at size_t(-1) while the torrents
\* between its old and its new position shift by one, and goes no further than
\* the first position past them all.
SetQueuePosition(t, new) ==
  LET moved == [u \in DOMAIN pos |-> Shift(IF u = t THEN SizeMax ELSE pos[u], pos[t], new)]
      past  == {0} \cup {Wrap(moved[u] + 1) : u \in DOMAIN pos}
  IN \E current \in past :
       /\ \A n \in past : n <= current
       /\ pos' = [moved EXCEPT ![t] = IF new < current THEN new ELSE current]

\* Mutant of Sorted: every batch is moved from the front.
SortedForward(method, s) ==
  \A i, j \in DOMAIN s : i < j => pos[s[i]] <= pos[s[j]]

\* The order in which a batch is moved: from the back of the queue for "top"
\* and "down", from the front for the others.
Sorted(method, s) ==
  \A i, j \in DOMAIN s : i < j =>
    IF method \in {"top", "down"} THEN pos[s[i]] >= pos[s[j]] ELSE pos[s[i]] <= pos[s[j]]

-----------------------------------------------------------------------------
Init ==
  /\ pos = [t \in {} |-> 0]
  /\ op = "none"
  /\ todo = <<>>
  /\ named = {}
  /\ start = [t \in {} |-> 0]

\* What every operation but a batch starts with: it takes the session's lock.
Alone == todo = <<>> /\ op' = "none" /\ UNCHANGED <<todo, named, start>>

\* torrentInit()
AddTorrent(t) ==
  /\ Alone
  /\ t \notin DOMAIN pos
  /\ pos' = [u \in DOMAIN pos \cup {t} |-> IF u = t THEN Size ELSE pos[u]]

\* Mutant of FreeTorrent: nobody moves up in rank.
FreeTorrentLeavesGap(t) ==
  /\ Alone
  /\ t \in DOMAIN pos
  /\ pos' = [u \in DOMAIN pos \ {t} |-> pos[u]]

\* Mutant of FreeTorrent: the session's lock is not taken.
FreeTorrentUnlocked(t) ==
  /\ t \in DOMAIN pos
  /\ pos' = [u \in DOMAIN pos \ {t} |-> IF pos[u] > pos[t] THEN pos[u] - 1 ELSE pos[u]]
  /\ UNCHANGED <<op, todo, named, start>>

\* freeTorrent() while the session is not closing: "we all move up in rank".
FreeTorrent(t) ==
  /\ Alone
  /\ t \in DOMAIN pos
  /\ pos' = [u \in DOMAIN pos \ {t} |-> IF pos[u] > pos[t] THEN pos[u] - 1 ELSE pos[u]]

\* torrent-set with a queuePosition
TorrentSet(t, n) ==
  /\ Alone
  /\ t \in DOMAIN pos
  /\ SetQueuePosition(t, n)

\* tr_torrentsQueueMoveTop/Up/Down/Bottom(): sort the torrents of the request,
\* which may name one twice.
BeginMove(method, s) ==
  /\ todo = <<>>
  /\ Sorted(method, s)
  /\ op' = method
  /\ todo' = s
  /\ named' = {s[i] : i \in DOMAIN s}
  /\ start' = pos
  /\ UNCHANGED pos

\* The loops of those functions, one turn.
MoveNext ==
  /\ todo # <<>>
  /\ todo' = Tail(todo)
  /\ LET t == Head(todo)
     IN CASE op = "top" -> SetQueuePosition(t, 0)
          [] op = "up" /\ pos[t] > 0 -> SetQueuePosition(t, pos[t] - 1)
          [] op = "down" /\ pos[t] < UintMax -> SetQueuePosition(t, pos[t] + 1)
          [] op = "bottom" -> SetQueuePosition(t, UintMax)
          [] OTHER -> UNCHANGED pos
  /\ UNCHANGED <<op, named, start>>

Batches == UNION {[1 .. n -> DOMAIN pos] : n \in 1 .. MaxBatch}

Next ==
  \/ \E t \in Torrents : AddTorrent(t) \/ FreeTorrent(t)
  \/ \E t \in Torrents, n \in Requests : TorrentSet(t, n)
  \/ \E method \in {"top", "up", "down", "bottom"}, s \in Batches : BeginMove(method, s)
  \/ MoveNext

Spec == Init /\ [][Next]_vars

-----------------------------------------------------------------------------
\* The types: positions are size_t, and the torrents that a batch has yet to move
\* are still in the session, because nothing else runs until it is done.
TypeOK ==
  /\ DOMAIN pos \subseteq Torrents
  /\ pos \in [DOMAIN pos -> 0 .. SizeMax]
  /\ op \in {"none", "top", "up", "down", "bottom"}
  /\ todo \in Seq(DOMAIN pos)
  /\ named \subseteq Torrents
  /\ DOMAIN start \subseteq Torrents
  /\ start \in [DOMAIN start -> 0 .. SizeMax]

\* queueIsSequenced(): the n torrents of the session have the positions
\* 0 .. n - 1, one each.
Sequenced ==
  /\ \A t \in DOMAIN pos : pos[t] \in 0 .. Size - 1
  /\ \A t, u \in DOMAIN pos : pos[t] = pos[u] => t = u
  /\ \A i \in 0 .. Size - 1 : \E t \in DOMAIN pos : pos[t] = i

\* A step moves at most one torrent past others: the rest keep their order
\* among themselves, whoever comes, goes or moves.
OthersKeepOrder ==
  [][\E t \in Torrents :
       \A u, v \in (DOMAIN pos \cap DOMAIN pos') \ {t} :
         pos[u] < pos[v] => pos'[u] < pos'[v]]_vars

\* Once a batch was moved to the top (or the bottom), the torrents it named
\* precede (or follow) all the others, and neither these nor those have
\* changed places among themselves.
BatchLands ==
  (todo = <<>> /\ op \in {"top", "bottom"}) =>
    \A u, v \in DOMAIN pos :
      pos[u] < pos[v] <=>
        IF u \in named <=> v \in named
          THEN start[u] < start[v]
          ELSE (u \in named <=> op = "top")
=============================================================================
