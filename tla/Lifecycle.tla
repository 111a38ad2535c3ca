----------------------------- MODULE Lifecycle -----------------------------
(***************************************************************************)
(* A torrent's life (torrent.cc), the verify worker (verify.cc) and the    *)
(* session thread's queue of work (session-thread.cc).  Three threads take *)
(* part: the session thread, which serves RPC requests, the bandwidth      *)
(* pulse and the jobs posted to it, one at a time; the worker; and the     *)
(* daemon's main thread, which adds the torrents of the watch directory    *)
(* and closes the session.                                                 *)
(*                                                                         *)
(* What the session thread has begun is its agenda, one task a step: an    *)
(* RPC handler or a pulse holds the session's lock until its tasks are     *)
(* done, and a task may wait for the worker in the middle.  The download   *)
(* queue is enabled and the seed queue is not (the defaults).  Progress is *)
(* told apart only as whole or not; an incomplete directory is not used.   *)
(***************************************************************************)
EXTENDS Naturals, Sequences, FiniteSets, SequencesExt, FiniteSetsExt

CONSTANTS Torrents,    \* tr_torrent objects, none of them used twice
          Watched,     \* those that the main thread adds, from the watch directory
          Movable,     \* those that a request may move to another directory
          QueueSize,   \* download_queue_size
          MaxCommands, \* bound on the requests about torrents
          None

ASSUME LifecycleAssumption ==
  /\ IsFiniteSet(Torrents) /\ Watched \subseteq Torrents /\ Movable \subseteq Torrents
  /\ QueueSize \in Nat \ {0} /\ MaxCommands \in Nat
  /\ None \notin Torrents

VARIABLES tor,     \* tor.f: the torrents that have the flag f; freed: deleted objects
          vstate,  \* vstate[t]: verify_state_ of t
          todo,    \* todo_ of the worker
          current, \* current_node_ of the worker
          pc,      \* where the worker is; "off" without a thread
          stop,    \* stop_current_
          agenda,  \* what the session thread has yet to do of what it began
          work,    \* work_queue_: the jobs posted to the session thread
          phase,   \* "up", "closing", or "crashed" after using a freed torrent
          commands \* number of requests so far

verifier == <<vstate, todo, current, pc, stop>>
vars == <<tor, verifier, agenda, work, phase, commands>>

\* queued: is_queued.  stable: start_when_stable.  whole: completion has all.
\* done: completeness.  check: needs_completeness_check_.  error: a local error.
Flags == {"live", "freed", "deleting", "running", "stopping", "queued", "stable",
          "whole", "done", "check", "error"}

Task(op, t) == [op |-> op, t |-> t]
Job == {"verify", "verified", "started", "close"}

Put(s, f, t) == [s EXCEPT ![f] = @ \cup {t}]
Cut(s, f, t) == [s EXCEPT ![f] = @ \ {t}]
Set(s, f, t, b) == IF b THEN Put(s, f, t) ELSE Cut(s, f, t)

-----------------------------------------------------------------------------
\* recheckCompleteness()
Recheck(s, t) == Set(Cut(s, "check", t), "done", t, t \in s.whole)

\* countQueueFreeSlots(TR_DOWN) == 0.  Every active torrent counts: none is stalled.
Downloading(s) == {u \in s.live : u \in s.running /\ u \notin s.done /\ vstate[u] = "none"}
FreeSlots(s) == IF Cardinality(Downloading(s)) < QueueSize
                THEN QueueSize - Cardinality(Downloading(s)) ELSE 0

\* torrentStartImpl()
StartImpl(s, t) ==
  Cut(Put(Cut(Recheck(s, t), "queued", t), "running", t), "error", t)

\* Mutant of Refused: a torrent that waits for the worker may be started.
RefusedUnlessNow(s, t, bypass) ==
  \/ vstate[t] = "now"
  \/ t \in s.running
  \/ t \in s.queued /\ t \notin s.done /\ ~bypass

\* The early returns of torrentStart(), by tr_torrent::activity().
Refused(s, t, bypass) ==
  \/ vstate[t] # "none"
  \/ t \in s.running
  \/ t \in s.queued /\ t \notin s.done /\ ~bypass

\* torrentStart(t) may come to each of these.  Local data that is not known to
\* be there may have disappeared.
Outcomes(s, t, bypass, known) ==
  IF Refused(s, t, bypass) THEN {"kept"}
  ELSE IF ~bypass /\ t \notin s.done /\ FreeSlots(s) = 0 THEN {"queued"}
  ELSE IF known THEN {"go"} ELSE {"go", "gone"}

\* What each does to the torrent, where torrentStartImpl() runs at once.
Outcome(s, t, o) ==
  CASE o = "kept"   -> s
    [] o = "queued" -> Put(s, "queued", t)
    [] o = "gone"   -> Put(s, "error", t)
    [] o = "go"     -> StartImpl(s, t)

-----------------------------------------------------------------------------
Init ==
  /\ tor = [f \in Flags |-> {}]
  /\ vstate = [t \in Torrents |-> "none"]
  /\ todo = {} /\ current = None /\ pc = "off" /\ stop = FALSE
  /\ agenda = <<>> /\ work = <<>>
  /\ phase = "up" /\ commands = 0

\* The session thread takes up something new.
Idle == agenda = <<>> /\ phase = "up"

New(t) == phase = "up" /\ t \notin tor.live \cup tor.freed

\* t as tr_torrentNew() makes it: not paused if wanted, with the progress that
\* its resume file or a first look at its files gives it.
Made(t, wanted, whole) ==
  Set(Set(Set(Put(tor, "live", t), "stable", t, wanted), "whole", t, whole), "done", t, whole)

\* A torrent-add request: a new torrent is verified, unless it looks like a seed.
AddTorrent(t) ==
  /\ Idle /\ New(t) /\ t \notin Watched
  /\ \E wanted \in BOOLEAN :
       \/ tor' = Made(t, wanted, FALSE) /\ agenda' = <<Task("verify", t)>>
       \/ \E whole \in BOOLEAN :
            /\ tor' = Made(t, wanted, whole)
            /\ agenda' = IF wanted THEN <<Task("start", t)>> ELSE <<>>
  /\ UNCHANGED <<verifier, work, phase, commands>>

\* The same in the main thread, whenever the session's lock is free: what must
\* run in the session thread is posted to it.
AddWatched(t) ==
  /\ New(t) /\ t \in Watched
  /\ agenda # <<>> => Head(agenda).op \in Job
  /\ \E wanted \in BOOLEAN :
       \/ tor' = Made(t, wanted, FALSE) /\ work' = Append(work, Task("verify", t))
       \/ \E whole \in BOOLEAN :
            LET made == Made(t, wanted, whole)
            IN \E o \in IF wanted THEN Outcomes(made, t, FALSE, FALSE) ELSE {"kept"} :
                 IF o = "go"
                 THEN tor' = Put(made, "running", t) /\ work' = Append(work, Task("started", t))
                 ELSE tor' = Outcome(made, t, o) /\ UNCHANGED work
  /\ UNCHANGED <<verifier, agenda, phase, commands>>

\* The last wanted piece of a running torrent passes its check.
Complete(t) ==
  /\ Idle /\ t \in tor.running \ tor.whole
  /\ tor' = Put(Put(tor, "whole", t), "check", t)
  /\ UNCHANGED <<verifier, agenda, work, phase, commands>>

\* tr_torrentCheckSeedLimit() finds a limit reached.
ReachSeedLimit(t) ==
  /\ Idle /\ t \in (tor.running \cap tor.done) \ tor.stopping
  /\ tor' = Put(tor, "stopping", t)
  /\ UNCHANGED <<verifier, agenda, work, phase, commands>>

-----------------------------------------------------------------------------
\* RPC requests about one torrent.

Request(t) ==
  /\ Idle /\ t \in tor.live /\ commands < MaxCommands
  /\ commands' = commands + 1
  /\ UNCHANGED <<verifier, work, phase>>

RpcStart(t) ==
  /\ Request(t) /\ t \notin tor.running
  /\ tor' = Put(tor, "stable", t)
  /\ \E op \in {"start", "startNow"} : agenda' = <<Task(op, t)>>

RpcStop(t) ==
  /\ Request(t)
  /\ t \in tor.running \cup tor.queued \/ vstate[t] # "none"
  /\ tor' = Put(tor, "stopping", t)
  /\ UNCHANGED agenda

RpcVerify(t) ==
  /\ Request(t)
  /\ agenda' = <<Task("verify", t)>>
  /\ UNCHANGED tor

RpcRemove(t) ==
  /\ Request(t)
  /\ tor' = Put(tor, "deleting", t)
  /\ agenda' = <<Task("stop", t), Task("free", t)>>

RpcMove(t) ==
  /\ Request(t) /\ t \in Movable
  /\ agenda' = <<Task("remove", t), Task("moved", t)>>
  /\ UNCHANGED tor

\* bandwidthPulse(): do_idle_work() of every torrent that has some, then the queue.
Pulse ==
  /\ Idle
  /\ LET some == SetToSeq(tor.live \cap (tor.check \cup tor.stopping))
     IN agenda' = [i \in DOMAIN some |-> Task("idle", some[i])] \o <<Task("queue", None)>>
  /\ UNCHANGED <<tor, verifier, work, phase, commands>>

\* onWorkAvailable() takes all the jobs at once.
Steal ==
  /\ agenda = <<>> /\ work # <<>> /\ phase # "crashed"
  /\ agenda' = work /\ work' = <<>>
  /\ UNCHANGED <<tor, verifier, phase, commands>>

\* tr_sessionClose(), in the main thread.
PostClose ==
  /\ phase = "up" /\ \A i \in DOMAIN work : work[i].op # "close"
  /\ \A i \in DOMAIN agenda : agenda[i].op # "close"
  /\ work' = Append(work, Task("close", None))
  /\ UNCHANGED <<tor, verifier, agenda, phase, commands>>

-----------------------------------------------------------------------------
\* The tasks of the session thread.

\* The task op is next, about t; then comes more, then the rest of the agenda.
Do(op, t, more) ==
  /\ phase # "crashed"
  /\ agenda # <<>> /\ Head(agenda) = Task(op, t)
  /\ agenda' = more \o Tail(agenda)
  /\ UNCHANGED commands

DoLive(op, t, more) == t \in tor.live /\ Do(op, t, more)

\* verifyTorrent() of torrent.cc
DoVerify(t) ==
  /\ DoLive("verify", t,
       IF t \in tor.deleting THEN <<>>
       ELSE IF t \in tor.running THEN <<Task("remove", t), Task("stop", t), Task("add", t)>>
       ELSE <<Task("remove", t), Task("add", t)>>)
  /\ UNCHANGED <<tor, verifier, work, phase>>

\* tr_verify_worker::add(), unless the local data has disappeared
DoAdd(t) ==
  /\ DoLive("add", t, <<>>)
  /\ \/ tor' = Put(tor, "error", t) /\ UNCHANGED verifier
     \/ /\ phase = "up"
        /\ vstate' = [vstate EXCEPT ![t] = "wait"]
        /\ todo' = todo \cup {t}
        /\ pc' = IF pc = "off" THEN "top" ELSE pc
        /\ UNCHANGED <<tor, current, stop>>
  /\ UNCHANGED <<work, phase>>

\* Mutant of DoRemove: it does not wait until the worker has left the torrent.
DoRemoveNoWait(t) ==
  /\ DoLive("remove", t, <<>>)
  /\ IF current = t
     THEN stop' = TRUE /\ UNCHANGED <<vstate, todo, current, pc>>
     ELSE /\ vstate' = [vstate EXCEPT ![t] = "none"]
          /\ todo' = todo \ {t}
          /\ UNCHANGED <<current, pc, stop>>
  /\ UNCHANGED <<tor, work, phase>>

\* tr_verify_worker::remove(), while there is a verifier
DoRemove(t) ==
  /\ DoLive("remove", t, IF phase = "up" /\ current = t THEN <<Task("await", t)>> ELSE <<>>)
  /\ IF phase # "up" THEN UNCHANGED verifier
     ELSE IF current = t
     THEN stop' = TRUE /\ UNCHANGED <<vstate, todo, current, pc>>
     ELSE /\ vstate' = [vstate EXCEPT ![t] = "none"]
          /\ todo' = todo \ {t}
          /\ UNCHANGED <<current, pc, stop>>
  /\ UNCHANGED <<tor, work, phase>>

DoAwait(t) ==
  /\ Do("await", t, <<>>)
  /\ ~stop
  /\ UNCHANGED <<tor, verifier, work, phase>>

\* torrentStop(), up to and after its call of verifyRemove()
DoStop(t) ==
  /\ DoLive("stop", t, <<Task("remove", t), Task("stopped", t)>>)
  /\ tor' = Cut(Cut(tor, "running", t), "stopping", t)
  /\ UNCHANGED <<verifier, work, phase>>

DoStopped(t) ==
  /\ DoLive("stopped", t, <<>>)
  /\ tor' = Cut(tor, "queued", t)
  /\ UNCHANGED <<verifier, work, phase>>

\* Mutant of DoIdle: a torrent that has been completed is not looked at again.
DoIdleSkipsCheck(t) ==
  /\ DoLive("idle", t, IF t \in tor.stopping THEN <<Task("stop", t)>> ELSE <<>>)
  /\ tor' = Set(Cut(tor, "check", t), "stable", t, t \in tor.stable \ tor.stopping)
  /\ UNCHANGED <<verifier, work, phase>>

\* do_idle_work(), with tr_torrentStop()
DoIdle(t) ==
  /\ DoLive("idle", t, IF t \in tor.stopping THEN <<Task("stop", t)>> ELSE <<>>)
  /\ LET checked == IF t \in tor.check THEN Recheck(tor, t) ELSE tor
     IN tor' = Set(checked, "stable", t, t \in tor.stable \ tor.stopping)
  /\ UNCHANGED <<verifier, work, phase>>

\* setLocationInSessionThread(), after verifyRemove(); a failure stops the torrent
DoMoved(t) ==
  /\ \/ DoLive("moved", t, <<>>) /\ UNCHANGED tor
     \/ /\ DoLive("moved", t, <<Task("stop", t)>>)
        /\ tor' = Cut(Put(tor, "error", t), "stable", t)
  /\ UNCHANGED <<verifier, work, phase>>

\* queuePulse(TR_DOWN): any of the queued torrents may be first in the queue.
DoQueue ==
  LET waiting == (tor.live \cap tor.queued) \ tor.done
      n == Min({FreeSlots(tor), Cardinality(waiting)})
  IN /\ \E next \in kSubset(n, waiting) :
          LET s == SetToSeq(next)
          IN Do("queue", None, [i \in DOMAIN s |-> Task("startNow", s[i])])
     /\ UNCHANGED <<tor, verifier, work, phase>>

DoStart(t) ==
  /\ \/ /\ DoLive("start", t, <<>>)
        /\ \E o \in Outcomes(tor, t, FALSE, FALSE) : tor' = Outcome(tor, t, o)
     \/ /\ DoLive("startNow", t, <<>>)
        /\ \E o \in Outcomes(tor, t, TRUE, FALSE) : tor' = Outcome(Put(tor, "stable", t), t, o)
  /\ UNCHANGED <<verifier, work, phase>>

\* Mutant of DoStarted: it does not matter whether the torrent is still there.
DoStartedBlind(t) ==
  /\ Do("started", t, <<>>)
  /\ tor' = StartImpl(tor, t)
  /\ UNCHANGED <<verifier, work, phase>>

\* torrentStartImpl(), posted by the main thread
DoStarted(t) ==
  /\ DoLive("started", t, <<>>)
  /\ tor' = StartImpl(tor, t)
  /\ UNCHANGED <<verifier, work, phase>>

\* onVerifyDoneThreadFunc(): every piece has been checked, so there is local data.
DoVerified(t) ==
  /\ DoLive("verified", t, <<>>)
  /\ IF t \in tor.deleting THEN UNCHANGED tor
     ELSE LET checked == Recheck(tor, t)
          IN IF t \notin tor.stable THEN tor' = checked
             ELSE \E o \in Outcomes(checked, t, FALSE, TRUE) : tor' = Outcome(checked, t, o)
  /\ UNCHANGED <<verifier, work, phase>>

\* freeTorrent()
DoFree(t) ==
  /\ DoLive("free", t, <<>>)
  /\ tor' = [f \in Flags |-> IF f = "freed" THEN tor.freed \cup {t} ELSE tor[f] \ {t}]
  /\ vstate' = [vstate EXCEPT ![t] = "none"]
  /\ UNCHANGED <<todo, current, pc, stop, work, phase>>

\* closeImplPart1(): the verifier goes first, then every torrent.
DoClose ==
  LET all == SetToSeq(tor.live)
  IN /\ Do("close", None, <<Task("join", None)>> \o [i \in 1 .. 2 * Len(all) |->
            Task(IF i % 2 = 1 THEN "stop" ELSE "free", all[(i + 1) \div 2])])
     /\ phase' = "closing"
     /\ stop' = TRUE /\ todo' = {}
     /\ UNCHANGED <<tor, vstate, current, pc, work>>

DoJoin ==
  /\ Do("join", None, <<>>)
  /\ pc = "off"
  /\ UNCHANGED <<tor, verifier, work, phase>>

\* A job about a torrent that has been freed uses its memory: it may still read
\* isDeleting there, or bring the program down.
DoDangling(t) ==
  /\ t \in tor.freed /\ agenda # <<>> /\ phase # "crashed"
  /\ Head(agenda).t = t /\ Head(agenda).op \in Job
  /\ \/ phase = "up" /\ Head(agenda).op \in {"verify", "verified"}
        /\ agenda' = Tail(agenda) /\ UNCHANGED phase
     \/ phase' = "crashed" /\ agenda' = <<>>
  /\ UNCHANGED <<tor, verifier, work, commands>>

Session ==
  \/ \E t \in Torrents :
       \/ DoVerify(t) \/ DoAdd(t) \/ DoRemove(t) \/ DoAwait(t) \/ DoStop(t) \/ DoStopped(t)
       \/ DoIdle(t) \/ DoMoved(t) \/ DoStart(t) \/ DoStarted(t) \/ DoVerified(t)
       \/ DoFree(t) \/ DoDangling(t)
  \/ DoQueue \/ DoClose \/ DoJoin

-----------------------------------------------------------------------------
\* The worker: verifyThreadFunc().

At(here) == phase # "crashed" /\ pc = here /\ UNCHANGED <<agenda, phase, commands>>

\* Mutant of WorkerTop: the request to stop is not acknowledged without a next torrent.
WorkerTopKeepsStop ==
  /\ At("top")
  /\ IF todo = {} THEN current' = None /\ pc' = "off" /\ UNCHANGED <<todo, stop>>
     ELSE /\ stop' = FALSE
          /\ \E t \in todo : current' = t /\ todo' = todo \ {t}
          /\ pc' = "picked"
  /\ UNCHANGED <<tor, vstate, work>>

\* With the mutex held: acknowledge a request to stop, take the next torrent
\* (any of them may have the best priority) or end the thread.
WorkerTop ==
  /\ At("top")
  /\ stop' = FALSE
  /\ IF todo = {} THEN current' = None /\ pc' = "off" /\ UNCHANGED todo
     ELSE /\ \E t \in todo : current' = t /\ todo' = todo \ {t}
          /\ pc' = "picked"
  /\ UNCHANGED <<tor, vstate, work>>

WorkerNow ==
  /\ At("picked")
  /\ vstate' = [vstate EXCEPT ![current] = "now"]
  /\ pc' = "verify"
  /\ UNCHANGED <<tor, todo, current, stop, work>>

\* A piece is found to be there or not.
WorkerPiece ==
  /\ At("verify") /\ ~stop
  /\ \E b \in BOOLEAN : tor' = Set(tor, "whole", current, b)
  /\ UNCHANGED <<verifier, work>>

\* The last piece, or a request to stop.
WorkerDone ==
  /\ At("verify")
  /\ vstate' = [vstate EXCEPT ![current] = "none"]
  /\ pc' = "report"
  /\ UNCHANGED <<tor, todo, current, stop, work>>

\* Mutant of WorkerReport: nobody is told that the torrent has been verified.
WorkerReportNothing == At("report") /\ pc' = "top" /\ UNCHANGED <<tor, vstate, todo, current, stop, work>>

\* tr_torrentOnVerifyDone()
WorkerReport ==
  /\ At("report")
  /\ work' = IF stop \/ current \in tor.deleting THEN work
             ELSE Append(work, Task("verified", current))
  /\ pc' = "top"
  /\ UNCHANGED <<tor, vstate, todo, current, stop>>

Worker == WorkerTop \/ WorkerNow \/ WorkerPiece \/ WorkerDone \/ WorkerReport

-----------------------------------------------------------------------------
Next ==
  \/ \E t \in Torrents :
       \/ AddTorrent(t) \/ AddWatched(t) \/ Complete(t) \/ ReachSeedLimit(t)
       \/ RpcStart(t) \/ RpcStop(t) \/ RpcVerify(t) \/ RpcRemove(t) \/ RpcMove(t)
  \/ Pulse \/ Steal \/ PostClose \/ Session \/ Worker

\* The event loop runs what it has begun, and comes round to the pulse and to
\* the posted jobs; the worker runs, and a torrent has finitely many pieces.
Fairness ==
  /\ WF_vars(Session) /\ SF_vars(Pulse) /\ SF_vars(Steal)
  /\ WF_vars(WorkerTop) /\ WF_vars(WorkerNow) /\ WF_vars(WorkerDone) /\ WF_vars(WorkerReport)

Spec == Init /\ [][Next]_vars /\ Fairness

-----------------------------------------------------------------------------
\* Every flag is about torrents of the session, and every task about a torrent.
TypeOK ==
  /\ tor \in [Flags -> SUBSET Torrents]
  /\ \A f \in Flags \ {"freed"} : tor[f] \subseteq tor.live
  /\ tor.live \cap tor.freed = {}
  /\ vstate \in [Torrents -> {"none", "wait", "now"}]
  /\ todo \subseteq Torrents /\ current \in Torrents \cup {None}
  /\ pc \in {"off", "top", "picked", "verify", "report"} /\ stop \in BOOLEAN
  /\ \A s \in {agenda, work} : \A i \in DOMAIN s : s[i].t \in Torrents \cup {None}
  /\ phase \in {"up", "closing", "crashed"} /\ commands \in 0 .. MaxCommands

\* The worker never holds a torrent that has been freed, not even after it is
\* done with the torrent's files (verify.cc:210).
VerifierHoldsLive ==
  /\ todo \subseteq tor.live
  /\ pc \in {"picked", "verify", "report"} => current \in tor.live

\* The state that the user is shown is where the worker and its list have the
\* torrent, and no torrent is in both.
VerifyStateConsistent ==
  /\ current \notin todo
  /\ phase = "up" => \A t \in tor.live :
       /\ vstate[t] = "now" <=> pc = "verify" /\ current = t
       /\ vstate[t] = "wait" <=> t \in todo \/ (pc = "picked" /\ current = t)

\* A torrent that is not added by the main thread does not exchange pieces while
\* it is verified or waits to be (torrent.cc:823-827).  One that is may: its start
\* is a job, run without another look at the verification.
VerifyExcludesRunning ==
  \A t \in tor.running \ Watched : vstate[t] = "none"

\* A running torrent announces itself, and is counted by the queue, as what it
\* is, or is about to be looked at (torrent.cc:823-827, peer-mgr.cc:968).
RunningKnowsCompleteness ==
  \A t \in tor.running \ Watched :
    t \in tor.check \/ (t \in tor.done <=> t \in tor.whole)

\* The session thread never waits for the worker forever.
SessionNeverStuck == agenda # <<>> ~> agenda = <<>>

Settled(t) ==
  t \notin tor.live \/ t \notin tor.stable \/ t \in tor.running \cup tor.queued \cup tor.error

\* A torrent that is to be started once it is verified gets started, or queued,
\* or has an error to show, unless it is stopped or removed.  A torrent that is
\* moved meanwhile is left out: the move ends its verification (torrent.cc:1243)
\* and nothing starts it any more.
StartsWhenStable ==
  \A t \in Torrents \ Movable : t \in tor.stable ~> (Settled(t) \/ phase # "up")
=============================================================================
