--------------------------------- MODULE Web ---------------------------------
(***************************************************************************)
(* The web client (web_mod.cc): a thread of its own that runs libcurl's    *)
(* transfers.  Other threads give it tasks with fetch(); what a task's     *)
(* done_func does runs later, as a job of the session thread, and is the   *)
(* business of the module that extends this one, as is what a server may   *)
(* have answered.  To close, the session sets a deadline: no task is       *)
(* accepted any more, and those that still run once it has passed are      *)
(* killed, which is an answer as well.                                     *)
(***************************************************************************)
EXTENDS Naturals, Sequences, SequencesExt

CONSTANT Tasks \* what may be fetched

VARIABLES queued,   \* queued_tasks_
          fetching, \* running_tasks_
          answers,  \* the tasks whose done_func was posted to the session thread
          deadline, \* deadline_: "unset", "ahead", or "reached"
          web       \* where the thread is in its loop; "gone" once it has ended

webVars == <<queued, fetching, answers, deadline, web>>

WebTypeOK ==
  /\ queued \in Seq(Tasks) /\ fetching \in Seq(Tasks) /\ answers \in Seq(Tasks)
  /\ deadline \in {"unset", "ahead", "reached"}
  /\ web \in {"check", "lock", "asleep", "perform", "gone"}

WebInit ==
  /\ queued = <<>> /\ fetching = <<>> /\ answers = <<>>
  /\ deadline = "unset" /\ web = "lock"

\* is_idle()
WebIdle == queued = <<>> /\ fetching = <<>>

\* What fetch() makes of the queue for the tasks of s: after a deadline, nothing.
Fetched(s) == IF deadline = "unset" THEN queued \o s ELSE queued

\* startShutdown(): with some time left, or with none when the client is destroyed.
StartShutdown(left) ==
  /\ deadline' = IF left THEN "ahead" ELSE "reached"
  /\ UNCHANGED <<queued, fetching, answers, web>>

DeadlinePasses ==
  /\ deadline = "ahead" /\ deadline' = "reached"
  /\ UNCHANGED <<queued, fetching, answers, web>>

-----------------------------------------------------------------------------
\* Mutant of WebCheck: what is killed is forgotten.
WebCheckDropsKilled ==
  /\ web = "check"
  /\ fetching' = IF deadline = "reached" THEN <<>> ELSE fetching
  /\ web' = IF deadline # "unset" /\ queued = <<>> /\ fetching' = <<>> THEN "gone" ELSE "lock"
  /\ UNCHANGED <<queued, answers, deadline>>

\* Kill what runs past the deadline; end when closing and idle.  is_idle() is
\* read here without tasks_mutex_.
WebCheck ==
  /\ web = "check"
  /\ fetching' = IF deadline = "reached" THEN <<>> ELSE fetching
  /\ answers' = IF deadline = "reached" THEN answers \o fetching ELSE answers
  /\ web' = IF deadline # "unset" /\ queued = <<>> /\ fetching' = <<>> THEN "gone" ELSE "lock"
  /\ UNCHANGED <<queued, deadline>>

\* stop_waiting() of the loop: the thread does not sleep while nobody closes it.
StopWaiting == ~WebIdle \/ deadline = "unset"

\* Take the tasks that are queued, under tasks_mutex_, or sleep.
WebLock ==
  /\ web \in {"lock", "asleep"}
  /\ IF StopWaiting
     THEN /\ fetching' = fetching \o queued /\ queued' = <<>>
          /\ web' = "perform"
     ELSE /\ web = "lock" /\ web' = "asleep"
          /\ UNCHANGED <<queued, fetching>>
  /\ UNCHANGED <<answers, deadline>>

\* curl_multi_perform() has finished the i-th task.
WebFinish(i) ==
  /\ web = "perform" /\ i \in DOMAIN fetching
  /\ fetching' = RemoveAt(fetching, i)
  /\ answers' = Append(answers, fetching[i])
  /\ UNCHANGED <<queued, deadline, web>>

\* The loop begins again; while there is no deadline WebCheck has nothing to do,
\* and is passed over here.
WebLoop ==
  /\ web = "perform"
  /\ web' = IF deadline = "unset" THEN "lock" ELSE "check"
  /\ UNCHANGED <<queued, fetching, answers, deadline>>

WebThread ==
  \/ WebCheck \/ WebLock \/ WebLoop
  \/ \E i \in DOMAIN fetching : WebFinish(i)
=============================================================================
