------------------------------ MODULE Announcer ------------------------------
(***************************************************************************)
(* The announcer (announcer.cc) over the web client of Web.tla, and how    *)
(* the session closes around both (session.cc).  A torrent has one tier    *)
(* here, with N trackers that are used in turn: the tiers of a torrent     *)
(* have nothing in common but that an event is pushed to all of them.      *)
(*                                                                         *)
(* Of the time only the order is kept: what a tier is to announce is due   *)
(* or is later, and becomes due; a scrape may be due at any time.  What a  *)
(* tracker says about peers, and the byte counters, are left out; an       *)
(* announce's two requests, by IPv4 and IPv6, are one task, and so is each *)
(* row of a scrape.                                                        *)
(***************************************************************************)
EXTENDS Web, FiniteSets

CONSTANTS Torrents,    \* the torrents
          N,           \* trackers of a tier
          MaxEvents,   \* bound on what users do
          MaxInFlight  \* bound on the requests at one time

ASSUME AnnouncerAssumption ==
  /\ N \in Nat \ {0} /\ MaxEvents \in Nat /\ MaxInFlight \in Nat
  /\ IsFiniteSet(Torrents)

VARIABLES present, \* the session's torrents
          running, \* those with isRunning
          tier,    \* tier[t]: the tier of t
          stops,   \* stops_: the removed torrents whose stop waits to be sent
          pending, \* n_pending_stops_
          phase,   \* of the session: "up", "closing", "closed" with the promise
                   \* kept, "deleted"; "crashed" after using no tracker
          events,  \* bound: what users did so far
          silent,  \* history: the tiers that lost their place in the schedule
          slipped, \* history: those whose scrape failed while they announced
          finished \* history: those whose completion no tracker was told yet

torrents == <<present, running, tier>>
history == <<silent, slipped, finished>>
vars == <<webVars, torrents, stops, pending, phase, events, history>>

Event == {"none", "started", "completed", "stopped"}

\* A request of the tier of torrent, or one whose tier is gone: nobody cares for
\* its answer but for counting the stops.
Request ==
  [kind : {"announce", "scrape"}, torrent : Torrents, event : Event, tracker : 0 .. N,
   running : BOOLEAN]
  \cup [kind : {"orphan"}, event : {"stopped", "none"}]

ASSUME RequestsAreTasks == Request \subseteq Tasks

\* How a transfer may end: with an answer, with an error or out of time, or with the
\* error of a tracker that does not know the torrent.
Replies == {"ok", "fail", "unregistered"}

\* told: isRunning and lastAnnounceSucceeded, which are read together only
Tier == [queue : Seq(Event), at : {"never", "due", "later"}, current : 0 .. N,
         announcing : BOOLEAN, scraping : BOOLEAN, told : BOOLEAN]

\* The constructor of tr_tier, which begins with the first tracker.
NewTier == [queue |-> <<>>, at |-> "never", current |-> 1,
            announcing |-> FALSE, scraping |-> FALSE, told |-> FALSE]

InFlight == queued \o fetching \o answers
Flying(kind, t) ==
  {i \in DOMAIN InFlight : InFlight[i].kind = kind /\ InFlight[i].torrent = t}
Stops == {i \in DOMAIN InFlight : InFlight[i].event = "stopped"}

TypeOK ==
  /\ WebTypeOK
  /\ present \subseteq Torrents /\ running \subseteq present
  /\ tier \in [Torrents -> Tier]
  /\ stops \subseteq Torrents /\ pending \in Nat
  /\ phase \in {"up", "closing", "closed", "deleted", "crashed"}
  /\ events \in 0 .. MaxEvents
  /\ silent \subseteq Torrents /\ slipped \subseteq Torrents /\ finished \subseteq Torrents

Init ==
  /\ WebInit
  /\ present = {} /\ running = {} /\ tier = [t \in Torrents |-> NewTier]
  /\ stops = {} /\ pending = 0
  /\ phase = "up" /\ events = 0
  /\ silent = {} /\ slipped = {} /\ finished = {}

-----------------------------------------------------------------------------
\* The trailing e's of q removed (tier_announce_remove_trailing()).
Trimmed(q, e) ==
  LET kept == {i \in DOMAIN q : \E j \in i .. Len(q) : q[j] # e}
  IN SubSeq(q, 1, Cardinality(kept))

\* Mutant of Pushed: a stop dumps the completion as well.
PushedDropsCompleted(q, e) ==
  Append(Trimmed(Trimmed(IF e = "stopped" THEN <<>> ELSE q, "none"), e), e)

\* Mutant of Pushed: a stop dumps nothing.
PushedKeepsAll(q, e) == Append(Trimmed(Trimmed(q, "none"), e), e)

\* tier_announce_event_push(): a stop dumps all but a completion; what is routine
\* is dumped by any event; no event twice in a row.
Pushed(q, e) ==
  LET before == IF e # "stopped" THEN q
                ELSE IF \E i \in DOMAIN q : q[i] = "completed" THEN <<"completed">> ELSE <<>>
  IN Append(Trimmed(Trimmed(before, "none"), e), e)

Push(x, e, at) == [x EXCEPT !.queue = Pushed(@, e), !.at = at]

\* Mutant of NextTracker: it goes past the last one.
NextTrackerRunsOver(x) == [x EXCEPT !.current = @ + 1, !.announcing = FALSE, !.scraping = FALSE]

\* Mutant of NextTracker: a scrape of the last tracker is still waited for.
NextTrackerKeepsScraping(x) == [x EXCEPT !.current = (@ % N) + 1, !.announcing = FALSE]

\* useNextTracker(), whatever of the last one is still under way
NextTracker(x) ==
  [x EXCEPT !.current = (@ % N) + 1, !.announcing = FALSE, !.scraping = FALSE]

\* Mutant of NeedsToAnnounce: even if it is announcing.
NeedsToAnnounceAgain(x) == ~x.scraping /\ x.at = "due" /\ x.queue # <<>>

\* needsToAnnounce(), and needsToScrape() when the time has come
NeedsToAnnounce(x) ==
  ~x.announcing /\ ~x.scraping /\ x.at = "due" /\ x.queue # <<>>
MayScrape(x) == ~x.scraping /\ x.current # 0

\* The answers of requests of the tiers of T will find them gone; more is fetched.
OrphanTask(e) == [kind |-> "orphan", event |-> IF e = "stopped" THEN e ELSE "none"]
OrphanedOne(r, T, kinds) ==
  IF r.kind \in kinds /\ r.torrent \in T THEN OrphanTask(r.event) ELSE r
Orphaned(s, T, kinds) == [i \in DOMAIN s |-> OrphanedOne(s[i], T, kinds)]
Orphan(T, kinds, more) ==
  /\ queued' = Orphaned(queued, T, kinds) \o more
  /\ fetching' = Orphaned(fetching, T, kinds)
  /\ answers' = Orphaned(answers, T, kinds)

-----------------------------------------------------------------------------
\* What users do, at most MaxEvents times; adding and starting are bounded by what
\* removes and stops.
User == phase = "up" /\ events < MaxEvents /\ events' = events + 1

\* An event of t's for its tier: torrentAddAnnounce(), at once
Tell(t, e) == tier' = [tier EXCEPT ![t] = Push(@, e, "due")]

\* addTorrent()
Add(t) ==
  /\ phase = "up" /\ t \notin present
  /\ present' = present \cup {t}
  /\ UNCHANGED <<webVars, running, tier, stops, pending, phase, events, history>>

\* startTorrent()
Start(t) ==
  /\ phase = "up" /\ t \in present \ running
  /\ running' = running \cup {t}
  /\ Tell(t, "started")
  /\ silent' = silent \ {t}
  /\ UNCHANGED <<webVars, present, stops, pending, phase, events, slipped, finished>>

\* tr_announcerChangeMyPort(), tr_announcerManualAnnounce()
Again(t, e) ==
  /\ User /\ t \in running
  /\ Tell(t, e)
  /\ silent' = silent \ {t}
  /\ UNCHANGED <<webVars, present, running, stops, pending, phase, slipped, finished>>

\* tr_announcerTorrentCompleted(), from recheckCompleteness()
Complete(t) ==
  /\ User /\ t \in present
  /\ Tell(t, "completed")
  /\ silent' = silent \ {t} /\ finished' = finished \cup {t}
  /\ UNCHANGED <<webVars, present, running, stops, pending, phase, slipped>>

\* stopTorrent(); a torrent that is queued or verified is stopped as well.
Stop(t) ==
  /\ User /\ t \in present
  /\ running' = running \ {t}
  /\ Tell(t, "stopped")
  /\ UNCHANGED <<webVars, present, stops, pending, phase, history>>

\* resetTorrent(), when t's trackers were edited.  The new tier takes over the
\* events of the old one if a tracker is in both, and its place among the
\* trackers, which is lost with the tracker that was current.  It does not take
\* over when the events are due.  Only a tier without a current tracker is started.
Reset(t) ==
  /\ User /\ t \in present
  /\ LET kept  == [NewTier EXCEPT !.queue = tier[t].queue, !.current = tier[t].current]
         moved == [NewTier EXCEPT !.queue = tier[t].queue, !.current = 0]
         begun == Push([moved EXCEPT !.current = 1], "started", "due")
     IN \/ /\ tier' = [tier EXCEPT ![t] = IF kept.current = 0 /\ t \in running THEN begun ELSE kept]
           /\ Orphan({t}, {"announce"}, <<>>)
        \/ /\ N > 1
           /\ tier' = [tier EXCEPT ![t] = IF t \in running THEN begun ELSE moved]
           /\ Orphan({t}, {"announce", "scrape"}, <<>>)
        \/ /\ tier' = [tier EXCEPT ![t] = NewTier]
           /\ Orphan({t}, {"announce", "scrape"}, <<>>)
  /\ silent' = IF tier'[t].at = "due" THEN silent \ {t} ELSE silent \cup {t}
  /\ slipped' = slipped \ {t}
  /\ finished' = IF "completed" \in Range(tier'[t].queue) THEN finished ELSE finished \ {t}
  /\ UNCHANGED <<deadline, web, present, running, stops, pending, phase>>

\* The torrents of S are stopped, and removeTorrent() notes a stop for the
\* trackers that took their last announce.
Removed(S) ==
  /\ present' = present \ S /\ running' = running \ S
  /\ tier' = [t \in Torrents |-> IF t \in S THEN NewTier ELSE tier[t]]
  /\ silent' = silent \ S /\ slipped' = slipped \ S /\ finished' = finished \ S

ToldOf(S) == {t \in S : tier[t].told}

RemoveTorrent(t) ==
  /\ User /\ t \in present
  /\ Removed({t})
  /\ stops' = stops \cup ToldOf({t})
  /\ Orphan({t}, {"announce"}, <<>>)
  /\ UNCHANGED <<deadline, web, pending, phase>>

-----------------------------------------------------------------------------
StopTasks(S) == [i \in 1 .. Cardinality(S) |-> OrphanTask("stopped")]
ScrapeTask(t) == [kind |-> "scrape", torrent |-> t, event |-> "none",
                  tracker |-> tier[t].current, running |-> FALSE]
AnnounceTask(t) == [kind |-> "announce", torrent |-> t, event |-> Head(tier[t].queue),
                    tracker |-> tier[t].current, running |-> t \in running]

\* multiscrape() and tierAnnounce() on the tiers of S and of A
Begun(t, S, A) ==
  LET x == tier[t]
  IN [x EXCEPT !.scraping = @ \/ t \in S,
               !.announcing = @ \/ t \in A,
               !.queue = IF t \in A THEN Tail(@) ELSE @]

\* upkeep(): send the stops of removed torrents, scrape, and announce what was
\* due when it began.  A tier without a tracker ends the program.
Upkeep ==
  LET A == {t \in present : NeedsToAnnounce(tier[t])}
  IN \E S \in SUBSET {t \in present : MayScrape(tier[t])} :
       LET more == StopTasks(stops) \o SetToSeq({ScrapeTask(t) : t \in S})
                   \o SetToSeq({AnnounceTask(t) : t \in A})
       IN /\ phase = "up" /\ more # <<>> /\ Len(InFlight) + Len(more) <= MaxInFlight
          /\ \A t \in A : tier[t].current # 0
          /\ queued' = Fetched(more)
          /\ pending' = pending + Cardinality(stops)
                        + Cardinality({t \in A : Head(tier[t].queue) = "stopped"})
          /\ stops' = {}
          /\ tier' = [t \in Torrents |-> Begun(t, S, A)]
          /\ UNCHANGED <<fetching, answers, deadline, web, present, running, phase, events, history>>

UpkeepCrashes ==
  /\ phase = "up"
  /\ \E t \in present : NeedsToAnnounce(tier[t]) /\ tier[t].current = 0
  /\ phase' = "crashed"
  /\ UNCHANGED <<webVars, torrents, stops, pending, events, history>>

\* What a tier was to announce later is due.
Due(t) ==
  /\ phase = "up" /\ t \in present /\ tier[t].at = "later"
  /\ tier' = [tier EXCEPT ![t].at = "due"]
  /\ UNCHANGED <<webVars, present, running, stops, pending, phase, events, history>>

-----------------------------------------------------------------------------
\* on_announce_error(): the next tracker is to be told the event e, after all
\* that was queued since, unless the last one does not know the torrent.
AnnounceFailed(x, e, reply) ==
  LET y == NextTracker([x EXCEPT !.told = FALSE])
  IN IF reply = "unregistered" THEN y ELSE Push(y, e, "later")

\* Mutant of AnnounceTaken: no routine announce follows.
AnnounceTakenOnce(x, r) == [x EXCEPT !.announcing = FALSE, !.told = r.running]

\* A tracker took the announce r; without anything else to say the next one is routine.
AnnounceTaken(x, r) ==
  LET y == [x EXCEPT !.announcing = FALSE, !.told = r.running]
  IN IF r.event # "stopped" /\ y.queue = <<>> THEN Push(y, "none", "later") ELSE y

\* onAnnounceDone()
AnnounceDone(r, reply) ==
  LET t == r.torrent
  IN /\ tier' = [tier EXCEPT ![t] = IF reply = "ok" THEN AnnounceTaken(@, r)
                                    ELSE AnnounceFailed(@, r.event, reply)]
     /\ silent' = IF reply = "unregistered" \/ (reply = "fail" /\ r.event = "stopped")
                  THEN silent \cup {t} ELSE silent
     /\ slipped' = IF Cardinality(Flying("announce", t)) = 1 THEN slipped \ {t} ELSE slipped
     /\ finished' = IF r.event = "completed" /\ reply # "fail" THEN finished \ {t} ELSE finished

\* onScrapeDone(): its numbers, or on_scrape_error()
ScrapeDone(r, reply) ==
  LET t == r.torrent
  IN /\ tier' = [tier EXCEPT ![t] = IF reply = "ok" THEN [@ EXCEPT !.scraping = FALSE] ELSE NextTracker(@)]
     /\ slipped' = IF reply # "ok" /\ Flying("announce", t) # {} THEN slipped \cup {t} ELSE slipped
     /\ UNCHANGED <<silent, finished>>

\* The session thread runs the job of an answer.  The announce of a tier that is
\* gone changes nothing, nor does a scrape of a tracker that is not current any
\* more; a stop is counted down in any case.
TakeAnswer ==
  LET r == Head(answers)
      known == r.kind # "orphan" /\ phase \in {"up", "closing"} /\ r.torrent \in present
  IN /\ phase \notin {"deleted", "crashed"} /\ answers # <<>>
     /\ answers' = Tail(answers)
     /\ pending' = IF r.event = "stopped" THEN pending - 1 ELSE pending
     /\ \/ known /\ r.kind = "announce" /\ \E reply \in Replies : AnnounceDone(r, reply)
        \/ known /\ r.kind = "scrape" /\ r.tracker = tier[r.torrent].current
           /\ \E reply \in {"ok", "fail"} : ScrapeDone(r, reply)
        \/ /\ known => r.kind = "scrape" /\ r.tracker # tier[r.torrent].current
           /\ UNCHANGED <<tier, history>>
     /\ UNCHANGED <<queued, fetching, deadline, web, present, running, stops, phase, events>>

-----------------------------------------------------------------------------
\* Mutant of Close: the web client is closed before the stops are sent.
CloseWebFirst ==
  /\ phase = "up" /\ phase' = "closing"
  /\ Removed(present) /\ stops' = {}
  /\ pending' = pending + Cardinality(stops \cup ToldOf(present))
  /\ Orphan(present, {"announce"}, <<>>)
  /\ deadline' = "ahead"
  /\ UNCHANGED <<web, events>>

\* closeImplPart1(), as far as the announcer and the web client go: every torrent
\* is stopped and removed, then the announcer sends the stops, and only then the
\* web client refuses new tasks.
Close ==
  /\ phase = "up" /\ phase' = "closing"
  /\ Removed(present) /\ stops' = {}
  /\ pending' = pending + Cardinality(stops \cup ToldOf(present))
  /\ Orphan(present, {"announce"}, StopTasks(stops \cup ToldOf(present)))
  /\ deadline' = "ahead"
  /\ UNCHANGED <<web, events>>

\* closeImplPart2(): wait for the stops to be answered, though not forever.
CloseDone ==
  /\ phase = "closing" /\ pending = 0
  /\ phase' = "closed"
  /\ UNCHANGED <<webVars, torrents, stops, pending, events, history>>

CloseLate ==
  /\ phase = "closing" /\ pending > 0
  /\ phase' = "closed"
  /\ UNCHANGED <<webVars, torrents, stops, pending, events, history>>

\* The main thread deletes the session: the web client is given no more time, and
\* its thread is joined before the session thread ends.
Destroy ==
  /\ phase = "closed" /\ deadline = "ahead"
  /\ StartShutdown(FALSE)
  /\ UNCHANGED <<torrents, stops, pending, phase, events, history>>

Deleted ==
  /\ phase = "closed" /\ deadline = "reached" /\ web = "gone"
  /\ phase' = "deleted"
  /\ UNCHANGED <<webVars, torrents, stops, pending, events, history>>

\* The web client's own steps, until the program crashes.
Apart == phase # "crashed" /\ UNCHANGED <<torrents, stops, pending, phase, events, history>>
WebSteps == (WebThread \/ DeadlinePasses) /\ Apart

Next ==
  \/ \E t \in Torrents :
       \/ Add(t) \/ Start(t) \/ Stop(t) \/ Complete(t) \/ Reset(t) \/ RemoveTorrent(t) \/ Due(t)
       \/ \E e \in {"started", "none"} : Again(t, e)
  \/ Upkeep \/ UpkeepCrashes \/ TakeAnswer
  \/ Close \/ CloseDone \/ CloseLate \/ Destroy \/ Deleted
  \/ WebSteps

\* The loops of both threads go on; timers fire; every transfer ends, for curl gives
\* up on it in time.
Fairness ==
  /\ WF_vars(WebCheck /\ Apart) /\ WF_vars(WebLock /\ Apart) /\ WF_vars(WebLoop /\ Apart)
  /\ SF_vars(WebFinish(1) /\ Apart) /\ WF_vars(DeadlinePasses /\ Apart)
  /\ WF_vars(Upkeep \/ UpkeepCrashes) /\ WF_vars(TakeAnswer) /\ \A t \in Torrents : WF_vars(Due(t))
  /\ WF_vars(CloseDone) /\ WF_vars(Destroy) /\ WF_vars(Deleted)

Spec == Init /\ [][Next]_vars
FairSpec == Spec /\ Fairness

-----------------------------------------------------------------------------
\* What a tier waits for is under way: isAnnouncing and isScraping are never left
\* set by an answer that was dropped, so that no tier waits for ever.
WaitsForSomething ==
  \A t \in present :
    /\ tier[t].announcing => Flying("announce", t) # {}
    /\ tier[t].scraping => Flying("scrape", t) # {}

\* A running torrent goes on announcing: something is queued with a time, or under
\* way.  Three things end that in the code: its trackers were edited, a tracker
\* does not know it, or the stop of its last run failed after it was started again
\* (the stop is queued behind the start, and dumps it).
RunningKeepsAnnouncing ==
  \A t \in running \ silent :
    \/ tier[t].queue # <<>> /\ tier[t].at # "never"
    \/ Flying("announce", t) # {}

\* tier_announce_event_push() merges: only completions come before a stop, routine
\* announces come last, and nothing is said twice in a row.
EventsMerged ==
  \A t \in present :
    LET q == tier[t].queue
    IN \A i \in 1 .. Len(q) - 1 :
         /\ q[i] # "none" /\ q[i] # q[i + 1]
         /\ q[i + 1] = "stopped" => q[i] = "completed" /\ i = 1

\* A completion is queued or under way until some tracker was told of it, through
\* failures, stops and restarts.
CompletionIsTold ==
  \A t \in finished :
    \/ "completed" \in Range(tier[t].queue)
    \/ \E i \in Flying("announce", t) : InFlight[i].event = "completed"

\* A tier has one announce under way, unless a scrape failed meanwhile, whose
\* change to the next tracker forgets the announce.
OneAnnounceAtATime ==
  \A t \in present \ slipped : Cardinality(Flying("announce", t)) <= 1

\* n_pending_stops_ counts the stops that are yet to be answered; if it counted one
\* that is refused or forgotten, every close would take until its deadline.
PendingStopsAreUnderWay == phase # "crashed" => pending = Cardinality(Stops)

\* An event that is due is sent, though its tier may have to be scraped first.
DueIsAnnounced ==
  \A t \in Torrents :
    (phase = "up" /\ t \in present /\ tier[t].at = "due" /\ tier[t].queue # <<>>)
      ~> (phase # "up" \/ t \notin present \/ tier[t].at # "due" \/ Flying("announce", t) # {})

\* tr_sessionClose()'s promise is kept, even if its own deadline is far: what is
\* counted in n_pending_stops_ is answered, or killed by the web client.
CloseEnds == phase = "closing" ~> phase = "closed"

\* tr_sessionClose() returns: the web client's thread ends when it is joined.
CloseReturns == phase = "closing" ~> phase = "deleted"
=============================================================================
