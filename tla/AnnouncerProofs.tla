---------------------------- MODULE AnnouncerProofs ----------------------------
(***************************************************************************)
(* Proofs about Announcer.tla over Web.tla, for any number of torrents,    *)
(* trackers, events and requests: what a tier waits for is under way, its  *)
(* queue stays merged, a running torrent goes on announcing, a completion  *)
(* is told, and the stops that the close waits for are counted right.      *)
(* They all rest on how many requests of a kind are under way, wherever    *)
(* the web client has them.                                                *)
(***************************************************************************)
EXTENDS Announcer, Counting

-----------------------------------------------------------------------------
\* The queue of events.

Merged(q) ==
  \A i \in 1 .. Len(q) - 1 :
    /\ q[i] # "none" /\ q[i] # q[i + 1]
    /\ q[i + 1] = "stopped" => q[i] = "completed" /\ i = 1

\* A merged queue has at most one e at its end to be removed.
LEMMA TrimmedOne ==
  ASSUME NEW q \in Seq(Event), \A i \in 1 .. Len(q) - 1 : q[i] # q[i + 1], NEW e
  PROVE  Trimmed(q, e) = IF q # <<>> /\ q[Len(q)] = e THEN SubSeq(q, 1, Len(q) - 1)
                         ELSE SubSeq(q, 1, Len(q))
<1> DEFINE n == Len(q)
           kept == {i \in DOMAIN q : \E j \in i .. n : q[j] # e}
<1>1. n \in Nat /\ DOMAIN q = 1 .. n /\ (q = <<>> <=> n = 0) OBVIOUS
<1>2. Trimmed(q, e) = SubSeq(q, 1, Cardinality(kept)) BY DEF Trimmed
<1>3. CASE q # <<>> /\ q[n] = e
  <2>1. \A i \in 1 .. n - 1 : n - 1 \in i .. n /\ n - 1 \in 1 .. n - 1 /\ (n - 1) + 1 = n BY <1>1
  <2>2. n > 1 => q[n - 1] # e
    <3>1. n > 1 => n - 1 \in 1 .. n - 1 /\ (n - 1) + 1 = n BY <1>1
    <3> QED BY <1>3, <3>1
  <2>3. kept = 1 .. n - 1
    <3>1. ASSUME NEW i \in 1 .. n - 1 PROVE i \in kept
      <4>1. n - 1 \in i .. n /\ n > 1 /\ i \in 1 .. n BY <1>1, <3>1
      <4> QED BY <1>1, <2>2, <4>1
    <3>2. ASSUME NEW i \in kept PROVE i \in 1 .. n - 1
      <4>1. i \in 1 .. n /\ (i = n => FALSE)
        <5>1. i \in 1 .. n BY <1>1
        <5>2. \A j \in n .. n : j = n
          <6> HIDE DEF kept, n
          <6> QED BY <1>1
        <5> QED BY <1>3, <5>1, <5>2
      <4> QED BY <1>1, <4>1
    <3> QED BY <3>1, <3>2
  <2>4. Cardinality(1 .. n - 1) = n - 1 BY <1>1, <1>3, FS_Interval
  <2> HIDE DEF kept
  <2> QED BY <1>2, <1>3, <2>3, <2>4
<1>4. CASE ~ (q # <<>> /\ q[n] = e)
  <2>1. kept = 1 .. n
    <3>1. ASSUME NEW i \in 1 .. n PROVE i \in kept
      <4>1. n \in i .. n /\ q # <<>> BY <1>1
      <4> QED BY <1>1, <1>4, <4>1
    <3> QED BY <1>1, <3>1
  <2>2. Cardinality(1 .. n) = n BY <1>1, FS_Interval
  <2> HIDE DEF kept
  <2> QED BY <1>2, <1>4, <2>1, <2>2
<1> QED BY <1>3, <1>4

\* What is left of a merged queue is merged, and has no e at its end.
LEMMA TrimmedMerged ==
  ASSUME NEW q \in Seq(Event), Merged(q), NEW e
  PROVE  LET r == Trimmed(q, e)
         IN /\ r \in Seq(Event) /\ Merged(r) /\ Len(r) <= Len(q)
            /\ \A i \in 1 .. Len(r) : r[i] = q[i]
            /\ r # <<>> => r[Len(r)] # e
            /\ Len(r) < Len(q) => Len(r) = Len(q) - 1 /\ q[Len(q)] = e
<1> DEFINE n == Len(q)
<1>1. n \in Nat /\ (q = <<>> <=> n = 0) OBVIOUS
<1>2. \A i \in 1 .. n - 1 : q[i] # q[i + 1] BY DEF Merged
<1>3. PICK m \in 0 .. n : /\ Trimmed(q, e) = SubSeq(q, 1, m)
                          /\ \/ m = n /\ (n = 0 \/ q[n] # e)
                             \/ m = n - 1 /\ n > 0 /\ q[n] = e
  <2>1. CASE q # <<>> /\ q[n] = e
    <3>1. Trimmed(q, e) = SubSeq(q, 1, n - 1) BY <1>2, <2>1, TrimmedOne
    <3>2. n - 1 \in 0 .. n /\ n > 0 BY <1>1, <2>1
    <3> QED BY <2>1, <3>1, <3>2
  <2>2. CASE ~ (q # <<>> /\ q[n] = e)
    <3>1. Trimmed(q, e) = SubSeq(q, 1, n) BY <1>2, <2>2, TrimmedOne
    <3>2. n \in 0 .. n BY <1>1
    <3> QED BY <1>1, <2>2, <3>1, <3>2
  <2> QED BY <2>1, <2>2
<1> DEFINE r == Trimmed(q, e)
<1>4. r \in Seq(Event) /\ Len(r) = m /\ \A i \in 1 .. m : r[i] = q[i] BY <1>1, <1>3
<1> HIDE DEF r
<1>5. Merged(r)
  <2>1. ASSUME NEW i \in 1 .. Len(r) - 1
        PROVE  i \in 1 .. n - 1 /\ r[i] = q[i] /\ r[i + 1] = q[i + 1]
    <3>1. i \in 1 .. m /\ i + 1 \in 1 .. m /\ i \in 1 .. n - 1 BY <1>1, <1>3, <1>4
    <3> QED BY <1>4, <3>1
  <2> QED BY <2>1 DEF Merged
<1>6. r # <<>> => r[Len(r)] # e
  <2>1. SUFFICES ASSUME r # <<>> PROVE r[m] # e BY <1>4
  <2>2. m > 0 /\ m \in 1 .. m /\ r[m] = q[m] BY <1>4, <2>1
  <2>3. CASE m = n BY <1>3, <2>2, <2>3
  <2>4. CASE m = n - 1 /\ q[n] = e
    <3>1. m \in 1 .. n - 1 /\ m + 1 = n BY <1>1, <2>2, <2>4
    <3> QED BY <1>2, <2>2, <2>4, <3>1
  <2> QED BY <1>3, <2>3, <2>4
<1>7. Len(r) < n => Len(r) = n - 1 /\ q[n] = e BY <1>1, <1>3, <1>4
<1>8. Len(r) <= n /\ \A i \in 1 .. Len(r) : r[i] = q[i] BY <1>1, <1>3, <1>4
<1> QED BY <1>4, <1>5, <1>6, <1>7, <1>8 DEF r

\* tier_announce_event_push() keeps a queue merged and loses no completion.
LEMMA PushedMerged ==
  ASSUME NEW q \in Seq(Event), Merged(q), NEW e \in Event
  PROVE  LET r == Pushed(q, e)
         IN /\ r \in Seq(Event) /\ Merged(r) /\ r # <<>> /\ r[Len(r)] = e
            /\ (e = "completed" \/ "completed" \in Range(q)) => "completed" \in Range(r)
<1> DEFINE before == IF e # "stopped" THEN q
                     ELSE IF \E i \in DOMAIN q : q[i] = "completed" THEN <<"completed">> ELSE <<>>
           a == Trimmed(before, "none")
           b == Trimmed(a, e)
           r == Append(b, e)
<1>1. Pushed(q, e) = r BY DEF Pushed
<1>2. /\ before \in Seq(Event) /\ Merged(before)
      /\ e = "stopped" => Len(before) <= 1 /\ \A i \in 1 .. Len(before) : before[i] = "completed"
      /\ "completed" \in Range(q) => "completed" \in Range(before)
  <2>1. CASE e # "stopped" BY <2>1
  <2>2. CASE e = "stopped" /\ \E i \in DOMAIN q : q[i] = "completed"
    <3>1. before = <<"completed">> BY <2>2
    <3>2. Merged(<<"completed">>) /\ <<"completed">> \in Seq(Event) BY DEF Merged, Event
    <3>3. "completed" \in Range(<<"completed">>)
      <4>1. 1 \in DOMAIN <<"completed">> /\ <<"completed">>[1] = "completed" OBVIOUS
      <4> QED BY <4>1 DEF Range
    <3> HIDE DEF before
    <3> QED BY <3>1, <3>2, <3>3
  <2>3. CASE e = "stopped" /\ ~ \E i \in DOMAIN q : q[i] = "completed"
    <3>1. before = <<>> BY <2>3
    <3>2. "completed" \notin Range(q) BY <2>3 DEF Range
    <3> HIDE DEF before
    <3> QED BY <3>1, <3>2 DEF Merged
  <2> QED BY <2>1, <2>2, <2>3
<1> HIDE DEF before
<1>3. /\ a \in Seq(Event) /\ Merged(a) /\ Len(a) <= Len(before)
      /\ \A i \in 1 .. Len(a) : a[i] = before[i]
      /\ a # <<>> => a[Len(a)] # "none"
      /\ Len(a) < Len(before) => Len(a) = Len(before) - 1 /\ before[Len(before)] = "none"
  BY <1>2, TrimmedMerged
<1> HIDE DEF a
<1>4. /\ b \in Seq(Event) /\ Merged(b) /\ Len(b) <= Len(a)
      /\ \A i \in 1 .. Len(b) : b[i] = a[i]
      /\ b # <<>> => b[Len(b)] # e
      /\ Len(b) < Len(a) => Len(b) = Len(a) - 1 /\ a[Len(a)] = e
  BY <1>3, TrimmedMerged
<1> HIDE DEF b
<1>5. /\ r \in Seq(Event) /\ Len(r) = Len(b) + 1 /\ r[Len(r)] = e /\ Len(b) \in Nat /\ r # <<>>
      /\ \A i \in 1 .. Len(b) : r[i] = b[i]
  <2>1. b \in Seq(Event) BY <1>4
  <2> QED BY <2>1
<1> HIDE DEF r
<1>6. b # <<>> => b[Len(b)] # "none"
  <2>1. SUFFICES ASSUME b # <<>> PROVE b[Len(b)] # "none" OBVIOUS
  <2>2. Len(b) \in 1 .. Len(b) /\ Len(a) \in Nat /\ a # <<>> BY <1>3, <1>4, <2>1
  <2>3. b[Len(b)] = a[Len(b)] BY <1>4, <2>2
  <2>4. CASE Len(b) = Len(a) BY <1>3, <2>2, <2>3, <2>4
  <2>5. CASE Len(b) < Len(a)
    <3>1. Len(b) = Len(a) - 1 BY <1>4, <2>5
    <3>2. Len(b) \in 1 .. Len(a) - 1 BY <2>2, <3>1
    <3> QED BY <1>3, <2>3, <3>2 DEF Merged
  <2> QED BY <1>4, <2>2, <2>4, <2>5
<1>7. Merged(r)
  <2>1. ASSUME NEW i \in 1 .. Len(r) - 1
        PROVE  /\ r[i] # "none" /\ r[i] # r[i + 1]
               /\ r[i + 1] = "stopped" => r[i] = "completed" /\ i = 1
    <3>1. i \in 1 .. Len(b) BY <1>5
    <3>2. CASE i < Len(b)
      <4>1. i \in 1 .. Len(b) - 1 /\ i + 1 \in 1 .. Len(b) BY <3>1, <3>2, <1>5
      <4>2. r[i] = b[i] /\ r[i + 1] = b[i + 1] BY <1>5, <4>1
      <4> QED BY <1>4, <4>1, <4>2 DEF Merged
    <3>3. CASE i = Len(b)
      <4>1. r[i] = b[Len(b)] /\ r[i + 1] = e /\ b # <<>> BY <1>5, <3>1, <3>3
      <4>2. ASSUME e = "stopped" PROVE r[i] = "completed" /\ i = 1
        <5>1. Len(b) <= 1 /\ i = 1 BY <1>2, <1>3, <1>4, <1>5, <3>1, <3>3, <4>2
        <5>2. 1 \in 1 .. Len(b) /\ 1 \in 1 .. Len(a) /\ 1 \in 1 .. Len(before)
          BY <1>2, <1>3, <1>4, <3>3, <5>1
        <5>3. b[1] = before[1] BY <1>3, <1>4, <5>2
        <5> QED BY <1>2, <1>5, <4>2, <5>1, <5>2, <5>3
      <4> QED BY <1>4, <1>6, <4>1, <4>2
    <3> QED BY <3>1, <3>2, <3>3
  <2> QED BY <2>1 DEF Merged
<1>8. ASSUME e = "completed" \/ "completed" \in Range(q) PROVE "completed" \in Range(r)
  <2>1. DOMAIN r = 1 .. Len(r) /\ Len(r) \in 1 .. Len(r) BY <1>5
  <2>2. CASE e = "completed" BY <1>5, <2>1, <2>2 DEF Range
  <2>3. CASE e # "completed"
    <3>1. PICK i \in 1 .. Len(before) : before[i] = "completed"
      BY <1>2, <1>8, <2>3 DEF Range
    <3>2. i \in 1 .. Len(a) /\ a[i] = "completed"
      <4>1. Len(before) \in Nat /\ Len(a) \in Nat BY <1>2, <1>3
      <4>2. i = Len(before) => ~ (Len(a) < Len(before)) BY <1>3, <3>1
      <4>3. i \in 1 .. Len(a) BY <1>3, <3>1, <4>1, <4>2
      <4> QED BY <1>3, <3>1, <4>3
    <3>3. i \in 1 .. Len(b) /\ b[i] = "completed"
      <4>1. Len(b) \in Nat /\ Len(a) \in Nat BY <1>3, <1>4
      <4>2. i = Len(a) => ~ (Len(b) < Len(a)) BY <1>4, <2>3, <3>2
      <4>3. i \in 1 .. Len(b) BY <1>4, <3>2, <4>1, <4>2
      <4> QED BY <1>4, <3>2, <4>3
    <3>4. r[i] = "completed" /\ i \in DOMAIN r BY <1>5, <2>1, <3>3
    <3> QED BY <3>4 DEF Range
  <2> QED BY <2>2, <2>3
<1> QED BY <1>1, <1>5, <1>7, <1>8

-----------------------------------------------------------------------------
\* The requests that are under way.

Announces(t) == {r \in Request : r.kind = "announce" /\ r.torrent = t}
Completions(t) == {r \in Announces(t) : r.event = "completed"}
Goings(t) == {r \in Announces(t) : r.event # "stopped"}
Scrapes(t, c) == {r \in Request : r.kind = "scrape" /\ r.torrent = t /\ r.tracker = c}
StopRequests == {r \in Request : r.event = "stopped"}

\* How many requests of S the web client and the session thread have.
UnderWay ==
  [S \in SUBSET Request |-> Count(queued, S) + Count(fetching, S) + Count(answers, S)]

Requested == queued \in Seq(Request) /\ fetching \in Seq(Request) /\ answers \in Seq(Request)

LEMMA UnderWayType ==
  ASSUME Requested
  PROVE  UnderWay \in [SUBSET Request -> Nat]
<1>1. ASSUME NEW S \in SUBSET Request
      PROVE  Count(queued, S) + Count(fetching, S) + Count(answers, S) \in Nat
  <2>1. Count(queued, S) \in Nat /\ Count(fetching, S) \in Nat /\ Count(answers, S) \in Nat
    BY CountType DEF Requested
  <2> QED BY <2>1
<1> QED BY <1>1 DEF UnderWay

\* The same after a step.
LEMMA UnderWayTypeNext ==
  ASSUME Requested'
  PROVE  UnderWay' \in [SUBSET Request -> Nat]
<1>1. ASSUME NEW S \in SUBSET Request
      PROVE  Count(queued', S) + Count(fetching', S) + Count(answers', S) \in Nat
  <2>1. Count(queued', S) \in Nat /\ Count(fetching', S) \in Nat /\ Count(answers', S) \in Nat
    BY CountType DEF Requested
  <2> QED BY <2>1
<1> QED BY <1>1 DEF UnderWay

\* The sets above, as sets of requests.
LEMMA RequestSets ==
  ASSUME NEW t, NEW c
  PROVE  /\ Announces(t) \in SUBSET Request /\ Completions(t) \in SUBSET Request
         /\ Goings(t) \in SUBSET Request /\ Scrapes(t, c) \in SUBSET Request
         /\ StopRequests \in SUBSET Request
BY DEF Announces, Completions, Goings, Scrapes, StopRequests

\* They are all the requests in flight.
LEMMA UnderWayInFlight ==
  ASSUME Requested, NEW S \in SUBSET Request
  PROVE  UnderWay[S] = Cardinality(Hits(InFlight, S)) /\ InFlight \in Seq(Request)
<1>1. queued \o fetching \in Seq(Request) /\ InFlight = (queued \o fetching) \o answers
  BY DEF Requested, InFlight
<1>2. Count(queued \o fetching, S) = Count(queued, S) + Count(fetching, S)
  BY CountConcat DEF Requested
<1>3. Count((queued \o fetching) \o answers, S) = Count(queued \o fetching, S) + Count(answers, S)
  BY <1>1, CountConcat DEF Requested
<1>4. Count(InFlight, S) = Count((queued \o fetching) \o answers, S) BY <1>1
<1>5. UnderWay[S] = Count(queued, S) + Count(fetching, S) + Count(answers, S) BY DEF UnderWay
<1>6. (queued \o fetching) \o answers \in Seq(Request) BY <1>1 DEF Requested
<1> QED BY <1>1, <1>2, <1>3, <1>4, <1>5, <1>6 DEF Count

\* What changes no queue changes no number.
LEMMA UnderWayUnchanged ==
  ASSUME UNCHANGED <<queued, fetching, answers>>, Requested
  PROVE  Requested' /\ UnderWay' = UnderWay
BY DEF Requested, UnderWay

\* The web client's thread only moves requests on.
LEMMA WebMovesRequests ==
  ASSUME WebThread, Requested
  PROVE  Requested' /\ UnderWay' = UnderWay
<1> DEFINE Moved(S) ==
             Count(queued', S) + Count(fetching', S) + Count(answers', S)
             = Count(queued, S) + Count(fetching, S) + Count(answers, S)
<1>1. SUFFICES ASSUME NEW S PROVE Requested' /\ Moved(S)
  BY DEF UnderWay
<1>2. Count(queued, S) \in Nat /\ Count(fetching, S) \in Nat /\ Count(answers, S) \in Nat
  BY CountType DEF Requested
<1>3. <<>> \in Seq(Request) /\ Count(<<>>, S) = 0 BY CountEmpty
<1>4. CASE WebCheck
  <2>1. CASE deadline = "reached"
    <3>1. fetching' = <<>> /\ answers' = answers \o fetching /\ queued' = queued
      BY <1>4, <2>1 DEF WebCheck
    <3>2. Count(answers \o fetching, S) = Count(answers, S) + Count(fetching, S)
      BY CountConcat DEF Requested
    <3>3. Requested' BY <3>1 DEF Requested
    <3> QED BY <1>2, <1>3, <3>1, <3>2, <3>3
  <2>2. CASE deadline # "reached" BY <1>4, <2>2 DEF WebCheck, Requested
  <2> QED BY <2>1, <2>2
<1>5. CASE WebLock
  <2>1. CASE StopWaiting
    <3>1. fetching' = fetching \o queued /\ queued' = <<>> /\ answers' = answers
      BY <1>5, <2>1 DEF WebLock
    <3>2. Count(fetching \o queued, S) = Count(fetching, S) + Count(queued, S)
      BY CountConcat DEF Requested
    <3>3. Requested' BY <3>1 DEF Requested
    <3> QED BY <1>2, <1>3, <3>1, <3>2, <3>3
  <2>2. CASE ~ StopWaiting BY <1>5, <2>2 DEF WebLock, Requested
  <2> QED BY <2>1, <2>2
<1>6. CASE WebLoop BY <1>6 DEF WebLoop, Requested
<1>7. ASSUME NEW i \in DOMAIN fetching, WebFinish(i) PROVE Requested' /\ Moved(S)
  <2>1. i \in 1 .. Len(fetching) /\ fetching[i] \in Request BY DEF Requested
  <2>2. /\ fetching' = RemoveAt(fetching, i) /\ queued' = queued
        /\ answers' = Append(answers, fetching[i])
    BY <1>7 DEF WebFinish
  <2>3. /\ RemoveAt(fetching, i) \in Seq(Request)
        /\ Count(fetching, S)
           = Count(RemoveAt(fetching, i), S) + (IF fetching[i] \in S THEN 1 ELSE 0)
    BY <2>1, CountRemoveAt DEF Requested
  <2>4. Count(Append(answers, fetching[i]), S)
        = Count(answers, S) + (IF fetching[i] \in S THEN 1 ELSE 0)
    BY <2>1, CountAppend DEF Requested
  <2>5. Requested' BY <2>1, <2>2, <2>3 DEF Requested
  <2>6. Count(RemoveAt(fetching, i), S) \in Nat BY <2>3, CountType
  <2> QED BY <1>2, <2>2, <2>3, <2>4, <2>5, <2>6
<1> QED BY <1>4, <1>5, <1>6, <1>7 DEF WebThread

\* The session thread takes the first answer.
LEMMA AnswerTaken ==
  ASSUME Requested, answers # <<>>, answers' = Tail(answers), UNCHANGED <<queued, fetching>>
  PROVE  /\ Requested' /\ Head(answers) \in Request
         /\ \A S \in SUBSET Request :
              UnderWay[S] = UnderWay'[S] + (IF Head(answers) \in S THEN 1 ELSE 0)
<1>1. Requested' /\ Head(answers) \in Request BY DEF Requested
<1>2. ASSUME NEW S \in SUBSET Request
      PROVE  UnderWay[S] = UnderWay'[S] + (IF Head(answers) \in S THEN 1 ELSE 0)
  <2>1. Count(answers, S) = Count(Tail(answers), S) + (IF Head(answers) \in S THEN 1 ELSE 0)
    BY CountTail DEF Requested
  <2>2. Tail(answers) \in Seq(Request) BY DEF Requested
  <2>5. Count(queued, S) \in Nat /\ Count(fetching, S) \in Nat /\ Count(Tail(answers), S) \in Nat
    BY <2>2, CountType DEF Requested
  <2>3. UnderWay[S] = Count(queued, S) + Count(fetching, S) + Count(answers, S) BY DEF UnderWay
  <2>4. UnderWay'[S] = Count(queued, S) + Count(fetching, S) + Count(Tail(answers), S)
    BY DEF UnderWay
  <2> QED BY <2>1, <2>3, <2>4, <2>5
<1> QED BY <1>1, <1>2

\* More is fetched.
LEMMA MoreFetched ==
  ASSUME Requested, NEW more \in Seq(Request), queued' = queued \o more,
         UNCHANGED <<fetching, answers>>
  PROVE  Requested' /\ \A S \in SUBSET Request : UnderWay'[S] = UnderWay[S] + Count(more, S)
<1>1. Requested' BY DEF Requested
<1>2. ASSUME NEW S \in SUBSET Request PROVE UnderWay'[S] = UnderWay[S] + Count(more, S)
  <2>1. Count(queued \o more, S) = Count(queued, S) + Count(more, S) BY CountConcat DEF Requested
  <2>2. /\ Count(queued, S) \in Nat /\ Count(fetching, S) \in Nat
        /\ Count(answers, S) \in Nat /\ Count(more, S) \in Nat
    BY CountType DEF Requested
  <2>3. UnderWay[S] = Count(queued, S) + Count(fetching, S) + Count(answers, S) BY DEF UnderWay
  <2>4. UnderWay'[S] = Count(queued \o more, S) + Count(fetching, S) + Count(answers, S)
    BY DEF UnderWay
  <2> QED BY <2>1, <2>2, <2>3, <2>4
<1> QED BY <1>1, <1>2

\* The requests whose answers are for the tier of t.
Concerns(t) == {r \in Request : r.kind # "orphan" /\ r.torrent = t}

LEMMA ConcernsType ==
  ASSUME NEW t, NEW c
  PROVE  /\ Announces(t) \in SUBSET Concerns(t) /\ Completions(t) \in SUBSET Concerns(t)
         /\ Goings(t) \in SUBSET Concerns(t) /\ Scrapes(t, c) \in SUBSET Concerns(t)
         /\ Concerns(t) \in SUBSET Request
BY DEF Concerns, Announces, Completions, Goings, Scrapes

LEMMA OrphanedOneType ==
  ASSUME NEW r \in Request, NEW T, NEW kinds
  PROVE  /\ OrphanedOne(r, T, kinds) \in Request
         /\ OrphanedOne(r, T, kinds) \in StopRequests <=> r \in StopRequests
<1>1. \A e \in Event : OrphanTask(e) \in Request /\ (OrphanTask(e).event = "stopped" <=> e = "stopped")
  BY DEF OrphanTask, Request, Event
<1>2. r.event \in Event BY DEF Request, Event
<1> QED BY <1>1, <1>2 DEF OrphanedOne, StopRequests

\* The tiers of T forget their announces, and maybe their scrapes; stops are counted
\* all the same, and more of them are sent.
LEMMA RequestsOrphaned ==
  ASSUME Requested, NEW T \in SUBSET Torrents, NEW kinds, "announce" \in kinds,
         NEW more \in Seq(Request), \A i \in 1 .. Len(more) : more[i] = OrphanTask("stopped"),
         Orphan(T, kinds, more)
  PROVE  /\ Requested'
         /\ \A t \in T : UnderWay'[Announces(t)] = 0
         /\ \A t \in Torrents \ T : \A S \in SUBSET Concerns(t) : UnderWay'[S] = UnderWay[S]
         /\ UnderWay'[StopRequests] = UnderWay[StopRequests] + Len(more)
<1> DEFINE O(r) == OrphanedOne(r, T, kinds)
           Os(s) == Orphaned(s, T, kinds)
<1>1. ASSUME NEW s \in Seq(Request)
      PROVE  Os(s) \in Seq(Request) /\ Len(Os(s)) = Len(s) /\ \A i \in 1 .. Len(s) : Os(s)[i] = O(s[i])
  <2>1. DOMAIN s = 1 .. Len(s) /\ Len(s) \in Nat /\ \A i \in 1 .. Len(s) : s[i] \in Request
    OBVIOUS
  <2>2. Os(s) = [i \in 1 .. Len(s) |-> O(s[i])] BY <2>1 DEF Orphaned
  <2>3. \A i \in 1 .. Len(s) : O(s[i]) \in Request BY <2>1, OrphanedOneType
  <2> HIDE DEF O, Os
  <2> QED BY <2>1, <2>2, <2>3
<1>2. ASSUME NEW s \in Seq(Request), NEW S \in SUBSET Request, NEW R \in SUBSET Request,
             \A r \in Request : O(r) \in R <=> r \in S
      PROVE  Count(Os(s), R) = Count(s, S)
  <2>1. \A i \in 1 .. Len(s) : Os(s)[i] \in R <=> s[i] \in S BY <1>1, <1>2
  <2> HIDE DEF O, Os
  <2> QED BY <1>1, <2>1, CountAlike
<1>3. /\ queued' = Os(queued) \o more /\ fetching' = Os(fetching) /\ answers' = Os(answers)
  BY DEF Orphan
<1>4. Os(queued) \in Seq(Request) /\ Os(fetching) \in Seq(Request) /\ Os(answers) \in Seq(Request)
  BY <1>1 DEF Requested
<1>5. Requested' BY <1>3, <1>4 DEF Requested
<1>6. ASSUME NEW S \in SUBSET Request, NEW R \in SUBSET Request,
             \A r \in Request : O(r) \in R <=> r \in S
      PROVE  UnderWay'[R] = UnderWay[S] + Count(more, R)
  <2>1. /\ Count(Os(queued), R) = Count(queued, S) /\ Count(Os(fetching), R) = Count(fetching, S)
        /\ Count(Os(answers), R) = Count(answers, S)
    BY <1>2, <1>6 DEF Requested
  <2> HIDE DEF Os
  <2>2. Count(Os(queued) \o more, R) = Count(Os(queued), R) + Count(more, R)
    BY <1>4, CountConcat
  <2>3. UnderWay'[R] = Count(Os(queued) \o more, R) + Count(Os(fetching), R) + Count(Os(answers), R)
    BY <1>3 DEF UnderWay
  <2>4. UnderWay[S] = Count(queued, S) + Count(fetching, S) + Count(answers, S) BY DEF UnderWay
  <2>5. /\ Count(queued, S) \in Nat /\ Count(fetching, S) \in Nat
        /\ Count(answers, S) \in Nat /\ Count(more, R) \in Nat
    BY CountType DEF Requested
  <2> QED BY <2>1, <2>2, <2>3, <2>4, <2>5
<1>7. OrphanTask("stopped").kind = "orphan" /\ OrphanTask("stopped").event = "stopped"
      /\ OrphanTask("stopped") \in Request
  BY DEF OrphanTask, Request
<1>8. UnderWay \in [SUBSET Request -> Nat] BY UnderWayType
<1>9. ASSUME NEW t \in T PROVE UnderWay'[Announces(t)] = 0
  <2>1. \A r \in Request : O(r) \notin Announces(t)
    BY <1>7, <1>9 DEF OrphanedOne, OrphanTask, Announces
  <2>2. \A i \in 1 .. Len(more) : more[i] \notin Announces(t) BY <1>7 DEF Announces
  <2>3. Count(more, Announces(t)) = 0 BY <2>2, CountNone
  <2>4. {} \in SUBSET Request /\ Announces(t) \in SUBSET Request BY DEF Announces
  <2>5. UnderWay'[Announces(t)] = UnderWay[{}] + Count(more, Announces(t)) BY <1>6, <2>1, <2>4
  <2>6. UnderWay[{}] = 0
    <3>1. Count(queued, {}) = 0 /\ Count(fetching, {}) = 0 /\ Count(answers, {}) = 0
      BY CountNone DEF Requested
    <3>2. UnderWay[{}] = Count(queued, {}) + Count(fetching, {}) + Count(answers, {})
      BY <2>4 DEF UnderWay
    <3> QED BY <3>1, <3>2
  <2> QED BY <2>3, <2>5, <2>6
<1>10. ASSUME NEW t \in Torrents \ T, NEW S \in SUBSET Concerns(t) PROVE UnderWay'[S] = UnderWay[S]
  <2>1. ASSUME NEW r \in Request PROVE O(r) \in S <=> r \in S
    <3>1. CASE r.kind \in kinds /\ r.torrent \in T
      <4>1. O(r).kind = "orphan" BY <3>1 DEF OrphanedOne, OrphanTask
      <4>2. O(r) \notin Concerns(t) BY <4>1 DEF Concerns
      <4>3. r \notin Concerns(t) BY <3>1 DEF Concerns
      <4> QED BY <4>2, <4>3
    <3>2. CASE ~ (r.kind \in kinds /\ r.torrent \in T) BY <3>2 DEF OrphanedOne
    <3> QED BY <3>1, <3>2
  <2>2. S \in SUBSET Request BY DEF Concerns
  <2>3. \A i \in 1 .. Len(more) : more[i] \notin S BY <1>7 DEF Concerns
  <2>4. Count(more, S) = 0 BY <2>3, CountNone
  <2>5. UnderWay'[S] = UnderWay[S] + Count(more, S) BY <1>6, <2>1, <2>2
  <2> QED BY <1>8, <2>2, <2>4, <2>5
<1>11. UnderWay'[StopRequests] = UnderWay[StopRequests] + Len(more)
  <2>1. \A r \in Request : O(r) \in StopRequests <=> r \in StopRequests BY OrphanedOneType
  <2>2. \A i \in 1 .. Len(more) : more[i] \in StopRequests BY <1>7 DEF StopRequests
  <2>3. Count(more, StopRequests) = Len(more) BY <2>2, CountAll
  <2>4. StopRequests \in SUBSET Request BY DEF StopRequests
  <2> QED BY <1>6, <2>1, <2>3, <2>4
<1> QED BY <1>5, <1>9, <1>10, <1>11

-----------------------------------------------------------------------------
\* The tiers.

OrderedTier == {x \in Tier : Merged(x.queue)}

\* A running torrent whose tier is x will announce what x has queued.
Lively(x) ==
  x.queue # <<>> => x.queue[Len(x.queue)] # "stopped" /\ x.at # "never"

LEMMA NewTierType == NewTier \in OrderedTier /\ NewTier.current = 1
<1>1. 1 \in 0 .. N BY AnnouncerAssumption
<1>2. NewTier \in Tier BY <1>1 DEF NewTier, Tier
<1>3. Merged(<<>>) BY DEF Merged
<1> QED BY <1>2, <1>3 DEF NewTier, OrderedTier

LEMMA PushType ==
  ASSUME NEW x \in OrderedTier, NEW e \in Event, NEW at \in {"never", "due", "later"}
  PROVE  LET y == Push(x, e, at)
         IN /\ y \in OrderedTier /\ y.queue # <<>> /\ y.at = at /\ y.current = x.current
            /\ y.announcing = x.announcing /\ y.scraping = x.scraping
            /\ e = "completed" \/ "completed" \in Range(x.queue) => "completed" \in Range(y.queue)
            /\ e # "stopped" /\ at # "never" => Lively(y)
<1> DEFINE q == Pushed(x.queue, e)
           y == Push(x, e, at)
<1>1. x \in Tier /\ Merged(x.queue) /\ x.queue \in Seq(Event) BY DEF OrderedTier, Tier
<1>2. /\ q \in Seq(Event) /\ Merged(q) /\ q # <<>> /\ q[Len(q)] = e
      /\ e = "completed" \/ "completed" \in Range(x.queue) => "completed" \in Range(q)
  BY <1>1, PushedMerged
<1>3. y = [x EXCEPT !.queue = q, !.at = at] BY DEF Push
<1> HIDE DEF q
<1>4. /\ y.queue = q /\ y.at = at /\ y.current = x.current
      /\ y.announcing = x.announcing /\ y.scraping = x.scraping
  BY <1>1, <1>3 DEF Tier
<1>5. y \in Tier BY <1>1, <1>2, <1>3 DEF Tier
<1> HIDE DEF y
<1> QED BY <1>2, <1>4, <1>5 DEF OrderedTier, Lively, y

LEMMA NextTrackerType ==
  ASSUME NEW x \in OrderedTier
  PROVE  LET y == NextTracker(x)
         IN /\ y \in OrderedTier /\ y.queue = x.queue /\ y.at = x.at
            /\ ~ y.announcing /\ ~ y.scraping
<1> DEFINE c == (x.current % N) + 1
           y == NextTracker(x)
<1>1. x \in Tier /\ Merged(x.queue) BY DEF OrderedTier
<1>2. c \in 0 .. N
  <2>1. x.current \in Nat /\ N \in Nat /\ N > 0 BY <1>1, AnnouncerAssumption DEF Tier
  <2>2. x.current % N \in 0 .. N - 1 BY <2>1
  <2> QED BY <2>1, <2>2
<1>3. y = [x EXCEPT !.current = c, !.announcing = FALSE, !.scraping = FALSE] BY DEF NextTracker
<1> HIDE DEF c
<1>4. y.queue = x.queue /\ y.at = x.at /\ ~ y.announcing /\ ~ y.scraping BY <1>1, <1>3 DEF Tier
<1>5. y \in Tier BY <1>1, <1>2, <1>3 DEF Tier
<1> HIDE DEF y
<1> QED BY <1>1, <1>4, <1>5 DEF OrderedTier, y

LEMMA AnnounceFailedType ==
  ASSUME NEW x \in OrderedTier, NEW e \in Event, NEW reply
  PROVE  LET y == AnnounceFailed(x, e, reply)
         IN /\ y \in OrderedTier /\ ~ y.announcing /\ ~ y.scraping
            /\ "completed" \in Range(x.queue) => "completed" \in Range(y.queue)
            /\ reply # "unregistered" =>
                 /\ y.queue # <<>>
                 /\ e = "completed" => "completed" \in Range(y.queue)
                 /\ e # "stopped" => Lively(y)
<1> DEFINE z == [x EXCEPT !.told = FALSE]
           n == NextTracker(z)
           y == AnnounceFailed(x, e, reply)
<1>1. z \in OrderedTier /\ z.queue = x.queue BY DEF OrderedTier, Tier
<1> HIDE DEF z
<1>2. n \in OrderedTier /\ n.queue = z.queue /\ ~ n.announcing /\ ~ n.scraping
  BY <1>1, NextTrackerType
<1> HIDE DEF n
<1>3. y = IF reply = "unregistered" THEN n ELSE Push(n, e, "later") BY DEF AnnounceFailed, n, z
<1> HIDE DEF y
<1>4. CASE reply = "unregistered"
  <2>1. y = n BY <1>3, <1>4
  <2> QED BY <1>1, <1>2, <1>4, <2>1 DEF y
<1>5. CASE reply # "unregistered"
  <2>1. y = Push(n, e, "later") BY <1>3, <1>5
  <2>2. /\ Push(n, e, "later") \in OrderedTier /\ Push(n, e, "later").queue # <<>>
        /\ Push(n, e, "later").announcing = n.announcing
        /\ Push(n, e, "later").scraping = n.scraping
        /\ e = "completed" \/ "completed" \in Range(n.queue)
             => "completed" \in Range(Push(n, e, "later").queue)
        /\ e # "stopped" => Lively(Push(n, e, "later"))
    BY <1>2, PushType
  <2> QED BY <1>1, <1>2, <2>1, <2>2 DEF y
<1> QED BY <1>4, <1>5

LEMMA AnnounceTakenType ==
  ASSUME NEW x \in OrderedTier, NEW r \in Request, r.kind = "announce"
  PROVE  LET y == AnnounceTaken(x, r)
         IN /\ y \in OrderedTier /\ ~ y.announcing
            /\ y.scraping = x.scraping /\ y.current = x.current
            /\ "completed" \in Range(x.queue) => "completed" \in Range(y.queue)
            /\ r.event # "stopped" /\ Lively(x) => y.queue # <<>> /\ Lively(y)
            /\ r.event = "stopped" => y.queue = x.queue /\ y.at = x.at
            /\ x.queue # <<>> => y.queue = x.queue /\ y.at = x.at
<1> DEFINE z == [x EXCEPT !.announcing = FALSE, !.told = r.running]
           y == AnnounceTaken(x, r)
<1>1. r.running \in BOOLEAN BY DEF Request
<1>2. /\ z \in OrderedTier /\ z.queue = x.queue /\ z.at = x.at /\ ~ z.announcing
      /\ z.scraping = x.scraping /\ z.current = x.current
  BY <1>1 DEF OrderedTier, Tier
<1> HIDE DEF z
<1>3. y = IF r.event # "stopped" /\ z.queue = <<>> THEN Push(z, "none", "later") ELSE z
  BY DEF AnnounceTaken, z
<1> HIDE DEF y
<1>4. CASE r.event # "stopped" /\ z.queue = <<>>
  <2>1. y = Push(z, "none", "later") BY <1>3, <1>4
  <2>2. "none" \in Event BY DEF Event
  <2>3. /\ Push(z, "none", "later") \in OrderedTier /\ Push(z, "none", "later").queue # <<>>
        /\ Push(z, "none", "later").announcing = z.announcing
        /\ Push(z, "none", "later").scraping = z.scraping
        /\ Push(z, "none", "later").current = z.current
        /\ "completed" \in Range(z.queue) => "completed" \in Range(Push(z, "none", "later").queue)
        /\ Lively(Push(z, "none", "later"))
    BY <1>2, <2>2, PushType
  <2> QED BY <1>2, <1>4, <2>1, <2>3 DEF y
<1>5. CASE ~ (r.event # "stopped" /\ z.queue = <<>>)
  <2>1. y = z BY <1>3, <1>5
  <2> QED BY <1>2, <1>5, <2>1 DEF y, Lively
<1> QED BY <1>4, <1>5

LEMMA BegunType ==
  ASSUME tier \in [Torrents -> OrderedTier], NEW t \in Torrents, NEW S, NEW A,
         t \in A => tier[t].queue # <<>>
  PROVE  LET x == tier[t]
             y == Begun(t, S, A)
         IN /\ y \in OrderedTier /\ y.current = x.current /\ y.at = x.at
            /\ y.scraping <=> x.scraping \/ t \in S
            /\ y.announcing <=> x.announcing \/ t \in A
            /\ y.queue = IF t \in A THEN Tail(x.queue) ELSE x.queue
<1> DEFINE x == tier[t]
           q == IF t \in A THEN Tail(x.queue) ELSE x.queue
           y == Begun(t, S, A)
<1>1. x \in Tier /\ x.queue \in Seq(Event) /\ Merged(x.queue) BY DEF OrderedTier, Tier
<1>2. q \in Seq(Event) /\ Merged(q)
  <2>1. CASE t \in A
    <3>1. x.queue # <<>> /\ q = Tail(x.queue) BY <2>1
    <3> DEFINE p == x.queue
    <3>2. /\ Tail(p) \in Seq(Event) /\ Len(Tail(p)) = Len(p) - 1 /\ Len(p) \in Nat
          /\ \A i \in 1 .. Len(p) - 1 : Tail(p)[i] = p[i + 1]
      BY <1>1, <3>1
    <3>3. Merged(p) BY <1>1
    <3> HIDE DEF p, q, x
    <3>4. ASSUME NEW i \in 1 .. Len(Tail(p)) - 1
          PROVE  /\ Tail(p)[i] # "none" /\ Tail(p)[i] # Tail(p)[i + 1]
                 /\ Tail(p)[i + 1] = "stopped" => Tail(p)[i] = "completed" /\ i = 1
      <4>1. /\ i \in 1 .. Len(p) - 1 /\ i + 1 \in 1 .. Len(p) - 1 /\ (i + 1) + 1 \in 1 .. Len(p)
        BY <3>2
      <4>2. Tail(p)[i] = p[i + 1] /\ Tail(p)[i + 1] = p[(i + 1) + 1] BY <3>2, <4>1
      <4>3. /\ p[i + 1] # "none" /\ p[i + 1] # p[(i + 1) + 1]
            /\ p[(i + 1) + 1] = "stopped" => p[i + 1] = "completed" /\ i + 1 = 1
        BY <3>3, <4>1 DEF Merged
      <4>4. i + 1 # 1 BY <4>1
      <4> QED BY <4>2, <4>3, <4>4
    <3>5. Merged(Tail(p)) BY <3>4 DEF Merged
    <3> QED BY <3>1, <3>2, <3>5 DEF p
  <2>2. CASE t \notin A BY <1>1, <2>2
  <2> QED BY <2>1, <2>2
<1>3. y = [x EXCEPT !.scraping = x.scraping \/ t \in S, !.announcing = x.announcing \/ t \in A,
                    !.queue = q]
  BY DEF Begun
<1> DEFINE s == x.scraping \/ t \in S
           a == x.announcing \/ t \in A
<1>4. s \in BOOLEAN /\ a \in BOOLEAN OBVIOUS
<1>5. y = [x EXCEPT !.scraping = s, !.announcing = a, !.queue = q] BY <1>3
<1>6. (s <=> x.scraping \/ t \in S) /\ (a <=> x.announcing \/ t \in A) OBVIOUS
<1>7. q = IF t \in A THEN Tail(x.queue) ELSE x.queue OBVIOUS
<1> HIDE DEF q, s, a
<1>8. /\ y.queue = q /\ y.scraping = s /\ y.announcing = a /\ y.current = x.current /\ y.at = x.at
  BY <1>1, <1>5 DEF Tier
<1>9. y \in Tier BY <1>1, <1>2, <1>4, <1>5 DEF Tier
<1> HIDE DEF y
<1>10. y \in OrderedTier BY <1>2, <1>8, <1>9 DEF OrderedTier
<1> HIDE DEF x
<1>11. (y.scraping <=> x.scraping \/ t \in S) /\ (y.announcing <=> x.announcing \/ t \in A)
  BY <1>6, <1>8
<1>12. y.queue = IF t \in A THEN Tail(x.queue) ELSE x.queue BY <1>7, <1>8
<1> QED BY <1>8, <1>10, <1>11, <1>12 DEF x, y

-----------------------------------------------------------------------------
\* The inductive invariant.

Types ==
  /\ Requested
  /\ deadline \in {"unset", "ahead", "reached"}
  /\ web \in {"check", "lock", "asleep", "perform", "gone"}
  /\ present \subseteq Torrents /\ running \subseteq present
  /\ tier \in [Torrents -> OrderedTier]
  /\ stops \subseteq Torrents
  /\ phase \in {"up", "closing", "closed", "deleted", "crashed"}
  /\ events \in 0 .. MaxEvents
  /\ silent \subseteq Torrents /\ slipped \subseteq Torrents /\ finished \subseteq Torrents

\* Tasks are accepted while the session is up, and no torrent outlives that.
Phases ==
  /\ phase = "up" => deadline = "unset"
  /\ phase \notin {"up", "crashed"} => present = {}

StopsCounted == pending = UnderWay[StopRequests]

\* Of a removed torrent nothing is left but stops.
Fresh(t) ==
  t \notin present => tier[t] = NewTier /\ UnderWay[Announces(t)] = 0 /\ t \notin finished

Waits(t) ==
  /\ tier[t].announcing => UnderWay[Announces(t)] > 0
  /\ tier[t].scraping => UnderWay[Scrapes(t, tier[t].current)] > 0

Once(t) ==
  t \notin slipped =>
    UnderWay[Announces(t)] <= 1 /\ (UnderWay[Announces(t)] > 0 => tier[t].announcing)

Told(t) ==
  t \in finished => "completed" \in Range(tier[t].queue) \/ UnderWay[Completions(t)] > 0

GoesOn(t) ==
  t \in running \ silent =>
    Lively(tier[t]) /\ (tier[t].queue = <<>> => UnderWay[Goings(t)] > 0)

Tended(t) == Fresh(t) /\ Waits(t) /\ Once(t) /\ Told(t) /\ GoesOn(t)

IInv == Types /\ Phases /\ StopsCounted /\ \A t \in Torrents : Tended(t)

-----------------------------------------------------------------------------
\* What a step does not touch of a torrent stays as it is.
LEMMA Untouched ==
  ASSUME NEW t \in Torrents, Tended(t),
         tier'[t] = tier[t], t \in present' <=> t \in present,
         t \in running' => t \in running, t \in silent' <=> t \in silent,
         t \in slipped' <=> t \in slipped, t \in finished' => t \in finished,
         \A S \in SUBSET Concerns(t) : UnderWay'[S] = UnderWay[S]
  PROVE  Tended(t)'
<1>1. /\ UnderWay'[Announces(t)] = UnderWay[Announces(t)]
      /\ UnderWay'[Completions(t)] = UnderWay[Completions(t)]
      /\ UnderWay'[Goings(t)] = UnderWay[Goings(t)]
      /\ UnderWay'[Scrapes(t, tier[t].current)] = UnderWay[Scrapes(t, tier[t].current)]
  BY ConcernsType
<1>2. UnderWay'[Scrapes(t, tier'[t].current)] = UnderWay[Scrapes(t, tier[t].current)] BY <1>1
<1>3. Fresh(t)' BY <1>1 DEF Tended, Fresh
<1>4. Waits(t)' BY <1>1, <1>2 DEF Tended, Waits
<1>5. Once(t)' BY <1>1 DEF Tended, Once
<1>6. Told(t)' BY <1>1 DEF Tended, Told
<1>7. GoesOn(t)' BY <1>1 DEF Tended, GoesOn, Lively
<1> QED BY <1>3, <1>4, <1>5, <1>6, <1>7 DEF Tended

\* An event for a tier, which is due at once.
LEMMA EventTold ==
  ASSUME NEW t \in Torrents, Tended(t), tier[t] \in OrderedTier, NEW e \in Event,
         tier'[t] = Push(tier[t], e, "due"), t \in present',
         t \in running' => e # "stopped",
         t \in slipped' <=> t \in slipped, t \in finished' => t \in finished \/ e = "completed",
         UnderWay' = UnderWay
  PROVE  Tended(t)'
<1> DEFINE y == tier'[t]
<1>1. /\ y \in OrderedTier /\ y.queue # <<>> /\ y.at = "due" /\ y.current = tier[t].current
      /\ y.announcing = tier[t].announcing /\ y.scraping = tier[t].scraping
      /\ e = "completed" \/ "completed" \in Range(tier[t].queue) => "completed" \in Range(y.queue)
      /\ e # "stopped" => Lively(y)
  BY PushType
<1>2. Fresh(t)' BY DEF Fresh
<1>3. Waits(t)' BY <1>1 DEF Tended, Waits
<1>4. Once(t)' BY <1>1 DEF Tended, Once
<1>5. Told(t)' BY <1>1 DEF Tended, Told
<1>6. GoesOn(t)' BY <1>1 DEF GoesOn, Lively
<1> QED BY <1>2, <1>3, <1>4, <1>5, <1>6 DEF Tended

\* A tier that begins anew, its announces orphaned.
LEMMA TierRenewed ==
  ASSUME NEW t \in Torrents, UnderWay'[Announces(t)] = 0,
         ~ tier'[t].announcing, ~ tier'[t].scraping,
         t \notin present' => tier'[t] = NewTier /\ t \notin finished',
         t \in finished' => "completed" \in Range(tier'[t].queue),
         t \in running' \ silent' => tier'[t].queue # <<>> /\ Lively(tier'[t])
  PROVE  Tended(t)'
<1>1. Fresh(t)' BY DEF Fresh
<1>2. Waits(t)' BY DEF Waits
<1>3. Once(t)' BY DEF Once
<1>4. Told(t)' BY DEF Told
<1>5. GoesOn(t)' BY DEF GoesOn, Lively
<1> QED BY <1>1, <1>2, <1>3, <1>4, <1>5 DEF Tended

LEMMA InitIInv == ASSUME Init PROVE IInv
<1>1. Requested /\ \A S : Count(queued, S) = 0 /\ Count(fetching, S) = 0 /\ Count(answers, S) = 0
  BY CountEmpty DEF Init, WebInit, Requested
<1>2. \A S \in SUBSET Request : UnderWay[S] = 0 BY <1>1 DEF UnderWay
<1>3. Types
  <2>1. NewTier \in OrderedTier BY NewTierType
  <2>2. 0 \in 0 .. MaxEvents BY AnnouncerAssumption
  <2> QED BY <1>1, <2>1, <2>2 DEF Init, WebInit, Types
<1>4. Phases BY DEF Init, WebInit, Phases
<1>5. StopsCounted BY <1>2, RequestSets DEF Init, StopsCounted
<1>6. ASSUME NEW t \in Torrents PROVE Tended(t)
  <2>1. tier[t] = NewTier /\ t \notin running /\ t \notin finished BY DEF Init
  <2>2. UnderWay[Announces(t)] = 0 BY <1>2, RequestSets
  <2>3. ~ tier[t].announcing /\ ~ tier[t].scraping BY <2>1 DEF NewTier
  <2> QED BY <2>1, <2>2, <2>3 DEF Tended, Fresh, Waits, Once, Told, GoesOn
<1> QED BY <1>3, <1>4, <1>5, <1>6 DEF IInv

LEMMA AddIInv ==
  ASSUME IInv, NEW u \in Torrents, Add(u) PROVE IInv'
<1>1. UNCHANGED webVars /\ Requested' /\ UnderWay' = UnderWay
  BY UnderWayUnchanged DEF IInv, Types, Add, webVars
<1>2. Types' BY <1>1 DEF IInv, Types, Add, webVars, history
<1>3. Phases' /\ StopsCounted' BY <1>1 DEF IInv, Phases, StopsCounted, Add, webVars
<1>4. ASSUME NEW t \in Torrents PROVE Tended(t)'
  <2>1. CASE t = u
    <3>1. t \in present' BY <2>1 DEF Add
    <3>2. UNCHANGED <<running, tier, silent, slipped, finished>> BY DEF Add, history
    <3> QED BY <1>1, <3>1, <3>2 DEF IInv, Tended, Fresh, Waits, Once, Told, GoesOn, Lively
  <2>2. CASE t # u BY <1>1, <2>2, Untouched DEF IInv, Add, history
  <2> QED BY <2>1, <2>2
<1> QED BY <1>2, <1>3, <1>4 DEF IInv

\* The steps that tell a tier an event have this much in common.
LEMMA TellIInv ==
  ASSUME IInv, NEW u \in Torrents, NEW e \in Event, phase = "up", u \in present, Tell(u, e),
         UNCHANGED <<webVars, present, stops, pending, phase, slipped>>,
         events' \in 0 .. MaxEvents,
         silent' = silent \ {u} \/ silent' = silent,
         finished' = finished \/ (e = "completed" /\ finished' = finished \cup {u}),
         \/ running' = running /\ (e # "stopped" \/ u \notin running)
         \/ running' = running \cup {u} /\ e # "stopped"
         \/ running' = running \ {u}
  PROVE  IInv'
<1>1. Requested' /\ UnderWay' = UnderWay
  BY UnderWayUnchanged DEF IInv, Types, webVars
<1>2. tier' = [tier EXCEPT ![u] = Push(tier[u], e, "due")] BY DEF Tell
<1>3. Push(tier[u], e, "due") \in OrderedTier BY PushType DEF IInv, Types
<1>4. tier' \in [Torrents -> OrderedTier] BY <1>2, <1>3 DEF IInv, Types
<1>5. Types' BY <1>1, <1>4 DEF IInv, Types, webVars
<1>6. Phases' /\ StopsCounted' BY <1>1 DEF IInv, Phases, StopsCounted, webVars
<1>7. ASSUME NEW t \in Torrents PROVE Tended(t)'
  <2>1. CASE t = u
    <3>1. tier'[t] = Push(tier[t], e, "due") /\ tier[t] \in OrderedTier
      BY <1>2, <2>1 DEF IInv, Types
    <3>2. /\ Tended(t) /\ t \in present' /\ (t \in slipped' <=> t \in slipped)
          /\ t \in finished' => t \in finished \/ e = "completed"
          /\ t \in running' => e # "stopped"
      BY <2>1 DEF IInv
    <3> QED BY <1>1, <3>1, <3>2, EventTold
  <2>2. CASE t # u
    <3>1. tier'[t] = tier[t] /\ Tended(t) BY <1>2, <2>2 DEF IInv, Types
    <3>2. /\ t \in present' <=> t \in present
          /\ t \in running' => t \in running
          /\ t \in silent' <=> t \in silent
          /\ t \in slipped' <=> t \in slipped
          /\ t \in finished' => t \in finished
      BY <2>2
    <3> QED BY <1>1, <3>1, <3>2, Untouched
  <2> QED BY <2>1, <2>2
<1> QED BY <1>5, <1>6, <1>7 DEF IInv

LEMMA UserIInv ==
  ASSUME IInv, NEW u \in Torrents,
         Start(u) \/ Stop(u) \/ Complete(u) \/ \E e \in {"started", "none"} : Again(u, e)
  PROVE  IInv'
<1>1. /\ events \in 0 .. MaxEvents /\ MaxEvents \in Nat
      /\ User => events' \in 0 .. MaxEvents
  BY AnnouncerAssumption DEF IInv, Types, User
<1>2. running \subseteq present BY DEF IInv, Types
<1>3. CASE Start(u)
  <2>1. "started" \in Event /\ Tell(u, "started") BY <1>3 DEF Start, Event
  <2>2. /\ phase = "up" /\ u \in present /\ running' = running \cup {u}
        /\ silent' = silent \ {u} /\ finished' = finished /\ events' = events
        /\ UNCHANGED <<webVars, present, stops, pending, phase, slipped>>
    BY <1>3 DEF Start
  <2> QED BY <1>1, <2>1, <2>2, TellIInv
<1>4. CASE Stop(u)
  <2>1. "stopped" \in Event /\ Tell(u, "stopped") BY <1>4 DEF Stop, Event
  <2>2. /\ phase = "up" /\ u \in present /\ running' = running \ {u}
        /\ silent' = silent /\ finished' = finished /\ events' \in 0 .. MaxEvents
        /\ UNCHANGED <<webVars, present, stops, pending, phase, slipped>>
    BY <1>1, <1>4 DEF Stop, history, User
  <2> QED BY <2>1, <2>2, TellIInv
<1>5. CASE Complete(u)
  <2>1. "completed" \in Event /\ Tell(u, "completed") BY <1>5 DEF Complete, Event
  <2>2. /\ phase = "up" /\ u \in present /\ running' = running
        /\ silent' = silent \ {u} /\ finished' = finished \cup {u} /\ events' \in 0 .. MaxEvents
        /\ UNCHANGED <<webVars, present, stops, pending, phase, slipped>>
    BY <1>1, <1>5 DEF Complete, User
  <2> QED BY <2>1, <2>2, TellIInv
<1>6. ASSUME NEW e \in {"started", "none"}, Again(u, e) PROVE IInv'
  <2>1. e \in Event /\ Tell(u, e) /\ e # "stopped" BY <1>6 DEF Again, Event
  <2>2. /\ phase = "up" /\ u \in present /\ running' = running
        /\ silent' = silent \ {u} /\ finished' = finished /\ events' \in 0 .. MaxEvents
        /\ UNCHANGED <<webVars, present, stops, pending, phase, slipped>>
    BY <1>1, <1>2, <1>6 DEF Again, User
  <2> QED BY <2>1, <2>2, TellIInv
<1> QED BY <1>3, <1>4, <1>5, <1>6

LEMMA DueIInv == ASSUME IInv, NEW u \in Torrents, Due(u) PROVE IInv'
<1>1. UNCHANGED webVars /\ Requested' /\ UnderWay' = UnderWay
  BY UnderWayUnchanged DEF IInv, Types, Due, webVars
<1>2. tier' = [tier EXCEPT ![u].at = "due"] /\ tier \in [Torrents -> OrderedTier]
  BY DEF Due, IInv, Types
<1> DEFINE x == tier[u]
           y == [x EXCEPT !.at = "due"]
<1>3. /\ y \in OrderedTier /\ y.queue = x.queue /\ y.at = "due" /\ y.current = x.current
      /\ y.announcing = x.announcing /\ y.scraping = x.scraping
  BY <1>2 DEF OrderedTier, Tier
<1>4. tier'[u] = y /\ \A t \in Torrents : t # u => tier'[t] = tier[t] BY <1>2
<1>5. tier' \in [Torrents -> OrderedTier] BY <1>2, <1>3
<1>6. Types' BY <1>1, <1>5 DEF IInv, Types, Due, webVars, history
<1>7. Phases' /\ StopsCounted' BY <1>1 DEF IInv, Phases, StopsCounted, Due, webVars
<1> HIDE DEF y
<1>8. UNCHANGED <<present, running, silent, slipped, finished>> /\ u \in present
  BY DEF Due, history
<1>9. ASSUME NEW t \in Torrents PROVE Tended(t)'
  <2>1. CASE t = u
    <3>1. Fresh(t)' BY <1>8, <2>1 DEF Fresh
    <3>2. Tended(t) BY DEF IInv
    <3>3. Waits(t)' BY <1>1, <1>3, <1>4, <2>1, <3>2 DEF Tended, Waits
    <3>4. Once(t)' BY <1>1, <1>3, <1>4, <1>8, <2>1, <3>2 DEF Tended, Once
    <3>5. Told(t)' BY <1>1, <1>3, <1>4, <1>8, <2>1, <3>2 DEF Tended, Told
    <3>6. GoesOn(t)' BY <1>1, <1>3, <1>4, <1>8, <2>1, <3>2 DEF Tended, GoesOn, Lively
    <3> QED BY <3>1, <3>3, <3>4, <3>5, <3>6 DEF Tended
  <2>2. CASE t # u BY <1>1, <1>4, <1>8, <2>2, Untouched DEF IInv
  <2> QED BY <2>1, <2>2
<1> QED BY <1>6, <1>7, <1>9 DEF IInv

\* Steps that leave torrents and tiers alone, and lose no request.
LEMMA FrameIInv ==
  ASSUME IInv, Requested', UnderWay' = UnderWay, Phases',
         UNCHANGED <<present, running, tier, stops, pending, events, silent, slipped, finished>>,
         deadline' \in {"unset", "ahead", "reached"},
         web' \in {"check", "lock", "asleep", "perform", "gone"},
         phase' \in {"up", "closing", "closed", "deleted", "crashed"}
  PROVE  IInv'
<1>1. Types' BY DEF IInv, Types
<1>2. StopsCounted' BY DEF IInv, StopsCounted
<1>3. \A t \in Torrents : Tended(t)' BY Untouched DEF IInv
<1> QED BY <1>1, <1>2, <1>3 DEF IInv

LEMMA SessionIInv ==
  ASSUME IInv, UpkeepCrashes \/ CloseDone \/ CloseLate \/ Destroy \/ Deleted
  PROVE  IInv'
<1>1. UNCHANGED <<queued, fetching, answers>>
  BY DEF UpkeepCrashes, CloseDone, CloseLate, Destroy, Deleted, StartShutdown, webVars
<1>2. Requested' /\ UnderWay' = UnderWay BY <1>1, UnderWayUnchanged DEF IInv, Types
<1>3. /\ UNCHANGED <<present, running, tier, stops, pending, events, silent, slipped, finished>>
      /\ deadline' \in {"unset", "ahead", "reached"} /\ UNCHANGED web
      /\ phase' \in {"up", "closing", "closed", "deleted", "crashed"}
  BY DEF UpkeepCrashes, CloseDone, CloseLate, Destroy, Deleted, StartShutdown, webVars,
         torrents, history, IInv, Types
<1>4. Phases'
  BY DEF UpkeepCrashes, CloseDone, CloseLate, Destroy, Deleted, StartShutdown, webVars,
         torrents, history, IInv, Phases
<1> QED BY <1>2, <1>3, <1>4, FrameIInv DEF IInv, Types

LEMMA WebIInv == ASSUME IInv, WebSteps PROVE IInv'
<1>1. Requested' /\ UnderWay' = UnderWay
  <2>1. CASE WebThread BY <2>1, WebMovesRequests DEF IInv, Types
  <2>2. CASE DeadlinePasses BY <2>2, UnderWayUnchanged DEF IInv, Types, DeadlinePasses
  <2> QED BY <2>1, <2>2 DEF WebSteps
<1>2. UNCHANGED <<present, running, tier, stops, pending, phase, events, silent, slipped, finished>>
  BY DEF WebSteps, Apart, torrents, history
<1>3. /\ deadline' = deadline \/ (deadline = "ahead" /\ deadline' = "reached")
      /\ web' \in {"check", "lock", "asleep", "perform", "gone"}
  <2>1. CASE WebThread
    <3>1. CASE WebCheck BY <3>1 DEF WebCheck
    <3>2. CASE WebLock
      <4>1. CASE StopWaiting BY <3>2, <4>1 DEF WebLock
      <4>2. CASE ~ StopWaiting BY <3>2, <4>2 DEF WebLock
      <4> QED BY <4>1, <4>2
    <3>3. CASE WebLoop BY <3>3 DEF WebLoop
    <3>4. ASSUME NEW i \in DOMAIN fetching, WebFinish(i)
          PROVE  deadline' = deadline /\ web' \in {"check", "lock", "asleep", "perform", "gone"}
      BY <3>4 DEF WebFinish, IInv, Types
    <3> QED BY <2>1, <3>1, <3>2, <3>3, <3>4 DEF WebThread
  <2>2. CASE DeadlinePasses BY <2>2 DEF DeadlinePasses, IInv, Types
  <2> QED BY <2>1, <2>2 DEF WebSteps
<1>4. Phases' BY <1>2, <1>3 DEF IInv, Phases
<1> QED BY <1>1, <1>2, <1>3, <1>4, FrameIInv DEF IInv, Types

LEMMA ResetIInv == ASSUME IInv, NEW u \in Torrents, Reset(u) PROVE IInv'
<1> DEFINE kept  == [NewTier EXCEPT !.queue = tier[u].queue, !.current = tier[u].current]
           moved == [NewTier EXCEPT !.queue = tier[u].queue, !.current = 0]
           first == [moved EXCEPT !.current = 1]
           begun == Push(first, "started", "due")
           y == tier'[u]
<1>1. tier[u] \in OrderedTier /\ tier \in [Torrents -> OrderedTier] BY DEF IInv, Types
<1>2. 0 \in 0 .. N /\ 1 \in 0 .. N BY AnnouncerAssumption
<1>3. /\ kept \in OrderedTier /\ moved \in OrderedTier /\ first \in OrderedTier
      /\ kept.at = "never" /\ moved.at = "never" /\ NewTier.at = "never"
      /\ ~ kept.announcing /\ ~ moved.announcing /\ ~ first.announcing /\ ~ NewTier.announcing
      /\ ~ kept.scraping /\ ~ moved.scraping /\ ~ first.scraping /\ ~ NewTier.scraping
  BY <1>1, <1>2 DEF OrderedTier, Tier, NewTier
<1>4. /\ begun \in OrderedTier /\ ~ begun.announcing /\ ~ begun.scraping
      /\ begun.queue # <<>> /\ Lively(begun)
  <2>1. "started" \in Event BY DEF Event
  <2> HIDE DEF first
  <2>2. /\ begun \in OrderedTier /\ begun.queue # <<>>
        /\ begun.announcing = first.announcing /\ begun.scraping = first.scraping
        /\ "started" # "stopped" /\ "due" # "never" => Lively(begun)
    BY <1>3, <2>1, PushType
  <2> QED BY <1>3, <2>2
<1>5. /\ \/ tier' = [tier EXCEPT ![u] = kept] \/ tier' = [tier EXCEPT ![u] = moved]
         \/ tier' = [tier EXCEPT ![u] = begun] \/ tier' = [tier EXCEPT ![u] = NewTier]
      /\ \/ Orphan({u}, {"announce"}, <<>>) \/ Orphan({u}, {"announce", "scrape"}, <<>>)
  BY DEF Reset
<1> HIDE DEF kept, moved, first, begun
<1>6. /\ y \in OrderedTier /\ ~ y.announcing /\ ~ y.scraping
      /\ y.at = "due" => y.queue # <<>> /\ Lively(y)
      /\ \A t \in Torrents : t # u => tier'[t] = tier[t]
      /\ tier' \in [Torrents -> OrderedTier]
  BY <1>1, <1>3, <1>4, <1>5, NewTierType
<1> HIDE DEF y
<1>7. /\ Requested' /\ UnderWay'[Announces(u)] = 0
      /\ \A t \in Torrents : t # u => \A S \in SUBSET Concerns(t) : UnderWay'[S] = UnderWay[S]
      /\ UnderWay'[StopRequests] = UnderWay[StopRequests]
  <2>1. /\ <<>> \in Seq(Request) /\ Len(<<>>) = 0
        /\ \A i \in 1 .. Len(<<>>) : <<>>[i] = OrphanTask("stopped")
    OBVIOUS
  <2>2. "announce" \in {"announce"} /\ "announce" \in {"announce", "scrape"} /\ {u} \in SUBSET Torrents
    OBVIOUS
  <2>3. Requested BY DEF IInv, Types
  <2>4. /\ Requested'
        /\ \A t \in {u} : UnderWay'[Announces(t)] = 0
        /\ \A t \in Torrents \ {u} : \A S \in SUBSET Concerns(t) : UnderWay'[S] = UnderWay[S]
        /\ UnderWay'[StopRequests] = UnderWay[StopRequests] + 0
    <3>1. CASE Orphan({u}, {"announce"}, <<>>) BY <2>1, <2>2, <2>3, <3>1, RequestsOrphaned
    <3>2. CASE Orphan({u}, {"announce", "scrape"}, <<>>)
      BY <2>1, <2>2, <2>3, <3>2, RequestsOrphaned
    <3> QED BY <1>5, <3>1, <3>2
  <2>5. UnderWay[StopRequests] \in Nat BY <2>3, UnderWayType, RequestSets
  <2> QED BY <2>4, <2>5
<1>8. /\ silent' = IF y.at = "due" THEN silent \ {u} ELSE silent \cup {u}
      /\ slipped' = slipped \ {u}
      /\ finished' = IF "completed" \in Range(y.queue) THEN finished ELSE finished \ {u}
      /\ UNCHANGED <<deadline, web, present, running, stops, pending, phase>>
      /\ User /\ u \in present
  BY DEF Reset, y
<1>9. Types'
  <2>1. events' \in 0 .. MaxEvents BY <1>8, AnnouncerAssumption DEF IInv, Types, User
  <2>2. silent' \subseteq Torrents /\ slipped' \subseteq Torrents /\ finished' \subseteq Torrents
    BY <1>8 DEF IInv, Types
  <2> QED BY <1>6, <1>7, <1>8, <2>1, <2>2 DEF IInv, Types
<1>10. Phases' /\ StopsCounted' BY <1>7, <1>8 DEF IInv, Phases, StopsCounted
<1>11. ASSUME NEW t \in Torrents PROVE Tended(t)'
  <2>1. CASE t = u
    <3>1. t \in present' BY <1>8, <2>1
    <3>2. t \in finished' => "completed" \in Range(tier'[t].queue) BY <1>8, <2>1 DEF y
    <3>3. t \in running' \ silent' => tier'[t].queue # <<>> /\ Lively(tier'[t])
      BY <1>6, <1>8, <2>1 DEF y
    <3> QED BY <1>6, <1>7, <2>1, <3>1, <3>2, <3>3, TierRenewed DEF y
  <2>2. CASE t # u
    <3>1. /\ t \in silent' <=> t \in silent
          /\ t \in slipped' <=> t \in slipped
          /\ t \in finished' => t \in finished
      BY <1>8, <2>2
    <3>2. tier'[t] = tier[t] /\ \A S \in SUBSET Concerns(t) : UnderWay'[S] = UnderWay[S]
      BY <1>6, <1>7, <2>2
    <3>3. UNCHANGED <<present, running>> /\ Tended(t) BY <1>8 DEF IInv
    <3> QED BY <3>1, <3>2, <3>3, Untouched
  <2> QED BY <2>1, <2>2
<1> QED BY <1>9, <1>10, <1>11 DEF IInv

LEMMA StopTasksType ==
  ASSUME NEW S \in SUBSET Torrents
  PROVE  /\ StopTasks(S) \in Seq(Request) /\ Len(StopTasks(S)) = Cardinality(S)
         /\ Cardinality(S) \in Nat /\ IsFiniteSet(S)
         /\ \A i \in 1 .. Len(StopTasks(S)) : StopTasks(S)[i] = OrphanTask("stopped")
<1>1. IsFiniteSet(S) /\ Cardinality(S) \in Nat
  BY AnnouncerAssumption, FS_Subset, FS_CardinalityType
<1>2. OrphanTask("stopped") \in Request BY DEF OrphanTask, Request
<1>3. StopTasks(S) = [i \in 1 .. Cardinality(S) |-> OrphanTask("stopped")] BY DEF StopTasks
<1> QED BY <1>1, <1>2, <1>3

\* The torrents of S are removed, and the stops of more are sent.
LEMMA RemovedIInv ==
  ASSUME IInv, NEW S \in SUBSET Torrents, Removed(S),
         NEW more \in Seq(Request), \A i \in 1 .. Len(more) : more[i] = OrphanTask("stopped"),
         Orphan(S, {"announce"}, more), pending' = pending + Len(more),
         Phases', stops' \subseteq Torrents, events' \in 0 .. MaxEvents, UNCHANGED web,
         deadline' \in {"unset", "ahead", "reached"},
         phase' \in {"up", "closing", "closed", "deleted", "crashed"}
  PROVE  IInv'
<1>1. /\ Requested'
      /\ \A t \in S : UnderWay'[Announces(t)] = 0
      /\ \A t \in Torrents \ S : \A R \in SUBSET Concerns(t) : UnderWay'[R] = UnderWay[R]
      /\ UnderWay'[StopRequests] = UnderWay[StopRequests] + Len(more)
  BY RequestsOrphaned DEF IInv, Types
<1>2. /\ present' = present \ S /\ running' = running \ S
      /\ tier' = [t \in Torrents |-> IF t \in S THEN NewTier ELSE tier[t]]
      /\ silent' = silent \ S /\ slipped' = slipped \ S /\ finished' = finished \ S
  BY DEF Removed
<1>3. tier' \in [Torrents -> OrderedTier] BY <1>2, NewTierType DEF IInv, Types
<1>4. Types' BY <1>1, <1>2, <1>3 DEF IInv, Types
<1>5. StopsCounted' BY <1>1 DEF IInv, StopsCounted
<1>6. ASSUME NEW t \in Torrents PROVE Tended(t)'
  <2>1. CASE t \in S
    <3>1. /\ tier'[t] = NewTier /\ t \notin present' /\ t \notin running' /\ t \notin finished'
      BY <1>2, <2>1 DEF IInv, Types
    <3>2. ~ tier'[t].announcing /\ ~ tier'[t].scraping BY <3>1 DEF NewTier
    <3> QED BY <1>1, <2>1, <3>1, <3>2, TierRenewed
  <2>2. CASE t \notin S
    <3>1. /\ tier'[t] = tier[t] /\ (t \in present' <=> t \in present)
          /\ t \in running' => t \in running
          /\ t \in silent' <=> t \in silent
          /\ t \in slipped' <=> t \in slipped
          /\ t \in finished' => t \in finished
      BY <1>2, <2>2
    <3>2. \A R \in SUBSET Concerns(t) : UnderWay'[R] = UnderWay[R] BY <1>1, <2>2
    <3> QED BY <3>1, <3>2, Untouched DEF IInv
  <2> QED BY <2>1, <2>2
<1> QED BY <1>4, <1>5, <1>6 DEF IInv

LEMMA RemoveTorrentIInv ==
  ASSUME IInv, NEW u \in Torrents, RemoveTorrent(u) PROVE IInv'
<1>1. /\ User /\ Removed({u}) /\ stops' = stops \cup ToldOf({u})
      /\ Orphan({u}, {"announce"}, <<>>)
      /\ UNCHANGED <<deadline, web, pending, phase>>
  BY DEF RemoveTorrent
<1>2. {u} \in SUBSET Torrents /\ stops' \subseteq Torrents BY <1>1 DEF ToldOf, IInv, Types
<1>3. /\ <<>> \in Seq(Request) /\ Len(<<>>) = 0
      /\ \A i \in 1 .. Len(<<>>) : <<>>[i] = OrphanTask("stopped")
  OBVIOUS
<1>4. events' \in 0 .. MaxEvents BY <1>1, AnnouncerAssumption DEF IInv, Types, User
<1>5. pending' = pending + Len(<<>>)
  <2>1. pending \in Nat BY UnderWayType, RequestSets DEF IInv, Types, StopsCounted
  <2> QED BY <1>1, <1>3, <2>1
<1>6. Phases' BY <1>1 DEF IInv, Phases, User
<1>7. /\ deadline' \in {"unset", "ahead", "reached"}
      /\ phase' \in {"up", "closing", "closed", "deleted", "crashed"} /\ UNCHANGED web
  BY <1>1 DEF IInv, Types
<1> QED BY <1>1, <1>2, <1>3, <1>4, <1>5, <1>6, <1>7, RemovedIInv

LEMMA CloseIInv == ASSUME IInv, Close PROVE IInv'
<1> DEFINE S == stops \cup ToldOf(present)
<1>1. /\ phase' = "closing" /\ Removed(present) /\ stops' = {}
      /\ pending' = pending + Cardinality(S)
      /\ Orphan(present, {"announce"}, StopTasks(S))
      /\ deadline' = "ahead" /\ UNCHANGED <<web, events>>
  BY DEF Close
<1>2. S \in SUBSET Torrents /\ present \in SUBSET Torrents BY DEF ToldOf, IInv, Types
<1> HIDE DEF S
<1>3. /\ StopTasks(S) \in Seq(Request) /\ Len(StopTasks(S)) = Cardinality(S)
      /\ \A i \in 1 .. Len(StopTasks(S)) : StopTasks(S)[i] = OrphanTask("stopped")
  BY <1>2, StopTasksType
<1>4. Phases' BY <1>1 DEF Phases, Removed
<1>5. events' \in 0 .. MaxEvents BY <1>1 DEF IInv, Types
<1>6. pending' = pending + Len(StopTasks(S)) BY <1>1, <1>3
<1>7. /\ deadline' \in {"unset", "ahead", "reached"} /\ stops' \subseteq Torrents /\ UNCHANGED web
      /\ phase' \in {"up", "closing", "closed", "deleted", "crashed"}
  BY <1>1
<1> QED BY <1>1, <1>2, <1>3, <1>4, <1>5, <1>6, <1>7, RemovedIInv

-----------------------------------------------------------------------------
\* What upkeep() sends.

\* As many things as there are of those they are made of, if no two are alike.
LEMMA AsMany ==
  ASSUME NEW S, IsFiniteSet(S), NEW f, DOMAIN f = S,
         \A x \in S : \A y \in S : f[x] = f[y] => x = y
  PROVE  LET X == {f[x] : x \in S} IN IsFiniteSet(X) /\ Cardinality(X) = Cardinality(S)
<1> DEFINE X == {f[x] : x \in S}
           g == [x \in S |-> f[x]]
<1>1. g \in [S -> X] /\ DOMAIN g = S /\ \A x \in S : g[x] = f[x] OBVIOUS
<1>2. \A y \in X : \E x \in S : y = f[x] OBVIOUS
<1> HIDE DEF g, X
<1>3. g \in Bijection(S, X)
  BY <1>1, <1>2 DEF Bijection, Injection, Surjection, IsInjective
<1>4. ExistsBijection(S, X) BY <1>3 DEF ExistsBijection
<1>5. IsFiniteSet(X) /\ Cardinality(X) = Cardinality(S) BY <1>4, FS_Bijection
<1> QED BY <1>5 DEF X

LEMMA TaskTypes ==
  ASSUME Types, NEW t \in Torrents
  PROVE  /\ ScrapeTask(t) \in Request /\ ScrapeTask(t) \in Scrapes(t, tier[t].current)
         /\ \A u \in Torrents : ScrapeTask(t) \notin Announces(u)
         /\ ScrapeTask(t) \notin StopRequests /\ ScrapeTask(t).torrent = t
         /\ tier[t].queue # <<>> =>
              /\ AnnounceTask(t) \in Request /\ AnnounceTask(t).torrent = t
              /\ AnnounceTask(t).kind = "announce" /\ AnnounceTask(t).event = Head(tier[t].queue)
<1>1. tier[t].queue \in Seq(Event) /\ tier[t].current \in 0 .. N
  BY DEF Types, OrderedTier, Tier
<1>2. /\ ScrapeTask(t) \in Request /\ ScrapeTask(t).kind = "scrape" /\ ScrapeTask(t).torrent = t
      /\ ScrapeTask(t).event = "none" /\ ScrapeTask(t).tracker = tier[t].current
  BY <1>1 DEF ScrapeTask, Request, Event
<1>3. ASSUME tier[t].queue # <<>>
      PROVE  /\ AnnounceTask(t) \in Request /\ AnnounceTask(t).torrent = t
             /\ AnnounceTask(t).kind = "announce" /\ AnnounceTask(t).event = Head(tier[t].queue)
  <2>1. Head(tier[t].queue) \in Event BY <1>1, <1>3
  <2> DEFINE b == t \in running
  <2>2. b \in BOOLEAN OBVIOUS
  <2>3. AnnounceTask(t) = [kind |-> "announce", torrent |-> t, event |-> Head(tier[t].queue),
                           tracker |-> tier[t].current, running |-> b]
    BY DEF AnnounceTask
  <2> HIDE DEF b
  <2> QED BY <1>1, <2>1, <2>2, <2>3 DEF Request
<1> QED BY <1>2, <1>3 DEF Scrapes, Announces, StopRequests

LEMMA MoreRequests ==
  ASSUME Types, NEW S \in SUBSET present, NEW A \in SUBSET present,
         \A t \in A : tier[t].queue # <<>>
  PROVE  LET more == StopTasks(stops) \o SetToSeq({ScrapeTask(t) : t \in S})
                     \o SetToSeq({AnnounceTask(t) : t \in A})
         IN /\ more \in Seq(Request)
            /\ \A t \in Torrents :
                 /\ Count(more, Announces(t)) = IF t \in A THEN 1 ELSE 0
                 /\ Count(more, Completions(t)) \in Nat
                 /\ t \in A /\ Head(tier[t].queue) = "completed" => Count(more, Completions(t)) > 0
                 /\ Count(more, Goings(t)) \in Nat
                 /\ t \in A /\ Head(tier[t].queue) # "stopped" => Count(more, Goings(t)) > 0
                 /\ Count(more, Scrapes(t, tier[t].current)) \in Nat
                 /\ t \in S => Count(more, Scrapes(t, tier[t].current)) > 0
            /\ Count(more, StopRequests)
               = Cardinality(stops) + Cardinality({t \in A : Head(tier[t].queue) = "stopped"})
<1> DEFINE X == {ScrapeTask(t) : t \in S}
           Y == {AnnounceTask(t) : t \in A}
           f == [t \in S |-> ScrapeTask(t)]
           g == [t \in A |-> AnnounceTask(t)]
           B == {t \in A : Head(tier[t].queue) = "stopped"}
           more == StopTasks(stops) \o SetToSeq(X) \o SetToSeq(Y)
<1>1. S \subseteq Torrents /\ A \subseteq Torrents /\ stops \in SUBSET Torrents BY DEF Types
<1>2. IsFiniteSet(S) /\ IsFiniteSet(A) BY <1>1, AnnouncerAssumption, FS_Subset
<1>3. /\ \A t \in S : ScrapeTask(t) \in Request /\ ScrapeTask(t).torrent = t
      /\ \A t \in A : AnnounceTask(t) \in Request /\ AnnounceTask(t).torrent = t
      /\ \A t \in A : AnnounceTask(t).kind = "announce" /\ AnnounceTask(t).event = Head(tier[t].queue)
  BY <1>1, TaskTypes
<1>4. IsFiniteSet(X) /\ X \subseteq Request
  <2>1. /\ DOMAIN f = S /\ X = {f[t] : t \in S}
        /\ \A t \in S : \A u \in S : f[t] = f[u] => t = u
    BY <1>3
  <2> HIDE DEF f
  <2>2. IsFiniteSet({f[t] : t \in S}) BY <1>2, <2>1, AsMany
  <2> QED BY <1>3, <2>1, <2>2
<1>5. IsFiniteSet(Y) /\ Y \subseteq Request
  <2>1. /\ DOMAIN g = A /\ Y = {g[t] : t \in A}
        /\ \A t \in A : \A u \in A : g[t] = g[u] => t = u
    BY <1>3
  <2> HIDE DEF g
  <2>2. IsFiniteSet({g[t] : t \in A}) BY <1>2, <2>1, AsMany
  <2> QED BY <1>3, <2>1, <2>2
<1>6. Y \cap StopRequests = {g[t] : t \in B} BY <1>3 DEF StopRequests
<1>7. Cardinality(Y \cap StopRequests) = Cardinality(B)
  <2>1. IsFiniteSet(B) BY <1>2, FS_Subset
  <2> DEFINE h == [t \in B |-> AnnounceTask(t)]
  <2>2. B \subseteq A /\ \A t \in B : h[t] = AnnounceTask(t) OBVIOUS
  <2>3. \A t \in A : g[t] = AnnounceTask(t) OBVIOUS
  <2>4. DOMAIN h = B OBVIOUS
  <2> HIDE DEF g, h, B, Y
  <2>5. \A t \in B : \A u \in B : h[t] = h[u] => t = u BY <1>3, <2>2
  <2>6. {h[t] : t \in B} = {g[t] : t \in B} BY <2>2, <2>3
  <2> QED BY <1>6, <2>1, <2>4, <2>5, <2>6, AsMany
<1>8. /\ StopTasks(stops) \in Seq(Request) /\ Len(StopTasks(stops)) = Cardinality(stops)
      /\ Cardinality(stops) \in Nat
      /\ \A i \in 1 .. Len(StopTasks(stops)) : StopTasks(stops)[i] = OrphanTask("stopped")
  BY <1>1, StopTasksType
<1>9. /\ \A t \in S : ScrapeTask(t) \in Scrapes(t, tier[t].current)
      /\ \A t \in S : \A u \in Torrents : ScrapeTask(t) \notin Announces(u)
      /\ \A t \in S : ScrapeTask(t) \notin StopRequests
  BY <1>1, TaskTypes
<1>10. X \cap StopRequests = {} /\ \A u \in Torrents : X \cap Announces(u) = {} BY <1>9
<1>11. \A u \in Torrents : Y \cap Announces(u) = IF u \in A THEN {AnnounceTask(u)} ELSE {}
  BY <1>3 DEF Announces
<1>12. \A u \in A : AnnounceTask(u) \in Y OBVIOUS
<1>13. \A u \in S : ScrapeTask(u) \in X OBVIOUS
<1> HIDE DEF X, Y, B, f, g
<1>14. SetToSeq(X) \in Seq(Request) /\ SetToSeq(Y) \in Seq(Request) BY <1>4, <1>5, CountSet
<1>15. StopTasks(stops) \o SetToSeq(X) \in Seq(Request) BY <1>8, <1>14
<1>16. more \in Seq(Request) BY <1>14, <1>15
<1>17. ASSUME NEW R
       PROVE  /\ Count(more, R) = Count(StopTasks(stops), R) + Cardinality(X \cap R) + Cardinality(Y \cap R)
              /\ Count(StopTasks(stops), R) \in Nat
              /\ Cardinality(X \cap R) \in Nat /\ Cardinality(Y \cap R) \in Nat
              /\ IsFiniteSet(X \cap R) /\ IsFiniteSet(Y \cap R)
  <2>1. Count(SetToSeq(X), R) = Cardinality(X \cap R) /\ Count(SetToSeq(Y), R) = Cardinality(Y \cap R)
    BY <1>4, <1>5, CountSet
  <2>2. Count(StopTasks(stops) \o SetToSeq(X), R) = Count(StopTasks(stops), R) + Count(SetToSeq(X), R)
    BY <1>8, <1>14, CountConcat
  <2>3. Count(more, R) = Count(StopTasks(stops) \o SetToSeq(X), R) + Count(SetToSeq(Y), R)
    BY <1>14, <1>15, CountConcat
  <2>4. IsFiniteSet(X \cap R) /\ IsFiniteSet(Y \cap R)
    <3>1. X \cap R \in SUBSET X /\ Y \cap R \in SUBSET Y OBVIOUS
    <3> QED BY <1>4, <1>5, <3>1, FS_Subset
  <2>5. Cardinality(X \cap R) \in Nat /\ Cardinality(Y \cap R) \in Nat
    BY <2>4, FS_CardinalityType
  <2>6. Count(StopTasks(stops), R) \in Nat BY <1>8, CountType
  <2> HIDE DEF more
  <2> QED BY <2>1, <2>2, <2>3, <2>4, <2>5, <2>6
<1>18. /\ OrphanTask("stopped") \in Request /\ OrphanTask("stopped").kind = "orphan"
       /\ OrphanTask("stopped").event = "stopped"
  BY DEF OrphanTask, Request
<1> HIDE DEF more
<1>19. Count(more, StopRequests) = Cardinality(stops) + Cardinality(B)
  <2>1. \A i \in 1 .. Len(StopTasks(stops)) : StopTasks(stops)[i] \in StopRequests
    BY <1>8, <1>18 DEF StopRequests
  <2>2. Count(StopTasks(stops), StopRequests) = Cardinality(stops) BY <1>8, <2>1, CountAll
  <2>3. Cardinality(X \cap StopRequests) = 0 BY <1>10, FS_EmptySet
  <2>4. Cardinality(B) \in Nat BY <1>7, <1>17
  <2> QED BY <1>7, <1>8, <1>17, <2>2, <2>3, <2>4
<1>20. ASSUME NEW t \in Torrents PROVE Count(more, Announces(t)) = IF t \in A THEN 1 ELSE 0
  <2>1. \A i \in 1 .. Len(StopTasks(stops)) : StopTasks(stops)[i] \notin Announces(t)
    BY <1>8, <1>18 DEF Announces
  <2>2. Count(StopTasks(stops), Announces(t)) = 0 BY <1>8, <2>1, CountNone
  <2>3. Cardinality(X \cap Announces(t)) = 0 BY <1>10, FS_EmptySet
  <2>4. Cardinality(Y \cap Announces(t)) = IF t \in A THEN 1 ELSE 0
    <3>1. CASE t \in A
      <4>1. Y \cap Announces(t) = {AnnounceTask(t)} BY <1>11, <3>1
      <4> QED BY <3>1, <4>1, FS_Singleton
    <3>2. CASE t \notin A
      <4>1. Y \cap Announces(t) = {} BY <1>11, <3>2
      <4> QED BY <3>2, <4>1, FS_EmptySet
    <3> QED BY <3>1, <3>2
  <2>5. Count(more, Announces(t))
        = Count(StopTasks(stops), Announces(t)) + Cardinality(X \cap Announces(t))
          + Cardinality(Y \cap Announces(t))
    BY <1>17
  <2> QED BY <2>2, <2>3, <2>4, <2>5
<1>21. ASSUME NEW R PROVE Count(more, R) \in Nat BY <1>16, CountType
<1>22. ASSUME NEW R, NEW x, x \in (X \cap R) \cup (Y \cap R) PROVE Count(more, R) > 0
  <2>1. Cardinality(X \cap R) # 0 \/ Cardinality(Y \cap R) # 0
    <3>1. X \cap R # {} \/ Y \cap R # {} BY <1>22
    <3> QED BY <1>17, <3>1, FS_EmptySet
  <2> DEFINE c == Count(StopTasks(stops), R)
             m == Cardinality(X \cap R)
             n == Cardinality(Y \cap R)
  <2>2. Count(more, R) = c + m + n /\ c \in Nat /\ m \in Nat /\ n \in Nat BY <1>17
  <2>3. m # 0 \/ n # 0 BY <2>1
  <2> HIDE DEF c, m, n
  <2> QED BY <2>2, <2>3
<1>23. ASSUME NEW t \in A
       PROVE  /\ Head(tier[t].queue) = "completed" => Count(more, Completions(t)) > 0
              /\ Head(tier[t].queue) # "stopped" => Count(more, Goings(t)) > 0
  <2>1. AnnounceTask(t) \in Y BY <1>12
  <2>2. AnnounceTask(t) \in Announces(t) BY <1>3 DEF Announces
  <2>3. Head(tier[t].queue) = "completed" => AnnounceTask(t) \in Completions(t)
    BY <1>3, <2>2 DEF Completions
  <2>4. Head(tier[t].queue) # "stopped" => AnnounceTask(t) \in Goings(t)
    BY <1>3, <2>2 DEF Goings
  <2> QED BY <1>22, <2>1, <2>3, <2>4
<1>24. ASSUME NEW t \in S PROVE Count(more, Scrapes(t, tier[t].current)) > 0
  BY <1>9, <1>13, <1>22
<1> QED BY <1>16, <1>19, <1>20, <1>21, <1>23, <1>24 DEF more, X, Y, B

LEMMA UpkeepIInv == ASSUME IInv, Upkeep PROVE IInv'
<1> DEFINE A == {t \in present : NeedsToAnnounce(tier[t])}
           B == {t \in A : Head(tier[t].queue) = "stopped"}
           More(S) == StopTasks(stops) \o SetToSeq({ScrapeTask(t) : t \in S})
                      \o SetToSeq({AnnounceTask(t) : t \in A})
<1>1. PICK S \in SUBSET {t \in present : MayScrape(tier[t])} :
        /\ phase = "up" /\ queued' = Fetched(More(S))
        /\ pending' = pending + Cardinality(stops) + Cardinality(B)
        /\ stops' = {} /\ tier' = [t \in Torrents |-> Begun(t, S, A)]
        /\ UNCHANGED <<fetching, answers, deadline, web, present, running, phase, events, history>>
  BY DEF Upkeep
<1> DEFINE more == More(S)
<1>2. S \in SUBSET present /\ A \in SUBSET present OBVIOUS
<1>3. /\ Types /\ Phases /\ StopsCounted /\ present \subseteq Torrents /\ running \subseteq present
      /\ tier \in [Torrents -> OrderedTier] /\ stops \in SUBSET Torrents
  BY DEF IInv, Types
<1>4. \A t \in A : tier[t].queue # <<>> /\ ~ tier[t].announcing /\ ~ tier[t].scraping
  BY DEF NeedsToAnnounce
<1>5. IsFiniteSet(A)
  <2>1. A \in SUBSET Torrents BY <1>3
  <2> HIDE DEF A
  <2> QED BY <2>1, AnnouncerAssumption, FS_Subset
<1>6. B \in SUBSET A OBVIOUS
<1>7. Cardinality(stops) \in Nat /\ Cardinality(B) \in Nat
  <2> HIDE DEF A, B
  <2> QED BY <1>3, <1>5, <1>6, AnnouncerAssumption, FS_Subset, FS_CardinalityType
<1>8. /\ more \in Seq(Request)
      /\ \A t \in Torrents :
           /\ Count(more, Announces(t)) = IF t \in A THEN 1 ELSE 0
           /\ Count(more, Completions(t)) \in Nat
           /\ t \in A /\ Head(tier[t].queue) = "completed" => Count(more, Completions(t)) > 0
           /\ Count(more, Goings(t)) \in Nat
           /\ t \in A /\ Head(tier[t].queue) # "stopped" => Count(more, Goings(t)) > 0
           /\ Count(more, Scrapes(t, tier[t].current)) \in Nat
           /\ t \in S => Count(more, Scrapes(t, tier[t].current)) > 0
      /\ Count(more, StopRequests) = Cardinality(stops) + Cardinality(B)
  <2> HIDE DEF A
  <2> QED BY <1>2, <1>3, <1>4, MoreRequests
<1> HIDE DEF A, B, More, more
<1>9. queued' = queued \o more
  <2>1. deadline = "unset" BY <1>1, <1>3 DEF Phases
  <2> QED BY <1>1, <2>1 DEF Fetched, more
<1>10. Requested' /\ \A R \in SUBSET Request : UnderWay'[R] = UnderWay[R] + Count(more, R)
  BY <1>1, <1>8, <1>9, MoreFetched DEF IInv, Types
<1>11. UnderWay \in [SUBSET Request -> Nat] BY UnderWayType DEF IInv, Types
<1>12. ASSUME NEW t \in Torrents
       PROVE  LET x == tier[t]
                  y == tier'[t]
              IN /\ y \in OrderedTier /\ y.current = x.current /\ y.at = x.at
                 /\ y.scraping <=> x.scraping \/ t \in S
                 /\ y.announcing <=> x.announcing \/ t \in A
                 /\ y.queue = IF t \in A THEN Tail(x.queue) ELSE x.queue
  <2>1. tier'[t] = Begun(t, S, A) BY <1>1
  <2> QED BY <1>3, <1>4, <2>1, BegunType
<1>13. tier' \in [Torrents -> OrderedTier] BY <1>1, <1>12
<1>14. UNCHANGED <<silent, slipped, finished>> BY <1>1 DEF history
<1>15. Types' BY <1>1, <1>3, <1>10, <1>13, <1>14 DEF Types
<1>16. Phases' BY <1>1, <1>3 DEF Phases
<1>17. StopsCounted'
  <2>1. UnderWay'[StopRequests] = UnderWay[StopRequests] + (Cardinality(stops) + Cardinality(B))
    BY <1>8, <1>10, RequestSets
  <2>2. UnderWay[StopRequests] \in Nat BY <1>11, RequestSets
  <2> QED BY <1>1, <1>3, <1>7, <2>1, <2>2 DEF StopsCounted
<1>18. ASSUME NEW t \in Torrents PROVE Tended(t)'
  <2> DEFINE x == tier[t]
             y == tier'[t]
  <2>1. /\ Tended(t) /\ x \in OrderedTier /\ x.queue \in Seq(Event)
        /\ A \subseteq present /\ S \subseteq present
        /\ UNCHANGED <<present, running, silent, slipped, finished>>
    BY <1>1, <1>2, <1>3, <1>14 DEF IInv, OrderedTier, Tier
  <2>2. /\ UnderWay'[Announces(t)] = UnderWay[Announces(t)] + (IF t \in A THEN 1 ELSE 0)
        /\ UnderWay'[Completions(t)] = UnderWay[Completions(t)] + Count(more, Completions(t))
        /\ UnderWay'[Goings(t)] = UnderWay[Goings(t)] + Count(more, Goings(t))
        /\ UnderWay'[Scrapes(t, x.current)]
           = UnderWay[Scrapes(t, x.current)] + Count(more, Scrapes(t, x.current))
    BY <1>8, <1>10, RequestSets
  <2>3. /\ UnderWay[Announces(t)] \in Nat /\ UnderWay[Completions(t)] \in Nat
        /\ UnderWay[Goings(t)] \in Nat /\ UnderWay[Scrapes(t, x.current)] \in Nat
    BY <1>11, RequestSets
  <2>4. /\ y.current = x.current /\ y.at = x.at
        /\ y.scraping <=> x.scraping \/ t \in S
        /\ y.announcing <=> x.announcing \/ t \in A
        /\ y.queue = IF t \in A THEN Tail(x.queue) ELSE x.queue
        /\ t \in A => x.queue # <<>> /\ ~ x.announcing
    BY <1>4, <1>12
  <2>5. Fresh(t)'
    <3>1. SUFFICES ASSUME t \notin present
                   PROVE  y = NewTier /\ UnderWay'[Announces(t)] = 0 /\ t \notin finished
      BY <2>1 DEF Fresh
    <3>2. t \notin A /\ t \notin S BY <2>1, <3>1
    <3>3. y = x
      <4>1. y = Begun(t, S, A) BY <1>1
      <4>2. x = NewTier BY <2>1, <3>1 DEF Tended, Fresh
      <4> DEFINE s == t \in S
                 a == t \in A
      <4>3. Begun(t, S, A) = [NewTier EXCEPT !.scraping = FALSE \/ s, !.announcing = FALSE \/ a,
                                             !.queue = <<>>]
        BY <3>2, <4>2 DEF Begun, NewTier
      <4>4. Begun(t, S, A) = NewTier BY <3>2, <4>3 DEF NewTier
      <4> QED BY <4>1, <4>2, <4>4
    <3> QED BY <2>1, <2>2, <2>3, <3>1, <3>2, <3>3 DEF Tended, Fresh
  <2>6. Waits(t)'
    <3>1. UnderWay'[Scrapes(t, y.current)] = UnderWay'[Scrapes(t, x.current)] BY <2>4
    <3>2. Count(more, Scrapes(t, x.current)) \in Nat
          /\ (t \in S => Count(more, Scrapes(t, x.current)) > 0)
      BY <1>8
    <3>3. ASSUME y.announcing PROVE UnderWay'[Announces(t)] > 0
      BY <2>1, <2>2, <2>3, <2>4, <3>3 DEF Tended, Waits
    <3>4. ASSUME y.scraping PROVE UnderWay'[Scrapes(t, x.current)] > 0
      BY <2>1, <2>2, <2>3, <2>4, <3>2, <3>4 DEF Tended, Waits
    <3> QED BY <3>1, <3>3, <3>4 DEF Waits
  <2>7. Once(t)'
    BY <2>1, <2>2, <2>3, <2>4 DEF Tended, Once
  <2>8. Told(t)'
    <3>1. SUFFICES ASSUME t \in finished
                   PROVE  "completed" \in Range(y.queue) \/ UnderWay'[Completions(t)] > 0
      BY <2>1 DEF Told
    <3>2. Count(more, Completions(t)) \in Nat BY <1>8
    <3>3. CASE UnderWay[Completions(t)] > 0 BY <2>2, <2>3, <3>2, <3>3
    <3>4. CASE "completed" \in Range(x.queue)
      <4>1. CASE t \in A
        <5>1. CASE Head(x.queue) = "completed"
          <6>1. Count(more, Completions(t)) > 0 BY <1>8, <4>1, <5>1
          <6> QED BY <2>2, <2>3, <3>2, <6>1
        <5>2. CASE Head(x.queue) # "completed"
          <6> DEFINE q == x.queue
          <6>1. q \in Seq(Event) /\ q # <<>> /\ q[1] # "completed" /\ DOMAIN q = 1 .. Len(q)
            BY <2>1, <2>4, <4>1, <5>2
          <6>2. PICK i \in 1 .. Len(q) : q[i] = "completed" BY <3>4, <6>1 DEF Range
          <6> HIDE DEF q
          <6>3. /\ DOMAIN Tail(q) = 1 .. Len(q) - 1 /\ Len(q) \in Nat
                /\ \A j \in 1 .. Len(q) - 1 : Tail(q)[j] = q[j + 1]
            BY <6>1
          <6>4. i # 1 BY <6>1, <6>2
          <6>5. i - 1 \in 1 .. Len(q) - 1 /\ (i - 1) + 1 = i BY <6>2, <6>3, <6>4
          <6>6. Tail(q)[i - 1] = "completed" BY <6>2, <6>3, <6>5
          <6>7. "completed" \in Range(Tail(q)) BY <6>3, <6>5, <6>6 DEF Range
          <6> QED BY <2>4, <4>1, <6>7 DEF q
        <5> QED BY <5>1, <5>2
      <4>2. CASE t \notin A BY <2>4, <3>4, <4>2
      <4> QED BY <4>1, <4>2
    <3> QED BY <2>1, <3>1, <3>3, <3>4 DEF Tended, Told
  <2>9. GoesOn(t)'
    <3>1. SUFFICES ASSUME t \in running \ silent
                   PROVE  Lively(y) /\ (y.queue = <<>> => UnderWay'[Goings(t)] > 0)
      BY <2>1 DEF GoesOn
    <3>2. Lively(x) /\ (x.queue = <<>> => UnderWay[Goings(t)] > 0)
      BY <2>1, <3>1 DEF Tended, GoesOn
    <3>3. Count(more, Goings(t)) \in Nat BY <1>8
    <3>4. CASE t \in A
      <4> DEFINE q == x.queue
      <4>1. q \in Seq(Event) /\ q # <<>> /\ q[Len(q)] # "stopped" /\ x.at # "never"
        BY <2>1, <2>4, <3>2, <3>4 DEF Lively
      <4>2. y.queue = Tail(q) /\ y.at = x.at BY <2>4, <3>4
      <4> HIDE DEF q
      <4>3. /\ Len(Tail(q)) = Len(q) - 1 /\ Len(q) \in Nat /\ (Tail(q) = <<>> <=> Len(q) = 1)
            /\ \A j \in 1 .. Len(q) - 1 : Tail(q)[j] = q[j + 1]
        <5>1. /\ Len(Tail(q)) = Len(q) - 1 /\ Len(q) \in Nat /\ Tail(q) \in Seq(Event)
              /\ \A j \in 1 .. Len(q) - 1 : Tail(q)[j] = q[j + 1]
          BY <4>1
        <5>2. Tail(q) = <<>> <=> Len(Tail(q)) = 0 BY <5>1
        <5> QED BY <5>1, <5>2
      <4>4. ASSUME Tail(q) # <<>> PROVE Tail(q)[Len(Tail(q))] # "stopped"
        <5>1. Len(q) - 1 \in 1 .. Len(q) - 1 /\ (Len(q) - 1) + 1 = Len(q)
          <6>1. Len(q) # 1 /\ Len(q) # 0 BY <4>1, <4>3, <4>4
          <6> QED BY <4>3, <6>1
        <5>2. Tail(q)[Len(q) - 1] = q[Len(q)] BY <4>3, <5>1
        <5> QED BY <4>1, <4>3, <5>2
      <4>5. ASSUME Tail(q) = <<>> PROVE UnderWay'[Goings(t)] > 0
        <5>1. Head(q) # "stopped" BY <4>1, <4>3, <4>5
        <5>2. Count(more, Goings(t)) > 0 BY <1>8, <3>4, <5>1 DEF q
        <5> QED BY <2>2, <2>3, <3>3, <5>2
      <4> QED BY <4>1, <4>2, <4>4, <4>5 DEF Lively
    <3>5. CASE t \notin A
      <4>1. y.queue = x.queue /\ y.at = x.at BY <2>4, <3>5
      <4> QED BY <2>2, <2>3, <3>2, <3>3, <4>1 DEF Lively
    <3> QED BY <3>4, <3>5
  <2> QED BY <2>5, <2>6, <2>7, <2>8, <2>9 DEF Tended
<1> QED BY <1>15, <1>16, <1>17, <1>18 DEF IInv

-----------------------------------------------------------------------------
\* What the session thread does with an answer.

\* The requests in flight are the requests under way.
LEMMA FlyingUnderWay ==
  ASSUME Requested, NEW t
  PROVE  /\ Cardinality(Flying("announce", t)) = UnderWay[Announces(t)]
         /\ Flying("announce", t) = {} <=> UnderWay[Announces(t)] = 0
         /\ \A c : UnderWay[Scrapes(t, c)] > 0 => Flying("scrape", t) # {}
         /\ UnderWay[Completions(t)] > 0 =>
              \E i \in Flying("announce", t) : InFlight[i].event = "completed"
         /\ Cardinality(Stops) = UnderWay[StopRequests]
<1> DEFINE s == InFlight
<1>1. s \in Seq(Request) /\ \A S \in SUBSET Request : UnderWay[S] = Cardinality(Hits(s, S))
  BY UnderWayInFlight
<1>2. \A i \in DOMAIN s : s[i] \in Request BY <1>1
<1>3. Flying("announce", t) = Hits(s, Announces(t))
  BY <1>2 DEF Flying, Hits, Announces
<1>4. Stops = Hits(s, StopRequests) BY <1>2 DEF Stops, Hits, StopRequests
<1>5. \A c : Hits(s, Scrapes(t, c)) \subseteq Flying("scrape", t)
  BY DEF Flying, Hits, Scrapes
<1>6. \A i \in Hits(s, Completions(t)) : i \in Flying("announce", t) /\ s[i].event = "completed"
  BY DEF Flying, Hits, Completions, Announces
<1> HIDE DEF s
<1>7. ASSUME NEW S \in SUBSET Request PROVE UnderWay[S] = 0 <=> Hits(s, S) = {}
  <2>1. IsFiniteSet(Hits(s, S)) BY <1>1, CountType
  <2> QED BY <1>1, <2>1, FS_EmptySet
<1>8. \A c : UnderWay[Scrapes(t, c)] > 0 => Hits(s, Scrapes(t, c)) # {}
  <2>1. ASSUME NEW c, UnderWay[Scrapes(t, c)] > 0 PROVE Hits(s, Scrapes(t, c)) # {}
    <3>1. Scrapes(t, c) \in SUBSET Request BY RequestSets
    <3>2. UnderWay[Scrapes(t, c)] # 0 BY <2>1
    <3> QED BY <1>7, <3>1, <3>2
  <2> QED BY <2>1
<1>9. UnderWay[Completions(t)] > 0 => Hits(s, Completions(t)) # {}
  <2>1. Completions(t) \in SUBSET Request BY RequestSets
  <2>2. UnderWay[Completions(t)] > 0 => UnderWay[Completions(t)] # 0 OBVIOUS
  <2> QED BY <1>7, <2>1, <2>2
<1>10. Announces(t) \in SUBSET Request /\ StopRequests \in SUBSET Request BY RequestSets
<1>11. Flying("announce", t) = {} <=> UnderWay[Announces(t)] = 0 BY <1>3, <1>7, <1>10
<1> QED BY <1>1, <1>3, <1>4, <1>5, <1>6, <1>8, <1>9, <1>10, <1>11 DEF s

\* An answer that t does not wait for.
LEMMA AnswerIgnored ==
  ASSUME NEW t \in Torrents, Tended(t), UnderWay \in [SUBSET Request -> Nat],
         UnderWay' \in [SUBSET Request -> Nat],
         NEW r, \A S \in SUBSET Request : UnderWay[S] = UnderWay'[S] + (IF r \in S THEN 1 ELSE 0),
         r \notin Announces(t), tier[t].scraping => r \notin Scrapes(t, tier[t].current),
         tier'[t] = tier[t], t \in slipped' <=> t \in slipped,
         t \in finished' => t \in finished, t \in silent' <=> t \in silent,
         UNCHANGED <<present, running>>
  PROVE  Tended(t)'
<1>1. /\ UnderWay'[Announces(t)] = UnderWay[Announces(t)]
      /\ UnderWay'[Completions(t)] = UnderWay[Completions(t)]
      /\ UnderWay'[Goings(t)] = UnderWay[Goings(t)]
      /\ tier[t].scraping =>
           UnderWay'[Scrapes(t, tier[t].current)] = UnderWay[Scrapes(t, tier[t].current)]
  <2>1. r \notin Completions(t) /\ r \notin Goings(t) BY DEF Completions, Goings
  <2>2. ASSUME NEW S \in SUBSET Request, r \notin S PROVE UnderWay'[S] = UnderWay[S]
    <3>1. UnderWay'[S] \in Nat /\ UnderWay[S] = UnderWay'[S] + 0 BY <2>2
    <3> QED BY <3>1
  <2> QED BY <2>1, <2>2, RequestSets
<1>2. Fresh(t)' BY <1>1 DEF Tended, Fresh
<1>3. Waits(t)' BY <1>1 DEF Tended, Waits
<1>4. Once(t)' BY <1>1 DEF Tended, Once
<1>5. Told(t)' BY <1>1 DEF Tended, Told
<1>6. GoesOn(t)' BY <1>1 DEF Tended, GoesOn, Lively
<1> QED BY <1>2, <1>3, <1>4, <1>5, <1>6 DEF Tended

\* The answer of an announce of the tier of t.
LEMMA AnnounceAnswered ==
  ASSUME IInv, Requested', NEW r \in Request, r.kind = "announce", r.torrent \in present,
         \A S \in SUBSET Request : UnderWay[S] = UnderWay'[S] + (IF r \in S THEN 1 ELSE 0),
         NEW reply \in Replies, AnnounceDone(r, reply), UNCHANGED <<present, running>>
  PROVE  /\ tier' \in [Torrents -> OrderedTier]
         /\ \A u \in Torrents : u # r.torrent => tier'[u] = tier[u]
         /\ silent' \in {silent, silent \cup {r.torrent}}
         /\ slipped' \in {slipped, slipped \ {r.torrent}}
         /\ finished' \in {finished, finished \ {r.torrent}}
         /\ Tended(r.torrent)'
<1> DEFINE t == r.torrent
           x == tier[t]
           y == tier'[t]
           z == IF reply = "ok" THEN AnnounceTaken(x, r) ELSE AnnounceFailed(x, r.event, reply)
<1>1. /\ t \in Torrents /\ x \in OrderedTier /\ tier \in [Torrents -> OrderedTier]
      /\ Tended(t) /\ r.event \in Event /\ r \in Announces(t) /\ Requested /\ t \in present
  BY DEF IInv, Types, Request, Event, Announces
<1>2. /\ tier' = [tier EXCEPT ![t] = z]
      /\ silent' = IF reply = "unregistered" \/ (reply = "fail" /\ r.event = "stopped")
                   THEN silent \cup {t} ELSE silent
      /\ slipped' = IF Cardinality(Flying("announce", t)) = 1 THEN slipped \ {t} ELSE slipped
      /\ finished' = IF r.event = "completed" /\ reply # "fail" THEN finished \ {t} ELSE finished
  BY DEF AnnounceDone
<1>3. /\ z \in OrderedTier /\ ~ z.announcing
      /\ "completed" \in Range(x.queue) => "completed" \in Range(z.queue)
      /\ z.scraping => x.scraping /\ z.current = x.current
      /\ reply = "fail" /\ r.event = "completed" => "completed" \in Range(z.queue)
      /\ reply = "fail" /\ r.event # "stopped" => z.queue # <<>> /\ Lively(z)
      /\ reply = "ok" /\ r.event # "stopped" /\ Lively(x) => z.queue # <<>> /\ Lively(z)
      /\ reply = "ok" /\ r.event = "stopped" => z.queue = x.queue /\ z.at = x.at
  <2>1. CASE reply = "ok"
    <3>1. z = AnnounceTaken(x, r) BY <2>1
    <3> HIDE DEF t, x, z
    <3> QED BY <1>1, <2>1, <3>1, AnnounceTakenType
  <2>2. CASE reply # "ok"
    <3>1. z = AnnounceFailed(x, r.event, reply) BY <2>2
    <3> HIDE DEF t, x, z
    <3> QED BY <1>1, <2>2, <3>1, AnnounceFailedType
  <2> QED BY <2>1, <2>2
<1>4. reply = "ok" \/ reply = "fail" \/ reply = "unregistered" BY DEF Replies
<1> HIDE DEF z
<1>5. y = z /\ tier' \in [Torrents -> OrderedTier] /\ \A u \in Torrents : u # t => tier'[u] = tier[u]
  BY <1>1, <1>2, <1>3
<1> HIDE DEF y
<1>6. UnderWay \in [SUBSET Request -> Nat] /\ UnderWay' \in [SUBSET Request -> Nat]
  BY <1>1, UnderWayType, UnderWayTypeNext
<1>7. UnderWay[Announces(t)] = UnderWay'[Announces(t)] + 1 /\ UnderWay'[Announces(t)] \in Nat
  BY <1>1, <1>6, RequestSets
<1>8. /\ r.event # "completed" => UnderWay'[Completions(t)] = UnderWay[Completions(t)]
      /\ r.event = "stopped" => UnderWay'[Goings(t)] = UnderWay[Goings(t)]
  <2>1. r \in Completions(t) <=> r.event = "completed" BY <1>1 DEF Completions
  <2>2. r \in Goings(t) <=> r.event # "stopped" BY <1>1 DEF Goings
  <2>3. ASSUME NEW S \in SUBSET Request, r \notin S PROVE UnderWay'[S] = UnderWay[S]
    <3>1. UnderWay'[S] \in Nat /\ UnderWay[S] = UnderWay'[S] + 0 BY <1>6, <2>3
    <3> QED BY <3>1
  <2> QED BY <2>1, <2>2, <2>3, RequestSets
<1>9. UnderWay'[Scrapes(t, x.current)] = UnderWay[Scrapes(t, x.current)]
  <2>1. r \notin Scrapes(t, x.current) BY DEF Scrapes
  <2>2. Scrapes(t, x.current) \in SUBSET Request BY RequestSets
  <2>3. /\ UnderWay'[Scrapes(t, x.current)] \in Nat
        /\ UnderWay[Scrapes(t, x.current)] = UnderWay'[Scrapes(t, x.current)] + 0
    BY <1>6, <2>1, <2>2
  <2> QED BY <2>3
<1>10. Fresh(t)' BY <1>1 DEF Fresh
<1>11. Waits(t)' BY <1>1, <1>3, <1>5, <1>9 DEF Tended, Waits, y
<1>12. Once(t)'
  <2>1. SUFFICES ASSUME t \notin slipped' PROVE UnderWay'[Announces(t)] = 0
    BY DEF Once
  <2>2. UnderWay[Announces(t)] = 1
    <3>1. Cardinality(Flying("announce", t)) = UnderWay[Announces(t)] BY <1>1, FlyingUnderWay
    <3>2. CASE t \in slipped BY <1>2, <2>1, <3>1, <3>2
    <3>3. CASE t \notin slipped BY <1>1, <1>7, <3>3 DEF Tended, Once
    <3> QED BY <3>2, <3>3
  <2> QED BY <1>7, <2>2
<1>13. Told(t)'
  <2>1. SUFFICES ASSUME t \in finished'
                 PROVE  "completed" \in Range(y.queue) \/ UnderWay'[Completions(t)] > 0
    BY DEF Told, y
  <2>2. t \in finished /\ ~ (r.event = "completed" /\ reply # "fail") BY <1>2, <2>1
  <2> QED BY <1>1, <1>3, <1>5, <1>8, <2>2 DEF Tended, Told
<1>14. GoesOn(t)'
  <2>1. SUFFICES ASSUME t \in running \ silent'
                 PROVE  Lively(y) /\ (y.queue = <<>> => UnderWay'[Goings(t)] > 0)
    BY DEF GoesOn, y, Lively
  <2>2. reply # "unregistered" /\ ~ (reply = "fail" /\ r.event = "stopped") /\ t \notin silent
    BY <1>2, <2>1
  <2>3. Lively(x) /\ (x.queue = <<>> => UnderWay[Goings(t)] > 0)
    BY <1>1, <2>1, <2>2 DEF Tended, GoesOn
  <2>4. CASE r.event # "stopped" BY <1>3, <1>4, <1>5, <2>2, <2>3, <2>4
  <2>5. CASE r.event = "stopped"
    <3>1. y.queue = x.queue /\ y.at = x.at BY <1>3, <1>4, <1>5, <2>2, <2>5
    <3> QED BY <1>8, <2>3, <2>5, <3>1 DEF Lively
  <2> QED BY <2>4, <2>5
<1>15. Tended(t)' BY <1>10, <1>11, <1>12, <1>13, <1>14 DEF Tended
<1>16. /\ silent' \in {silent, silent \cup {t}} /\ slipped' \in {slipped, slipped \ {t}}
       /\ finished' \in {finished, finished \ {t}}
  BY <1>2
<1> QED BY <1>5, <1>15, <1>16

\* The answer of a scrape of the current tracker of the tier of t.
LEMMA ScrapeAnswered ==
  ASSUME IInv, Requested', NEW r \in Request, r.kind = "scrape", r.torrent \in present,
         \A S \in SUBSET Request : UnderWay[S] = UnderWay'[S] + (IF r \in S THEN 1 ELSE 0),
         NEW reply \in {"ok", "fail"}, ScrapeDone(r, reply), UNCHANGED <<present, running>>
  PROVE  /\ tier' \in [Torrents -> OrderedTier]
         /\ \A u \in Torrents : u # r.torrent => tier'[u] = tier[u]
         /\ slipped' \in {slipped, slipped \cup {r.torrent}}
         /\ UNCHANGED <<silent, finished>>
         /\ Tended(r.torrent)'
<1> DEFINE t == r.torrent
           x == tier[t]
           y == tier'[t]
           z == IF reply = "ok" THEN [x EXCEPT !.scraping = FALSE] ELSE NextTracker(x)
<1>1. /\ t \in Torrents /\ x \in OrderedTier /\ tier \in [Torrents -> OrderedTier]
      /\ Tended(t) /\ Requested /\ t \in present
  BY DEF IInv, Types, Request
<1>2. /\ tier' = [tier EXCEPT ![t] = z]
      /\ slipped' = IF reply # "ok" /\ Flying("announce", t) # {} THEN slipped \cup {t} ELSE slipped
      /\ UNCHANGED <<silent, finished>>
  BY DEF ScrapeDone
<1>3. /\ z \in OrderedTier /\ z.queue = x.queue /\ z.at = x.at /\ ~ z.scraping
      /\ z.announcing => x.announcing
      /\ reply = "ok" => z.announcing = x.announcing
  <2>1. CASE reply = "ok"
    <3>1. z = [x EXCEPT !.scraping = FALSE] BY <2>1
    <3> HIDE DEF t, x, z
    <3>2. x \in Tier BY <1>1 DEF OrderedTier
    <3>3. /\ z \in Tier /\ z.queue = x.queue /\ z.at = x.at /\ ~ z.scraping
          /\ z.announcing = x.announcing
      BY <3>1, <3>2 DEF Tier
    <3> QED BY <1>1, <3>3 DEF OrderedTier
  <2>2. CASE reply # "ok"
    <3>1. z = NextTracker(x) BY <2>2
    <3> HIDE DEF t, x, z
    <3> QED BY <1>1, <2>2, <3>1, NextTrackerType
  <2> QED BY <2>1, <2>2
<1> HIDE DEF z
<1>4. y = z /\ tier' \in [Torrents -> OrderedTier] /\ \A u \in Torrents : u # t => tier'[u] = tier[u]
  BY <1>1, <1>2, <1>3
<1> HIDE DEF y
<1>5. UnderWay \in [SUBSET Request -> Nat] /\ UnderWay' \in [SUBSET Request -> Nat]
  BY <1>1, UnderWayType, UnderWayTypeNext
<1>6. /\ UnderWay'[Announces(t)] = UnderWay[Announces(t)]
      /\ UnderWay'[Completions(t)] = UnderWay[Completions(t)]
      /\ UnderWay'[Goings(t)] = UnderWay[Goings(t)]
  <2>1. r \notin Announces(t) /\ r \notin Completions(t) /\ r \notin Goings(t)
    BY DEF Announces, Completions, Goings
  <2>2. ASSUME NEW S \in SUBSET Request, r \notin S PROVE UnderWay'[S] = UnderWay[S]
    <3>1. UnderWay'[S] \in Nat /\ UnderWay[S] = UnderWay'[S] + 0 BY <1>5, <2>2
    <3> QED BY <3>1
  <2> QED BY <2>1, <2>2, RequestSets
<1>7. Fresh(t)' BY <1>1 DEF Fresh
<1>8. Waits(t)' BY <1>1, <1>3, <1>4, <1>6 DEF Tended, Waits, y
<1>9. Once(t)'
  <2>1. SUFFICES ASSUME t \notin slipped'
                 PROVE  /\ UnderWay'[Announces(t)] <= 1
                        /\ UnderWay'[Announces(t)] > 0 => y.announcing
    BY DEF Once, y
  <2>2. t \notin slipped BY <1>2, <2>1
  <2>3. CASE reply = "ok" BY <1>1, <1>3, <1>4, <1>6, <2>2, <2>3 DEF Tended, Once
  <2>4. CASE reply # "ok"
    <3>1. Flying("announce", t) = {} BY <1>2, <2>1, <2>4
    <3>2. UnderWay[Announces(t)] = 0 BY <1>1, <3>1, FlyingUnderWay
    <3> QED BY <1>6, <3>2
  <2> QED BY <2>3, <2>4
<1>10. Told(t)' BY <1>1, <1>2, <1>3, <1>4, <1>6 DEF Tended, Told, y
<1>11. GoesOn(t)' BY <1>1, <1>2, <1>3, <1>4, <1>6 DEF Tended, GoesOn, Lively, y
<1>12. Tended(t)' BY <1>7, <1>8, <1>9, <1>10, <1>11 DEF Tended
<1> QED BY <1>2, <1>4, <1>12

LEMMA TakeAnswerIInv == ASSUME IInv, TakeAnswer PROVE IInv'
<1>0a. answers # <<>> /\ answers' = Tail(answers) /\ UNCHANGED <<queued, fetching>> /\ Requested
  BY DEF TakeAnswer, IInv, Types
<1>0b. Head(answers) \in Request BY <1>0a, AnswerTaken
<1>0c. PICK r \in Request : r = Head(answers) BY <1>0b
<1> DEFINE known == r.kind # "orphan" /\ phase \in {"up", "closing"} /\ r.torrent \in present
<1>1. /\ phase \notin {"deleted", "crashed"} /\ answers # <<>> /\ answers' = Tail(answers)
      /\ pending' = IF r.event = "stopped" THEN pending - 1 ELSE pending
      /\ \/ known /\ r.kind = "announce" /\ \E reply \in Replies : AnnounceDone(r, reply)
         \/ known /\ r.kind = "scrape" /\ r.tracker = tier[r.torrent].current
            /\ \E reply \in {"ok", "fail"} : ScrapeDone(r, reply)
         \/ /\ known => r.kind = "scrape" /\ r.tracker # tier[r.torrent].current
            /\ UNCHANGED <<tier, history>>
      /\ UNCHANGED <<queued, fetching, deadline, web, present, running, stops, phase, events>>
  BY <1>0c DEF TakeAnswer
<1>2. /\ Types /\ Phases /\ StopsCounted /\ Requested /\ present \subseteq Torrents
      /\ tier \in [Torrents -> OrderedTier]
      /\ silent \subseteq Torrents /\ slipped \subseteq Torrents /\ finished \subseteq Torrents
  BY DEF IInv, Types
<1>3. /\ Requested' /\ r \in Request
      /\ \A S \in SUBSET Request : UnderWay[S] = UnderWay'[S] + (IF r \in S THEN 1 ELSE 0)
  BY <1>0a, <1>0c, AnswerTaken
<1>4. UnderWay \in [SUBSET Request -> Nat] /\ UnderWay' \in [SUBSET Request -> Nat]
  BY <1>2, <1>3, UnderWayType, UnderWayTypeNext
<1>5. UNCHANGED <<present, running>> BY <1>1
<1>6. Phases' BY <1>1, <1>2 DEF Phases
<1>7. StopsCounted'
  <2>1. r \in StopRequests <=> r.event = "stopped" BY <1>3 DEF StopRequests
  <2>2. /\ UnderWay[StopRequests] = UnderWay'[StopRequests] + (IF r.event = "stopped" THEN 1 ELSE 0)
        /\ UnderWay'[StopRequests] \in Nat
    BY <1>3, <1>4, <2>1, RequestSets
  <2> QED BY <1>1, <1>2, <2>2 DEF StopsCounted
\* A tier of another torrent does not wait for r.
<1>8. ASSUME NEW u \in Torrents, r.kind # "orphan" => u # r.torrent,
             tier'[u] = tier[u], u \in silent' <=> u \in silent,
             u \in slipped' <=> u \in slipped, u \in finished' => u \in finished
      PROVE  Tended(u)'
  <2>1. r \notin Announces(u) /\ r \notin Scrapes(u, tier[u].current)
    BY <1>8 DEF Announces, Scrapes
  <2>2. Tended(u) BY DEF IInv
  <2> QED BY <1>3, <1>4, <1>5, <1>8, <2>1, <2>2, AnswerIgnored
<1>9. CASE known /\ r.kind = "announce" /\ \E reply \in Replies : AnnounceDone(r, reply)
  <2>1. PICK reply \in Replies : AnnounceDone(r, reply) BY <1>9
  <2>2. r.kind = "announce" /\ r.torrent \in present BY <1>9
  <2>3. /\ tier' \in [Torrents -> OrderedTier]
        /\ \A u \in Torrents : u # r.torrent => tier'[u] = tier[u]
        /\ silent' \in {silent, silent \cup {r.torrent}}
        /\ slipped' \in {slipped, slipped \ {r.torrent}}
        /\ finished' \in {finished, finished \ {r.torrent}}
        /\ Tended(r.torrent)'
    BY <1>3, <1>5, <2>1, <2>2, AnnounceAnswered
  <2>4. ASSUME NEW u \in Torrents PROVE Tended(u)'
    <3>1. CASE u = r.torrent BY <2>3, <3>1
    <3>2. CASE u # r.torrent
      <4>1. /\ tier'[u] = tier[u] /\ (u \in silent' <=> u \in silent)
            /\ u \in slipped' <=> u \in slipped
            /\ u \in finished' => u \in finished
        BY <2>3, <3>2
      <4> QED BY <1>8, <3>2, <4>1
    <3> QED BY <3>1, <3>2
  <2>5. silent' \subseteq Torrents /\ slipped' \subseteq Torrents /\ finished' \subseteq Torrents
    BY <1>2, <2>2, <2>3
  <2>6. Types' BY <1>1, <1>2, <1>3, <2>3, <2>5 DEF Types
  <2> QED BY <1>6, <1>7, <2>4, <2>6 DEF IInv
<1>10. CASE known /\ r.kind = "scrape" /\ r.tracker = tier[r.torrent].current
            /\ \E reply \in {"ok", "fail"} : ScrapeDone(r, reply)
  <2>1. PICK reply \in {"ok", "fail"} : ScrapeDone(r, reply) BY <1>10
  <2>2. r.kind = "scrape" /\ r.torrent \in present BY <1>10
  <2>3. /\ tier' \in [Torrents -> OrderedTier]
        /\ \A u \in Torrents : u # r.torrent => tier'[u] = tier[u]
        /\ slipped' \in {slipped, slipped \cup {r.torrent}}
        /\ UNCHANGED <<silent, finished>>
        /\ Tended(r.torrent)'
    BY <1>3, <1>5, <2>1, <2>2, ScrapeAnswered
  <2>4. ASSUME NEW u \in Torrents PROVE Tended(u)'
    <3>1. CASE u = r.torrent BY <2>3, <3>1
    <3>2. CASE u # r.torrent
      <4>1. /\ tier'[u] = tier[u] /\ (u \in silent' <=> u \in silent)
            /\ u \in slipped' <=> u \in slipped
            /\ u \in finished' => u \in finished
        BY <2>3, <3>2
      <4> QED BY <1>8, <3>2, <4>1
    <3> QED BY <3>1, <3>2
  <2>5. silent' \subseteq Torrents /\ slipped' \subseteq Torrents /\ finished' \subseteq Torrents
    BY <1>2, <2>2, <2>3
  <2>6. Types' BY <1>1, <1>2, <1>3, <2>3, <2>5 DEF Types
  <2> QED BY <1>6, <1>7, <2>4, <2>6 DEF IInv
<1>11. CASE /\ known => r.kind = "scrape" /\ r.tracker # tier[r.torrent].current
            /\ UNCHANGED <<tier, history>>
  <2>1. UNCHANGED <<tier, silent, slipped, finished>> BY <1>11 DEF history
  <2>2. Types' BY <1>1, <1>2, <1>3, <2>1 DEF Types
  <2>3. ASSUME NEW u \in Torrents PROVE Tended(u)'
    <3>1. Tended(u) BY DEF IInv
    <3>2. CASE r.kind = "orphan" \/ u # r.torrent
      <4>1. r.kind # "orphan" => u # r.torrent BY <3>2
      <4> QED BY <1>8, <2>1, <4>1
    <3>3. CASE r.kind # "orphan" /\ u = r.torrent /\ known
      <4>1. r.kind = "scrape" /\ r.tracker # tier[u].current BY <1>11, <3>3
      <4>2. r \notin Announces(u) /\ r \notin Scrapes(u, tier[u].current)
        BY <4>1 DEF Announces, Scrapes
      <4> QED BY <1>3, <1>4, <1>5, <2>1, <3>1, <4>2, AnswerIgnored
    <3>4. CASE r.kind # "orphan" /\ u = r.torrent /\ ~ known
      <4>1. u \notin present
        <5>1. CASE phase \in {"up", "closing"} BY <3>4, <5>1
        <5>2. CASE phase \notin {"up", "closing"}
          <6>1. phase \notin {"up", "crashed"} BY <1>1, <5>2
          <6> QED BY <1>2, <6>1 DEF Phases
        <5> QED BY <5>1, <5>2
      <4>2. tier[u] = NewTier /\ UnderWay[Announces(u)] = 0 BY <3>1, <4>1 DEF Tended, Fresh
      <4>3. ~ tier[u].scraping BY <4>2 DEF NewTier
      <4>4. r \notin Announces(u)
        <5>1. SUFFICES ASSUME r \in Announces(u) PROVE FALSE OBVIOUS
        <5>2. UnderWay[Announces(u)] = UnderWay'[Announces(u)] + 1 /\ UnderWay'[Announces(u)] \in Nat
          BY <1>3, <1>4, <5>1, RequestSets
        <5> QED BY <4>2, <5>2
      <4> QED BY <1>3, <1>4, <1>5, <2>1, <3>1, <4>3, <4>4, AnswerIgnored
    <3> QED BY <3>2, <3>3, <3>4
  <2> QED BY <1>6, <1>7, <2>2, <2>3 DEF IInv
<1> QED BY <1>1, <1>9, <1>10, <1>11

-----------------------------------------------------------------------------
LEMMA NextIInv == ASSUME IInv, [Next]_vars PROVE IInv'
<1>1. CASE UNCHANGED vars
  <2>1. /\ UNCHANGED <<queued, fetching, answers, deadline, web, phase>>
        /\ UNCHANGED <<present, running, tier, stops, pending, events, silent, slipped, finished>>
    BY <1>1 DEF vars, webVars, torrents, history
  <2>2. Requested' /\ UnderWay' = UnderWay BY <2>1, UnderWayUnchanged DEF IInv, Types
  <2>3. Phases' BY <2>1 DEF IInv, Phases
  <2> QED BY <2>1, <2>2, <2>3, FrameIInv DEF IInv, Types
<1>2. ASSUME NEW t \in Torrents,
             \/ Add(t) \/ Start(t) \/ Stop(t) \/ Complete(t) \/ Reset(t) \/ RemoveTorrent(t) \/ Due(t)
             \/ \E e \in {"started", "none"} : Again(t, e)
      PROVE  IInv'
  <2>1. CASE Add(t) BY <2>1, AddIInv
  <2>2. CASE Start(t) \/ Stop(t) \/ Complete(t) \/ \E e \in {"started", "none"} : Again(t, e)
    BY <2>2, UserIInv
  <2>3. CASE Reset(t) BY <2>3, ResetIInv
  <2>4. CASE RemoveTorrent(t) BY <2>4, RemoveTorrentIInv
  <2>5. CASE Due(t) BY <2>5, DueIInv
  <2> QED BY <1>2, <2>1, <2>2, <2>3, <2>4, <2>5
<1>3. CASE Upkeep BY <1>3, UpkeepIInv
<1>4. CASE UpkeepCrashes \/ CloseDone \/ CloseLate \/ Destroy \/ Deleted BY <1>4, SessionIInv
<1>5. CASE TakeAnswer BY <1>5, TakeAnswerIInv
<1>6. CASE Close BY <1>6, CloseIInv
<1>7. CASE WebSteps BY <1>7, WebIInv
<1> QED BY <1>1, <1>2, <1>3, <1>4, <1>5, <1>6, <1>7 DEF Next

\* The inductive invariant: what is queued, what is flagged and what is under way
\* agree for every tier, and so do the stops and their number.
THEOREM AnnouncerInvariant == Spec => []IInv
<1>1. Init => IInv BY InitIInv
<1>2. IInv /\ [Next]_vars => IInv' BY NextIInv
<1> QED BY <1>1, <1>2, PTL DEF Spec

\* Every variable has its type, and the number of pending stops, an unsigned one in
\* the code, never goes below zero.
THEOREM AnnouncerTypeCorrect == Spec => []TypeOK
<1>1. IInv => TypeOK
  <2>1. SUFFICES ASSUME IInv PROVE TypeOK OBVIOUS
  <2>2. queued \in Seq(Tasks) /\ fetching \in Seq(Tasks) /\ answers \in Seq(Tasks)
    BY <2>1, RequestsAreTasks DEF IInv, Types, Requested
  <2>3. WebTypeOK BY <2>1, <2>2 DEF IInv, Types, WebTypeOK
  <2>4. pending \in Nat BY <2>1, UnderWayType, RequestSets DEF IInv, Types, StopsCounted
  <2>5. tier \in [Torrents -> Tier] BY <2>1 DEF IInv, Types, OrderedTier
  <2> QED BY <2>1, <2>3, <2>4, <2>5 DEF IInv, Types, TypeOK
<1> QED BY <1>1, AnnouncerInvariant, PTL

\* No tier waits for ever: what isAnnouncing and isScraping stand for is under way,
\* whatever was edited, removed or failed meanwhile.
THEOREM NothingWaitedForInVain == Spec => []WaitsForSomething
<1>1. IInv => WaitsForSomething
  <2>1. SUFFICES ASSUME IInv, NEW t \in present
                 PROVE  /\ tier[t].announcing => Flying("announce", t) # {}
                        /\ tier[t].scraping => Flying("scrape", t) # {}
    BY DEF WaitsForSomething
  <2>2. Requested /\ Waits(t) BY <2>1 DEF IInv, Types, Tended
  <2>3. UnderWay[Announces(t)] > 0 => UnderWay[Announces(t)] # 0 OBVIOUS
  <2> QED BY <2>2, <2>3, FlyingUnderWay DEF Waits
<1> QED BY <1>1, AnnouncerInvariant, PTL

\* A running torrent goes on announcing, but for the three ways in which the code
\* lets it fall silent.
THEOREM RunningNeverForgotten == Spec => []RunningKeepsAnnouncing
<1>1. IInv => RunningKeepsAnnouncing
  <2>1. SUFFICES ASSUME IInv, NEW t \in running \ silent
                 PROVE  \/ tier[t].queue # <<>> /\ tier[t].at # "never"
                        \/ Flying("announce", t) # {}
    BY DEF RunningKeepsAnnouncing
  <2>2. t \in Torrents /\ Requested /\ GoesOn(t) BY <2>1 DEF IInv, Types, Tended
  <2>3. tier[t].queue # <<>> => tier[t].at # "never" BY <2>1, <2>2 DEF GoesOn, Lively
  <2>4. ASSUME tier[t].queue = <<>> PROVE Flying("announce", t) # {}
    <3>1. UnderWay[Goings(t)] > 0 BY <2>1, <2>2, <2>4 DEF GoesOn
    <3>2. Hits(InFlight, Goings(t)) # {}
      <4>1. UnderWay[Goings(t)] = Cardinality(Hits(InFlight, Goings(t)))
        BY <2>2, RequestSets, UnderWayInFlight
      <4> QED BY <3>1, <4>1, FS_EmptySet
    <3>3. Hits(InFlight, Goings(t)) \subseteq Flying("announce", t)
      BY DEF Hits, Goings, Announces, Flying
    <3> QED BY <3>2, <3>3
  <2> QED BY <2>3, <2>4
<1> QED BY <1>1, AnnouncerInvariant, PTL

\* Queued events are merged as tier_announce_event_push() says.
THEOREM QueuesMerged == Spec => []EventsMerged
<1>1. IInv => EventsMerged
  <2>1. SUFFICES ASSUME IInv, NEW t \in present PROVE Merged(tier[t].queue)
    BY DEF EventsMerged, Merged
  <2> QED BY <2>1 DEF IInv, Types, OrderedTier
<1> QED BY <1>1, AnnouncerInvariant, PTL

\* No completion is lost before some tracker was told of it.
THEOREM CompletionNotLost == Spec => []CompletionIsTold
<1>1. IInv => CompletionIsTold
  <2>1. SUFFICES ASSUME IInv, NEW t \in finished
                 PROVE  \/ "completed" \in Range(tier[t].queue)
                        \/ \E i \in Flying("announce", t) : InFlight[i].event = "completed"
    BY DEF CompletionIsTold
  <2>2. Requested /\ Told(t) BY <2>1 DEF IInv, Types, Tended
  <2> QED BY <2>1, <2>2, FlyingUnderWay DEF Told
<1> QED BY <1>1, AnnouncerInvariant, PTL

\* A tier has one announce under way at a time, unless a scrape failed meanwhile.
THEOREM AnnouncesOnce == Spec => []OneAnnounceAtATime
<1>1. IInv => OneAnnounceAtATime
  <2>1. SUFFICES ASSUME IInv, NEW t \in present \ slipped
                 PROVE  Cardinality(Flying("announce", t)) <= 1
    BY DEF OneAnnounceAtATime
  <2>2. Requested /\ Once(t) BY <2>1 DEF IInv, Types, Tended
  <2>3. Cardinality(Flying("announce", t)) = UnderWay[Announces(t)] BY <2>2, FlyingUnderWay
  <2> QED BY <2>1, <2>2, <2>3 DEF Once
<1> QED BY <1>1, AnnouncerInvariant, PTL

\* The stops that the close waits for are under way, each of them once, so that the
\* close neither ends too early nor waits for one that was forgotten.
THEOREM StopsCountedRight == Spec => []PendingStopsAreUnderWay
<1>1. IInv => PendingStopsAreUnderWay
  BY FlyingUnderWay DEF IInv, Types, StopsCounted, PendingStopsAreUnderWay
<1> QED BY <1>1, AnnouncerInvariant, PTL
=============================================================================
