---------------------------- MODULE LifecycleProofs ----------------------------
(***************************************************************************)
(* Proofs about Lifecycle.tla, for any number of torrents and requests:    *)
(* its types, that the verify worker holds no torrent that was freed and   *)
(* shows each torrent's state as it is, and that a torrent is not verified *)
(* while it runs.  What they rest on is the order of what the session      *)
(* thread has begun: nothing is freed, added to the worker's list, moved   *)
(* or stopped but after the worker has let go of it.                       *)
(***************************************************************************)
EXTENDS Lifecycle, FiniteSetTheorems, SequenceTheorems, TLAPS

-----------------------------------------------------------------------------
\* The tasks: most are about a torrent, and only one that the main thread adds is
\* started by a job.
JobType ==
  [op : {"verify", "verified"}, t : Torrents] \cup [op : {"started"}, t : Watched]
  \cup [op : {"close"}, t : {None}]
TaskType ==
  JobType \cup [op : {"queue", "join"}, t : {None}]
  \cup [op : {"start", "startNow", "remove", "add", "await", "stop", "stopped", "idle",
              "moved", "free"}, t : Torrents]

\* Whether y may come right after x.
Follows(x, y) ==
  /\ y.op = "free" => x.t = y.t /\ x.op \in {"stop", "stopped"}
  /\ y.op \in {"stopped", "moved"} => x.t = y.t /\ x.op \in {"remove", "await"}
  /\ y.op = "add" => x.t = y.t /\ x.op \in {"remove", "await", "stop", "stopped"}
  /\ y.op \notin {"remove", "await", "join"}

\* A task that anything may come before.
Free(y) == y.op \notin {"free", "stopped", "moved", "add", "remove", "await", "join"}

Chain(s) == \A i \in 2 .. Len(s) : Follows(s[i - 1], s[i])

\* What comes before a torrent is added to the worker's list is about that torrent,
\* and stops it if it is among those that run.
Prelude == {"remove", "await", "stop", "stopped"}
AddsWell(s, runners) ==
  \A j \in 1 .. Len(s) : s[j].op = "add" =>
    /\ \A i \in 1 .. j - 1 : s[i].t = s[j].t /\ s[i].op \in Prelude
    /\ s[j].t \in runners => \E i \in 1 .. j - 1 : s[i].op = "stop"

\* The worker has let go of t, and will not take it.
Out(t) == t \notin todo /\ current # t

\* What holds when the task y is next.
Ready(y) ==
  /\ y.op \in {"free", "stopped", "moved", "add"} => Out(y.t)
  /\ y.op = "await" => y.t \notin todo /\ (current = y.t => stop)

-----------------------------------------------------------------------------
\* Sequences.

LEMMA TaskIsTask == ASSUME NEW x \in TaskType PROVE x = Task(x.op, x.t) /\ x.t \in Torrents \cup {None}
BY LifecycleAssumption DEF TaskType, JobType, Task

LEMMA Spliced ==
  ASSUME NEW S, NEW s \in Seq(S), s # <<>>, NEW more \in Seq(S)
  PROVE  /\ more \o Tail(s) \in Seq(S)
         /\ Len(more \o Tail(s)) = Len(more) + Len(s) - 1 /\ Len(s) \in Nat \ {0} /\ Len(more) \in Nat
         /\ \A i \in 1 .. Len(more) : (more \o Tail(s))[i] = more[i]
         /\ \A i \in Len(more) + 1 .. Len(more) + Len(s) - 1 :
              (more \o Tail(s))[i] = s[i - Len(more) + 1]
OBVIOUS

\* The head of a sequence of tasks is replaced by others: what is next goes on.
LEMMA ChainSpliced ==
  ASSUME NEW s \in Seq(TaskType), s # <<>>, Chain(s), NEW more \in Seq(TaskType), Chain(more),
         more # <<>> => \A y \in TaskType : Follows(s[1], y) => Follows(more[Len(more)], y)
  PROVE  Chain(more \o Tail(s))
<1> DEFINE r == more \o Tail(s)
<1>1. /\ Len(r) = Len(more) + Len(s) - 1 /\ Len(s) \in Nat \ {0} /\ Len(more) \in Nat
      /\ \A i \in 1 .. Len(more) : r[i] = more[i]
      /\ \A i \in Len(more) + 1 .. Len(more) + Len(s) - 1 : r[i] = s[i - Len(more) + 1]
  BY Spliced
<1> HIDE DEF r
<1>2. ASSUME NEW i \in 2 .. Len(r) PROVE Follows(r[i - 1], r[i])
  <2>1. CASE i <= Len(more) BY <1>1, <2>1 DEF Chain
  <2>2. CASE i = Len(more) + 1
    <3>1. r[i] = s[2] /\ r[i - 1] = more[Len(more)] /\ 2 \in 2 .. Len(s) /\ more # <<>>
      BY <1>1, <2>2
    <3>2. Follows(s[1], s[2]) /\ s[2] \in TaskType BY <3>1, <1>1 DEF Chain
    <3> QED BY <3>1, <3>2
  <2>3. CASE i > Len(more) + 1
    <3>1. r[i] = s[i - Len(more) + 1] /\ r[i - 1] = s[i - Len(more)]
      <4>1. i \in Len(more) + 1 .. Len(more) + Len(s) - 1 BY <1>1, <2>3
      <4>2. i - 1 \in Len(more) + 1 .. Len(more) + Len(s) - 1 BY <1>1, <2>3
      <4>3. (i - 1) - Len(more) + 1 = i - Len(more) BY <1>1
      <4> QED BY <1>1, <4>1, <4>2, <4>3
    <3>2. i - Len(more) + 1 \in 2 .. Len(s) BY <1>1, <2>3
    <3>3. Follows(s[(i - Len(more) + 1) - 1], s[i - Len(more) + 1]) BY <3>2 DEF Chain
    <3>4. (i - Len(more) + 1) - 1 = i - Len(more) BY <1>1
    <3> QED BY <3>1, <3>3, <3>4
  <2> QED BY <1>1, <2>1, <2>2, <2>3
<1> QED BY <1>2 DEF Chain, r

\* Behind any other task there is none that adds.
LEMMA AddsSpliced ==
  ASSUME NEW s \in Seq(TaskType), s # <<>>, NEW R, AddsWell(s, R), s[1].op \notin Prelude,
         NEW more \in Seq(TaskType), NEW Q, AddsWell(more, Q)
  PROVE  AddsWell(more \o Tail(s), Q)
<1> DEFINE r == more \o Tail(s)
<1>1. /\ Len(r) = Len(more) + Len(s) - 1 /\ Len(s) \in Nat \ {0} /\ Len(more) \in Nat
      /\ \A i \in 1 .. Len(more) : r[i] = more[i]
      /\ \A i \in Len(more) + 1 .. Len(more) + Len(s) - 1 : r[i] = s[i - Len(more) + 1]
  BY Spliced
<1> HIDE DEF r
<1>2. \A j \in 2 .. Len(s) : s[j].op # "add" BY <1>1 DEF AddsWell
<1>3. \A j \in Len(more) + 1 .. Len(r) : r[j].op # "add"
  <2> SUFFICES ASSUME NEW j \in Len(more) + 1 .. Len(r) PROVE r[j].op # "add" OBVIOUS
  <2>1. r[j] = s[j - Len(more) + 1] /\ j - Len(more) + 1 \in 2 .. Len(s) BY <1>1
  <2> QED BY <1>2, <2>1
<1>4. ASSUME NEW j \in 1 .. Len(r), r[j].op = "add"
      PROVE  /\ \A i \in 1 .. j - 1 : r[i].t = r[j].t /\ r[i].op \in Prelude
             /\ r[j].t \in Q => \E i \in 1 .. j - 1 : r[i].op = "stop"
  <2>1. j \in 1 .. Len(more) /\ r[j] = more[j] BY <1>1, <1>3, <1>4
  <2>2. \A i \in 1 .. j - 1 : i \in 1 .. Len(more) /\ r[i] = more[i] BY <1>1, <2>1
  <2>3. /\ \A i \in 1 .. j - 1 : more[i].t = more[j].t /\ more[i].op \in Prelude
        /\ more[j].t \in Q => \E i \in 1 .. j - 1 : more[i].op = "stop"
    BY <1>4, <2>1 DEF AddsWell
  <2> QED BY <2>1, <2>2, <2>3
<1> QED BY <1>4 DEF AddsWell, r

\* Within what comes before an add, the head is replaced by more of its kind.
LEMMA PreludeSpliced ==
  ASSUME NEW s \in Seq(TaskType), s # <<>>, NEW R, AddsWell(s, R),
         NEW more \in Seq(TaskType),
         \A i \in 1 .. Len(more) : more[i].t = s[1].t /\ more[i].op \in Prelude,
         NEW Q, \/ s[1].t \notin Q
                \/ s[1].op # "stop" /\ Q = R
  PROVE  AddsWell(more \o Tail(s), Q)
<1> DEFINE r == more \o Tail(s)
<1>1. /\ Len(r) = Len(more) + Len(s) - 1 /\ Len(s) \in Nat \ {0} /\ Len(more) \in Nat
      /\ \A i \in 1 .. Len(more) : r[i] = more[i]
      /\ \A i \in Len(more) + 1 .. Len(more) + Len(s) - 1 : r[i] = s[i - Len(more) + 1]
  BY Spliced
<1> HIDE DEF r
<1>2. ASSUME NEW j \in 1 .. Len(r), r[j].op = "add"
      PROVE  /\ \A i \in 1 .. j - 1 : r[i].t = r[j].t /\ r[i].op \in Prelude
             /\ r[j].t \in Q => \E i \in 1 .. j - 1 : r[i].op = "stop"
  <2> DEFINE k == j - Len(more) + 1
  <2>1. j \in Len(more) + 1 .. Len(r) BY <1>1, <1>2 DEF Prelude
  <2>2. r[j] = s[k] /\ k \in 2 .. Len(s) BY <1>1, <2>1
  <2>3. /\ \A i \in 1 .. k - 1 : s[i].t = s[k].t /\ s[i].op \in Prelude
        /\ s[k].t \in R => \E i \in 1 .. k - 1 : s[i].op = "stop"
    BY <1>1, <1>2, <2>2 DEF AddsWell
  <2>4. s[1].t = s[k].t BY <2>2, <2>3
  <2>5. ASSUME NEW i \in 1 .. j - 1 PROVE r[i].t = r[j].t /\ r[i].op \in Prelude
    <3>1. CASE i \in 1 .. Len(more) BY <1>1, <2>2, <2>4, <3>1
    <3>2. CASE i \in Len(more) + 1 .. j - 1
      <4>1. i - Len(more) + 1 \in 1 .. k - 1 BY <1>1, <2>2, <3>2
      <4>2. r[i] = s[i - Len(more) + 1]
        <5>1. i \in Len(more) + 1 .. Len(more) + Len(s) - 1 BY <1>1, <3>2
        <5> QED BY <1>1, <5>1
      <4> HIDE DEF k
      <4> QED BY <2>2, <2>3, <4>1, <4>2
    <3> QED BY <1>1, <3>1, <3>2
  <2>6. ASSUME r[j].t \in Q PROVE \E i \in 1 .. j - 1 : r[i].op = "stop"
    <3>1. s[1].op # "stop" /\ Q = R BY <2>2, <2>4, <2>6
    <3>2. PICK i \in 1 .. k - 1 : s[i].op = "stop" BY <2>2, <2>3, <2>6, <3>1
    <3>3. i # 1 BY <3>1, <3>2
    <3>4. i + Len(more) - 1 \in Len(more) + 1 .. j - 1 BY <1>1, <2>2, <3>3
    <3>5. r[i + Len(more) - 1] = s[(i + Len(more) - 1) - Len(more) + 1]
      <4>1. i + Len(more) - 1 \in Len(more) + 1 .. Len(more) + Len(s) - 1 BY <1>1, <3>4
      <4> QED BY <1>1, <4>1
    <3>6. (i + Len(more) - 1) - Len(more) + 1 = i BY <1>1
    <3>7. i + Len(more) - 1 \in 1 .. j - 1 BY <1>1, <3>4
    <3> QED BY <3>2, <3>5, <3>6, <3>7
  <2> QED BY <2>5, <2>6
<1> QED BY <1>2 DEF AddsWell, r

-----------------------------------------------------------------------------
\* The flags.

FlagsOK(s) ==
  /\ s \in [Flags -> SUBSET Torrents]
  /\ \A f \in Flags \ {"freed"} : s[f] \subseteq s.live
  /\ s.live \cap s.freed = {}

Knows(s) == \A t \in s.running \ Watched : t \in s.check \/ (t \in s.done <=> t \in s.whole)

LEMMA FlagSet ==
  ASSUME NEW s, FlagsOK(s), NEW t \in s.live, NEW f \in Flags \ {"live", "freed"}
  PROVE  /\ FlagsOK(Put(s, f, t)) /\ Put(s, f, t)[f] = s[f] \cup {t}
         /\ FlagsOK(Cut(s, f, t)) /\ Cut(s, f, t)[f] = s[f] \ {t}
         /\ \A g \in Flags \ {f} : Put(s, f, t)[g] = s[g] /\ Cut(s, f, t)[g] = s[g]
<1>1. {"live", "freed"} \subseteq Flags BY DEF Flags
<1>2. /\ Put(s, f, t) \in [Flags -> SUBSET Torrents] /\ Put(s, f, t)[f] = s[f] \cup {t}
      /\ Cut(s, f, t) \in [Flags -> SUBSET Torrents] /\ Cut(s, f, t)[f] = s[f] \ {t}
      /\ \A g \in Flags \ {f} : Put(s, f, t)[g] = s[g] /\ Cut(s, f, t)[g] = s[g]
  BY <1>1 DEF FlagsOK, Put, Cut
<1>3. /\ Put(s, f, t)["live"] = s["live"] /\ Put(s, f, t)["freed"] = s["freed"]
      /\ Cut(s, f, t)["live"] = s["live"] /\ Cut(s, f, t)["freed"] = s["freed"]
  BY <1>1, <1>2
<1>4. \A g \in Flags \ {"freed"} : Put(s, f, t)[g] \subseteq s.live /\ Cut(s, f, t)[g] \subseteq s.live
  BY <1>2 DEF FlagsOK
<1> QED BY <1>2, <1>3, <1>4 DEF FlagsOK

\* r is s with other flags of t, but for those of F.
Differs(s, r, t, F) ==
  /\ FlagsOK(r) /\ r.live = s.live /\ r.freed = s.freed
  /\ \A g \in Flags : \A u \in Torrents \ {t} : u \in r[g] <=> u \in s[g]
  /\ \A g \in F : r[g] = s[g]

LEMMA RecheckFlags ==
  ASSUME NEW s, FlagsOK(s), NEW t \in s.live
  PROVE  /\ Differs(s, Recheck(s, t), t, Flags \ {"check", "done"})
         /\ t \in Recheck(s, t).done <=> t \in s.whole
<1> DEFINE c == Cut(s, "check", t)
<1>1. /\ FlagsOK(c) /\ c["check"] = s["check"] \ {t} /\ \A g \in Flags \ {"check"} : c[g] = s[g]
  BY FlagSet DEF Flags
<1>2. c.live = s.live /\ c.freed = s.freed BY <1>1 DEF Flags
<1> HIDE DEF c
<1> DEFINE p == Put(c, "done", t)
           q == Cut(c, "done", t)
<1>3. /\ FlagsOK(p) /\ p["done"] = c["done"] \cup {t} /\ \A g \in Flags \ {"done"} : p[g] = c[g]
      /\ FlagsOK(q) /\ q["done"] = c["done"] \ {t} /\ \A g \in Flags \ {"done"} : q[g] = c[g]
  BY <1>1, <1>2, FlagSet DEF Flags
<1>4. Recheck(s, t) = IF t \in s.whole THEN p ELSE q BY DEF Recheck, Set, c
<1> HIDE DEF p, q
<1>5. p.live = s.live /\ p.freed = s.freed /\ q.live = s.live /\ q.freed = s.freed
  BY <1>2, <1>3 DEF Flags
<1>6. ASSUME NEW g \in Flags PROVE \A u \in Torrents \ {t} : (u \in p[g] <=> u \in s[g]) /\ (u \in q[g] <=> u \in s[g])
  <2>1. CASE g = "check" BY <1>1, <1>3, <2>1 DEF Flags
  <2>2. CASE g = "done" BY <1>1, <1>3, <2>2 DEF Flags
  <2>3. CASE g \notin {"check", "done"} BY <1>1, <1>3, <2>3
  <2> QED BY <2>1, <2>2, <2>3
<1>7. \A g \in Flags \ {"check", "done"} : p[g] = s[g] /\ q[g] = s[g] BY <1>1, <1>3
<1> QED BY <1>3, <1>4, <1>5, <1>6, <1>7 DEF Differs

LEMMA KnowsIf ==
  ASSUME NEW s, NEW r, NEW t \in Torrents, FlagsOK(s), Differs(s, r, t, {}), Knows(s),
         t \in r.running \ Watched => t \in r.check \/ (t \in r.done <=> t \in r.whole)
  PROVE  Knows(r)
<1>1. {"running", "check", "done", "whole"} \subseteq Flags BY DEF Flags
<1>2. \A u \in Torrents \ {t} :
        /\ u \in r.running <=> u \in s.running
        /\ u \in r.check <=> u \in s.check
        /\ u \in r.done <=> u \in s.done
        /\ u \in r.whole <=> u \in s.whole
  BY <1>1 DEF Differs
<1>3. r.running \subseteq Torrents BY <1>1 DEF Differs, FlagsOK
<1> QED BY <1>2, <1>3 DEF Knows

LEMMA DiffersTrans ==
  ASSUME NEW s, NEW r, NEW q, NEW t, NEW F, NEW G, Differs(s, r, t, F), Differs(r, q, t, G)
  PROVE  Differs(s, q, t, F \cap G)
BY DEF Differs

LEMMA FlagDiffers ==
  ASSUME NEW s, FlagsOK(s), NEW t \in s.live, NEW f \in Flags \ {"live", "freed"}
  PROVE  /\ Differs(s, Put(s, f, t), t, Flags \ {f}) /\ t \in Put(s, f, t)[f]
         /\ Differs(s, Cut(s, f, t), t, Flags \ {f}) /\ t \notin Cut(s, f, t)[f]
<1>1. {"live", "freed"} \subseteq Flags \ {f} BY DEF Flags
<1>2. /\ Put(s, f, t).live = s.live /\ Put(s, f, t).freed = s.freed
      /\ Cut(s, f, t).live = s.live /\ Cut(s, f, t).freed = s.freed
  BY <1>1, FlagSet
<1>3. ASSUME NEW g \in Flags, NEW u \in Torrents \ {t}
      PROVE  (u \in Put(s, f, t)[g] <=> u \in s[g]) /\ (u \in Cut(s, f, t)[g] <=> u \in s[g])
  <2>1. CASE g = f BY <2>1, FlagSet
  <2>2. CASE g # f BY <2>2, FlagSet
  <2> QED BY <2>1, <2>2
<1> QED BY <1>2, <1>3, FlagSet DEF Differs

LEMMA SetDiffers ==
  ASSUME NEW s, FlagsOK(s), NEW t \in s.live, NEW f \in Flags \ {"live", "freed"}, NEW b
  PROVE  Differs(s, Set(s, f, t, b), t, Flags \ {f})
BY FlagDiffers DEF Set

\* torrentStartImpl() makes the torrent run, as what it is.
LEMMA StartFlags ==
  ASSUME NEW s, FlagsOK(s), NEW t \in s.live
  PROVE  /\ Differs(s, StartImpl(s, t), t, Flags \ {"check", "done", "queued", "running", "error"})
         /\ t \in StartImpl(s, t).done <=> t \in StartImpl(s, t).whole
<1> DEFINE a == Recheck(s, t)
           b == Cut(a, "queued", t)
           c == Put(b, "running", t)
           d == Cut(c, "error", t)
<1>1. Differs(s, a, t, Flags \ {"check", "done"}) BY RecheckFlags
<1>r. t \in a.done <=> t \in s.whole BY RecheckFlags
<1>2. StartImpl(s, t) = d BY DEF StartImpl
<1>f. {"queued", "running", "error"} \subseteq Flags \ {"live", "freed"} BY DEF Flags
<1> HIDE DEF a
<1>3. Differs(a, b, t, Flags \ {"queued"})
  <2>1. FlagsOK(a) /\ t \in a.live BY <1>1 DEF Differs
  <2> QED BY <1>f, <2>1, FlagDiffers
<1> HIDE DEF b
<1>4. Differs(b, c, t, Flags \ {"running"})
  <2>1. FlagsOK(b) /\ t \in b.live BY <1>1, <1>3 DEF Differs
  <2> QED BY <1>f, <2>1, FlagDiffers
<1> HIDE DEF c
<1>5. Differs(c, d, t, Flags \ {"error"})
  <2>1. FlagsOK(c) /\ t \in c.live BY <1>1, <1>3, <1>4 DEF Differs
  <2> QED BY <1>f, <2>1, FlagDiffers
<1> HIDE DEF d
<1>6. Differs(s, b, t, (Flags \ {"check", "done"}) \cap (Flags \ {"queued"}))
  BY <1>1, <1>3, DiffersTrans
<1>7. Differs(s, c, t, ((Flags \ {"check", "done"}) \cap (Flags \ {"queued"})) \cap (Flags \ {"running"}))
  BY <1>4, <1>6, DiffersTrans
<1>8. Differs(s, d, t, (((Flags \ {"check", "done"}) \cap (Flags \ {"queued"})) \cap (Flags \ {"running"}))
                       \cap (Flags \ {"error"}))
  BY <1>5, <1>7, DiffersTrans
<1>9. d.done = a.done BY <1>3, <1>4, <1>5 DEF Differs, Flags
<1>10. d.whole = s.whole BY <1>8 DEF Differs, Flags
<1>11. Differs(s, d, t, Flags \ {"check", "done", "queued", "running", "error"})
  <2>1. ((((Flags \ {"check", "done"}) \cap (Flags \ {"queued"})) \cap (Flags \ {"running"}))
         \cap (Flags \ {"error"})) = Flags \ {"check", "done", "queued", "running", "error"}
    OBVIOUS
  <2> QED BY <1>8, <2>1
<1> QED BY <1>r, <1>2, <1>9, <1>10, <1>11

\* A flag that nothing else depends on is set or reset.
LEMMA QuietFlags ==
  ASSUME NEW s, FlagsOK(s), Knows(s), NEW t \in s.live,
         NEW f \in {"queued", "stable", "stopping", "deleting", "error"},
         NEW r \in {s, Put(s, f, t), Cut(s, f, t)}
  PROVE  FlagsOK(r) /\ Knows(r) /\ r.live = s.live /\ r.freed = s.freed /\ r.running = s.running
<1>1. f \in Flags \ {"live", "freed"} BY DEF Flags
<1>2. Differs(s, r, t, Flags \ {f}) \/ r = s BY <1>1, FlagDiffers
<1>3. /\ r.running = s.running /\ r.check = s.check /\ r.done = s.done /\ r.whole = s.whole
      /\ FlagsOK(r) /\ r.live = s.live /\ r.freed = s.freed
  BY <1>2 DEF Differs, Flags
<1> QED BY <1>3 DEF Knows

\* What torrentStart() may come to, whatever it was told to pass over.
LEMMA OutcomeFlags ==
  ASSUME NEW s, FlagsOK(s), Knows(s), NEW t \in s.live, NEW bypass, NEW known,
         NEW o \in Outcomes(s, t, bypass, known)
  PROVE  /\ FlagsOK(Outcome(s, t, o)) /\ Knows(Outcome(s, t, o)) /\ Outcome(s, t, o).live = s.live
         /\ \A u \in Outcome(s, t, o).running : u \in s.running \/ vstate[u] = "none"
<1> DEFINE r == Outcome(s, t, o)
<1>1. t \in Torrents BY DEF FlagsOK, Flags
<1>2. {"running", "check", "done", "whole"} \subseteq Flags \ {"queued", "error"} BY DEF Flags
<1>3. CASE o = "kept" BY <1>3 DEF Outcome
<1>4. CASE o = "queued" \/ o = "gone"
  <2>1. PICK f \in {"queued", "error"} : r = Put(s, f, t) BY <1>4 DEF Outcome
  <2>2. Differs(s, r, t, Flags \ {f})
    <3>1. f \in Flags \ {"live", "freed"} BY <2>1 DEF Flags
    <3> HIDE DEF r
    <3> QED BY <2>1, <3>1, FlagDiffers
  <2> HIDE DEF r
  <2>3. r.running = s.running /\ r.check = s.check /\ r.done = s.done /\ r.whole = s.whole
    BY <1>2, <2>1, <2>2 DEF Differs
  <2>4. Knows(r) BY <2>3 DEF Knows
  <2> QED BY <2>2, <2>3, <2>4 DEF Differs, r
<1>5. CASE o = "go"
  <2>1. r = StartImpl(s, t) BY <1>5 DEF Outcome
  <2> HIDE DEF r
  <2>2. /\ Differs(s, r, t, Flags \ {"check", "done", "queued", "running", "error"})
        /\ t \in r.done <=> t \in r.whole
    BY <2>1, StartFlags
  <2>3. Differs(s, r, t, {}) BY <2>2 DEF Differs
  <2>4. Knows(r) BY <1>1, <2>2, <2>3, KnowsIf
  <2>5. vstate[t] = "none" BY <1>5 DEF Outcomes, Refused
  <2>6. \A u \in r.running : u \in s.running \/ u = t BY <1>2, <2>3 DEF Differs, FlagsOK
  <2> QED BY <2>3, <2>4, <2>5, <2>6 DEF Differs, r
<1>6. o \in {"kept", "queued", "gone", "go"} BY DEF Outcomes
<1> QED BY <1>3, <1>4, <1>5, <1>6

LEMMA SomeOutcome ==
  ASSUME NEW s, FlagsOK(s), Knows(s), NEW t \in s.live, NEW bypass, NEW known, NEW r,
         \E o \in Outcomes(s, t, bypass, known) : r = Outcome(s, t, o)
  PROVE  /\ FlagsOK(r) /\ Knows(r) /\ r.live = s.live
         /\ \A u \in r.running : u \in s.running \/ vstate[u] = "none"
<1>1. PICK o \in Outcomes(s, t, bypass, known) : r = Outcome(s, t, o) OBVIOUS
<1> QED BY <1>1, OutcomeFlags

-----------------------------------------------------------------------------
\* The invariant.

VTypes ==
  /\ vstate \in [Torrents -> {"none", "wait", "now"}]
  /\ todo \subseteq Torrents /\ current \in Torrents \cup {None}
  /\ pc \in {"off", "top", "picked", "verify", "report"} /\ stop \in BOOLEAN

\* What a torrent's state is set to is right whatever the phase; that of a torrent
\* which is not there is as for one that is made.
VStates ==
  /\ pc = "picked" => vstate[current] = "wait"
  /\ pc = "verify" => vstate[current] = "now"
  /\ \A t \in todo : vstate[t] = "wait"
  /\ \A t \in Torrents \ tor.live : vstate[t] = "none"
  /\ pc = "off" => current = None /\ todo = {}

Verifying == VTypes /\ VStates /\ VerifierHoldsLive /\ VerifyStateConsistent

Types ==
  /\ FlagsOK(tor)
  /\ agenda \in Seq(TaskType) /\ work \in Seq(JobType)
  /\ phase \in {"up", "closing", "crashed"} /\ commands \in 0 .. MaxCommands

\* What is begun comes in order, and what is next may be done.
Planned ==
  /\ Chain(agenda) /\ AddsWell(agenda, tor.running)
  /\ agenda # <<>> => Ready(agenda[1])

\* Once the session is closing the worker has nothing to do, and has gone when the
\* session thread has joined it.
Closing ==
  phase = "closing" =>
    todo = {} /\ ((agenda # <<>> /\ agenda[1].op = "join") \/ pc = "off")

IInv ==
  /\ Types /\ Verifying /\ Planned /\ Closing
  /\ VerifyExcludesRunning /\ Knows(tor)

-----------------------------------------------------------------------------
\* The agenda.

\* The tasks of more may take the place of a task of op about t.
Fits(op, t, more) ==
  /\ more \in Seq(TaskType) /\ Chain(more)
  /\ more # <<>> => \A y \in TaskType : Follows(Task(op, t), y) => Follows(more[Len(more)], y)

LEMMA NothingFits == ASSUME NEW op, NEW t PROVE Fits(op, t, <<>>)
BY DEF Fits, Chain

LEMMA OneFits ==
  ASSUME NEW op, NEW t, NEW x \in TaskType,
         \A y \in TaskType : Follows(Task(op, t), y) => Follows(x, y)
  PROVE  Fits(op, t, <<x>>)
BY DEF Fits, Chain

LEMMA JobsAreTasks == JobType \subseteq TaskType
BY DEF TaskType

\* A step of the agenda: it stays in order, and what is next has come up in order.
LEMMA AgendaGoesOn ==
  ASSUME IInv, NEW op, NEW t, NEW more, Fits(op, t, more), Do(op, t, more), NEW Q,
         \/ op \notin Prelude /\ AddsWell(more, Q)
         \/ /\ \A i \in 1 .. Len(more) : more[i].t = t /\ more[i].op \in Prelude
            /\ t \notin Q \/ (op # "stop" /\ Q = tor.running)
  PROVE  /\ agenda # <<>> /\ agenda[1] = Task(op, t) /\ Task(op, t) \in TaskType
         /\ agenda' \in Seq(TaskType) /\ Chain(agenda') /\ AddsWell(agenda', Q)
         /\ agenda' # <<>> =>
              \/ more # <<>> /\ agenda'[1] = more[1]
              \/ more = <<>> /\ agenda'[1] \in TaskType /\ Follows(Task(op, t), agenda'[1])
<1>1. /\ agenda \in Seq(TaskType) /\ Chain(agenda) /\ AddsWell(agenda, tor.running)
  BY DEF IInv, Types, Planned
<1>2. agenda # <<>> /\ agenda[1] = Task(op, t) /\ agenda' = more \o Tail(agenda) BY DEF Do
<1>3. Task(op, t) \in TaskType /\ more \in Seq(TaskType)
  BY <1>1, <1>2 DEF Fits
<1>4. agenda' \in Seq(TaskType) BY <1>1, <1>2, <1>3
<1>5. Chain(agenda') BY <1>1, <1>2, <1>3, ChainSpliced DEF Fits
<1>6. AddsWell(agenda', Q)
  <2>1. agenda[1].op = op /\ agenda[1].t = t BY <1>2 DEF Task
  <2> QED BY <1>1, <1>2, <1>3, <2>1, AddsSpliced, PreludeSpliced
<1>7. ASSUME agenda' # <<>>
      PROVE  \/ more # <<>> /\ agenda'[1] = more[1]
             \/ more = <<>> /\ agenda'[1] \in TaskType /\ Follows(Task(op, t), agenda'[1])
  <2>1. CASE more # <<>> BY <1>1, <1>2, <1>3, <2>1
  <2>2. CASE more = <<>>
    <3>1. agenda' = Tail(agenda) BY <1>1, <1>2, <2>2
    <3>2. Len(agenda) >= 2 /\ agenda'[1] = agenda[2] BY <1>1, <1>2, <1>7, <3>1
    <3>3. 2 \in 2 .. Len(agenda) BY <1>1, <3>2
    <3>4. Follows(agenda[1], agenda[2]) BY <1>1, <3>3 DEF Chain
    <3> QED BY <1>1, <1>2, <2>2, <3>2, <3>3, <3>4
  <2> QED BY <2>1, <2>2
<1> QED BY <1>2, <1>3, <1>4, <1>5, <1>6, <1>7

\* What comes up behind a task is ready, if the worker has let go of its torrent.
LEMMA NextIsReady ==
  ASSUME NEW op, NEW t, NEW y, Follows(Task(op, t), y), op \notin Prelude \/ Out(t)
  PROVE  Ready(y)
BY DEF Follows, Ready, Task, Prelude

LEMMA VerifyingKept ==
  ASSUME Verifying, UNCHANGED verifier, tor'.live = tor.live, phase' = "up" => phase = "up"
  PROVE  Verifying'
BY DEF Verifying, VTypes, VStates, VerifierHoldsLive, VerifyStateConsistent, verifier

\* Most tasks leave the worker alone.
LEMMA TaskKeeps ==
  ASSUME IInv, NEW op, NEW t, NEW more, Fits(op, t, more), Do(op, t, more), op # "join",
         UNCHANGED <<verifier, work, phase>>,
         FlagsOK(tor'), tor'.live = tor.live, Knows(tor'),
         \A u \in tor'.running : u \in tor.running \/ u \in Watched \/ vstate[u] = "none",
         \/ op \notin Prelude /\ AddsWell(more, tor'.running)
         \/ /\ \A i \in 1 .. Len(more) : more[i].t = t /\ more[i].op \in Prelude
            /\ t \notin tor'.running \/ (op # "stop" /\ tor'.running = tor.running),
         more # <<>> => Ready(more[1]),
         more = <<>> => op \notin Prelude \/ Out(t)
  PROVE  IInv'
<1>1. /\ agenda # <<>> /\ agenda[1] = Task(op, t)
      /\ agenda' \in Seq(TaskType) /\ Chain(agenda') /\ AddsWell(agenda', tor'.running)
      /\ agenda' # <<>> =>
           \/ more # <<>> /\ agenda'[1] = more[1]
           \/ more = <<>> /\ agenda'[1] \in TaskType /\ Follows(Task(op, t), agenda'[1])
  BY AgendaGoesOn
<1>2. agenda' # <<>> => Ready(agenda'[1]) BY <1>1, NextIsReady
<1>3. agenda' # <<>> => Ready(agenda[1])'
  BY <1>2 DEF Ready, Out, verifier
<1>4. Types' BY <1>1 DEF IInv, Types, Do
<1>5. Verifying' BY VerifyingKept DEF IInv
<1>6. Closing'
  <2>1. agenda[1].op # "join" BY <1>1 DEF Task
  <2> QED BY <2>1 DEF IInv, Closing, verifier
<1>7. VerifyExcludesRunning' BY DEF IInv, VerifyExcludesRunning, verifier
<1> QED BY <1>1, <1>3, <1>4, <1>5, <1>6, <1>7 DEF IInv, Planned
-----------------------------------------------------------------------------
\* Tasks that leave the worker alone.

LEMMA TaskTypes ==
  ASSUME NEW t \in Torrents
  PROVE  \A op \in {"verify", "verified", "start", "startNow", "remove", "add", "await",
                    "stop", "stopped", "idle", "moved", "free"} : Task(op, t) \in TaskType
BY DEF TaskType, JobType, Task

LEMMA LiveTask ==
  ASSUME IInv, NEW op, NEW t, NEW more, DoLive(op, t, more)
  PROVE  Do(op, t, more) /\ t \in tor.live /\ t \in Torrents /\ FlagsOK(tor) /\ Knows(tor)
BY DEF DoLive, IInv, Types, FlagsOK, Flags

LEMMA NothingAdds == ASSUME NEW Q PROVE AddsWell(<<>>, Q)
BY DEF AddsWell

LEMMA VerifySound == ASSUME IInv, NEW t \in Torrents, DoVerify(t) PROVE IInv'
<1> DEFINE remove == Task("remove", t)
           halt == Task("stop", t)
           add == Task("add", t)
<1>1. /\ remove \in TaskType /\ halt \in TaskType /\ add \in TaskType
      /\ remove.op = "remove" /\ halt.op = "stop" /\ add.op = "add"
      /\ remove.t = t /\ halt.t = t /\ add.t = t
  BY TaskTypes DEF Task
<1>2. PICK more : /\ DoLive("verify", t, more)
                  /\ \/ more = <<>>
                     \/ more = <<remove, halt, add>>
                     \/ more = <<remove, add>> /\ t \notin tor.running
  BY DEF DoVerify
<1>3. UNCHANGED <<tor, verifier, work, phase>> BY DEF DoVerify
<1>f. \A y \in TaskType : Follows(Task("verify", t), y) =>
                            y.op \notin {"free", "stopped", "moved", "add"}
  BY DEF Follows, Task
<1> HIDE DEF remove, halt, add
<1>4. Fits("verify", t, more)
  <2>1. CASE more = <<>> BY <2>1, NothingFits
  <2>2. CASE more = <<remove, halt, add>>
    <3>1. more \in Seq(TaskType) /\ Len(more) = 3 /\ more[3] = add BY <1>1, <2>2
    <3>2. Chain(more)
      <4>1. Follows(more[1], more[2]) /\ Follows(more[2], more[3]) BY <1>1, <2>2 DEF Follows
      <4>2. \A i \in 2 .. 3 : (i = 2 /\ i - 1 = 1) \/ (i = 3 /\ i - 1 = 2) OBVIOUS
      <4> QED BY <3>1, <4>1, <4>2 DEF Chain
    <3>3. \A y \in TaskType : Follows(Task("verify", t), y) => Follows(add, y)
      BY <1>f DEF Follows
    <3> QED BY <3>1, <3>2, <3>3 DEF Fits
  <2>3. CASE more = <<remove, add>>
    <3>1. more \in Seq(TaskType) /\ Len(more) = 2 /\ more[2] = add BY <1>1, <2>3
    <3>2. Chain(more)
      <4>1. Follows(more[1], more[2]) BY <1>1, <2>3 DEF Follows
      <4>2. \A i \in 2 .. 2 : i = 2 /\ i - 1 = 1 OBVIOUS
      <4> QED BY <3>1, <4>1, <4>2 DEF Chain
    <3>3. \A y \in TaskType : Follows(Task("verify", t), y) => Follows(add, y)
      BY <1>f DEF Follows
    <3> QED BY <3>1, <3>2, <3>3 DEF Fits
  <2> QED BY <1>2, <2>1, <2>2, <2>3
<1>5. AddsWell(more, tor.running)
  <2>1. CASE more = <<>> BY <2>1, NothingAdds
  <2>2. CASE more = <<remove, halt, add>>
    <3>1. Len(more) = 3 /\ more[1] = remove /\ more[2] = halt /\ more[3] = add BY <2>2
    <3>2. ASSUME NEW j \in 1 .. Len(more), more[j].op = "add"
          PROVE  /\ \A i \in 1 .. j - 1 : more[i].t = more[j].t /\ more[i].op \in Prelude
                 /\ \E i \in 1 .. j - 1 : more[i].op = "stop"
      <4>1. j = 3 BY <1>1, <3>1, <3>2
      <4>2. \A i \in 1 .. j - 1 : i = 1 \/ i = 2 BY <4>1
      <4>3. 2 \in 1 .. j - 1 BY <4>1
      <4> QED BY <1>1, <3>1, <4>1, <4>2, <4>3 DEF Prelude
    <3> QED BY <3>2 DEF AddsWell
  <2>3. CASE more = <<remove, add>> /\ t \notin tor.running
    <3>1. Len(more) = 2 /\ more[1] = remove /\ more[2] = add BY <2>3
    <3>2. ASSUME NEW j \in 1 .. Len(more), more[j].op = "add"
          PROVE  /\ \A i \in 1 .. j - 1 : more[i].t = more[j].t /\ more[i].op \in Prelude
                 /\ more[j].t \notin tor.running
      <4>1. j = 2 BY <1>1, <3>1, <3>2
      <4>2. \A i \in 1 .. j - 1 : i = 1 BY <4>1
      <4> QED BY <1>1, <2>3, <3>1, <4>1, <4>2 DEF Prelude
    <3> QED BY <3>2 DEF AddsWell
  <2> QED BY <1>2, <2>1, <2>2, <2>3
<1>6. more # <<>> => Ready(more[1]) BY <1>1, <1>2 DEF Ready
<1>7. "verify" \notin Prelude /\ "verify" # "join" BY DEF Prelude
<1>8. Do("verify", t, more) /\ FlagsOK(tor) /\ Knows(tor) BY <1>2, LiveTask
<1>9. tor' = tor BY <1>3
<1>10. FlagsOK(tor') /\ Knows(tor') /\ AddsWell(more, tor'.running) /\ tor'.live = tor.live
  BY <1>5, <1>8, <1>9
<1>11. \A u \in tor'.running : u \in tor.running BY <1>9
<1> QED BY <1>3, <1>4, <1>6, <1>7, <1>8, <1>10, <1>11, TaskKeeps
LEMMA OneAdds ==
  ASSUME NEW x \in TaskType, x.op # "add", NEW Q
  PROVE  AddsWell(<<x>>, Q)
BY DEF AddsWell

\* tr_verify_worker::add() where the data has disappeared
LEMMA AddErrorSound ==
  ASSUME IInv, NEW t \in Torrents, DoLive("add", t, <<>>), tor' = Put(tor, "error", t),
         UNCHANGED <<verifier, work, phase>>
  PROVE  IInv'
<1>1. Do("add", t, <<>>) /\ FlagsOK(tor) /\ Knows(tor) /\ t \in tor.live BY LiveTask
<1>2. FlagsOK(tor') /\ Knows(tor') /\ tor'.live = tor.live /\ tor'.running = tor.running
  BY <1>1, QuietFlags
<1>3. \A u \in tor'.running : u \in tor.running BY <1>2
<1>4. AddsWell(<<>>, tor'.running) /\ Fits("add", t, <<>>) BY NothingAdds, NothingFits
<1>5. "add" \notin Prelude BY DEF Prelude
<1> QED BY <1>1, <1>2, <1>3, <1>4, <1>5, TaskKeeps

LEMMA HeadReady ==
  ASSUME IInv, NEW op, NEW t, NEW more, Do(op, t, more)
  PROVE  /\ op \in {"free", "stopped", "moved", "add"} => Out(t)
         /\ op = "await" => t \notin todo /\ (current = t => stop)
<1>1. agenda # <<>> /\ agenda[1] = Task(op, t) /\ Ready(agenda[1]) BY DEF IInv, Planned, Do
<1> QED BY <1>1 DEF Ready, Task

LEMMA AwaitSound == ASSUME IInv, NEW t \in Torrents, DoAwait(t) PROVE IInv'
<1>1. Do("await", t, <<>>) /\ ~stop /\ UNCHANGED <<tor, verifier, work, phase>> BY DEF DoAwait
<1>2. Out(t) BY <1>1, HeadReady DEF Out
<1>3. FlagsOK(tor') /\ Knows(tor') /\ tor'.live = tor.live /\ tor'.running = tor.running
  BY <1>1 DEF IInv, Types
<1>4. Fits("await", t, <<>>) BY NothingFits
<1>5. \A u \in tor'.running : u \in tor.running BY <1>3
<1> QED BY <1>1, <1>2, <1>3, <1>4, <1>5, TaskKeeps

LEMMA StoppedSound == ASSUME IInv, NEW t \in Torrents, DoStopped(t) PROVE IInv'
<1>1. /\ DoLive("stopped", t, <<>>) /\ UNCHANGED <<verifier, work, phase>>
      /\ tor' = Cut(tor, "queued", t)
  BY DEF DoStopped
<1>2. Do("stopped", t, <<>>) /\ FlagsOK(tor) /\ Knows(tor) /\ t \in tor.live BY <1>1, LiveTask
<1>3. Out(t) BY <1>2, HeadReady
<1>4. FlagsOK(tor') /\ Knows(tor') /\ tor'.live = tor.live /\ tor'.running = tor.running
  BY <1>1, <1>2, QuietFlags
<1>5. \A u \in tor'.running : u \in tor.running BY <1>4
<1>6. Fits("stopped", t, <<>>) BY NothingFits
<1> QED BY <1>1, <1>2, <1>3, <1>4, <1>5, <1>6, TaskKeeps

LEMMA StopSound == ASSUME IInv, NEW t \in Torrents, DoStop(t) PROVE IInv'
<1> DEFINE remove == Task("remove", t)
           stopped == Task("stopped", t)
           more == <<remove, stopped>>
           half == Cut(tor, "running", t)
<1>1. /\ DoLive("stop", t, more) /\ UNCHANGED <<verifier, work, phase>>
      /\ tor' = Cut(half, "stopping", t)
  BY DEF DoStop
<1>2. Do("stop", t, more) /\ FlagsOK(tor) /\ Knows(tor) /\ t \in tor.live BY <1>1, LiveTask
<1>3. /\ remove \in TaskType /\ stopped \in TaskType /\ remove.op = "remove" /\ remove.t = t
      /\ stopped.op = "stopped" /\ stopped.t = t
  BY TaskTypes DEF Task
<1>4. Differs(tor, half, t, Flags \ {"running"}) /\ t \notin half.running
  BY <1>2, FlagDiffers DEF Flags
<1> HIDE DEF half, remove, stopped
<1>5. Differs(half, tor', t, Flags \ {"stopping"})
  <2>1. FlagsOK(half) /\ t \in half.live BY <1>2, <1>4 DEF Differs
  <2> QED BY <1>1, <2>1, FlagDiffers DEF Flags
<1>6. Differs(tor, tor', t, {}) BY <1>4, <1>5 DEF Differs
<1>7. t \notin tor'.running BY <1>4, <1>5 DEF Differs, Flags
<1>8. Knows(tor') BY <1>2, <1>6, <1>7, KnowsIf
<1>9. Fits("stop", t, more)
  <2>1. more \in Seq(TaskType) /\ Len(more) = 2 /\ more[2] = stopped /\ more[1] = remove BY <1>3
  <2>2. Chain(more)
    <3>1. Follows(more[1], more[2]) BY <1>3, <2>1 DEF Follows
    <3>2. \A i \in 2 .. 2 : i = 2 /\ i - 1 = 1 OBVIOUS
    <3> QED BY <2>1, <3>1, <3>2 DEF Chain
  <2>3. \A y \in TaskType : Follows(Task("stop", t), y) => Follows(stopped, y)
    BY <1>3 DEF Follows, Task
  <2> QED BY <2>1, <2>2, <2>3 DEF Fits
<1>10. \A i \in 1 .. Len(more) : more[i].t = t /\ more[i].op \in Prelude
  BY <1>3 DEF Prelude
<1>11. more # <<>> /\ Ready(more[1]) BY <1>3 DEF Ready
<1>12. FlagsOK(tor') /\ tor'.live = tor.live BY <1>6 DEF Differs
<1>13. \A u \in tor'.running : u \in tor.running
  BY <1>6, <1>7 DEF Differs, FlagsOK, Flags
<1> HIDE DEF more
<1> QED BY <1>1, <1>2, <1>7, <1>8, <1>9, <1>10, <1>11, <1>12, <1>13, TaskKeeps

\* Behind a stop may come what comes behind any task but one that frees.
LEMMA StopFits ==
  ASSUME NEW t \in Torrents, NEW op \in {"idle", "moved"}
  PROVE  Fits(op, t, <<Task("stop", t)>>)
<1>1. Task("stop", t) \in TaskType BY TaskTypes
<1>2. \A y \in TaskType : Follows(Task(op, t), y) => Follows(Task("stop", t), y)
  BY DEF Follows, Task
<1> QED BY <1>1, <1>2, OneFits

LEMMA IdleSound == ASSUME IInv, NEW t \in Torrents, DoIdle(t) PROVE IInv'
<1> DEFINE more == IF t \in tor.stopping THEN <<Task("stop", t)>> ELSE <<>>
           checked == IF t \in tor.check THEN Recheck(tor, t) ELSE tor
           b == t \in tor.stable \ tor.stopping
<1>1. /\ DoLive("idle", t, more) /\ UNCHANGED <<verifier, work, phase>>
      /\ tor' = Set(checked, "stable", t, b)
  BY DEF DoIdle
<1>2. Do("idle", t, more) /\ FlagsOK(tor) /\ Knows(tor) /\ t \in tor.live BY <1>1, LiveTask
<1>3. /\ Fits("idle", t, more) /\ AddsWell(more, tor'.running)
      /\ more # <<>> => Ready(more[1])
  <2>1. CASE t \in tor.stopping
    <3>1. more = <<Task("stop", t)>> /\ Task("stop", t).op = "stop" /\ Task("stop", t) \in TaskType
      BY <2>1, TaskTypes DEF Task
    <3> HIDE DEF more
    <3> QED BY <3>1, StopFits, OneAdds DEF Ready
  <2>2. CASE t \notin tor.stopping
    <3>1. more = <<>> BY <2>2
    <3> HIDE DEF more
    <3> QED BY <3>1, NothingFits, NothingAdds
  <2> QED BY <2>1, <2>2
<1>4. /\ FlagsOK(checked) /\ Knows(checked) /\ checked.live = tor.live
      /\ checked.running = tor.running
  <2>1. CASE t \notin tor.check BY <1>2, <2>1
  <2>2. CASE t \in tor.check
    <3>1. checked = Recheck(tor, t) BY <2>2
    <3> HIDE DEF checked
    <3>2. Differs(tor, checked, t, Flags \ {"check", "done"}) BY <1>2, <3>1, RecheckFlags
    <3>3. t \in checked.done <=> t \in tor.whole BY <1>2, <3>1, RecheckFlags
    <3>4. checked.whole = tor.whole /\ checked.running = tor.running BY <3>2 DEF Differs, Flags
    <3>5. Differs(tor, checked, t, {}) BY <3>2 DEF Differs
    <3>6. t \in checked.done <=> t \in checked.whole BY <3>3, <3>4
    <3>7. Knows(checked) BY <1>2, <3>5, <3>6, KnowsIf
    <3> QED BY <3>4, <3>5, <3>7 DEF Differs
  <2> QED BY <2>1, <2>2
<1> HIDE DEF checked, more, b
<1>5. tor' \in {checked, Put(checked, "stable", t), Cut(checked, "stable", t)} BY <1>1 DEF Set
<1>6. FlagsOK(tor') /\ Knows(tor') /\ tor'.live = tor.live /\ tor'.running = tor.running
  <2>1. t \in checked.live BY <1>2, <1>4
  <2> QED BY <1>4, <1>5, <2>1, QuietFlags
<1>7. \A u \in tor'.running : u \in tor.running BY <1>6
<1>8. "idle" \notin Prelude BY DEF Prelude
<1> QED BY <1>1, <1>2, <1>3, <1>6, <1>7, <1>8, TaskKeeps

LEMMA MovedSound == ASSUME IInv, NEW t \in Torrents, DoMoved(t) PROVE IInv'
<1> DEFINE halt == Task("stop", t)
<1>1. PICK more \in {<<>>, <<halt>>} :
        /\ DoLive("moved", t, more)
        /\ tor' = tor \/ tor' = Cut(Put(tor, "error", t), "stable", t)
  BY DEF DoMoved
<1>2. UNCHANGED <<verifier, work, phase>> BY DEF DoMoved
<1>3. Do("moved", t, more) /\ FlagsOK(tor) /\ Knows(tor) /\ t \in tor.live BY <1>1, LiveTask
<1>4. /\ Fits("moved", t, more) /\ AddsWell(more, tor'.running)
      /\ more # <<>> => Ready(more[1])
  <2>1. halt.op = "stop" /\ halt \in TaskType BY TaskTypes DEF Task
  <2>2. Fits("moved", t, <<halt>>) BY StopFits
  <2> HIDE DEF halt
  <2> QED BY <1>1, <2>1, <2>2, NothingFits, NothingAdds, OneAdds DEF Ready
<1>5. FlagsOK(tor') /\ Knows(tor') /\ tor'.live = tor.live /\ tor'.running = tor.running
  <2> DEFINE s == Put(tor, "error", t)
  <2>1. FlagsOK(s) /\ Knows(s) /\ s.live = tor.live /\ s.running = tor.running
    BY <1>3, QuietFlags
  <2>2. tor' = tor \/ tor' = Cut(s, "stable", t) BY <1>1
  <2> HIDE DEF s
  <2>3. t \in s.live BY <1>3, <2>1
  <2>4. CASE tor' = tor BY <1>3, <2>4
  <2>5. CASE tor' = Cut(s, "stable", t) BY <2>1, <2>3, <2>5, QuietFlags
  <2> QED BY <2>2, <2>4, <2>5
<1>6. \A u \in tor'.running : u \in tor.running BY <1>5
<1>7. "moved" \notin Prelude BY DEF Prelude
<1> QED BY <1>2, <1>3, <1>4, <1>5, <1>6, <1>7, TaskKeeps

\* A start, at once or when what is there has been looked at.
LEMMA OutcomeSound ==
  ASSUME IInv, NEW t \in Torrents, NEW op \in {"start", "startNow", "verified"},
         DoLive(op, t, <<>>), UNCHANGED <<verifier, work, phase>>,
         NEW s, FlagsOK(s), Knows(s), s.live = tor.live, s.running = tor.running,
         NEW bypass, NEW known,
         tor' = s \/ \E o \in Outcomes(s, t, bypass, known) : tor' = Outcome(s, t, o)
  PROVE  IInv'
<1>1. Do(op, t, <<>>) /\ t \in s.live BY LiveTask
<1>2. /\ FlagsOK(tor') /\ Knows(tor') /\ tor'.live = tor.live
      /\ \A u \in tor'.running : u \in tor.running \/ vstate[u] = "none"
  <2>1. CASE tor' = s BY <2>1
  <2>2. CASE \E o \in Outcomes(s, t, bypass, known) : tor' = Outcome(s, t, o)
    BY <1>1, <2>2, SomeOutcome
  <2> QED BY <2>1, <2>2
<1>3. Fits(op, t, <<>>) /\ AddsWell(<<>>, tor'.running) BY NothingFits, NothingAdds
<1>4. op \notin Prelude /\ op # "join" BY DEF Prelude
<1> QED BY <1>1, <1>2, <1>3, <1>4, TaskKeeps

LEMMA StartSound == ASSUME IInv, NEW t \in Torrents, DoStart(t) PROVE IInv'
<1>1. UNCHANGED <<verifier, work, phase>> BY DEF DoStart
<1>2. CASE DoLive("start", t, <<>>) /\ \E o \in Outcomes(tor, t, FALSE, FALSE) : tor' = Outcome(tor, t, o)
  <2>1. FlagsOK(tor) /\ Knows(tor) BY <1>2, LiveTask
  <2> QED BY <1>1, <1>2, <2>1, OutcomeSound
<1>3. CASE /\ DoLive("startNow", t, <<>>)
           /\ \E o \in Outcomes(tor, t, TRUE, FALSE) : tor' = Outcome(Put(tor, "stable", t), t, o)
  <2> DEFINE s == Put(tor, "stable", t)
  <2>1. FlagsOK(tor) /\ Knows(tor) /\ t \in tor.live BY <1>3, LiveTask
  <2>2. FlagsOK(s) /\ Knows(s) /\ s.live = tor.live /\ s.freed = tor.freed /\ s.running = tor.running
    BY <2>1, QuietFlags
  <2>3. \E o \in Outcomes(s, t, TRUE, FALSE) : tor' = Outcome(s, t, o)
    <3>1. \A o : o \in Outcomes(tor, t, TRUE, FALSE) => o \in Outcomes(s, t, TRUE, FALSE)
      <4>1. t \in s.running <=> t \in tor.running BY <2>2
      <4>2. Refused(s, t, TRUE) <=> Refused(tor, t, TRUE) BY <4>1 DEF Refused
      <4> QED BY <4>2 DEF Outcomes
    <3> QED BY <1>3, <3>1
  <2> HIDE DEF s
  <2> QED BY <1>1, <1>3, <2>2, <2>3, OutcomeSound
<1> QED BY <1>2, <1>3 DEF DoStart

LEMMA StartedSound == ASSUME IInv, NEW t \in Torrents, DoStarted(t) PROVE IInv'
<1>1. /\ DoLive("started", t, <<>>) /\ UNCHANGED <<verifier, work, phase>>
      /\ tor' = StartImpl(tor, t)
  BY DEF DoStarted
<1>2. Do("started", t, <<>>) /\ FlagsOK(tor) /\ Knows(tor) /\ t \in tor.live BY <1>1, LiveTask
<1>3. t \in Watched
  <2>1. Task("started", t) \in TaskType BY <1>2 DEF Do, IInv, Types
  <2> QED BY <2>1 DEF TaskType, JobType, Task
<1>4. Differs(tor, tor', t, {})
  <2>1. Differs(tor, tor', t, Flags \ {"check", "done", "queued", "running", "error"})
    BY <1>1, <1>2, StartFlags
  <2> QED BY <2>1 DEF Differs
<1>5. Knows(tor') BY <1>2, <1>3, <1>4, KnowsIf
<1>6. FlagsOK(tor') /\ tor'.live = tor.live BY <1>4 DEF Differs
<1>7. \A u \in tor'.running : u \in tor.running \/ u \in Watched
  BY <1>3, <1>4 DEF Differs, FlagsOK, Flags
<1>8. Fits("started", t, <<>>) /\ AddsWell(<<>>, tor'.running) BY NothingFits, NothingAdds
<1>9. "started" \notin Prelude BY DEF Prelude
<1> QED BY <1>1, <1>2, <1>5, <1>6, <1>7, <1>8, <1>9, TaskKeeps

LEMMA VerifiedSound == ASSUME IInv, NEW t \in Torrents, DoVerified(t) PROVE IInv'
<1> DEFINE s == Recheck(tor, t)
<1>1. /\ DoLive("verified", t, <<>>) /\ UNCHANGED <<verifier, work, phase>>
      /\ \/ tor' = tor
         \/ tor' = s \/ \E o \in Outcomes(s, t, FALSE, TRUE) : tor' = Outcome(s, t, o)
  BY DEF DoVerified
<1>2. FlagsOK(tor) /\ Knows(tor) /\ t \in tor.live BY <1>1, LiveTask
<1>3. CASE tor' = tor BY <1>1, <1>2, <1>3, OutcomeSound
<1>4. CASE tor' = s \/ \E o \in Outcomes(s, t, FALSE, TRUE) : tor' = Outcome(s, t, o)
  <2>1. Differs(tor, s, t, Flags \ {"check", "done"}) BY <1>2, RecheckFlags
  <2>2. t \in s.done <=> t \in tor.whole BY <1>2, RecheckFlags
  <2> HIDE DEF s
  <2>3. s.whole = tor.whole /\ s.running = tor.running BY <2>1 DEF Differs, Flags
  <2>4. Differs(tor, s, t, {}) BY <2>1 DEF Differs
  <2>5. t \in s.done <=> t \in s.whole BY <2>2, <2>3
  <2>6. Knows(s) BY <1>2, <2>4, <2>5, KnowsIf
  <2>7. FlagsOK(s) /\ s.live = tor.live BY <2>4 DEF Differs
  <2> QED BY <1>1, <1>4, <2>3, <2>6, <2>7, OutcomeSound
<1> QED BY <1>1, <1>3, <1>4

\* What may begin at any time.
LEMMA FreeTasks ==
  ASSUME NEW s \in Seq(TaskType), \A i \in 1 .. Len(s) : Free(s[i])
  PROVE  /\ Chain(s) /\ (s # <<>> => Free(s[1]) /\ Ready(s[1]))
         /\ \A Q : AddsWell(s, Q)
<1>1. ASSUME NEW x, NEW y, Free(y) PROVE Follows(x, y) /\ Ready(y) /\ y.op # "add"
  BY <1>1 DEF Free, Follows, Ready
<1>2. Chain(s) BY <1>1 DEF Chain
<1>3. s # <<>> => Free(s[1]) /\ Ready(s[1])
  <2>1. s # <<>> => 1 \in 1 .. Len(s) OBVIOUS
  <2> QED BY <1>1, <2>1
<1>4. \A Q : AddsWell(s, Q) BY <1>1 DEF AddsWell
<1> QED BY <1>2, <1>3, <1>4

\* Behind a job, the queue and the join comes nothing else.
LEMMA FreeFollows ==
  ASSUME NEW op \in {"verify", "verified", "started", "close", "queue", "join"}, NEW t,
         NEW y, Follows(Task(op, t), y)
  PROVE  Free(y)
BY DEF Follows, Task, Free

LEMMA SetAsSequence ==
  ASSUME NEW S, IsFiniteSet(S)
  PROVE  SetToSeq(S) \in Seq(S)
<1>1. Cardinality(S) \in Nat BY FS_CardinalityType
<1>2. \E f \in [1 .. Cardinality(S) -> S] : IsInjective(f)
  <2>1. PICK f : f \in Bijection(1 .. Cardinality(S), S)
    BY FS_CardinalityType DEF ExistsBijection
  <2> QED BY <2>1 DEF Bijection, Injection
<1>3. SetToSeq(S) \in [1 .. Cardinality(S) -> S] BY <1>2 DEF SetToSeq
<1> QED BY <1>1, <1>3

LEMMA QueueSound == ASSUME IInv, DoQueue PROVE IInv'
<1> DEFINE waiting == (tor.live \cap tor.queued) \ tor.done
<1>1. PICK next \in SUBSET waiting :
        Do("queue", None, [i \in DOMAIN SetToSeq(next) |-> Task("startNow", SetToSeq(next)[i])])
  BY DEF DoQueue, kSubset
<1> DEFINE s == SetToSeq(next)
           more == [i \in DOMAIN s |-> Task("startNow", s[i])]
<1>2. UNCHANGED <<tor, verifier, work, phase>> BY DEF DoQueue
<1>3. next \subseteq Torrents /\ FlagsOK(tor) /\ Knows(tor) BY <1>1 DEF IInv, Types, FlagsOK, Flags
<1>4. s \in Seq(next)
  <2>1. IsFiniteSet(next) BY <1>3, LifecycleAssumption, FS_Subset
  <2> QED BY <2>1, SetAsSequence
<1> HIDE DEF s
<1>5. more \in Seq(TaskType) /\ \A i \in 1 .. Len(more) : Free(more[i])
  <2>1. DOMAIN s = 1 .. Len(s) /\ Len(s) \in Nat /\ \A i \in 1 .. Len(s) : s[i] \in Torrents
    BY <1>3, <1>4
  <2>2. \A i \in 1 .. Len(s) : Task("startNow", s[i]) \in TaskType BY <2>1, TaskTypes
  <2>3. more \in Seq(TaskType) /\ Len(more) = Len(s) /\ \A i \in 1 .. Len(s) : more[i] = Task("startNow", s[i])
    BY <2>1, <2>2
  <2>4. \A t : Free(Task("startNow", t)) BY DEF Free, Task
  <2> HIDE DEF more
  <2> QED BY <2>3, <2>4
<1>6. Do("queue", None, more) BY <1>1 DEF s
<1> HIDE DEF more
<1>7. /\ Chain(more) /\ (more # <<>> => Ready(more[1])) /\ AddsWell(more, tor'.running)
  BY <1>5, FreeTasks
<1>8. Fits("queue", None, more)
  <2>1. ASSUME NEW y \in TaskType, Follows(Task("queue", None), y), more # <<>>
        PROVE  Follows(more[Len(more)], y)
    <3>1. Free(y) BY <2>1, FreeFollows
    <3> QED BY <3>1 DEF Free, Follows
  <2> QED BY <1>5, <1>7, <2>1 DEF Fits
<1>9. "queue" \notin Prelude BY DEF Prelude
<1>10. tor' = tor BY <1>2
<1>11. FlagsOK(tor') /\ Knows(tor') /\ tor'.live = tor.live /\ tor'.running = tor.running
  BY <1>3, <1>10
<1>12. \A u \in tor'.running : u \in tor.running BY <1>11
<1> QED BY <1>2, <1>6, <1>7, <1>8, <1>9, <1>11, <1>12, TaskKeeps

-----------------------------------------------------------------------------
\* Tasks that deal with the worker.

\* The torrent is out of the worker's hands and does not run: it joins the list.
LEMMA AddSound == ASSUME IInv, NEW t \in Torrents, DoAdd(t) PROVE IInv'
<1>1. CASE tor' = Put(tor, "error", t) /\ UNCHANGED verifier
  BY <1>1, AddErrorSound DEF DoAdd
<1>2. CASE /\ phase = "up"
           /\ vstate' = [vstate EXCEPT ![t] = "wait"]
           /\ todo' = todo \cup {t}
           /\ pc' = IF pc = "off" THEN "top" ELSE pc
           /\ UNCHANGED <<tor, current, stop>>
  <2>1. DoLive("add", t, <<>>) /\ UNCHANGED <<work, phase>> BY DEF DoAdd
  <2>2. Do("add", t, <<>>) /\ FlagsOK(tor) /\ t \in tor.live BY <2>1, LiveTask
  <2>3. Out(t) BY <2>2, HeadReady
  <2>4. t \notin tor.running
    <3>1. /\ AddsWell(agenda, tor.running) /\ agenda \in Seq(TaskType) /\ agenda # <<>>
          /\ agenda[1] = Task("add", t)
      BY <2>2 DEF IInv, Planned, Types, Do
    <3>2. 1 \in 1 .. Len(agenda) /\ agenda[1].op = "add" /\ agenda[1].t = t BY <3>1 DEF Task
    <3>3. ~ \E i \in 1 .. 1 - 1 : TRUE OBVIOUS
    <3> QED BY <3>1, <3>2, <3>3 DEF AddsWell
  <2>5. /\ agenda # <<>> /\ agenda[1] = Task("add", t)
        /\ agenda' \in Seq(TaskType) /\ Chain(agenda') /\ AddsWell(agenda', tor.running)
        /\ agenda' # <<>> => agenda'[1] \in TaskType /\ Follows(Task("add", t), agenda'[1])
    <3>1. "add" \notin Prelude BY DEF Prelude
    <3> QED BY <2>2, <3>1, NothingFits, NothingAdds, AgendaGoesOn
  <2>6. agenda' # <<>> => Ready(agenda[1])' BY <2>5 DEF Follows, Ready, Task
  <2>7. Types' BY <1>2, <2>1, <2>2, <2>5 DEF IInv, Types, Do
  <2>8. Planned' BY <1>2, <2>5, <2>6 DEF Planned
  <2>9. Closing' BY <1>2, <2>1 DEF Closing
  <2>10. Verifying'
    <3>1. VTypes' BY <1>2 DEF IInv, Verifying, VTypes
    <3>2. VStates' BY <1>2, <2>2, <2>3 DEF IInv, Verifying, VTypes, VStates, Out
    <3>3. VerifierHoldsLive' BY <1>2, <2>2 DEF IInv, Verifying, VerifierHoldsLive
    <3>4. VerifyStateConsistent'
      BY <1>2, <2>1, <2>3 DEF IInv, Verifying, VTypes, VerifyStateConsistent, Out
    <3> QED BY <3>1, <3>2, <3>3, <3>4 DEF Verifying
  <2>11. VerifyExcludesRunning'
    BY <1>2, <2>4 DEF IInv, Types, FlagsOK, Flags, Verifying, VTypes, VerifyExcludesRunning
  <2>12. Knows(tor)' BY <1>2 DEF IInv, Knows
  <2> QED BY <2>7, <2>8, <2>9, <2>10, <2>11, <2>12 DEF IInv
<1> QED BY <1>1, <1>2 DEF DoAdd

\* The torrent leaves the list at once; if the worker has it, the session thread waits.
LEMMA RemoveSound == ASSUME IInv, NEW t \in Torrents, DoRemove(t) PROVE IInv'
<1> DEFINE await == Task("await", t)
           more == IF phase = "up" /\ current = t THEN <<await>> ELSE <<>>
<1>1. DoLive("remove", t, more) /\ UNCHANGED <<tor, work, phase>> BY DEF DoRemove
<1>2. /\ Do("remove", t, more) /\ FlagsOK(tor) /\ t \in tor.live BY <1>1, LiveTask
<1>3. await \in TaskType /\ await.op = "await" /\ await.t = t BY TaskTypes DEF Task
<1> HIDE DEF await
<1>4. Fits("remove", t, more)
  <2>1. \A y \in TaskType : Follows(Task("remove", t), y) => Follows(await, y)
    BY <1>3 DEF Follows, Task
  <2> QED BY <1>3, <2>1, NothingFits, OneFits
<1>5. \A i \in 1 .. Len(more) : more[i].t = t /\ more[i].op \in Prelude
  BY <1>3 DEF Prelude
<1>6. /\ agenda # <<>> /\ agenda[1] = Task("remove", t)
      /\ agenda' \in Seq(TaskType) /\ Chain(agenda') /\ AddsWell(agenda', tor.running)
      /\ agenda' # <<>> =>
           \/ more # <<>> /\ agenda'[1] = more[1]
           \/ more = <<>> /\ agenda'[1] \in TaskType /\ Follows(Task("remove", t), agenda'[1])
  <2> HIDE DEF more
  <2> QED BY <1>2, <1>4, <1>5, AgendaGoesOn
<1>7. agenda[1].op = "remove" BY <1>6 DEF Task
<1>t. Types' BY <1>1, <1>2, <1>6 DEF IInv, Types, Do
<1>8. CASE phase # "up"
  <2>1. UNCHANGED verifier BY <1>8 DEF DoRemove
  <2>2. phase # "crashed" BY <1>2 DEF Do
  <2>3. Out(t)
    <3>1. phase = "closing" BY <1>8, <2>2 DEF IInv, Types
    <3>2. todo = {} /\ current = None BY <1>7, <3>1 DEF IInv, Closing, Verifying, VStates
    <3> QED BY <3>2, LifecycleAssumption DEF Out
  <2>4. more = <<>> BY <1>8
  <2>5. agenda' # <<>> => Ready(agenda'[1]) BY <1>6, <2>3, <2>4, NextIsReady
  <2>6. agenda' # <<>> => Ready(agenda[1])' BY <2>1, <2>5 DEF Ready, Out, verifier
  <2>7. Verifying' BY <1>1, <1>8, <2>1, VerifyingKept DEF IInv
  <2>8. Closing' BY <1>1, <1>7, <2>1 DEF IInv, Closing, verifier
  <2>9. VerifyExcludesRunning' /\ Knows(tor)'
    BY <1>1, <2>1 DEF IInv, VerifyExcludesRunning, Knows, verifier
  <2> QED BY <1>1, <1>6, <1>t, <2>6, <2>7, <2>8, <2>9 DEF IInv, Planned
<1>9. CASE phase = "up" /\ current = t
  <2>1. stop' = TRUE /\ UNCHANGED <<vstate, todo, current, pc>> BY <1>9 DEF DoRemove
  <2>2. agenda'[1] = await
    <3>1. more = <<await>> BY <1>9
    <3> HIDE DEF more
    <3>2. agenda' = more \o Tail(agenda) /\ agenda \in Seq(TaskType) /\ agenda # <<>> /\ agenda' # <<>>
      BY <1>2, <3>1 DEF IInv, Types, Do
    <3> QED BY <1>6, <3>1, <3>2
  <2>3. t \notin todo BY <1>9 DEF IInv, Verifying, VerifyStateConsistent
  <2>4. Ready(agenda[1])' BY <1>3, <2>1, <2>2, <2>3 DEF Ready
  <2>5. Verifying'
    BY <1>1, <2>1 DEF IInv, Verifying, VTypes, VStates, VerifierHoldsLive, VerifyStateConsistent
  <2>6. Closing' BY <1>1, <1>9 DEF Closing
  <2>7. VerifyExcludesRunning' /\ Knows(tor)'
    BY <1>1, <2>1 DEF IInv, VerifyExcludesRunning, Knows
  <2> QED BY <1>1, <1>6, <1>t, <2>4, <2>5, <2>6, <2>7 DEF IInv, Planned
<1>10. CASE phase = "up" /\ current # t
  <2>1. /\ vstate' = [vstate EXCEPT ![t] = "none"] /\ todo' = todo \ {t}
        /\ UNCHANGED <<current, pc, stop>>
    BY <1>10 DEF DoRemove
  <2>2. Out(t)' BY <1>10, <2>1 DEF Out
  <2>3. more = <<>> BY <1>10
  <2>4. agenda' # <<>> => Ready(agenda[1])'
    BY <1>6, <2>2, <2>3 DEF Follows, Ready, Task, Out
  <2>5. Verifying'
    <3>1. VTypes' BY <2>1 DEF IInv, Verifying, VTypes
    <3>2. VStates' BY <1>1, <1>10, <2>1 DEF IInv, Verifying, VTypes, VStates
    <3>3. VerifierHoldsLive' BY <1>1, <2>1 DEF IInv, Verifying, VerifierHoldsLive
    <3>4. VerifyStateConsistent'
      BY <1>1, <1>10, <2>1 DEF IInv, Verifying, VTypes, VerifyStateConsistent
    <3> QED BY <3>1, <3>2, <3>3, <3>4 DEF Verifying
  <2>6. Closing' BY <1>1, <1>10 DEF Closing
  <2>7. VerifyExcludesRunning' /\ Knows(tor)'
    BY <1>1, <2>1 DEF IInv, Verifying, VTypes, Types, FlagsOK, Flags, VerifyExcludesRunning, Knows
  <2> QED BY <1>1, <1>6, <1>t, <2>4, <2>5, <2>6, <2>7 DEF IInv, Planned
<1> QED BY <1>8, <1>9, <1>10

\* freeTorrent() takes the torrent out of every flag: the worker must not have it.
LEMMA FreeSound == ASSUME IInv, NEW t \in Torrents, DoFree(t) PROVE IInv'
<1>1. /\ DoLive("free", t, <<>>) /\ UNCHANGED <<todo, current, pc, stop, work, phase>>
      /\ tor' = [f \in Flags |-> IF f = "freed" THEN tor.freed \cup {t} ELSE tor[f] \ {t}]
      /\ vstate' = [vstate EXCEPT ![t] = "none"]
  BY DEF DoFree
<1>2. Do("free", t, <<>>) /\ FlagsOK(tor) /\ Knows(tor) /\ t \in tor.live BY <1>1, LiveTask
<1>3. Out(t) BY <1>2, HeadReady
<1>4. /\ agenda # <<>> /\ agenda[1] = Task("free", t)
      /\ agenda' \in Seq(TaskType) /\ Chain(agenda') /\ AddsWell(agenda', tor'.running)
      /\ agenda' # <<>> => agenda'[1] \in TaskType /\ Follows(Task("free", t), agenda'[1])
  <2>1. "free" \notin Prelude BY DEF Prelude
  <2> QED BY <1>2, <2>1, NothingFits, NothingAdds, AgendaGoesOn
<1>5. agenda' # <<>> => Ready(agenda[1])' BY <1>4 DEF Follows, Ready, Task
<1>6. {"live", "freed", "running", "check", "done", "whole"} \subseteq Flags BY DEF Flags
<1>7. /\ tor' \in [Flags -> SUBSET Torrents] /\ tor'.freed = tor.freed \cup {t}
      /\ \A f \in Flags \ {"freed"} : tor'[f] = tor[f] \ {t}
  BY <1>1, <1>2, <1>6 DEF FlagsOK
<1>8. /\ tor'.live = tor.live \ {t} /\ tor'.running = tor.running \ {t}
      /\ tor'.check = tor.check \ {t} /\ tor'.done = tor.done \ {t} /\ tor'.whole = tor.whole \ {t}
  BY <1>6, <1>7
<1>9. FlagsOK(tor') BY <1>2, <1>7, <1>8 DEF FlagsOK
<1>10. Knows(tor') BY <1>2, <1>8 DEF Knows
<1>11. Types' BY <1>1, <1>2, <1>4, <1>9 DEF IInv, Types, Do
<1>12. Verifying'
  <2>1. VTypes' BY <1>1 DEF IInv, Verifying, VTypes
  <2>2. VStates' BY <1>1, <1>3, <1>8 DEF IInv, Verifying, VTypes, VStates, Out
  <2>3. VerifierHoldsLive' BY <1>1, <1>3, <1>8 DEF IInv, Verifying, VerifierHoldsLive, Out
  <2>4. VerifyStateConsistent'
    BY <1>1, <1>8, <1>2 DEF IInv, Verifying, VTypes, VerifyStateConsistent, FlagsOK
  <2> QED BY <2>1, <2>2, <2>3, <2>4 DEF Verifying
<1>13. Closing'
  <2>1. agenda[1].op # "join" BY <1>4 DEF Task
  <2> QED BY <1>1, <2>1 DEF IInv, Closing
<1>14. VerifyExcludesRunning'
  BY <1>1, <1>2, <1>6, <1>8 DEF IInv, Verifying, VTypes, VerifyExcludesRunning, FlagsOK
<1> QED BY <1>4, <1>5, <1>10, <1>11, <1>12, <1>13, <1>14 DEF IInv, Planned

LEMMA JoinSound == ASSUME IInv, DoJoin PROVE IInv'
<1>1. Do("join", None, <<>>) /\ pc = "off" /\ UNCHANGED <<tor, verifier, work, phase>>
  BY DEF DoJoin
<1>2. /\ agenda' \in Seq(TaskType) /\ Chain(agenda') /\ AddsWell(agenda', tor.running)
      /\ agenda' # <<>> => agenda'[1] \in TaskType /\ Follows(Task("join", None), agenda'[1])
  <2>1. "join" \notin Prelude BY DEF Prelude
  <2> QED BY <1>1, <2>1, NothingFits, NothingAdds, AgendaGoesOn
<1>3. agenda' # <<>> => Ready(agenda[1])' BY <1>2 DEF Follows, Ready, Task
<1>4. Types' BY <1>1, <1>2 DEF IInv, Types, Do
<1>5. Verifying' BY <1>1, VerifyingKept DEF IInv
<1>6. Closing' BY <1>1 DEF IInv, Closing, Verifying, VStates, verifier
<1>7. VerifyExcludesRunning' /\ Knows(tor)'
  BY <1>1 DEF IInv, VerifyExcludesRunning, Knows, verifier
<1> QED BY <1>1, <1>2, <1>3, <1>4, <1>5, <1>6, <1>7 DEF IInv, Planned

\* Closing: the worker is told to stop, joined, and only then each torrent is stopped
\* and freed.
LEMMA CloseSound == ASSUME IInv, DoClose PROVE IInv'
<1> DEFINE all == SetToSeq(tor.live)
           join == Task("join", None)
           pairs == [i \in 1 .. 2 * Len(all) |->
                       Task(IF i % 2 = 1 THEN "stop" ELSE "free", all[(i + 1) \div 2])]
           more == <<join>> \o pairs
<1>1. /\ Do("close", None, more) /\ phase' = "closing" /\ stop' = TRUE /\ todo' = {}
      /\ UNCHANGED <<tor, vstate, current, pc, work>>
  BY DEF DoClose
<1>2. tor.live \subseteq Torrents BY DEF IInv, Types, FlagsOK, Flags
<1>3. all \in Seq(Torrents)
  <2>1. IsFiniteSet(tor.live) BY <1>2, LifecycleAssumption, FS_Subset
  <2> QED BY <1>2, <2>1, SetAsSequence
<1>4. join \in TaskType /\ join.op = "join" BY DEF TaskType, Task
<1> HIDE DEF all, join
<1>5. Len(all) \in Nat /\ \A k \in 1 .. Len(all) : all[k] \in Torrents BY <1>3
<1>6. ASSUME NEW i \in 1 .. 2 * Len(all)
      PROVE  /\ pairs[i] \in TaskType /\ pairs[i].op \in {"stop", "free"}
             /\ pairs[i].op = "free" => i % 2 = 0 /\ pairs[i].t = all[(i + 1) \div 2]
             /\ i % 2 = 1 => pairs[i].op = "stop" /\ pairs[i].t = all[(i + 1) \div 2]
  <2> DEFINE u == all[(i + 1) \div 2]
  <2>1. (i + 1) \div 2 \in 1 .. Len(all) /\ (i % 2 = 0 \/ i % 2 = 1) BY <1>5
  <2>2. u \in Torrents BY <1>5, <2>1
  <2>3. pairs[i] = Task(IF i % 2 = 1 THEN "stop" ELSE "free", u) OBVIOUS
  <2> HIDE DEF u, pairs
  <2>4. Task("stop", u) \in TaskType /\ Task("free", u) \in TaskType BY <2>2, TaskTypes
  <2>5. /\ Task("stop", u).op = "stop" /\ Task("stop", u).t = u
        /\ Task("free", u).op = "free" /\ Task("free", u).t = u
    BY DEF Task
  <2> QED BY <2>1, <2>3, <2>4, <2>5 DEF u
<1>7. pairs \in Seq(TaskType) /\ Len(pairs) = 2 * Len(all)
  <2>1. pairs \in [1 .. 2 * Len(all) -> TaskType]
    <3>1. \A i \in 1 .. 2 * Len(all) : pairs[i] \in TaskType BY <1>6
    <3>2. pairs = [i \in 1 .. 2 * Len(all) |-> pairs[i]] OBVIOUS
    <3> HIDE DEF pairs
    <3> QED BY <3>1, <3>2
  <2>2. 2 * Len(all) \in Nat BY <1>5
  <2> HIDE DEF pairs
  <2> QED BY <2>1, <2>2
<1> HIDE DEF pairs
<1>8. /\ more \in Seq(TaskType) /\ Len(more) = 1 + 2 * Len(all) /\ more[1] = join
      /\ \A i \in 2 .. Len(more) : more[i] = pairs[i - 1]
  BY <1>4, <1>5, <1>7
<1> HIDE DEF more
<1>9. ASSUME NEW i \in 2 .. Len(more) PROVE Follows(more[i - 1], more[i])
  <2>1. i - 1 \in 1 .. 2 * Len(all) /\ more[i] = pairs[i - 1] BY <1>5, <1>8
  <2>2. CASE pairs[i - 1].op = "stop" BY <2>1, <2>2 DEF Follows
  <2>3. CASE pairs[i - 1].op = "free"
    <3>1. (i - 1) % 2 = 0 /\ pairs[i - 1].t = all[((i - 1) + 1) \div 2] BY <1>6, <2>1, <2>3
    <3>2. /\ i - 2 \in 1 .. 2 * Len(all) /\ (i - 2) % 2 = 1 /\ i - 1 \in 2 .. Len(more)
          /\ ((i - 1) + 1) \div 2 = ((i - 2) + 1) \div 2
      <4>1. i \in Int /\ i >= 2 /\ i <= Len(more) /\ Len(more) \in Int BY <1>5, <1>8
      <4>2. i >= 3 /\ (i - 2) % 2 = 1 BY <3>1, <4>1
      <4>3. ((i - 1) + 1) \div 2 = ((i - 2) + 1) \div 2 BY <3>1, <4>1
      <4> QED BY <1>5, <1>8, <4>1, <4>2, <4>3
    <3>3. pairs[i - 2].op = "stop" /\ pairs[i - 2].t = all[((i - 2) + 1) \div 2] BY <1>6, <3>2
    <3>4. more[i - 1] = pairs[i - 2]
      <4>1. (i - 1) - 1 = i - 2 OBVIOUS
      <4> QED BY <1>8, <3>2, <4>1
    <3>5. more[i - 1].t = more[i].t /\ more[i - 1].op = "stop" BY <2>1, <3>1, <3>2, <3>3, <3>4
    <3> QED BY <2>1, <2>3, <3>5 DEF Follows
  <2> QED BY <1>6, <2>1, <2>2, <2>3
<1>10. Chain(more) BY <1>9 DEF Chain
<1>11. AddsWell(more, tor.running)
  <2>1. ASSUME NEW i \in 1 .. Len(more) PROVE more[i].op # "add"
    <3>1. CASE i = 1 BY <1>4, <1>8, <3>1
    <3>2. CASE i # 1
      <4>1. i \in 2 .. Len(more) /\ i - 1 \in 1 .. 2 * Len(all) BY <1>5, <1>8, <3>2
      <4> QED BY <1>6, <1>8, <4>1
    <3> QED BY <3>1, <3>2
  <2> QED BY <2>1 DEF AddsWell
<1>12. Fits("close", None, more)
  <2>1. ASSUME NEW y \in TaskType, Follows(Task("close", None), y)
        PROVE  Follows(more[Len(more)], y)
    <3>1. Free(y) BY <2>1, FreeFollows
    <3> QED BY <3>1 DEF Free, Follows
  <2> QED BY <1>8, <1>10, <2>1 DEF Fits
<1>13. more # <<>> BY <1>5, <1>8
<1>14. /\ agenda' \in Seq(TaskType) /\ Chain(agenda') /\ AddsWell(agenda', tor.running)
       /\ agenda' # <<>> => agenda'[1] = join
  <2>1. "close" \notin Prelude BY DEF Prelude
  <2>2. agenda' # <<>> =>
           \/ more # <<>> /\ agenda'[1] = more[1]
           \/ more = <<>> /\ agenda'[1] \in TaskType /\ Follows(Task("close", None), agenda'[1])
    BY <1>1, <1>11, <1>12, <2>1, AgendaGoesOn
  <2> QED BY <1>1, <1>8, <1>11, <1>12, <1>13, <2>1, <2>2, AgendaGoesOn
<1>15. agenda' # <<>>
  <2>1. agenda' = more \o Tail(agenda) /\ agenda \in Seq(TaskType) /\ agenda # <<>>
    BY <1>1 DEF Do, IInv, Types
  <2> QED BY <1>8, <1>13, <2>1
<1>16. Ready(agenda[1])' BY <1>4, <1>14, <1>15 DEF Ready
<1>17. Types' BY <1>1, <1>14 DEF IInv, Types, Do
<1>18. Verifying'
  <2>1. VTypes' /\ VStates' BY <1>1 DEF IInv, Verifying, VTypes, VStates
  <2>2. VerifierHoldsLive' /\ VerifyStateConsistent'
    BY <1>1 DEF IInv, Verifying, VerifierHoldsLive, VerifyStateConsistent
  <2> QED BY <2>1, <2>2 DEF Verifying
<1>19. Closing' BY <1>1, <1>4, <1>14, <1>15 DEF Closing
<1>20. VerifyExcludesRunning' /\ Knows(tor)'
  BY <1>1 DEF IInv, VerifyExcludesRunning, Knows
<1> QED BY <1>1, <1>14, <1>16, <1>17, <1>18, <1>19, <1>20 DEF IInv, Planned

LEMMA DanglingSound == ASSUME IInv, NEW t \in Torrents, DoDangling(t) PROVE IInv'
<1>1. /\ agenda # <<>> /\ phase # "crashed" /\ Head(agenda).t = t /\ Head(agenda).op \in Job
      /\ UNCHANGED <<tor, verifier, work, commands>>
      /\ \/ agenda' = Tail(agenda) /\ UNCHANGED phase
         \/ phase' = "crashed" /\ agenda' = <<>>
  BY DEF DoDangling
<1> DEFINE op == Head(agenda).op
<1>2. agenda \in Seq(TaskType) /\ FlagsOK(tor) /\ Knows(tor) BY DEF IInv, Types
<1>3. Head(agenda) \in TaskType BY <1>1, <1>2
<1>4. Head(agenda) = Task(op, t) BY <1>1, <1>3, TaskIsTask
<1>5. op \in {"verify", "verified", "started", "close"} BY <1>1 DEF Job
<1>6. CASE agenda' = Tail(agenda) /\ UNCHANGED phase
  <2>1. Do(op, t, <<>>)
    <3>1. agenda' = <<>> \o Tail(agenda) BY <1>1, <1>2, <1>6
    <3> HIDE DEF op
    <3> QED BY <1>1, <1>4, <1>6, <3>1 DEF Do
  <2> HIDE DEF op
  <2>2. Fits(op, t, <<>>) /\ AddsWell(<<>>, tor'.running) BY NothingFits, NothingAdds
  <2>3. op \notin Prelude /\ op # "join" BY <1>5 DEF Prelude
  <2>4. FlagsOK(tor') /\ Knows(tor') /\ tor'.live = tor.live /\ tor'.running = tor.running
    BY <1>1, <1>2
  <2>5. \A u \in tor'.running : u \in tor.running BY <2>4
  <2> QED BY <1>1, <1>6, <2>1, <2>2, <2>3, <2>4, <2>5, TaskKeeps
<1>7. CASE phase' = "crashed" /\ agenda' = <<>>
  <2>1. Types' BY <1>1, <1>7 DEF IInv, Types
  <2>2. Verifying' BY <1>1, <1>7, VerifyingKept DEF IInv
  <2>3. Closing' BY <1>7 DEF Closing
  <2>4. Planned' BY <1>7 DEF Planned, Chain, AddsWell
  <2>5. VerifyExcludesRunning' /\ Knows(tor)'
    BY <1>1 DEF IInv, VerifyExcludesRunning, Knows, verifier
  <2> QED BY <2>1, <2>2, <2>3, <2>4, <2>5 DEF IInv
<1> QED BY <1>1, <1>6, <1>7

-----------------------------------------------------------------------------
\* What the session thread begins, and what others do meanwhile.

\* A torrent that is made is as nobody knows it yet.
LEMMA MadeFlags ==
  ASSUME FlagsOK(tor), Knows(tor), NEW t \in Torrents, t \notin tor.live \cup tor.freed,
         NEW wanted, NEW whole
  PROVE  /\ FlagsOK(Made(t, wanted, whole)) /\ Knows(Made(t, wanted, whole))
         /\ Made(t, wanted, whole).live = tor.live \cup {t}
         /\ Made(t, wanted, whole).running = tor.running /\ t \notin tor.running
<1> DEFINE p == Put(tor, "live", t)
           q == Set(p, "stable", t, wanted)
           r == Set(q, "whole", t, whole)
           m == Set(r, "done", t, whole)
<1>1. Made(t, wanted, whole) = m BY DEF Made
<1>2. {"live", "freed", "running", "check", "done", "whole", "stable"} \subseteq Flags BY DEF Flags
<1>3. /\ p \in [Flags -> SUBSET Torrents] /\ p.live = tor.live \cup {t} /\ p.freed = tor.freed
      /\ \A f \in Flags \ {"live"} : p[f] = tor[f]
  BY <1>2 DEF Put, FlagsOK
<1>4. FlagsOK(p)
  <2>1. \A f \in Flags \ {"freed"} : p[f] \subseteq p.live BY <1>2, <1>3 DEF FlagsOK
  <2> QED BY <1>3, <2>1 DEF FlagsOK
<1>5. /\ p.running = tor.running /\ p.check = tor.check /\ p.done = tor.done /\ p.whole = tor.whole
      /\ t \notin p.running
  BY <1>2, <1>3 DEF FlagsOK
<1>6. Knows(p) BY <1>5 DEF Knows
<1> HIDE DEF p
<1>7. Differs(p, q, t, Flags \ {"stable"}) BY <1>2, <1>3, <1>4, SetDiffers DEF Flags
<1> HIDE DEF q
<1>8. Differs(q, r, t, Flags \ {"whole"})
  <2>1. FlagsOK(q) /\ t \in q.live BY <1>3, <1>7 DEF Differs
  <2> QED BY <2>1, SetDiffers DEF Flags
<1> HIDE DEF r
<1>9. Differs(r, m, t, Flags \ {"done"})
  <2>1. FlagsOK(r) /\ t \in r.live BY <1>3, <1>7, <1>8 DEF Differs
  <2> QED BY <2>1, SetDiffers DEF Flags
<1> HIDE DEF m
<1>10. Differs(p, m, t, {}) BY <1>7, <1>8, <1>9 DEF Differs
<1>11. m.running = p.running BY <1>7, <1>8, <1>9 DEF Differs, Flags
<1>12. Knows(m) BY <1>4, <1>5, <1>6, <1>10, <1>11, KnowsIf
<1>13. FlagsOK(m) /\ m.live = tor.live \cup {t} BY <1>3, <1>10 DEF Differs
<1> QED BY <1>1, <1>5, <1>11, <1>12, <1>13

\* Steps that leave the worker alone.
LEMMA OthersKeep ==
  ASSUME IInv, UNCHANGED <<verifier, phase>>, commands' \in 0 .. MaxCommands,
         work' \in Seq(JobType),
         FlagsOK(tor'), Knows(tor'), tor.live \subseteq tor'.live,
         \A u \in tor'.running : u \in tor.running \/ u \in Watched \/ vstate[u] = "none",
         agenda' \in Seq(TaskType), Chain(agenda'), AddsWell(agenda', tor'.running),
         agenda' # <<>> => Ready(agenda'[1]),
         agenda' = agenda \/ agenda = <<>>
  PROVE  IInv'
<1>1. agenda' # <<>> => Ready(agenda[1])' BY DEF Ready, Out, verifier
<1>2. Types' BY DEF IInv, Types
<1>3. Closing' BY DEF IInv, Closing, verifier
<1>4. Verifying'
  <2>1. VTypes' BY DEF IInv, Verifying, VTypes, verifier
  <2>2. VStates' BY DEF IInv, Verifying, VStates, verifier
  <2>3. VerifierHoldsLive' BY DEF IInv, Verifying, VerifierHoldsLive, verifier
  <2>4. VerifyStateConsistent'
    <3>1. tor'.live \subseteq Torrents BY DEF FlagsOK, Flags
    <3>2. \A u \in tor'.live \ tor.live : u \in Torrents \ tor.live BY <3>1
    <3>3. \A u \in tor'.live \ tor.live :
            vstate[u] = "none" /\ u \notin todo /\ (pc \in {"picked", "verify"} => current # u)
      BY <3>2 DEF IInv, Verifying, VStates, VerifierHoldsLive
    <3> QED BY <3>3 DEF IInv, Verifying, VerifyStateConsistent, verifier
  <2> QED BY <2>1, <2>2, <2>3, <2>4 DEF Verifying
<1>5. VerifyExcludesRunning' BY DEF IInv, VerifyExcludesRunning, verifier
<1> QED BY <1>1, <1>2, <1>3, <1>4, <1>5 DEF IInv, Planned

\* The agenda of a step that begins nothing, or something that may begin at any time.
LEMMA AgendaKept ==
  ASSUME IInv, agenda' = agenda, tor'.running \subseteq tor.running
  PROVE  /\ agenda' \in Seq(TaskType) /\ Chain(agenda') /\ AddsWell(agenda', tor'.running)
         /\ agenda' # <<>> => Ready(agenda'[1])
<1>1. /\ agenda \in Seq(TaskType) /\ Chain(agenda) /\ AddsWell(agenda, tor.running)
      /\ agenda # <<>> => Ready(agenda[1])
  BY DEF IInv, Types, Planned
<1>2. AddsWell(agenda, tor'.running) BY <1>1 DEF AddsWell
<1> QED BY <1>1, <1>2

LEMMA OneTask ==
  ASSUME NEW t \in Torrents, NEW op \in {"verify", "start", "startNow"}
  PROVE  /\ <<Task(op, t)>> \in Seq(TaskType) /\ Chain(<<Task(op, t)>>)
         /\ \A Q : AddsWell(<<Task(op, t)>>, Q)
         /\ Ready(<<Task(op, t)>>[1])
<1> DEFINE x == Task(op, t)
<1>1. x \in TaskType /\ x.op = op BY TaskTypes DEF Task
<1>2. Free(x) BY <1>1 DEF Free
<1> HIDE DEF x
<1>3. <<x>> \in Seq(TaskType) /\ <<x>> # <<>> /\ \A i \in 1 .. Len(<<x>>) : Free(<<x>>[i]) BY <1>1, <1>2
<1>4. Chain(<<x>>) /\ Ready(<<x>>[1]) /\ \A Q : AddsWell(<<x>>, Q) BY <1>3, FreeTasks
<1> QED BY <1>3, <1>4 DEF x

LEMMA AddTorrentSound == ASSUME IInv, NEW t \in Torrents, AddTorrent(t) PROVE IInv'
<1>1. /\ agenda = <<>> /\ t \notin tor.live \cup tor.freed
      /\ UNCHANGED <<verifier, work, phase, commands>>
  BY DEF AddTorrent, Idle, New
<1>2. PICK wanted \in BOOLEAN, whole \in BOOLEAN :
        /\ tor' = Made(t, wanted, whole)
        /\ agenda' \in {<<>>, <<Task("verify", t)>>, <<Task("start", t)>>}
  BY DEF AddTorrent
<1>3. FlagsOK(tor) /\ Knows(tor) BY DEF IInv, Types
<1>4. /\ FlagsOK(tor') /\ Knows(tor') /\ tor'.live = tor.live \cup {t} /\ tor'.running = tor.running
  BY <1>1, <1>2, <1>3, MadeFlags
<1>5. /\ agenda' \in Seq(TaskType) /\ Chain(agenda') /\ AddsWell(agenda', tor'.running)
      /\ agenda' # <<>> => Ready(agenda'[1])
  <2>1. CASE agenda' = <<>> BY <2>1, NothingAdds DEF Chain
  <2>2. CASE agenda' = <<Task("verify", t)>> BY <2>2, OneTask
  <2>3. CASE agenda' = <<Task("start", t)>> BY <2>3, OneTask
  <2> QED BY <1>2, <2>1, <2>2, <2>3
<1>6. commands' \in 0 .. MaxCommands /\ work' \in Seq(JobType) BY <1>1 DEF IInv, Types
<1>7. tor.live \subseteq tor'.live /\ \A u \in tor'.running : u \in tor.running BY <1>4
<1> QED BY <1>1, <1>4, <1>5, <1>6, <1>7, OthersKeep

LEMMA JobAdds ==
  ASSUME IInv, agenda # <<>> => Head(agenda).op \in Job, NEW Q
  PROVE  AddsWell(agenda, Q)
<1>1. agenda \in Seq(TaskType) /\ AddsWell(agenda, tor.running) BY DEF IInv, Types, Planned
<1>2. ASSUME NEW j \in 1 .. Len(agenda), agenda[j].op = "add" PROVE FALSE
  <2>1. agenda # <<>> /\ agenda[1] = Head(agenda) BY <1>1
  <2>2. agenda[1].op \notin Prelude /\ agenda[1].op # "add" BY <2>1 DEF Job, Prelude
  <2>3. j # 1 /\ 1 \in 1 .. j - 1 BY <1>1, <1>2, <2>2
  <2> QED BY <1>1, <1>2, <2>2, <2>3 DEF AddsWell
<1> QED BY <1>2 DEF AddsWell

LEMMA WatchedFlags ==
  ASSUME NEW m, FlagsOK(m), Knows(m), NEW t \in m.live, t \in Watched, NEW r,
         \/ r = m
         \/ r = Put(m, "running", t)
         \/ \E o \in Outcomes(m, t, FALSE, FALSE) : r = Outcome(m, t, o)
  PROVE  /\ FlagsOK(r) /\ Knows(r) /\ r.live = m.live
         /\ \A u \in r.running : u \in m.running \/ u \in Watched \/ vstate[u] = "none"
<1>1. CASE r = m BY <1>1
<1>2. CASE r = Put(m, "running", t)
  <2>1. Differs(m, r, t, Flags \ {"running"}) BY <1>2, FlagDiffers DEF Flags
  <2>2. Differs(m, r, t, {}) BY <2>1 DEF Differs
  <2>3. t \in Torrents BY DEF FlagsOK, Flags
  <2>4. Knows(r) BY <2>2, <2>3, KnowsIf
  <2> QED BY <2>2, <2>4 DEF Differs, FlagsOK, Flags
<1>3. CASE \E o \in Outcomes(m, t, FALSE, FALSE) : r = Outcome(m, t, o)
  <2> DEFINE no == FALSE
  <2>1. \E o \in Outcomes(m, t, no, no) : r = Outcome(m, t, o) BY <1>3
  <2> HIDE DEF no
  <2>2. /\ FlagsOK(r) /\ Knows(r) /\ r.live = m.live
        /\ \A u \in r.running : u \in m.running \/ vstate[u] = "none"
    BY <2>1, SomeOutcome
  <2> QED BY <2>2
<1> QED BY <1>1, <1>2, <1>3

LEMMA AddWatchedSound == ASSUME IInv, NEW t \in Torrents, AddWatched(t) PROVE IInv'
<1>1. /\ t \notin tor.live \cup tor.freed /\ t \in Watched
      /\ agenda # <<>> => Head(agenda).op \in Job
      /\ UNCHANGED <<verifier, agenda, phase, commands>>
  BY DEF AddWatched, New
<1>2. FlagsOK(tor) /\ Knows(tor) BY DEF IInv, Types
<1>3. PICK wanted \in BOOLEAN, whole \in BOOLEAN :
        LET m == Made(t, wanted, whole)
        IN /\ \/ tor' = m
              \/ tor' = Put(m, "running", t)
              \/ \E o \in Outcomes(m, t, FALSE, FALSE) : tor' = Outcome(m, t, o)
           /\ work' \in {work, Append(work, Task("verify", t)), Append(work, Task("started", t))}
  <2>1. PICK wanted \in BOOLEAN :
          \/ tor' = Made(t, wanted, FALSE) /\ work' = Append(work, Task("verify", t))
          \/ \E whole \in BOOLEAN :
               LET made == Made(t, wanted, whole)
               IN \E o \in IF wanted THEN Outcomes(made, t, FALSE, FALSE) ELSE {"kept"} :
                    IF o = "go"
                    THEN tor' = Put(made, "running", t) /\ work' = Append(work, Task("started", t))
                    ELSE tor' = Outcome(made, t, o) /\ UNCHANGED work
    BY DEF AddWatched
  <2>2. CASE tor' = Made(t, wanted, FALSE) /\ work' = Append(work, Task("verify", t)) BY <2>2
  <2>3. CASE \E whole \in BOOLEAN :
               LET made == Made(t, wanted, whole)
               IN \E o \in IF wanted THEN Outcomes(made, t, FALSE, FALSE) ELSE {"kept"} :
                    IF o = "go"
                    THEN tor' = Put(made, "running", t) /\ work' = Append(work, Task("started", t))
                    ELSE tor' = Outcome(made, t, o) /\ UNCHANGED work
    <3>1. PICK whole \in BOOLEAN :
            \E o \in IF wanted THEN Outcomes(Made(t, wanted, whole), t, FALSE, FALSE) ELSE {"kept"} :
              IF o = "go"
              THEN /\ tor' = Put(Made(t, wanted, whole), "running", t)
                   /\ work' = Append(work, Task("started", t))
              ELSE tor' = Outcome(Made(t, wanted, whole), t, o) /\ UNCHANGED work
      BY <2>3
    <3> DEFINE m == Made(t, wanted, whole)
    <3>2. PICK o \in IF wanted THEN Outcomes(m, t, FALSE, FALSE) ELSE {"kept"} :
            IF o = "go" THEN tor' = Put(m, "running", t) /\ work' = Append(work, Task("started", t))
            ELSE tor' = Outcome(m, t, o) /\ UNCHANGED work
      BY <3>1
    <3>3. Outcome(m, t, "kept") = m BY DEF Outcome
    <3> HIDE DEF m
    <3>4. \/ tor' = m
          \/ tor' = Put(m, "running", t)
          \/ \E o1 \in Outcomes(m, t, FALSE, FALSE) : tor' = Outcome(m, t, o1)
      BY <3>2, <3>3
    <3>5. work' \in {work, Append(work, Task("verify", t)), Append(work, Task("started", t))}
      BY <3>2
    <3> QED BY <3>4, <3>5 DEF m
  <2> QED BY <2>1, <2>2, <2>3
<1> DEFINE m == Made(t, wanted, whole)
<1>4. FlagsOK(m) /\ Knows(m) /\ m.live = tor.live \cup {t} /\ m.running = tor.running
  BY <1>1, <1>2, MadeFlags
<1>5. /\ \/ tor' = m
         \/ tor' = Put(m, "running", t)
         \/ \E o \in Outcomes(m, t, FALSE, FALSE) : tor' = Outcome(m, t, o)
      /\ work' \in {work, Append(work, Task("verify", t)), Append(work, Task("started", t))}
  BY <1>3
<1> HIDE DEF m
<1>6. /\ FlagsOK(tor') /\ Knows(tor') /\ tor'.live = m.live
      /\ \A u \in tor'.running : u \in m.running \/ u \in Watched \/ vstate[u] = "none"
  <2>1. t \in m.live BY <1>4
  <2> QED BY <1>1, <1>4, <1>5, <2>1, WatchedFlags
<1>7. /\ agenda' \in Seq(TaskType) /\ Chain(agenda') /\ AddsWell(agenda', tor'.running)
      /\ agenda' # <<>> => Ready(agenda'[1])
  BY <1>1, JobAdds DEF IInv, Types, Planned
<1>8. work' \in Seq(JobType)
  <2>1. Task("verify", t) \in JobType /\ Task("started", t) \in JobType
    BY <1>1 DEF Task, JobType
  <2>2. work \in Seq(JobType) BY DEF IInv, Types
  <2>3. \A x \in JobType : Append(work, x) \in Seq(JobType) BY <2>2
  <2>4. work' = work \/ work' = Append(work, Task("verify", t)) \/ work' = Append(work, Task("started", t))
    BY <1>5
  <2> QED BY <2>1, <2>2, <2>3, <2>4
<1>9. commands' \in 0 .. MaxCommands BY <1>1 DEF IInv, Types
<1>10. tor.live \subseteq tor'.live BY <1>4, <1>6
<1>11. \A u \in tor'.running : u \in tor.running \/ u \in Watched \/ vstate[u] = "none"
  BY <1>4, <1>6
<1> QED BY <1>1, <1>6, <1>7, <1>8, <1>9, <1>10, <1>11, OthersKeep

LEMMA CompleteSound == ASSUME IInv, NEW t \in Torrents, Complete(t) PROVE IInv'
<1> DEFINE s == Put(tor, "whole", t)
<1>1. /\ t \in tor.running /\ tor' = Put(s, "check", t)
      /\ UNCHANGED <<verifier, agenda, work, phase, commands>>
  BY DEF Complete
<1>2. FlagsOK(tor) /\ Knows(tor) /\ t \in tor.live
  BY <1>1 DEF IInv, Types, FlagsOK, Flags
<1>3. Differs(tor, s, t, Flags \ {"whole"}) BY <1>2, FlagDiffers DEF Flags
<1> HIDE DEF s
<1>4. Differs(s, tor', t, Flags \ {"check"}) /\ t \in tor'.check
  <2>1. FlagsOK(s) /\ t \in s.live BY <1>2, <1>3 DEF Differs
  <2> QED BY <1>1, <2>1, FlagDiffers DEF Flags
<1>5. Differs(tor, tor', t, {}) BY <1>3, <1>4 DEF Differs
<1>6. FlagsOK(tor') /\ tor'.live = tor.live /\ tor'.running = tor.running
  BY <1>3, <1>4 DEF Differs, Flags
<1>7. Knows(tor') BY <1>2, <1>4, <1>5, KnowsIf
<1>8. /\ agenda' \in Seq(TaskType) /\ Chain(agenda') /\ AddsWell(agenda', tor'.running)
      /\ agenda' # <<>> => Ready(agenda'[1])
  BY <1>1, <1>6, AgendaKept
<1>9. commands' \in 0 .. MaxCommands /\ work' \in Seq(JobType) BY <1>1 DEF IInv, Types
<1>10. \A u \in tor'.running : u \in tor.running BY <1>6
<1> QED BY <1>1, <1>6, <1>7, <1>8, <1>9, <1>10, OthersKeep

\* Steps of the session thread that set a flag nothing else depends on, or none.
LEMMA QuietBegins ==
  ASSUME IInv, NEW t \in tor.live,
         NEW f \in {"queued", "stable", "stopping", "deleting", "error"},
         tor' \in {tor, Put(tor, f, t)},
         UNCHANGED <<verifier, work, phase>>, commands' \in 0 .. MaxCommands, agenda = <<>>,
         agenda' \in Seq(TaskType), Chain(agenda'), AddsWell(agenda', tor.running),
         agenda' # <<>> => Ready(agenda'[1])
  PROVE  IInv'
<1>1. FlagsOK(tor) /\ Knows(tor) BY DEF IInv, Types
<1>2. FlagsOK(tor') /\ Knows(tor') /\ tor'.live = tor.live /\ tor'.running = tor.running
  BY <1>1, QuietFlags
<1>3. work' \in Seq(JobType) BY DEF IInv, Types
<1>4. \A u \in tor'.running : u \in tor.running BY <1>2
<1>5. AddsWell(agenda', tor'.running) /\ tor.live \subseteq tor'.live BY <1>2
<1> QED BY <1>2, <1>3, <1>4, <1>5, OthersKeep

LEMMA RequestFacts ==
  ASSUME IInv, NEW t \in Torrents, Request(t)
  PROVE  /\ agenda = <<>> /\ t \in tor.live /\ commands' \in 0 .. MaxCommands
         /\ UNCHANGED <<verifier, work, phase>>
BY LifecycleAssumption DEF Request, Idle, IInv, Types

LEMMA RequestSound ==
  ASSUME IInv, NEW t \in Torrents,
         RpcStart(t) \/ RpcStop(t) \/ RpcVerify(t) \/ RpcRemove(t) \/ RpcMove(t)
  PROVE  IInv'
<1>1. Request(t) BY DEF RpcStart, RpcStop, RpcVerify, RpcRemove, RpcMove
<1>2. /\ agenda = <<>> /\ t \in tor.live /\ commands' \in 0 .. MaxCommands
      /\ UNCHANGED <<verifier, work, phase>>
  BY <1>1, RequestFacts
<1>3. PICK f \in {"stable", "stopping", "deleting"} : tor' \in {tor, Put(tor, f, t)}
  BY DEF RpcStart, RpcStop, RpcVerify, RpcRemove, RpcMove
<1>4. /\ agenda' \in Seq(TaskType) /\ Chain(agenda') /\ AddsWell(agenda', tor.running)
      /\ agenda' # <<>> => Ready(agenda'[1])
  <2>1. CASE RpcStart(t) BY <2>1, OneTask DEF RpcStart
  <2>2. CASE RpcStop(t) BY <1>2, <2>2, NothingAdds DEF RpcStop, Chain
  <2>3. CASE RpcVerify(t) BY <2>3, OneTask DEF RpcVerify
  <2>4. CASE RpcRemove(t) \/ RpcMove(t)
    <3>1. \E x, y : /\ agenda' = <<x, y>> /\ x \in TaskType /\ y \in TaskType
                    /\ x.op \in {"stop", "remove"} /\ y.op \in {"free", "moved"}
                    /\ Follows(x, y)
      <4>1. CASE RpcRemove(t)
        <5>1. agenda' = <<Task("stop", t), Task("free", t)>> BY <4>1 DEF RpcRemove
        <5>2. Task("stop", t) \in TaskType /\ Task("free", t) \in TaskType BY TaskTypes
        <5>3. Follows(Task("stop", t), Task("free", t)) BY DEF Follows, Task
        <5>4. Task("stop", t).op = "stop" /\ Task("free", t).op = "free" BY DEF Task
        <5> QED BY <5>1, <5>2, <5>3, <5>4
      <4>2. CASE RpcMove(t)
        <5>1. agenda' = <<Task("remove", t), Task("moved", t)>> BY <4>2 DEF RpcMove
        <5>2. Task("remove", t) \in TaskType /\ Task("moved", t) \in TaskType BY TaskTypes
        <5>3. Follows(Task("remove", t), Task("moved", t)) BY DEF Follows, Task
        <5>4. Task("remove", t).op = "remove" /\ Task("moved", t).op = "moved" BY DEF Task
        <5> QED BY <5>1, <5>2, <5>3, <5>4
      <4> QED BY <2>4, <4>1, <4>2
    <3>p. PICK x, y : /\ agenda' = <<x, y>> /\ x \in TaskType /\ y \in TaskType
                      /\ x.op \in {"stop", "remove"} /\ y.op \in {"free", "moved"}
                      /\ Follows(x, y)
      BY <3>1
    <3>2. agenda' \in Seq(TaskType) /\ Len(agenda') = 2 /\ agenda'[1] = x /\ agenda'[2] = y
      BY <3>p
    <3>3. Chain(agenda')
      <4>1. \A i \in 2 .. 2 : i = 2 /\ i - 1 = 1 OBVIOUS
      <4> QED BY <3>p, <3>2, <4>1 DEF Chain
    <3>4. \A i \in 1 .. 2 : agenda'[i].op # "add" BY <3>p, <3>2
    <3>5. AddsWell(agenda', tor.running) BY <3>2, <3>4 DEF AddsWell
    <3>6. Ready(agenda'[1]) BY <3>p, <3>2 DEF Ready
    <3> QED BY <3>2, <3>3, <3>5, <3>6
  <2> QED BY <2>1, <2>2, <2>3, <2>4
<1> QED BY <1>2, <1>3, <1>4, QuietBegins

LEMMA ReachSeedLimitSound == ASSUME IInv, NEW t \in Torrents, ReachSeedLimit(t) PROVE IInv'
<1>1. /\ agenda = <<>> /\ t \in tor.running /\ tor' = Put(tor, "stopping", t)
      /\ UNCHANGED <<verifier, agenda, work, phase, commands>>
  BY DEF ReachSeedLimit, Idle
<1>2. t \in tor.live /\ commands' \in 0 .. MaxCommands
  BY <1>1 DEF IInv, Types, FlagsOK, Flags
<1>3. /\ agenda' \in Seq(TaskType) /\ Chain(agenda') /\ AddsWell(agenda', tor.running)
      /\ agenda' # <<>> => Ready(agenda'[1])
  BY <1>1, NothingAdds DEF Chain
<1> QED BY <1>1, <1>2, <1>3, QuietBegins

\* Tasks that may begin at any time do so, or a job is posted.
LEMMA FreeBegins ==
  ASSUME IInv, UNCHANGED <<tor, verifier, phase, commands>>, work' \in Seq(JobType),
         \/ agenda' = agenda
         \/ /\ agenda = <<>> /\ agenda' \in Seq(TaskType)
            /\ \A i \in 1 .. Len(agenda') : Free(agenda'[i])
  PROVE  IInv'
<1>1. FlagsOK(tor) /\ Knows(tor) BY DEF IInv, Types
<1>2. tor' = tor OBVIOUS
<1>3. FlagsOK(tor') /\ Knows(tor') /\ tor'.live = tor.live /\ tor'.running = tor.running BY <1>1, <1>2
<1>4. /\ agenda' \in Seq(TaskType) /\ Chain(agenda') /\ AddsWell(agenda', tor'.running)
      /\ agenda' # <<>> => Ready(agenda'[1])
  BY <1>3, AgendaKept, FreeTasks
<1>5. commands' \in 0 .. MaxCommands BY DEF IInv, Types
<1>6. tor.live \subseteq tor'.live /\ \A u \in tor'.running : u \in tor.running BY <1>3
<1> QED BY <1>3, <1>4, <1>5, <1>6, OthersKeep

LEMMA PulseSound == ASSUME IInv, Pulse PROVE IInv'
<1> DEFINE S == tor.live \cap (tor.check \cup tor.stopping)
           some == SetToSeq(S)
           idle == [i \in DOMAIN some |-> Task("idle", some[i])]
           queue == Task("queue", None)
<1>1. /\ agenda = <<>> /\ agenda' = idle \o <<queue>>
      /\ UNCHANGED <<tor, verifier, work, phase, commands>>
  BY DEF Pulse, Idle
<1>2. some \in Seq(Torrents)
  <2>1. S \subseteq Torrents BY DEF IInv, Types, FlagsOK, Flags
  <2> HIDE DEF S
  <2>2. IsFiniteSet(S) BY <2>1, LifecycleAssumption, FS_Subset
  <2> QED BY <2>1, <2>2, SetAsSequence
<1> HIDE DEF some
<1>3. idle \in Seq(TaskType) /\ \A i \in 1 .. Len(idle) : Free(idle[i])
  <2>1. DOMAIN some = 1 .. Len(some) /\ Len(some) \in Nat /\ \A i \in 1 .. Len(some) : some[i] \in Torrents
    BY <1>2
  <2>2. \A i \in 1 .. Len(some) : Task("idle", some[i]) \in TaskType BY <2>1, TaskTypes
  <2>3. /\ idle \in Seq(TaskType) /\ Len(idle) = Len(some)
        /\ \A i \in 1 .. Len(some) : idle[i] = Task("idle", some[i])
    BY <2>1, <2>2
  <2>4. \A t : Free(Task("idle", t)) BY DEF Free, Task
  <2> HIDE DEF idle
  <2> QED BY <2>3, <2>4
<1>4. queue \in TaskType /\ Free(queue) BY DEF TaskType, Task, Free
<1> HIDE DEF idle, queue
<1>5. agenda' \in Seq(TaskType) /\ \A i \in 1 .. Len(agenda') : Free(agenda'[i])
  BY <1>1, <1>3, <1>4
<1>6. work' \in Seq(JobType) BY <1>1 DEF IInv, Types
<1> QED BY <1>1, <1>5, <1>6, FreeBegins

LEMMA StealSound == ASSUME IInv, Steal PROVE IInv'
<1>1. /\ agenda = <<>> /\ agenda' = work /\ work' = <<>>
      /\ UNCHANGED <<tor, verifier, phase, commands>>
  BY DEF Steal
<1>2. work \in Seq(JobType) BY DEF IInv, Types
<1>3. \A x \in JobType : x \in TaskType /\ Free(x) BY JobsAreTasks DEF JobType, Free
<1>4. agenda' \in Seq(TaskType) /\ \A i \in 1 .. Len(agenda') : Free(agenda'[i])
  BY <1>1, <1>2, <1>3
<1>5. work' \in Seq(JobType) BY <1>1
<1> QED BY <1>1, <1>4, <1>5, FreeBegins

LEMMA PostCloseSound == ASSUME IInv, PostClose PROVE IInv'
<1>1. /\ work' = Append(work, Task("close", None))
      /\ UNCHANGED <<tor, verifier, agenda, phase, commands>>
  BY DEF PostClose
<1>2. Task("close", None) \in JobType BY DEF JobType, Task
<1>3. work' \in Seq(JobType) BY <1>1, <1>2 DEF IInv, Types
<1> QED BY <1>1, <1>3, FreeBegins

-----------------------------------------------------------------------------
\* The worker.

LEMMA HeadTyped ==
  ASSUME IInv, agenda # <<>>
  PROVE  /\ agenda[1] \in TaskType /\ Ready(agenda[1])
         /\ agenda[1].op \in {"free", "stopped", "moved", "add", "await"} =>
              agenda[1].t \in Torrents
<1>1. agenda[1] \in TaskType /\ Ready(agenda[1]) BY DEF IInv, Types, Planned
<1>2. agenda[1].op \in {"free", "stopped", "moved", "add", "await"} => agenda[1].t \in Torrents
  BY <1>1 DEF TaskType, JobType
<1> QED BY <1>1, <1>2

\* The worker takes up only what is on its list, so no torrent that was let go.
LEMMA WorkerTopSound == ASSUME IInv, WorkerTop PROVE IInv'
<1>1. /\ pc = "top" /\ stop' = FALSE /\ phase # "crashed"
      /\ UNCHANGED <<agenda, phase, commands, tor, vstate, work>>
      /\ \/ todo = {} /\ current' = None /\ pc' = "off" /\ todo' = todo
         \/ (\E t \in todo : current' = t /\ todo' = todo \ {t}) /\ pc' = "picked"
  BY DEF WorkerTop, At
<1>2. ASSUME agenda # <<>> PROVE Ready(agenda[1])'
  <2>1. /\ Ready(agenda[1])
        /\ agenda[1].op \in {"free", "stopped", "moved", "add", "await"} => agenda[1].t \in Torrents
    BY <1>2, HeadTyped
  <2>2. agenda'[1] = agenda[1] BY <1>1
  <2>3. todo' \subseteq todo /\ (current' = None \/ current' \in todo) BY <1>1
  <2> QED BY <2>1, <2>2, <2>3, LifecycleAssumption DEF Ready, Out
<1>3. Types' BY <1>1 DEF IInv, Types
<1>4. Verifying'
  <2>1. VTypes' BY <1>1 DEF IInv, Verifying, VTypes
  <2>2. VStates' BY <1>1 DEF IInv, Verifying, VTypes, VStates
  <2>3. VerifierHoldsLive' BY <1>1 DEF IInv, Verifying, VerifierHoldsLive
  <2>4. VerifyStateConsistent'
    BY <1>1, LifecycleAssumption DEF IInv, Verifying, VTypes, VerifyStateConsistent
  <2> QED BY <2>1, <2>2, <2>3, <2>4 DEF Verifying
<1>5. Closing' BY <1>1 DEF IInv, Closing
<1>6. VerifyExcludesRunning' /\ Knows(tor)' BY <1>1 DEF IInv, VerifyExcludesRunning, Knows
<1>7. Chain(agenda)' /\ AddsWell(agenda, tor.running)' BY <1>1 DEF IInv, Planned
<1> QED BY <1>1, <1>2, <1>3, <1>4, <1>5, <1>6, <1>7 DEF IInv, Planned

\* Steps of the worker that neither take nor leave a torrent.
LEMMA WorkerKeeps ==
  ASSUME IInv, UNCHANGED <<todo, current, stop, agenda, phase, commands>>,
         pc \notin {"off"}, pc' \notin {"off"},
         work' \in Seq(JobType), FlagsOK(tor'), Knows(tor'), tor'.running = tor.running,
         Verifying', VerifyExcludesRunning'
  PROVE  IInv'
<1>1. Types' BY DEF IInv, Types
<1>2. Closing' BY DEF IInv, Closing
<1>3. Planned' BY DEF IInv, Planned, Ready, Out
<1> QED BY <1>1, <1>2, <1>3 DEF IInv

LEMMA WorkerNowSound == ASSUME IInv, WorkerNow PROVE IInv'
<1>1. /\ pc = "picked" /\ pc' = "verify" /\ vstate' = [vstate EXCEPT ![current] = "now"]
      /\ UNCHANGED <<tor, todo, current, stop, work, agenda, phase, commands>>
  BY DEF WorkerNow, At
<1>2. current \in tor.live /\ tor.live \subseteq Torrents
  BY <1>1 DEF IInv, Verifying, VerifierHoldsLive, Types, FlagsOK, Flags
<1>3. Verifying'
  <2>1. VTypes' BY <1>1 DEF IInv, Verifying, VTypes
  <2>2. VStates'
    BY <1>1, <1>2 DEF IInv, Verifying, VTypes, VStates, VerifyStateConsistent
  <2>3. VerifierHoldsLive' BY <1>1 DEF IInv, Verifying, VerifierHoldsLive
  <2>4. VerifyStateConsistent'
    BY <1>1, <1>2 DEF IInv, Verifying, VTypes, VerifyStateConsistent
  <2> QED BY <2>1, <2>2, <2>3, <2>4 DEF Verifying
<1>4. VerifyExcludesRunning'
  <2>1. vstate[current] = "wait" BY <1>1 DEF IInv, Verifying, VStates
  <2> QED BY <1>1, <2>1, <1>2 DEF IInv, Verifying, VTypes, VerifyExcludesRunning, Types, FlagsOK, Flags
<1>5. /\ FlagsOK(tor') /\ Knows(tor') /\ tor'.running = tor.running /\ work' \in Seq(JobType)
  BY <1>1 DEF IInv, Types
<1> QED BY <1>1, <1>3, <1>4, <1>5, WorkerKeeps

\* What is found of a torrent that is verified is of one that does not run.
LEMMA WorkerPieceSound == ASSUME IInv, WorkerPiece PROVE IInv'
<1>1. /\ pc = "verify" /\ UNCHANGED <<verifier, work, agenda, phase, commands>>
      /\ \E b \in BOOLEAN : tor' = Set(tor, "whole", current, b)
  BY DEF WorkerPiece, At
<1>2. current \in tor.live /\ tor.live \subseteq Torrents /\ FlagsOK(tor) /\ Knows(tor)
  BY <1>1 DEF IInv, Verifying, VerifierHoldsLive, Types, FlagsOK, Flags
<1>3. Differs(tor, tor', current, Flags \ {"whole"}) BY <1>1, <1>2, SetDiffers DEF Flags
<1>4. tor'.running = tor.running /\ tor'.live = tor.live /\ FlagsOK(tor')
  BY <1>3 DEF Differs, Flags
<1>5. current \notin tor.running \ Watched
  BY <1>1 DEF IInv, Verifying, VStates, VerifyExcludesRunning
<1>6. Differs(tor, tor', current, {}) BY <1>3 DEF Differs
<1>7. Knows(tor') BY <1>2, <1>4, <1>5, <1>6, KnowsIf
<1>8. Verifying' BY <1>1, <1>4, VerifyingKept DEF IInv
<1>9. VerifyExcludesRunning' BY <1>1, <1>4 DEF IInv, VerifyExcludesRunning, verifier
<1>10. UNCHANGED <<todo, current, stop, agenda, phase, commands>> /\ pc \notin {"off"} /\ pc' \notin {"off"}
  BY <1>1 DEF verifier
<1>11. work' \in Seq(JobType) BY <1>1 DEF IInv, Types
<1> QED BY <1>4, <1>7, <1>8, <1>9, <1>10, <1>11, WorkerKeeps

LEMMA WorkerDoneSound == ASSUME IInv, WorkerDone PROVE IInv'
<1>1. /\ pc = "verify" /\ pc' = "report" /\ vstate' = [vstate EXCEPT ![current] = "none"]
      /\ UNCHANGED <<tor, todo, current, stop, work, agenda, phase, commands>>
  BY DEF WorkerDone, At
<1>2. current \in tor.live /\ tor.live \subseteq Torrents
  BY <1>1 DEF IInv, Verifying, VerifierHoldsLive, Types, FlagsOK, Flags
<1>3. Verifying'
  <2>1. VTypes' BY <1>1 DEF IInv, Verifying, VTypes
  <2>2. VStates'
    BY <1>1, <1>2 DEF IInv, Verifying, VTypes, VStates, VerifyStateConsistent
  <2>3. VerifierHoldsLive' BY <1>1 DEF IInv, Verifying, VerifierHoldsLive
  <2>4. VerifyStateConsistent'
    BY <1>1, <1>2 DEF IInv, Verifying, VTypes, VerifyStateConsistent
  <2> QED BY <2>1, <2>2, <2>3, <2>4 DEF Verifying
<1>4. VerifyExcludesRunning'
  BY <1>1, <1>2 DEF IInv, Verifying, VTypes, VerifyExcludesRunning, Types, FlagsOK, Flags
<1>5. /\ FlagsOK(tor') /\ Knows(tor') /\ tor'.running = tor.running /\ work' \in Seq(JobType)
  BY <1>1 DEF IInv, Types
<1> QED BY <1>1, <1>3, <1>4, <1>5, WorkerKeeps

LEMMA WorkerReportSound == ASSUME IInv, WorkerReport PROVE IInv'
<1>1. /\ pc = "report" /\ pc' = "top"
      /\ work' = work \/ work' = Append(work, Task("verified", current))
      /\ UNCHANGED <<tor, vstate, todo, current, stop, agenda, phase, commands>>
  BY DEF WorkerReport, At
<1>2. current \in Torrents
  BY <1>1 DEF IInv, Verifying, VerifierHoldsLive, Types, FlagsOK, Flags
<1>3. Task("verified", current) \in JobType BY <1>2 DEF JobType, Task
<1>4. Verifying'
  BY <1>1 DEF IInv, Verifying, VTypes, VStates, VerifierHoldsLive, VerifyStateConsistent
<1>5. VerifyExcludesRunning' BY <1>1 DEF IInv, VerifyExcludesRunning
<1>6. FlagsOK(tor') /\ Knows(tor') /\ tor'.running = tor.running BY <1>1 DEF IInv, Types
<1>7. work' \in Seq(JobType) BY <1>1, <1>3 DEF IInv, Types
<1> QED BY <1>1, <1>4, <1>5, <1>6, <1>7, WorkerKeeps

-----------------------------------------------------------------------------
\* The invariant holds.

LEMMA InitSound == Init => IInv
<1> SUFFICES ASSUME Init PROVE IInv OBVIOUS
<1>1. tor \in [Flags -> SUBSET Torrents] /\ \A f \in Flags : tor[f] = {} BY DEF Init
<1>2. /\ tor.live = {} /\ tor.freed = {} /\ tor.running = {}
  BY <1>1 DEF Flags
<1>3. FlagsOK(tor) /\ Knows(tor) BY <1>1, <1>2 DEF FlagsOK, Knows
<1>4. Types BY <1>3, LifecycleAssumption DEF Init, Types
<1>5. Verifying
  BY <1>2 DEF Init, Verifying, VTypes, VStates, VerifierHoldsLive, VerifyStateConsistent
<1>6. Planned BY NothingAdds DEF Init, Planned, Chain
<1>7. Closing BY DEF Init, Closing
<1>8. VerifyExcludesRunning BY <1>2 DEF VerifyExcludesRunning
<1> QED BY <1>3, <1>4, <1>5, <1>6, <1>7, <1>8 DEF IInv

LEMMA StutterSound == ASSUME IInv, UNCHANGED vars PROVE IInv'
<1>1. tor' = tor /\ UNCHANGED <<verifier, agenda, work, phase, commands>> BY DEF vars
<1>2. work' \in Seq(JobType) BY <1>1 DEF IInv, Types
<1> QED BY <1>1, <1>2, FreeBegins

LEMMA SessionSound == ASSUME IInv, Session PROVE IInv'
<1>1. ASSUME NEW t \in Torrents,
             \/ DoVerify(t) \/ DoAdd(t) \/ DoRemove(t) \/ DoAwait(t) \/ DoStop(t)
             \/ DoStopped(t) \/ DoIdle(t) \/ DoMoved(t) \/ DoStart(t) \/ DoStarted(t)
             \/ DoVerified(t) \/ DoFree(t) \/ DoDangling(t)
      PROVE  IInv'
  BY <1>1, VerifySound, AddSound, RemoveSound, AwaitSound, StopSound, StoppedSound, IdleSound,
     MovedSound, StartSound, StartedSound, VerifiedSound, FreeSound, DanglingSound
<1>2. CASE DoQueue \/ DoClose \/ DoJoin BY <1>2, QueueSound, CloseSound, JoinSound
<1> QED BY <1>1, <1>2 DEF Session

LEMMA WorkerSound == ASSUME IInv, Worker PROVE IInv'
BY WorkerTopSound, WorkerNowSound, WorkerPieceSound, WorkerDoneSound, WorkerReportSound
   DEF Worker

LEMMA NextSound == IInv /\ [Next]_vars => IInv'
<1> SUFFICES ASSUME IInv, [Next]_vars PROVE IInv' OBVIOUS
<1>1. ASSUME NEW t \in Torrents,
             \/ AddTorrent(t) \/ AddWatched(t) \/ Complete(t) \/ ReachSeedLimit(t)
             \/ RpcStart(t) \/ RpcStop(t) \/ RpcVerify(t) \/ RpcRemove(t) \/ RpcMove(t)
      PROVE  IInv'
  BY <1>1, AddTorrentSound, AddWatchedSound, CompleteSound, ReachSeedLimitSound, RequestSound
<1>2. CASE Pulse \/ Steal \/ PostClose BY <1>2, PulseSound, StealSound, PostCloseSound
<1>3. CASE Session BY <1>3, SessionSound
<1>4. CASE Worker BY <1>4, WorkerSound
<1>5. CASE UNCHANGED vars BY <1>5, StutterSound
<1> QED BY <1>1, <1>2, <1>3, <1>4, <1>5 DEF Next

\* The invariant of every reachable state, whatever the interleaving of the session
\* thread, the worker and the main thread.
THEOREM LifecycleInvariant == Spec => []IInv
<1> QED BY InitSound, NextSound, PTL DEF Spec

\* The flags are about torrents of the session, none both live and freed, and every
\* task and job about a torrent or nothing: TypeOK, for any number of torrents.
THEOREM LifecycleTypeCorrect == Spec => []TypeOK
<1>1. IInv => TypeOK
  <2> SUFFICES ASSUME IInv PROVE TypeOK OBVIOUS
  <2>1. ASSUME NEW s \in {agenda, work}, NEW i \in DOMAIN s PROVE s[i].t \in Torrents \cup {None}
    <3>1. s \in Seq(TaskType) BY JobsAreTasks DEF IInv, Types
    <3>2. s[i] \in TaskType BY <3>1
    <3> QED BY <3>2, TaskIsTask
  <2>2. \A s \in {agenda, work} : \A i \in DOMAIN s : s[i].t \in Torrents \cup {None} BY <2>1
  <2>3. FlagsOK(tor) /\ phase \in {"up", "closing", "crashed"} /\ commands \in 0 .. MaxCommands
    BY DEF IInv, Types
  <2>4. VTypes BY DEF IInv, Verifying
  <2> QED BY <2>2, <2>3, <2>4 DEF TypeOK, FlagsOK, VTypes
<1> QED BY <1>1, LifecycleInvariant, PTL

\* tr_torrent objects outlive the worker's use of them: whatever is removed, moved or
\* closed meanwhile, neither the worker nor its list has a torrent that was freed.
THEOREM WorkerHoldsLive == Spec => []VerifierHoldsLive
<1>1. IInv => VerifierHoldsLive BY DEF IInv, Verifying
<1> QED BY <1>1, LifecycleInvariant, PTL

\* verify_state_ says what the worker does with the torrent, which is never both in
\* its hands and on its list.
THEOREM ShownStateIsTrue == Spec => []VerifyStateConsistent
<1>1. IInv => VerifyStateConsistent BY DEF IInv, Verifying
<1> QED BY <1>1, LifecycleInvariant, PTL

\* A torrent that the main thread has not added never runs while the worker has it
\* or is to have it, in whatever order it is started, verified, stopped and moved.
THEOREM NotVerifiedWhileRunning == Spec => []VerifyExcludesRunning
<1>1. IInv => VerifyExcludesRunning BY DEF IInv
<1> QED BY <1>1, LifecycleInvariant, PTL

\* The same torrent, when it runs, is counted and announced as what it is, or will be
\* looked at by the next pulse: no verification changes what is there behind its back.
THEOREM CompletenessIsKnown == Spec => []RunningKnowsCompleteness
<1>1. IInv => RunningKnowsCompleteness BY DEF IInv, Knows, RunningKnowsCompleteness
<1> QED BY <1>1, LifecycleInvariant, PTL
=============================================================================
