# A verification project for transmission-android

The repository is Transmission's daemon packed as an Android service. The code of its own is
`src/lib/libtransmission` (the BitTorrent session), `src/lib/daemon` (the daemon's main program) and
`src/app/Code` (the Android service that starts it). Everything else under `src/lib` is vendored. There are
no tests in the repository; the code's comments, its `TR_ASSERT`s and the comments of `transmission.h` say
what is meant. The application is built for `armeabi-v7a` only, so `size_t` and `unsigned int` have the same
width, and without assertions in its release build.

This directory holds TLA+ modules that are translated from that code, TLC configurations that check them on
small instances, and proofs that TLAPS checks for every value of the constants.

## 1. The system

### Threads

| thread | runs | shares |
|---|---|---|
| session thread (`session-thread.cc`) | libevent's loop: peers, timers, RPC, jobs posted with `runInSessionThread()` | the session and all its torrents, under the session's recursive lock |
| verify worker (`verify.cc`) | one torrent at a time, while there is one to verify | its list and stop request under `verify_mutex_`; a torrent's completion and checked pieces under no lock |
| web thread (`web_mod.cc`) | libcurl transfers of announces and web seeds | hands results to the session thread |
| main thread (`daemon.cc`) | the watch directory, signals, and the closing of the session | calls the public API, which posts jobs or takes the session's lock |

On Android the process may moreover be killed at any moment.

### Components, their state, and what makes them correct

| component | state | operations | correct when |
|---|---|---|---|
| write cache, block I/O (`cache.cc`, `inout.cc`) | `blocks_`, `max_blocks_`, the files, a torrent's local error | write, read, flush by torrent, file or age, change the limit | a block reads as it was last written, whatever writes fail; the limit holds when the disk works |
| queue positions (`torrent.cc`) | `queuePosition` of every torrent | set one, move a batch, add, free | positions are 0 .. n - 1, others keep their order |
| torrent lifecycle (`torrent.cc`, `torrent.h`, `rpcimpl.cc`, `peer-mgr.cc`) | `isRunning`, `isStopping`, `isDeleting`, `is_queued`, `start_when_stable`, `completeness`, `needs_completeness_check_`, `verify_state_` | add, start, stop, verify, move, remove, complete, queue pulse | no pieces are exchanged during a verification; a torrent that is to start does; what is freed is not used |
| verify worker (`verify.cc`) | `todo_`, `current_node_`, `stop_current_` | add, remove (waits for the worker), end of a torrent | it never holds a freed torrent; nobody waits for it forever |
| session jobs (`session-thread.cc`) | `work_queue_` | post, take all | jobs find what they were posted about |
| progress (`completion.cc`, `torrent.cc`, `resume.cc`, `verify.cc`) | blocks, checked pieces, file times, the resume file | block received, piece checked, file completed, verify, save, load | what we claim to have is good, after late answers, failures, crashes and restarts |
| peer requests (`peer-mgr*.cc`, `peer-msgs.cc`), web seeds (`webseed.cc`) | `active_requests`, tasks | ask, answer, time out, choke, cancel | nothing that we have is asked for or overwritten |
| announcer (`announcer.cc`) | a torrent's tiers: queue of events, current tracker, what is under way; `stops_`, `n_pending_stops_` | start, stop, complete, edit trackers, remove, upkeep, take an answer | a running torrent goes on announcing; a completion is told; no tier waits for an answer that never comes |
| web client (`web_mod.cc`) | `queued_tasks_`, `running_tasks_`, `deadline_` | fetch, close in two phases | every task is answered; the thread ends when it is joined |
| handshake (`handshake.cc`, `peer-io.cc`, `peer-mgr.cc`) | a handshake's state and filter, buffers, `outgoing_handshakes`, `incoming_handshakes`, an atom's flags | connect, accept, read, fall back, time out | required encryption is kept; one connection per peer; nobody gives up a peer without a reason |
| open files, magnet metadata, bandwidth, watch directory, RPC transport, DHT, LPD, port forwarding | | | not modelled: see section 6 and `PROJECT.json` |

Calls go both ways between them. A peer's block goes to the cache and then to `tr_torrentGotBlock()`, which
checks pieces through the cache and completes files, which flushes them. A failed flush stops the torrent,
which flushes again. Starting and stopping come from RPC, from the pulse of `peer-mgr.cc` (stop requests, then
the queue), from the end of a verification, and from the main thread. Stopping waits for the verify worker
with the session's lock held. `PROJECT.json` lists each place where this is hard to test, under `hazards`.

## 2. The modules

| module | models |
|---|---|
| `BlockStore` | what the cache promises: a block reads as it was last written |
| `Cache` | `cache.cc`, the error path of `inout.cc`; implements `BlockStore` |
| `TorrentQueue` | `queuePosition`, the batch methods of `rpcimpl.cc` |
| `Lifecycle` | a torrent's flags, the verify worker, the posted jobs, the close of the session |
| `Progress` | blocks, pieces, files, resume file, requests, web seed tasks, crash, verification |
| `Web` | the web client: its tasks, its thread, its deadline |
| `Announcer` | a tier, its requests over `Web` (which it extends), and how the session closes around both |
| `Requests` | requests to peers, the wires to them and what they do with requests; endgame, cancels, chokes |
| `Handshake` | two clients that connect to each other: encryption, fallbacks, lost connections, time-outs |
| `CacheProofs`, `TorrentQueueProofs`, `LifecycleProofs`, `ProgressProofs`, `AnnouncerProofs`, `RequestsProofs`, `HandshakeProofs` | theorems about the module each is named for |
| `Counting` | lemmas about sequences that two of these rest on: how many elements are in a set, what comes before what |
| `MC*` | the instances TLC checks |

`Announcer` is composed with `Web`, and `Cache` refines `BlockStore`; the other modules stand by themselves.
`Progress` has the cache as the blocks it holds and the worker as two steps a
piece, `Lifecycle` has progress as a flag and the queue as a free choice among the queued; each says so where it
abstracts. `Requests` looks closer at what `Progress` calls `asked`: there a request is a pair that appears and
goes, here it is also a message on a wire.

### Cache

`blocks` is `blocks_` as a function from keys (torrent id, block) to entries; the vector's order is `KeyLess`.
All of it runs in the session thread under the lock, so a call is one action: `WriteBlock`, `SetLimit`,
`FlushTorrent`, `FlushFile`, `RemoveTorrent` (which stops, hence flushes, and then forgets the torrent) and
`StartTorrent` (which clears the error). Every write may fail at any of its blocks: those before it are written,
that one may be torn (`PartialDisks`). `WriteFailed` is the code that follows in `readOrWritePiece()`: the first
failure sets the torrent's error and stops it, and stopping flushes all its blocks from inside the flush that
failed. `Trim` is the loop of `cacheTrim()` with the blocks that were written before a failure.

`FindContiguous` returns the block alone, which is what the code does and not what it says (section 5).
Offsets within a block are abstracted, so that `readBlock()`, which ignores `block_offset`, is only modelled for
whole blocks.

### TorrentQueue

`pos` is `queuePosition`. `SetQueuePosition` computes with the wrapping of `size_t` (`Wrap`), since the code
parks the torrent that moves at `size_t(-1)` and lets it take part in the loop. A batch method is a sequence of
such moves in an order by position (`Sorted`), under the session's lock (`Alone`). A request may name a torrent
twice, and `MoveNext` moves it twice.

### Lifecycle

Three threads. The session thread's current work is `agenda`, one task a step, so that a handler may wait in
the middle (`DoAwait` is the condition variable of `tr_verify_worker::remove()`), while the worker steps.
`work` is the queue of posted jobs; `Steal` takes all of it. RPC requests, `Pulse` and completion start only
when the agenda is empty, because they hold the session's lock. The main thread's `AddWatched` needs the lock
only, and the lock is free between two jobs. `tor` holds, per flag, the torrents that have it. A freed torrent
is never live again; a job about it is `DoDangling`, which may read a stale flag and return or end the program.
`SetToSeq` fixes an order for torrents that a pulse or the close treats one after the other.

Progress is only "whole or not": `WorkerPiece` and `Complete` change it. Whether a torrent's local data has
disappeared is a free choice wherever the code looks at the disk (`Outcomes`).

### Progress

One torrent. A block's content is the set of the pieces in which its bytes are right, so a block that two
pieces share may be right for one and wrong for the other. `disk` and `cached` are what the files and the cache
hold; `Flush` writes a block at any time. `fresh` are the files whose `file_mtimes_` entry is the time on the
disk: a write makes a file stale, and completing it stamps it with the time of day, which may or may not be
the file's (`Write`). `saved` is the resume file. `GotBlock` is `Cache::writeBlock()` with
`tr_torrentGotBlock()`: each piece of the block in order, a failed one loses all its blocks before the next
is looked at, a good one may complete files, whose blocks are flushed. `Crash` loses everything but `disk` and
`saved`. The verify worker has two steps per piece, `VerifyRead` (of the files, never of the cache) and
`VerifySet`, and blocks of a late web seed task come in between.

`passed` and `excused` are history variables for `HaveMeansGood`: the pieces that passed a check since the
program started, and those which may be bad for one of three reasons that the code has (a crash with saved
blocks only in the cache; a web seed's answer to a torrent that is stopped or verified; a neighbour that is
verified and brings along a missing block that is shared).

### Web

The thread's loop in the steps that others can interleave with: `WebCheck` (kill what is past the deadline, end
if closing and idle) takes no lock, `WebLock` holds `tasks_mutex_` and may sleep, then tasks finish one by one
(`WebFinish`) until the loop begins again. `fetch()` is `Fetched`, which accepts nothing once there is a
deadline. What a task's `done_func` does is a job of the session thread: `answers` is that queue, and
`TakeAnswer` of `Announcer` is the job. `startShutdown()` and the destructor are one operator, with time left or
without. Paused tasks, cookies, and everything else of curl are left out.

### Announcer

A torrent has one tier (an event is pushed to all tiers of a torrent, which have nothing else in common) with
`N` trackers in turn. `tier[t]` is `announce_events`, `announceAt` as never, due or later, the index of the
current tracker, `isAnnouncing`, `isScraping`, and whether the last announce succeeded. `Pushed` is
`tier_announce_event_push()`; `NextTracker` is `useNextTracker()`, which clears both flags whatever is under way.
`Upkeep` does all of `upkeep()` at once: the stops of removed torrents, a multiscrape of any tiers, announces of
all that were due when it began. A request whose tier is gone becomes an orphan: nobody takes its answer, but a
stop is counted down. `Reset` is `resetTorrent()` with its three cases: a tracker survives and is current, one
survives but not the current one, none does. `Close` is `closeImplPart1()` with the order of announcer and web
client, `CloseDone` and `CloseLate` are the two ways on in `closeImplPart2()`, `Destroy` and `Deleted` the
destructor of the web client on the main thread.

The history variables name three places where the code loses something. `silent`: a tier that is new to a
running torrent is never given a time to announce, a tracker that answers "unregistered" is not announced to any
more, and a stop that fails is queued behind the start that followed it and dumps it. `slipped`: a failed scrape
makes the tier forget that it is announcing. `finished`: completions that no tracker was told of yet.

An HTTP announce is two requests (by IPv4 and IPv6) and one task here; byte counters, the intervals in an
answer, the batches of a multiscrape and the UDP protocol are left out.

### Requests

One swarm. `have` and `active` are the torrent's blocks and `active_requests`; per peer there is what we think of
it (`keen`, `choked`), what we read (`inbuf`, `partial`), the two wires (`sent`, `coming`) and what the peer owes
(`owed`, `choking`). A block may belong to two pieces, and is then asked for in two parts. `Ask` is
`updateBlockRequests()` with the wishlist, whose rule is `MaxPeers`: one peer a block, two in endgame. `Receive`
brings bytes, and `can_read_wrapper()` goes on message by message (`Reads`) until a handler stops it: the handler
of one message is a step, and nothing else happens between (`Between`). A handler that returns `READ_ERR` or
`READ_LATER` with whole messages behind it leaves them for the next bytes. `ReadPiece` is the completion of a
block with `tr_torrentGotBlock()` (a piece may fail, which loses its blocks), the cancels to other peers and the
removal of the requests.

The peer is a client that keeps to the protocol: it queues up to 6 requests, serves them in order, drops what is
cancelled, and rejects (with the fast extension) or forgets (without) what it will not serve. Without the
extension it may still send a piece after its choke, as this code does too.

What the code does here, and the model with it: a block in two pieces is cancelled by one request for the whole
block, which is none of the requests that were made, so that it cancels nothing; a reject of one part drops the
block; a reject of an old, cancelled request drops a new one for the same block; a peer that has one of a block's
two pieces is asked for both.

### Handshake

Two clients run the same code, each with a mode of encryption; one may be a `foreign` client that knows plain
handshakes only. Both try to connect to the other as long as they think they should (`InUse`, `unreach`), so
that connections cross. A socket has two ends; `end[e]` is the io and the handshake at an end (the state to wait
in, the filter, what was heard and sent), and `wire[e]` what was written to it and not read. Messages are told
apart by the `read_` function that takes them and by whether the filter encrypted them; a part is read at a
time, since a message may arrive in pieces. The keys always match. `OnError` is `on_error()` with its two
fallbacks, to TCP and to a plain handshake, and `Reconnect` is `reconnect()` of `peer-io.cc`, which keeps the
io's filter and what it had not sent or read. `HandshakeDone` is `on_handshake_done()`: one peer per address, and
an outgoing handshake that fails without having read anything makes the peer unreachable.

Left out: banned peers, the peer limit, two seeds, a wrong hash, a connection to oneself, a torrent that stops.

## 3. What is checked

| run | instance | checks |
|---|---|---|
| `Cache` | two torrents of 2 and 1 blocks, two contents, limits 0, 1, 3, one clock tick | `TypeOK`, `OrphansComeFromErrors`, `ImplementsStore` (refinement), `OverLimitExplained` |
| `Queue` | four torrents, batches of up to three names, `UINT_MAX` 7 below `SIZE_MAX` 15 | `TypeOK`, `Sequenced`, `BatchLands`, `OthersKeepOrder` |
| `Lifecycle` | two torrents (one from the watch directory, one that may be moved), two requests, queue size 1 | `TypeOK`, `VerifierHoldsLive`, `VerifyStateConsistent`, `VerifyExcludesRunning`, `RunningKnowsCompleteness` |
| `LifecycleLive` | the same with one request | `SessionNeverStuck`, `StartsWhenStable` |
| `Progress` | two pieces that share a block, one peer, crashes and changed files | `TypeOK`, `HaveMeansGood` |
| `ProgressWeb` | one piece of two blocks, two peers, a web seed, crashes | `AskedIsMissing`, `HaveMeansGood` |
| `ProgressCrash` | two pieces of a block each in one file | finding: `CheckedMeansGood` |
| `Announcer` | a torrent, two trackers, three things that users do, two requests at a time | `TypeOK`, `WaitsForSomething`, `RunningKeepsAnnouncing`, `EventsMerged`, `CompletionIsTold`, `OneAnnounceAtATime`, `PendingStopsAreUnderWay`, `DueIsAnnounced`, `CloseEnds` |
| `WebWait` | the same with one thing that users do | finding: `CloseReturns` |
| `Requests` | a block of one piece and one of two, a peer with and one without the fast extension, one mishap | `TypeOK`, `RequestsAreAnswered`, `Roomy`, `NothingAskedInVain`, `HadIsCancelled`, `Completes` |
| `Handshake` | nine pairs of modes, three sockets, one fault | `TypeOK`, `RequiredIsEncrypted`, `OnePeer`, `UnreachableForAReason`, `Retried` |
| `HandshakePlain` | the same | finding: `FallbackIsPlain` |

Why the bounds are enough. *Cache*: two torrents and a torrent with two neighbours have every kind of pair of
keys; limits 0 and 1 force trims on every write and 3 none; one tick separates older from newer. *Queue*: four
torrents have one ahead, one behind, one between and the one that moves; a batch of three has a repeated name
with another; 7 and 15 leave room for the sum of any two positions. *Lifecycle*: with a queue of one, two torrents
compete for it, and the worker has one in hand while the other waits; two requests make stop against start,
verify against remove, remove against a second remove. `MaxCommands` bounds requests only: adding, completing,
pulses, jobs, the worker and the close are not bounded but by the torrents. *Progress*: two blocks are enough
for a piece that is partly there, a shared one and one in the cache while the other is on the disk;
`MaxAsked` bounds the requests under way. The runs of `Progress` are split because a web seed, a second peer,
crashes and a shared block together are too many states for a short run.

*Announcer*: the torrents of an announcer share only the scrapes and the count of stops, and a removed torrent's
requests are still under way when it is added again; three events make a completion before a stop before a start.
`MaxInFlight` bounds what upkeep sends, not the stops at the close. *Requests*: the two blocks overlap in a piece,
so that a failed piece loses a block of another; with two peers there is somebody to cancel. `ReqQ` is 6, two windows of
two blocks, one of them in two parts: with 5, `Roomy` fails. `MaxMishaps` is one
bound for all of failed pieces, chokes, time-outs, closed and broken connections. *Handshake*: three sockets are
two that cross and a fallback of one of them, or a connection, its fallback and the other's; `MaxSockets` ends
every behaviour, `MaxFaults` is one failed connect, lost connection or early time-out. The pairs of modes are all
there are, up to exchanging the clients, but for two foreign ones.

`CHECK_DEADLOCK FALSE` is set where the system ends: `Lifecycle` and `Announcer` (the session is closed, or the
program has crashed) and `Handshake` (nobody connects any more).

What the deeper properties say:

- `ImplementsStore`: no flush, failed flush, trim or removal changes what a reader of a block is given; hence
  a block leaves the cache only once all of it is on the disk.
- `OverLimitExplained`: after a call that adds a block or lowers the limit, the cache is above its limit only if
  a torrent has a disk error or a freed torrent's block is in the way.
- `BatchLands`: after a batch went to the top or the bottom, its torrents lead or trail, in the old order.
- `VerifyExcludesRunning`: no torrent that the session thread added runs while it is verified or waits for it,
  though starts come from four places. It does not hold of torrents from the watch directory (section 5).
- `RunningKnowsCompleteness`: the cached `completeness` of a running torrent is right, or a check is due.
- `VerifierHoldsLive`, `VerifyStateConsistent`: the worker and its list never hold a freed torrent, and
  `verify_state_` is where they have it.
- `AskedIsMissing`: no request is under way for a block that we have, so no answer overwrites it.
- `HaveMeansGood`: a piece that we have and that was checked still reads well, but for the three reasons above.
- `WaitsForSomething`: `isAnnouncing` and `isScraping` are never left set by an answer that was dropped.
- `RunningKeepsAnnouncing`: a running torrent has an event with a time or an announce under way, except where the
  code loses it for one of the reasons that `silent` names.
- `CompletionIsTold`: a completion is queued or under way until a tracker heard of it, through failures, stops,
  merges and edited trackers. `EventsMerged` is the shape of the queue that the merging is meant to keep.
- `PendingStopsAreUnderWay`, `CloseEnds`: the close waits for stops that will be answered or killed, and it ends
  without its own deadline (`CloseLate` is not assumed to happen).
- `RequestsAreAnswered`: what is in `active_requests` will be answered: a request, a piece, a reject or a choke
  about it is on its way, or the connection is gone. Otherwise only the time-out of 90 s would help.
- `Roomy`: a peer without the fast extension drops what it has no room for without a word. After a choke, or a
  cancel that matches nothing, we ask for a whole window again with the last one still in the peer's queue; so it
  needs room for two windows, and the code has 512 (`ReqQ`) for windows of 250, if the peer does not say otherwise.
  With two mishaps and the same room it fails: two chokes, each followed by an unchoke before the peer has read
  the first requests, leave three windows on the way. Then the peer drops some, and only the time-out helps.
- `NothingAskedInVain`: a block that we have is asked of nobody, a missing one of at most two peers.
- `HadIsCancelled`: a request under way for a block that we have is followed by a cancel, if the peer can be
  told; blocks in two pieces, peers without the fast extension and requests repeated to a peer are left out,
  for the code does not cancel these.
- `Completes`: in the end the torrent is complete or no peer that is left offers what is missing; the time-outs of
  requests are not needed.
- `RequiredIsEncrypted`: whoever began and whatever fell back, a client that requires encryption reads and writes
  through the cipher.
- `UnreachableForAReason`: without a fault, and with sockets left, nobody marks the other unreachable if a
  connection can succeed. At the limit of sockets the fallback cannot be tried, and an io that has read nothing
  makes the peer unreachable; that is what `reconnect()` does when it is given no socket.
- `Retried`: a client that may still try does; no old handshake is in the way for good.

### Fairness

In `Lifecycle` the session thread runs what it has begun (weak fairness of
`Session`), and its loop comes back to the pulse and the posted jobs however many requests there are (strong
fairness of `Pulse` and `Steal`: both are timers or events of one loop, which serves each in turn). The worker's
thread is scheduled, and a torrent has finitely many pieces (weak fairness of `WorkerDone`). Nothing is assumed
of users: no request, no completion, no close ever has to happen.

`Announcer`: both threads' loops go on (weak fairness of each step), timers fire, every job is run, and every
transfer ends, since curl gives up on it in time (strong fairness of `WebFinish(1)`: the loop takes it up again and
again). `Requests`: the pulse asks and updates interest, bytes are delivered, the peer reads, serves and unchokes,
and an io in error is closed; nothing is assumed of mishaps. `Handshake`: one weak fairness of all steps but the
faults, which suffices because every behaviour is finite; a time-out is only owed to a handshake that is stuck.

## 4. What is proved

`CacheProofs`, for all torrents, sizes, contents and limits (`CacheAssumption`): `CacheTypeCorrect`,
`OrphansOnlyFromErrors`, `CacheImplementsStore`, `OverLimitOnlyFromErrors`. The inductive invariant is the types
with `OrphansComeFromErrors` and that the cache is finite (the trim counts its blocks). The argument: a span that is
flushed reads the same from the disk (`FlushedReads`); a failed flush touches the disk only where the block is still in the cache (`PartialReads`);
every operation composes these (`WriteFailedFlushed`, `FlushSpanFlushed`, `TrimFlushed`), so that it changes
what is read only where `writeBlock()` put its block. Orphans need the stronger fact that a flush that leaves a
block of its torrent has set the torrent's error.

`TorrentQueueProofs`, for any number of torrents: `QueueTypeCorrect`, `QueueIsSequenced`, `QueueKeepsOrder`,
under `Wide`: `UINT_MAX < SIZE_MAX` and no request asks for `size_t(-1)`. Both conditions are needed: without
the first, a move to the bottom wraps (section 5); without the second, a torrent-set request with
`queuePosition` -1 (which `rpcimpl.cc:1271` casts) wraps in the same way. The inductive invariant is the types with
`Sequenced` itself; the proof of `SetSequenced` follows the loop of `tr_torrentSetQueuePosition()`: with nothing wrapping but the parked torrent,
the others close its old place and open the new one. `QueueKeepsOrder` follows from it, action by action.

`BatchesLand` is proved under `Wide` as well. Its invariant `Landing` follows the batch: there is a set of moved
torrents which are in the old order among themselves, as are the others, and lie on the method's side of them; of the names still to come
none has to pass a moved one, also when it is a moved one's second occurrence (`MovedSoFar`).

`LifecycleProofs`, for any number of torrents and requests: `LifecycleTypeCorrect`, `WorkerHoldsLive`,
`ShownStateIsTrue`, `NotVerifiedWhileRunning`, `CompletenessIsKnown`. None of the properties is inductive, for a
handler waits in the middle. The invariant says in which order the tasks of the agenda come (`Chain`): a torrent
is freed only after the stop that follows its removal from the worker, added to the worker's list only after a
removal from it, and after a stop if it runs (`AddsWell`). It says what is known when a task is next (`Ready`): the worker has let go of a torrent that is to be
freed, moved or added, and its stop request is set while the session thread waits for it. And it says that the worker has
nothing left once the session has joined it (`Closing`). Every handler then puts tasks at the front of the agenda
that fit what follows (`Fits`).

`ProgressProofs`, for every layout of blocks, pieces and files (pieces share blocks, files share pieces; only that
each block of a piece lies in some file of the piece is assumed): `ProgressTypeCorrect`, `NothingHadIsAsked`,
`HadAndCheckedIsGood`. `HaveMeansGood` needs four companions: what the resume file says is good where it will be trusted
(`SavedMeansGood`), what is in the cache of a torrent that does not run is good or excused (`LateIsExcused`), the
worker's finding is still right when it is used (`ScanIsRight`), and no piece has passed a check of a program that is not there (`PassedNow`).

`AnnouncerProofs`, for any number of torrents, trackers and events: `AnnouncerTypeCorrect`,
`NothingWaitedForInVain`, `RunningNeverForgotten`, `QueuesMerged`, `CompletionNotLost`, `AnnouncesOnce`,
`StopsCountedRight`. All rest on how many requests of a kind are under way (`UnderWay`), in the web client's queue,
among its running transfers or as answers: the web client loses none and makes none, whatever its thread is at, so
that each step of the announcer changes the counts by what it fetches or takes. The invariant `Tended` says of each torrent what its tier's
flags, queue and history mean in these counts; `StopsCounted` equates `n_pending_stops_` with the stops under way.
`QueuesMerged` rests on lemmas about what a push does to a queue that is merged.

`RequestsProofs`, for any blocks, cuts into pieces, peers and windows. `NothingIsAskedInVain` needs nothing of the wires: `AskedWell`
adds that requests are about the torrent's blocks and peers; `Ask` is the step that needs the wishlist's count,
`ReadPiece` the one that must settle with all peers at once and lose blocks only when a piece fails.
`RequestsTypeCorrect`, `WhatWeHaveIsCancelled` and `NoRequestIsForgotten` rest on `Good`, what is true of one
connection: a block that was not asked for twice is under way once (`Single`); what a peer with the fast extension owes us and we do
not expect has a cancel behind it (`CalledOff`); a peer that chokes owes nothing, and its last word on it is the choke
(`OwesNothing`, `LastWord`), after which a peer without the extension is expected to send nothing (`Forgotten`); what such a
peer is expected to send after a cancel is asked for again behind it (`AskedAgain`). On top of these,
`Expected` follows each part of a request through the wires. It needs that no peer drops a request for lack of
room, hence the theorem is `Spec /\ []Roomy => []RequestsAreAnswered`; the run checks `Roomy` on its instance, where the room is two windows and there is one mishap. The
hypothesis is about the peer and the pace of its chokes: no fixed room makes it a theorem.

`HandshakeProofs`, for any number of sockets and faults and any modes: `AtMostOnePeer`, `RequiredMeansEncrypted`, `HandshakeTypeCorrect` and `UnreachableOnlyForAReason`.
The inductive invariant says of each end that its filter is on both ways in the states from which it may become a
peer, if encryption is required (`Sound`), and that there is one peer at most. Every step but the end of a
handshake changes ends only into ones that are sound and no peers (`SoundChanges`), and `DoneKeeps` is where a
peer is made, once `is_connected` was looked at. `ReadHandshakeKeeps` is the argument that what is read through a
filter that does not decrypt is plain, and so refused. `HandshakeTypeCorrect` adds that nobody is at a socket that
was not opened (`Fresh`), since whose side an end is on is read off the list of sockets.

`UnreachableOnlyForAReason` needs to know what is on both wires and how connections that cross affect each other. Its
invariant `HInv` says so (`Settled`) as long as nothing has failed, a socket is left, and nobody requires encryption of
a client that knows none (`Quiet`, which holds before a step if it holds after it: `QuietBefore`); in all other states
the property holds by what it excludes. `Settled` has two parts. `Talk` is about one connection: it is in one of five phases (`Begun`, plain,
`Keys`, `Offer`, cipher), and each phase says what both ends wait for and which parts are on either wire. From it follows
that nobody waits for the timeout (`NotStuck`), that nothing is refused but a plain handshake by a client that requires
encryption and keys by one that knows none (`OutReads`, `InReads`), and that who finds the other end closed either cannot succeed or has sent keys to a client
without encryption, and then falls back (`NoticesClosed`, `ReconnectSettles`). `Orderly` is about the connections between
the two: each shakes hands on one of its own at most (`OneOut`) and on one that came in (`OneIn`), and leaves one of
its own behind only for a peer on one of the other's (`Crossed`); to keep that it takes `Engaged`. Hence nobody refuses a
connection because of an old one (`TakenOrderly`), and the end that closes one that it began has a peer (`ClosedOrderly`).

What the proofs assume is named in the modules: `CacheAssumption`, `QueueAssumption` with `Wide`,
`LifecycleAssumption`, `ProgressAssumption`, `AnnouncerAssumption` with `RequestsAreTasks`, `RequestsAssumption`, `HandshakeAssumption`. They say that sets of torrents,
peers and blocks are finite, which widths the numbers have and that the layout of a torrent is one. TLC evaluates each on every run.

Only model-checked: `Roomy`, for the reason above. Out of the prover's reach: liveness (`SessionNeverStuck`,
`StartsWhenStable`, `DueIsAnnounced`, `CloseEnds`, `Completes`, `Retried`).

## 5. Where code and comments disagree

Three are runs that TLC finds violated; `PROJECT.json` quotes the comment.

- `ProgressCrash`: a piece that was checked in the cache counts as checked after a crash that lost it.
- `WebWait`: the predicate on which the web client's thread sleeps is the wrong way round (`web_mod.cc:685`). It
  never sleeps while it should, and when the deadline is set between the check and the lock it sleeps for good.
- `HandshakePlain`: the plain fallback of a handshake first sends the key that it had not sent before, or goes
  through the filter (`peer-io.cc:210`).

Others that the modules show, with the lines; none has a run of its own, and the properties that run leave out
what these break:

- `cache.cc:31`: `findContiguous()` never widens its span, so that every block is written alone.
- `torrent.cc:587`: with `UINT_MAX = SIZE_MAX`, as on the 32-bit target, or a `queuePosition` of -1, `Sequenced` fails
  after a single move. Giving the run `Queue` equal widths shows it.
- `torrent.cc:854`: a start posted by the main thread may find its torrent freed (`torrent.cc:707` asserts
  otherwise), or come in the middle of a verification. `VerifyExcludesRunning` leaves out `Watched` for that.
- `torrent.cc:1243`: moving a torrent's data aborts its verification and loses the start that was due.
  `StartsWhenStable` leaves out `Movable` for that.
- `announcer.cc:1761`: a new tier takes over the events and not their time, so that a running torrent may never
  announce again; and a stopped torrent's tier that loses its tracker has none, on which the next announce
  asserts (`announcer.cc:1518`, `UpkeepCrashes`).
- `announcer.cc:846`: the stop of a torrent that was started again meanwhile fails, is queued behind the start,
  and dumps it.
- `announcer.cc:394`: a failed scrape makes a tier forget its announce, and a second one is sent.
- `peer-msgs.cc:208`: a cancel of a block in two pieces matches none of its requests.
- `handshake.cc:788`: the fallback from uTP to TCP sends a plain handshake even if encryption is required; the
  answer is refused then, so that the connection is lost and not unencrypted.

## 6. Plan

Done: the modules above, and the proofs of all invariants and action properties that the runs check, but `Roomy`.
What could follow are the hazards in `PROJECT.json` that have no property, most of them of the lifecycle; each has a note
that says why none covers it.
Not modelled, and why, per component: `PROJECT.json`. Vendored libraries, data formats (parsers, JSON, bencode)
and the Android glue are left out for good; the last appears as `Crash` and as the width of integers. The pool of
open files, magnet metadata, bandwidth, the scan of the watch directory and the adapters of DHT, local discovery
and port forwarding hold little control that others interact with.
