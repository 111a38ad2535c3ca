------------------------------ MODULE Progress ------------------------------
(***************************************************************************)
(* What a torrent has, and what of it may be trusted: blocks arrive from   *)
(* peers and web seeds, pieces are checked and rechecked, files are        *)
(* verified, and progress outlives the program in a resume file            *)
(* (torrent.cc, completion.cc, peer-msgs.cc, webseed.cc, verify.cc,        *)
(* resume.cc).  The write cache of Cache.tla appears here as the blocks it *)
(* holds and no operation on a file fails.  Block boundaries need not be   *)
(* piece boundaries: a block's content is the set of those of its pieces   *)
(* in which its bytes are right.                                           *)
(***************************************************************************)
EXTENDS Naturals, FiniteSets

CONSTANTS Blocks, N,  \* the blocks, and the number of pieces
          PieceBlocks, \* PieceBlocks[p]: the blocks with bytes of the piece p
          FileBlocks,  \* FileBlocks[f]: the blocks with bytes of the file f
          PieceFiles,  \* PieceFiles[p]: the files with bytes of the piece p
          Peers,       \* the peers to ask for blocks
          HasWebseed,  \* whether there is a web seed to ask as well
          MaxAsked,    \* bound: the number of requests under way
          MayCrash     \* whether the program may end without closing

Pieces == 1 .. N
Files == DOMAIN FileBlocks

ASSUME ProgressAssumption ==
  /\ N \in Nat
  /\ PieceBlocks \in [Pieces -> SUBSET Blocks]
  /\ FileBlocks \in [Files -> SUBSET Blocks]
  /\ PieceFiles \in [Pieces -> SUBSET Files]
  \* the bytes of a piece in a block belong to some file of the piece
  /\ \A p \in Pieces : \A b \in PieceBlocks[p] : \E f \in PieceFiles[p] : b \in FileBlocks[f]
  /\ MaxAsked \in Nat /\ HasWebseed \in BOOLEAN /\ MayCrash \in BOOLEAN

VARIABLES mode,     \* "run", "stop", "verify", or "down" without the program
          have,     \* blocks_ of the torrent's completion
          disk,     \* disk[b]: the content of b in its files
          cached,   \* the contents of the blocks in the write cache
          exists,   \* the files that exist
          checked,  \* checked_pieces_
          fresh,    \* the files whose file_mtimes_ is what the disk says
          saved,    \* have, checked and fresh in the resume file
          asked,    \* active_requests: <<peer, block>>
          fetching, \* the blocks that tasks of the web seed have yet to bring
          scan,     \* where the verify worker is, and what it found of the piece
          passed,   \* history: the pieces found good, and had since, while the program ran
          excused   \* history: the pieces that may be bad for a known reason

progress == <<have, checked, fresh>>
storage == <<disk, cached, exists>>
history == <<passed, excused>>
vars == <<mode, progress, storage, saved, asked, fetching, scan, history>>

PiecesOf(b) == {p \in Pieces : b \in PieceBlocks[p]}

\* hasPiece(), with the blocks h
HasPiece(p, h) == PieceBlocks[p] \subseteq h

\* What the program reads of b.
Seen(b) == IF b \in DOMAIN cached THEN cached[b] ELSE disk[b]

\* tr_ioTestPiece() would pass.
Good(p) == \A b \in PieceBlocks[p] : p \in Seen(b)
GoodOnDisk(p) == \A b \in PieceBlocks[p] : p \in disk[b]

Touched(S) == {f \in Files : FileBlocks[f] \cap S # {}}

Scanning(p) == [piece |-> p, read |-> FALSE, had |-> FALSE, ok |-> FALSE]

-----------------------------------------------------------------------------
Init ==
  /\ mode = "run"
  /\ have = {} /\ checked = {} /\ fresh = {}
  /\ disk = [b \in Blocks |-> {}] /\ cached = [b \in {} |-> {}] /\ exists = {}
  /\ saved = [have |-> {}, checked |-> {}, fresh |-> {}]
  /\ asked = {} /\ fetching = {}
  /\ scan = Scanning(1)
  /\ passed = {} /\ excused = {}

\* The cache writes out the blocks of S, which changes the mtime of their files.
\* file_mtimes_ of the files of stamped is set to the time of day after that.
Write(S, new, stamped) ==
  LET out == S \cap DOMAIN new
  IN /\ disk' = [b \in Blocks |-> IF b \in out THEN new[b] ELSE disk[b]]
     /\ cached' = [b \in DOMAIN new \ out |-> new[b]]
     /\ exists' = exists \cup Touched(out)
     /\ \E now \in SUBSET stamped : fresh' = (fresh \ (Touched(out) \cup stamped)) \cup now

\* The cache is over its limit, or the limit changes: some block goes first.
Flush(b) ==
  /\ mode # "down" /\ b \in DOMAIN cached
  /\ Write({b}, cached, {})
  /\ saved' = [saved EXCEPT !.fresh = @ \ Touched({b})]
  /\ UNCHANGED <<mode, have, checked, asked, fetching, scan, history>>

\* A block that is missing is asked of a peer, or of the web seed.
Ask(peer, b) ==
  /\ mode = "run" /\ b \notin have /\ Cardinality(asked) < MaxAsked
  /\ asked' = asked \cup {<<peer, b>>}
  /\ UNCHANGED <<mode, progress, storage, saved, fetching, scan, history>>

Fetch(b) ==
  /\ HasWebseed /\ mode = "run" /\ b \notin have /\ Cardinality(fetching) < MaxAsked
  /\ fetching' = fetching \cup {b}
  /\ UNCHANGED <<mode, progress, storage, saved, asked, scan, history>>

\* The peer chokes us or leaves, or our requests to it get too old.
Drop(peer) ==
  /\ \E b \in Blocks : <<peer, b>> \in asked
  /\ asked' = {r \in asked : r[1] # peer}
  /\ UNCHANGED <<mode, progress, storage, saved, fetching, scan, history>>

-----------------------------------------------------------------------------
\* Cache::writeBlock(b), then tr_torrentGotBlock(b).  The pieces of b that are whole
\* are looked at in their order.  One that passes may complete files, which are
\* written out; the first that fails loses all its blocks, b with them, so that no
\* later one is whole any more.
GotBlock(b, content) ==
  LET new == [c \in DOMAIN cached \cup {b} |-> IF c = b THEN content ELSE cached[c]]
      got == have \cup {b}
      whole == {p \in PiecesOf(b) : HasPiece(p, got)}
      bad == {p \in whole : \E c \in PieceBlocks[p] :
                p \notin (IF c \in DOMAIN new THEN new[c] ELSE disk[c])}
      failed == {p \in bad : \A q \in bad : p <= q}
      left == got \ UNION {PieceBlocks[p] : p \in failed}
      pass == {p \in whole : \A q \in bad : p < q}
      done == {f \in Files : FileBlocks[f] \subseteq got /\ \E p \in pass : f \in PieceFiles[p]}
      out == UNION {FileBlocks[f] : f \in done}
  IN IF b \in have
     THEN cached' = new /\ UNCHANGED <<have, fresh, disk, exists, saved, history>>
     ELSE /\ have' = left
          /\ Write(out, new, done)
          /\ saved' = [saved EXCEPT !.fresh = @ \ Touched(out \cap DOMAIN new)]
          /\ passed' = {p \in passed \cup pass : HasPiece(p, left)}
          /\ excused' = (excused \ pass) \cup (IF mode = "run" THEN {} ELSE PiecesOf(b))

\* Mutant of Receive: the other requests for the block are not cancelled.
ReceiveKeepsRequests(peer, b) ==
  /\ <<peer, b>> \in asked
  /\ asked' = asked \ {<<peer, b>>}
  /\ \E content \in SUBSET PiecesOf(b) : GotBlock(b, content)
  /\ UNCHANGED <<mode, checked, fetching, scan>>

\* clientGotBlock(): a block that was asked of the peer, of a piece that is not
\* complete.  Every other request for it is cancelled.
Receive(peer, b) ==
  /\ <<peer, b>> \in asked
  /\ \A p \in PiecesOf(b) : (\A q \in PiecesOf(b) : p <= q) => ~HasPiece(p, have)
  /\ asked' = {r \in asked : r[2] # b}
  /\ \E content \in SUBSET PiecesOf(b) : GotBlock(b, content)
  /\ UNCHANGED <<mode, checked, fetching, scan>>

\* Mutant of ReceiveWeb: blocks that came from elsewhere meanwhile are not left out.
ReceiveWebOverwrites(b) ==
  /\ mode # "down" /\ b \in fetching
  /\ fetching' = fetching \ {b}
  /\ asked' = {r \in asked : r[2] # b}
  /\ \E content \in SUBSET PiecesOf(b) : GotBlock(b, content)
  /\ UNCHANGED <<mode, checked, scan>>

\* useFetchedBlocks(), also when the torrent has been stopped meanwhile: stopping
\* it drops the peers but no task of a web seed.
ReceiveWeb(b) ==
  /\ mode # "down" /\ b \in fetching
  /\ fetching' = fetching \ {b}
  /\ IF b \in have THEN UNCHANGED <<progress, storage, saved, asked, history>>
     ELSE /\ asked' = {r \in asked : r[2] # b}
          /\ \E content \in SUBSET PiecesOf(b) : GotBlock(b, content)
          /\ UNCHANGED checked
  /\ UNCHANGED <<mode, scan>>

\* A peer asks for bytes of p: ensurePieceIsChecked().
Serve(p) ==
  /\ mode = "run" /\ HasPiece(p, have) /\ p \notin checked
  /\ IF Good(p) THEN /\ checked' = checked \cup {p}
                     /\ passed' = passed \cup {p}
                     /\ excused' = excused \ {p}
     ELSE UNCHANGED <<checked, history>>
  /\ UNCHANGED <<mode, have, fresh, storage, saved, asked, fetching, scan>>

-----------------------------------------------------------------------------
\* saveProgress(); the torrent is taken to be dirty.
Progress == [have |-> have, checked |-> checked, fresh |-> fresh]

SaveTimer ==
  /\ mode # "down"
  /\ saved' = Progress
  /\ UNCHANGED <<mode, progress, storage, asked, fetching, scan, history>>

\* Mutant of Stop: the peers are kept.
StopKeepsPeers ==
  /\ mode \in {"run", "stop", "verify"}
  /\ Write(Blocks, cached, {})
  /\ saved' = [Progress EXCEPT !.fresh = fresh']
  /\ mode' = "stop" /\ scan' = Scanning(1)
  /\ UNCHANGED <<have, checked, asked, fetching, history>>

\* torrentStop(), alone or when the session is closed: the peers are dropped,
\* the cache is written out, then the progress is saved.
Stop ==
  /\ mode \in {"run", "stop", "verify"}
  /\ asked' = {}
  /\ Write(Blocks, cached, {})
  /\ saved' = [Progress EXCEPT !.fresh = fresh']
  /\ scan' = Scanning(1)
  /\ \/ mode' = "stop" /\ UNCHANGED <<have, checked, fetching, passed>>
     \/ mode' = "down" /\ have' = {} /\ checked' = {} /\ fetching' = {} /\ passed' = {}
  /\ UNCHANGED excused

Start ==
  /\ mode = "stop" /\ mode' = "run"
  /\ UNCHANGED <<progress, storage, saved, asked, fetching, scan, history>>

\* The program ends at once.  What the cache held is lost.
Crash ==
  /\ MayCrash /\ mode # "down"
  /\ mode' = "down"
  /\ cached' = [b \in {} |-> {}]
  /\ have' = {} /\ checked' = {} /\ fresh' = {}
  /\ asked' = {} /\ fetching' = {} /\ scan' = Scanning(1)
  /\ passed' = {}
  /\ excused' = excused \cup {p \in Pieces : /\ HasPiece(p, saved.have)
                                          /\ PieceBlocks[p] \cap DOMAIN cached # {}}
  /\ UNCHANGED <<disk, exists, saved>>

\* Somebody changes a file while the program does not run, and the pieces in it.
Tamper(f) ==
  /\ mode = "down" /\ f \in exists
  /\ disk' = [b \in Blocks |-> IF b \in FileBlocks[f] THEN {p \in disk[b] : f \notin PieceFiles[p]}
                              ELSE disk[b]]
  /\ saved' = [saved EXCEPT !.fresh = @ \ {f}]
  /\ UNCHANGED <<mode, progress, cached, exists, asked, fetching, scan, history>>

\* Mutant of Restart: the times of the files are not compared.
RestartTrusting ==
  /\ mode = "down"
  /\ mode' \in {"run", "stop"}
  /\ have' = saved.have /\ fresh' = exists /\ checked' = saved.checked
  /\ UNCHANGED <<storage, saved, asked, fetching, scan, history>>

\* loadProgress() and initCheckedPieces(): the pieces of a file that is missing, or
\* has changed, are to be checked again.
Restart ==
  /\ mode = "down"
  /\ mode' \in {"run", "stop"}
  /\ have' = saved.have
  /\ fresh' = Files
  /\ checked' = {p \in saved.checked : PieceFiles[p] \subseteq exists \cap saved.fresh}
  /\ UNCHANGED <<storage, saved, asked, fetching, scan, history>>

-----------------------------------------------------------------------------
\* verifyTorrent() of torrent.cc stops the torrent if it runs.
VerifyStart ==
  /\ mode \in {"run", "stop"}
  /\ asked' = {}
  /\ scan' = Scanning(1)
  /\ IF mode = "run"
     THEN Write(Blocks, cached, {}) /\ saved' = [Progress EXCEPT !.fresh = fresh']
     ELSE UNCHANGED <<fresh, storage, saved>>
  /\ mode' = "verify"
  /\ UNCHANGED <<have, checked, fetching, history>>

\* verifyTorrent() of verify.cc reads the files, not the cache.
VerifyRead ==
  /\ mode = "verify" /\ scan.piece \in Pieces /\ ~scan.read
  /\ scan' = [scan EXCEPT !.read = TRUE, !.had = HasPiece(scan.piece, have),
                          !.ok = GoodOnDisk(scan.piece)]
  /\ UNCHANGED <<mode, progress, storage, saved, asked, fetching, history>>

VerifySet ==
  LET p == scan.piece
      kept == IF scan.ok THEN have \cup PieceBlocks[p]
              ELSE IF scan.had THEN have \ PieceBlocks[p] ELSE have
  IN /\ mode = "verify" /\ scan.read
     /\ have' = kept
     /\ checked' = checked \cup {p}
     /\ scan' = Scanning(p + 1)
     /\ passed' = {q \in passed \cup (IF scan.ok THEN {p} ELSE {}) : HasPiece(q, kept)}
     /\ excused' = (IF Good(p) /\ PieceBlocks[p] \cap DOMAIN cached = {} THEN excused \ {p} ELSE excused)
                   \cup {q \in Pieces \ {p} : HasPiece(q, kept) /\ ~HasPiece(q, have)}
     /\ UNCHANGED <<mode, fresh, storage, saved, asked, fetching>>

VerifyDone ==
  /\ mode = "verify" /\ scan.piece = N + 1
  /\ mode' \in {"run", "stop"} /\ scan' = Scanning(1)
  /\ UNCHANGED <<progress, storage, saved, asked, fetching, history>>

Next ==
  \/ \E b \in Blocks : Flush(b) \/ Fetch(b) \/ ReceiveWeb(b)
  \/ \E peer \in Peers : Drop(peer) \/ \E b \in Blocks : Ask(peer, b) \/ Receive(peer, b)
  \/ \E p \in Pieces : Serve(p)
  \/ \E f \in Files : Tamper(f)
  \/ SaveTimer \/ Stop \/ Start \/ Crash \/ Restart
  \/ VerifyStart \/ VerifyRead \/ VerifySet \/ VerifyDone

Spec == Init /\ [][Next]_vars

-----------------------------------------------------------------------------
\* The types; a torrent that does not run has no request under way, and nothing is
\* cached for, or fetched by, a program that has ended.
TypeOK ==
  /\ mode \in {"run", "stop", "verify", "down"}
  /\ have \subseteq Blocks /\ checked \subseteq Pieces /\ fresh \subseteq Files
  /\ disk \in [Blocks -> SUBSET Pieces] /\ exists \subseteq Files
  /\ DOMAIN cached \subseteq Blocks /\ cached \in [DOMAIN cached -> SUBSET Pieces]
  /\ saved \in [have : SUBSET Blocks, checked : SUBSET Pieces, fresh : SUBSET Files]
  /\ asked \subseteq Peers \X Blocks /\ fetching \subseteq Blocks
  /\ mode # "run" => asked = {}
  /\ mode = "down" => DOMAIN cached = {} /\ fetching = {}
  /\ scan \in [piece : 1 .. N + 1, read : BOOLEAN, had : BOOLEAN, ok : BOOLEAN]
  /\ passed \subseteq Pieces /\ excused \subseteq Pieces

\* What we have is not asked for, so that no answer overwrites it
\* (tr_peerMgrDidPeerRequest and cancelAllRequestsForBlock).
AskedIsMissing == \A r \in asked : r[2] \notin have

\* A piece that we have and that passed a check still reads as it did: no late or
\* repeated answer, neighbour, verification, restart or change of its files makes
\* it bad unnoticed.  Three ways to lose it are known: a crash with saved blocks in
\* the cache only, a web seed's late answer to a torrent that is stopped or verified, and a
\* neighbour that is verified and brings along the block that was missing.
HaveMeansGood ==
  \A p \in Pieces :
    mode # "down" /\ HasPiece(p, have) /\ p \in checked \cup passed => Good(p) \/ p \in excused

\* A piece that we have and that does not need to be checked before its data is
\* used is good (torrent.h:803-805).
CheckedMeansGood ==
  \A p \in Pieces : mode # "down" /\ HasPiece(p, have) /\ p \in checked => Good(p)
=============================================================================
