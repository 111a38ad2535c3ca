---------------------------- MODULE ProgressProofs ----------------------------
(***************************************************************************)
(* Proofs about Progress.tla, for every layout of blocks, pieces and       *)
(* files, and any number of peers: its types, that nothing is asked for    *)
(* that we have, and that pieces which passed a check stay good.           *)
(***************************************************************************)
EXTENDS Progress, TLAPS, WellFoundedInduction

-----------------------------------------------------------------------------
\* What the cache holds and the files do not is not trusted from the resume file
\* either: a piece that is in there as checked, in files that did not change since,
\* is good on the disk once none of its blocks is in the cache.
SavedMeansGood ==
  \A p \in Pieces :
    /\ HasPiece(p, saved.have) /\ p \in saved.checked
    /\ PieceFiles[p] \subseteq exists \cap saved.fresh
    /\ PieceBlocks[p] \cap DOMAIN cached = {}
    => GoodOnDisk(p) \/ p \in excused

\* While the torrent does not run the cache holds nothing but late answers of web
\* seeds, so that the files that are verified are what the program reads.
LateIsExcused ==
  mode \in {"stop", "verify"} =>
    \A p \in Pieces : PieceBlocks[p] \cap DOMAIN cached # {} => Good(p) \/ p \in excused

\* What the verify worker found of a piece is right, whatever came since.
ScanIsRight ==
  mode = "verify" /\ scan.read =>
    /\ scan.piece \in Pieces
    /\ scan.ok => Good(scan.piece) \/ scan.piece \in excused
    /\ ~scan.had /\ HasPiece(scan.piece, have) => scan.piece \in excused

PassedNow == mode = "down" => passed = {}

IInv ==
  /\ TypeOK /\ AskedIsMissing
  /\ HaveMeansGood /\ SavedMeansGood /\ LateIsExcused /\ ScanIsRight /\ PassedNow

-----------------------------------------------------------------------------
\* Of some pieces one is the first.
LEMMA FirstPiece ==
  ASSUME NEW S \in SUBSET Pieces, S # {} PROVE \E p \in S : \A q \in S : p <= q
<1>1. N \in Nat BY ProgressAssumption
<1>2. S \subseteq Nat BY <1>1 DEF Pieces
<1>3. PICK p \in S : \A q \in S : ~(<<q, p>> \in OpToRel(<, Nat))
  BY <1>2, WFMin, NatLessThanWellFounded
<1>4. \A q \in S : ~(q < p) BY <1>2, <1>3 DEF OpToRel
<1> QED BY <1>2, <1>4

\* The cache writes out blocks: a reader sees no difference, and what is not in
\* the cache any more is on the disk.
LEMMA WriteKeeps ==
  ASSUME TypeOK, NEW S, NEW new, DOMAIN new \subseteq Blocks,
         new \in [DOMAIN new -> SUBSET Pieces], NEW stamped \in SUBSET Files,
         Write(S, new, stamped)
  PROVE  /\ disk' \in [Blocks -> SUBSET Pieces]
         /\ exists' = exists \cup Touched(S \cap DOMAIN new) /\ fresh' \subseteq Files
         /\ DOMAIN cached' = DOMAIN new \ S /\ cached' \in [DOMAIN cached' -> SUBSET Pieces]
         /\ \A b \in Blocks : Seen(b)' = IF b \in DOMAIN new THEN new[b] ELSE disk[b]
         /\ \A b \in Blocks \ (S \cap DOMAIN new) : disk'[b] = disk[b]
<1> DEFINE out == S \cap DOMAIN new
<1>1. /\ disk' = [b \in Blocks |-> IF b \in out THEN new[b] ELSE disk[b]]
      /\ cached' = [b \in DOMAIN new \ out |-> new[b]]
      /\ exists' = exists \cup Touched(out)
  BY DEF Write
<1>2. PICK now \in SUBSET stamped : fresh' = (fresh \ (Touched(out) \cup stamped)) \cup now
  BY DEF Write
<1>3. fresh' \subseteq Files BY <1>2 DEF TypeOK
<1>4. DOMAIN cached' = DOMAIN new \ S BY <1>1
<1>5. \A b \in Blocks : Seen(b)' = IF b \in DOMAIN new THEN new[b] ELSE disk[b]
  BY <1>1, <1>4 DEF Seen
<1> QED BY <1>1, <1>3, <1>4, <1>5 DEF TypeOK

\* Without something new, what was seen of a piece stays.
LEMMA FlushKeeps ==
  ASSUME TypeOK, NEW S, Write(S, cached, {})
  PROVE  /\ \A b \in Blocks : Seen(b)' = Seen(b)
         /\ \A p \in Pieces : Good(p)' <=> Good(p)
<1>1. \A b \in Blocks : Seen(b)' = Seen(b) BY WriteKeeps DEF TypeOK, Seen
<1> QED BY <1>1, ProgressAssumption DEF Good

\* Where none of its blocks is in the cache, the disk decides about a piece.
LEMMA DiskDecides ==
  ASSUME NEW p \in Pieces, PieceBlocks[p] \cap DOMAIN cached = {}
  PROVE  Good(p) <=> GoodOnDisk(p)
BY DEF Good, GoodOnDisk, Seen

-----------------------------------------------------------------------------
\* A block that was missing comes: a piece of it that is whole afterwards passed its
\* check, other pieces read as they did, and what the resume file promises holds.
LEMMA GotBlockKeeps ==
  ASSUME TypeOK, SavedMeansGood, NEW b \in Blocks, b \notin have,
         NEW content \in SUBSET PiecesOf(b), GotBlock(b, content)
  PROVE  /\ have' \subseteq have \cup {b} /\ fresh' \subseteq Files
         /\ disk' \in [Blocks -> SUBSET Pieces] /\ exists' \subseteq Files
         /\ DOMAIN cached' \subseteq DOMAIN cached \cup {b}
         /\ cached' \in [DOMAIN cached' -> SUBSET Pieces]
         /\ saved' \in [have : SUBSET Blocks, checked : SUBSET Pieces, fresh : SUBSET Files]
         /\ passed' \subseteq passed \cup PiecesOf(b) /\ excused' \subseteq excused \cup PiecesOf(b)
         /\ mode # "run" => PiecesOf(b) \subseteq excused'
         /\ excused \ PiecesOf(b) \subseteq excused'
         /\ \A p \in Pieces \ PiecesOf(b) : Good(p)' <=> Good(p)
         /\ \A p \in PiecesOf(b) : HasPiece(p, have') => Good(p)'
         /\ SavedMeansGood'
<1> DEFINE new == [c \in DOMAIN cached \cup {b} |-> IF c = b THEN content ELSE cached[c]]
           got == have \cup {b}
           whole == {p \in PiecesOf(b) : HasPiece(p, got)}
           bad == {p \in whole : \E c \in PieceBlocks[p] :
                     p \notin (IF c \in DOMAIN new THEN new[c] ELSE disk[c])}
           failed == {p \in bad : \A q \in bad : p <= q}
           left == got \ UNION {PieceBlocks[p] : p \in failed}
           pass == {p \in whole : \A q \in bad : p < q}
           done == {f \in Files : FileBlocks[f] \subseteq got /\ \E p \in pass : f \in PieceFiles[p]}
           out == UNION {FileBlocks[f] : f \in done}
<1>1. /\ have' = left /\ Write(out, new, done)
      /\ saved' = [saved EXCEPT !.fresh = @ \ Touched(out \cap DOMAIN new)]
      /\ passed' = {p \in passed \cup pass : HasPiece(p, left)}
      /\ excused' = (excused \ pass) \cup (IF mode = "run" THEN {} ELSE PiecesOf(b))
  BY Zenon DEF GotBlock
<1>2. /\ DOMAIN new = DOMAIN cached \cup {b} /\ DOMAIN new \subseteq Blocks
      /\ new \in [DOMAIN new -> SUBSET Pieces]
  BY DEF TypeOK, PiecesOf
<1>3. \A c \in Blocks \ {b} : (IF c \in DOMAIN new THEN new[c] ELSE disk[c]) = Seen(c)
  BY DEF Seen
<1>4. whole \subseteq PiecesOf(b) /\ PiecesOf(b) \subseteq Pieces /\ done \subseteq Files
      /\ pass \subseteq whole /\ bad \subseteq whole /\ left \subseteq got
  BY DEF PiecesOf
<1>5. \A p \in whole : HasPiece(p, left) => p \notin bad /\ p \in pass
  <2> SUFFICES ASSUME NEW p \in whole, HasPiece(p, left) PROVE bad = {}
    OBVIOUS
  <2>1. SUFFICES ASSUME bad # {} PROVE FALSE
    OBVIOUS
  <2>2. PICK q \in bad : \A r \in bad : q <= r
    BY <1>4, <2>1, FirstPiece
  <2>3. q \in failed /\ b \in PieceBlocks[q] /\ b \in PieceBlocks[p]
    BY <2>2 DEF PiecesOf
  <2>4. b \notin left BY <2>3
  <2> QED BY <2>3, <2>4 DEF HasPiece
<1>6. \A p \in pass : p \notin bad
  <2>1. \A p \in Pieces : ~(p < p) BY ProgressAssumption DEF Pieces
  <2> QED BY <1>4, <2>1
<1> HIDE DEF left, done
<1>7. /\ disk' \in [Blocks -> SUBSET Pieces]
      /\ exists' = exists \cup Touched(out \cap DOMAIN new) /\ fresh' \subseteq Files
      /\ DOMAIN cached' = DOMAIN new \ out /\ cached' \in [DOMAIN cached' -> SUBSET Pieces]
      /\ \A c \in Blocks : Seen(c)' = IF c \in DOMAIN new THEN new[c] ELSE disk[c]
      /\ \A c \in Blocks \ (out \cap DOMAIN new) : disk'[c] = disk[c]
  <2>1. /\ Write(out, new, done) /\ done \in SUBSET Files
        /\ DOMAIN new \subseteq Blocks /\ new \in [DOMAIN new -> SUBSET Pieces]
    BY <1>1, <1>2, <1>4
  <2> HIDE DEF out, new
  <2> QED BY <2>1, WriteKeeps, Zenon
<1> DEFINE touched == Touched(out \cap DOMAIN new)
<1>8. touched \subseteq Files BY DEF Touched
<1>9. \A p \in Pieces : PieceBlocks[p] \subseteq Blocks BY ProgressAssumption
<1>10. \A p \in Pieces \ PiecesOf(b) : Good(p)' <=> Good(p)
  <2>1. \A c \in Blocks \ {b} : Seen(c)' = Seen(c) BY <1>3, <1>7
  <2> HIDE DEF new
  <2> QED BY <1>9, <2>1, Zenon DEF Good, PiecesOf
<1>11. \A p \in PiecesOf(b) : HasPiece(p, have') => Good(p)'
  <2> SUFFICES ASSUME NEW p \in PiecesOf(b), HasPiece(p, have') PROVE Good(p)'
    OBVIOUS
  <2>1. p \in whole BY <1>1, <1>4 DEF HasPiece
  <2>2. p \notin bad BY <1>1, <1>5, <2>1
  <2>3. SUFFICES ASSUME NEW c \in PieceBlocks[p] PROVE p \in Seen(c)'
    BY DEF Good
  <2>4. p \in (IF c \in DOMAIN new THEN new[c] ELSE disk[c]) BY <2>1, <2>2
  <2>5. Seen(c)' = IF c \in DOMAIN new THEN new[c] ELSE disk[c] BY <1>4, <1>7, <1>9
  <2> QED BY <2>4, <2>5
<1>12. saved' = [saved EXCEPT !.fresh = @ \ touched] /\ exists' = exists \cup touched
  BY <1>1, <1>7
<1>13. SavedMeansGood'
  <2> SUFFICES ASSUME NEW p \in Pieces, HasPiece(p, saved'.have), p \in saved'.checked,
                      PieceFiles[p] \subseteq exists' \cap saved'.fresh,
                      PieceBlocks[p] \cap DOMAIN cached' = {}
               PROVE  GoodOnDisk(p)' \/ p \in excused'
    BY DEF SavedMeansGood
  <2>1. /\ saved'.have = saved.have /\ saved'.checked = saved.checked
        /\ saved'.fresh = saved.fresh \ touched
    BY <1>12 DEF TypeOK
  <2>2. \A c \in PieceBlocks[p] : c \notin out \cap DOMAIN new
    <3> SUFFICES ASSUME NEW c \in PieceBlocks[p], c \in out \cap DOMAIN new PROVE FALSE
      OBVIOUS
    <3>1. PICK f \in PieceFiles[p] : c \in FileBlocks[f] BY ProgressAssumption
    <3>2. f \in Files BY ProgressAssumption
    <3> QED BY <2>1, <3>1, <3>2 DEF Touched
  <2>3. PieceBlocks[p] \cap DOMAIN new = {} BY <1>7, <2>2
  <2>4. p \notin PiecesOf(b) /\ PieceBlocks[p] \cap DOMAIN cached = {}
    BY <1>2, <2>3 DEF PiecesOf
  <2>5. PieceFiles[p] \subseteq exists \cap saved.fresh BY <1>12, <2>1
  <2>6. GoodOnDisk(p) \/ p \in excused
    BY <2>1, <2>4, <2>5 DEF SavedMeansGood
  <2>7. GoodOnDisk(p) => GoodOnDisk(p)'
    BY <1>7, <1>9, <2>2 DEF GoodOnDisk
  <2> QED BY <1>1, <1>4, <2>4, <2>6, <2>7
<1> HIDE DEF touched, out, new, pass
<1>14. /\ exists' \subseteq Files /\ DOMAIN cached' \subseteq DOMAIN cached \cup {b}
       /\ saved' \in [have : SUBSET Blocks, checked : SUBSET Pieces, fresh : SUBSET Files]
  BY <1>2, <1>7, <1>8, <1>12 DEF TypeOK
<1>15. pass \subseteq PiecesOf(b)
  BY <1>4
<1>16. /\ passed' \subseteq passed \cup PiecesOf(b) /\ excused' \subseteq excused \cup PiecesOf(b)
       /\ mode # "run" => PiecesOf(b) \subseteq excused'
       /\ excused \ PiecesOf(b) \subseteq excused'
  BY <1>1, <1>15
<1> QED
  BY <1>1, <1>2, <1>4, <1>7, <1>10, <1>11, <1>13, <1>14, <1>16 DEF TypeOK

-----------------------------------------------------------------------------
LEMMA InitSound == Init => IInv
<1> SUFFICES ASSUME Init PROVE IInv OBVIOUS
<1>1. N \in Nat BY ProgressAssumption
<1>2. TypeOK BY <1>1 DEF Init, TypeOK, Scanning
<1> QED
  BY <1>2 DEF Init, IInv, AskedIsMissing, HaveMeansGood, SavedMeansGood,
     LateIsExcused, ScanIsRight, PassedNow, Scanning

\* Where pieces read as they did, and no more is had, saved or excused less.
LEMMA KeptApart ==
  ASSUME IInv, UNCHANGED <<mode, progress, storage, saved, scan, history>>
  PROVE  HaveMeansGood' /\ SavedMeansGood' /\ LateIsExcused' /\ ScanIsRight' /\ PassedNow'
<1>1. \A p : (Good(p)' <=> Good(p)) /\ (GoodOnDisk(p)' <=> GoodOnDisk(p))
  BY DEF storage, Good, GoodOnDisk, Seen
<1> QED
  BY <1>1 DEF IInv, progress, storage, history, HaveMeansGood, SavedMeansGood, LateIsExcused,
     ScanIsRight, PassedNow

\* Requests come and go.
LEMMA AskingKeeps ==
  ASSUME IInv, \/ \E peer \in Peers, b \in Blocks : Ask(peer, b)
               \/ \E peer \in Peers : Drop(peer)
               \/ \E b \in Blocks : Fetch(b)
  PROVE  IInv'
<1>1. UNCHANGED <<mode, progress, storage, saved, scan, history>> BY DEF Ask, Drop, Fetch
<1>2. TypeOK' BY DEF IInv, TypeOK, Ask, Drop, Fetch, progress, storage, history
<1>3. AskedIsMissing' BY DEF IInv, AskedIsMissing, Ask, Drop, Fetch, progress
<1> QED BY <1>1, <1>2, <1>3, KeptApart DEF IInv

\* A block has come that was missing: from a peer, or late from a web seed.
LEMMA ReceivedKeeps ==
  ASSUME IInv, mode # "down", NEW b \in Blocks, b \notin have,
         NEW content \in SUBSET PiecesOf(b), GotBlock(b, content),
         asked' = {r \in asked : r[2] # b}, fetching' \subseteq fetching,
         UNCHANGED <<mode, checked, scan>>
  PROVE  IInv'
<1> DEFINE Kept ==
         /\ have' \subseteq have \cup {b} /\ fresh' \subseteq Files
         /\ disk' \in [Blocks -> SUBSET Pieces] /\ exists' \subseteq Files
         /\ DOMAIN cached' \subseteq DOMAIN cached \cup {b}
         /\ cached' \in [DOMAIN cached' -> SUBSET Pieces]
         /\ saved' \in [have : SUBSET Blocks, checked : SUBSET Pieces, fresh : SUBSET Files]
         /\ passed' \subseteq passed \cup PiecesOf(b) /\ excused' \subseteq excused \cup PiecesOf(b)
         /\ mode # "run" => PiecesOf(b) \subseteq excused'
         /\ excused \ PiecesOf(b) \subseteq excused'
         /\ \A p \in Pieces \ PiecesOf(b) : Good(p)' <=> Good(p)
         /\ \A p \in PiecesOf(b) : HasPiece(p, have') => Good(p)'
         /\ SavedMeansGood'
<1>1. Kept BY GotBlockKeeps DEF IInv
<1>2. PiecesOf(b) \subseteq Pieces BY DEF PiecesOf
<1>3. TypeOK' BY <1>1, <1>2 DEF IInv, TypeOK
<1>4. AskedIsMissing' BY <1>1 DEF IInv, AskedIsMissing
<1>5. \A p \in Pieces \ PiecesOf(b) :
        /\ HasPiece(p, have') => HasPiece(p, have)
        /\ PieceBlocks[p] \cap DOMAIN cached' \subseteq DOMAIN cached
  BY <1>1 DEF PiecesOf, HasPiece
<1>6. HaveMeansGood' BY <1>1, <1>2, <1>5 DEF IInv, HaveMeansGood
<1>7. LateIsExcused'
  <2> SUFFICES ASSUME mode \in {"stop", "verify"}, NEW p \in Pieces,
                      PieceBlocks[p] \cap DOMAIN cached' # {}
               PROVE  Good(p)' \/ p \in excused'
    BY DEF LateIsExcused
  <2>1. CASE p \in PiecesOf(b) BY <1>1, <2>1
  <2>2. CASE p \notin PiecesOf(b)
    <3>1. Good(p) \/ p \in excused BY <1>5, <2>2 DEF IInv, LateIsExcused
    <3> QED BY <1>1, <2>2, <3>1
  <2> QED BY <2>1, <2>2
<1>8. ScanIsRight'
  <2> SUFFICES ASSUME mode = "verify", scan.read
               PROVE  /\ scan.piece \in Pieces
                      /\ scan.ok => Good(scan.piece)' \/ scan.piece \in excused'
                      /\ ~scan.had /\ HasPiece(scan.piece, have') => scan.piece \in excused'
    BY DEF ScanIsRight, Good, Seen, HasPiece
  <2>1. scan.piece \in Pieces BY DEF IInv, ScanIsRight
  <2>2. CASE scan.piece \in PiecesOf(b) BY <1>1, <2>1, <2>2
  <2>3. CASE scan.piece \notin PiecesOf(b)
    BY <1>1, <1>5, <2>1, <2>3 DEF IInv, ScanIsRight
  <2> QED BY <2>2, <2>3
<1>9. PassedNow' BY DEF PassedNow
<1> QED BY <1>1, <1>3, <1>4, <1>6, <1>7, <1>8, <1>9 DEF IInv

LEMMA ReceiveKeeps == ASSUME IInv, NEW peer \in Peers, NEW b \in Blocks, Receive(peer, b) PROVE IInv'
<1>1. mode = "run" /\ b \notin have BY DEF Receive, IInv, TypeOK, AskedIsMissing
<1>2. PICK content \in SUBSET PiecesOf(b) : GotBlock(b, content) BY DEF Receive
<1>3. asked' = {r \in asked : r[2] # b} /\ UNCHANGED <<mode, checked, fetching, scan>>
  BY DEF Receive
<1> QED BY <1>1, <1>2, <1>3, ReceivedKeeps

LEMMA ReceiveWebKeeps == ASSUME IInv, NEW b \in Blocks, ReceiveWeb(b) PROVE IInv'
<1>1. mode # "down" /\ fetching' \subseteq fetching /\ UNCHANGED <<mode, scan>> BY DEF ReceiveWeb
<1>2. CASE b \in have
  <2>1. UNCHANGED <<progress, storage, saved, asked, history>> BY <1>2 DEF ReceiveWeb
  <2>2. TypeOK' BY <1>1, <2>1 DEF IInv, TypeOK, progress, storage, history
  <2>3. AskedIsMissing' BY <2>1 DEF IInv, AskedIsMissing, progress
  <2> QED BY <1>1, <2>1, <2>2, <2>3, KeptApart DEF IInv
<1>3. CASE b \notin have
  <2>1. PICK content \in SUBSET PiecesOf(b) : GotBlock(b, content) BY <1>3 DEF ReceiveWeb
  <2>2. asked' = {r \in asked : r[2] # b} /\ UNCHANGED checked BY <1>3 DEF ReceiveWeb
  <2> QED BY <1>1, <1>3, <2>1, <2>2, ReceivedKeeps
<1> QED BY <1>2, <1>3

-----------------------------------------------------------------------------
LEMMA FlushesKeep == ASSUME IInv, NEW b \in Blocks, Flush(b) PROVE IInv'
<1>1. /\ Write({b}, cached, {}) /\ mode # "down" /\ b \in DOMAIN cached
      /\ saved' = [saved EXCEPT !.fresh = @ \ Touched({b})]
      /\ UNCHANGED <<mode, have, checked, asked, fetching, scan, passed, excused>>
  BY DEF Flush, history
<1>2. /\ disk' \in [Blocks -> SUBSET Pieces]
      /\ exists' = exists \cup Touched({b}) /\ fresh' \subseteq Files
      /\ DOMAIN cached' = DOMAIN cached \ {b} /\ cached' \in [DOMAIN cached' -> SUBSET Pieces]
      /\ \A c \in Blocks \ {b} : disk'[c] = disk[c]
  <2>1. {b} \cap DOMAIN cached = {b} BY <1>1
  <2>2. /\ TypeOK /\ DOMAIN cached \subseteq Blocks
        /\ cached \in [DOMAIN cached -> SUBSET Pieces] /\ {} \in SUBSET Files
    BY DEF IInv, TypeOK
  <2> QED BY <1>1, <2>1, <2>2, WriteKeeps, Zenon
<1>3. \A p \in Pieces : Good(p)' <=> Good(p) BY <1>1, FlushKeeps DEF IInv
<1>4. TypeOK' BY <1>1, <1>2 DEF IInv, TypeOK, Touched
<1>5. SavedMeansGood'
  <2> SUFFICES ASSUME NEW p \in Pieces, HasPiece(p, saved'.have), p \in saved'.checked,
                      PieceFiles[p] \subseteq exists' \cap saved'.fresh,
                      PieceBlocks[p] \cap DOMAIN cached' = {}
               PROVE  GoodOnDisk(p)' \/ p \in excused'
    BY DEF SavedMeansGood
  <2>1. /\ saved'.have = saved.have /\ saved'.checked = saved.checked
        /\ saved'.fresh = saved.fresh \ Touched({b})
    BY <1>1 DEF IInv, TypeOK
  <2>2. b \notin PieceBlocks[p]
    <3> SUFFICES ASSUME b \in PieceBlocks[p] PROVE FALSE OBVIOUS
    <3>1. PICK f \in PieceFiles[p] : b \in FileBlocks[f] BY ProgressAssumption
    <3>2. f \in Files BY ProgressAssumption
    <3> QED BY <2>1, <3>1, <3>2 DEF Touched
  <2>3. PieceFiles[p] \subseteq exists \cap saved.fresh /\ PieceBlocks[p] \cap DOMAIN cached = {}
    BY <1>2, <2>1, <2>2
  <2>4. GoodOnDisk(p) \/ p \in excused BY <2>1, <2>3 DEF IInv, SavedMeansGood
  <2>5. GoodOnDisk(p) => GoodOnDisk(p)'
    BY <1>2, <2>2, ProgressAssumption DEF GoodOnDisk
  <2> QED BY <1>1, <2>4, <2>5
<1>6. AskedIsMissing' BY <1>1 DEF IInv, AskedIsMissing
<1>7. HaveMeansGood' BY <1>1, <1>3 DEF IInv, HaveMeansGood
<1>8. LateIsExcused' BY <1>1, <1>2, <1>3 DEF IInv, LateIsExcused
<1>9. ScanIsRight'
  <2>1. scan.piece \in Pieces => (Good(scan.piece)' <=> Good(scan.piece)) BY <1>1, <1>3
  <2> QED BY <1>1, <2>1 DEF IInv, ScanIsRight, Good, Seen
<1> QED BY <1>1, <1>4, <1>5, <1>6, <1>7, <1>8, <1>9 DEF IInv, PassedNow

LEMMA ServeKeeps == ASSUME IInv, NEW p \in Pieces, Serve(p) PROVE IInv'
<1>1. /\ mode = "run" /\ UNCHANGED <<mode, have, fresh, disk, cached, exists, saved, asked, fetching, scan>>
      /\ \/ /\ Good(p) /\ checked' = checked \cup {p}
            /\ passed' = passed \cup {p} /\ excused' = excused \ {p}
         \/ UNCHANGED <<checked, passed, excused>>
  BY DEF Serve, storage, history
<1>2. \A q : (Good(q)' <=> Good(q)) /\ (GoodOnDisk(q)' <=> GoodOnDisk(q))
  BY <1>1 DEF Good, GoodOnDisk, Seen
<1>3. TypeOK' BY <1>1 DEF IInv, TypeOK
<1>4. AskedIsMissing' BY <1>1 DEF IInv, AskedIsMissing
<1>5. HaveMeansGood' BY <1>1, <1>2 DEF IInv, HaveMeansGood
<1>6. SavedMeansGood' BY <1>1, <1>2, DiskDecides DEF IInv, SavedMeansGood
<1>7. LateIsExcused' /\ ScanIsRight' /\ PassedNow' BY <1>1 DEF LateIsExcused, ScanIsRight, PassedNow
<1> QED BY <1>3, <1>4, <1>5, <1>6, <1>7 DEF IInv

LEMMA SaveKeeps == ASSUME IInv, SaveTimer PROVE IInv'
<1>1. /\ mode # "down" /\ saved' = [have |-> have, checked |-> checked, fresh |-> fresh]
      /\ UNCHANGED <<mode, have, checked, fresh, disk, cached, exists, asked, fetching, scan, passed, excused>>
  BY DEF SaveTimer, Progress, progress, storage, history
<1>2. \A q : (Good(q)' <=> Good(q)) /\ (GoodOnDisk(q)' <=> GoodOnDisk(q))
  BY <1>1 DEF Good, GoodOnDisk, Seen
<1>3. TypeOK' BY <1>1 DEF IInv, TypeOK
<1>4. AskedIsMissing' BY <1>1 DEF IInv, AskedIsMissing
<1>5. SavedMeansGood' BY <1>1, <1>2, DiskDecides DEF IInv, SavedMeansGood, HaveMeansGood
<1>6. HaveMeansGood' /\ LateIsExcused' /\ ScanIsRight' /\ PassedNow'
  BY <1>1, <1>2 DEF IInv, HaveMeansGood, LateIsExcused, ScanIsRight, PassedNow
<1> QED BY <1>3, <1>4, <1>5, <1>6 DEF IInv

\* The cache is written out and the progress saved: what is known good in memory is
\* good on the disk.
LEMMA WrittenOut ==
  ASSUME IInv, mode # "down", Write(Blocks, cached, {}),
         saved' = [have |-> have, checked |-> checked, fresh |-> fresh'], excused' = excused
  PROVE  /\ disk' \in [Blocks -> SUBSET Pieces] /\ exists' \subseteq Files /\ fresh' \subseteq Files
         /\ DOMAIN cached' = {} /\ cached' \in [DOMAIN cached' -> SUBSET Pieces]
         /\ saved' \in [have : SUBSET Blocks, checked : SUBSET Pieces, fresh : SUBSET Files]
         /\ \A p \in Pieces : Good(p)' <=> Good(p)
         /\ SavedMeansGood'
<1>1. /\ disk' \in [Blocks -> SUBSET Pieces]
      /\ exists' = exists \cup Touched(Blocks \cap DOMAIN cached) /\ fresh' \subseteq Files
      /\ DOMAIN cached' = DOMAIN cached \ Blocks /\ cached' \in [DOMAIN cached' -> SUBSET Pieces]
  BY WriteKeeps DEF IInv, TypeOK
<1>2. DOMAIN cached' = {} /\ exists' \subseteq Files BY <1>1 DEF IInv, TypeOK, Touched
<1>3. \A p \in Pieces : Good(p)' <=> Good(p) BY FlushKeeps DEF IInv
<1>4. saved' = [have |-> have, checked |-> checked, fresh |-> fresh'] OBVIOUS
<1>5. \A p \in Pieces : Good(p)' => GoodOnDisk(p)'
  BY <1>2 DEF Good, GoodOnDisk, Seen
<1>6. SavedMeansGood'
  BY <1>3, <1>4, <1>5 DEF IInv, SavedMeansGood, HaveMeansGood
<1>7. saved' \in [have : SUBSET Blocks, checked : SUBSET Pieces, fresh : SUBSET Files]
  <2>1. have \in SUBSET Blocks /\ checked \in SUBSET Pieces /\ fresh' \in SUBSET Files
    BY <1>1 DEF IInv, TypeOK
  <2> QED BY <1>4, <2>1
<1> QED BY <1>1, <1>2, <1>3, <1>6, <1>7

LEMMA StopKeeps == ASSUME IInv, Stop PROVE IInv'
<1>1. /\ mode # "down" /\ asked' = {} /\ Write(Blocks, cached, {}) /\ scan' = Scanning(1)
      /\ saved' = [have |-> have, checked |-> checked, fresh |-> fresh'] /\ excused' = excused
  BY DEF Stop, Progress
<1>2. \/ mode' = "stop" /\ UNCHANGED <<have, checked, fetching, passed>>
      \/ mode' = "down" /\ have' = {} /\ checked' = {} /\ fetching' = {} /\ passed' = {}
  BY DEF Stop
<1>3. /\ disk' \in [Blocks -> SUBSET Pieces] /\ exists' \subseteq Files /\ fresh' \subseteq Files
      /\ DOMAIN cached' = {} /\ cached' \in [DOMAIN cached' -> SUBSET Pieces]
      /\ saved' \in [have : SUBSET Blocks, checked : SUBSET Pieces, fresh : SUBSET Files]
      /\ \A p \in Pieces : Good(p)' <=> Good(p)
      /\ SavedMeansGood'
  BY <1>1, WrittenOut
<1>4. N \in Nat BY ProgressAssumption
<1>5. TypeOK' BY <1>1, <1>2, <1>3, <1>4 DEF IInv, TypeOK, Scanning
<1>6. HaveMeansGood' BY <1>1, <1>2, <1>3 DEF IInv, HaveMeansGood
<1>7. AskedIsMissing' /\ LateIsExcused' /\ ScanIsRight' /\ PassedNow'
  BY <1>1, <1>2, <1>3 DEF AskedIsMissing, LateIsExcused, ScanIsRight, PassedNow
<1> QED BY <1>3, <1>5, <1>6, <1>7 DEF IInv

LEMMA StartKeeps == ASSUME IInv, Start PROVE IInv'
<1>1. /\ mode = "stop" /\ mode' = "run"
      /\ UNCHANGED <<have, checked, fresh, disk, cached, exists, saved, asked, fetching, scan, passed, excused>>
  BY DEF Start, progress, storage, history
<1>2. \A q : (Good(q)' <=> Good(q)) /\ (GoodOnDisk(q)' <=> GoodOnDisk(q))
  BY <1>1 DEF Good, GoodOnDisk, Seen
<1>3. TypeOK' BY <1>1 DEF IInv, TypeOK
<1>4. AskedIsMissing' /\ HaveMeansGood' /\ SavedMeansGood'
  BY <1>1, <1>2 DEF IInv, AskedIsMissing, HaveMeansGood, SavedMeansGood
<1>5. LateIsExcused' /\ ScanIsRight' /\ PassedNow' BY <1>1 DEF LateIsExcused, ScanIsRight, PassedNow
<1> QED BY <1>3, <1>4, <1>5 DEF IInv

LEMMA CrashKeeps == ASSUME IInv, Crash PROVE IInv'
<1>1. /\ mode # "down" /\ mode' = "down" /\ cached' = [b \in {} |-> {}]
      /\ have' = {} /\ checked' = {} /\ fresh' = {}
      /\ asked' = {} /\ fetching' = {} /\ scan' = Scanning(1) /\ passed' = {}
      /\ excused' = excused \cup {p \in Pieces : /\ HasPiece(p, saved.have)
                                              /\ PieceBlocks[p] \cap DOMAIN cached # {}}
      /\ UNCHANGED <<disk, exists, saved>>
  BY DEF Crash
<1>2. N \in Nat BY ProgressAssumption
<1>3. TypeOK' BY <1>1, <1>2 DEF IInv, TypeOK, Scanning
<1>4. \A p : GoodOnDisk(p)' <=> GoodOnDisk(p) BY <1>1 DEF GoodOnDisk
<1>5. SavedMeansGood' BY <1>1, <1>4 DEF IInv, SavedMeansGood
<1>6. AskedIsMissing' /\ HaveMeansGood' /\ LateIsExcused' /\ ScanIsRight' /\ PassedNow'
  BY <1>1 DEF AskedIsMissing, HaveMeansGood, LateIsExcused, ScanIsRight, PassedNow
<1> QED BY <1>3, <1>5, <1>6 DEF IInv

LEMMA TamperKeeps == ASSUME IInv, NEW f \in Files, Tamper(f) PROVE IInv'
<1>1. /\ mode = "down"
      /\ disk' = [b \in Blocks |-> IF b \in FileBlocks[f] THEN {p \in disk[b] : f \notin PieceFiles[p]}
                                  ELSE disk[b]]
      /\ saved' = [saved EXCEPT !.fresh = @ \ {f}]
      /\ UNCHANGED <<mode, have, checked, fresh, cached, exists, asked, fetching, scan, passed, excused>>
  BY DEF Tamper, progress, history
<1>2. TypeOK'
  <2>1. disk' \in [Blocks -> SUBSET Pieces] BY <1>1 DEF IInv, TypeOK
  <2> QED BY <1>1, <2>1 DEF IInv, TypeOK
<1>3. SavedMeansGood'
  <2> SUFFICES ASSUME NEW p \in Pieces, HasPiece(p, saved'.have), p \in saved'.checked,
                      PieceFiles[p] \subseteq exists' \cap saved'.fresh
               PROVE  GoodOnDisk(p)' \/ p \in excused'
    BY DEF SavedMeansGood
  <2>1. /\ saved'.have = saved.have /\ saved'.checked = saved.checked
        /\ saved'.fresh = saved.fresh \ {f}
    BY <1>1 DEF IInv, TypeOK
  <2>2. f \notin PieceFiles[p] /\ PieceFiles[p] \subseteq exists \cap saved.fresh BY <1>1, <2>1
  <2>3. GoodOnDisk(p) \/ p \in excused BY <1>1, <2>1, <2>2 DEF IInv, TypeOK, SavedMeansGood
  <2>4. GoodOnDisk(p) => GoodOnDisk(p)' BY <1>1, <2>2, ProgressAssumption DEF GoodOnDisk
  <2> QED BY <1>1, <2>3, <2>4
<1>4. AskedIsMissing' BY <1>1 DEF IInv, AskedIsMissing
<1>5. HaveMeansGood' /\ LateIsExcused' /\ ScanIsRight' BY <1>1 DEF HaveMeansGood, LateIsExcused, ScanIsRight
<1> QED BY <1>1, <1>2, <1>3, <1>4, <1>5 DEF IInv, PassedNow

LEMMA RestartKeeps == ASSUME IInv, Restart PROVE IInv'
<1>1. /\ mode = "down" /\ mode' \in {"run", "stop"}
      /\ have' = saved.have /\ fresh' = Files
      /\ checked' = {p \in saved.checked : PieceFiles[p] \subseteq exists \cap saved.fresh}
      /\ UNCHANGED <<disk, cached, exists, saved, asked, fetching, scan, passed, excused>>
  BY DEF Restart, storage, history
<1>2. asked = {} /\ DOMAIN cached = {} /\ passed = {} BY <1>1 DEF IInv, TypeOK, PassedNow
<1>3. \A p : (Good(p)' <=> GoodOnDisk(p)) /\ (GoodOnDisk(p)' <=> GoodOnDisk(p))
  BY <1>1, <1>2 DEF Good, GoodOnDisk, Seen
<1>4. TypeOK' BY <1>1, <1>2 DEF IInv, TypeOK
<1>5. HaveMeansGood'
  <2> SUFFICES ASSUME NEW p \in Pieces, HasPiece(p, saved.have), p \in checked'
               PROVE  GoodOnDisk(p) \/ p \in excused
    BY <1>1, <1>2, <1>3 DEF HaveMeansGood
  <2> QED BY <1>1, <1>2 DEF IInv, SavedMeansGood
<1>6. SavedMeansGood' BY <1>1, <1>3 DEF IInv, SavedMeansGood
<1>7. AskedIsMissing' /\ LateIsExcused' /\ ScanIsRight' /\ PassedNow'
  BY <1>1, <1>2 DEF AskedIsMissing, LateIsExcused, ScanIsRight, PassedNow
<1> QED BY <1>4, <1>5, <1>6, <1>7 DEF IInv

-----------------------------------------------------------------------------
LEMMA VerifyStartKeeps == ASSUME IInv, VerifyStart PROVE IInv'
<1>1. /\ mode \in {"run", "stop"} /\ mode' = "verify" /\ asked' = {} /\ scan' = Scanning(1)
      /\ UNCHANGED <<have, checked, fetching, passed, excused>>
  BY DEF VerifyStart, history
<1>2. N \in Nat BY ProgressAssumption
<1>3. AskedIsMissing' /\ ScanIsRight' /\ PassedNow'
  BY <1>1 DEF AskedIsMissing, ScanIsRight, Scanning, PassedNow
<1>4. CASE mode = "run"
  <2>1. /\ Write(Blocks, cached, {})
        /\ saved' = [have |-> have, checked |-> checked, fresh |-> fresh']
    BY <1>4 DEF VerifyStart, Progress
  <2>2. /\ disk' \in [Blocks -> SUBSET Pieces] /\ exists' \subseteq Files /\ fresh' \subseteq Files
        /\ DOMAIN cached' = {} /\ cached' \in [DOMAIN cached' -> SUBSET Pieces]
        /\ saved' \in [have : SUBSET Blocks, checked : SUBSET Pieces, fresh : SUBSET Files]
        /\ \A p \in Pieces : Good(p)' <=> Good(p)
        /\ SavedMeansGood'
    BY <1>1, <2>1, WrittenOut
  <2>3. TypeOK' BY <1>1, <1>2, <2>2 DEF IInv, TypeOK, Scanning
  <2>4. HaveMeansGood' /\ LateIsExcused'
    BY <1>1, <2>2 DEF IInv, HaveMeansGood, LateIsExcused
  <2> QED BY <1>3, <2>2, <2>3, <2>4 DEF IInv
<1>5. CASE mode = "stop"
  <2>1. UNCHANGED <<fresh, disk, cached, exists, saved>> BY <1>5 DEF VerifyStart, storage
  <2>2. \A q : (Good(q)' <=> Good(q)) /\ (GoodOnDisk(q)' <=> GoodOnDisk(q))
    BY <2>1 DEF Good, GoodOnDisk, Seen
  <2>3. TypeOK' BY <1>1, <1>2, <2>1 DEF IInv, TypeOK, Scanning
  <2>4. HaveMeansGood' /\ SavedMeansGood' /\ LateIsExcused'
    BY <1>1, <1>5, <2>1, <2>2 DEF IInv, HaveMeansGood, SavedMeansGood, LateIsExcused
  <2> QED BY <1>3, <2>3, <2>4 DEF IInv
<1> QED BY <1>1, <1>4, <1>5

LEMMA VerifyReadKeeps == ASSUME IInv, VerifyRead PROVE IInv'
<1> DEFINE p == scan.piece
           had == HasPiece(p, have)
           ok == GoodOnDisk(p)
<1>1. /\ mode = "verify" /\ p \in Pieces
      /\ scan' = [scan EXCEPT !.read = TRUE, !.had = had, !.ok = ok]
      /\ UNCHANGED <<mode, have, checked, fresh, disk, cached, exists, saved, asked, fetching, passed, excused>>
  BY DEF VerifyRead, progress, storage, history
<1>2. had \in BOOLEAN /\ ok \in BOOLEAN BY DEF HasPiece, GoodOnDisk
<1>3. \A q : (Good(q)' <=> Good(q)) /\ (GoodOnDisk(q)' <=> GoodOnDisk(q))
  BY <1>1 DEF Good, GoodOnDisk, Seen
<1>4. ok => Good(p) \/ p \in excused
  BY <1>1, DiskDecides DEF IInv, LateIsExcused
<1>5. ~had <=> ~HasPiece(p, have') BY <1>1 DEF HasPiece
<1> HIDE DEF had, ok
<1>7. /\ scan'.piece = p /\ scan'.read /\ scan'.had = had /\ scan'.ok = ok
      /\ scan' \in [piece : 1 .. N + 1, read : BOOLEAN, had : BOOLEAN, ok : BOOLEAN]
  BY <1>1, <1>2 DEF IInv, TypeOK
<1>8. TypeOK' BY <1>1, <1>7 DEF IInv, TypeOK
<1>9. ScanIsRight'
  <2>1. Good(p) => Good(scan.piece)' BY <1>1, <1>7 DEF Good, Seen
  <2> QED BY <1>1, <1>4, <1>5, <1>7, <2>1 DEF ScanIsRight
<1>10. AskedIsMissing' BY <1>1 DEF IInv, AskedIsMissing
<1>11. HaveMeansGood' /\ SavedMeansGood' /\ LateIsExcused' /\ PassedNow'
  BY <1>1, <1>3 DEF IInv, HaveMeansGood, SavedMeansGood, LateIsExcused, PassedNow
<1> QED BY <1>8, <1>9, <1>10, <1>11 DEF IInv

LEMMA VerifySetKeeps == ASSUME IInv, VerifySet PROVE IInv'
<1> DEFINE p == scan.piece
           kept == IF scan.ok THEN have \cup PieceBlocks[p]
                   ELSE IF scan.had THEN have \ PieceBlocks[p] ELSE have
<1>1. /\ mode = "verify" /\ scan.read
      /\ have' = kept /\ checked' = checked \cup {p} /\ scan' = Scanning(p + 1)
      /\ passed' = {q \in passed \cup (IF scan.ok THEN {p} ELSE {}) : HasPiece(q, kept)}
      /\ excused' = (IF Good(p) /\ PieceBlocks[p] \cap DOMAIN cached = {} THEN excused \ {p} ELSE excused)
                    \cup {q \in Pieces \ {p} : HasPiece(q, kept) /\ ~HasPiece(q, have)}
      /\ UNCHANGED <<mode, fresh, disk, cached, exists, saved, asked, fetching>>
  BY DEF VerifySet, storage
<1>p. p \in Pieces BY <1>1 DEF IInv, ScanIsRight
<1>2. /\ scan.ok => Good(p) \/ p \in excused
      /\ ~scan.had /\ HasPiece(p, have) => p \in excused
  BY <1>1 DEF IInv, ScanIsRight
<1>3. \A q : (Good(q)' <=> Good(q)) /\ (GoodOnDisk(q)' <=> GoodOnDisk(q))
  BY <1>1 DEF Good, GoodOnDisk, Seen
<1>4. p + 1 \in 1 .. N + 1
  <2>1. N \in Nat /\ p \in 1 .. N BY <1>p, ProgressAssumption DEF Pieces
  <2> HIDE DEF p
  <2> QED BY <2>1
<1>5. asked = {} BY <1>1 DEF IInv, TypeOK
<1>6. TypeOK'
  <2>1. kept \subseteq Blocks
    <3>1. PieceBlocks[p] \subseteq Blocks /\ have \subseteq Blocks
      BY <1>p, ProgressAssumption DEF IInv, TypeOK
    <3> QED BY <3>1, Zenon
  <2>2. passed' \subseteq Pieces /\ excused' \subseteq Pieces /\ checked' \subseteq Pieces
    <3>1. passed \subseteq Pieces /\ excused \subseteq Pieces /\ checked \subseteq Pieces
      BY DEF IInv, TypeOK
    <3> HIDE DEF p, kept
    <3> QED BY <1>1, <1>p, <3>1, Zenon
  <2>3. scan' \in [piece : 1 .. N + 1, read : BOOLEAN, had : BOOLEAN, ok : BOOLEAN]
    BY <1>1, <1>4 DEF Scanning
  <2> QED BY <1>1, <2>1, <2>2, <2>3 DEF IInv, TypeOK
<1>7. HaveMeansGood'
  <2> SUFFICES ASSUME NEW q \in Pieces, HasPiece(q, kept), q \in checked' \cup passed'
               PROVE  Good(q) \/ q \in excused'
    BY <1>1, <1>3 DEF HaveMeansGood
  <2>1. CASE q = p
    <3>1. CASE scan.ok BY <1>1, <1>2, <2>1, <3>1
    <3>2. CASE ~scan.ok /\ scan.had
      <4>1. PieceBlocks[p] = {} BY <2>1, <3>2 DEF HasPiece
      <4> QED BY <2>1, <4>1 DEF Good
    <3>3. CASE ~scan.ok /\ ~scan.had
      <4>1. p \in excused BY <1>2, <2>1, <3>3 DEF HasPiece
      <4> QED BY <1>1, <2>1, <4>1
    <3> QED BY <3>1, <3>2, <3>3
  <2>2. CASE q # p
    <3>1. q \in checked \cup passed BY <1>1, <2>2
    <3>2. CASE HasPiece(q, have)
      <4>1. Good(q) \/ q \in excused BY <1>1, <3>1, <3>2 DEF IInv, HaveMeansGood
      <4> QED BY <1>1, <2>2, <4>1
    <3>3. CASE ~HasPiece(q, have) BY <1>1, <2>2, <3>3
    <3> QED BY <3>2, <3>3
  <2> QED BY <2>1, <2>2
<1>8. SavedMeansGood'
  <2> SUFFICES ASSUME NEW q \in Pieces, GoodOnDisk(q) \/ q \in excused,
                      PieceBlocks[q] \cap DOMAIN cached = {}
               PROVE  GoodOnDisk(q) \/ q \in excused'
    BY <1>1, <1>3 DEF IInv, SavedMeansGood
  <2> QED BY <1>1, DiskDecides
<1>9. LateIsExcused' BY <1>1, <1>3 DEF IInv, LateIsExcused
<1>10. AskedIsMissing' /\ ScanIsRight' /\ PassedNow'
  BY <1>1, <1>5 DEF AskedIsMissing, ScanIsRight, Scanning, PassedNow
<1> QED BY <1>6, <1>7, <1>8, <1>9, <1>10 DEF IInv

LEMMA VerifyDoneKeeps == ASSUME IInv, VerifyDone PROVE IInv'
<1>1. /\ mode = "verify" /\ mode' \in {"run", "stop"} /\ scan' = Scanning(1)
      /\ UNCHANGED <<have, checked, fresh, disk, cached, exists, saved, asked, fetching, passed, excused>>
  BY DEF VerifyDone, progress, storage, history
<1>2. \A q : (Good(q)' <=> Good(q)) /\ (GoodOnDisk(q)' <=> GoodOnDisk(q))
  BY <1>1 DEF Good, GoodOnDisk, Seen
<1>3. N \in Nat BY ProgressAssumption
<1>4. TypeOK' BY <1>1, <1>3 DEF IInv, TypeOK, Scanning
<1>5. AskedIsMissing' /\ HaveMeansGood' /\ SavedMeansGood' /\ LateIsExcused'
  BY <1>1, <1>2 DEF IInv, AskedIsMissing, HaveMeansGood, SavedMeansGood, LateIsExcused
<1>6. ScanIsRight' /\ PassedNow' BY <1>1 DEF ScanIsRight, PassedNow
<1> QED BY <1>4, <1>5, <1>6 DEF IInv

LEMMA NextSound == IInv /\ [Next]_vars => IInv'
<1> SUFFICES ASSUME IInv, [Next]_vars PROVE IInv' OBVIOUS
<1>1. CASE UNCHANGED vars
  <2>1. UNCHANGED <<mode, progress, storage, saved, scan, history>> /\ UNCHANGED <<asked, fetching>>
    BY <1>1 DEF vars
  <2>2. TypeOK' /\ AskedIsMissing'
    BY <2>1 DEF IInv, TypeOK, AskedIsMissing, progress, storage, history
  <2> QED BY <2>1, <2>2, KeptApart DEF IInv
<1>2. CASE Next
  <2>1. ASSUME NEW b \in Blocks, Flush(b) \/ Fetch(b) \/ ReceiveWeb(b) PROVE IInv'
    BY <2>1, FlushesKeep, AskingKeeps, ReceiveWebKeeps
  <2>2. ASSUME NEW peer \in Peers, Drop(peer) \/ \E b \in Blocks : Ask(peer, b) \/ Receive(peer, b)
        PROVE  IInv'
    BY <2>2, AskingKeeps, ReceiveKeeps
  <2>3. ASSUME NEW p \in Pieces, Serve(p) PROVE IInv' BY <2>3, ServeKeeps
  <2>4. ASSUME NEW f \in Files, Tamper(f) PROVE IInv' BY <2>4, TamperKeeps
  <2>5. CASE SaveTimer \/ Stop \/ Start \/ Crash \/ Restart
    BY <2>5, SaveKeeps, StopKeeps, StartKeeps, CrashKeeps, RestartKeeps
  <2>6. CASE VerifyStart \/ VerifyRead \/ VerifySet \/ VerifyDone
    BY <2>6, VerifyStartKeeps, VerifyReadKeeps, VerifySetKeeps, VerifyDoneKeeps
  <2> QED BY <1>2, <2>1, <2>2, <2>3, <2>4, <2>5, <2>6 DEF Next
<1> QED BY <1>1, <1>2

LEMMA Sound == Spec => []IInv
<1> QED BY InitSound, NextSound, PTL DEF Spec

-----------------------------------------------------------------------------
\* The types; a torrent that does not run asks for nothing, and one that is down has
\* nothing in the cache (torrentStop and tr_sessionClose).
THEOREM ProgressTypeCorrect == Spec => []TypeOK
<1>1. IInv => TypeOK BY DEF IInv
<1> QED BY <1>1, Sound, PTL

\* cancelAllRequestsForBlock() and the early returns of those who ask are enough: in
\* no layout, with no number of peers, is a block that we have asked for.
THEOREM NothingHadIsAsked == Spec => []AskedIsMissing
<1>1. IInv => AskedIsMissing BY DEF IInv
<1> QED BY <1>1, Sound, PTL

\* A piece that passed a check and is still had reads as it did, but for the three
\* known ways: the resume file, the late answers and the scan are right as well.
THEOREM HadAndCheckedIsGood == Spec => []HaveMeansGood
<1>1. IInv => HaveMeansGood BY DEF IInv
<1> QED BY <1>1, Sound, PTL
=============================================================================
