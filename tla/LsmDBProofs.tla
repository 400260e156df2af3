---------------------------- MODULE LsmDBProofs ----------------------------
(***************************************************************************)
(* Proofs about LsmDB, for every value of its constants: every variable    *)
(* keeps its type, no frame follows a torn one in a WAL, the constructor   *)
(* accepts what the engine leaves behind, and no acknowledged write is     *)
(* lost.  The last holds where directory changes become durable in order   *)
(* (Journaled) and the client does not compact a database whose flush has  *)
(* failed (~CompactWhenFailed).                                            *)
(*                                                                         *)
(* CrashSafe speaks of the MANIFESTs that a start may find.  It is not     *)
(* inductive: a compaction publishes the process's own MANIFEST, so that   *)
(* one must be safe as well whenever it may be published, and a flush      *)
(* publishes it with the memtable in a table, so that it must be safe with *)
(* the memtable on top, even after a failure.                              *)
(***************************************************************************)
EXTENDS LsmDB, Induction, TLAPS

-----------------------------------------------------------------------------
(***************************************************************************)
(* Key ranges.                                                             *)
(***************************************************************************)

\* The range of a non-empty set of records holds its keys, and its ends are keys.
LEMMA KeyRange ==
    ASSUME NEW recs \in SUBSET Record, recs # {}
    PROVE  /\ minKey(recs) \in Nat /\ maxKey(recs) \in Nat
           /\ \E r \in recs : r.key = minKey(recs)
           /\ \E r \in recs : r.key = maxKey(recs)
           /\ \A r \in recs : r.key \in Nat /\ minKey(recs) <= r.key /\ r.key <= maxKey(recs)
<1>. DEFINE S == KeysOf(recs)
<1>1. S \subseteq Keys /\ S # {}
      BY DEF KeysOf, Record
<1>2. S \in SUBSET Nat /\ IsFiniteSet(S)
      BY <1>1, KeysAssumption, FiniteKeysAssumption, FS_Subset
<1>3. \A r \in recs : r.key \in S
      BY DEF KeysOf
<1>4. \A k \in S : \E r \in recs : r.key = k
      BY DEF KeysOf
<1>. HIDE DEF S
<1>5. /\ Min(S) \in S /\ \A y \in S : Min(S) <= y
      /\ Max(S) \in S /\ \A y \in S : y <= Max(S)
      BY <1>1, <1>2, MinNat, MaxFinite
<1>6. minKey(recs) = Min(S) /\ maxKey(recs) = Max(S)
      BY DEF minKey, maxKey, S
<1>. QED
      BY <1>2, <1>3, <1>4, <1>5, <1>6

\* Every key of the one set is below every key of the other.
Apart(A, B) ==
    \/ \A a \in A, b \in B : a.key < b.key
    \/ \A a \in A, b \in B : b.key < a.key

\* Ranges that do not overlap are apart.
LEMMA RangesApart ==
    ASSUME NEW A \in SUBSET Record, A # {}, NEW B \in SUBSET Record, B # {}
    PROVE  ~rangesOverlap(A, minKey(B), maxKey(B)) <=> Apart(A, B)
<1>1. /\ minKey(A) \in Nat /\ maxKey(A) \in Nat
      /\ \E r \in A : r.key = minKey(A)
      /\ \E r \in A : r.key = maxKey(A)
      /\ \A r \in A : r.key \in Nat /\ minKey(A) <= r.key /\ r.key <= maxKey(A)
      BY KeyRange
<1>2. /\ minKey(B) \in Nat /\ maxKey(B) \in Nat
      /\ \E r \in B : r.key = minKey(B)
      /\ \E r \in B : r.key = maxKey(B)
      /\ \A r \in B : r.key \in Nat /\ minKey(B) <= r.key /\ r.key <= maxKey(B)
      BY KeyRange
<1>3. ASSUME ~rangesOverlap(A, minKey(B), maxKey(B)) PROVE Apart(A, B)
  <2>1. maxKey(A) < minKey(B) \/ maxKey(B) < minKey(A)
        BY <1>1, <1>2, <1>3 DEF rangesOverlap
  <2>. QED BY <1>1, <1>2, <2>1 DEF Apart
<1>4. ASSUME Apart(A, B) PROVE ~rangesOverlap(A, minKey(B), maxKey(B))
  <2>1. CASE \A a \in A, b \in B : a.key < b.key
    <3>1. maxKey(A) < minKey(B)
          BY <1>1, <1>2, <2>1
    <3>. QED BY <1>1, <1>2, <3>1 DEF rangesOverlap
  <2>2. CASE \A a \in A, b \in B : b.key < a.key
    <3>1. maxKey(B) < minKey(A)
          BY <1>1, <1>2, <2>2
    <3>. QED BY <1>1, <1>2, <3>1 DEF rangesOverlap
  <2>. QED BY <1>4, <2>1, <2>2 DEF Apart
<1>. QED
      BY <1>3, <1>4

\* A set that is apart from A and from what overlaps A is on the same side of both.
LEMMA SameSide ==
    ASSUME NEW A \in SUBSET Record, A # {}, NEW P \in SUBSET Record, P # {},
           NEW Q \in SUBSET Record, Q # {},
           Apart(P, A), Apart(P, Q), ~Apart(Q, A)
    PROVE  \/ (\A p \in P, a \in A : p.key < a.key) /\ (\A p \in P, q \in Q : p.key < q.key)
           \/ (\A p \in P, a \in A : a.key < p.key) /\ (\A p \in P, q \in Q : q.key < p.key)
<1>1. \A r \in A \cup P \cup Q : r.key \in Nat
      BY KeysAssumption DEF Record
<1>2. PICK p \in P : TRUE
      OBVIOUS
<1>3. CASE (\A x \in P, a \in A : x.key < a.key) /\ (\A x \in P, q \in Q : q.key < x.key)
  <2>1. \A q \in Q, a \in A : q.key < a.key
        BY <1>1, <1>2, <1>3
  <2>. QED BY <2>1 DEF Apart
<1>4. CASE (\A x \in P, a \in A : a.key < x.key) /\ (\A x \in P, q \in Q : x.key < q.key)
  <2>1. \A q \in Q, a \in A : a.key < q.key
        BY <1>1, <1>2, <1>4
  <2>. QED BY <2>1 DEF Apart
<1>. QED
      BY <1>3, <1>4 DEF Apart

-----------------------------------------------------------------------------
(***************************************************************************)
(* Lookups.                                                                *)
(***************************************************************************)

\* The answer for a key without a version is none of the records.
LEMMA AbsentIsNoRecord == Absent \notin Record
<1>1. Absent.seq = -1
      BY DEF Absent
<1>2. \A r \in Record : r.seq \in 1..MaxSeq
      BY DEF Record
<1>. QED
      BY <1>1, <1>2, SeqAssumption

\* The newest of some records is one of them, and none is newer.
LEMMA NewestIs ==
    ASSUME NEW recs \in SUBSET Record, recs # {}
    PROVE  Newest(recs) \in recs /\ \A q \in recs : q.seq <= Newest(recs).seq
<1>. DEFINE S == SeqsOf(recs)
<1>1. S \in SUBSET (0..MaxSeq) /\ S # {}
      BY SeqAssumption DEF SeqsOf, Record
<1>2. PICK top \in S : \A s \in S : top >= s
  <2>. HIDE DEF S
  <2>. QED BY <1>1, BoundedHasMax, SeqAssumption
<1>3. PICK r \in recs : r.seq = top
      BY DEF SeqsOf
<1>4. \A q \in recs : q.seq \in S
      BY DEF SeqsOf
<1>5. \A q \in recs : q.seq <= r.seq
  <2>. HIDE DEF S
  <2>. QED BY <1>1, <1>2, <1>3, <1>4
<1>. QED
      BY <1>5 DEF Newest

\* A lookup finds a version exactly when there is a visible one, the newest.
LEMMA SourceGetIs ==
    ASSUME NEW recs \in SUBSET Record, NEW k, NEW s
    PROVE  /\ SourceGet(recs, k, s) = Absent <=> Visible(recs, k, s) = {}
           /\ Visible(recs, k, s) # {} =>
                  /\ SourceGet(recs, k, s) \in Visible(recs, k, s)
                  /\ \A q \in Visible(recs, k, s) : q.seq <= SourceGet(recs, k, s).seq
<1>1. Visible(recs, k, s) \in SUBSET Record
      BY DEF Visible
<1>2. CASE Visible(recs, k, s) = {}
      BY <1>2 DEF SourceGet, Newest
<1>3. CASE Visible(recs, k, s) # {}
      BY <1>1, <1>3, NewestIs, AbsentIsNoRecord DEF SourceGet
<1>. QED
      BY <1>2, <1>3

\* Records with different sequence numbers.
Distinct(recs) == \A x, y \in recs : x.seq = y.seq => x = y

\* Where records have different numbers, the newest visible one is the answer.
LEMMA SourceGetUnique ==
    ASSUME NEW recs \in SUBSET Record, Distinct(recs), NEW k, NEW s,
           NEW r \in Visible(recs, k, s), \A q \in Visible(recs, k, s) : q.seq <= r.seq
    PROVE  SourceGet(recs, k, s) = r
<1>1. /\ SourceGet(recs, k, s) \in Visible(recs, k, s)
      /\ r.seq <= SourceGet(recs, k, s).seq
      BY SourceGetIs
<1>2. SourceGet(recs, k, s).seq <= r.seq
      BY <1>1
<1>3. SourceGet(recs, k, s).seq \in Int /\ r.seq \in Int
      BY <1>1 DEF Visible, Record
<1>4. SourceGet(recs, k, s).seq = r.seq
      BY <1>1, <1>2, <1>3
<1>. QED
      BY <1>1, <1>4 DEF Distinct, Visible

USE SeqAssumption, BatchAssumption, NumberAssumption, LevelAssumption

-----------------------------------------------------------------------------
(***************************************************************************)
(* Types of the operators that the actions are built from.                 *)
(***************************************************************************)

\* What a MANIFEST's tables hold are records.
LEMMA StoredType ==
    ASSUME NEW files \in [Numbers -> SUBSET Record], NEW m \in Manifest
    PROVE  Stored(files, m) \subseteq Record
<1>1. allTableNumbers(m) \subseteq Numbers
      BY DEF allTableNumbers, Manifest
<1>. QED
      BY <1>1 DEF Stored, Contents

\* What a reader finds in a WAL file are records.
LEMMA ReadableType ==
    ASSUME NEW w \in WalFile
    PROVE  Readable(w) \subseteq Record /\ UNION w.tail \subseteq Record
BY DEF Readable, WalFile

\* A fresh WAL file is one.
LEMMA WalWithType ==
    /\ NoWal \in WalFile
    /\ \A st \in {"none", "bare", "loose", "ready", "corrupt"} : WalWith(st) \in WalFile
BY DEF NoWal, WalWith, WalFile

LEMMA NewWalLeftoversType == NewWalLeftovers \subseteq WalFile
BY WalWithType DEF NewWalLeftovers

LEMMA NoManifestType == NoManifest \in Manifest
BY DEF NoManifest, Manifest, Numbers

\* The sequence number that recovery starts from is within its bounds, and
\* above the MANIFEST's and every recovered one.
LEMMA FirstSeqBounds ==
    ASSUME NEW m \in Manifest, NEW recs \in SUBSET Record
    PROVE  /\ firstSeq(m, recs) \in 1..(MaxSeq + 1)
           /\ m.lastSeq < firstSeq(m, recs)
           /\ \A r \in recs : r.seq < firstSeq(m, recs)
<1>. DEFINE S == {m.lastSeq} \cup SeqsOf(recs)
<1>1. S \in SUBSET (0..MaxSeq) /\ S # {}
      BY DEF SeqsOf, Record, Manifest
<1>2. Max(S) \in S /\ \A y \in S : y <= Max(S)
  <2>. HIDE DEF S
  <2>. QED BY <1>1, MaxBounded
<1>3. m.lastSeq \in S /\ \A r \in recs : r.seq \in S
      BY DEF SeqsOf
<1>. HIDE DEF S
<1>4. firstSeq(m, recs) = Max(S) + 1
      BY DEF firstSeq, S
<1>5. Max(S) \in 0..MaxSeq
      BY <1>1, <1>2
<1>6. \A y \in S : y \in Int /\ y < Max(S) + 1
      BY <1>1, <1>2, <1>5
<1>. QED
      BY <1>3, <1>4, <1>5, <1>6

\* The records of a batch are records.
LEMMA BatchType ==
    ASSUME NEW n \in Nat, NEW b \in [1..n -> Op],
           nextSeq \in 1..(MaxSeq + 1), nextSeq + n <= MaxSeq + 1
    PROVE  BatchRecords(b, n) \subseteq Record
BY DEF BatchRecords, Op, Record

\* Appending leaves a WAL file, whether it succeeds or not.
LEMMA AppendType ==
    ASSUME NEW w \in WalFile, NEW frame \in SUBSET Record
    PROVE  AppendSynced(w, frame) \in WalFile /\ AppendFailures(w, frame) \subseteq WalFile
<1>1. Readable(w) \cup frame \in SUBSET Record
      BY ReadableType
<1>2. (IF w.torn THEN "corrupt" ELSE IF Journaled THEN "ready" ELSE w.st)
        \in {"none", "bare", "loose", "ready", "corrupt"}
      BY DEF WalFile
<1>3. AppendSynced(w, frame) \in WalFile
      BY <1>1, <1>2 DEF AppendSynced, WalFile
<1>4. [w EXCEPT !.torn = TRUE] \in WalFile
      BY DEF WalFile
<1>5. w.tail \cup {frame} \in SUBSET SUBSET Record
      BY DEF WalFile
<1>6. [w EXCEPT !.tail = @ \cup {frame}] \in WalFile
      BY <1>5 DEF WalFile
<1>. QED
      BY <1>3, <1>4, <1>6 DEF AppendFailures

\* A power loss leaves WAL files.
LEMMA SurvivorsType ==
    ASSUME NEW w \in WalFile
    PROVE  Survivors(w) \subseteq WalFile
<1>1. \A t \in Prefixes(w.tail), b \in BOOLEAN : CutBack(w, t, b) \in WalFile
      BY DEF CutBack, Prefixes, WalFile
<1>. QED
      BY <1>1, WalWithType DEF Survivors

-----------------------------------------------------------------------------
(***************************************************************************)
(* Type correctness, action by action.                                     *)
(***************************************************************************)

LEMMA TypeInit == Init => TypeOK
<1>. SUFFICES ASSUME Init PROVE TypeOK
      OBVIOUS
<1>1. sst \in [Numbers -> SUBSET Record] /\ wal \in [Numbers -> WalFile]
      BY WalWithType DEF Init
<1>2. poisoned \in BOOLEAN /\ writeFailed \in BOOLEAN
      BY Zenon DEF Init
<1>3. walNo \in Numbers /\ nextSeq \in 1..(MaxSeq + 1) /\ snap \in [Handles -> {NoSnap} \cup (0..MaxSeq)]
      BY DEF Init, Numbers, NoSnap
<1>. QED
      BY <1>1, <1>2, <1>3, NoManifestType DEF Init, TypeOK, Phases

LEMMA TypeProcessGone ==
    ASSUME TypeOK, ProcessGone
    PROVE  /\ pc' \in Phases /\ mem' \subseteq Record /\ walNo' \in Numbers
           /\ poisoned' \in BOOLEAN /\ writeFailed' \in BOOLEAN
           /\ nextSeq' \in 1..(MaxSeq + 1) /\ man' \in Manifest
           /\ snap' \in [Handles -> {NoSnap} \cup (0..MaxSeq)]
<1>1. poisoned' \in BOOLEAN /\ writeFailed' \in BOOLEAN
      BY Zenon DEF ProcessGone
<1>2. walNo' \in Numbers /\ nextSeq' \in 1..(MaxSeq + 1) /\ snap' \in [Handles -> {NoSnap} \cup (0..MaxSeq)]
      BY DEF ProcessGone, Numbers, NoSnap
<1>. QED
      BY <1>1, <1>2, NoManifestType DEF ProcessGone, Phases

LEMMA TypeOpen ==
    ASSUME TypeOK,
           Open \/ OpenRefused \/ OpenTruncateFails \/ OpenNewWalFails \/ OpenUnlinkFails
    PROVE  TypeOK'
<1>. USE DEF TypeOK
<1>1. disk \in Manifest /\ disk.log \in Numbers
      BY DEF Manifest
<1>2. hist \cup Stored(sst, disk) \subseteq Record
      BY StoredType
<1>3. cleanupUntrackedSSTables(disk) \in [Numbers -> SUBSET Record]
      BY DEF cleanupUntrackedSSTables
<1>4. cleanupOldWALFiles(disk.log) \in [Numbers -> WalFile]
      BY WalWithType DEF cleanupOldWALFiles
<1>5. CASE Open
  <2>. DEFINE wals == cleanupOldWALFiles(disk.log)
              live == IF wals[disk.log].st = "none" THEN WalWith("ready")
                                                    ELSE wals[disk.log]
  <2>1. live \in WalFile
        BY <1>1, <1>4, WalWithType
  <2>2. OpenCleanup /\ Restore(disk, wals, live)
        BY <1>5 DEF Open
  <2>. HIDE DEF wals, live
  <2>3. Readable(live) \in SUBSET Record
        BY <2>1, ReadableType
  <2>4. nextSeq' \in 1..(MaxSeq + 1)
        BY <1>1, <2>2, <2>3, FirstSeqBounds DEF Restore
  <2>5. [live EXCEPT !.torn = FALSE] \in WalFile
        BY <2>1 DEF WalFile
  <2>6. wal' \in [Numbers -> WalFile]
        BY <1>4, <2>2, <2>5 DEF Restore, wals
  <2>. QED
        BY <1>1, <1>2, <1>3, <2>2, <2>3, <2>4, <2>6 DEF Restore, OpenCleanup, Phases
<1>6. CASE OpenRefused \/ OpenTruncateFails
      BY <1>2, <1>3, <1>4, <1>6 DEF OpenRefused, OpenTruncateFails, OpenCleanup, Phases
<1>7. CASE OpenNewWalFails
  <2>1. wal' \in [Numbers -> WalFile]
        BY <1>4, <1>7, NewWalLeftoversType DEF OpenNewWalFails
  <2>. QED
        BY <1>2, <1>3, <1>7, <2>1 DEF OpenNewWalFails, OpenCleanup, Phases
<1>8. CASE OpenUnlinkFails
  <2>1. sst' \in [Numbers -> SUBSET Record] /\ wal' \in [Numbers -> WalFile]
        BY <1>3, <1>8, WalWithType DEF OpenUnlinkFails
  <2>. QED
        BY <1>2, <1>8, <2>1 DEF OpenUnlinkFails, Phases
<1>. QED
      BY <1>5, <1>6, <1>7, <1>8

LEMMA TypeCrash ==
    ASSUME TypeOK, Kill \/ PowerLoss
    PROVE  TypeOK'
<1>. USE DEF TypeOK
<1>1. CASE Kill
      BY <1>1, TypeProcessGone DEF Kill, diskVars
<1>2. CASE PowerLoss
  <2>1. disk' \in Manifest /\ disk'.log \in Numbers
        BY <1>2 DEF PowerLoss, Manifest
  <2>2. wal' \in [Numbers -> WalFile]
        BY <1>2, <2>1, SurvivorsType DEF PowerLoss
  <2>. QED
        BY <1>2, <2>1, <2>2, TypeProcessGone DEF PowerLoss
<1>. QED
      BY <1>1, <1>2

LEMMA TypeWrite ==
    ASSUME TypeOK, AnyWrite
    PROVE  TypeOK'
<1>. USE DEF TypeOK
<1>1. ASSUME NEW n \in 1..MaxBatch, NEW b \in [1..n -> Op], Write(b, n)
      PROVE  TypeOK'
  <2>1. BatchRecords(b, n) \subseteq Record
        BY <1>1, BatchType DEF Write, Writing
  <2>2. Readable(wal[walNo]) \subseteq Record
        BY ReadableType
  <2>3. AppendSynced(wal[walNo], BatchRecords(b, n)) \in WalFile
        BY <2>1, AppendType
  <2>4. nextSeq' \in 1..(MaxSeq + 1)
        BY <1>1 DEF Write, Writing
  <2>. QED
        BY <1>1, <2>1, <2>2, <2>3, <2>4 DEF Write, Writing, Phases
<1>2. ASSUME NEW n \in 1..MaxBatch, NEW b \in [1..n -> Op], WriteFails(b, n)
      PROVE  TypeOK'
  <2>1. BatchRecords(b, n) \subseteq Record
        BY <1>2, BatchType DEF WriteFails, Writing
  <2>2. AppendFailures(wal[walNo], BatchRecords(b, n)) \subseteq WalFile
        BY <2>1, AppendType
  <2>3. nextSeq' \in 1..(MaxSeq + 1)
        BY <1>2 DEF WriteFails, Writing
  <2>. QED
        BY <1>2, <2>2, <2>3 DEF WriteFails
<1>3. CASE WriteEmpty
      BY <1>3 DEF WriteEmpty, Writing, Phases, diskVars
<1>4. ASSUME NEW n \in 1..MaxBatch, WriteRejected(n)
      PROVE  TypeOK'
      BY <1>4 DEF WriteRejected, Writing, diskVars
<1>. QED
      BY <1>1, <1>2, <1>3, <1>4 DEF AnyWrite

LEMMA TypeFlush ==
    ASSUME TypeOK, AnyFlush
    PROVE  TypeOK'
<1>. USE DEF TypeOK
<1>1. Flushing
      BY DEF AnyFlush, Flush, FlushBuildFails, FlushSaveFails, FlushNewWalFails,
             FlushUnlinkFails, Building
<1>2. tableNumber \in Numbers /\ nextWALNumber \in Numbers /\ man.next + 2 \in 0..(MaxNumber + 1)
      BY <1>1 DEF Flushing, tableNumber, nextWALNumber, Numbers, Manifest
<1>3. ManNumbered \in Manifest /\ ManFlushed \in Manifest
  <2>1. ManNumbered \in Manifest
        BY <1>2 DEF ManNumbered, Manifest
  <2>2. nextSeq - 1 \in 0..MaxSeq /\ 0 \in Levels
        BY DEF Levels
  <2>3. [ManNumbered.levels EXCEPT ![0] = @ \cup {tableNumber}] \in [Levels -> SUBSET Numbers]
        BY <1>2, <2>1, <2>2 DEF Manifest
  <2>. QED
        BY <2>1, <2>2, <2>3 DEF ManFlushed, Manifest
<1>4. Built \in [Numbers -> SUBSET Record]
      BY <1>2 DEF Built
<1>5. hist \cup Stored(Built, ManFlushed) \subseteq Record
      BY <1>3, <1>4, StoredType
<1>6. CASE Flush
      BY <1>2, <1>3, <1>4, <1>5, <1>6, WalWithType
      DEF Flush, Building, Save, SwitchMemTable, Phases
<1>7. CASE FlushBuildFails
      BY <1>3, <1>4, <1>7 DEF FlushBuildFails, GiveUpFlush, Phases
<1>8. CASE FlushSaveFails
      BY <1>3, <1>4, <1>8 DEF FlushSaveFails, Building, SaveFails, GiveUpFlush, Phases
<1>9. CASE FlushNewWalFails
      BY <1>2, <1>3, <1>4, <1>5, <1>9, NewWalLeftoversType
      DEF FlushNewWalFails, Building, Save, GiveUpFlush, Phases
<1>10. CASE FlushUnlinkFails
      BY <1>2, <1>3, <1>4, <1>5, <1>10, WalWithType
      DEF FlushUnlinkFails, Building, Save, SwitchMemTable, GiveUpFlush, Phases
<1>. QED
      BY <1>6, <1>7, <1>8, <1>9, <1>10 DEF AnyFlush

LEMMA RetainSubset ==
    ASSUME NEW recs, NEW oldest
    PROVE  retainForCompaction(recs, oldest) \subseteq recs
BY DEF retainForCompaction

\* compactRange's outcomes, for inputs, slices and a target level in range.
LEMMA TypeCompactRange ==
    ASSUME TypeOK, NEW recs \in SUBSET Record, NEW inputs \in SUBSET Numbers,
           NEW l \in 0..(MaxLevel - 1), NEW m \in Nat \ {0}, NEW f,
           man.next + m <= MaxNumber + 1
    PROVE  /\ replaceTables(inputs, m, l + 1) \in Manifest
           /\ \A j \in 0..m : [man EXCEPT !.next = @ + j] \in Manifest
           /\ \A j \in 0..m : WithSlices(recs, f, j) \in [Numbers -> SUBSET Record]
           /\ \A files \in [Numbers -> SUBSET Record], gone \in SUBSET Numbers :
                 FilesRemoved(files, gone) \in [Numbers -> SUBSET Record]
<1>. USE DEF TypeOK
<1>1. man.next \in 0..(MaxNumber + 1) /\ man.levels \in [Levels -> SUBSET Numbers]
      BY DEF Manifest
<1>2. man.next..(man.next + m - 1) \subseteq Numbers
      BY <1>1 DEF Numbers
<1>3. [k \in Levels |-> (man.levels[k] \ inputs) \cup
          (IF k = l + 1 THEN man.next..(man.next + m - 1) ELSE {})]
        \in [Levels -> SUBSET Numbers]
      BY <1>1, <1>2
<1>4. man.next + m \in 0..(MaxNumber + 1)
      BY <1>1
<1>5. replaceTables(inputs, m, l + 1) \in Manifest
      BY <1>3, <1>4 DEF replaceTables, Manifest
<1>6. \A j \in 0..m : [man EXCEPT !.next = @ + j] \in Manifest
  <2>1. \A j \in 0..m : man.next + j \in 0..(MaxNumber + 1)
        BY <1>1
  <2>. QED
        BY <2>1 DEF Manifest
<1>7. \A j \in 0..m : WithSlices(recs, f, j) \in [Numbers -> SUBSET Record]
      BY DEF WithSlices
<1>. QED
      BY <1>5, <1>6, <1>7 DEF FilesRemoved

LEMMA CompactionInputsType ==
    ASSUME TypeOK, NEW l \in 0..(MaxLevel - 1), NEW inputs \in CompactionInputs(l)
    PROVE  inputs \in SUBSET Numbers
<1>1. \A k \in Levels : man.levels[k] \subseteq Numbers
      BY DEF TypeOK, Manifest
<1>2. 0 \in Levels /\ 1 \in Levels /\ l \in Levels /\ l + 1 \in Levels
      BY DEF Levels
<1>3. \A k \in Levels : \A recs : Overlapping(k, recs) \subseteq Numbers
      BY <1>1 DEF Overlapping
<1>. QED
      BY <1>1, <1>2, <1>3
      DEF CompactionInputs, selectLevelZeroCompactionTables, selectHigherLevelCompactionTables

LEMMA TypeCompact ==
    ASSUME TypeOK, NEW l \in 0..(MaxLevel - 1), Compact(l)
    PROVE  TypeOK'
<1>. USE DEF TypeOK
<1>1. PICK inputs \in CompactionInputs(l) :
        LET recs == retainForCompaction(Contents(sst, inputs), smallestActiveSnapshot)
        IN  \E m \in 1..Cardinality(KeysOf(recs)) : \E f \in Slicings(recs, m) :
              /\ man.next + m <= MaxNumber + 1
              /\ \/ CompactWriteFails(recs, m, f)
                 \/ CompactSaveFails(inputs, l + 1, recs, m, f)
                 \/ CompactUnlinkFails(inputs, l + 1, recs, m, f)
                 \/ CompactSucceeds(inputs, l + 1, recs, m, f)
      BY DEF Compact
<1>. DEFINE recs == retainForCompaction(Contents(sst, inputs), smallestActiveSnapshot)
<1>0. PICK m \in 1..Cardinality(KeysOf(recs)) : \E f \in Slicings(recs, m) :
              /\ man.next + m <= MaxNumber + 1
              /\ \/ CompactWriteFails(recs, m, f)
                 \/ CompactSaveFails(inputs, l + 1, recs, m, f)
                 \/ CompactUnlinkFails(inputs, l + 1, recs, m, f)
                 \/ CompactSucceeds(inputs, l + 1, recs, m, f)
      BY <1>1
<1>2. PICK f \in Slicings(recs, m) :
              /\ man.next + m <= MaxNumber + 1
              /\ \/ CompactWriteFails(recs, m, f)
                 \/ CompactSaveFails(inputs, l + 1, recs, m, f)
                 \/ CompactUnlinkFails(inputs, l + 1, recs, m, f)
                 \/ CompactSucceeds(inputs, l + 1, recs, m, f)
      BY <1>0
<1>3. inputs \in SUBSET Numbers
      BY CompactionInputsType
<1>4. recs \in SUBSET Record
      BY <1>3, RetainSubset DEF Contents
<1>. HIDE DEF recs
<1>5. m \in Nat \ {0} /\ m \in 0..m
      OBVIOUS
<1>. DEFINE replaced == replaceTables(inputs, m, l + 1)
            written == WithSlices(recs, f, m)
<1>6. replaced \in Manifest /\ written \in [Numbers -> SUBSET Record]
      BY <1>2, <1>3, <1>4, <1>5, TypeCompactRange
<1>7. hist \cup Stored(written, replaced) \subseteq Record
      BY <1>6, StoredType
<1>8. \A gone \in SUBSET Numbers : FilesRemoved(written, gone) \in [Numbers -> SUBSET Record]
      BY <1>2, <1>3, <1>4, <1>5, <1>6, TypeCompactRange
<1>9. pc' \in Phases /\ writeFailed' \in BOOLEAN
      BY <1>2, Zenon DEF CompactWriteFails, CompactSaveFails, CompactUnlinkFails,
             CompactSucceeds, CompactionThrows, Phases
<1>10. man' \in Manifest /\ sst' \in [Numbers -> SUBSET Record]
  <2>1. CASE CompactWriteFails(recs, m, f)
    <3>1. PICK failed \in 1..m : \E done \in {failed - 1, failed} :
              man' = [man EXCEPT !.next = @ + failed] /\ sst' = WithSlices(recs, f, done)
          BY <2>1 DEF CompactWriteFails
    <3>0. PICK done \in {failed - 1, failed} :
              man' = [man EXCEPT !.next = @ + failed] /\ sst' = WithSlices(recs, f, done)
          BY <3>1
    <3>2. failed \in 0..m /\ done \in 0..m
          BY <1>5
    <3>. QED
          BY <1>2, <1>3, <1>4, <1>5, <3>0, <3>2, TypeCompactRange
  <2>2. CASE CompactSaveFails(inputs, l + 1, recs, m, f)
        BY <1>6, <2>2 DEF CompactSaveFails
  <2>3. CASE CompactUnlinkFails(inputs, l + 1, recs, m, f)
        BY <1>3, <1>6, <1>8, <2>3 DEF CompactUnlinkFails
  <2>4. CASE CompactSucceeds(inputs, l + 1, recs, m, f)
        BY <1>3, <1>6, <1>8, <2>4 DEF CompactSucceeds
  <2>. QED
        BY <1>2, <2>1, <2>2, <2>3, <2>4
<1>11. disk' \in Manifest /\ older' \subseteq Manifest /\ hist' \subseteq Record
  <2>. HIDE DEF replaced, written
  <2>1. CASE CompactWriteFails(recs, m, f)
        BY <2>1 DEF CompactWriteFails
  <2>2. CASE CompactSaveFails(inputs, l + 1, recs, m, f)
        BY <1>6, <2>2 DEF CompactSaveFails, SaveFails, replaced
  <2>3. CASE CompactUnlinkFails(inputs, l + 1, recs, m, f)
        BY <1>6, <1>7, <2>3 DEF CompactUnlinkFails, Save, replaced, written
  <2>4. CASE CompactSucceeds(inputs, l + 1, recs, m, f)
        BY <1>6, <1>7, <2>4 DEF CompactSucceeds, Save, replaced, written
  <2>. QED
        BY <1>2, <2>1, <2>2, <2>3, <2>4
<1>. QED
      BY <1>9, <1>10, <1>11 DEF Compact

LEMMA TypeRest ==
    ASSUME TypeOK,
           LoopDone \/ \E h \in Handles : TakeSnapshot(h) \/ ReleaseSnapshot(h)
    PROVE  TypeOK'
BY DEF TypeOK, LoopDone, TakeSnapshot, ReleaseSnapshot, Phases, diskVars, NoSnap

LEMMA TypeStep == TypeOK /\ [Next]_vars => TypeOK'
<1>. SUFFICES ASSUME TypeOK, [Next]_vars PROVE TypeOK'
      OBVIOUS
<1>1. CASE Next
      BY <1>1, TypeOpen, TypeCrash, TypeWrite, TypeFlush, TypeCompact, TypeRest DEF Next
<1>2. CASE UNCHANGED vars
      BY <1>2 DEF TypeOK, vars, procVars, diskVars
<1>. QED
      BY <1>1, <1>2

\* Type correctness: no call, failure, crash or recovery takes a variable out
\* of its type, for any number of keys, values, levels, files and handles.
THEOREM TypeCorrect == Spec => []TypeOK
BY TypeInit, TypeStep, PTL DEF Spec

-----------------------------------------------------------------------------
(***************************************************************************)
(* Reopening: the constructor never refuses a directory for a frame behind *)
(* a torn one, and, where a new WAL's header is written whole or not at    *)
(* all ("header" is not among the faults), it never refuses one at all.    *)
(*                                                                         *)
(* WalIntact is not inductive: an append to a file with a torn end would   *)
(* break it.  What prevents that append is the poisoned flag, so the       *)
(* invariant ties the flag to the end of the file it protects.             *)
(***************************************************************************)

\* The writer of a WAL with a torn end accepts nothing more.
TornIsPoisoned == Running /\ wal[walNo].torn => poisoned

\* Without that fault no file is left with part of its header.
HeadersWhole == "header" \notin Faults => \A n \in Numbers : wal[n].st # "bare"

ReopenInv ==
    /\ TypeOK
    /\ WalIntact
    /\ TornIsPoisoned
    /\ HeadersWhole
    /\ "header" \notin Faults => Reopenable

LEMMA FreshWal ==
    /\ NoWal.st = "none" /\ NoWal.torn = FALSE
    /\ \A st : WalWith(st).st = st /\ WalWith(st).torn = FALSE
BY DEF NoWal, WalWith

\* A WAL file that is no obstacle to a start.
Clean(w) == w.st # "corrupt" /\ ("header" \notin Faults => w.st # "bare")

LEMMA CleanFiles ==
    ReopenInv => \A n \in Numbers : Clean(wal[n])
BY DEF ReopenInv, WalIntact, HeadersWhole, Clean

LEMMA CleanFresh ==
    /\ Clean(NoWal) /\ Clean(WalWith("ready"))
    /\ \A w \in NewWalLeftovers : Clean(w)
BY FreshWal DEF Clean, NewWalLeftovers

LEMMA CleanSurvivors ==
    ASSUME NEW w \in WalFile, Clean(w), NEW v \in Survivors(w)
    PROVE  Clean(v)
<1>1. ASSUME NEW t, NEW b, v = CutBack(w, t, b)
      PROVE  v.st = IF w.st = "loose" THEN "ready" ELSE w.st
      BY <1>1 DEF CutBack, WalFile
<1>2. CASE \E t, b : v = CutBack(w, t, b)
      BY <1>1, <1>2 DEF Clean
<1>3. CASE v = NoWal
      BY <1>3, CleanFresh
<1>4. CASE v = WalWith("bare") /\ "header" \in Faults
      BY <1>4, FreshWal DEF Clean
<1>. QED
      BY <1>2, <1>3, <1>4 DEF Survivors

-----------------------------------------------------------------------------
LEMMA ReopenInit == Init => ReopenInv
BY TypeInit, FreshWal
DEF Init, ReopenInv, WalIntact, TornIsPoisoned, HeadersWhole, Reopenable, Running

\* What each step must show about the files, the writer and the phase.
LEMMA ReopenSuffices ==
    ASSUME TypeOK', \A n \in Numbers : Clean(wal'[n]), TornIsPoisoned',
           "header" \notin Faults => pc' # "refused"
    PROVE  ReopenInv'
BY DEF ReopenInv, WalIntact, HeadersWhole, Reopenable, Clean

LEMMA ReopenOpen ==
    ASSUME ReopenInv,
           Open \/ OpenRefused \/ OpenTruncateFails \/ OpenNewWalFails \/ OpenUnlinkFails
    PROVE  ReopenInv'
<1>. USE DEF ReopenInv
<1>. DEFINE wals == cleanupOldWALFiles(disk.log)
<1>1. TypeOK'
      BY TypeOpen
<1>2. disk.log \in Numbers
      BY DEF TypeOK, Manifest
<1>3. wals \in [Numbers -> WalFile] /\ \A n \in Numbers : Clean(wals[n])
      BY CleanFiles, CleanFresh, WalWithType DEF cleanupOldWALFiles, TypeOK
<1>. HIDE DEF wals
<1>4. CASE Open
  <2>1. PICK live \in {WalWith("ready"), wals[disk.log]} : Restore(disk, wals, live)
        BY <1>4 DEF Open, wals
  <2>2. Clean(live) /\ live \in WalFile
        BY <1>2, <1>3, CleanFresh, WalWithType
  <2>3. /\ wal'[disk.log] = [live EXCEPT !.torn = FALSE]
        /\ \A n \in Numbers : n # disk.log => wal'[n] = wals[n]
        /\ walNo' = disk.log /\ pc' = "idle"
        BY <1>2, <1>3, <2>1 DEF Restore
  <2>4. wal'[disk.log].torn = FALSE /\ wal'[disk.log].st = live.st
        BY <2>2, <2>3 DEF WalFile
  <2>. QED
        BY <1>1, <1>3, <2>2, <2>3, <2>4, ReopenSuffices DEF Clean, TornIsPoisoned
<1>5. CASE OpenRefused
  <2>1. "header" \in Faults
        BY <1>2, <1>3, <1>5 DEF OpenRefused, Clean, wals
  <2>. QED
        BY <1>1, <1>3, <1>5, <2>1, ReopenSuffices
        DEF OpenRefused, TornIsPoisoned, Running, wals
<1>6. CASE OpenNewWalFails
      BY <1>1, <1>2, <1>3, <1>6, CleanFresh, ReopenSuffices
      DEF OpenNewWalFails, TornIsPoisoned, Running, wals
<1>7. CASE OpenUnlinkFails
  <2>1. \A n \in Numbers : wal'[n] \in {wal[n], NoWal}
        BY <1>7 DEF OpenUnlinkFails, TypeOK
  <2>. QED
        BY <1>1, <1>7, <2>1, CleanFiles, CleanFresh, ReopenSuffices
        DEF OpenUnlinkFails, TornIsPoisoned, Running
<1>8. CASE OpenTruncateFails
      BY <1>1, <1>3, <1>8, ReopenSuffices
      DEF OpenTruncateFails, TornIsPoisoned, Running, wals
<1>. QED
      BY <1>4, <1>5, <1>6, <1>7, <1>8

LEMMA ReopenCrash ==
    ASSUME ReopenInv, Kill \/ PowerLoss
    PROVE  ReopenInv'
<1>1. TypeOK' /\ ~Running' /\ pc' # "refused" /\ disk'.log \in Numbers
      BY TypeCrash DEF ReopenInv, Kill, PowerLoss, ProcessGone, Running, TypeOK, Manifest
<1>2. \A n \in Numbers : Clean(wal'[n])
  <2>1. CASE Kill
        BY <2>1, CleanFiles DEF Kill, diskVars
  <2>2. CASE PowerLoss
        BY <1>1, <2>2, CleanFiles, CleanSurvivors DEF PowerLoss, ReopenInv, TypeOK
  <2>. QED
        BY <2>1, <2>2
<1>. QED
      BY <1>1, <1>2, ReopenSuffices DEF TornIsPoisoned

LEMMA ReopenWrite ==
    ASSUME ReopenInv, AnyWrite
    PROVE  ReopenInv'
<1>. USE DEF ReopenInv
<1>1. TypeOK' /\ walNo \in Numbers /\ wal[walNo] \in WalFile
      BY TypeWrite DEF TypeOK
<1>2. ASSUME NEW n \in 1..MaxBatch, NEW b \in [1..n -> Op], Write(b, n)
      PROVE  ReopenInv'
  <2>1. /\ Running /\ ~poisoned /\ walNo' = walNo /\ pc' # "refused"
        /\ wal' = [wal EXCEPT ![walNo] = AppendSynced(@, BatchRecords(b, n))]
        BY <1>2 DEF Write, Writing, MayAppend, Running
  <2>2. wal[walNo].torn = FALSE
        BY <1>1, <2>1 DEF TornIsPoisoned, WalFile
  <2>3. /\ wal'[walNo] = AppendSynced(wal[walNo], BatchRecords(b, n))
        /\ \A i \in Numbers : i # walNo => wal'[i] = wal[i]
        BY <1>1, <2>1 DEF TypeOK
  <2>4. wal'[walNo].torn = FALSE /\ wal'[walNo].st \in {"ready", wal[walNo].st}
        BY <1>1, <2>2, <2>3 DEF AppendSynced, WalFile
  <2>. QED
        BY <1>1, <2>1, <2>3, <2>4, CleanFiles, ReopenSuffices DEF Clean, TornIsPoisoned
<1>3. ASSUME NEW n \in 1..MaxBatch, NEW b \in [1..n -> Op], WriteFails(b, n)
      PROVE  ReopenInv'
  <2>1. PICK w \in AppendFailures(wal[walNo], BatchRecords(b, n)) : wal' = [wal EXCEPT ![walNo] = w]
        BY <1>3 DEF WriteFails
  <2>2. w.st = wal[walNo].st
        BY <1>1 DEF AppendFailures, WalFile
  <2>3. \A i \in Numbers : wal'[i].st = wal[i].st
        BY <1>1, <2>1, <2>2 DEF TypeOK
  <2>4. pc' # "refused" /\ poisoned'
        BY <1>3 DEF WriteFails, Writing
  <2>. QED
        BY <1>1, <2>3, <2>4, CleanFiles, ReopenSuffices DEF Clean, TornIsPoisoned
<1>4. ASSUME WriteEmpty \/ \E n \in 1..MaxBatch : WriteRejected(n)
      PROVE  ReopenInv'
  <2>1. UNCHANGED <<wal, walNo, poisoned>> /\ Running /\ pc' # "refused"
        BY <1>4 DEF WriteEmpty, WriteRejected, Writing, Running, diskVars
  <2>. QED
        BY <1>1, <2>1, CleanFiles, ReopenSuffices DEF TornIsPoisoned
<1>. QED
      BY <1>2, <1>3, <1>4 DEF AnyWrite

LEMMA ReopenFlush ==
    ASSUME ReopenInv, AnyFlush
    PROVE  ReopenInv'
<1>. USE DEF ReopenInv
<1>1. TypeOK' /\ Running /\ pc' # "refused"
      BY TypeFlush
      DEF AnyFlush, Flush, FlushBuildFails, FlushSaveFails, FlushNewWalFails, FlushUnlinkFails,
          Building, Flushing, GiveUpFlush, Running
<1>2. nextWALNumber \in Numbers /\ walNo \in Numbers
      BY NumberAssumption
      DEF AnyFlush, Flush, FlushBuildFails, FlushSaveFails, FlushNewWalFails, FlushUnlinkFails,
          Building, Flushing, nextWALNumber, Numbers, TypeOK, Manifest
<1>3. CASE FlushBuildFails \/ FlushSaveFails
  <2>1. UNCHANGED <<wal, walNo, poisoned>>
        BY <1>3 DEF FlushBuildFails, FlushSaveFails
  <2>. QED
        BY <1>1, <2>1, CleanFiles, ReopenSuffices DEF TornIsPoisoned
<1>4. CASE FlushNewWalFails
  <2>1. PICK w \in NewWalLeftovers : wal' = [wal EXCEPT ![nextWALNumber] = w]
        BY <1>4 DEF FlushNewWalFails
  <2>2. Clean(w) /\ w.torn = FALSE
        BY CleanFresh, FreshWal DEF NewWalLeftovers
  <2>3. \A n \in Numbers : wal'[n] = IF n = nextWALNumber THEN w ELSE wal[n]
        BY <2>1 DEF TypeOK
  <2>4. UNCHANGED <<walNo, poisoned>>
        BY <1>4 DEF FlushNewWalFails
  <2>. QED
        BY <1>1, <1>2, <2>2, <2>3, <2>4, CleanFiles, ReopenSuffices DEF TornIsPoisoned
<1>5. CASE Flush \/ FlushUnlinkFails
  <2>1. /\ walNo' = nextWALNumber /\ wal'[nextWALNumber] = WalWith("ready")
        /\ \A n \in Numbers : wal'[n] \in {wal[n], NoWal, WalWith("ready")}
        BY <1>2, <1>5 DEF Flush, FlushUnlinkFails, SwitchMemTable, TypeOK
  <2>. QED
        BY <1>1, <2>1, CleanFiles, CleanFresh, FreshWal, ReopenSuffices DEF TornIsPoisoned
<1>. QED
      BY <1>3, <1>4, <1>5 DEF AnyFlush

LEMMA ReopenRest ==
    ASSUME ReopenInv,
           \/ \E l \in 0..(MaxLevel - 1) : Compact(l)
           \/ LoopDone
           \/ \E h \in Handles : TakeSnapshot(h) \/ ReleaseSnapshot(h)
           \/ UNCHANGED vars
    PROVE  ReopenInv'
<1>. USE DEF ReopenInv
<1>1. TypeOK'
  <2>1. CASE UNCHANGED vars
        BY <2>1, TypeStep
  <2>. QED
        BY <2>1, TypeCompact, TypeRest
<1>2. UNCHANGED <<wal, walNo, poisoned>>
      BY DEF Compact, LoopDone, TakeSnapshot, ReleaseSnapshot, vars, procVars, diskVars
<1>3. (Running' => Running) /\ (pc' = "refused" => pc = "refused")
      BY DEF Compact, MayCompact, CompactWriteFails, CompactSaveFails, CompactUnlinkFails,
             CompactSucceeds, CompactionThrows, LoopDone, TakeSnapshot, ReleaseSnapshot,
             vars, procVars, Running
<1>. QED
      BY <1>1, <1>2, <1>3, CleanFiles, ReopenSuffices DEF TornIsPoisoned, Reopenable

LEMMA ReopenStep == ReopenInv /\ [Next]_vars => ReopenInv'
BY ReopenOpen, ReopenCrash, ReopenWrite, ReopenFlush, ReopenRest DEF Next

\* No failure, crash or power loss ever leads to a frame behind a torn one, so
\* that WALParser never has to choose between losing a committed frame and
\* refusing the file.
THEOREM NoFrameBehindTornOne == Spec => []WalIntact
<1>1. ReopenInv => WalIntact
      BY DEF ReopenInv
<1>. QED
      BY <1>1, ReopenInit, ReopenStep, PTL DEF Spec

\* Where the header of a new WAL is never left incomplete, the constructor
\* accepts every directory that the engine may leave behind.
THEOREM AlwaysReopens ==
    ASSUME "header" \notin Faults
    PROVE  Spec => []Reopenable
<1>1. ReopenInv => Reopenable
      BY DEF ReopenInv
<1>. QED
      BY <1>1, ReopenInit, ReopenStep, PTL DEF Spec

-----------------------------------------------------------------------------
(***************************************************************************)
(* Durability.                                                             *)
(***************************************************************************)
\* Every record of a set has its key's version, or a newer one, in another.
Covers(recs, old) == \A x \in old : \E y \in recs : y.key = x.key /\ y.seq >= x.seq

\* A file that was never completed holds no record.
WalShape == \A n \in Numbers : wal[n].st \in {"none", "bare"} => wal[n].recs = {}

\* The process may still write, or is publishing: its MANIFEST may be saved
\* while it names the WAL that backs the memtable.
Publishing == Running /\ (writeFailed => pc = "loop")

\* The MANIFESTs that a start may find, now or after the next compaction.
Candidates == {disk} \cup older \cup (IF Publishing THEN {man} ELSE {})

\* All MANIFESTs in play.
Known == {disk} \cup older \cup (IF Running THEN {man} ELSE {})

TablesExist == \A m \in Known : \A n \in allTableNumbers(m) : sst[n] # {}

TablesNumbered == \A m \in Known :
    /\ \A n \in allTableNumbers(m) : n < m.next
    /\ Running => m.next <= man.next

LogCurrent == Publishing => \A m \in Candidates : m.log = walNo

CandidatesCovered == \A m \in Candidates : Covers(Stored(sst, m) \cup Durable(wal[m.log]), hist)

\* Until an append fails, the memtable holds all that its WAL does.
MemTableLogged == Running /\ ~poisoned => Readable(wal[walNo]) \subseteq mem

MemTableCovered == Running => Covers(Stored(sst, man) \cup mem, hist)

DurInv ==
    /\ TypeOK
    /\ WalShape
    /\ TablesExist
    /\ TablesNumbered
    /\ LogCurrent
    /\ CandidatesCovered
    /\ MemTableLogged
    /\ MemTableCovered

-----------------------------------------------------------------------------
(***************************************************************************)
(* Covering.                                                               *)
(***************************************************************************)

\* More records cover as much, and themselves.
LEMMA CoversGrow ==
    ASSUME NEW A, NEW B \in SUBSET Record, NEW H, NEW X,
           Covers(A, H), A \subseteq B, X \subseteq B
    PROVE  Covers(B, H \cup X)
BY DEF Covers, Record

LEMMA CoversMono ==
    ASSUME NEW A, NEW B, NEW H, Covers(A, H), A \subseteq B
    PROVE  Covers(B, H)
BY DEF Covers

LEMMA CoversTrans ==
    ASSUME NEW A \in SUBSET Record, NEW B \in SUBSET Record, NEW H \in SUBSET Record,
           Covers(A, H), Covers(B, A)
    PROVE  Covers(B, H)
BY DEF Covers, Record

\* Replacing records by others that cover them.
LEMMA CoversReplace ==
    ASSUME NEW A \in SUBSET Record, NEW B \in SUBSET Record, NEW X \in SUBSET Record,
           NEW H \in SUBSET Record, Covers(A \cup X, H), Covers(B, A)
    PROVE  Covers(B \cup X, H)
BY DEF Covers, Record

\* What compaction drops is covered by what it keeps: of the versions up to
\* the oldest snapshot, the newest of the key stays.
LEMMA RetainCovers ==
    ASSUME NEW recs \in SUBSET Record, NEW oldest \in Int
    PROVE  Covers(retainForCompaction(recs, oldest), recs)
<1>. SUFFICES ASSUME NEW x \in recs
              PROVE  \E y \in retainForCompaction(recs, oldest) :
                         y.key = x.key /\ y.seq >= x.seq
      BY DEF Covers
<1>. DEFINE old == {r \in recs : r.key = x.key /\ r.seq <= oldest}
            S == SeqsOf(old)
<1>1. x.seq \in 1..MaxSeq
      BY DEF Record
<1>2. CASE x.seq > oldest
      BY <1>1, <1>2 DEF retainForCompaction
<1>3. CASE ~ (x.seq > oldest)
  <2>1. x \in old
        BY <1>1, <1>3
  <2>2. S \in SUBSET (0..MaxSeq) /\ x.seq \in S
        BY <2>1 DEF SeqsOf, Record
  <2>3. PICK top \in S : \A s \in S : top >= s
    <3>. HIDE DEF S
    <3>1. S # {}
          BY <2>2
    <3>. QED BY <2>2, <3>1, BoundedHasMax, SeqAssumption
  <2>4. PICK y \in old : y.seq = top
        BY <2>3 DEF SeqsOf
  <2>5. \A q \in old : q.seq \in S
        BY DEF SeqsOf
  <2>6. \A q \in recs : q.key = y.key /\ q.seq <= oldest => q.seq <= y.seq
    <3>. HIDE DEF S
    <3>1. \A q \in old : q.seq <= y.seq
          BY <2>2, <2>3, <2>4, <2>5
    <3>. QED BY <3>1
  <2>7. y \in retainForCompaction(recs, oldest)
        BY <2>6 DEF retainForCompaction
  <2>8. y.seq >= x.seq
    <3>. HIDE DEF S
    <3>. QED BY <2>2, <2>3, <2>4
  <2>. QED
        BY <2>7, <2>8
<1>. QED
      BY <1>2, <1>3

\* Files that a MANIFEST does not list do not matter to what it stores.
LEMMA StoredSame ==
    ASSUME NEW m, NEW files, NEW others,
           \A n \in allTableNumbers(m) : others[n] = files[n]
    PROVE  Stored(others, m) = Stored(files, m)
BY DEF Stored, Contents

LEMMA DurableInReadable ==
    ASSUME NEW w PROVE Durable(w) \subseteq Readable(w)
BY DEF Durable, Readable

LEMMA DurableType ==
    ASSUME NEW w \in WalFile PROVE Durable(w) \subseteq Record
BY DEF Durable, WalFile

-----------------------------------------------------------------------------
(***************************************************************************)
(* The invariant holds initially and through opening and crashing.         *)
(***************************************************************************)

LEMMA DurInit == Init => DurInv
<1>. SUFFICES ASSUME Init PROVE DurInv
      OBVIOUS
<1>1. TypeOK
      BY TypeInit
<1>2. WalShape
      BY DEF Init, WalShape, NoWal, WalWith
<1>3. ~Running /\ Known = {NoManifest} /\ Candidates = {NoManifest}
      BY DEF Init, Running, Known, Candidates, Publishing
<1>4. allTableNumbers(NoManifest) = {}
      BY DEF allTableNumbers, NoManifest
<1>. QED
      BY <1>1, <1>2, <1>3, <1>4
      DEF DurInv, TablesExist, TablesNumbered, LogCurrent, Publishing, CandidatesCovered,
          MemTableLogged, MemTableCovered, Covers, Init

\* What a start that finds the MANIFEST disk keeps of the files.
LEMMA CleanupKeeps ==
    ASSUME TypeOK
    PROVE  /\ \A n \in allTableNumbers(disk) : cleanupUntrackedSSTables(disk)[n] = sst[n]
           /\ Stored(cleanupUntrackedSSTables(disk), disk) = Stored(sst, disk)
           /\ \A n \in Numbers : \/ cleanupOldWALFiles(disk.log)[n] = wal[n]
                                 \/ cleanupOldWALFiles(disk.log)[n] = NoWal /\ n # disk.log
<1>1. allTableNumbers(disk) \subseteq Numbers
      BY DEF TypeOK, Manifest, allTableNumbers
<1>2. \A n \in allTableNumbers(disk) : cleanupUntrackedSSTables(disk)[n] = sst[n]
      BY <1>1 DEF cleanupUntrackedSSTables
<1>3. disk.log \in Int
      BY DEF TypeOK, Manifest, Numbers
<1>. QED
      BY <1>2, <1>3, StoredSame DEF cleanupOldWALFiles, Numbers

LEMMA NoWalShape ==
    /\ NoWal.st = "none" /\ NoWal.recs = {} /\ NoWal.tail = {} /\ NoWal.torn = FALSE
    /\ \A st : /\ WalWith(st).st = st /\ WalWith(st).recs = {}
               /\ WalWith(st).tail = {} /\ WalWith(st).torn = FALSE
BY DEF NoWal, WalWith

\* A start that ends without the database open, for whatever reason.
LEMMA DurOpenFails ==
    ASSUME Journaled, DurInv,
           OpenRefused \/ OpenTruncateFails \/ OpenNewWalFails \/ OpenUnlinkFails
    PROVE  DurInv'
<1>. USE DEF DurInv
<1>1. TypeOK'
      BY TypeOpen
<1>2. ~Running /\ ~Running' /\ disk' = disk /\ older' = {}
      /\ hist' = hist \cup Stored(sst, disk)
      BY DEF OpenRefused, OpenTruncateFails, OpenNewWalFails, OpenUnlinkFails, OpenCleanup, Running
<1>3. Known' = {disk} /\ Candidates' = {disk} /\ disk \in Known /\ disk \in Candidates
      BY <1>2 DEF Known, Candidates, Publishing
<1>4. \A n \in allTableNumbers(disk) : sst'[n] = sst[n]
  <2>1. CASE sst' = cleanupUntrackedSSTables(disk)
        BY <2>1, CleanupKeeps
  <2>2. CASE OpenUnlinkFails
    <3>1. allTableNumbers(disk) \subseteq Numbers
          BY DEF TypeOK, Manifest, allTableNumbers
    <3>. QED
          BY <2>1, <2>2, <3>1 DEF OpenUnlinkFails
  <2>. QED
        BY <2>1, <2>2 DEF OpenRefused, OpenTruncateFails, OpenNewWalFails, OpenCleanup
<1>5. Stored(sst', disk) = Stored(sst, disk)
      BY <1>4, StoredSame
<1>6. \A n \in Numbers : \/ wal'[n] = wal[n]
                         \/ wal'[n].recs = {} /\ n # disk.log
                         \/ wal'[n].recs = {} /\ wal[n].st = "none"
  <2>1. CASE OpenRefused \/ OpenTruncateFails
        BY <2>1, CleanupKeeps, NoWalShape DEF OpenRefused, OpenTruncateFails
  <2>2. CASE OpenNewWalFails
    <3>1. PICK w \in NewWalLeftovers : wal' = [cleanupOldWALFiles(disk.log) EXCEPT ![disk.log] = w]
          BY <2>2 DEF OpenNewWalFails
    <3>2. w.recs = {}
          BY NoWalShape DEF NewWalLeftovers
    <3>3. cleanupOldWALFiles(disk.log)[disk.log].st = "none"
          BY <2>2 DEF OpenNewWalFails
    <3>4. \A n \in Numbers : wal'[n] = IF n = disk.log THEN w ELSE cleanupOldWALFiles(disk.log)[n]
          BY <3>1 DEF cleanupOldWALFiles
    <3>5. disk.log \in Numbers
          BY DEF TypeOK, Manifest
    <3>. QED
          BY <3>2, <3>3, <3>4, <3>5, CleanupKeeps, NoWalShape
  <2>3. CASE OpenUnlinkFails
    <3>1. disk.log \in Int
          BY DEF TypeOK, Manifest, Numbers
    <3>2. CASE UNCHANGED wal
          BY <3>2
    <3>3. ASSUME NEW gone \in SUBSET {n \in Numbers : n < disk.log /\ wal[n].st # "none"},
                 wal' = [n \in Numbers |-> IF n \in gone THEN NoWal ELSE wal[n]],
                 NEW n \in Numbers
          PROVE  wal'[n] = wal[n] \/ (wal'[n] = NoWal /\ n # disk.log)
          BY <3>1, <3>3 DEF Numbers
    <3>. QED
          BY <2>3, <3>2, <3>3, NoWalShape DEF OpenUnlinkFails
  <2>. QED
        BY <2>1, <2>2, <2>3
<1>7. WalShape'
      BY <1>6, <1>1 DEF WalShape, TypeOK
<1>8. TablesExist' /\ TablesNumbered'
      BY <1>2, <1>3, <1>4 DEF TablesExist, TablesNumbered
<1>9. CandidatesCovered'
  <2>1. disk.log \in Numbers
        BY DEF TypeOK, Manifest
  <2>2. Durable(wal'[disk.log]) = Durable(wal[disk.log])
        BY <1>6, <2>1 DEF Durable, WalShape
  <2>3. Covers(Stored(sst, disk) \cup Durable(wal[disk.log]), hist)
        BY <1>3 DEF CandidatesCovered
  <2>4. Stored(sst, disk) \cup Durable(wal[disk.log]) \in SUBSET Record
        BY <2>1, StoredType, DurableType DEF TypeOK
  <2>5. Covers(Stored(sst, disk) \cup Durable(wal[disk.log]), hist \cup Stored(sst, disk))
        BY <2>3, <2>4, CoversGrow
  <2>. QED
        BY <1>2, <1>3, <1>5, <2>2, <2>5 DEF CandidatesCovered
<1>. QED
      BY <1>1, <1>2, <1>7, <1>8, <1>9 DEF LogCurrent, Publishing, MemTableLogged, MemTableCovered

LEMMA DurOpen ==
    ASSUME Journaled, DurInv, Open
    PROVE  DurInv'
<1>. USE DEF DurInv
<1>. DEFINE wals == cleanupOldWALFiles(disk.log)
            live == IF wals[disk.log].st = "none" THEN WalWith("ready") ELSE wals[disk.log]
<1>1. TypeOK'
      BY TypeOpen
<1>2. OpenCleanup /\ live.st \in {"loose", "ready"} /\ Restore(disk, wals, live)
      BY DEF Open
<1>3. disk.log \in Numbers /\ wals[disk.log] = wal[disk.log]
      BY CleanupKeeps DEF TypeOK, Manifest
<1>4. /\ live.st # "none"
      /\ Durable(wal[disk.log]) \subseteq Durable(live)
      /\ live \in WalFile
  <2>1. CASE wal[disk.log].st = "none"
        BY <1>2, <1>3, <2>1, NoWalShape, WalWithType DEF WalShape, Durable
  <2>2. CASE wal[disk.log].st # "none"
        BY <1>3, <2>2 DEF TypeOK
  <2>. QED
        BY <2>1, <2>2
<1>5. \A n \in Numbers : \/ n # disk.log /\ (wals[n] = wal[n] \/ wals[n] = NoWal)
                         \/ n = disk.log
      BY CleanupKeeps
<1>. HIDE DEF live
<1>6. /\ wal'[disk.log] = [live EXCEPT !.torn = FALSE]
      /\ \A n \in Numbers : n # disk.log => wal'[n] = wals[n]
  <2>1. wals \in [Numbers -> WalFile]
        BY WalWithType DEF cleanupOldWALFiles, TypeOK
  <2>. HIDE DEF wals
  <2>. QED
        BY <1>2, <1>3, <2>1 DEF Restore
<1>7. WalShape'
  <2>1. ~ (wal'[disk.log].st \in {"none", "bare"})
        BY <1>2, <1>4, <1>6 DEF WalFile
  <2>2. ASSUME NEW n \in Numbers, n # disk.log
        PROVE  wal'[n] = wal[n] \/ wal'[n] = NoWal
        BY <1>5, <1>6, <2>2
  <2>. QED
        BY <2>1, <2>2, NoWalShape DEF WalShape
<1>8. /\ ~Running /\ Running' /\ disk' = disk /\ older' = {} /\ man' = disk
      /\ walNo' = disk.log /\ mem' = Readable(live)
      /\ hist' = hist \cup Stored(sst, disk)
      /\ sst' = cleanupUntrackedSSTables(disk)
      BY <1>2 DEF OpenCleanup, Restore, Running
<1>9. Known' = {disk} /\ Candidates' = {disk} /\ disk \in Known /\ disk \in Candidates
      BY <1>8 DEF Known, Candidates
<1>10. disk.next \in Int
      BY DEF TypeOK, Manifest
<1>11. TablesExist' /\ TablesNumbered' /\ LogCurrent'
      BY <1>8, <1>9, <1>10, CleanupKeeps DEF TablesExist, TablesNumbered, LogCurrent
<1>12. Covers(Stored(sst, disk) \cup Durable(wal[disk.log]), hist)
      BY <1>9 DEF CandidatesCovered
<1>13. Stored(sst', disk) = Stored(sst, disk) /\ Stored(sst, disk) \subseteq Record
      BY <1>8, CleanupKeeps, StoredType DEF TypeOK
<1>14. CandidatesCovered'
  <2>1. Durable(wal'[disk.log]) = Durable(live)
        BY <1>4, <1>6 DEF Durable, WalFile
  <2>2. Durable(live) \subseteq Record
        BY <1>4, DurableType
  <2>3. Covers(Stored(sst, disk) \cup Durable(live), hist \cup Stored(sst, disk))
        BY <1>4, <1>12, <1>13, <2>2, CoversGrow
  <2>. QED
        BY <1>8, <1>9, <1>13, <2>1, <2>3 DEF CandidatesCovered
<1>15. MemTableCovered'
  <2>1. Readable(live) \subseteq Record
        BY <1>4, ReadableType
  <2>2. Durable(wal[disk.log]) \subseteq Readable(live)
        BY <1>4, DurableInReadable
  <2>3. Covers(Stored(sst, disk) \cup Readable(live), hist \cup Stored(sst, disk))
        BY <1>12, <1>13, <2>1, <2>2, CoversGrow
  <2>. QED
        BY <1>8, <1>13, <2>3 DEF MemTableCovered
<1>16. MemTableLogged'
      BY <1>4, <1>6, <1>8 DEF MemTableLogged, Readable, WalFile
<1>. QED
      BY <1>1, <1>7, <1>11, <1>14, <1>15, <1>16

LEMMA DurKill ==
    ASSUME DurInv, Kill
    PROVE  DurInv'
<1>1. TypeOK'
      BY TypeCrash DEF DurInv
<1>2. ~Running' /\ UNCHANGED <<sst, wal, disk, older, hist>>
      BY DEF Kill, ProcessGone, Running, diskVars
<1>3. Known' \subseteq Known /\ Candidates' \subseteq Candidates
      BY <1>2 DEF Known, Candidates, Publishing
<1>. QED
      BY <1>1, <1>2, <1>3
      DEF DurInv, WalShape, TablesExist, TablesNumbered, LogCurrent, Publishing,
          CandidatesCovered, MemTableLogged, MemTableCovered

\* A power loss takes nothing durable from a WAL file.
LEMMA SurvivorsKeep ==
    ASSUME NEW w \in WalFile, w.st \in {"none", "bare"} => w.recs = {},
           NEW v \in Survivors(w)
    PROVE  /\ Durable(w) \subseteq Durable(v)
           /\ v.st \in {"none", "bare"} => v.recs = {}
<1>1. ASSUME NEW t \in Prefixes(w.tail), NEW b \in BOOLEAN, v = CutBack(w, t, b)
      PROVE  /\ v.recs = w.recs
             /\ v.st = IF w.st = "loose" THEN "ready" ELSE w.st
      BY <1>1 DEF CutBack, Prefixes, WalFile
<1>2. CASE \E t \in Prefixes(w.tail), b \in BOOLEAN : v = CutBack(w, t, b)
      BY <1>1, <1>2 DEF Durable
<1>3. CASE v \in {NoWal, WalWith("bare")} /\ w.st \in {"bare", "loose"}
      BY <1>3, NoWalShape DEF Durable
<1>. QED
      BY <1>2, <1>3 DEF Survivors

LEMMA DurPowerLoss ==
    ASSUME DurInv, PowerLoss
    PROVE  DurInv'
<1>. USE DEF DurInv
<1>1. TypeOK'
      BY TypeCrash
<1>2. ~Running' /\ older' = {} /\ disk' \in {disk} \cup older /\ UNCHANGED <<sst, hist>>
      BY DEF PowerLoss, ProcessGone, Running
<1>3. Known' = {disk'} /\ Candidates' = {disk'} /\ disk' \in Known /\ disk' \in Candidates
      BY <1>2 DEF Known, Candidates, Publishing
<1>4. disk'.log \in Numbers
      BY <1>1 DEF TypeOK, Manifest
<1>5. PICK v \in Survivors(wal[disk'.log]) : wal' = [wal EXCEPT ![disk'.log] = v]
      BY DEF PowerLoss
<1>6. /\ Durable(wal[disk'.log]) \subseteq Durable(v)
      /\ v.st \in {"none", "bare"} => v.recs = {}
      BY <1>4, SurvivorsKeep DEF TypeOK, WalShape
<1>7. WalShape'
      BY <1>4, <1>5, <1>6 DEF WalShape, TypeOK
<1>8. wal'[disk'.log] = v
      BY <1>4, <1>5 DEF TypeOK
<1>9. CandidatesCovered'
  <2>1. Covers(Stored(sst, disk') \cup Durable(wal[disk'.log]), hist)
        BY <1>3 DEF CandidatesCovered
  <2>2. Covers(Stored(sst, disk') \cup Durable(v), hist)
        BY <1>6, <2>1, CoversMono
  <2>. QED
        BY <1>2, <1>3, <1>8, <2>2 DEF CandidatesCovered
<1>. QED
      BY <1>1, <1>2, <1>3, <1>7, <1>9
      DEF TablesExist, TablesNumbered, LogCurrent, Publishing, MemTableLogged, MemTableCovered

-----------------------------------------------------------------------------
(***************************************************************************)
(* Writes.                                                                 *)
(***************************************************************************)

LEMMA DurWrite ==
    ASSUME Journaled, DurInv, NEW n \in 1..MaxBatch, NEW b \in [1..n -> Op], Write(b, n)
    PROVE  DurInv'
<1>. USE DEF DurInv
<1>. DEFINE frame == BatchRecords(b, n)
            w == wal[walNo]
<1>1. TypeOK'
      BY TypeWrite DEF AnyWrite
<1>2. /\ Running /\ Publishing /\ Running' /\ Publishing'
      /\ UNCHANGED <<walNo, man, sst, disk, older>>
      BY DEF Write, Writing, Running, Publishing
<1>3. Known' = Known /\ Candidates' = Candidates /\ \A m \in Candidates : m.log = walNo
      BY <1>2 DEF Known, Candidates, LogCurrent
<1>4. walNo \in Numbers /\ w \in WalFile
      BY DEF TypeOK
<1>5. wal' = [wal EXCEPT ![walNo] = AppendSynced(w, frame)]
      /\ mem' = mem \cup frame /\ hist' = hist \cup Readable(w) \cup frame
      BY DEF Write
<1>. HIDE DEF w, frame
<1>6. wal'[walNo] = AppendSynced(w, frame)
      BY <1>4, <1>5 DEF TypeOK
<1>7. /\ AppendSynced(w, frame).st \in {"ready", "corrupt"}
      /\ AppendSynced(w, frame).recs = Readable(w) \cup frame
      BY <1>4 DEF AppendSynced, WalFile
<1>8. Durable(wal'[walNo]) = Readable(w) \cup frame
      BY <1>6, <1>7 DEF Durable
<1>9. WalShape'
      BY <1>4, <1>5, <1>6, <1>7 DEF WalShape, TypeOK
<1>10. CandidatesCovered'
  <2>1. ASSUME NEW m \in Candidates
        PROVE  Covers(Stored(sst, m) \cup (Readable(w) \cup frame),
                      hist \cup (Readable(w) \cup frame))
    <3>1. Covers(Stored(sst, m) \cup Durable(w), hist)
          BY <1>3 DEF CandidatesCovered, w
    <3>2. Readable(w) \cup frame \subseteq Record
          BY <1>1, <1>5 DEF TypeOK
    <3>3. Stored(sst, m) \subseteq Record
          BY StoredType DEF TypeOK, Candidates
    <3>. QED
          BY <3>1, <3>2, <3>3, DurableInReadable, CoversGrow
  <2>. QED
        BY <1>2, <1>3, <1>5, <1>8, <2>1 DEF CandidatesCovered
<1>11. Readable(w) \subseteq mem
      BY <1>2 DEF Write, MayAppend, MemTableLogged, w
<1>12. MemTableLogged'
  <2>1. AppendSynced(w, frame).tail = {}
        BY <1>4 DEF AppendSynced, WalFile
  <2>2. Readable(wal'[walNo]) = Readable(w) \cup frame
        BY <1>6, <1>7, <2>1 DEF Readable
  <2>. QED
        BY <1>2, <1>5, <1>11, <2>2 DEF MemTableLogged
<1>13. MemTableCovered'
  <2>1. Covers(Stored(sst, man) \cup mem, hist)
        BY <1>2 DEF MemTableCovered
  <2>2. Stored(sst, man) \cup (mem \cup frame) \in SUBSET Record
        BY <1>1, <1>5, StoredType DEF TypeOK
  <2>3. Covers(Stored(sst, man) \cup (mem \cup frame), hist \cup (Readable(w) \cup frame))
        BY <1>11, <2>1, <2>2, CoversGrow
  <2>. QED
        BY <1>2, <1>5, <2>3 DEF MemTableCovered
<1>. QED
      BY <1>1, <1>2, <1>3, <1>9, <1>10, <1>12, <1>13 DEF TablesExist, TablesNumbered, LogCurrent

\* A failed append changes neither what is durable nor the memtable.
LEMMA DurWriteFails ==
    ASSUME DurInv, NEW n \in 1..MaxBatch, NEW b \in [1..n -> Op], WriteFails(b, n)
    PROVE  DurInv'
<1>. USE DEF DurInv
<1>. DEFINE frame == BatchRecords(b, n)
<1>1. TypeOK'
      BY TypeWrite DEF AnyWrite
<1>2. /\ Running' = Running /\ Publishing' = Publishing
      /\ UNCHANGED <<mem, walNo, man, sst, disk, older, hist>>
      BY DEF WriteFails, Running, Publishing
<1>3. Known' = Known /\ Candidates' = Candidates
      BY <1>2 DEF Known, Candidates
<1>4. PICK w \in AppendFailures(wal[walNo], frame) : wal' = [wal EXCEPT ![walNo] = w]
      BY DEF WriteFails
<1>. HIDE DEF frame
<1>5. w.st = wal[walNo].st /\ w.recs = wal[walNo].recs
      BY DEF AppendFailures, TypeOK, WalFile
<1>6. \A i \in Numbers : wal'[i].st = wal[i].st /\ wal'[i].recs = wal[i].recs
      BY <1>4, <1>5 DEF TypeOK
<1>7. \A i \in Numbers : Durable(wal'[i]) = Durable(wal[i])
      BY <1>6 DEF Durable
<1>8. \A m \in Candidates : m.log \in Numbers
      BY DEF Candidates, TypeOK, Manifest
<1>9. WalShape' /\ poisoned'
      BY <1>6 DEF WalShape, WriteFails
<1>. QED
      BY <1>1, <1>2, <1>3, <1>7, <1>8, <1>9
      DEF TablesExist, TablesNumbered, LogCurrent, CandidatesCovered, MemTableLogged,
          MemTableCovered

\* Steps that leave the disk, the log, the memtable and the MANIFEST alone.
LEMMA DurIdle ==
    ASSUME DurInv,
           \/ WriteEmpty
           \/ \E n \in 1..MaxBatch : WriteRejected(n)
           \/ LoopDone
           \/ \E h \in Handles : TakeSnapshot(h) \/ ReleaseSnapshot(h)
    PROVE  DurInv'
<1>. USE DEF DurInv
<1>1. TypeOK'
      BY TypeWrite, TypeRest DEF AnyWrite
<1>2. /\ Running' = Running /\ (Publishing' => Publishing)
      /\ UNCHANGED <<mem, walNo, poisoned, man, sst, wal, disk, older, hist>>
      BY DEF WriteEmpty, WriteRejected, LoopDone, TakeSnapshot, ReleaseSnapshot, Writing,
             diskVars, Running, Publishing
<1>3. Known' = Known /\ Candidates' \subseteq Candidates
      BY <1>2 DEF Known, Candidates
<1>. QED
      BY <1>1, <1>2, <1>3
      DEF WalShape, TablesExist, TablesNumbered, LogCurrent, CandidatesCovered,
          MemTableLogged, MemTableCovered

-----------------------------------------------------------------------------
(***************************************************************************)
(* Flush.                                                                  *)
(***************************************************************************)

\* The new table is no one's yet, and with it the tables cover the history.
LEMMA BuiltCovers ==
    ASSUME DurInv, Flushing, sst[tableNumber] = {}
    PROVE  /\ \A m \in Known : /\ tableNumber \notin allTableNumbers(m)
                               /\ \A n \in allTableNumbers(m) : Built[n] = sst[n]
                               /\ Stored(Built, m) = Stored(sst, m)
           /\ allTableNumbers(ManFlushed) = allTableNumbers(man) \cup {tableNumber}
           /\ allTableNumbers(ManNumbered) = allTableNumbers(man)
           /\ ManFlushed.next = man.next + 2 /\ ManFlushed.log = nextWALNumber
           /\ ManNumbered.next = man.next + 2
           /\ Built[tableNumber] = mem
           /\ Stored(Built, ManFlushed) = Stored(sst, man) \cup mem
           /\ Covers(Stored(Built, ManFlushed), hist)
<1>. USE DEF DurInv
<1>1. Running /\ man \in Known
      BY DEF Flushing, Running, Known
<1>2. tableNumber \in Numbers /\ 0 \in Levels
      BY NumberAssumption, LevelAssumption
      DEF Flushing, tableNumber, nextWALNumber, Numbers, Levels, TypeOK, Manifest
<1>3. Known \subseteq Manifest
      BY DEF Known, TypeOK
<1>4. ASSUME NEW m \in Known
      PROVE  /\ tableNumber \notin allTableNumbers(m)
             /\ \A n \in allTableNumbers(m) : Built[n] = sst[n]
  <2>1. tableNumber \notin allTableNumbers(m)
        BY DEF TablesExist
  <2>2. allTableNumbers(m) \subseteq Numbers
        BY <1>3 DEF allTableNumbers, Manifest
  <2>. QED
        BY <2>1, <2>2 DEF Built, TypeOK
<1>5. \A m \in Known : Stored(Built, m) = Stored(sst, m)
      BY <1>4, StoredSame
<1>6. /\ man.levels \in [Levels -> SUBSET Numbers]
      /\ ManNumbered.levels = man.levels
      /\ ManFlushed.levels = [man.levels EXCEPT ![0] = @ \cup {tableNumber}]
      /\ ManFlushed.next = man.next + 2 /\ ManFlushed.log = nextWALNumber
      /\ ManNumbered.next = man.next + 2
      BY DEF ManFlushed, ManNumbered, TypeOK, Manifest
<1>7. /\ allTableNumbers(ManFlushed) = allTableNumbers(man) \cup {tableNumber}
      /\ allTableNumbers(ManNumbered) = allTableNumbers(man)
      BY <1>2, <1>6 DEF allTableNumbers
<1>8. Built[tableNumber] = mem
      BY <1>2 DEF Built, TypeOK
<1>9. Stored(Built, ManFlushed) = Stored(sst, man) \cup mem
      BY <1>1, <1>4, <1>7, <1>8 DEF Stored, Contents
<1>10. Covers(Stored(Built, ManFlushed), hist)
      BY <1>1, <1>9 DEF MemTableCovered
<1>. QED
      BY <1>4, <1>5, <1>6, <1>7, <1>8, <1>9, <1>10

LEMMA DurFlushBuildFails ==
    ASSUME DurInv, FlushBuildFails
    PROVE  DurInv'
<1>. USE DEF DurInv
<1>1. TypeOK'
      BY TypeFlush DEF AnyFlush
<1>2. /\ Running /\ Running' /\ ~Publishing' /\ man' = ManNumbered
      /\ UNCHANGED <<mem, walNo, poisoned, wal, disk, older, hist>>
      BY DEF FlushBuildFails, Flushing, GiveUpFlush, Running, Publishing
<1>3. /\ allTableNumbers(ManNumbered) = allTableNumbers(man)
      /\ ManNumbered.next = man.next + 2
      BY DEF ManNumbered, allTableNumbers, TypeOK, Manifest
<1>4. man \in Known /\ \A m \in Known : m.next \in Int
      BY <1>2 DEF Known, TypeOK, Manifest
<1>5. Known' \subseteq Known \cup {ManNumbered} /\ Candidates' \subseteq Candidates
      BY <1>2 DEF Known, Candidates
<1>6. \A m \in Known : /\ \A n \in allTableNumbers(m) : sst'[n] = sst[n]
                       /\ Stored(sst', m) = Stored(sst, m)
      BY BuiltCovers, StoredSame DEF FlushBuildFails
<1>7. Stored(sst', ManNumbered) = Stored(sst', man)
      BY <1>3 DEF Stored
<1>8. TablesExist' /\ TablesNumbered'
  <2>1. \A m \in Known' : \A n \in allTableNumbers(m) : sst'[n] # {}
        BY <1>3, <1>4, <1>5, <1>6 DEF TablesExist
  <2>2. \A m \in Known' : \A n \in allTableNumbers(m) : n < m.next
    <3>1. \A n \in allTableNumbers(man) : n \in Int
          BY DEF allTableNumbers, TypeOK, Manifest, Numbers
    <3>. QED
          BY <1>2, <1>3, <1>4, <1>5, <3>1 DEF TablesNumbered
  <2>3. \A m \in Known' : m.next <= man.next + 2
        BY <1>2, <1>3, <1>4, <1>5 DEF TablesNumbered
  <2>. QED
        BY <1>2, <1>3, <2>1, <2>2, <2>3 DEF TablesExist, TablesNumbered
<1>9. CandidatesCovered'
  <2>1. Candidates' \subseteq Known
        BY <1>2 DEF Candidates, Known
  <2>. QED
        BY <1>2, <1>5, <1>6, <2>1 DEF CandidatesCovered
<1>10. MemTableCovered'
      BY <1>2, <1>4, <1>6, <1>7 DEF MemTableCovered
<1>. QED
      BY <1>1, <1>2, <1>8, <1>9, <1>10 DEF WalShape, LogCurrent, MemTableLogged

\* The numbers of the tables after a flush.
LEMMA FlushedNumbers ==
    ASSUME DurInv, Flushing, sst[tableNumber] = {}
    PROVE  /\ \A n \in allTableNumbers(ManFlushed) : n < ManFlushed.next /\ Built[n] # {}
           /\ \A m \in Known : m.next <= ManFlushed.next
           /\ ManFlushed.next \in Int
<1>. USE DEF DurInv
<1>1. Running /\ man \in Known /\ \A m \in Known : m.next \in Int
      BY DEF Flushing, Running, Known, TypeOK, Manifest
<1>2. \A n \in allTableNumbers(man) : n \in Int /\ n < man.next /\ sst[n] # {}
  <2>1. \A n \in allTableNumbers(man) : n < man.next /\ sst[n] # {}
        BY <1>1 DEF TablesNumbered, TablesExist
  <2>2. \A n \in allTableNumbers(man) : n \in Int
        BY <1>1 DEF allTableNumbers, TypeOK, Manifest, Numbers
  <2>. QED BY <2>1, <2>2
<1>3. mem # {} /\ tableNumber = man.next
      BY DEF Flushing, tableNumber
<1>4. ASSUME NEW n \in allTableNumbers(ManFlushed)
      PROVE  n < ManFlushed.next /\ Built[n] # {}
      BY <1>1, <1>2, <1>3, <1>4, BuiltCovers
<1>5. \A m \in Known : m.next <= man.next
      BY <1>1 DEF TablesNumbered
<1>. QED
      BY <1>1, <1>4, <1>5, BuiltCovers

LEMMA DurFlushSaveFails ==
    ASSUME DurInv, FlushSaveFails
    PROVE  DurInv'
<1>. USE DEF DurInv
<1>1. TypeOK'
      BY TypeFlush DEF AnyFlush
<1>2. /\ Running /\ Running' /\ ~Publishing' /\ man' = ManFlushed /\ sst' = Built
      /\ Flushing /\ sst[tableNumber] = {}
      /\ UNCHANGED <<mem, walNo, poisoned, wal, hist>>
      BY DEF FlushSaveFails, SaveFails, Building, Flushing, GiveUpFlush, Running, Publishing
<1>3. {disk'} \cup older' \subseteq {disk} \cup older \cup {ManFlushed}
      BY DEF FlushSaveFails, SaveFails
<1>4. Known' \subseteq Known \cup {ManFlushed} /\ Candidates' \subseteq {disk} \cup older \cup {ManFlushed}
      BY <1>2, <1>3 DEF Known, Candidates
<1>5. TablesExist' /\ TablesNumbered'
  <2>1. ASSUME NEW m \in Known'
        PROVE  /\ \A n \in allTableNumbers(m) : sst'[n] # {} /\ n < m.next
               /\ m.next <= man'.next
    <3>1. CASE m \in Known
          BY <1>2, <3>1, BuiltCovers, FlushedNumbers DEF TablesExist, TablesNumbered
    <3>2. CASE m = ManFlushed
          BY <1>2, <3>2, FlushedNumbers
    <3>. QED
          BY <1>4, <3>1, <3>2
  <2>. QED
        BY <2>1 DEF TablesExist, TablesNumbered
<1>6. CandidatesCovered'
  <2>1. ASSUME NEW m \in {disk} \cup older
        PROVE  Covers(Stored(Built, m) \cup Durable(wal[m.log]), hist)
    <3>1. m \in Candidates /\ m \in Known
          BY DEF Candidates, Known
    <3>. QED
          BY <1>2, <3>1, BuiltCovers DEF CandidatesCovered
  <2>2. Covers(Stored(Built, ManFlushed) \cup Durable(wal[ManFlushed.log]), hist)
        BY <1>2, BuiltCovers, CoversMono
  <2>. QED
        BY <1>2, <1>4, <2>1, <2>2 DEF CandidatesCovered
<1>7. MemTableCovered'
      BY <1>2, BuiltCovers, CoversMono DEF MemTableCovered
<1>. QED
      BY <1>1, <1>2, <1>5, <1>6, <1>7 DEF WalShape, LogCurrent, MemTableLogged

\* Once the MANIFEST is saved the rest of flush() cannot lose anything: what
\* it still does is to the WALs, which the new tables have made redundant.
LEMMA DurFlushSaved ==
    ASSUME DurInv, Flush \/ FlushNewWalFails \/ FlushUnlinkFails
    PROVE  DurInv'
<1>. USE DEF DurInv
<1>1. TypeOK'
      BY TypeFlush DEF AnyFlush
<1>2. /\ Running /\ Running' /\ man' = ManFlushed /\ sst' = Built
      /\ Flushing /\ sst[tableNumber] = {}
      /\ disk' = ManFlushed /\ older' = {}
      /\ hist' = hist \cup Stored(Built, ManFlushed)
      BY DEF Flush, FlushNewWalFails, FlushUnlinkFails, Save, Building, Flushing,
             GiveUpFlush, Running
<1>3. Known' = {ManFlushed} /\ Candidates' = {ManFlushed}
      BY <1>2 DEF Known, Candidates
<1>4. TablesExist' /\ TablesNumbered'
      BY <1>2, <1>3, FlushedNumbers DEF TablesExist, TablesNumbered
<1>5. Stored(Built, ManFlushed) \subseteq Record
      BY <1>1, <1>2, StoredType DEF TypeOK
<1>6. Covers(Stored(Built, ManFlushed), hist \cup Stored(Built, ManFlushed))
      BY <1>2, <1>5, BuiltCovers, CoversGrow
<1>7. CandidatesCovered' /\ MemTableCovered'
      BY <1>2, <1>3, <1>6, CoversMono DEF CandidatesCovered, MemTableCovered
<1>8. nextWALNumber \in Numbers /\ walNo \in Numbers
      BY <1>2, NumberAssumption
      DEF Flushing, tableNumber, nextWALNumber, Numbers, TypeOK, Manifest
<1>9. ManFlushed.log = nextWALNumber
      BY <1>2, BuiltCovers
<1>10. CASE FlushNewWalFails
  <2>1. PICK w \in NewWalLeftovers : wal' = [wal EXCEPT ![nextWALNumber] = w]
        BY <1>10 DEF FlushNewWalFails
  <2>2. w.recs = {} /\ w.tail = {}
        BY NoWalShape DEF NewWalLeftovers
  <2>3. \A n \in Numbers : wal'[n] = IF n = nextWALNumber THEN w ELSE wal[n]
        BY <2>1 DEF TypeOK
  <2>4. ~Publishing' /\ UNCHANGED <<mem, walNo, poisoned>>
        BY <1>10 DEF FlushNewWalFails, GiveUpFlush, Publishing
  <2>5. WalShape'
        BY <2>2, <2>3 DEF WalShape
  <2>6. Readable(w) = {}
        BY <2>2 DEF Readable
  <2>7. MemTableLogged'
        BY <1>2, <1>8, <2>3, <2>4, <2>6 DEF MemTableLogged
  <2>. QED
        BY <1>1, <1>4, <1>7, <2>4, <2>5, <2>7 DEF LogCurrent
<1>11. CASE Flush \/ FlushUnlinkFails
  <2>1. walNo' = nextWALNumber
        BY <1>11 DEF Flush, FlushUnlinkFails, SwitchMemTable
  <2>2. \A n \in Numbers : \/ wal'[n] = wal[n] /\ n # nextWALNumber
                           \/ wal'[n] = NoWal /\ n # nextWALNumber
                           \/ wal'[n] = WalWith("ready") /\ n = nextWALNumber
        BY <1>8, <1>11 DEF Flush, FlushUnlinkFails, SwitchMemTable, TypeOK
  <2>3. WalShape'
        BY <2>2, NoWalShape DEF WalShape
  <2>4. Readable(wal'[walNo']) = {}
        BY <1>8, <2>1, <2>2, NoWalShape DEF Readable
  <2>. QED
        BY <1>1, <1>3, <1>4, <1>7, <1>9, <2>1, <2>3, <2>4 DEF LogCurrent, MemTableLogged
<1>. QED
      BY <1>10, <1>11

-----------------------------------------------------------------------------
(***************************************************************************)
(* Compaction.                                                             *)
(***************************************************************************)

\* The inputs of a compaction are tables of the process's MANIFEST.
LEMMA InputsListed ==
    ASSUME NEW l \in 0..(MaxLevel - 1), NEW inputs \in CompactionInputs(l)
    PROVE  inputs \subseteq allTableNumbers(man)
<1>1. 0 \in Levels /\ 1 \in Levels /\ l \in Levels /\ l + 1 \in Levels
      BY LevelAssumption DEF Levels
<1>2. \A k \in Levels : man.levels[k] \subseteq allTableNumbers(man)
      BY DEF allTableNumbers
<1>3. \A k \in Levels : \A recs : Overlapping(k, recs) \subseteq allTableNumbers(man)
      BY <1>2 DEF Overlapping
<1>. QED
      BY <1>1, <1>2, <1>3
      DEF CompactionInputs, selectLevelZeroCompactionTables, selectHigherLevelCompactionTables

\* The output of a compaction: its slices exist under new numbers, no other
\* table has changed, and it covers all that the inputs held.
LEMMA CompactedCovers ==
    ASSUME TypeOK, TablesExist, TablesNumbered, Running,
           NEW l \in 0..(MaxLevel - 1), NEW inputs \in SUBSET allTableNumbers(man),
           NEW recs \in SUBSET Record, Covers(recs, Contents(sst, inputs)),
           NEW m \in Nat \ {0}, NEW f \in Slicings(recs, m), man.next + m <= MaxNumber + 1
    PROVE  /\ allTableNumbers(replaceTables(inputs, m, l + 1)) \cap inputs = {}
           /\ replaceTables(inputs, m, l + 1).next = man.next + m
           /\ replaceTables(inputs, m, l + 1).log = man.log
           /\ \A n \in allTableNumbers(replaceTables(inputs, m, l + 1)) :
                  /\ WithSlices(recs, f, m)[n] # {}
                  /\ n < replaceTables(inputs, m, l + 1).next
           /\ \A j \in 0..m : \A n \in Numbers :
                  n < man.next => WithSlices(recs, f, j)[n] = sst[n]
           /\ Covers(Stored(WithSlices(recs, f, m), replaceTables(inputs, m, l + 1)),
                     Stored(sst, man))
<1>. DEFINE M == replaceTables(inputs, m, l + 1)
            F == WithSlices(recs, f, m)
            new == man.next..(man.next + m - 1)
            tables == allTableNumbers(man)
<1>1. man.next \in Nat /\ man.levels \in [Levels -> SUBSET Numbers] /\ l + 1 \in Levels
      BY LevelAssumption DEF TypeOK, Manifest, Levels
<1>2. tables \subseteq Numbers /\ \A n \in tables : n \in Int /\ n < man.next /\ sst[n] # {}
      BY <1>1 DEF allTableNumbers, TablesNumbered, TablesExist, Known, Numbers
<1>3. M.levels = [k \in Levels |-> (man.levels[k] \ inputs) \cup
                                     (IF k = l + 1 THEN new ELSE {})]
      /\ M.next = man.next + m /\ M.log = man.log
      BY DEF replaceTables, TypeOK, Manifest
<1>4. allTableNumbers(M) = (tables \ inputs) \cup new
  <2>. HIDE DEF M, new
  <2>. QED
        BY <1>1, <1>3 DEF allTableNumbers
<1>5. new \cap inputs = {} /\ new \cap tables = {}
      BY <1>1, <1>2
<1>6. new \subseteq Numbers
      BY <1>1, NumberAssumption DEF Numbers
<1>7. \A j \in 0..m : \A n \in Numbers : n < man.next => WithSlices(recs, f, j)[n] = sst[n]
      BY <1>1 DEF WithSlices, Numbers
<1>8. /\ \A n \in tables : F[n] = sst[n]
      /\ \A n \in new : F[n] = {r \in recs : man.next + f[r.key] = n}
  <2>1. m \in 0..m
        OBVIOUS
  <2>. QED
        BY <1>2, <1>6, <1>7, <2>1 DEF WithSlices
<1>9. /\ \A k \in KeysOf(recs) : f[k] \in 0..(m - 1)
      /\ \A i \in 0..(m - 1) : \E k \in KeysOf(recs) : f[k] = i
      BY DEF Slicings
<1>. HIDE DEF M, F
<1>10. \A n \in new : F[n] # {} /\ n < M.next
  <2>. SUFFICES ASSUME NEW n \in new PROVE F[n] # {} /\ n < M.next
        OBVIOUS
  <2>1. n - man.next \in 0..(m - 1) /\ n < M.next
        BY <1>1, <1>3
  <2>2. PICK r \in recs : f[r.key] = n - man.next
        BY <1>9, <2>1 DEF KeysOf
  <2>3. r \in F[n]
        BY <1>1, <1>8, <2>2
  <2>. QED
        BY <2>1, <2>3
<1>11. \A n \in tables : F[n] # {} /\ n < M.next
      BY <1>1, <1>2, <1>3, <1>8
<1>12. \A r \in recs : r \in Stored(F, M)
  <2>. SUFFICES ASSUME NEW r \in recs PROVE r \in Stored(F, M)
        OBVIOUS
  <2>1. f[r.key] \in 0..(m - 1)
        BY <1>9 DEF KeysOf
  <2>2. man.next + f[r.key] \in new
        BY <1>1, <2>1
  <2>3. r \in F[man.next + f[r.key]]
        BY <1>8, <2>2
  <2>. QED
        BY <1>4, <2>2, <2>3 DEF Stored, Contents
<1>13. \A x \in Stored(sst, man) : x \in Contents(sst, inputs) \/ x \in Stored(F, M)
      BY <1>4, <1>8 DEF Stored, Contents
<1>14. \A x \in Stored(sst, man) : x.seq \in Int
      BY StoredType DEF TypeOK, Record
<1>15. Covers(Stored(F, M), Stored(sst, man))
      BY <1>12, <1>13, <1>14 DEF Covers
<1>. QED
      BY <1>3, <1>4, <1>5, <1>7, <1>10, <1>11, <1>15 DEF M, F

\* The oldest sequence number that compaction must keep readable is a number.
LEMMA SmallestSnapshotType ==
    ASSUME TypeOK PROVE smallestActiveSnapshot \in Int
<1>. DEFINE S == {snap[h] : h \in Live}
<1>1. CASE Live = {}
      BY <1>1 DEF smallestActiveSnapshot, TypeOK
<1>2. CASE Live # {}
  <2>1. S \in SUBSET Nat /\ S # {}
        BY <1>2 DEF Live, TypeOK, NoSnap
  <2>. HIDE DEF S
  <2>2. Min(S) \in Nat
        BY <2>1, MinNat
  <2>. QED
        BY <1>2, <2>2 DEF smallestActiveSnapshot, S
<1>. QED
      BY <1>1, <1>2

\* Compaction only runs where the process's MANIFEST may be published.
LEMMA CompactPublishes ==
    ASSUME ~CompactWhenFailed, NEW l, MayCompact(l)
    PROVE  Publishing /\ Running
BY DEF MayCompact, Publishing, Running

\* A compaction that fails before the MANIFEST is saved has only spent
\* numbers, and left files that nobody lists.
LEMMA DurCompactWriteFails ==
    ASSUME DurInv, Publishing, NEW failed \in Nat,
           man' = [man EXCEPT !.next = @ + failed],
           \A n \in Numbers : n < man.next => sst'[n] = sst[n],
           TypeOK', Running', UNCHANGED <<mem, walNo, poisoned, wal, disk, older, hist>>
    PROVE  DurInv'
<1>. USE DEF DurInv
<1>1. /\ allTableNumbers(man') = allTableNumbers(man)
      /\ man'.next = man.next + failed /\ man'.log = man.log
      BY DEF allTableNumbers, TypeOK, Manifest
<1>2. Running /\ man \in Known /\ man \in Candidates
      BY DEF Publishing, Known, Candidates
<1>3. \A m \in Known : m.next \in Int /\ m.log \in Numbers /\ allTableNumbers(m) \subseteq Numbers
      BY DEF Known, TypeOK, Manifest, allTableNumbers
<1>4. Known' \subseteq Known \cup {man'} /\ Candidates' \subseteq Candidates \cup {man'}
      /\ Candidates \subseteq Known
      BY <1>2 DEF Known, Candidates
<1>5. \A m \in Known : /\ \A n \in allTableNumbers(m) : sst'[n] = sst[n]
                       /\ Stored(sst', m) = Stored(sst, m)
  <2>1. ASSUME NEW m \in Known, NEW n \in allTableNumbers(m)
        PROVE  n \in Numbers /\ n < man.next
        BY <1>2, <1>3, <2>1 DEF TablesNumbered, Numbers
  <2>. QED
        BY <2>1, StoredSame
<1>6. Stored(sst', man') = Stored(sst', man)
      BY <1>1 DEF Stored
<1>7. TablesExist'
      BY <1>1, <1>2, <1>4, <1>5 DEF TablesExist
<1>8. TablesNumbered'
  <2>1. ASSUME NEW m \in Known'
        PROVE  (\A n \in allTableNumbers(m) : n < m.next) /\ m.next <= man'.next
    <3>1. CASE m \in Known
          BY <1>1, <1>2, <1>3, <3>1 DEF TablesNumbered
    <3>2. CASE m = man'
          BY <1>1, <1>2, <1>3, <3>2 DEF TablesNumbered, Numbers
    <3>. QED
          BY <1>4, <3>1, <3>2
  <2>. QED
        BY <2>1 DEF TablesNumbered
<1>9. LogCurrent'
      BY <1>1, <1>2, <1>4 DEF LogCurrent
<1>10. CandidatesCovered'
  <2>1. ASSUME NEW m \in Candidates' PROVE Covers(Stored(sst', m) \cup Durable(wal[m.log]), hist)
    <3>1. CASE m \in Candidates
          BY <1>4, <1>5, <3>1 DEF CandidatesCovered
    <3>2. CASE m = man'
          BY <1>1, <1>2, <1>5, <1>6, <3>2 DEF CandidatesCovered
    <3>. QED
          BY <1>4, <3>1, <3>2
  <2>. QED
        BY <2>1 DEF CandidatesCovered
<1>11. MemTableCovered'
      BY <1>2, <1>5, <1>6 DEF MemTableCovered
<1>. QED
      BY <1>2, <1>7, <1>8, <1>9, <1>10, <1>11 DEF WalShape, MemTableLogged

\* A compaction that puts a MANIFEST M over the files F in the place of the
\* process's own keeps what was covered covered, whether the new MANIFEST is
\* saved (and the inputs removed), or its saving fails half-way.
LEMMA DurCompactReplaces ==
    ASSUME DurInv, Publishing, TypeOK', Running',
           NEW M \in Manifest, NEW F \in [Numbers -> SUBSET Record],
           man' = M, M.next >= man.next, M.log = man.log,
           \A n \in allTableNumbers(M) : F[n] # {} /\ n < M.next,
           \A n \in Numbers : n < man.next => F[n] = sst[n],
           Covers(Stored(F, M), Stored(sst, man)),
           UNCHANGED <<mem, walNo, poisoned, wal>>,
           \/ /\ sst' = F /\ hist' = hist
              /\ {disk'} \cup older' \subseteq {disk} \cup older \cup {M}
           \/ /\ \A n \in allTableNumbers(M) : sst'[n] = F[n]
              /\ hist' = hist \cup Stored(F, M)
              /\ disk' = M /\ older' = {}
    PROVE  DurInv'
<1>. USE DEF DurInv
<1>1. Running /\ man \in Known /\ man \in Candidates
      BY DEF Publishing, Known, Candidates
<1>2. \A m \in Known : m.next \in Int /\ m.log \in Numbers /\ allTableNumbers(m) \subseteq Numbers
      BY DEF Known, TypeOK, Manifest, allTableNumbers
<1>3. /\ Stored(F, M) \subseteq Record /\ Stored(sst, man) \subseteq Record
      /\ Durable(wal[man.log]) \subseteq Record /\ mem \subseteq Record /\ hist \subseteq Record
      /\ M.next \in Int /\ man.log \in Numbers
      BY StoredType, DurableType DEF TypeOK, Manifest
<1>4. /\ Covers(Stored(F, M) \cup Durable(wal[man.log]), hist)
      /\ Covers(Stored(F, M) \cup mem, hist)
  <2>1. /\ Covers(Stored(sst, man) \cup Durable(wal[man.log]), hist)
        /\ Covers(Stored(sst, man) \cup mem, hist)
        BY <1>1 DEF CandidatesCovered, MemTableCovered
  <2>. QED
        BY <1>3, <2>1, CoversReplace
<1>5. \A m \in Known : /\ \A n \in allTableNumbers(m) : F[n] = sst[n]
                       /\ Stored(F, m) = Stored(sst, m)
  <2>1. ASSUME NEW m \in Known, NEW n \in allTableNumbers(m)
        PROVE  n \in Numbers /\ n < man.next
        BY <1>1, <1>2, <2>1 DEF TablesNumbered, Numbers
  <2>. QED
        BY <2>1, StoredSame
<1>6. CASE /\ sst' = F /\ hist' = hist
           /\ {disk'} \cup older' \subseteq {disk} \cup older \cup {M}
  <2>1. /\ Known' \subseteq Known \cup {M} /\ Candidates' \subseteq Candidates \cup {M}
        /\ Candidates \subseteq Known
        BY <1>1, <1>6 DEF Known, Candidates
  <2>2. ASSUME NEW m \in Known'
        PROVE  /\ \A n \in allTableNumbers(m) : sst'[n] # {} /\ n < m.next
               /\ m.next <= man'.next
    <3>1. CASE m \in Known
          BY <1>1, <1>2, <1>3, <1>5, <1>6, <3>1 DEF TablesNumbered, TablesExist
    <3>2. CASE m = M
          BY <1>3, <1>6, <3>2
    <3>. QED
          BY <2>1, <3>1, <3>2
  <2>3. TablesExist' /\ TablesNumbered'
        BY <2>2 DEF TablesExist, TablesNumbered
  <2>4. LogCurrent'
        BY <1>1, <2>1 DEF LogCurrent
  <2>5. ASSUME NEW m \in Candidates' PROVE Covers(Stored(F, m) \cup Durable(wal[m.log]), hist)
    <3>1. CASE m \in Candidates
          BY <1>5, <2>1, <3>1 DEF CandidatesCovered
    <3>2. CASE m = M
          BY <1>4, <3>2
    <3>. QED
          BY <2>1, <3>1, <3>2
  <2>6. CandidatesCovered' /\ MemTableCovered'
        BY <1>4, <1>6, <2>5 DEF CandidatesCovered, MemTableCovered
  <2>. QED
        BY <1>1, <2>3, <2>4, <2>6 DEF WalShape, MemTableLogged
<1>7. CASE /\ \A n \in allTableNumbers(M) : sst'[n] = F[n]
           /\ hist' = hist \cup Stored(F, M)
           /\ disk' = M /\ older' = {}
  <2>1. Known' = {M} /\ Candidates' = {M}
        BY <1>7 DEF Known, Candidates
  <2>2. Stored(sst', M) = Stored(F, M)
        BY <1>7, StoredSame
  <2>3. TablesExist' /\ TablesNumbered' /\ LogCurrent'
        BY <1>1, <1>3, <1>7, <2>1 DEF TablesExist, TablesNumbered, LogCurrent
  <2>4. /\ Covers(Stored(F, M) \cup Durable(wal[man.log]), hist \cup Stored(F, M))
        /\ Covers(Stored(F, M) \cup mem, hist \cup Stored(F, M))
        BY <1>3, <1>4, CoversGrow
  <2>5. CandidatesCovered' /\ MemTableCovered'
        BY <1>7, <2>1, <2>2, <2>4 DEF CandidatesCovered, MemTableCovered
  <2>. QED
        BY <1>1, <2>3, <2>5 DEF WalShape, MemTableLogged
<1>. QED
      BY <1>6, <1>7

LEMMA DurCompact ==
    ASSUME ~CompactWhenFailed, DurInv, NEW l \in 0..(MaxLevel - 1), Compact(l)
    PROVE  DurInv'
<1>. USE DEF DurInv
<1>1. Publishing /\ Running /\ Running' /\ UNCHANGED <<mem, walNo, poisoned, wal>>
      BY CompactPublishes
      DEF Compact, CompactWriteFails, CompactSaveFails, CompactUnlinkFails, CompactSucceeds,
          CompactionThrows, Running
<1>2. TypeOK'
      BY TypeCompact
<1>. DEFINE Ends(inputs, recs, m, f) ==
                \/ CompactWriteFails(recs, m, f)
                \/ CompactSaveFails(inputs, l + 1, recs, m, f)
                \/ CompactUnlinkFails(inputs, l + 1, recs, m, f)
                \/ CompactSucceeds(inputs, l + 1, recs, m, f)
            Output(inputs) == retainForCompaction(Contents(sst, inputs), smallestActiveSnapshot)
<1>3. PICK inputs \in CompactionInputs(l) :
          \E m \in 1..Cardinality(KeysOf(Output(inputs))) :
              \E f \in Slicings(Output(inputs), m) :
                  man.next + m <= MaxNumber + 1 /\ Ends(inputs, Output(inputs), m, f)
      BY DEF Compact
<1>. DEFINE recs == Output(inputs)
<1>4. PICK m \in 1..Cardinality(KeysOf(recs)) :
          \E f \in Slicings(recs, m) : man.next + m <= MaxNumber + 1 /\ Ends(inputs, recs, m, f)
      BY <1>3
<1>5. PICK f \in Slicings(recs, m) : man.next + m <= MaxNumber + 1 /\ Ends(inputs, recs, m, f)
      BY <1>4
<1>6. m \in Nat \ {0} /\ inputs \in SUBSET allTableNumbers(man) /\ smallestActiveSnapshot \in Int
      BY InputsListed, SmallestSnapshotType
<1>7. inputs \in SUBSET Numbers /\ recs \in SUBSET Record
      BY CompactionInputsType, RetainSubset DEF Contents, TypeOK
<1>8. m \in 0..m /\ TypeOK /\ TablesExist /\ TablesNumbered
      BY <1>6
<1>. HIDE DEF recs, Output, Ends
<1>. DEFINE M == replaceTables(inputs, m, l + 1)
            F == WithSlices(recs, f, m)
<1>9. M \in Manifest /\ F \in [Numbers -> SUBSET Record]
      BY <1>5, <1>6, <1>7, <1>8, TypeCompactRange
<1>10. /\ allTableNumbers(M) \cap inputs = {}
       /\ M.next = man.next + m /\ M.log = man.log
       /\ \A n \in allTableNumbers(M) : F[n] # {} /\ n < M.next
       /\ \A j \in 0..m : \A n \in Numbers : n < man.next => WithSlices(recs, f, j)[n] = sst[n]
       /\ Covers(Stored(F, M), Stored(sst, man))
  <2>1. Contents(sst, inputs) \in SUBSET Record
        BY <1>7, <1>8 DEF Contents, TypeOK
  <2>2. Covers(recs, Contents(sst, inputs))
        BY <1>6, <2>1, RetainCovers DEF recs, Output
  <2>. QED
        BY <1>1, <1>5, <1>6, <1>7, <1>8, <2>2, CompactedCovers
<1>11. man.next \in Int /\ M.next >= man.next
      BY <1>6, <1>10 DEF TypeOK, Manifest
<1>12. \A n \in Numbers : n < man.next => F[n] = sst[n]
      BY <1>6, <1>10
<1>13. CASE CompactWriteFails(recs, m, f)
  <2>1. PICK failed \in 1..m : \E done \in {failed - 1, failed} :
            man' = [man EXCEPT !.next = @ + failed] /\ sst' = WithSlices(recs, f, done)
        BY <1>13 DEF CompactWriteFails
  <2>2. PICK done \in {failed - 1, failed} :
            man' = [man EXCEPT !.next = @ + failed] /\ sst' = WithSlices(recs, f, done)
        BY <2>1
  <2>3. done \in 0..m /\ failed \in Nat
        BY <1>6
  <2>4. \A n \in Numbers : n < man.next => sst'[n] = sst[n]
        BY <1>10, <2>2, <2>3
  <2>5. UNCHANGED <<disk, older, hist>>
        BY <1>13 DEF CompactWriteFails
  <2>. QED
        BY <1>1, <1>2, <2>2, <2>3, <2>4, <2>5, DurCompactWriteFails
<1>14. CASE CompactSaveFails(inputs, l + 1, recs, m, f)
  <2>1. /\ man' = M /\ sst' = F /\ hist' = hist
        /\ {disk'} \cup older' \subseteq {disk} \cup older \cup {M}
        BY <1>14 DEF CompactSaveFails, SaveFails
  <2>. HIDE DEF M, F
  <2>. QED
        BY <1>1, <1>2, <1>9, <1>10, <1>11, <1>12, <2>1, DurCompactReplaces
<1>15. CASE CompactUnlinkFails(inputs, l + 1, recs, m, f) \/ CompactSucceeds(inputs, l + 1, recs, m, f)
  <2>1. /\ man' = M /\ disk' = M /\ older' = {} /\ hist' = hist \cup Stored(F, M)
        /\ \E gone \in SUBSET inputs : sst' = FilesRemoved(F, gone)
        BY <1>15 DEF CompactUnlinkFails, CompactSucceeds, Save
  <2>2. allTableNumbers(M) \subseteq Numbers /\ allTableNumbers(M) \cap inputs = {}
        BY <1>9, <1>10 DEF allTableNumbers, Manifest
  <2>. HIDE DEF M, F
  <2>3. \A n \in allTableNumbers(M) : sst'[n] = F[n]
        BY <2>1, <2>2 DEF FilesRemoved
  <2>. QED
        BY <1>1, <1>2, <1>9, <1>10, <1>11, <1>12, <2>1, <2>3, DurCompactReplaces
<1>. QED
      BY <1>5, <1>13, <1>14, <1>15 DEF Ends

-----------------------------------------------------------------------------
LEMMA DurStep ==
    ASSUME Journaled, ~CompactWhenFailed
    PROVE  DurInv /\ [Next]_vars => DurInv'
<1>. SUFFICES ASSUME DurInv, [Next]_vars PROVE DurInv'
      OBVIOUS
<1>1. CASE Open
      BY <1>1, DurOpen
<1>2. CASE OpenRefused \/ OpenTruncateFails \/ OpenNewWalFails \/ OpenUnlinkFails
      BY <1>2, DurOpenFails
<1>3. CASE Kill
      BY <1>3, DurKill
<1>4. CASE PowerLoss
      BY <1>4, DurPowerLoss
<1>5. CASE AnyWrite
      BY <1>5, DurWrite, DurWriteFails, DurIdle DEF AnyWrite
<1>6. CASE AnyFlush
      BY <1>6, DurFlushBuildFails, DurFlushSaveFails, DurFlushSaved DEF AnyFlush
<1>7. CASE \E l \in 0..(MaxLevel - 1) : Compact(l)
      BY <1>7, DurCompact
<1>8. CASE LoopDone \/ \E h \in Handles : TakeSnapshot(h) \/ ReleaseSnapshot(h)
      BY <1>8, DurIdle
<1>9. CASE UNCHANGED vars
  <2>1. Running' = Running /\ Publishing' = Publishing /\ Known' = Known
        /\ Candidates' = Candidates
        BY <1>9 DEF vars, procVars, diskVars, Running, Publishing, Known, Candidates
  <2>2. TypeOK'
        BY <1>9, TypeStep DEF DurInv
  <2>. QED
        BY <1>9, <2>1, <2>2
        DEF DurInv, vars, procVars, diskVars, WalShape, TablesExist, TablesNumbered,
            LogCurrent, CandidatesCovered, MemTableLogged, MemTableCovered
<1>. QED
      BY <1>1, <1>2, <1>3, <1>4, <1>5, <1>6, <1>7, <1>8, <1>9 DEF Next

\* The invariant says what CrashSafe does.
LEMMA DurInvSafe == DurInv => CrashSafe
BY DEF DurInv, TablesExist, CandidatesCovered, Known, Candidates, Covers, CrashSafe

\* No acknowledged write is lost: across write(), flush(), compaction, their
\* failures at any I/O call, process crashes, power losses and recovery, every
\* MANIFEST that a start may find has all its tables and, with its WAL, holds
\* every acknowledged record or a newer version of its key.
THEOREM AcknowledgedWritesSurvive ==
    ASSUME Journaled, ~CompactWhenFailed
    PROVE  Spec => []CrashSafe
BY DurInit, DurStep, DurInvSafe, PTL DEF Spec

-----------------------------------------------------------------------------
(***************************************************************************)
(* The proofs that file numbers are never handed out twice and that the    *)
(* levels below 0 stay sorted: NumbersFresh and RangesDisjoint.  They hold *)
(* where directory changes become durable in order (Journaled), whatever   *)
(* fails and whatever the client calls.                                    *)
(*                                                                         *)
(* Neither is inductive.  The next start takes its numbers and its levels  *)
(* from a MANIFEST on disk, possibly an older one, so every MANIFEST in    *)
(* play must be sound, and bound the numbers of all the WALs; a compaction *)
(* reads the ranges of files, so the tables of a MANIFEST must exist.      *)
(***************************************************************************)
USE NumberAssumption, LevelAssumption

\* The tables of a MANIFEST exist, below the next number, as its log is, and in
\* the levels below 0 their keys are apart.
Sound(m, files) ==
    /\ \A n \in allTableNumbers(m) : files[n] # {} /\ n < m.next
    /\ m.log <= m.next
    /\ \A l \in Levels \ {0} : \A n, p \in m.levels[l] : n # p => Apart(files[n], files[p])

ManifestsSound == \A m \in Known : Sound(m, sst)

ManifestsBelow == Running => \A m \in Known : m.next <= man.next

FilesBelow == Running => \A n \in Numbers : n >= man.next => sst[n] = {}

\* No WAL has a number that a start could still hand out.
WalsBelow == \A m \in {disk} \cup older : \A n \in Numbers : wal[n].st # "none" => n <= m.next

\* A file without a complete header holds nothing that could be read.
BareIsEmpty == \A n \in Numbers : wal[n].st \in {"none", "bare"} => Readable(wal[n]) = {}

WalPresent == Running => wal[walNo].st \notin {"none", "bare"}

ClosedEmpty == ~Running => man = NoManifest /\ Live = {}

StructInv ==
    /\ TypeOK
    /\ ManifestsSound
    /\ ManifestsBelow
    /\ FilesBelow
    /\ WalsBelow
    /\ BareIsEmpty
    /\ WalPresent
    /\ ClosedEmpty

-----------------------------------------------------------------------------
LEMMA NoManifestSound == ASSUME NEW files PROVE Sound(NoManifest, files)
BY DEF Sound, NoManifest, allTableNumbers

\* Soundness depends on the listed files only.
LEMMA SoundSame ==
    ASSUME NEW m, NEW files, NEW others, Sound(m, files),
           \A n \in allTableNumbers(m) : others[n] = files[n]
    PROVE  Sound(m, others)
<1>1. \A l \in Levels : m.levels[l] \subseteq allTableNumbers(m)
      BY DEF allTableNumbers
<1>. QED
      BY <1>1 DEF Sound

LEMMA StructGives ==
    ASSUME StructInv
    PROVE  /\ TypeOK /\ TablesExist /\ TablesNumbered
           /\ \A m \in Known : /\ m.next \in Nat /\ m.log \in Numbers
                               /\ allTableNumbers(m) \subseteq Numbers
                               /\ m.levels \in [Levels -> SUBSET Numbers]
           /\ Known \subseteq Manifest
<1>1. Known \subseteq Manifest
      BY DEF StructInv, TypeOK, Known
<1>. QED
      BY <1>1 DEF StructInv, ManifestsSound, ManifestsBelow, Sound, TablesExist,
                  TablesNumbered, Manifest, allTableNumbers

\* No MANIFEST lists a file under a number that is still free.
LEMMA ListedBelow ==
    ASSUME StructInv, Running, NEW m \in Known, NEW n \in allTableNumbers(m)
    PROVE  n \in Numbers /\ n < man.next
<1>1. man \in Known
      BY DEF Known
<1>2. n \in Int /\ n < m.next /\ m.next <= man.next /\ m.next \in Int /\ man.next \in Int
      BY <1>1, StructGives DEF StructInv, ManifestsSound, ManifestsBelow, Sound, Numbers
<1>. QED
      BY <1>2, StructGives

LEMMA StructInit == Init => StructInv
<1>. SUFFICES ASSUME Init PROVE StructInv
      OBVIOUS
<1>1. ~Running /\ Known = {NoManifest} /\ Live = {}
      BY DEF Init, Running, Known, Live
<1>2. \A n \in Numbers : wal[n].st = "none" /\ Readable(wal[n]) = {}
      BY NoWalShape DEF Init, Readable
<1>. QED
      BY <1>1, <1>2, TypeInit, NoManifestSound
      DEF StructInv, ManifestsSound, ManifestsBelow, FilesBelow, WalsBelow, BareIsEmpty,
          WalPresent, ClosedEmpty, Init

-----------------------------------------------------------------------------
(***************************************************************************)
(* Opening and crashing.                                                   *)
(***************************************************************************)

\* What a start changes, however it ends: only tables that disk does not list,
\* and WALs up to disk's own.
LEMMA OpenChanges ==
    ASSUME Journaled, TypeOK,
           Open \/ OpenRefused \/ OpenTruncateFails \/ OpenNewWalFails \/ OpenUnlinkFails
    PROVE  /\ ~Running /\ disk' = disk /\ older' = {} /\ snap' = snap
           /\ hist' = hist \cup Stored(sst, disk)
           /\ \A n \in allTableNumbers(disk) : sst'[n] = sst[n]
           /\ \A n \in Numbers : wal'[n] = wal[n] \/ wal'[n] = NoWal \/ n = disk.log
<1>1. /\ ~Running /\ disk' = disk /\ older' = {} /\ snap' = snap
      /\ hist' = hist \cup Stored(sst, disk)
      BY DEF Open, Restore, OpenRefused, OpenTruncateFails, OpenNewWalFails, OpenUnlinkFails,
             OpenCleanup, Running
<1>2. allTableNumbers(disk) \subseteq Numbers /\ disk.log \in Numbers
      BY DEF TypeOK, Manifest, allTableNumbers
<1>. DEFINE wals == cleanupOldWALFiles(disk.log)
<1>3. \A n \in Numbers : wals[n] = wal[n] \/ wals[n] = NoWal
      BY CleanupKeeps
<1>4. wals \in [Numbers -> WalFile]
      BY WalWithType DEF cleanupOldWALFiles, TypeOK
<1>5. CASE OpenUnlinkFails
      BY <1>1, <1>2, <1>5, CleanupKeeps DEF OpenUnlinkFails
<1>6. CASE ~OpenUnlinkFails
  <2>1. sst' = cleanupUntrackedSSTables(disk)
        BY <1>6 DEF Open, OpenRefused, OpenTruncateFails, OpenNewWalFails, OpenCleanup
  <2>2. \/ wal' = wals
        \/ \E w : wal' = [wals EXCEPT ![disk.log] = w]
        BY <1>6, Zenon DEF Open, Restore, OpenRefused, OpenTruncateFails, OpenNewWalFails
  <2>. HIDE DEF wals
  <2>3. \A n \in Numbers : n = disk.log \/ wal'[n] = wals[n]
        BY <1>4, <2>2
  <2>. QED
        BY <1>1, <1>3, <2>1, <2>3, CleanupKeeps
<1>. QED
      BY <1>5, <1>6

\* After a start only disk matters, and it is as sound as it was.
LEMMA StructOpenDisk ==
    ASSUME Journaled, StructInv,
           Open \/ OpenRefused \/ OpenTruncateFails \/ OpenNewWalFails \/ OpenUnlinkFails
    PROVE  TypeOK' /\ Sound(disk, sst') /\ WalsBelow'
<1>. USE DEF StructInv
<1>1. disk \in Known
      BY DEF Known
<1>2. Sound(disk, sst) /\ disk.next \in Nat /\ disk.log \in Numbers /\ disk.log <= disk.next
      BY <1>1, StructGives DEF ManifestsSound, Sound
<1>3. Sound(disk, sst')
      BY <1>2, OpenChanges, SoundSame
<1>4. WalsBelow'
      BY <1>2, OpenChanges, NoWalShape DEF WalsBelow, Numbers
<1>. QED
      BY <1>3, <1>4, TypeOpen

LEMMA StructOpenFails ==
    ASSUME Journaled, StructInv,
           OpenRefused \/ OpenTruncateFails \/ OpenNewWalFails \/ OpenUnlinkFails
    PROVE  StructInv'
<1>. USE DEF StructInv
<1>1. ~Running /\ ~Running' /\ man' = man /\ snap' = snap /\ Known' = {disk}
      BY OpenChanges
      DEF OpenRefused, OpenTruncateFails, OpenNewWalFails, OpenUnlinkFails, Running, Known
<1>2. disk.log \in Numbers
      BY DEF TypeOK, Manifest
<1>3. wal'[disk.log] = wal[disk.log] \/ wal'[disk.log] \in NewWalLeftovers \cup {NoWal}
  <2>1. CASE OpenRefused \/ OpenTruncateFails
        BY <1>2, <2>1, CleanupKeeps DEF OpenRefused, OpenTruncateFails
  <2>2. CASE OpenNewWalFails
        BY <1>2, <2>2 DEF OpenNewWalFails, cleanupOldWALFiles
  <2>3. CASE OpenUnlinkFails
        BY <1>2, <2>3 DEF OpenUnlinkFails
  <2>. QED BY <2>1, <2>2, <2>3
<1>4. Readable(NoWal) = {} /\ \A w \in NewWalLeftovers : Readable(w) = {}
      BY NoWalShape DEF NewWalLeftovers, Readable
<1>5. BareIsEmpty'
      BY <1>2, <1>3, <1>4, OpenChanges DEF BareIsEmpty
<1>. QED
      BY <1>1, <1>5, StructOpenDisk, OpenChanges
      DEF ManifestsSound, ManifestsBelow, FilesBelow, WalPresent, ClosedEmpty, Live

LEMMA StructOpen ==
    ASSUME Journaled, StructInv, Open
    PROVE  StructInv'
<1>. USE DEF StructInv
<1>1. /\ ~Running /\ Running' /\ man' = disk /\ walNo' = disk.log
      /\ sst' = cleanupUntrackedSSTables(disk)
      BY OpenChanges DEF Open, OpenCleanup, Restore, Running
<1>2. Known' = {disk} /\ disk' = disk
      BY <1>1, OpenChanges DEF Known
<1>3. disk.log \in Numbers /\ disk.next \in Nat
      BY DEF TypeOK, Manifest
<1>4. FilesBelow'
  <2>1. \A n \in Numbers : n \notin allTableNumbers(disk) => sst'[n] = {}
        BY <1>1 DEF cleanupUntrackedSSTables
  <2>2. \A n \in allTableNumbers(disk) : n < disk.next
        BY StructOpenDisk DEF Sound
  <2>. QED
        BY <1>1, <1>3, <2>1, <2>2 DEF FilesBelow, Numbers
<1>5. wal'[disk.log].st \in {"loose", "ready"}
  <2>. DEFINE wals == cleanupOldWALFiles(disk.log)
              live == IF wals[disk.log].st = "none" THEN WalWith("ready") ELSE wals[disk.log]
  <2>1. live.st \in {"loose", "ready"} /\ Restore(disk, wals, live)
        BY DEF Open
  <2>2. wals \in [Numbers -> WalFile] /\ live \in WalFile
        BY <1>3, WalWithType DEF cleanupOldWALFiles, TypeOK
  <2>. HIDE DEF wals, live
  <2>3. wal'[disk.log] = [live EXCEPT !.torn = FALSE]
        BY <1>3, <2>1, <2>2 DEF Restore
  <2>. QED
        BY <2>1, <2>2, <2>3 DEF WalFile
<1>6. WalPresent'
      BY <1>1, <1>5 DEF WalPresent
<1>7. BareIsEmpty'
  <2>1. Readable(NoWal) = {}
        BY NoWalShape DEF Readable
  <2>. QED BY <1>3, <1>5, <2>1, OpenChanges DEF BareIsEmpty
<1>. QED
      BY <1>1, <1>2, <1>3, <1>4, <1>6, <1>7, StructOpenDisk, OpenChanges
      DEF ManifestsSound, ManifestsBelow, ClosedEmpty

LEMMA StructKill ==
    ASSUME StructInv, Kill
    PROVE  StructInv'
<1>1. TypeOK'
      BY TypeCrash DEF StructInv
<1>2. ~Running' /\ UNCHANGED <<sst, wal, disk, older>> /\ man' = NoManifest /\ Live' = {}
      BY DEF Kill, ProcessGone, Running, diskVars, Live
<1>3. Known' \subseteq Known
      BY <1>2 DEF Known
<1>. QED
      BY <1>1, <1>2, <1>3
      DEF StructInv, ManifestsSound, ManifestsBelow, FilesBelow, WalsBelow, BareIsEmpty,
          WalPresent, ClosedEmpty

\* A power loss creates no file and completes no header.
LEMMA SurvivorsShape ==
    ASSUME NEW w \in WalFile, w.st \in {"none", "bare"} => Readable(w) = {},
           NEW v \in Survivors(w)
    PROVE  /\ v.st # "none" => w.st # "none"
           /\ v.st \in {"none", "bare"} => Readable(v) = {}
           /\ Readable(v) \subseteq Readable(w)
<1>1. ASSUME NEW t \in Prefixes(w.tail), NEW b \in BOOLEAN, v = CutBack(w, t, b)
      PROVE  /\ v.recs = w.recs /\ v.tail \subseteq w.tail
             /\ v.st = IF w.st = "loose" THEN "ready" ELSE w.st
      BY <1>1 DEF CutBack, Prefixes, WalFile
<1>2. CASE \E t \in Prefixes(w.tail), b \in BOOLEAN : v = CutBack(w, t, b)
      BY <1>1, <1>2 DEF Readable
<1>3. CASE v \in {NoWal, WalWith("bare")} /\ w.st \in {"bare", "loose"}
      BY <1>3, NoWalShape DEF Readable
<1>. QED
      BY <1>2, <1>3 DEF Survivors

LEMMA StructPowerLoss ==
    ASSUME StructInv, PowerLoss
    PROVE  StructInv'
<1>. USE DEF StructInv
<1>1. TypeOK'
      BY TypeCrash
<1>2. /\ ~Running' /\ older' = {} /\ disk' \in {disk} \cup older /\ sst' = sst
      /\ man' = NoManifest /\ Live' = {}
      BY DEF PowerLoss, ProcessGone, Running, Live
<1>3. Known' \subseteq Known
      BY <1>2 DEF Known
<1>4. disk'.log \in Numbers
      BY <1>1 DEF TypeOK, Manifest
<1>5. PICK v \in Survivors(wal[disk'.log]) : wal' = [wal EXCEPT ![disk'.log] = v]
      BY DEF PowerLoss
<1>6. /\ v.st # "none" => wal[disk'.log].st # "none"
      /\ v.st \in {"none", "bare"} => Readable(v) = {}
      BY <1>4, SurvivorsShape DEF TypeOK, BareIsEmpty
<1>7. \A n \in Numbers : wal'[n] = IF n = disk'.log THEN v ELSE wal[n]
      BY <1>5 DEF TypeOK
<1>8. WalsBelow' /\ BareIsEmpty'
      BY <1>2, <1>6, <1>7 DEF WalsBelow, BareIsEmpty
<1>. QED
      BY <1>1, <1>2, <1>3, <1>8
      DEF ManifestsSound, ManifestsBelow, FilesBelow, WalPresent, ClosedEmpty

-----------------------------------------------------------------------------
(***************************************************************************)
(* Writes, and the steps that touch no file.                               *)
(***************************************************************************)

\* A step of the running process that changes no table, no MANIFEST, and of the
\* WALs at most the contents of its own.
LEMMA StructSameTables ==
    ASSUME StructInv, TypeOK', Running, Running',
           UNCHANGED <<walNo, man, sst, disk, older>>,
           \A n \in Numbers : n # walNo => wal'[n] = wal[n],
           wal'[walNo].st \notin {"none", "bare"}
    PROVE  StructInv'
<1>. USE DEF StructInv
<1>1. Known' = Known
      BY DEF Known
<1>2. WalsBelow' /\ BareIsEmpty' /\ WalPresent'
      BY DEF WalsBelow, BareIsEmpty, WalPresent, TypeOK
<1>. QED
      BY <1>1, <1>2 DEF ManifestsSound, ManifestsBelow, FilesBelow, ClosedEmpty

LEMMA StructWrite ==
    ASSUME StructInv, AnyWrite
    PROVE  StructInv'
<1>. USE DEF StructInv
<1>1. TypeOK'
      BY TypeWrite
<1>2. Running /\ Running' /\ UNCHANGED <<walNo, man, sst, disk, older>>
      BY DEF AnyWrite, Write, WriteFails, WriteEmpty, WriteRejected, Writing, Running, diskVars
<1>3. wal[walNo].st \notin {"none", "bare"} /\ walNo \in Numbers /\ wal[walNo] \in WalFile
      BY <1>2 DEF WalPresent, TypeOK
<1>4. CASE wal' = wal
      BY <1>1, <1>2, <1>3, <1>4, StructSameTables
<1>5. ASSUME NEW w, wal' = [wal EXCEPT ![walNo] = w], w.st \notin {"none", "bare"}
      PROVE  StructInv'
      BY <1>1, <1>2, <1>3, <1>5, StructSameTables DEF TypeOK
<1>6. ASSUME NEW n \in 1..MaxBatch, NEW b \in [1..n -> Op], Write(b, n)
      PROVE  StructInv'
  <2>1. AppendSynced(wal[walNo], BatchRecords(b, n)).st \in {"corrupt", "ready", wal[walNo].st}
        BY <1>3 DEF AppendSynced, WalFile
  <2>2. wal' = [wal EXCEPT ![walNo] = AppendSynced(wal[walNo], BatchRecords(b, n))]
        BY <1>6 DEF Write
  <2>. QED
        BY <1>3, <1>5, <2>1, <2>2
<1>7. ASSUME NEW n \in 1..MaxBatch, NEW b \in [1..n -> Op], WriteFails(b, n)
      PROVE  StructInv'
  <2>1. PICK w \in AppendFailures(wal[walNo], BatchRecords(b, n)) :
            wal' = [wal EXCEPT ![walNo] = w]
        BY <1>7 DEF WriteFails
  <2>2. w.st = wal[walNo].st
        BY <1>3 DEF AppendFailures, WalFile
  <2>. QED
        BY <1>3, <1>5, <2>1, <2>2
<1>8. CASE WriteEmpty \/ \E n \in 1..MaxBatch : WriteRejected(n)
      BY <1>4, <1>8 DEF WriteEmpty, WriteRejected, diskVars
<1>. QED
      BY <1>6, <1>7, <1>8 DEF AnyWrite

LEMMA StructRest ==
    ASSUME StructInv, LoopDone \/ \E h \in Handles : TakeSnapshot(h) \/ ReleaseSnapshot(h)
    PROVE  StructInv'
<1>. USE DEF StructInv
<1>1. TypeOK'
      BY TypeRest
<1>2. Running /\ Running' /\ UNCHANGED <<walNo, man, sst, wal, disk, older>>
      BY DEF LoopDone, TakeSnapshot, ReleaseSnapshot, Running, diskVars
<1>. QED
      BY <1>1, <1>2, StructSameTables DEF WalPresent

-----------------------------------------------------------------------------
(***************************************************************************)
(* Flush.                                                                  *)
(***************************************************************************)

\* The flushed MANIFEST is sound over the files with the new table, and no
\* other MANIFEST lists that table.
LEMMA FlushedSound ==
    ASSUME StructInv, Flushing
    PROVE  /\ Running /\ man \in Known
           /\ tableNumber = man.next /\ tableNumber \in Numbers /\ nextWALNumber \in Numbers
           /\ nextWALNumber = man.next + 1
           /\ sst[tableNumber] = {}
           /\ \A n \in Numbers : Built[n] = IF n = tableNumber THEN mem ELSE sst[n]
           /\ \A m \in Known : \A n \in allTableNumbers(m) : n # tableNumber /\ Built[n] = sst[n]
           /\ ManFlushed.levels = [man.levels EXCEPT ![0] = @ \cup {tableNumber}]
           /\ ManFlushed.next = man.next + 2 /\ ManFlushed.log = nextWALNumber
           /\ ManFlushed.lastSeq = nextSeq - 1
           /\ ManNumbered.levels = man.levels /\ ManNumbered.lastSeq = man.lastSeq
           /\ ManNumbered.next = man.next + 2 /\ ManNumbered.log = nextWALNumber
           /\ allTableNumbers(ManFlushed) = allTableNumbers(man) \cup {tableNumber}
           /\ allTableNumbers(ManNumbered) = allTableNumbers(man)
           /\ Sound(ManFlushed, Built) /\ Sound(ManNumbered, sst) /\ Sound(ManNumbered, Built)
<1>. USE DEF StructInv
<1>1. Running /\ man \in Known
      BY DEF Flushing, Running, Known
<1>2. /\ tableNumber \in Numbers /\ nextWALNumber \in Numbers /\ 0 \in Levels
      /\ tableNumber = man.next /\ man.next \in Nat /\ nextWALNumber = man.next + 1
      BY DEF Flushing, tableNumber, nextWALNumber, Numbers, Levels, TypeOK, Manifest
<1>3. sst[tableNumber] = {}
      BY <1>1, <1>2 DEF FilesBelow
<1>4. \A n \in Numbers : Built[n] = IF n = tableNumber THEN mem ELSE sst[n]
      BY <1>2 DEF Built, TypeOK
<1>5. \A m \in Known : \A n \in allTableNumbers(m) : n # tableNumber /\ Built[n] = sst[n]
  <2>1. \A m \in Known : \A n \in allTableNumbers(m) : n \in Numbers /\ n < man.next
        BY <1>1, ListedBelow
  <2>. QED BY <1>2, <1>4, <2>1 DEF Numbers
<1>6. /\ man.levels \in [Levels -> SUBSET Numbers]
      /\ ManNumbered.levels = man.levels /\ ManNumbered.lastSeq = man.lastSeq
      /\ ManNumbered.next = man.next + 2 /\ ManNumbered.log = nextWALNumber
      /\ ManFlushed.levels = [man.levels EXCEPT ![0] = @ \cup {tableNumber}]
      /\ ManFlushed.next = man.next + 2 /\ ManFlushed.log = nextWALNumber
      /\ ManFlushed.lastSeq = nextSeq - 1
      BY DEF ManFlushed, ManNumbered, TypeOK, Manifest
<1>7. /\ allTableNumbers(ManFlushed) = allTableNumbers(man) \cup {tableNumber}
      /\ allTableNumbers(ManNumbered) = allTableNumbers(man)
      BY <1>2, <1>6 DEF allTableNumbers
<1>8. Sound(man, sst) /\ Sound(man, Built)
  <2>1. Sound(man, sst)
        BY <1>1 DEF ManifestsSound
  <2>. QED BY <1>1, <1>5, <2>1, SoundSame
<1>9. \A n \in allTableNumbers(man) : n \in Int /\ n < man.next
      BY <1>1, ListedBelow DEF Numbers
<1>10. Sound(ManNumbered, sst) /\ Sound(ManNumbered, Built)
      BY <1>2, <1>6, <1>7, <1>8, <1>9 DEF Sound
<1>11. Sound(ManFlushed, Built)
  <2>1. Built[tableNumber] # {}
        BY <1>2, <1>4 DEF Flushing
  <2>2. \A n \in allTableNumbers(ManFlushed) : Built[n] # {} /\ n < ManFlushed.next
        BY <1>2, <1>6, <1>7, <1>8, <1>9, <2>1 DEF Sound
  <2>3. \A l \in Levels \ {0} : ManFlushed.levels[l] = man.levels[l]
        BY <1>6
  <2>. QED
        BY <1>2, <1>6, <1>8, <2>2, <2>3 DEF Sound
<1>. QED
      BY <1>1, <1>2, <1>3, <1>4, <1>5, <1>6, <1>7, <1>10, <1>11

\* What is common to the ends of flush: one MANIFEST M takes the place of the
\* process's own, two numbers on, and no WAL has a number as high as that.
LEMMA StructFlushEnds ==
    ASSUME StructInv, TypeOK', Flushing, Running', NEW M, man' = M, M.next = man.next + 2,
           sst' \in {sst, Built}, Sound(M, sst'),
           {disk'} \cup older' \subseteq {disk} \cup older \cup {M},
           \A n \in Numbers : \/ wal'[n].st # "none" => wal[n].st # "none"
                              \/ n = nextWALNumber /\ disk' = M /\ older' = {},
           BareIsEmpty', WalPresent'
    PROVE  StructInv'
<1>. USE DEF StructInv
<1>1. Known' \subseteq Known \cup {M} /\ {disk} \cup older \subseteq Known
      BY FlushedSound DEF Known
<1>2. \A m \in Known : m.next \in Nat /\ m.next <= man.next
      BY StructGives, FlushedSound DEF ManifestsBelow
<1>3. \A m \in Known : Sound(m, sst')
  <2>1. \A m \in Known : Sound(m, sst)
        BY DEF ManifestsSound
  <2>. QED
        BY <2>1, FlushedSound, SoundSame
<1>4. ManifestsSound'
      BY <1>1, <1>3 DEF ManifestsSound
<1>5. man.next \in Nat /\ M.next \in Nat
      BY <1>2, FlushedSound
<1>6. ManifestsBelow'
      BY <1>1, <1>2, <1>5 DEF ManifestsBelow
<1>7. FilesBelow'
  <2>1. ASSUME NEW n \in Numbers, n >= M.next PROVE sst'[n] = {}
    <3>1. n # tableNumber /\ n >= man.next
          BY <1>5, <2>1, FlushedSound DEF Numbers
    <3>. QED
          BY <3>1, FlushedSound DEF FilesBelow
  <2>. QED
        BY <2>1 DEF FilesBelow
<1>8. WalsBelow'
  <2>1. ASSUME NEW m \in {disk'} \cup older', NEW n \in Numbers, wal'[n].st # "none"
        PROVE  n <= m.next
    <3>1. CASE n = nextWALNumber /\ disk' = M /\ older' = {}
          BY <1>5, <3>1, FlushedSound
    <3>2. CASE wal[n].st # "none"
      <4>1. n \in Int /\ n <= disk.next /\ disk.next <= man.next /\ disk.next \in Int
            BY <1>1, <1>2, <3>2 DEF WalsBelow, Numbers
      <4>. QED
            BY <1>1, <1>5, <3>2, <4>1 DEF WalsBelow
    <3>. QED
          BY <2>1, <3>1, <3>2
  <2>. QED
        BY <2>1 DEF WalsBelow
<1>. QED
      BY <1>4, <1>6, <1>7, <1>8 DEF ClosedEmpty

LEMMA StructFlush ==
    ASSUME StructInv, AnyFlush
    PROVE  StructInv'
<1>. USE DEF StructInv
<1>1. TypeOK'
      BY TypeFlush
<1>2. Flushing /\ Running /\ Running'
      BY DEF AnyFlush, Flush, FlushBuildFails, FlushSaveFails, FlushNewWalFails,
             FlushUnlinkFails, Building, Flushing, GiveUpFlush, Running
<1>3. /\ wal[walNo].st \notin {"none", "bare"} /\ walNo \in Numbers /\ walNo # nextWALNumber
      /\ nextWALNumber \in Numbers
  <2>1. wal[walNo].st \notin {"none", "bare"} /\ walNo \in Numbers
        BY <1>2 DEF WalPresent, TypeOK
  <2>2. walNo <= disk.next /\ disk.next <= man.next /\ disk.next \in Nat /\ man.next \in Nat
        BY <1>2, <2>1, FlushedSound, StructGives DEF WalsBelow, ManifestsBelow, Known
  <2>. QED
        BY <1>2, <2>1, <2>2, FlushedSound DEF Numbers
<1>4. Readable(NoWal) = {} /\ \A w \in NewWalLeftovers : Readable(w) = {}
      BY NoWalShape DEF NewWalLeftovers, Readable
<1>5. CASE FlushBuildFails
  <2>1. /\ man' = ManNumbered /\ sst' \in {sst, Built} /\ Sound(ManNumbered, sst')
        /\ UNCHANGED <<walNo, wal, disk, older>>
        BY <1>2, <1>5, FlushedSound DEF FlushBuildFails
  <2>2. BareIsEmpty' /\ WalPresent'
        BY <1>2, <2>1 DEF BareIsEmpty, WalPresent
  <2>. QED
        BY <1>1, <1>2, <2>1, <2>2, FlushedSound, StructFlushEnds
<1>6. CASE FlushSaveFails
  <2>1. /\ man' = ManFlushed /\ sst' = Built /\ Sound(ManFlushed, sst')
        /\ {disk'} \cup older' \subseteq {disk} \cup older \cup {ManFlushed}
        /\ UNCHANGED <<walNo, wal>>
        BY <1>2, <1>6, FlushedSound DEF FlushSaveFails, Building, SaveFails
  <2>2. BareIsEmpty' /\ WalPresent'
        BY <1>2, <2>1 DEF BareIsEmpty, WalPresent
  <2>. QED
        BY <1>1, <1>2, <2>1, <2>2, FlushedSound, StructFlushEnds
<1>7. CASE FlushNewWalFails \/ FlushUnlinkFails \/ Flush
  <2>1. /\ man' = ManFlushed /\ sst' = Built /\ Sound(ManFlushed, sst')
        /\ disk' = ManFlushed /\ older' = {}
        BY <1>2, <1>7, FlushedSound
        DEF Flush, FlushNewWalFails, FlushUnlinkFails, Building, Save
  <2>2. \A n \in Numbers : n = nextWALNumber \/ wal'[n] = wal[n] \/ wal'[n] = NoWal
        BY <1>3, <1>7 DEF Flush, FlushNewWalFails, FlushUnlinkFails, SwitchMemTable, TypeOK
  <2>3. \/ walNo' = walNo /\ wal'[walNo] = wal[walNo] /\ wal'[nextWALNumber] \in NewWalLeftovers
        \/ walNo' = nextWALNumber /\ wal'[nextWALNumber] = WalWith("ready")
        BY <1>3, <1>7 DEF Flush, FlushNewWalFails, FlushUnlinkFails, SwitchMemTable, TypeOK
  <2>4. BareIsEmpty' /\ WalPresent'
        BY <1>3, <1>4, <2>2, <2>3, NoWalShape DEF BareIsEmpty, WalPresent
  <2>5. \A n \in Numbers : \/ wal'[n].st # "none" => wal[n].st # "none"
                           \/ n = nextWALNumber
        BY <2>2, NoWalShape
  <2>. QED
        BY <1>1, <1>2, <2>1, <2>4, <2>5, FlushedSound, StructFlushEnds
<1>. QED
      BY <1>5, <1>6, <1>7 DEF AnyFlush

-----------------------------------------------------------------------------
(***************************************************************************)
(* Compaction.                                                             *)
(***************************************************************************)

\* What compactRange writes for some inputs, and the numbers of its m slices.
Merged(inputs) == retainForCompaction(Contents(sst, inputs), smallestActiveSnapshot)
NewNumbers(m) == man.next..(man.next + m - 1)

\* A compaction of level l, with the three things it can leave behind: numbers
\* spent and files nobody lists; a MANIFEST that may not have been saved; a
\* saved one, with some of the inputs removed.
CompactionStep(l, inputs, m, f) ==
    /\ inputs \in CompactionInputs(l) /\ man.levels[l] # {}
    /\ m \in 1..Cardinality(KeysOf(Merged(inputs))) /\ f \in Slicings(Merged(inputs), m)
    /\ man.next + m <= MaxNumber + 1
    /\ \/ /\ \E failed \in 1..m : \E done \in {failed - 1, failed} :
                 /\ man' = [man EXCEPT !.next = @ + failed]
                 /\ sst' = WithSlices(Merged(inputs), f, done)
          /\ UNCHANGED <<disk, older, hist>>
       \/ /\ man' = replaceTables(inputs, m, l + 1)
          /\ sst' = WithSlices(Merged(inputs), f, m)
          /\ {disk'} \cup older' \subseteq {disk, replaceTables(inputs, m, l + 1)} \cup older
          /\ UNCHANGED hist
       \/ /\ man' = replaceTables(inputs, m, l + 1)
          /\ disk' = replaceTables(inputs, m, l + 1) /\ older' = {}
          /\ \E gone \in SUBSET inputs :
                 sst' = FilesRemoved(WithSlices(Merged(inputs), f, m), gone)
          /\ hist' = hist \cup Stored(WithSlices(Merged(inputs), f, m),
                                      replaceTables(inputs, m, l + 1))

LEMMA CompactSteps ==
    ASSUME NEW l \in 0..(MaxLevel - 1), Compact(l)
    PROVE  /\ \E inputs, m, f : CompactionStep(l, inputs, m, f)
           /\ Running /\ Running'
           /\ UNCHANGED <<mem, walNo, poisoned, nextSeq, snap, wal>>
<1>1. MayCompact(l) /\ UNCHANGED <<mem, walNo, poisoned, nextSeq, snap, wal>>
      BY DEF Compact
<1>. DEFINE Ends(inputs, recs, m, f) ==
                \/ CompactWriteFails(recs, m, f)
                \/ CompactSaveFails(inputs, l + 1, recs, m, f)
                \/ CompactUnlinkFails(inputs, l + 1, recs, m, f)
                \/ CompactSucceeds(inputs, l + 1, recs, m, f)
<1>2. PICK inputs \in CompactionInputs(l) :
          \E m \in 1..Cardinality(KeysOf(Merged(inputs))) :
              \E f \in Slicings(Merged(inputs), m) :
                  man.next + m <= MaxNumber + 1 /\ Ends(inputs, Merged(inputs), m, f)
      BY DEF Compact, Merged
<1>3. PICK m \in 1..Cardinality(KeysOf(Merged(inputs))) :
          \E f \in Slicings(Merged(inputs), m) :
              man.next + m <= MaxNumber + 1 /\ Ends(inputs, Merged(inputs), m, f)
      BY <1>2
<1>4. PICK f \in Slicings(Merged(inputs), m) :
          man.next + m <= MaxNumber + 1 /\ Ends(inputs, Merged(inputs), m, f)
      BY <1>3
<1>5. Running /\ Running'
      BY <1>1, <1>4
      DEF MayCompact, CompactWriteFails, CompactSaveFails, CompactUnlinkFails, CompactSucceeds,
          CompactionThrows, Running
<1>6. CompactionStep(l, inputs, m, f)
  <2>1. CASE CompactWriteFails(Merged(inputs), m, f)
        BY <1>1, <1>4, <2>1 DEF CompactionStep, CompactWriteFails, MayCompact
  <2>2. CASE CompactSaveFails(inputs, l + 1, Merged(inputs), m, f)
        BY <1>1, <1>4, <2>2 DEF CompactionStep, CompactSaveFails, SaveFails, MayCompact
  <2>3. CASE \/ CompactUnlinkFails(inputs, l + 1, Merged(inputs), m, f)
             \/ CompactSucceeds(inputs, l + 1, Merged(inputs), m, f)
        BY <1>1, <1>4, <2>3
        DEF CompactionStep, CompactUnlinkFails, CompactSucceeds, Save, MayCompact
  <2>. QED
        BY <1>4, <2>1, <2>2, <2>3
<1>. QED
      BY <1>1, <1>5, <1>6

\* The inputs are tables of level l, all of them if it is level 0, and what
\* overlaps their combined range in the next level.
LEMMA InputsShape ==
    ASSUME NEW l \in 0..(MaxLevel - 1), man.levels[l] # {}, NEW inputs \in CompactionInputs(l)
    PROVE  \E top \in SUBSET man.levels[l] :
               /\ top # {} /\ (l = 0 => top = man.levels[0])
               /\ inputs = top \cup Overlapping(l + 1, Contents(sst, top))
<1>1. CASE l = 0
  <2>1. inputs = man.levels[0] \cup Overlapping(0 + 1, Contents(sst, man.levels[0]))
        BY <1>1 DEF CompactionInputs, selectLevelZeroCompactionTables
  <2>. QED
        BY <1>1, <2>1
<1>2. CASE l # 0
  <2>1. PICK t \in man.levels[l] : inputs = {t} \cup Overlapping(l + 1, sst[t])
        BY <1>2 DEF CompactionInputs, selectHigherLevelCompactionTables
  <2>2. Contents(sst, {t}) = sst[t]
        BY DEF Contents
  <2>. QED
        BY <1>2, <2>1, <2>2
<1>. QED
      BY <1>1, <1>2

\* A table of the next level that is not among the inputs has all its keys on
\* one side of all the keys of the inputs.
LEMMA InputsApart ==
    ASSUME StructInv, Running, NEW l \in 0..(MaxLevel - 1), man.levels[l] # {},
           NEW inputs \in CompactionInputs(l), NEW n \in man.levels[l + 1], n \notin inputs
    PROVE  Apart(sst[n], Contents(sst, inputs))
<1>1. PICK top \in SUBSET man.levels[l] :
          top # {} /\ inputs = top \cup Overlapping(l + 1, Contents(sst, top))
      BY InputsShape
<1>. DEFINE A == Contents(sst, top)
            P == sst[n]
<1>2. /\ man \in Known /\ l \in Levels /\ l + 1 \in Levels \ {0}
      /\ man.levels[l] \subseteq Numbers /\ man.levels[l + 1] \subseteq Numbers
      BY DEF Known, Levels, StructInv, TypeOK, Manifest
<1>3. \A k \in Levels : \A q \in man.levels[k] : sst[q] # {}
      BY <1>2 DEF StructInv, ManifestsSound, Sound, allTableNumbers
<1>4. \A q \in Numbers : sst[q] \in SUBSET Record
      BY DEF StructInv, TypeOK
<1>5. P \in SUBSET Record /\ P # {} /\ A \in SUBSET Record /\ A # {}
      BY <1>1, <1>2, <1>3, <1>4 DEF Contents
<1>6. Apart(P, A)
  <2>1. ~rangesOverlap(P, minKey(A), maxKey(A))
        BY <1>1 DEF Overlapping
  <2>. HIDE DEF A, P
  <2>. QED
        BY <1>5, <2>1, RangesApart
<1>7. ASSUME NEW q \in Overlapping(l + 1, A)
      PROVE  /\ sst[q] \in SUBSET Record /\ sst[q] # {}
             /\ Apart(P, sst[q]) /\ ~Apart(sst[q], A)
  <2>1. q \in man.levels[l + 1] /\ q # n /\ rangesOverlap(sst[q], minKey(A), maxKey(A))
        BY <1>1 DEF Overlapping
  <2>2. sst[q] \in SUBSET Record /\ sst[q] # {}
        BY <1>2, <1>3, <1>4, <2>1
  <2>3. Apart(P, sst[q])
        BY <1>2, <2>1 DEF StructInv, ManifestsSound, Sound
  <2>. HIDE DEF A, P
  <2>. QED
        BY <1>5, <2>1, <2>2, <2>3, RangesApart
<1>8. \A x \in Contents(sst, inputs) : x \in A \/ \E q \in Overlapping(l + 1, A) : x \in sst[q]
      BY <1>1 DEF Contents
<1>9. PICK p \in P, a \in A : TRUE
      BY <1>5
<1>10. p.key \in Nat /\ a.key \in Nat
      BY <1>5, KeysAssumption DEF Record
<1>. HIDE DEF A, P
<1>11. CASE \A x \in P, y \in A : x.key < y.key
  <2>1. ASSUME NEW q \in Overlapping(l + 1, A) PROVE \A x \in P, y \in sst[q] : x.key < y.key
    <3>1. ~ (a.key < p.key)
          BY <1>9, <1>10, <1>11
    <3>. QED BY <1>5, <1>6, <1>7, <1>9, <3>1, SameSide
  <2>2. \A x \in P, y \in Contents(sst, inputs) : x.key < y.key
        BY <1>8, <1>11, <2>1
  <2>. QED BY <2>2 DEF Apart, P
<1>12. CASE \A x \in P, y \in A : y.key < x.key
  <2>1. ASSUME NEW q \in Overlapping(l + 1, A) PROVE \A x \in P, y \in sst[q] : y.key < x.key
    <3>1. ~ (p.key < a.key)
          BY <1>9, <1>10, <1>12
    <3>. QED BY <1>5, <1>6, <1>7, <1>9, <3>1, SameSide
  <2>2. \A x \in P, y \in Contents(sst, inputs) : y.key < x.key
        BY <1>8, <1>12, <2>1
  <2>. QED BY <2>2 DEF Apart, P
<1>. QED
      BY <1>6, <1>11, <1>12 DEF Apart

\* The slices are new files: no other number has changed.
LEMMA OtherFilesKept ==
    ASSUME TypeOK, NEW recs, NEW f, NEW j \in Nat, NEW n \in Numbers,
           n < man.next \/ n >= man.next + j
    PROVE  WithSlices(recs, f, j)[n] = sst[n]
<1>1. man.next \in Nat
      BY DEF TypeOK, Manifest
<1>. QED
      BY <1>1 DEF WithSlices, Numbers

\* What a compaction makes of the files, F, and of the process's MANIFEST, M.
Compacted(l, inputs, m, f, M, F) ==
    /\ m \in Nat \ {0} /\ l + 1 \in Levels \ {0} /\ man \in Known
    /\ inputs \in SUBSET allTableNumbers(man) /\ Merged(inputs) \in SUBSET Record
    /\ Merged(inputs) \subseteq Contents(sst, inputs)
    /\ M \in Manifest /\ F \in [Numbers -> SUBSET Record]
    /\ M.next = man.next + m /\ M.log = man.log /\ M.lastSeq = man.lastSeq
    /\ M.levels = [k \in Levels |-> (man.levels[k] \ inputs) \cup
                                      (IF k = l + 1 THEN NewNumbers(m) ELSE {})]
    /\ allTableNumbers(M) = (allTableNumbers(man) \ inputs) \cup NewNumbers(m)
    /\ NewNumbers(m) \subseteq Numbers
    /\ \A n \in NewNumbers(m) : n \in Nat /\ man.next <= n /\ n < man.next + m
    /\ \A n \in NewNumbers(m) : F[n] = {r \in Merged(inputs) : man.next + f[r.key] = n}
    /\ \A r \in Merged(inputs) : man.next + f[r.key] \in NewNumbers(m)
    /\ \A n \in NewNumbers(m) : F[n] # {}

LEMMA CompactionResult ==
    ASSUME StructInv, Running, NEW l \in 0..(MaxLevel - 1),
           NEW inputs, NEW m, NEW f, CompactionStep(l, inputs, m, f),
           NEW M, M = replaceTables(inputs, m, l + 1),
           NEW F, F = WithSlices(Merged(inputs), f, m)
    PROVE  Compacted(l, inputs, m, f, M, F)
<1>. USE DEF StructInv
<1>1. /\ inputs \in CompactionInputs(l) /\ man.levels[l] # {} /\ m \in Nat \ {0}
      /\ f \in Slicings(Merged(inputs), m) /\ man.next + m <= MaxNumber + 1
      BY DEF CompactionStep
<1>2. inputs \in SUBSET allTableNumbers(man) /\ inputs \in SUBSET Numbers /\ TypeOK
      BY <1>1, InputsListed, CompactionInputsType
<1>3. Merged(inputs) \subseteq Contents(sst, inputs) /\ Merged(inputs) \in SUBSET Record
      BY <1>2, RetainSubset DEF Contents, TypeOK, Merged
<1>4. man.next \in Nat /\ man.levels \in [Levels -> SUBSET Numbers] /\ l + 1 \in Levels \ {0}
      /\ man \in Known
      BY DEF TypeOK, Manifest, Levels, Known
<1>5. M \in Manifest /\ F \in [Numbers -> SUBSET Record]
  <2>1. m \in 0..m
        BY <1>1
  <2>. QED BY <1>1, <1>2, <1>3, <2>1, TypeCompactRange
<1>6. /\ M.levels = [k \in Levels |-> (man.levels[k] \ inputs) \cup
                                        (IF k = l + 1 THEN NewNumbers(m) ELSE {})]
      /\ M.next = man.next + m /\ M.log = man.log /\ M.lastSeq = man.lastSeq
      BY DEF replaceTables, TypeOK, Manifest, NewNumbers
<1>7. \A n \in NewNumbers(m) : n \in Nat /\ man.next <= n /\ n < man.next + m
      BY <1>1, <1>4 DEF NewNumbers
<1>8. NewNumbers(m) \subseteq Numbers
      BY <1>1, <1>4, <1>7 DEF Numbers
<1>9. \A n \in allTableNumbers(man) : n \in Int /\ n < man.next
      BY <1>4, ListedBelow DEF Numbers
<1>10. allTableNumbers(M) = (allTableNumbers(man) \ inputs) \cup NewNumbers(m)
  <2>1. NewNumbers(m) \cap inputs = {}
        BY <1>2, <1>4, <1>7, <1>9
  <2>. QED
        BY <1>4, <1>6, <2>1 DEF allTableNumbers
<1>11. \A n \in NewNumbers(m) : F[n] = {r \in Merged(inputs) : man.next + f[r.key] = n}
      BY <1>8 DEF WithSlices, NewNumbers
<1>12. /\ \A k \in KeysOf(Merged(inputs)) : f[k] \in 0..(m - 1)
       /\ \A i \in 0..(m - 1) : \E k \in KeysOf(Merged(inputs)) : f[k] = i
      BY <1>1 DEF Slicings
<1>13. \A r \in Merged(inputs) : man.next + f[r.key] \in NewNumbers(m)
  <2>1. \A r \in Merged(inputs) : f[r.key] \in 0..(m - 1)
        BY <1>12 DEF KeysOf
  <2>. QED BY <1>1, <1>4, <2>1 DEF NewNumbers
<1>14. \A n \in NewNumbers(m) : F[n] # {}
  <2>. SUFFICES ASSUME NEW n \in NewNumbers(m) PROVE F[n] # {}
        OBVIOUS
  <2>1. n - man.next \in 0..(m - 1)
        BY <1>1, <1>4, <1>7
  <2>2. PICK r \in Merged(inputs) : f[r.key] = n - man.next
        BY <1>12, <2>1 DEF KeysOf
  <2>3. man.next + f[r.key] = n
        BY <1>4, <1>7, <2>2
  <2>. QED
        BY <1>11, <2>2, <2>3
<1>. QED
      BY <1>1, <1>2, <1>3, <1>4, <1>5, <1>6, <1>7, <1>8, <1>10, <1>11, <1>13, <1>14
      DEF Compacted

\* The levels stay sorted: the slices follow one another, and what was not
\* rewritten in their level lies on one side of all of them.
LEMMA CompactedSound ==
    ASSUME StructInv, Running, NEW l \in 0..(MaxLevel - 1),
           NEW inputs, NEW m, NEW f, CompactionStep(l, inputs, m, f),
           NEW M, M = replaceTables(inputs, m, l + 1),
           NEW F, F = WithSlices(Merged(inputs), f, m)
    PROVE  Sound(M, F) /\ \A n \in allTableNumbers(man) : F[n] = sst[n]
<1>. DEFINE recs == Merged(inputs)
            new == NewNumbers(m)
<1>1. /\ inputs \in CompactionInputs(l) /\ man.levels[l] # {}
      /\ \A k1, k2 \in KeysOf(recs) : k1 <= k2 => f[k1] <= f[k2]
      BY DEF CompactionStep, Slicings
<1>2. /\ m \in Nat \ {0} /\ l + 1 \in Levels \ {0} /\ man \in Known
      /\ recs \in SUBSET Record /\ recs \subseteq Contents(sst, inputs)
      /\ M.next = man.next + m /\ M.log = man.log
      /\ M.levels = [k \in Levels |-> (man.levels[k] \ inputs) \cup
                                        (IF k = l + 1 THEN new ELSE {})]
      /\ allTableNumbers(M) = (allTableNumbers(man) \ inputs) \cup new
      /\ \A n \in new : n \in Nat /\ man.next <= n /\ n < man.next + m
      /\ \A n \in new : F[n] = {r \in recs : man.next + f[r.key] = n}
      /\ \A n \in new : F[n] # {}
      BY CompactionResult DEF Compacted
<1>3. Sound(man, sst) /\ man.next \in Nat /\ man.log \in Numbers /\ man.log <= man.next
      BY <1>2, StructGives DEF StructInv, ManifestsSound, Sound
<1>4. \A n \in allTableNumbers(man) : n \in Numbers /\ n < man.next
      BY <1>2, ListedBelow
<1>5. \A n \in allTableNumbers(man) : F[n] = sst[n]
  <2>1. TypeOK
        BY DEF StructInv
  <2>2. \A n \in Numbers : n < man.next => WithSlices(Merged(inputs), f, m)[n] = sst[n]
        BY <1>2, <2>1, OtherFilesKept
  <2>. QED BY <1>4, <2>2
<1>6. \A k \in Levels : man.levels[k] \subseteq allTableNumbers(man)
      BY DEF allTableNumbers
<1>7. \A n \in allTableNumbers(M) : F[n] # {} /\ n < M.next
      BY <1>2, <1>3, <1>4, <1>5 DEF Sound, Numbers
<1>8. \A r \in recs : r.key \in KeysOf(recs) /\ r.key \in Nat
      BY <1>2, KeysAssumption DEF KeysOf, Record
<1>9. ASSUME NEW n \in new, NEW p \in new, n < p
      PROVE  \A a \in F[n], b \in F[p] : a.key < b.key
  <2>. SUFFICES ASSUME NEW a \in F[n], NEW b \in F[p] PROVE a.key < b.key
        OBVIOUS
  <2>1. a \in recs /\ b \in recs /\ man.next + f[a.key] = n /\ man.next + f[b.key] = p
        BY <1>2
  <2>2. f[a.key] \in 0..(m - 1) /\ f[b.key] \in 0..(m - 1)
        BY <1>8, <2>1 DEF CompactionStep, Slicings
  <2>3. ~ (f[b.key] <= f[a.key])
        BY <1>2, <1>3, <1>9, <2>1, <2>2
  <2>. QED
        BY <1>1, <1>8, <2>1, <2>3
<1>10. ASSUME NEW n \in man.levels[l + 1], n \notin inputs, NEW p \in new
       PROVE  Apart(F[n], F[p]) /\ Apart(F[p], F[n])
  <2>1. Apart(sst[n], Contents(sst, inputs))
        BY <1>1, <1>10, InputsApart
  <2>2. F[n] = sst[n] /\ F[p] \subseteq Contents(sst, inputs)
        BY <1>2, <1>5, <1>6
  <2>. QED
        BY <2>1, <2>2 DEF Apart
<1>11. ASSUME NEW k \in Levels \ {0}, NEW n \in M.levels[k], NEW p \in M.levels[k], n # p
       PROVE  Apart(F[n], F[p])
  <2>1. CASE n \in man.levels[k] /\ p \in man.levels[k]
        BY <1>3, <1>5, <1>6, <1>11, <2>1 DEF Sound
  <2>2. CASE n \in new /\ p \in new
        BY <1>2, <1>9, <1>11, <2>2 DEF Apart
  <2>3. CASE k = l + 1 /\ n \in man.levels[k] \ inputs /\ p \in new
        BY <1>10, <2>3
  <2>4. CASE k = l + 1 /\ p \in man.levels[k] \ inputs /\ n \in new
        BY <1>10, <2>4
  <2>. QED
        BY <1>2, <1>11, <2>1, <2>2, <2>3, <2>4
<1>. QED
      BY <1>2, <1>3, <1>5, <1>7, <1>11 DEF Sound, Numbers

LEMMA StructCompactStep ==
    ASSUME StructInv, NEW l \in 0..(MaxLevel - 1), Compact(l),
           NEW inputs, NEW m, NEW f, CompactionStep(l, inputs, m, f),
           NEW M, M = replaceTables(inputs, m, l + 1),
           NEW F, F = WithSlices(Merged(inputs), f, m)
    PROVE  StructInv'
<1>1. Running /\ Running' /\ UNCHANGED <<mem, walNo, poisoned, nextSeq, snap, wal>>
      BY CompactSteps
<1>2. Sound(M, F)
      BY <1>1, CompactedSound
<1>3. TypeOK'
      BY TypeCompact DEF StructInv
<1>4. /\ m \in Nat \ {0} /\ man \in Known /\ inputs \in SUBSET allTableNumbers(man)
      /\ M \in Manifest /\ M.next = man.next + m
      /\ allTableNumbers(M) = (allTableNumbers(man) \ inputs) \cup NewNumbers(m)
      /\ \A n \in NewNumbers(m) : n \in Nat /\ man.next <= n /\ n < man.next + m
  <2>1. Compacted(l, inputs, m, f, M, F)
        BY <1>1, CompactionResult
  <2>. QED
        BY <2>1 DEF Compacted
<1>. USE DEF StructInv
<1>5. /\ man.next \in Nat
      /\ \A k \in Known : /\ k.next \in Nat /\ k.next <= man.next
                          /\ \A n \in allTableNumbers(k) : n \in Numbers /\ n < man.next
      BY <1>1, <1>4, StructGives, ListedBelow DEF ManifestsBelow
<1>6. \A n \in Numbers : n >= man.next => sst[n] = {}
      BY <1>1 DEF FilesBelow
<1>7. BareIsEmpty' /\ WalPresent' /\ ClosedEmpty'
      BY <1>1 DEF BareIsEmpty, WalPresent, ClosedEmpty
<1>8. ASSUME NEW k \in Known, \A n \in Numbers : n < man.next => sst'[n] = sst[n]
      PROVE  Sound(k, sst')
      BY <1>5, <1>8, SoundSame DEF ManifestsSound
<1>9. ASSUME {disk'} \cup older' \subseteq {disk, man'} \cup older, man'.next \in Nat,
             man.next <= man'.next
      PROVE  WalsBelow' /\ ManifestsBelow'
  <2>1. Known' \subseteq Known \cup {man'} /\ {disk} \cup older \subseteq Known
        BY <1>1, <1>9 DEF Known
  <2>2. ManifestsBelow'
        BY <1>5, <1>9, <2>1 DEF ManifestsBelow
  <2>3. ASSUME NEW n \in Numbers, wal[n].st # "none"
        PROVE  \A k \in {disk} \cup older \cup {man'} : n <= k.next
    <3>1. \A k \in {disk} \cup older : n <= k.next
          BY <2>3 DEF WalsBelow
    <3>2. n \in Int /\ n <= disk.next /\ disk.next \in Nat /\ disk.next <= man.next
          BY <1>5, <2>1, <3>1 DEF Numbers
    <3>. QED BY <1>5, <1>9, <3>1, <3>2
  <2>4. WalsBelow'
        BY <1>1, <1>9, <2>3 DEF WalsBelow
  <2>. QED BY <2>2, <2>4
<1>10. CASE /\ \E failed \in 1..m : \E done \in {failed - 1, failed} :
                   /\ man' = [man EXCEPT !.next = @ + failed]
                   /\ sst' = WithSlices(Merged(inputs), f, done)
            /\ UNCHANGED <<disk, older, hist>>
  <2>1. PICK failed \in 1..m : \E done \in {failed - 1, failed} :
            man' = [man EXCEPT !.next = @ + failed] /\ sst' = WithSlices(Merged(inputs), f, done)
        BY <1>10
  <2>2. PICK done \in {failed - 1, failed} :
            man' = [man EXCEPT !.next = @ + failed] /\ sst' = WithSlices(Merged(inputs), f, done)
        BY <2>1
  <2>3. done \in 0..m /\ done <= failed /\ failed \in Nat
        BY <1>4
  <2>4. \A n \in Numbers : n < man.next \/ n >= man.next + done => sst'[n] = sst[n]
        BY <2>2, <2>3, OtherFilesKept
  <2>5. /\ man'.next = man.next + failed /\ man'.levels = man.levels /\ man'.log = man.log
        /\ allTableNumbers(man') = allTableNumbers(man)
        BY <2>2 DEF TypeOK, Manifest, allTableNumbers
  <2>6. Sound(man, sst') /\ man.log \in Numbers
        BY <1>4, <1>8, <2>4 DEF TypeOK, Manifest
  <2>7. Sound(man', sst')
        BY <1>4, <1>5, <2>3, <2>5, <2>6 DEF Sound, Numbers
  <2>8. ManifestsSound'
    <3>1. Known' \subseteq Known \cup {man'}
          BY <1>1, <1>10 DEF Known
    <3>. QED BY <1>8, <2>4, <2>7, <3>1 DEF ManifestsSound
  <2>9. FilesBelow'
        BY <1>5, <1>6, <2>3, <2>4, <2>5 DEF FilesBelow, Numbers
  <2>10. WalsBelow' /\ ManifestsBelow'
        BY <1>5, <1>9, <1>10, <2>3, <2>5
  <2>. QED
        BY <1>3, <1>7, <2>8, <2>9, <2>10
<1>11. \A n \in Numbers : n < man.next \/ n >= man.next + m => F[n] = sst[n]
      BY <1>4, OtherFilesKept
<1>12. CASE /\ man' = M /\ sst' = F
            /\ {disk'} \cup older' \subseteq {disk, M} \cup older
            /\ UNCHANGED hist
  <2>1. ManifestsSound'
    <3>1. Known' \subseteq Known \cup {M}
          BY <1>1, <1>12 DEF Known
    <3>. QED BY <1>2, <1>8, <1>11, <1>12, <3>1 DEF ManifestsSound
  <2>2. FilesBelow'
        BY <1>4, <1>5, <1>6, <1>11, <1>12 DEF FilesBelow, Numbers
  <2>3. WalsBelow' /\ ManifestsBelow'
        BY <1>4, <1>5, <1>9, <1>12
  <2>. QED
        BY <1>3, <1>7, <2>1, <2>2, <2>3
<1>13. CASE /\ man' = M /\ disk' = M /\ older' = {}
            /\ \E gone \in SUBSET inputs : sst' = FilesRemoved(F, gone)
            /\ hist' = hist \cup Stored(F, M)
  <2>1. PICK gone \in SUBSET inputs : sst' = FilesRemoved(F, gone)
        BY <1>13
  <2>2. \A n \in allTableNumbers(M) : n \notin inputs /\ n \in Numbers
        BY <1>4, <1>5 DEF allTableNumbers, Manifest
  <2>3. Sound(M, sst')
    <3>1. \A n \in allTableNumbers(M) : sst'[n] = F[n]
          BY <2>1, <2>2 DEF FilesRemoved
    <3>. QED BY <1>2, <3>1, SoundSame
  <2>4. ManifestsSound'
        BY <1>13, <2>3 DEF ManifestsSound, Known
  <2>5. FilesBelow'
        BY <1>4, <1>5, <1>6, <1>11, <1>13, <2>1 DEF FilesBelow, Numbers, FilesRemoved
  <2>6. WalsBelow' /\ ManifestsBelow'
        BY <1>4, <1>5, <1>9, <1>13
  <2>. QED
        BY <1>3, <1>7, <2>4, <2>5, <2>6
<1>. QED
      BY <1>10, <1>12, <1>13 DEF CompactionStep

LEMMA StructCompact ==
    ASSUME StructInv, NEW l \in 0..(MaxLevel - 1), Compact(l)
    PROVE  StructInv'
BY CompactSteps, StructCompactStep

-----------------------------------------------------------------------------
LEMMA StructStep ==
    ASSUME Journaled
    PROVE  StructInv /\ [Next]_vars => StructInv'
<1>. SUFFICES ASSUME StructInv, [Next]_vars PROVE StructInv'
      OBVIOUS
<1>1. CASE Next
      BY <1>1, StructOpen, StructOpenFails, StructKill, StructPowerLoss, StructWrite,
         StructFlush, StructCompact, StructRest DEF Next
<1>2. CASE UNCHANGED vars
  <2>1. TypeOK' /\ Running' = Running /\ Known' = Known /\ Live' = Live
        BY <1>2, TypeStep DEF StructInv, vars, procVars, diskVars, Running, Known, Live
  <2>. QED
        BY <1>2, <2>1
        DEF StructInv, ManifestsSound, ManifestsBelow, FilesBelow, WalsBelow, BareIsEmpty,
            WalPresent, ClosedEmpty, vars, procVars, diskVars
<1>. QED
      BY <1>1, <1>2

LEMMA StructFresh == StructInv => NumbersFresh
<1>. SUFFICES ASSUME StructInv, Running, NEW n \in Numbers
              PROVE  /\ n >= man.next => sst[n] = {}
                     /\ n > man.next => wal[n].st = "none"
      BY DEF NumbersFresh
<1>1. disk.next \in Int /\ man.next \in Int /\ disk.next <= man.next
      BY DEF StructInv, TypeOK, Manifest, ManifestsBelow, Known
<1>2. wal[n].st # "none" => n <= disk.next
      BY DEF StructInv, WalsBelow
<1>. QED
      BY <1>1, <1>2 DEF StructInv, FilesBelow, Numbers

LEMMA StructDisjoint == StructInv => RangesDisjoint
<1>. SUFFICES ASSUME StructInv, NEW l \in Levels \ {0},
                     NEW n \in man.levels[l], NEW p \in man.levels[l], n # p
              PROVE  ~rangesOverlap(sst[n], minKey(sst[p]), maxKey(sst[p]))
      BY DEF RangesDisjoint
<1>1. Running
      BY DEF StructInv, ClosedEmpty, NoManifest
<1>2. man \in Known
      BY <1>1 DEF Known
<1>3. Sound(man, sst) /\ n \in allTableNumbers(man) /\ p \in allTableNumbers(man)
      BY <1>2 DEF StructInv, ManifestsSound, allTableNumbers
<1>4. Apart(sst[n], sst[p]) /\ sst[n] # {} /\ sst[p] # {}
      BY <1>3 DEF Sound
<1>5. sst[n] \in SUBSET Record /\ sst[p] \in SUBSET Record
      BY <1>2, <1>3, StructGives DEF TypeOK
<1>. QED
      BY <1>4, <1>5, RangesApart

\* The numbers allocateNumber hands out are fresh after every crash, failed
\* flush, failed compaction and interrupted clean-up: build never finds its table
\* in the way, and a new WAL never adopts the frames of a forgotten one.
THEOREM NumbersNeverReused ==
    ASSUME Journaled
    PROVE  Spec => []NumbersFresh
BY StructInit, StructStep, StructFresh, PTL DEF Spec

\* Whatever tables compaction picks and wherever it cuts its output, the levels
\* below 0 stay sorted, through failures and restarts: Manifest::addTable never
\* throws and getTableMeta finds the only table that can hold a key.
THEOREM LevelsStaySorted ==
    ASSUME Journaled
    PROVE  Spec => []RangesDisjoint
BY StructInit, StructStep, StructDisjoint, PTL DEF Spec

=============================================================================
