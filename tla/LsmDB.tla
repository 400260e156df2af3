-------------------------------- MODULE LsmDB --------------------------------
(***************************************************************************)
(* The storage engine behind the class DB (src/src/DB.cpp): the memtable   *)
(* and its write-ahead log, flush to level 0, leveled compaction, the      *)
(* MANIFEST, snapshots, reads, and recovery when the directory is reopened *)
(* after a crash or a power loss.                                          *)
(*                                                                         *)
(* DB is single threaded, so one action is one call of its API, or one     *)
(* turn of the loop in maybeCompact.  A call that performs I/O has one     *)
(* action per point where that I/O can fail.  Each of those actions leaves *)
(* on disk what the call has written so far, so the same actions, followed *)
(* by Kill or PowerLoss, are the crashes in the middle of the call.        *)
(***************************************************************************)
EXTENDS Versions

CONSTANTS
    MaxBatch,           \* bound: operations in one WriteBatch
    MaxNumber,          \* bound: file numbers are at most MaxNumber
    MaxLevel,           \* bound: the deepest level compaction may reach
    L0Trigger,          \* level0CompactionThreshold_
    Handles,            \* Snapshot objects the client can hold
    Faults,             \* the I/O calls that may fail, a subset of FaultPoints
    CompactWhenFailed,  \* the client calls compact() after a flush has failed
    Journaled           \* directory changes reach the disk in order, and with
                        \* the next fsync of any file

FaultPoints == {"wal", "build", "save", "newwal", "header", "unlink", "truncate"}

ASSUME BatchAssumption == MaxBatch \in Nat
ASSUME NumberAssumption == MaxNumber \in Nat \ {0}
ASSUME LevelAssumption == MaxLevel \in Nat \ {0}
ASSUME TriggerAssumption == L0Trigger \in Nat
ASSUME FaultsAssumption == Faults \subseteq FaultPoints
ASSUME FlagsAssumption == CompactWhenFailed \in BOOLEAN /\ Journaled \in BOOLEAN

VARIABLES
    \* In the process.
    pc,          \* what the engine is doing, see Phases
    mem,         \* activeMemTable_: its records
    walNo,       \* walFilePath_: the number of the WAL mem is backed by
    poisoned,    \* WALFileWriter::poisoned_
    writeFailed, \* writeFailed_
    nextSeq,     \* nextSeq_
    man,         \* manifest_, as the process has it
    snap,        \* activeSnapshotSequences_, one entry per live handle
    \* On disk.
    sst,         \* the records of each SSTable file, {} when there is no file
    wal,         \* the WAL files
    disk,        \* the MANIFEST as a reader of the directory sees it now
    older,       \* the MANIFESTs a power loss may bring back instead
    \* History.
    hist         \* the records that were acknowledged, or published durably

procVars == <<pc, mem, walNo, poisoned, writeFailed, nextSeq, man, snap>>
diskVars == <<sst, wal, disk, older>>
vars == <<procVars, diskVars, hist>>

Numbers == 0..MaxNumber
Levels == 0..MaxLevel

\* "flush": write() has found the memtable over its threshold.  "loop": flush()
\* is in maybeCompact.  "refused": the constructor threw on what it found.
Phases == {"closed", "idle", "flush", "loop", "refused"}

(***************************************************************************)
(* A WAL file.  recs are the records of the frames that fsync confirmed,   *)
(* tail the complete frames written since, torn says that the file ends in *)
(* part of a frame.  "bare" is a file whose header is not complete;        *)
(* "loose" has a header whose fsync, or whose directory entry's fsync,     *)
(* failed; "corrupt" has a frame behind a torn one.                        *)
(***************************************************************************)
WalFile == [st : {"none", "bare", "loose", "ready", "corrupt"},
            recs : SUBSET Record, tail : SUBSET SUBSET Record, torn : BOOLEAN]

WalWith(st) == [st |-> st, recs |-> {}, tail |-> {}, torn |-> FALSE]
NoWal == WalWith("none")

\* What a reader of the file finds, and what a power loss cannot take away.
Readable(w) == w.recs \cup UNION w.tail
Durable(w) == IF w.st = "loose" THEN {} ELSE w.recs

(***************************************************************************)
(* A MANIFEST: the tables of each level, the next file number, the number  *)
(* of the live WAL, and the last sequence number that was flushed.         *)
(***************************************************************************)
Manifest == [levels : [Levels -> SUBSET Numbers], next : 0..(MaxNumber + 1),
             log : Numbers, lastSeq : 0..MaxSeq]

\* What Manifest's constructor makes of a directory without a MANIFEST.
NoManifest == [levels |-> [l \in Levels |-> {}], next |-> 0, log |-> 0, lastSeq |-> 0]

allTableNumbers(m) == UNION {m.levels[l] : l \in Levels}

Contents(files, tables) == UNION {files[n] : n \in tables}
Stored(files, m) == Contents(files, allTableNumbers(m))

NoSnap == -1
Live == {h \in Handles : snap[h] # NoSnap}

-----------------------------------------------------------------------------
(***************************************************************************)
(* Reads.                                                                  *)
(***************************************************************************)

\* The table of a sorted level whose range holds k, as a set of at most one.
getTableMeta(l, k) ==
    LET below == {n \in man.levels[l] : minKey(sst[n]) <= k}
    IN  {n \in below : /\ \A p \in below : minKey(sst[p]) <= minKey(sst[n])
                       /\ k <= maxKey(sst[n])}

\* The tables of level l that a lookup of k opens.
Probed(l, k) ==
    IF l = 0 THEN {n \in man.levels[0] : minKey(sst[n]) <= k /\ k <= maxKey(sst[n])}
             ELSE getTableMeta(l, k)

\* Bug: the tables of level 0 are consulted oldest first.
searchOldestFirst(k, s) ==
    LET Hits(l) == {n \in Probed(l, k) : SourceGet(sst[n], k, s) # Absent}
        hitLevels == {l \in Levels : Hits(l) # {}}
    IN  IF hitLevels = {} THEN Absent
        ELSE SourceGet(sst[Min(Hits(Min(hitLevels)))], k, s)

(***************************************************************************)
(* The first table that holds a version, level 0 by number descending and  *)
(* then one table per level, decides the answer.                           *)
(***************************************************************************)
searchSSTables(k, s) ==
    LET Hits(l) == {n \in Probed(l, k) : SourceGet(sst[n], k, s) # Absent}
        hitLevels == {l \in Levels : Hits(l) # {}}
    IN  IF hitLevels = {} THEN Absent
        ELSE SourceGet(sst[Max(Hits(Min(hitLevels)))], k, s)

\* The record that decides get(k, s): a value, a tombstone or Absent.
get(k, s) ==
    LET inMem == SourceGet(mem, k, s)
    IN  IF inMem # Absent THEN inMem ELSE searchSSTables(k, s)

\* Bug: a table that starts at or before the range is not opened.
selectScanTablesLate(lo, hi) ==
    {n \in allTableNumbers(man) : minKey(sst[n]) >= lo /\ minKey(sst[n]) < hi}

selectScanTables(lo, hi) ==
    {n \in allTableNumbers(man) : maxKey(sst[n]) >= lo /\ minKey(sst[n]) < hi}

\* The records scan(lo, hi, s) returns, hi excluded.
scan(lo, hi, s) ==
    LET merged == mem \cup Contents(sst, selectScanTables(lo, hi))
        latest == {SourceGet(merged, k, s) : k \in KeysOf(merged)} \ {Absent}
    IN  {r \in latest : r.key >= lo /\ r.key < hi /\ r.val # Tombstone}

-----------------------------------------------------------------------------
(***************************************************************************)
(* Opening, closing, crashing.                                             *)
(***************************************************************************)

Init ==
    /\ pc = "closed" /\ mem = {} /\ walNo = 0
    /\ poisoned = FALSE /\ writeFailed = FALSE /\ nextSeq = 1
    /\ man = NoManifest
    /\ snap = [h \in Handles |-> NoSnap]
    /\ sst = [n \in Numbers |-> {}]
    /\ wal = [n \in Numbers |-> NoWal]
    /\ disk = NoManifest /\ older = {}
    /\ hist = {}

\* What leaving the process leaves of the process.
ProcessGone ==
    /\ pc' = "closed" /\ mem' = {} /\ walNo' = 0
    /\ poisoned' = FALSE /\ writeFailed' = FALSE /\ nextSeq' = 1
    /\ man' = NoManifest
    /\ snap' = [h \in Handles |-> NoSnap]

\* Bug: tables that the MANIFEST does not list stay in the directory.
cleanupNoSSTables(m) == sst

cleanupUntrackedSSTables(m) ==
    [n \in Numbers |-> IF n \in allTableNumbers(m) THEN sst[n] ELSE {}]

cleanupOldWALFiles(current) ==
    [n \in Numbers |-> IF n < current THEN NoWal ELSE wal[n]]

\* Bug: the last sequence number used is handed out again.
firstSeqReused(m, recs) == Max({m.lastSeq} \cup SeqsOf(recs))

firstSeq(m, recs) == Max({m.lastSeq} \cup SeqsOf(recs)) + 1

\* Bug: the torn end of the WAL is skipped and stays in the file.
RestoreUncut(m, wals, live) ==
    /\ pc' = "idle"
    /\ mem' = Readable(live)
    /\ walNo' = m.log
    /\ wal' = [wals EXCEPT ![m.log] = live]
    /\ nextSeq' = firstSeq(m, Readable(live))
    /\ man' = m
    /\ UNCHANGED <<poisoned, writeFailed, snap>>

(***************************************************************************)
(* DB's constructor.  It reads the MANIFEST, deletes the tables it does    *)
(* not list and the WALs below its log number, and restores the memtable   *)
(* from the live WAL: every complete frame is taken, a torn end is cut     *)
(* off.  A WAL that is not there is created.  Under Journaled a power loss *)
(* that undid the MANIFEST's rename would undo these deletions too, which  *)
(* is the power loss before Open: older is emptied.                        *)
(***************************************************************************)
Restore(m, wals, live) ==
    /\ pc' = "idle"
    /\ mem' = Readable(live)
    /\ walNo' = m.log
    /\ wal' = [wals EXCEPT ![m.log] = [live EXCEPT !.torn = FALSE]]
    /\ nextSeq' = firstSeq(m, Readable(live))
    /\ man' = m
    /\ UNCHANGED <<poisoned, writeFailed, snap>>

OpenCleanup ==
    /\ pc \in {"closed", "refused"}
    /\ sst' = cleanupUntrackedSSTables(disk)
    /\ older' = IF Journaled THEN {} ELSE older
    /\ hist' = hist \cup Stored(sst, disk)
    /\ UNCHANGED disk

Open ==
    LET wals == cleanupOldWALFiles(disk.log)
        live == IF wals[disk.log].st = "none" THEN WalWith("ready") ELSE wals[disk.log]
    IN  /\ OpenCleanup
        /\ live.st \in {"loose", "ready"}
        /\ Restore(disk, wals, live)

\* restoreFromWAL throws: the header is short, or a frame follows a torn one.
OpenRefused ==
    LET wals == cleanupOldWALFiles(disk.log)
    IN  /\ OpenCleanup
        /\ wals[disk.log].st \in {"bare", "corrupt"}
        /\ wal' = wals
        /\ pc' = "refused"
        /\ UNCHANGED <<mem, walNo, poisoned, writeFailed, nextSeq, man, snap>>

\* The torn end of the live WAL cannot be cut off, and the constructor throws.
OpenTruncateFails ==
    LET wals == cleanupOldWALFiles(disk.log)
    IN  /\ OpenCleanup
        /\ "truncate" \in Faults
        /\ wals[disk.log].st \in {"loose", "ready"} /\ wals[disk.log].torn
        /\ wal' = wals
        /\ pc' = "closed"
        /\ UNCHANGED <<mem, walNo, poisoned, writeFailed, nextSeq, man, snap>>

\* What a failed creation leaves: no file, a short header, a header not synced.
NewWalLeftovers ==
    (IF "newwal" \in Faults THEN {NoWal, WalWith("loose")} ELSE {})
        \cup (IF "header" \in Faults THEN {WalWith("bare")} ELSE {})

OpenNewWalFails ==
    LET wals == cleanupOldWALFiles(disk.log)
    IN  /\ OpenCleanup
        /\ wals[disk.log].st = "none"
        /\ \E w \in NewWalLeftovers : wal' = [wals EXCEPT ![disk.log] = w]
        /\ pc' = "closed"
        /\ UNCHANGED <<mem, walNo, poisoned, writeFailed, nextSeq, man, snap>>

\* A removal fails: the tables, then the WALs, are cleaned up to that point.
OpenUnlinkFails ==
    LET untracked == {n \in Numbers \ allTableNumbers(disk) : sst[n] # {}}
        oldWals == {n \in Numbers : n < disk.log /\ wal[n].st # "none"}
    IN  /\ pc \in {"closed", "refused"} /\ "unlink" \in Faults
        /\ \/ \E gone \in SUBSET untracked :
                  /\ gone # untracked
                  /\ sst' = [n \in Numbers |-> IF n \in gone THEN {} ELSE sst[n]]
                  /\ UNCHANGED wal
           \/ \E gone \in SUBSET oldWals :
                  /\ gone # oldWals
                  /\ sst' = cleanupUntrackedSSTables(disk)
                  /\ wal' = [n \in Numbers |-> IF n \in gone THEN NoWal ELSE wal[n]]
        /\ pc' = "closed"
        /\ older' = IF Journaled THEN {} ELSE older
        /\ hist' = hist \cup Stored(sst, disk)
        /\ UNCHANGED <<mem, walNo, poisoned, writeFailed, nextSeq, man, snap, disk>>

\* The process ends, by ~DB or by a crash; what it wrote stays visible.
Kill ==
    /\ pc # "closed"
    /\ ProcessGone
    /\ UNCHANGED <<diskVars, hist>>

\* The unsynced frames that a power loss may leave: a prefix of them.
Prefixes(frames) ==
    {kept \in SUBSET frames :
        \A f \in kept, g \in frames \ kept : \A x \in f, y \in g : x.seq < y.seq}

\* A WAL file that came back, with the unsynced frames t, and torn or not.
CutBack(w, t, b) ==
    [w EXCEPT !.st = IF @ = "loose" THEN "ready" ELSE @, !.tail = t, !.torn = b]

(***************************************************************************)
(* What a power loss makes of a WAL file.  A file whose header or entry    *)
(* was never synced may be gone, or back without its header.               *)
(***************************************************************************)
Survivors(w) ==
    {CutBack(w, t, FALSE) : t \in Prefixes(w.tail)}
      \cup (IF w.torn \/ w.tail # {}
            THEN {CutBack(w, t, TRUE) : t \in Prefixes(w.tail)} ELSE {})
      \cup (IF w.st \in {"bare", "loose"} THEN {NoWal} ELSE {})
      \cup (IF w.st = "loose" /\ w.recs = {} /\ "header" \in Faults
            THEN {WalWith("bare")} ELSE {})

PowerLoss ==
    /\ ProcessGone
    /\ disk' \in {disk} \cup older
    /\ older' = {}
    /\ \E w \in Survivors(wal[disk'.log]) : wal' = [wal EXCEPT ![disk'.log] = w]
    /\ UNCHANGED <<sst, hist>>

-----------------------------------------------------------------------------
(***************************************************************************)
(* Writes.  put and remove are batches of one.                             *)
(***************************************************************************)

Op == [key : Keys, val : Values \cup {Tombstone}]

\* The operations of a batch take consecutive sequence numbers.
BatchRecords(b, n) ==
    {[key |-> b[i].key, seq |-> nextSeq + i - 1, val |-> b[i].val] : i \in 1..n}

\* A frame appended and synced; the fsync covers the frames before it.
AppendSynced(w, frame) ==
    [w EXCEPT !.recs = Readable(w) \cup frame, !.tail = {},
              !.st = IF w.torn THEN "corrupt" ELSE IF Journaled THEN "ready" ELSE @]

\* What a failed append leaves: nothing, part of the frame, or all of it unsynced.
AppendFailures(w, frame) ==
    {w, [w EXCEPT !.torn = TRUE], [w EXCEPT !.tail = @ \cup {frame}]}

\* Bug: the writer keeps appending after a failed append.
NeverPoisoned == TRUE

MayAppend == ~poisoned

Writing(n) ==
    /\ pc = "idle" /\ ~writeFailed
    /\ nextSeq + n <= MaxSeq + 1
    /\ nextSeq' = nextSeq + n

\* Byte sizes are not modelled: any write may find the memtable over its limit.
Write(b, n) ==
    LET frame == BatchRecords(b, n)
    IN  /\ Writing(n) /\ n > 0 /\ MayAppend
        /\ wal' = [wal EXCEPT ![walNo] = AppendSynced(@, frame)]
        /\ mem' = mem \cup frame
        /\ hist' = hist \cup Readable(wal[walNo]) \cup frame
        /\ pc' \in {"idle", "flush"}
        /\ UNCHANGED <<walNo, poisoned, writeFailed, man, snap, sst, disk, older>>

\* An empty batch appends nothing and still looks at the threshold.
WriteEmpty ==
    /\ Writing(0)
    /\ mem # {} /\ pc' = "flush"
    /\ UNCHANGED <<mem, walNo, poisoned, writeFailed, man, snap, diskVars, hist>>

WriteFails(b, n) ==
    /\ Writing(n) /\ n > 0 /\ MayAppend /\ "wal" \in Faults
    /\ \E w \in AppendFailures(wal[walNo], BatchRecords(b, n)) :
           wal' = [wal EXCEPT ![walNo] = w]
    /\ poisoned' = TRUE
    /\ UNCHANGED <<pc, mem, walNo, writeFailed, man, snap, sst, disk, older, hist>>

\* The writer is poisoned: write() returns false and has spent the numbers.
WriteRejected(n) ==
    /\ Writing(n) /\ n > 0 /\ ~MayAppend
    /\ UNCHANGED <<pc, mem, walNo, poisoned, writeFailed, man, snap, diskVars, hist>>

-----------------------------------------------------------------------------
(***************************************************************************)
(* Manifest::save.  It fails before its rename, or after it and before the *)
(* directory is synced: then the new MANIFEST is visible but a power loss  *)
(* may bring the old one back.                                             *)
(***************************************************************************)
Save(m, files) ==
    /\ disk' = m
    /\ older' = {}
    /\ hist' = hist \cup Stored(files, m)

SaveFails(m) ==
    /\ "save" \in Faults
    /\ \/ UNCHANGED <<disk, older>>
       \/ disk' = m /\ older' = older \cup {disk}
    /\ UNCHANGED hist

(***************************************************************************)
(* flush().  It takes two numbers, for the table and for the next WAL, and *)
(* sets the log number in memory before it builds the table.               *)
(***************************************************************************)
tableNumber == man.next
nextWALNumber == man.next + 1

ManNumbered == [man EXCEPT !.next = @ + 2, !.log = nextWALNumber]

\* Bug: the MANIFEST is saved without the last sequence number.
ManFlushedNoSeq == [ManNumbered EXCEPT !.levels[0] = @ \cup {tableNumber}]

ManFlushed ==
    [ManNumbered EXCEPT !.levels[0] = @ \cup {tableNumber}, !.lastSeq = nextSeq - 1]

Built == [sst EXCEPT ![tableNumber] = mem]

Flushing ==
    /\ pc \in {"idle", "flush"}
    /\ mem # {}
    /\ nextWALNumber <= MaxNumber

\* SSTable::build refuses to replace a table; the other actions have built one.
Building == Flushing /\ sst[tableNumber] = {} /\ sst' = Built

\* Bug: a failed flush leaves no trace and later writes are accepted.
GiveUpFlushSilently == pc' = "idle" /\ UNCHANGED writeFailed

GiveUpFlush == pc' = "idle" /\ writeFailed' = TRUE

\* activeMemTable_ becomes an empty one on the new WAL.
SwitchMemTable(wals) ==
    /\ mem' = {} /\ poisoned' = FALSE
    /\ walNo' = nextWALNumber
    /\ wal' = [wals EXCEPT ![nextWALNumber] = WalWith("ready")]

\* build fails, before or after the table's rename, or refuses to replace one.
FlushBuildFails ==
    /\ Flushing
    /\ sst[tableNumber] = {} => "build" \in Faults
    /\ sst' \in IF sst[tableNumber] = {} THEN {sst, Built} ELSE {sst}
    /\ man' = ManNumbered
    /\ GiveUpFlush
    /\ UNCHANGED <<mem, walNo, poisoned, nextSeq, snap, wal, disk, older, hist>>

FlushSaveFails ==
    /\ Building
    /\ man' = ManFlushed
    /\ SaveFails(ManFlushed)
    /\ GiveUpFlush
    /\ UNCHANGED <<mem, walNo, poisoned, nextSeq, snap, wal>>

FlushNewWalFails ==
    /\ Building
    /\ man' = ManFlushed
    /\ Save(ManFlushed, Built)
    /\ \E w \in NewWalLeftovers : wal' = [wal EXCEPT ![nextWALNumber] = w]
    /\ GiveUpFlush
    /\ UNCHANGED <<mem, walNo, poisoned, nextSeq, snap>>

FlushUnlinkFails ==
    /\ Building /\ "unlink" \in Faults
    /\ man' = ManFlushed
    /\ Save(ManFlushed, Built)
    /\ SwitchMemTable(wal)
    /\ GiveUpFlush
    /\ UNCHANGED <<nextSeq, snap>>

Flush ==
    /\ Building
    /\ man' = ManFlushed
    /\ Save(ManFlushed, Built)
    /\ SwitchMemTable([wal EXCEPT ![walNo] = NoWal])
    /\ pc' = "loop"
    /\ UNCHANGED <<writeFailed, nextSeq, snap>>

-----------------------------------------------------------------------------
(***************************************************************************)
(* Compaction.                                                             *)
(***************************************************************************)

\* Bug: live snapshots are ignored.
newestSequence == nextSeq - 1

smallestActiveSnapshot ==
    IF Live = {} THEN nextSeq - 1 ELSE Min({snap[h] : h \in Live})

\* The tables of level l that overlap the range of a set of records.
Overlapping(l, recs) ==
    {n \in man.levels[l] : rangesOverlap(sst[n], minKey(recs), maxKey(recs))}

\* Bug: the part of level 1 that overlaps level 0 is left where it is.
selectOnlyLevelZero == man.levels[0]

\* All of level 0, and what overlaps its combined range in level 1.
selectLevelZeroCompactionTables ==
    man.levels[0] \cup Overlapping(1, Contents(sst, man.levels[0]))

\* Table t of level l, and what overlaps it in the next level.
selectHigherLevelCompactionTables(l, t) ==
    {t} \cup Overlapping(l + 1, sst[t])

(***************************************************************************)
(* The inputs compactLevel(l) may have.  compact() asks for level 0;       *)
(* maybeCompact for level 0 while it has too many tables, then for a level *)
(* that is over its budget.  Sizes and the cursor are not modelled: any    *)
(* level may be over its budget and any of its tables be the next one.     *)
(***************************************************************************)
CompactionInputs(l) ==
    IF l = 0 THEN {selectLevelZeroCompactionTables}
             ELSE {selectHigherLevelCompactionTables(l, t) : t \in man.levels[l]}

MayCompact(l) ==
    /\ man.levels[l] # {}
    /\ \/ pc = "idle" /\ l = 0 /\ (writeFailed => CompactWhenFailed)
       \/ pc = "loop" /\ (l = 0) = (Cardinality(man.levels[0]) > L0Trigger)

\* Bug: a slice takes records out of order.
SlicesUnordered(recs, m) ==
    {f \in [KeysOf(recs) -> 0..(m - 1)] :
        \A i \in 0..(m - 1) : \E k \in KeysOf(recs) : f[k] = i}

(***************************************************************************)
(* The ways writeCompactionOutput may cut the output in m slices: after    *)
(* any key, whatever the threshold, and never between versions of a key.   *)
(***************************************************************************)
Slicings(recs, m) ==
    {f \in [KeysOf(recs) -> 0..(m - 1)] :
        /\ \A k1, k2 \in KeysOf(recs) : k1 <= k2 => f[k1] <= f[k2]
        /\ \A i \in 0..(m - 1) : \E k \in KeysOf(recs) : f[k] = i}

\* The directory with the first done slices written, slice i in file next + i.
WithSlices(recs, f, done) ==
    [n \in Numbers |->
        IF n \in man.next..(man.next + done - 1)
        THEN {r \in recs : man.next + f[r.key] = n}
        ELSE sst[n]]

\* Manifest::replaceTables, after m numbers were allocated.
replaceTables(inputs, m, target) ==
    [man EXCEPT !.next = @ + m,
                !.levels = [l \in Levels |->
                    (@[l] \ inputs) \cup
                        (IF l = target THEN man.next..(man.next + m - 1) ELSE {})]]

FilesRemoved(files, gone) == [n \in Numbers |-> IF n \in gone THEN {} ELSE files[n]]

\* An exception leaves compact() as it is, and makes flush() give up.
CompactionThrows ==
    /\ pc' = "idle"
    /\ writeFailed' = (writeFailed \/ pc = "loop")

(***************************************************************************)
(* compactRange writes the slices one by one, saves the MANIFEST and then  *)
(* removes the inputs.  These are the ends it can come to, for the merged  *)
(* records recs cut in m slices by f.                                      *)
(***************************************************************************)
CompactWriteFails(recs, m, f) ==
    /\ "build" \in Faults
    /\ \E failed \in 1..m : \E done \in {failed - 1, failed} :
           /\ man' = [man EXCEPT !.next = @ + failed]
           /\ sst' = WithSlices(recs, f, done)
    /\ CompactionThrows
    /\ UNCHANGED <<disk, older, hist>>

\* Bug: the inputs are removed before the MANIFEST is saved.
CompactSaveFailsLate(inputs, target, recs, m, f) ==
    /\ man' = replaceTables(inputs, m, target)
    /\ sst' = FilesRemoved(WithSlices(recs, f, m), inputs)
    /\ SaveFails(replaceTables(inputs, m, target))
    /\ CompactionThrows

CompactSaveFails(inputs, target, recs, m, f) ==
    /\ man' = replaceTables(inputs, m, target)
    /\ sst' = WithSlices(recs, f, m)
    /\ SaveFails(replaceTables(inputs, m, target))
    /\ CompactionThrows

CompactUnlinkFails(inputs, target, recs, m, f) ==
    /\ "unlink" \in Faults
    /\ man' = replaceTables(inputs, m, target)
    /\ \E gone \in SUBSET inputs :
           gone # inputs /\ sst' = FilesRemoved(WithSlices(recs, f, m), gone)
    /\ Save(replaceTables(inputs, m, target), WithSlices(recs, f, m))
    /\ CompactionThrows

CompactSucceeds(inputs, target, recs, m, f) ==
    /\ man' = replaceTables(inputs, m, target)
    /\ sst' = FilesRemoved(WithSlices(recs, f, m), inputs)
    /\ Save(replaceTables(inputs, m, target), WithSlices(recs, f, m))
    /\ UNCHANGED <<pc, writeFailed>>

Compact(l) ==
    /\ MayCompact(l)
    /\ \E inputs \in CompactionInputs(l) :
           LET recs == retainForCompaction(Contents(sst, inputs), smallestActiveSnapshot)
           IN  \E m \in 1..Cardinality(KeysOf(recs)) : \E f \in Slicings(recs, m) :
                   /\ man.next + m <= MaxNumber + 1
                   /\ \/ CompactWriteFails(recs, m, f)
                      \/ CompactSaveFails(inputs, l + 1, recs, m, f)
                      \/ CompactUnlinkFails(inputs, l + 1, recs, m, f)
                      \/ CompactSucceeds(inputs, l + 1, recs, m, f)
    /\ UNCHANGED <<mem, walNo, poisoned, nextSeq, snap, wal>>

\* maybeCompact finds nothing over its limit, and flush() returns.
LoopDone ==
    /\ pc = "loop"
    /\ Cardinality(man.levels[0]) <= L0Trigger
    /\ pc' = "idle"
    /\ UNCHANGED <<mem, walNo, poisoned, writeFailed, nextSeq, man, snap, diskVars, hist>>

-----------------------------------------------------------------------------
(***************************************************************************)
(* Snapshots.                                                              *)
(***************************************************************************)

\* snapshot() registers the last sequence number handed out.
TakeSnapshot(h) ==
    /\ pc = "idle" /\ snap[h] = NoSnap
    /\ snap' = [snap EXCEPT ![h] = nextSeq - 1]
    /\ UNCHANGED <<pc, mem, walNo, poisoned, writeFailed, nextSeq, man, diskVars, hist>>

\* Snapshot::release, from its destructor or an assignment.
ReleaseSnapshot(h) ==
    /\ pc = "idle" /\ snap[h] # NoSnap
    /\ snap' = [snap EXCEPT ![h] = NoSnap]
    /\ UNCHANGED <<pc, mem, walNo, poisoned, writeFailed, nextSeq, man, diskVars, hist>>

-----------------------------------------------------------------------------
AnyWrite ==
    \/ \E n \in 1..MaxBatch : \E b \in [1..n -> Op] : Write(b, n) \/ WriteFails(b, n)
    \/ WriteEmpty
    \/ \E n \in 1..MaxBatch : WriteRejected(n)

AnyFlush ==
    Flush \/ FlushBuildFails \/ FlushSaveFails \/ FlushNewWalFails \/ FlushUnlinkFails

Next ==
    \/ Open \/ OpenRefused \/ OpenTruncateFails \/ OpenNewWalFails \/ OpenUnlinkFails
    \/ Kill \/ PowerLoss
    \/ AnyWrite
    \/ AnyFlush
    \/ \E l \in 0..(MaxLevel - 1) : Compact(l)
    \/ LoopDone
    \/ \E h \in Handles : TakeSnapshot(h) \/ ReleaseSnapshot(h)

Spec == Init /\ [][Next]_vars

-----------------------------------------------------------------------------
(***************************************************************************)
(* Properties.                                                             *)
(***************************************************************************)

\* Every variable has its type; in particular the counters keep their bounds.
TypeOK ==
    /\ pc \in Phases
    /\ mem \subseteq Record
    /\ walNo \in Numbers
    /\ poisoned \in BOOLEAN /\ writeFailed \in BOOLEAN
    /\ nextSeq \in 1..(MaxSeq + 1)
    /\ man \in Manifest
    /\ snap \in [Handles -> {NoSnap} \cup (0..MaxSeq)]
    /\ sst \in [Numbers -> SUBSET Record]
    /\ wal \in [Numbers -> WalFile]
    /\ disk \in Manifest /\ older \subseteq Manifest
    /\ hist \subseteq Record

Running == pc \in {"idle", "flush", "loop"}

ReadPoints == {nextSeq - 1} \cup {snap[h] : h \in Live}

\* DB::get answers, for the present and for every live snapshot, with the
\* newest version that was ever committed at or below that sequence number,
\* wherever flushes and compactions have moved the versions of the key.
ReadsNewest ==
    Running => \A k \in Keys, s \in ReadPoints :
                   get(k, s) = SourceGet(hist \cup mem, k, s)

\* DB::scan over any range agrees with DB::get on every key of the range, so
\* that pruning tables by their key range never loses or resurrects a key.
ScanMatchesGet ==
    Running => \A s \in ReadPoints :
        LET answers == {get(k, s) : k \in Keys} \ {Absent}
        IN  \A lo, last \in Keys :
                scan(lo, last + 1, s) = {r \in answers :
                    r.key >= lo /\ r.key <= last /\ r.val # Tombstone}

\* No acknowledged write is lost: whichever MANIFEST the next start may find,
\* its tables exist, and they and its WAL hold, for every committed record,
\* that record or a newer version of the same key.
CrashSafe ==
    \A m \in {disk} \cup older :
        /\ \A n \in allTableNumbers(m) : sst[n] # {}
        /\ \A x \in hist : \E y \in Stored(sst, m) \cup Durable(wal[m.log]) :
               y.key = x.key /\ y.seq >= x.seq

\* write() never hands out a sequence number that a committed record has:
\* what recovery computes from the MANIFEST and the WAL is above all of them.
SequencesFresh ==
    Running => \A x \in hist \cup mem : x.seq < nextSeq

\* The numbers allocateNumber will hand out name no file: a flush never finds
\* its table in the way, and never adopts the frames of a forgotten WAL.
NumbersFresh ==
    Running => \A n \in Numbers : /\ n >= man.next => sst[n] = {}
                                  /\ n > man.next => wal[n].st = "none"

\* The tables of a level below 0 have disjoint key ranges, which is what
\* Manifest::addTable demands (or throws) and getTableMeta relies on.
RangesDisjoint ==
    \A l \in Levels \ {0} : \A n, p \in man.levels[l] :
        n # p => ~rangesOverlap(sst[n], minKey(sst[p]), maxKey(sst[p]))

\* No frame is ever appended behind a torn one, so that recovery never meets
\* a committed frame behind bytes it cannot parse.
WalIntact == \A n \in Numbers : wal[n].st # "corrupt"

\* The constructor accepts every directory that the engine leaves behind.
Reopenable == pc # "refused"

\* A live snapshot is frozen: no write, flush, compaction, failure or other
\* snapshot changes what a read through it returns.
SnapshotStable ==
    [][\A h \in Handles :
          snap[h] # NoSnap /\ snap'[h] = snap[h]
              => \A k \in Keys : get(k, snap[h])' = get(k, snap[h])]_vars

=============================================================================
