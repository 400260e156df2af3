----------------------------- MODULE LsmDBReads -----------------------------
(***************************************************************************)
(* The proofs about reads: get() returns the newest committed version for  *)
(* every read point, scan() agrees with it, a snapshot is frozen, and      *)
(* sequence numbers are never handed out twice.  They hold where directory *)
(* changes become durable in order (Journaled) and the client does not     *)
(* compact a database whose flush has failed (~CompactWhenFailed).         *)
(*                                                                         *)
(* get() stops at the first table with a version of the key.  That is      *)
(* right because the memtable is newer than every table, a level newer     *)
(* than those below it, and in level 0 a higher number newer than a lower. *)
(* These orders survive a restart because the records of a MANIFEST's log  *)
(* are above the MANIFEST's last sequence number, and they survive         *)
(* compaction because two records with the same sequence number are the    *)
(* same record, wherever they are.                                         *)
(***************************************************************************)
EXTENDS LsmDBProofs

USE SeqAssumption, NumberAssumption, LevelAssumption

\* Whatever B holds that is not older than a version of the key in A, A holds.
Newer(A, B) == \A a \in A, b \in B : a.key = b.key /\ b.seq >= a.seq => b \in A

\* For every version in old up to s, recs has that one or a newer one up to s.
CoversAt(recs, old, s) ==
    \A x \in old : x.seq <= s => \E y \in recs : y.key = x.key /\ y.seq >= x.seq /\ y.seq <= s

\* Level 0 is ordered by number, the levels by depth, and the MANIFEST's last
\* sequence number bounds what its tables hold.
Ordered(m, files) ==
    /\ \A n, p \in m.levels[0] : n < p => Newer(files[p], files[n])
    /\ \A l, k \in Levels : l < k => \A n \in m.levels[l], p \in m.levels[k] :
           Newer(files[n], files[p])
    /\ \A n \in allTableNumbers(m) : \A r \in files[n] : r.seq <= m.lastSeq

ManifestsOrdered == \A m \in Known : Ordered(m, sst)

\* What a start would replay is newer than what the MANIFEST has flushed.
LogAbove == \A m \in Candidates : \A a \in Readable(wal[m.log]) : a.seq > m.lastSeq

\* Every record in play, where it may be: committed, in the memtable, in a
\* table, or in a WAL that is live or that a start would replay.
Logs == {m.log : m \in {disk} \cup older} \cup (IF Running THEN {walNo} ELSE {})

AllRecords ==
    hist \cup mem \cup (UNION {Stored(sst, m) : m \in Known})
        \cup (UNION {Readable(wal[n]) : n \in Logs})

Unique == Distinct(AllRecords)

SequencesBelow == Running =>
    /\ \A m \in Known : m.lastSeq < nextSeq
    /\ \A r \in hist \cup mem \cup Readable(wal[walNo]) : r.seq < nextSeq
    /\ \A h \in Handles : snap[h] < nextSeq

MemTableNewer == Running => \A n \in allTableNumbers(man) : Newer(mem, sst[n])

StoredKnown == Running => Stored(sst, man) \subseteq hist \cup mem

SnapshotsCovered ==
    Running => \A h \in Live : CoversAt(Stored(sst, man) \cup mem, hist, snap[h])

ReadInv ==
    /\ ManifestsOrdered
    /\ LogAbove
    /\ Unique
    /\ SequencesBelow
    /\ MemTableNewer
    /\ StoredKnown
    /\ SnapshotsCovered

\* ReadInv is inductive together with the invariants of the other proofs.
Inv == DurInv /\ StructInv /\ ReadInv

-----------------------------------------------------------------------------
(***************************************************************************)
(* Lemmas about the parts.                                                 *)
(***************************************************************************)

LEMMA InStored ==
    ASSUME NEW files, NEW m
    PROVE  /\ \A n \in allTableNumbers(m) : files[n] \subseteq Stored(files, m)
           /\ \A r \in Stored(files, m) : \E n \in allTableNumbers(m) : r \in files[n]
BY DEF Stored, Contents

LEMMA OrderedSame ==
    ASSUME NEW m, NEW files, NEW others, Ordered(m, files),
           \A n \in allTableNumbers(m) : others[n] = files[n]
    PROVE  Ordered(m, others)
<1>1. \A l \in Levels : m.levels[l] \subseteq allTableNumbers(m)
      BY DEF allTableNumbers
<1>2. 0 \in Levels
      BY DEF Levels
<1>. QED
      BY <1>1, <1>2 DEF Ordered

LEMMA NoManifestOrdered == ASSUME NEW files PROVE Ordered(NoManifest, files)
<1>1. 0 \in Levels
      BY DEF Levels
<1>. QED
      BY <1>1 DEF Ordered, NoManifest, allTableNumbers

LEMMA AllParts ==
    /\ hist \cup mem \subseteq AllRecords
    /\ \A m \in Known : Stored(sst, m) \subseteq AllRecords
    /\ \A n \in Logs : Readable(wal[n]) \subseteq AllRecords
BY DEF AllRecords

\* Records that have only moved are still different from one another.
LEMMA UniqueShrinks ==
    ASSUME Unique, hist' \cup mem' \subseteq AllRecords,
           \A m \in Known' : Stored(sst', m) \subseteq AllRecords,
           \A n \in Logs' : Readable(wal'[n]) \subseteq AllRecords
    PROVE  Unique'
<1>1. AllRecords' \subseteq AllRecords
      BY DEF AllRecords
<1>. QED
      BY <1>1 DEF Unique, Distinct

LEMMA CoversAtGrow ==
    ASSUME NEW A, NEW B \in SUBSET Record, NEW H, NEW X, NEW s,
           CoversAt(A, H, s), A \subseteq B, X \subseteq B
    PROVE  CoversAt(B, H \cup X, s)
<1>1. \A r \in B : r.seq \in Int
      BY DEF Record
<1>. QED
      BY <1>1 DEF CoversAt

LEMMA CoversAtReplace ==
    ASSUME NEW A \in SUBSET Record, NEW B \in SUBSET Record, NEW X \in SUBSET Record,
           NEW H \in SUBSET Record, NEW s, CoversAt(A \cup X, H, s), CoversAt(B, A, s)
    PROVE  CoversAt(B \cup X, H, s)
<1>1. \A r \in A \cup B \cup X \cup H : r.seq \in Int
      BY DEF Record
<1>. QED
      BY <1>1 DEF CoversAt

\* Where nothing is above s, covering is covering at s.
LEMMA CoversNow ==
    ASSUME NEW A, NEW H, NEW s, Covers(A, H), \A a \in A : a.seq <= s
    PROVE  CoversAt(A, H, s)
BY DEF Covers, CoversAt

\* Compaction keeps what a read at or above the oldest snapshot can see.
LEMMA RetainCoversAt ==
    ASSUME NEW recs \in SUBSET Record, NEW oldest \in Int, NEW s \in Int, oldest <= s
    PROVE  CoversAt(retainForCompaction(recs, oldest), recs, s)
<1>. SUFFICES ASSUME NEW x \in recs, x.seq <= s
              PROVE  \E y \in retainForCompaction(recs, oldest) :
                         y.key = x.key /\ y.seq >= x.seq /\ y.seq <= s
      BY DEF CoversAt
<1>1. \A r \in recs : r.seq \in Int
      BY DEF Record
<1>2. CASE x.seq > oldest
      BY <1>1, <1>2 DEF retainForCompaction
<1>3. CASE ~ (x.seq > oldest)
  <2>. DEFINE old == {r \in recs : r.key = x.key /\ r.seq <= oldest}
  <2>1. old \in SUBSET Record /\ old # {} /\ x \in old
        BY <1>1, <1>3
  <2>2. PICK y \in old : \A q \in old : q.seq <= y.seq
    <3>. HIDE DEF old
    <3>. QED BY <2>1, NewestIs
  <2>3. y \in retainForCompaction(recs, oldest)
        BY <2>2 DEF retainForCompaction
  <2>. QED
        BY <1>1, <2>1, <2>2, <2>3
<1>. QED
      BY <1>2, <1>3

\* If compaction keeps a version it keeps the newer ones of the key.
LEMMA RetainKeepsNewer ==
    ASSUME NEW recs \in SUBSET Record, Distinct(recs), NEW oldest \in Int,
           NEW a \in retainForCompaction(recs, oldest), NEW b \in recs,
           a.key = b.key, b.seq >= a.seq
    PROVE  b \in retainForCompaction(recs, oldest)
<1>1. a \in recs /\ a.seq \in Int /\ b.seq \in Int
      BY DEF retainForCompaction, Record
<1>2. CASE b.seq > oldest
      BY <1>2 DEF retainForCompaction
<1>3. CASE ~ (b.seq > oldest)
  <2>1. ~ (a.seq > oldest) /\ b.seq <= oldest
        BY <1>1, <1>3
  <2>2. b.seq <= a.seq
        BY <2>1 DEF retainForCompaction
  <2>3. a = b
        BY <1>1, <2>2 DEF Distinct
  <2>. QED BY <2>3
<1>. QED
      BY <1>2, <1>3

-----------------------------------------------------------------------------
(***************************************************************************)
(* Opening and crashing.                                                   *)
(***************************************************************************)

LEMMA ReadInit == Init => ReadInv
<1>. SUFFICES ASSUME Init PROVE ReadInv
      OBVIOUS
<1>1. ~Running /\ Known = {NoManifest} /\ Candidates = {NoManifest} /\ Logs = {NoManifest.log}
      BY DEF Init, Running, Known, Candidates, Publishing, Logs
<1>2. NoManifest.log \in Numbers
      BY NoManifestType DEF Manifest
<1>3. \A n \in Numbers : Readable(wal[n]) = {}
      BY NoWalShape DEF Init, Readable
<1>4. Stored(sst, NoManifest) = {}
      BY DEF Stored, Contents, NoManifest, allTableNumbers
<1>5. AllRecords = {}
  <2>1. UNION {Stored(sst, m) : m \in Known} = {}
        BY <1>1, <1>4
  <2>2. UNION {Readable(wal[n]) : n \in Logs} = {}
        BY <1>1, <1>2, <1>3
  <2>. QED
        BY <2>1, <2>2 DEF AllRecords, Init
<1>. QED
      BY <1>1, <1>2, <1>3, <1>5, NoManifestOrdered
      DEF ReadInv, ManifestsOrdered, LogAbove, Unique, Distinct, SequencesBelow,
          MemTableNewer, StoredKnown, SnapshotsCovered

\* What the process adds to the invariant, it takes along when it goes.
LEMMA ReadClosed ==
    ASSUME ~Running', ManifestsOrdered', LogAbove', Unique'
    PROVE  ReadInv'
BY DEF ReadInv, SequencesBelow, MemTableNewer, StoredKnown, SnapshotsCovered

\* The MANIFEST and the records after a start, however it ends.
LEMMA ReadOpenDisk ==
    ASSUME Journaled, Inv,
           Open \/ OpenRefused \/ OpenTruncateFails \/ OpenNewWalFails \/ OpenUnlinkFails,
           Readable(wal'[disk.log]) \subseteq Readable(wal[disk.log]),
           mem' \subseteq mem \cup Readable(wal[disk.log]),
           Running' => man' = disk /\ walNo' = disk.log
    PROVE  ManifestsOrdered' /\ LogAbove' /\ Unique' /\ Known' = {disk}
<1>. USE DEF Inv, ReadInv
<1>1. /\ ~Running /\ disk' = disk /\ older' = {}
      /\ hist' = hist \cup Stored(sst, disk)
      /\ \A n \in allTableNumbers(disk) : sst'[n] = sst[n]
      BY OpenChanges DEF StructInv
<1>2. /\ Known' = {disk} /\ Candidates' = {disk} /\ Logs' = {disk.log}
      /\ disk \in Known /\ disk \in Candidates /\ disk.log \in Logs
  <2>1. Known' = {disk} /\ disk \in Known
        BY <1>1 DEF Known
  <2>2. Candidates' = {disk} /\ disk \in Candidates
        BY <1>1 DEF Candidates, Publishing
  <2>3. Logs' = {disk.log} /\ disk.log \in Logs
        BY <1>1 DEF Logs
  <2>. QED BY <2>1, <2>2, <2>3
<1>3. ManifestsOrdered'
      BY <1>1, <1>2, OrderedSame DEF ManifestsOrdered
<1>4. LogAbove'
      BY <1>2 DEF LogAbove
<1>5. Stored(sst', disk) = Stored(sst, disk)
      BY <1>1, StoredSame
<1>6. Unique'
  <2>1. /\ hist \cup mem \subseteq AllRecords /\ Stored(sst, disk) \subseteq AllRecords
        /\ Readable(wal[disk.log]) \subseteq AllRecords
        BY <1>2, AllParts
  <2>. QED
        BY <1>1, <1>2, <1>5, <2>1, UniqueShrinks
<1>. QED
      BY <1>2, <1>3, <1>4, <1>6

LEMMA ReadOpenFails ==
    ASSUME Journaled, Inv,
           OpenRefused \/ OpenTruncateFails \/ OpenNewWalFails \/ OpenUnlinkFails
    PROVE  ReadInv'
<1>1. ~Running' /\ mem' = mem
      BY DEF OpenRefused, OpenTruncateFails, OpenNewWalFails, OpenUnlinkFails, Running
<1>2. disk.log \in Numbers /\ TypeOK
      BY DEF Inv, StructInv, TypeOK, Manifest
<1>3. wal'[disk.log] = wal[disk.log] \/ wal'[disk.log] \in NewWalLeftovers \cup {NoWal}
  <2>1. CASE OpenRefused \/ OpenTruncateFails
        BY <1>2, <2>1, CleanupKeeps DEF OpenRefused, OpenTruncateFails
  <2>2. CASE OpenNewWalFails
        BY <1>2, <2>2 DEF OpenNewWalFails, cleanupOldWALFiles
  <2>3. CASE OpenUnlinkFails
        BY <1>2, <2>3 DEF OpenUnlinkFails
  <2>. QED BY <2>1, <2>2, <2>3
<1>4. Readable(wal'[disk.log]) \subseteq Readable(wal[disk.log])
  <2>1. Readable(NoWal) = {} /\ \A w \in NewWalLeftovers : Readable(w) = {}
        BY NoWalShape DEF NewWalLeftovers, Readable
  <2>. QED BY <1>3, <2>1
<1>. QED
      BY <1>1, <1>4, ReadOpenDisk, ReadClosed

LEMMA ReadOpen ==
    ASSUME Journaled, Inv, Open, DurInv', StructInv'
    PROVE  ReadInv'
<1>. DEFINE wals == cleanupOldWALFiles(disk.log)
            live == IF wals[disk.log].st = "none" THEN WalWith("ready") ELSE wals[disk.log]
<1>1. OpenCleanup /\ Restore(disk, wals, live)
      BY DEF Open
<1>2. disk.log \in Numbers /\ TypeOK /\ TypeOK' /\ disk \in Manifest
      BY DEF Inv, StructInv, TypeOK, Manifest
<1>3. wals[disk.log] = wal[disk.log] /\ wals \in [Numbers -> WalFile]
      BY <1>2, CleanupKeeps, WalWithType DEF cleanupOldWALFiles, TypeOK
<1>4. live \in WalFile /\ Readable(live) \subseteq Readable(wal[disk.log])
  <2>1. Readable(WalWith("ready")) = {}
        BY NoWalShape DEF Readable
  <2>. QED BY <1>2, <1>3, <2>1, WalWithType
<1>. HIDE DEF wals, live
<1>5. /\ wal'[disk.log] = [live EXCEPT !.torn = FALSE]
      /\ mem' = Readable(live) /\ man' = disk /\ walNo' = disk.log /\ Running'
      /\ nextSeq' = firstSeq(disk, Readable(live))
      BY <1>1, <1>2, <1>3 DEF Restore, Running
<1>6. Readable(wal'[disk.log]) = Readable(live)
      BY <1>4, <1>5 DEF Readable, WalFile
<1>7. ManifestsOrdered' /\ LogAbove' /\ Unique' /\ Known' = {disk}
      BY <1>4, <1>5, <1>6, ReadOpenDisk
<1>8. /\ ~Running /\ disk' = disk /\ snap' = snap /\ hist' = hist \cup Stored(sst, disk)
      /\ \A n \in allTableNumbers(disk) : sst'[n] = sst[n]
      BY <1>2, OpenChanges
<1>9. Stored(sst', disk) = Stored(sst, disk)
      BY <1>8, StoredSame
<1>10. Live = {} /\ Live' = {}
      BY <1>8 DEF Inv, StructInv, ClosedEmpty, Live
<1>11. Readable(live) \in SUBSET Record
      BY <1>4, ReadableType
<1>12. /\ disk.lastSeq < nextSeq' /\ nextSeq' \in Nat /\ disk.lastSeq \in Nat
       /\ \A r \in Readable(live) : r.seq < nextSeq'
      BY <1>2, <1>5, <1>11, FirstSeqBounds DEF Manifest
<1>13. \A r \in Stored(sst', disk) : r.seq <= disk.lastSeq
      BY <1>7, InStored DEF ManifestsOrdered, Ordered
<1>14. /\ Stored(sst', disk) \in SUBSET Record /\ hist' \in SUBSET Record
      BY <1>2, StoredType DEF TypeOK
<1>15. \A r \in hist' : r.seq < nextSeq'
  <2>1. Covers(Stored(sst', disk) \cup Readable(live), hist')
        BY <1>5 DEF DurInv, MemTableCovered
  <2>2. \A r \in Stored(sst', disk) \cup Readable(live) : r.seq \in Int /\ r.seq < nextSeq'
        BY <1>11, <1>12, <1>13, <1>14 DEF Record
  <2>3. \A r \in hist' : r.seq \in Int
        BY <1>14 DEF Record
  <2>. QED
        BY <1>12, <2>1, <2>2, <2>3 DEF Covers
<1>16. SequencesBelow'
  <2>1. \A h \in Handles : snap'[h] < nextSeq'
        BY <1>10, <1>12 DEF Live, NoSnap
  <2>. QED
        BY <1>5, <1>6, <1>7, <1>12, <1>15, <2>1 DEF SequencesBelow
<1>17. MemTableNewer'
  <2>1. \A a \in Readable(live) : a.seq > disk.lastSeq
        BY <1>5, <1>6, <1>7, <1>8 DEF LogAbove, Candidates
  <2>2. \A a \in Readable(live), b \in Stored(sst', disk) : a.seq \in Int /\ b.seq \in Int
        BY <1>11, <1>14 DEF Record
  <2>3. \A a \in Readable(live), b \in Stored(sst', disk) : ~ (b.seq >= a.seq)
        BY <1>12, <1>13, <2>1, <2>2
  <2>. QED
        BY <1>5, <2>3, InStored DEF MemTableNewer, Newer
<1>18. StoredKnown' /\ SnapshotsCovered'
      BY <1>5, <1>8, <1>9, <1>10 DEF StoredKnown, SnapshotsCovered
<1>. QED
      BY <1>7, <1>16, <1>17, <1>18 DEF ReadInv

LEMMA ReadKill ==
    ASSUME Inv, Kill
    PROVE  ReadInv'
<1>. USE DEF Inv, ReadInv
<1>1. ~Running' /\ mem' = {} /\ UNCHANGED <<sst, wal, disk, older, hist>>
      BY DEF Kill, ProcessGone, Running, diskVars
<1>2. Known' \subseteq Known /\ Candidates' \subseteq Candidates /\ Logs' \subseteq Logs
      BY <1>1 DEF Known, Candidates, Publishing, Logs
<1>3. Unique'
      BY <1>1, <1>2, AllParts, UniqueShrinks
<1>. QED
      BY <1>1, <1>2, <1>3, ReadClosed DEF ManifestsOrdered, LogAbove

LEMMA ReadPowerLoss ==
    ASSUME Inv, PowerLoss
    PROVE  ReadInv'
<1>. USE DEF Inv, ReadInv
<1>1. /\ ~Running' /\ mem' = {} /\ older' = {} /\ disk' \in {disk} \cup older
      /\ UNCHANGED <<sst, hist>>
      BY DEF PowerLoss, ProcessGone, Running
<1>2. /\ Known' = {disk'} /\ Candidates' = {disk'} /\ Logs' = {disk'.log}
      /\ disk' \in Known /\ disk' \in Candidates /\ disk'.log \in Logs
      BY <1>1 DEF Known, Candidates, Publishing, Logs
<1>3. disk'.log \in Numbers
      BY <1>2, StructGives
<1>4. PICK v \in Survivors(wal[disk'.log]) : wal' = [wal EXCEPT ![disk'.log] = v]
      BY DEF PowerLoss
<1>5. Readable(wal'[disk'.log]) \subseteq Readable(wal[disk'.log])
  <2>1. wal'[disk'.log] = v
        BY <1>3, <1>4 DEF StructInv, TypeOK
  <2>. QED
        BY <1>3, <2>1, SurvivorsShape DEF StructInv, TypeOK, BareIsEmpty
<1>6. Unique'
      BY <1>1, <1>2, <1>5, AllParts, UniqueShrinks
<1>. QED
      BY <1>1, <1>2, <1>5, <1>6, ReadClosed DEF ManifestsOrdered, LogAbove

-----------------------------------------------------------------------------
(***************************************************************************)
(* Writes, and the steps that move no record.                              *)
(***************************************************************************)

\* A batch takes sequence numbers of its own, from nextSeq on.
LEMMA BatchSequences ==
    ASSUME NEW n \in Nat, NEW b, nextSeq \in Nat
    PROVE  /\ \A r \in BatchRecords(b, n) : r.seq \in Int /\ nextSeq <= r.seq /\ r.seq < nextSeq + n
           /\ Distinct(BatchRecords(b, n))
<1>1. \A r \in BatchRecords(b, n) : \E i \in 1..n :
          r = [key |-> b[i].key, seq |-> nextSeq + i - 1, val |-> b[i].val]
      BY DEF BatchRecords
<1>2. \A r \in BatchRecords(b, n) : r.seq \in Int /\ nextSeq <= r.seq /\ r.seq < nextSeq + n
      BY <1>1
<1>3. ASSUME NEW x \in BatchRecords(b, n), NEW y \in BatchRecords(b, n), x.seq = y.seq
      PROVE  x = y
  <2>1. PICK i \in 1..n : x = [key |-> b[i].key, seq |-> nextSeq + i - 1, val |-> b[i].val]
        BY <1>1
  <2>2. PICK j \in 1..n : y = [key |-> b[j].key, seq |-> nextSeq + j - 1, val |-> b[j].val]
        BY <1>1
  <2>3. i = j
    <3>1. x.seq = nextSeq + i - 1 /\ y.seq = nextSeq + j - 1
          BY <2>1, <2>2
    <3>2. nextSeq + i - 1 = nextSeq + j - 1
          BY <1>3, <3>1
    <3>. QED BY <3>2
  <2>. QED BY <2>1, <2>2, <2>3
<1>. QED
      BY <1>2, <1>3 DEF Distinct

\* While the process may write, every record anywhere is below its next number.
LEMMA AllBelow ==
    ASSUME Inv, Publishing
    PROVE  /\ \A r \in AllRecords : r.seq \in Int /\ r.seq < nextSeq
           /\ AllRecords \subseteq Record
           /\ nextSeq \in Nat
<1>. USE DEF Inv, ReadInv
<1>1. Running /\ TypeOK /\ Known \subseteq Manifest
      BY StructGives DEF Publishing
<1>2. \A n \in Logs : n = walNo
      BY DEF Logs, DurInv, LogCurrent, Candidates
<1>3. walNo \in Numbers /\ nextSeq \in Nat
      BY <1>1 DEF TypeOK
<1>4. \A n \in Logs : Readable(wal[n]) \subseteq Record
      BY <1>1, <1>2, <1>3, ReadableType DEF TypeOK
<1>5. \A m \in Known : Stored(sst, m) \subseteq Record
      BY <1>1, StoredType DEF TypeOK
<1>6. AllRecords \subseteq Record
      BY <1>1, <1>4, <1>5 DEF AllRecords, TypeOK
<1>7. \A r \in AllRecords : r.seq \in Int
      BY <1>6 DEF Record
<1>8. ASSUME NEW m \in Known, NEW r \in Stored(sst, m) PROVE r.seq < nextSeq
  <2>1. r.seq <= m.lastSeq
        BY InStored DEF ManifestsOrdered, Ordered
  <2>2. m.lastSeq < nextSeq /\ m.lastSeq \in Int
        BY <1>1 DEF SequencesBelow, Manifest
  <2>3. r.seq \in Int
        BY <1>5 DEF Record
  <2>. QED BY <1>3, <2>1, <2>2, <2>3
<1>9. \A r \in hist \cup mem \cup Readable(wal[walNo]) : r.seq < nextSeq
      BY <1>1 DEF SequencesBelow
<1>10. \A r \in AllRecords : r.seq < nextSeq
      BY <1>2, <1>8, <1>9 DEF AllRecords
<1>. QED
      BY <1>3, <1>6, <1>7, <1>10

\* A frame that reaches the WAL, whole or not, and the memtable or not.
LEMMA ReadAppends ==
    ASSUME Inv, TypeOK', Publishing, Publishing', NEW n \in Nat, NEW b,
           nextSeq' = nextSeq + n, UNCHANGED <<walNo, man, snap, sst, disk, older>>,
           Readable(wal'[walNo]) \subseteq Readable(wal[walNo]) \cup BatchRecords(b, n),
           mem \subseteq mem', mem' \subseteq mem \cup BatchRecords(b, n),
           hist \subseteq hist', hist' \subseteq hist \cup mem \cup BatchRecords(b, n)
    PROVE  ReadInv'
<1>. USE DEF Inv, ReadInv
<1>. DEFINE frame == BatchRecords(b, n)
<1>1. Running /\ Running' /\ TypeOK
      BY DEF Publishing, StructInv
<1>2. /\ Known' = Known /\ Candidates' = Candidates /\ Logs' = Logs /\ Live' = Live
      /\ \A i \in Logs : i = walNo
      /\ \A m \in Candidates : m.log = walNo /\ m \in Known
      /\ man \in Known
      BY <1>1 DEF Known, Candidates, Logs, Live, DurInv, LogCurrent
<1>3. /\ \A r \in AllRecords : r.seq \in Int /\ r.seq < nextSeq
      /\ nextSeq \in Nat /\ AllRecords \subseteq Record
      BY AllBelow
<1>4. /\ \A r \in frame : r.seq \in Int /\ nextSeq <= r.seq /\ r.seq < nextSeq + n
      /\ Distinct(frame)
      BY <1>3, BatchSequences
<1>. HIDE DEF frame
<1>5. /\ hist \cup mem \subseteq AllRecords
      /\ Readable(wal[walNo]) \subseteq AllRecords
      /\ \A m \in Known : Stored(sst, m) \subseteq AllRecords
  <2>1. walNo \in Logs
        BY <1>1 DEF Logs
  <2>. QED BY <2>1, AllParts
<1>6. \A m \in Known : m.lastSeq \in Int /\ m.lastSeq < nextSeq
      BY <1>1, StructGives DEF SequencesBelow, Manifest
<1>7. ManifestsOrdered' /\ StoredKnown'
      BY <1>1, <1>2 DEF ManifestsOrdered, StoredKnown
<1>8. LogAbove'
  <2>1. ASSUME NEW m \in Candidates, NEW a \in Readable(wal'[walNo]) PROVE a.seq > m.lastSeq
    <3>1. CASE a \in Readable(wal[walNo])
          BY <1>2, <3>1 DEF LogAbove
    <3>2. CASE a \in frame
          BY <1>2, <1>3, <1>4, <1>6, <3>2
    <3>. QED BY <3>1, <3>2 DEF frame
  <2>. QED
        BY <1>2, <2>1 DEF LogAbove
<1>9. Unique'
  <2>1. AllRecords' \subseteq AllRecords \cup frame
    <3>1. UNION {Stored(sst', m) : m \in Known'} \subseteq AllRecords
          BY <1>2, <1>5
    <3>2. UNION {Readable(wal'[i]) : i \in Logs'} \subseteq AllRecords \cup frame
          BY <1>2, <1>5 DEF frame
    <3>3. hist' \cup mem' \subseteq AllRecords \cup frame
          BY <1>5 DEF frame
    <3>. QED BY <3>1, <3>2, <3>3 DEF AllRecords
  <2>2. \A x \in AllRecords, y \in frame : x.seq # y.seq
        BY <1>3, <1>4
  <2>. QED
        BY <1>4, <2>1, <2>2 DEF Unique, Distinct
<1>10. SequencesBelow'
  <2>1. \A r \in AllRecords \cup frame : r.seq < nextSeq'
        BY <1>3, <1>4
  <2>2. \A m \in Known' : m.lastSeq < nextSeq'
        BY <1>2, <1>3, <1>6
  <2>3. \A h \in Handles : snap'[h] < nextSeq'
    <3>1. \A h \in Handles : snap[h] \in Int /\ snap[h] < nextSeq
          BY <1>1 DEF SequencesBelow, TypeOK, NoSnap
    <3>. QED BY <1>3, <3>1
  <2>4. hist' \cup mem' \cup Readable(wal'[walNo']) \subseteq AllRecords \cup frame
        BY <1>5 DEF frame
  <2>. QED
        BY <2>1, <2>2, <2>3, <2>4 DEF SequencesBelow
<1>11. MemTableNewer'
  <2>1. ASSUME NEW i \in allTableNumbers(man), NEW a \in mem', NEW c \in sst[i],
               a.key = c.key, c.seq >= a.seq
        PROVE  c \in mem'
    <3>1. CASE a \in mem
          BY <1>1, <2>1, <3>1 DEF MemTableNewer, Newer
    <3>2. CASE a \in frame
      <4>1. c \in AllRecords
            BY <1>2, <1>5, InStored
      <4>. QED BY <1>3, <1>4, <2>1, <3>2, <4>1
    <3>. QED BY <3>1, <3>2 DEF frame
  <2>. QED
        BY <2>1 DEF MemTableNewer, Newer
<1>12. SnapshotsCovered'
  <2>1. ASSUME NEW h \in Live, NEW x \in hist', x.seq <= snap[h]
        PROVE  \E y \in Stored(sst, man) \cup mem' :
                   y.key = x.key /\ y.seq >= x.seq /\ y.seq <= snap[h]
    <3>1. snap[h] \in Int /\ snap[h] < nextSeq
          BY <1>1 DEF SequencesBelow, Live, TypeOK, NoSnap
    <3>2. CASE x \in hist
      <4>1. CoversAt(Stored(sst, man) \cup mem, hist, snap[h])
            BY <1>1 DEF SnapshotsCovered
      <4>. QED BY <2>1, <3>2, <4>1 DEF CoversAt
    <3>3. CASE x \in mem
      <4>1. x.seq \in Int
            BY <1>3, <1>5, <3>3
      <4>. QED BY <2>1, <3>3, <4>1
    <3>4. CASE x \in frame
          BY <1>3, <1>4, <2>1, <3>1, <3>4
    <3>. QED BY <3>2, <3>3, <3>4 DEF frame
  <2>. QED
        BY <1>2, <2>1 DEF SnapshotsCovered, CoversAt
<1>. QED
      BY <1>7, <1>8, <1>9, <1>10, <1>11, <1>12

LEMMA ReadWrite ==
    ASSUME Inv, NEW n \in 1..MaxBatch, NEW b \in [1..n -> Op],
           Write(b, n) \/ WriteFails(b, n), TypeOK'
    PROVE  ReadInv'
<1>1. /\ Publishing /\ Publishing' /\ nextSeq' = nextSeq + n /\ ~poisoned /\ n \in Nat
      /\ UNCHANGED <<walNo, man, snap, sst, disk, older>>
      BY DEF Write, WriteFails, Writing, MayAppend, Publishing, Running
<1>2. walNo \in Numbers /\ wal[walNo] \in WalFile /\ wal \in [Numbers -> WalFile]
      BY DEF Inv, StructInv, TypeOK
<1>. DEFINE frame == BatchRecords(b, n)
            w == wal[walNo]
<1>3. CASE Write(b, n)
  <2>1. /\ wal' = [wal EXCEPT ![walNo] = AppendSynced(w, frame)]
        /\ mem' = mem \cup frame /\ hist' = hist \cup Readable(w) \cup frame
        BY <1>3 DEF Write
  <2>2. Readable(w) \subseteq mem
        BY <1>1 DEF Inv, DurInv, MemTableLogged, Publishing
  <2>3. Readable(wal'[walNo]) = Readable(w) \cup frame
    <3>. HIDE DEF frame, w
    <3>1. wal'[walNo] = AppendSynced(w, frame)
          BY <1>2, <2>1
    <3>2. /\ AppendSynced(w, frame).recs = Readable(w) \cup frame
          /\ AppendSynced(w, frame).tail = {}
          BY <1>2 DEF AppendSynced, WalFile, w
    <3>. QED BY <3>1, <3>2 DEF Readable
  <2>. QED
        BY <1>1, <2>1, <2>2, <2>3, ReadAppends
<1>4. CASE WriteFails(b, n)
  <2>1. PICK v \in AppendFailures(w, frame) : wal' = [wal EXCEPT ![walNo] = v]
        BY <1>4 DEF WriteFails
  <2>2. mem' = mem /\ hist' = hist
        BY <1>4 DEF WriteFails
  <2>3. Readable(v) \subseteq Readable(w) \cup frame
    <3>. HIDE DEF frame, w
    <3>1. /\ v.recs = w.recs
          /\ v.tail = w.tail \/ v.tail = w.tail \cup {frame}
          BY <1>2 DEF AppendFailures, WalFile, w
    <3>. QED BY <3>1 DEF Readable
  <2>4. wal'[walNo] = v
        BY <1>2, <2>1
  <2>. QED
        BY <1>1, <2>2, <2>3, <2>4, ReadAppends
<1>. QED
      BY <1>3, <1>4

\* Steps that may only spend numbers, take a snapshot or release one.
LEMMA ReadIdle ==
    ASSUME Inv, TypeOK', Running, Running', Publishing' => Publishing, nextSeq' >= nextSeq,
           UNCHANGED <<mem, walNo, man, sst, wal, disk, older, hist>>,
           \A h \in Handles : snap'[h] \in {snap[h], NoSnap, nextSeq - 1}
    PROVE  ReadInv'
<1>. USE DEF Inv, ReadInv
<1>1. /\ Known' = Known /\ Candidates' \subseteq Candidates /\ Logs' = Logs
      /\ man \in Known /\ TypeOK
      BY DEF Known, Candidates, Logs, StructInv
<1>2. AllRecords' = AllRecords
      BY <1>1 DEF AllRecords
<1>3. nextSeq \in Nat /\ nextSeq >= 1 /\ nextSeq' \in Nat
      BY <1>1 DEF TypeOK
<1>4. /\ \A m \in Known : m.lastSeq \in Int /\ m.lastSeq < nextSeq
      /\ \A r \in hist \cup mem \cup Readable(wal[walNo]) : r.seq < nextSeq
      /\ \A h \in Handles : snap[h] \in Int /\ snap[h] < nextSeq
      BY <1>1, StructGives DEF SequencesBelow, TypeOK, NoSnap, Manifest
<1>5. \A r \in hist \cup mem \cup Readable(wal[walNo]) : r.seq \in Int
      BY <1>1, ReadableType DEF TypeOK, Record
<1>6. SequencesBelow'
  <2>1. \A m \in Known : m.lastSeq < nextSeq'
        BY <1>3, <1>4
  <2>2. \A r \in hist \cup mem \cup Readable(wal[walNo]) : r.seq < nextSeq'
        BY <1>3, <1>4, <1>5
  <2>3. \A h \in Handles : snap'[h] < nextSeq'
        BY <1>3, <1>4 DEF NoSnap
  <2>. QED
        BY <1>1, <2>1, <2>2, <2>3 DEF SequencesBelow
<1>7. SnapshotsCovered'
  <2>1. CoversAt(Stored(sst, man) \cup mem, hist, nextSeq - 1)
    <3>1. Covers(Stored(sst, man) \cup mem, hist)
          BY DEF DurInv, MemTableCovered
    <3>2. Stored(sst, man) \cup mem \subseteq hist \cup mem
          BY DEF StoredKnown
    <3>3. \A a \in Stored(sst, man) \cup mem : a.seq <= nextSeq - 1
          BY <1>3, <1>4, <1>5, <3>2
    <3>. QED BY <3>1, <3>3, CoversNow
  <2>2. ASSUME NEW h \in Live' PROVE CoversAt(Stored(sst, man) \cup mem, hist, snap'[h])
    <3>1. h \in Handles /\ snap'[h] # NoSnap
          BY DEF Live
    <3>2. snap'[h] = nextSeq - 1 \/ (snap'[h] = snap[h] /\ h \in Live)
          BY <3>1 DEF Live
    <3>. QED BY <2>1, <3>2 DEF SnapshotsCovered
  <2>. QED
        BY <2>2 DEF SnapshotsCovered
<1>. QED
      BY <1>1, <1>2, <1>6, <1>7
      DEF ManifestsOrdered, LogAbove, Unique, MemTableNewer, StoredKnown

LEMMA ReadRest ==
    ASSUME Inv, TypeOK',
           \/ WriteEmpty
           \/ \E n \in 1..MaxBatch : WriteRejected(n)
           \/ LoopDone
           \/ \E h \in Handles : TakeSnapshot(h) \/ ReleaseSnapshot(h)
    PROVE  ReadInv'
<1>1. /\ Running /\ Running' /\ (Publishing' => Publishing)
      /\ UNCHANGED <<mem, walNo, man, sst, wal, disk, older, hist>>
      BY DEF WriteEmpty, WriteRejected, LoopDone, TakeSnapshot, ReleaseSnapshot, Writing,
             diskVars, Running, Publishing
<1>2. nextSeq' >= nextSeq
  <2>1. nextSeq \in Nat
        BY DEF Inv, StructInv, TypeOK
  <2>. QED
        BY <2>1 DEF WriteEmpty, WriteRejected, LoopDone, TakeSnapshot, ReleaseSnapshot, Writing
<1>3. \A h \in Handles : snap'[h] \in {snap[h], NoSnap, nextSeq - 1}
  <2>1. snap \in [Handles -> {NoSnap} \cup (0..MaxSeq)]
        BY DEF Inv, StructInv, TypeOK
  <2>. QED
        BY <2>1 DEF WriteEmpty, WriteRejected, LoopDone, TakeSnapshot, ReleaseSnapshot, Writing
<1>. QED
      BY <1>1, <1>2, <1>3, ReadIdle

-----------------------------------------------------------------------------
(***************************************************************************)
(* Flush.                                                                  *)
(***************************************************************************)

\* The memtable becomes the newest table: the orders hold with it in level 0.
LEMMA FlushedOrdered ==
    ASSUME Inv, Flushing
    PROVE  /\ Ordered(ManFlushed, Built)
           /\ Ordered(ManNumbered, sst) /\ Ordered(ManNumbered, Built)
           /\ Stored(Built, ManFlushed) = Stored(sst, man) \cup mem
           /\ Stored(sst, ManNumbered) = Stored(sst, man)
           /\ Stored(Built, ManNumbered) = Stored(sst, man)
           /\ Readable(wal[nextWALNumber]) = {}
<1>. USE DEF Inv, ReadInv
<1>1. /\ Running /\ man \in Known /\ tableNumber = man.next /\ tableNumber \in Numbers
      /\ nextWALNumber \in Numbers /\ nextWALNumber = man.next + 1
      /\ \A m \in Known : \A n \in allTableNumbers(m) : n # tableNumber /\ Built[n] = sst[n]
      /\ Built[tableNumber] = mem
      BY FlushedSound
<1>2. /\ ManFlushed.levels = [man.levels EXCEPT ![0] = @ \cup {tableNumber}]
      /\ ManFlushed.lastSeq = nextSeq - 1
      /\ ManNumbered.levels = man.levels /\ ManNumbered.lastSeq = man.lastSeq
      /\ allTableNumbers(ManFlushed) = allTableNumbers(man) \cup {tableNumber}
      /\ allTableNumbers(ManNumbered) = allTableNumbers(man)
      BY FlushedSound
<1>3. man.levels \in [Levels -> SUBSET Numbers] /\ 0 \in Levels /\ man.next \in Nat
      BY <1>1, StructGives DEF Levels
<1>4. Ordered(man, sst) /\ Ordered(man, Built)
  <2>1. Ordered(man, sst)
        BY <1>1 DEF ManifestsOrdered
  <2>. QED BY <1>1, <2>1, OrderedSame
<1>5. Ordered(ManNumbered, sst) /\ Ordered(ManNumbered, Built)
      BY <1>2, <1>4 DEF Ordered
<1>6. \A l \in Levels : man.levels[l] \subseteq allTableNumbers(man)
      BY DEF allTableNumbers
<1>7. \A n \in allTableNumbers(man) : /\ n \in Int /\ n < tableNumber
                                      /\ Newer(Built[tableNumber], Built[n])
      BY <1>1, ListedBelow DEF MemTableNewer, Numbers
<1>8. /\ ManFlushed.levels[0] = man.levels[0] \cup {tableNumber}
      /\ \A l \in Levels : l # 0 => ManFlushed.levels[l] = man.levels[l]
      BY <1>2, <1>3
<1>9. \A n \in allTableNumbers(ManFlushed) : \A r \in Built[n] : r.seq <= ManFlushed.lastSeq
  <2>1. nextSeq \in Nat /\ mem \subseteq Record /\ sst \in [Numbers -> SUBSET Record]
        BY DEF StructInv, TypeOK
  <2>2. man.lastSeq \in Int /\ man.lastSeq < nextSeq
        BY <1>1, StructGives DEF SequencesBelow, Manifest
  <2>3. \A r \in mem : r.seq \in Int /\ r.seq <= nextSeq - 1
        BY <1>1, <2>1 DEF SequencesBelow, Record
  <2>4. ASSUME NEW n \in allTableNumbers(man), NEW r \in Built[n] PROVE r.seq <= nextSeq - 1
    <3>1. r \in sst[n] /\ r.seq <= man.lastSeq /\ n \in Numbers
          BY <1>1, <1>4, ListedBelow DEF Ordered
    <3>2. r.seq \in Int
          BY <2>1, <3>1 DEF Record
    <3>. QED BY <2>1, <2>2, <3>1, <3>2
  <2>. QED
        BY <1>1, <1>2, <2>3, <2>4
<1>10. \A n, p \in ManFlushed.levels[0] : n < p => Newer(Built[p], Built[n])
  <2>. SUFFICES ASSUME NEW n \in ManFlushed.levels[0], NEW p \in ManFlushed.levels[0], n < p
                PROVE  Newer(Built[p], Built[n])
        OBVIOUS
  <2>1. CASE n \in man.levels[0] /\ p \in man.levels[0]
        BY <1>4, <2>1 DEF Ordered
  <2>2. CASE n \in man.levels[0] /\ p = tableNumber
        BY <1>3, <1>6, <1>7, <2>2
  <2>3. CASE n = tableNumber
    <3>1. tableNumber \in Int
          BY <1>1, <1>3
    <3>2. p = tableNumber \/ p \in allTableNumbers(man)
          BY <1>3, <1>6, <1>8
    <3>. QED BY <1>7, <2>3, <3>1, <3>2
  <2>. QED
        BY <1>8, <2>1, <2>2, <2>3
<1>11. ASSUME NEW l \in Levels, NEW k \in Levels, l < k,
              NEW n \in ManFlushed.levels[l], NEW p \in ManFlushed.levels[k]
       PROVE  Newer(Built[n], Built[p])
  <2>1. k # 0
        BY <1>11 DEF Levels
  <2>2. p \in man.levels[k] /\ p \in allTableNumbers(man)
        BY <1>6, <1>8, <2>1
  <2>3. CASE n \in man.levels[l]
        BY <1>4, <1>11, <2>2, <2>3 DEF Ordered
  <2>4. CASE n = tableNumber
        BY <1>7, <2>2, <2>4
  <2>. QED
        BY <1>8, <2>3, <2>4
<1>12. Ordered(ManFlushed, Built)
      BY <1>9, <1>10, <1>11 DEF Ordered
<1>13. /\ Stored(Built, ManFlushed) = Stored(sst, man) \cup mem
       /\ Stored(sst, ManNumbered) = Stored(sst, man)
       /\ Stored(Built, ManNumbered) = Stored(sst, man)
      BY <1>1, <1>2 DEF Stored, Contents
<1>14. Readable(wal[nextWALNumber]) = {}
  <2>1. wal[nextWALNumber].st = "none"
    <3>1. NumbersFresh
          BY StructFresh
    <3>. QED BY <1>1, <1>3, <3>1 DEF NumbersFresh
  <2>. QED
        BY <1>1, <2>1 DEF StructInv, BareIsEmpty
<1>. QED
      BY <1>5, <1>12, <1>13, <1>14

\* What is common to the ends of flush.
LEMMA ReadFlushEnds ==
    ASSUME Inv, TypeOK', Flushing, Running', UNCHANGED <<nextSeq, snap>>,
           \/ /\ man' = ManNumbered /\ sst' \in {sst, Built} /\ mem' = mem
              /\ UNCHANGED <<disk, older, hist>>
           \/ /\ man' = ManFlushed /\ sst' = Built /\ mem' \in {mem, {}}
              /\ {disk'} \cup older' \subseteq {disk} \cup older \cup {ManFlushed}
              /\ \/ hist' = hist /\ mem' = mem
                 \/ hist' = hist \cup Stored(Built, ManFlushed),
           Candidates' \subseteq {disk} \cup older \cup {ManFlushed},
           walNo' \in {walNo, nextWALNumber},
           \A n \in Numbers : Readable(wal'[n]) \subseteq Readable(wal[n])
    PROVE  ReadInv'
<1>. USE DEF Inv, ReadInv
<1>1. /\ Running /\ man \in Known /\ {disk} \cup older \subseteq Known \cap Candidates
      /\ TypeOK /\ walNo \in Numbers /\ nextWALNumber \in Numbers /\ walNo \in Logs
      /\ \A m \in {disk} \cup older : m.log \in Logs /\ m.log \in Numbers
      BY FlushedSound, StructGives DEF StructInv, TypeOK, Candidates, Known, Logs
<1>2. /\ \A m \in Known : \A n \in allTableNumbers(m) : sst'[n] = sst[n]
      /\ ManFlushed.log = nextWALNumber
      /\ ManFlushed.lastSeq = nextSeq - 1 /\ ManNumbered.lastSeq = man.lastSeq
      /\ allTableNumbers(ManFlushed) = allTableNumbers(man) \cup {tableNumber}
      /\ allTableNumbers(ManNumbered) = allTableNumbers(man)
      /\ Built[tableNumber] = mem
      BY FlushedSound
<1>3. /\ Stored(sst', man') \cup mem' = Stored(sst, man) \cup mem
      /\ Stored(sst', man') \subseteq Stored(sst, man) \cup mem
      BY FlushedOrdered
<1>4. Known' \subseteq Known \cup {man'} /\ man' \in Known'
      BY <1>1 DEF Known
<1>5. ManifestsOrdered'
  <2>1. \A m \in Known : Ordered(m, sst')
        BY <1>2, OrderedSame DEF ManifestsOrdered
  <2>2. Ordered(man', sst')
        BY FlushedOrdered
  <2>. QED
        BY <1>4, <2>1, <2>2 DEF ManifestsOrdered
<1>6. Readable(wal'[nextWALNumber]) = {}
      BY <1>1, FlushedOrdered
<1>7. LogAbove'
  <2>1. ASSUME NEW m \in {disk} \cup older, NEW a \in Readable(wal'[m.log])
        PROVE  a.seq > m.lastSeq
        BY <1>1 DEF LogAbove
  <2>. QED
        BY <1>2, <1>6, <2>1 DEF LogAbove
<1>8. /\ hist \subseteq hist' /\ hist' \subseteq hist \cup Stored(sst', man')
      /\ hist' \cup mem' \subseteq hist \cup mem /\ hist \cup mem \subseteq hist' \cup mem'
  <2>1. Stored(sst, man) \subseteq hist \cup mem
        BY <1>1 DEF StoredKnown
  <2>. QED
        BY <2>1, FlushedOrdered
<1>9. hist \cup mem \subseteq AllRecords /\ Stored(sst', man') \subseteq AllRecords
      BY <1>1, <1>3, AllParts
<1>10. Unique'
  <2>1. \A m \in Known' : Stored(sst', m) \subseteq AllRecords
    <3>1. \A m \in Known : Stored(sst', m) = Stored(sst, m)
          BY <1>2, StoredSame
    <3>. QED BY <1>4, <1>9, <3>1, AllParts
  <2>2. ASSUME NEW n \in Logs' PROVE Readable(wal'[n]) \subseteq AllRecords
    <3>1. n = nextWALNumber \/ (n \in Logs /\ n \in Numbers)
          BY <1>1, <1>2 DEF Logs
    <3>. QED BY <1>6, <3>1, AllParts
  <2>. QED
        BY <1>8, <1>9, <2>1, <2>2, UniqueShrinks
<1>11. SequencesBelow'
  <2>1. nextSeq \in Nat
        BY <1>1 DEF TypeOK
  <2>2. /\ \A m \in Known : m.lastSeq < nextSeq
        /\ \A r \in hist \cup mem \cup Readable(wal[walNo]) : r.seq < nextSeq
        /\ \A h \in Handles : snap[h] < nextSeq
        BY <1>1 DEF SequencesBelow
  <2>3. man'.lastSeq < nextSeq
        BY <1>1, <1>2, <2>1, <2>2
  <2>4. Readable(wal'[walNo']) \subseteq Readable(wal[walNo])
        BY <1>1, <1>6
  <2>. QED
        BY <1>4, <1>8, <2>2, <2>3, <2>4 DEF SequencesBelow
<1>12. MemTableNewer'
  <2>1. \A n \in allTableNumbers(man) : sst'[n] = sst[n] /\ Newer(mem, sst[n])
        BY <1>1, <1>2 DEF MemTableNewer
  <2>2. Newer(mem, mem) /\ \A A : Newer({}, A)
        BY DEF Newer
  <2>3. ASSUME NEW n \in allTableNumbers(man') PROVE Newer(mem, sst'[n])
        BY <1>2, <2>1, <2>2
  <2>. QED
        BY <2>2, <2>3 DEF MemTableNewer
<1>13. StoredKnown'
  <2>1. Stored(sst, man) \subseteq hist \cup mem
        BY <1>1 DEF StoredKnown
  <2>. QED
        BY <1>3, <1>8, <2>1 DEF StoredKnown
<1>14. SnapshotsCovered'
  <2>1. Live' = Live
        BY DEF Live
  <2>2. Stored(sst', man') \cup mem' \in SUBSET Record
        BY StoredType DEF TypeOK
  <2>3. ASSUME NEW h \in Live PROVE CoversAt(Stored(sst', man') \cup mem', hist', snap[h])
    <3>1. CoversAt(Stored(sst', man') \cup mem', hist, snap[h])
          BY <1>1, <1>3 DEF SnapshotsCovered
    <3>2. CoversAt(Stored(sst', man') \cup mem', hist \cup Stored(sst', man'), snap[h])
          BY <2>2, <3>1, CoversAtGrow
    <3>. QED BY <1>8, <3>2 DEF CoversAt
  <2>. QED
        BY <2>1, <2>3 DEF SnapshotsCovered
<1>. QED
      BY <1>5, <1>7, <1>10, <1>11, <1>12, <1>13, <1>14

LEMMA ReadFlush ==
    ASSUME Inv, AnyFlush, TypeOK'
    PROVE  ReadInv'
<1>1. Flushing /\ Running' /\ UNCHANGED <<nextSeq, snap>>
      BY DEF AnyFlush, Flush, FlushBuildFails, FlushSaveFails, FlushNewWalFails,
             FlushUnlinkFails, Building, Flushing, GiveUpFlush, Running
<1>2. /\ nextWALNumber \in Numbers /\ walNo \in Numbers /\ wal \in [Numbers -> WalFile]
      BY <1>1, FlushedSound DEF Inv, StructInv, TypeOK
<1>3. /\ Readable(NoWal) = {} /\ Readable(WalWith("ready")) = {}
      /\ \A w \in NewWalLeftovers : Readable(w) = {}
      BY NoWalShape DEF NewWalLeftovers, Readable
<1>4. CASE FlushBuildFails
  <2>1. /\ man' = ManNumbered /\ sst' \in {sst, Built} /\ mem' = mem
        /\ UNCHANGED <<walNo, wal, disk, older, hist>> /\ ~Publishing'
        BY <1>4 DEF FlushBuildFails, GiveUpFlush, Publishing
  <2>. QED
        BY <1>1, <2>1, ReadFlushEnds DEF Candidates
<1>5. CASE FlushSaveFails
  <2>1. /\ man' = ManFlushed /\ sst' = Built /\ mem' = mem /\ hist' = hist
        /\ {disk'} \cup older' \subseteq {disk} \cup older \cup {ManFlushed}
        /\ UNCHANGED <<walNo, wal>> /\ ~Publishing'
        BY <1>5 DEF FlushSaveFails, SaveFails, Building, GiveUpFlush, Publishing
  <2>2. Candidates' \subseteq {disk} \cup older \cup {ManFlushed}
        BY <2>1 DEF Candidates
  <2>. QED
        BY <1>1, <2>1, <2>2, ReadFlushEnds
<1>6. CASE Flush \/ FlushNewWalFails \/ FlushUnlinkFails
  <2>1. /\ man' = ManFlushed /\ sst' = Built /\ mem' \in {mem, {}}
        /\ disk' = ManFlushed /\ older' = {} /\ hist' = hist \cup Stored(Built, ManFlushed)
        /\ walNo' \in {walNo, nextWALNumber}
        BY <1>6 DEF Flush, FlushNewWalFails, FlushUnlinkFails, Save, Building, SwitchMemTable
  <2>2. \A n \in Numbers : wal'[n] = wal[n] \/ Readable(wal'[n]) = {}
        BY <1>2, <1>3, <1>6 DEF Flush, FlushNewWalFails, FlushUnlinkFails, SwitchMemTable
  <2>3. Candidates' \subseteq {disk} \cup older \cup {ManFlushed}
        BY <2>1 DEF Candidates
  <2>. QED
        BY <1>1, <2>1, <2>2, <2>3, ReadFlushEnds
<1>. QED
      BY <1>4, <1>5, <1>6 DEF AnyFlush

-----------------------------------------------------------------------------
(***************************************************************************)
(* Compaction.                                                             *)
(***************************************************************************)

LEMMA SmallestSnapshotBelow ==
    ASSUME TypeOK, NEW h \in Live
    PROVE  smallestActiveSnapshot <= snap[h] /\ snap[h] \in Int
<1>. DEFINE S == {snap[i] : i \in Live}
<1>1. S \in SUBSET Nat /\ snap[h] \in S
      BY DEF Live, TypeOK, NoSnap
<1>. HIDE DEF S
<1>2. Min(S) <= snap[h] /\ snap[h] \in Nat
      BY <1>1, MinNat
<1>. QED
      BY <1>2 DEF smallestActiveSnapshot, S

\* The output is newer than the levels below it and older than those above it,
\* and every live snapshot still sees what it saw.
LEMMA CompactedOrdered ==
    ASSUME Inv, Running, NEW l \in 0..(MaxLevel - 1),
           NEW inputs, NEW m, NEW f, CompactionStep(l, inputs, m, f),
           NEW M, M = replaceTables(inputs, m, l + 1),
           NEW F, F = WithSlices(Merged(inputs), f, m)
    PROVE  /\ Ordered(M, F)
           /\ Stored(F, M) \subseteq Stored(sst, man)
           /\ \A h \in Live : CoversAt(Stored(F, M), Stored(sst, man), snap[h])
<1>. USE DEF Inv, ReadInv
<1>. DEFINE recs == Merged(inputs)
            new == NewNumbers(m)
            old == Contents(sst, inputs)
            tables == allTableNumbers(man)
<1>1. /\ m \in Nat \ {0} /\ l + 1 \in Levels \ {0} /\ man \in Known
      /\ inputs \in SUBSET tables /\ recs \in SUBSET Record /\ recs \subseteq old
      /\ M.lastSeq = man.lastSeq
      /\ M.levels = [k \in Levels |-> (man.levels[k] \ inputs) \cup
                                        (IF k = l + 1 THEN new ELSE {})]
      /\ allTableNumbers(M) = (tables \ inputs) \cup new
      /\ \A n \in new : F[n] = {r \in recs : man.next + f[r.key] = n}
      /\ \A r \in recs : man.next + f[r.key] \in new
      BY CompactionResult DEF Compacted
<1>2. Sound(man, sst) /\ \A n \in tables : F[n] = sst[n]
      BY <1>1, CompactedSound DEF StructInv, ManifestsSound
<1>3. Ordered(man, sst)
      BY <1>1 DEF ManifestsOrdered
<1>4. \A k \in Levels : man.levels[k] \subseteq tables
      BY DEF allTableNumbers
<1>5. /\ TypeOK /\ Stored(sst, man) \subseteq AllRecords
      /\ Stored(sst, man) \in SUBSET Record /\ old \subseteq Stored(sst, man)
      BY <1>1, AllParts, StoredType DEF StructInv, TypeOK, Stored, Contents
<1>6. Distinct(old)
      BY <1>5 DEF Unique, Distinct
<1>7. smallestActiveSnapshot \in Int
      BY <1>5, SmallestSnapshotType
<1>8. /\ inputs \in CompactionInputs(l) /\ man.levels[l] # {} /\ l \in Levels
      /\ l + 1 \in Levels
      BY <1>1 DEF CompactionStep, Levels
<1>9. PICK top \in SUBSET man.levels[l] :
          /\ top # {} /\ (l = 0 => top = man.levels[0])
          /\ inputs = top \cup Overlapping(l + 1, Contents(sst, top))
      BY <1>8, InputsShape
<1>10. \A q \in inputs : q \in top \/ q \in man.levels[l + 1]
      BY <1>9 DEF Overlapping
<1>11. \A n \in new : \A r \in F[n] : r \in recs /\ \E q \in inputs : r \in sst[q]
      BY <1>1 DEF Contents
<1>12. recs = retainForCompaction(old, smallestActiveSnapshot)
      BY DEF Merged
<1>. HIDE DEF recs, new, old, tables
<1>13. ASSUME NEW n \in new, NEW k \in Levels, l + 1 < k, NEW p \in man.levels[k]
       PROVE  Newer(F[n], sst[p])
  <2>. SUFFICES ASSUME NEW a \in F[n], NEW b \in sst[p], a.key = b.key, b.seq >= a.seq
                PROVE  b \in F[n]
        BY DEF Newer
  <2>1. PICK q \in inputs : a \in sst[q]
        BY <1>11
  <2>2. (q \in man.levels[l] \/ q \in man.levels[l + 1]) /\ l < k /\ l + 1 < k
        BY <1>10, <1>13 DEF Levels
  <2>3. b \in sst[q]
        BY <1>3, <1>8, <2>1, <2>2 DEF Ordered, Newer
  <2>4. b \in old
        BY <2>1, <2>3 DEF Contents, old
  <2>5. a \in recs /\ old \in SUBSET Record
        BY <1>5, <1>11
  <2>6. b \in recs
        BY <1>6, <1>7, <1>12, <2>4, <2>5, RetainKeepsNewer
  <2>. QED
        BY <1>1, <2>6
<1>14. ASSUME NEW k \in Levels, k < l + 1, NEW n \in man.levels[k], n \notin inputs, NEW p \in new
       PROVE  Newer(sst[n], F[p])
  <2>. SUFFICES ASSUME NEW a \in sst[n], NEW b \in F[p], a.key = b.key, b.seq >= a.seq
                PROVE  b \in sst[n]
        BY DEF Newer
  <2>1. PICK q \in inputs : b \in sst[q]
        BY <1>11
  <2>2. CASE q \in man.levels[l + 1]
        BY <1>3, <1>8, <1>14, <2>1, <2>2 DEF Ordered, Newer
  <2>3. CASE q \in top /\ k < l
        BY <1>3, <1>8, <2>1, <2>3 DEF Ordered, Newer
  <2>4. CASE q \in top /\ k = l
    <3>1. l # 0 /\ q # n
          BY <1>9, <1>14, <2>4
    <3>2. Apart(sst[n], sst[q])
          BY <1>2, <1>8, <1>14, <2>4, <3>1 DEF Sound
    <3>3. a.key \in Nat
      <4>1. a \in Record
            BY <1>4, <1>5, <1>14, InStored DEF tables
      <4>. QED BY <4>1, KeysAssumption DEF Record
    <3>. QED BY <2>1, <3>2, <3>3 DEF Apart
  <2>5. k < l \/ k = l
        BY <1>14 DEF Levels
  <2>. QED
        BY <1>10, <2>2, <2>3, <2>4, <2>5
<1>15. \A n, p \in M.levels[0] : n < p => Newer(F[p], F[n])
  <2>1. M.levels[0] \subseteq man.levels[0] /\ man.levels[0] \subseteq tables
        BY <1>1, <1>4 DEF Levels
  <2>. QED
        BY <1>2, <1>3, <2>1 DEF Ordered
<1>16. ASSUME NEW i \in Levels, NEW k \in Levels, i < k,
              NEW n \in M.levels[i], NEW p \in M.levels[k]
       PROVE  Newer(F[n], F[p])
  <2>1. /\ (n \in man.levels[i] /\ n \notin inputs) \/ (i = l + 1 /\ n \in new)
        /\ (p \in man.levels[k] /\ p \notin inputs) \/ (k = l + 1 /\ p \in new)
        BY <1>1
  <2>2. \A j \in Levels : \A q \in man.levels[j] : F[q] = sst[q]
        BY <1>2, <1>4
  <2>3. CASE n \in man.levels[i] /\ p \in man.levels[k]
        BY <1>3, <1>16, <2>2, <2>3 DEF Ordered
  <2>4. CASE i = l + 1 /\ n \in new /\ p \in man.levels[k]
        BY <1>13, <1>16, <2>2, <2>4
  <2>5. CASE k = l + 1 /\ p \in new /\ n \in man.levels[i] /\ n \notin inputs
        BY <1>14, <1>16, <2>2, <2>5
  <2>6. ~ (i = l + 1 /\ k = l + 1)
        BY <1>16 DEF Levels
  <2>. QED
        BY <2>1, <2>3, <2>4, <2>5, <2>6
<1>17. Stored(F, M) \subseteq Stored(sst, man)
  <2>1. ASSUME NEW n \in allTableNumbers(M), NEW r \in F[n] PROVE r \in Stored(sst, man)
    <3>1. CASE n \in new
          BY <1>1, <1>5, <1>11, <3>1
    <3>2. CASE n \in tables
          BY <1>2, <3>2, InStored DEF tables
    <3>. QED BY <1>1, <3>1, <3>2
  <2>. QED
        BY <2>1, InStored
<1>18. \A n \in allTableNumbers(M) : \A r \in F[n] : r.seq <= M.lastSeq
  <2>1. \A r \in Stored(sst, man) : r.seq <= man.lastSeq
        BY <1>3, InStored DEF Ordered
  <2>. QED
        BY <1>1, <1>17, <2>1, InStored
<1>19. Ordered(M, F)
      BY <1>15, <1>16, <1>18 DEF Ordered
<1>20. ASSUME NEW h \in Live PROVE CoversAt(Stored(F, M), Stored(sst, man), snap[h])
  <2>. SUFFICES ASSUME NEW x \in Stored(sst, man), x.seq <= snap[h]
                PROVE  \E y \in Stored(F, M) : y.key = x.key /\ y.seq >= x.seq /\ y.seq <= snap[h]
        BY DEF CoversAt
  <2>1. PICK n \in tables : x \in sst[n]
        BY InStored DEF tables
  <2>2. CASE n \notin inputs
    <3>1. x \in Stored(F, M)
          BY <1>1, <1>2, <2>1, <2>2, InStored
    <3>2. x.seq \in Int
          BY <1>5 DEF Record
    <3>. QED BY <3>1, <3>2
  <2>3. CASE n \in inputs
    <3>1. x \in old /\ old \in SUBSET Record
          BY <1>5, <2>1, <2>3 DEF Contents, old
    <3>2. CoversAt(recs, old, snap[h])
      <4>1. smallestActiveSnapshot <= snap[h] /\ snap[h] \in Int
            BY <1>5, SmallestSnapshotBelow
      <4>. QED BY <1>7, <1>12, <3>1, <4>1, RetainCoversAt
    <3>3. PICK y \in recs : y.key = x.key /\ y.seq >= x.seq /\ y.seq <= snap[h]
          BY <3>1, <3>2 DEF CoversAt
    <3>4. y \in Stored(F, M)
      <4>1. y \in F[man.next + f[y.key]] /\ man.next + f[y.key] \in allTableNumbers(M)
            BY <1>1
      <4>. QED BY <4>1, InStored
    <3>. QED BY <3>3, <3>4
  <2>. QED
        BY <2>2, <2>3
<1>. QED
      BY <1>17, <1>19, <1>20

\* What is common to the ends of compaction, M the MANIFEST of the process and F
\* the directory before any input is removed.
CompactionEnd(M, F) ==
    /\ Running' /\ UNCHANGED <<mem, walNo, poisoned, nextSeq, snap, wal>>
    /\ man' = M /\ M.log = man.log /\ M.lastSeq = man.lastSeq
    /\ Ordered(M, F)
    /\ Stored(F, M) \subseteq Stored(sst, man)
    /\ \A h \in Live : CoversAt(Stored(F, M), Stored(sst, man), snap[h])
    /\ \A n \in allTableNumbers(M) : sst'[n] = F[n]
    /\ {disk'} \cup older' \subseteq {disk, M} \cup older
    /\ \A m \in Known' \ {M} : \A n \in allTableNumbers(m) : sst'[n] = sst[n]
    /\ hist \subseteq hist' /\ hist' \subseteq hist \cup Stored(F, M)

LEMMA ReadCompactEnds ==
    ASSUME Inv, TypeOK', Publishing, NEW M, NEW F, CompactionEnd(M, F)
    PROVE  ReadInv'
<1>. USE DEF CompactionEnd
<1>. USE DEF Inv, ReadInv
<1>1. /\ Running /\ TypeOK /\ man \in Known /\ man \in Candidates /\ M \in Known'
      /\ Known' \subseteq Known \cup {M} /\ Candidates' \subseteq Candidates \cup {M}
      BY DEF Publishing, StructInv, Known, Candidates
<1>2. /\ M.log = walNo /\ walNo \in Logs /\ Logs' \subseteq Logs
      BY <1>1 DEF DurInv, LogCurrent, Logs
<1>3. Stored(sst', M) = Stored(F, M)
      BY StoredSame
<1>4. \A m \in Known' \ {M} : m \in Known /\ Stored(sst', m) = Stored(sst, m)
      BY <1>1, StoredSame
<1>5. ManifestsOrdered'
  <2>1. Ordered(M, sst')
        BY OrderedSame
  <2>2. \A m \in Known' \ {M} : Ordered(m, sst')
        BY <1>4, OrderedSame DEF ManifestsOrdered
  <2>. QED
        BY <2>1, <2>2 DEF ManifestsOrdered
<1>6. LogAbove'
  <2>1. \A a \in Readable(wal[M.log]) : a.seq > M.lastSeq
        BY <1>1 DEF LogAbove
  <2>. QED
        BY <1>1, <2>1 DEF LogAbove
<1>7. Stored(sst, man) \subseteq hist \cup mem
      BY <1>1 DEF StoredKnown
<1>8. Unique'
  <2>1. hist \cup mem \subseteq AllRecords /\ Stored(sst, man) \subseteq AllRecords
        BY <1>1, AllParts
  <2>2. \A m \in Known' : Stored(sst', m) \subseteq AllRecords
        BY <1>3, <1>4, <2>1, AllParts
  <2>3. \A n \in Logs' : Readable(wal'[n]) \subseteq AllRecords
        BY <1>2, AllParts
  <2>. QED
        BY <2>1, <2>2, <2>3, UniqueShrinks
<1>9. SequencesBelow'
  <2>1. \A m \in Known' : m.lastSeq < nextSeq
        BY <1>1, <1>4 DEF SequencesBelow
  <2>2. hist' \subseteq hist \cup mem
        BY <1>7
  <2>. QED
        BY <1>1, <2>1, <2>2 DEF SequencesBelow
<1>10. MemTableNewer'
  <2>. SUFFICES ASSUME NEW n \in allTableNumbers(M), NEW a \in mem, NEW b \in F[n],
                       a.key = b.key, b.seq >= a.seq
                PROVE  b \in mem
        BY DEF MemTableNewer, Newer
  <2>1. b \in Stored(sst, man)
        BY InStored
  <2>2. PICK p \in allTableNumbers(man) : b \in sst[p]
        BY <2>1, InStored
  <2>. QED
        BY <1>1, <2>2 DEF MemTableNewer, Newer
<1>11. StoredKnown'
      BY <1>3, <1>7 DEF StoredKnown
<1>12. SnapshotsCovered'
  <2>1. Live' = Live
        BY DEF Live
  <2>2. /\ Stored(sst, man) \in SUBSET Record /\ Stored(F, M) \in SUBSET Record
        /\ mem \in SUBSET Record /\ hist \in SUBSET Record
        BY <1>1, StoredType DEF TypeOK
  <2>3. ASSUME NEW h \in Live PROVE CoversAt(Stored(F, M) \cup mem, hist', snap[h])
    <3>1. CoversAt(Stored(sst, man) \cup mem, hist, snap[h])
          BY <1>1 DEF SnapshotsCovered
    <3>2. CoversAt(Stored(F, M) \cup mem, hist, snap[h])
          BY <2>2, <3>1, CoversAtReplace
    <3>3. CoversAt(Stored(F, M) \cup mem, hist \cup Stored(F, M), snap[h])
          BY <2>2, <3>2, CoversAtGrow
    <3>. QED BY <3>3 DEF CoversAt
  <2>. QED
        BY <1>3, <2>1, <2>3 DEF SnapshotsCovered
<1>. QED
      BY <1>5, <1>6, <1>8, <1>9, <1>10, <1>11, <1>12

LEMMA CompactionEnds ==
    ASSUME Inv, Publishing, NEW l \in 0..(MaxLevel - 1), Compact(l),
           NEW inputs, NEW m, NEW f, CompactionStep(l, inputs, m, f),
           NEW M, M = replaceTables(inputs, m, l + 1),
           NEW F, F = WithSlices(Merged(inputs), f, m)
    PROVE  \E N, G : CompactionEnd(N, G)
<1>. USE DEF Inv, ReadInv
<1>1. Running /\ Running' /\ UNCHANGED <<mem, walNo, poisoned, nextSeq, snap, wal>>
      BY CompactSteps
<1>2. TypeOK /\ man \in Known
      BY <1>1 DEF StructInv, Known
<1>3. /\ Ordered(M, F) /\ Stored(F, M) \subseteq Stored(sst, man)
      /\ \A h \in Live : CoversAt(Stored(F, M), Stored(sst, man), snap[h])
      BY <1>1, CompactedOrdered
<1>4. /\ m \in Nat \ {0} /\ M.log = man.log /\ M.lastSeq = man.lastSeq
      /\ inputs \in SUBSET allTableNumbers(man)
      /\ allTableNumbers(M) = (allTableNumbers(man) \ inputs) \cup NewNumbers(m)
      /\ \A n \in NewNumbers(m) : n \in Nat /\ man.next <= n
      /\ NewNumbers(m) \subseteq Numbers
  <2>1. Compacted(l, inputs, m, f, M, F)
        BY <1>1, CompactionResult
  <2>. QED
        BY <2>1 DEF Compacted
<1>5. \A k \in Known : \A n \in allTableNumbers(k) : n \in Numbers /\ n < man.next
      BY <1>1, ListedBelow
<1>6. man.next \in Nat
      BY <1>2 DEF TypeOK, Manifest
<1>7. CASE /\ \E failed \in 1..m : \E done \in {failed - 1, failed} :
                  /\ man' = [man EXCEPT !.next = @ + failed]
                  /\ sst' = WithSlices(Merged(inputs), f, done)
           /\ UNCHANGED <<disk, older, hist>>
  <2>1. PICK failed \in 1..m : \E done \in {failed - 1, failed} :
            man' = [man EXCEPT !.next = @ + failed] /\ sst' = WithSlices(Merged(inputs), f, done)
        BY <1>7
  <2>2. PICK done \in {failed - 1, failed} :
            man' = [man EXCEPT !.next = @ + failed] /\ sst' = WithSlices(Merged(inputs), f, done)
        BY <2>1
  <2>3. done \in Nat
        BY <1>4
  <2>4. \A n \in Numbers : n < man.next => sst'[n] = sst[n]
        BY <1>2, <2>2, <2>3, OtherFilesKept
  <2>5. \A k \in Known : \A n \in allTableNumbers(k) : sst'[n] = sst[n]
        BY <1>5, <2>4
  <2>6. /\ man'.levels = man.levels /\ man'.log = man.log /\ man'.lastSeq = man.lastSeq
        /\ allTableNumbers(man') = allTableNumbers(man)
        BY <1>2, <2>2 DEF TypeOK, Manifest, allTableNumbers
  <2>7. Ordered(man', sst)
        BY <1>2, <2>6 DEF ManifestsOrdered, Ordered
  <2>8. Stored(sst, man') = Stored(sst, man)
        BY <2>6 DEF Stored
  <2>9. Known' \ {man'} \subseteq Known
        BY <1>1, <1>7 DEF Known
  <2>10. \A h \in Live : CoversAt(Stored(sst, man'), Stored(sst, man), snap[h])
    <3>1. \A r \in Stored(sst, man) : r.seq \in Int
      <4>1. Stored(sst, man) \in SUBSET Record
            BY <1>2, StoredType DEF TypeOK
      <4>. QED BY <4>1 DEF Record
    <3>. QED BY <2>8, <3>1 DEF CoversAt
  <2>11. {disk'} \cup older' \subseteq {disk, man'} \cup older
        BY <1>7
  <2>12. /\ \A n \in allTableNumbers(man') : sst'[n] = sst[n]
         /\ \A k \in Known' \ {man'} : \A n \in allTableNumbers(k) : sst'[n] = sst[n]
        BY <1>2, <2>5, <2>6, <2>9
  <2>13. CompactionEnd(man', sst)
        BY <1>1, <1>7, <2>6, <2>7, <2>8, <2>10, <2>11, <2>12 DEF CompactionEnd
  <2>. QED
        BY <2>13
<1>8. \A n \in Numbers : n < man.next => F[n] = sst[n]
      BY <1>2, <1>4, OtherFilesKept
<1>9. CASE /\ man' = M /\ sst' = F
           /\ {disk'} \cup older' \subseteq {disk, M} \cup older
           /\ UNCHANGED hist
  <2>1. Known' \ {M} \subseteq Known
        BY <1>1, <1>9 DEF Known
  <2>2. \A k \in Known' \ {M} : \A n \in allTableNumbers(k) : sst'[n] = sst[n]
        BY <1>5, <1>8, <1>9, <2>1
  <2>3. CompactionEnd(M, F)
        BY <1>1, <1>3, <1>4, <1>9, <2>2 DEF CompactionEnd
  <2>. QED
        BY <2>3
<1>10. CASE /\ man' = M /\ disk' = M /\ older' = {}
            /\ \E gone \in SUBSET inputs : sst' = FilesRemoved(F, gone)
            /\ hist' = hist \cup Stored(F, M)
  <2>1. PICK gone \in SUBSET inputs : sst' = FilesRemoved(F, gone)
        BY <1>10
  <2>2. \A n \in inputs : n \in Int /\ n < man.next
        BY <1>2, <1>4, <1>5 DEF Numbers
  <2>3. \A n \in allTableNumbers(M) : n \notin inputs /\ n \in Numbers
        BY <1>2, <1>4, <1>5, <1>6, <2>2
  <2>4. \A n \in allTableNumbers(M) : sst'[n] = F[n]
        BY <2>1, <2>3 DEF FilesRemoved
  <2>5. Known' \ {M} = {}
        BY <1>10 DEF Known
  <2>6. CompactionEnd(M, F)
        BY <1>1, <1>3, <1>4, <1>10, <2>4, <2>5 DEF CompactionEnd
  <2>. QED
        BY <2>6
<1>. QED
      BY <1>7, <1>9, <1>10 DEF CompactionStep

LEMMA CompactEnds ==
    ASSUME Inv, ~CompactWhenFailed, NEW l \in 0..(MaxLevel - 1), Compact(l)
    PROVE  Publishing /\ \E M, F : CompactionEnd(M, F)
<1>1. Publishing
      BY CompactPublishes DEF Compact
<1>2. PICK inputs, m, f : CompactionStep(l, inputs, m, f)
      BY CompactSteps
<1>. QED
      BY <1>1, <1>2, CompactionEnds

LEMMA ReadCompact ==
    ASSUME Inv, ~CompactWhenFailed, TypeOK', NEW l \in 0..(MaxLevel - 1), Compact(l)
    PROVE  ReadInv'
BY CompactEnds, ReadCompactEnds

-----------------------------------------------------------------------------
LEMMA InvInit == Init => Inv
BY DurInit, StructInit, ReadInit DEF Inv

LEMMA InvStep ==
    ASSUME Journaled, ~CompactWhenFailed
    PROVE  Inv /\ [Next]_vars => Inv'
<1>. SUFFICES ASSUME Inv, [Next]_vars PROVE Inv'
      OBVIOUS
<1>1. DurInv' /\ StructInv' /\ TypeOK'
      BY DurStep, StructStep DEF Inv, StructInv
<1>2. CASE Open
      BY <1>1, <1>2, ReadOpen DEF Inv
<1>3. CASE OpenRefused \/ OpenTruncateFails \/ OpenNewWalFails \/ OpenUnlinkFails
      BY <1>1, <1>3, ReadOpenFails DEF Inv
<1>4. CASE Kill \/ PowerLoss
      BY <1>1, <1>4, ReadKill, ReadPowerLoss DEF Inv
<1>5. CASE AnyWrite
      BY <1>1, <1>5, ReadWrite, ReadRest DEF Inv, AnyWrite
<1>6. CASE AnyFlush
      BY <1>1, <1>6, ReadFlush DEF Inv
<1>7. CASE \E l \in 0..(MaxLevel - 1) : Compact(l)
      BY <1>1, <1>7, ReadCompact DEF Inv
<1>8. CASE LoopDone \/ \E h \in Handles : TakeSnapshot(h) \/ ReleaseSnapshot(h)
      BY <1>1, <1>8, ReadRest DEF Inv
<1>9. CASE UNCHANGED vars
  <2>1. /\ Running' = Running /\ Publishing' = Publishing /\ Known' = Known
        /\ Candidates' = Candidates /\ Logs' = Logs /\ Live' = Live
        BY <1>9 DEF vars, procVars, diskVars, Running, Publishing, Known, Candidates, Logs, Live
  <2>2. AllRecords' = AllRecords
        BY <1>9, <2>1 DEF vars, procVars, diskVars, AllRecords
  <2>. QED
        BY <1>1, <1>9, <2>1, <2>2
        DEF Inv, ReadInv, vars, procVars, diskVars, ManifestsOrdered, LogAbove, Unique,
            SequencesBelow, MemTableNewer, StoredKnown, SnapshotsCovered
<1>. QED
      BY <1>2, <1>3, <1>4, <1>5, <1>6, <1>7, <1>8, <1>9 DEF Next

-----------------------------------------------------------------------------
(***************************************************************************)
(* What get() and scan() return.                                           *)
(***************************************************************************)

\* The tables of level l with a version of k that a read at s may return, and
\* the levels that have one.
Holding(l, k, s) == {n \in man.levels[l] : Visible(sst[n], k, s) # {}}
HoldingLevels(k, s) == {l \in Levels : Holding(l, k, s) # {}}

\* A lookup by key range opens every table of a level that holds the key.
LEMMA ProbedHolds ==
    ASSUME StructInv, Running, NEW l \in Levels, NEW k \in Keys, NEW s
    PROVE  {n \in Probed(l, k) : SourceGet(sst[n], k, s) # Absent} = Holding(l, k, s)
<1>1. man \in Known /\ TypeOK
      BY DEF Known, StructInv
<1>2. Sound(man, sst) /\ man.levels[l] \subseteq allTableNumbers(man)
      BY <1>1 DEF StructInv, ManifestsSound, allTableNumbers
<1>3. \A n \in man.levels[l] : sst[n] \in SUBSET Record /\ sst[n] # {}
      BY <1>1, <1>2, StructGives DEF TypeOK, Sound
<1>4. Probed(l, k) \subseteq man.levels[l]
      BY DEF Probed, getTableMeta
<1>5. k \in Nat
      BY KeysAssumption
<1>6. \A n \in man.levels[l] : minKey(sst[n]) \in Nat /\ maxKey(sst[n]) \in Nat
      BY <1>3, KeyRange
<1>7. ASSUME NEW n \in Holding(l, k, s)
      PROVE  n \in Probed(l, k)
  <2>1. n \in man.levels[l]
        BY DEF Holding
  <2>2. PICK r \in sst[n] : r.key = k
        BY DEF Holding, Visible
  <2>3. minKey(sst[n]) <= k /\ k <= maxKey(sst[n])
        BY <1>3, <2>1, <2>2, KeyRange
  <2>4. CASE l = 0
        BY <2>1, <2>3, <2>4 DEF Probed
  <2>5. CASE l # 0
    <3>1. ASSUME NEW p \in man.levels[l], minKey(sst[p]) <= k
          PROVE  minKey(sst[p]) <= minKey(sst[n])
      <4>1. CASE p = n
            BY <1>6, <2>1, <4>1
      <4>2. CASE p # n
        <5>1. Apart(sst[n], sst[p])
              BY <1>2, <2>1, <2>5, <3>1, <4>2 DEF Sound
        <5>2. PICK x \in sst[p] : x.key = minKey(sst[p])
              BY <1>3, <3>1, KeyRange
        <5>3. PICK y \in sst[n] : y.key = minKey(sst[n])
              BY <1>3, <2>1, KeyRange
        <5>4. CASE \A a \in sst[n], b \in sst[p] : a.key < b.key
          <6>1. k < minKey(sst[p])
                BY <2>2, <5>2, <5>4
          <6>. QED BY <1>5, <1>6, <3>1, <6>1
        <5>5. CASE \A a \in sst[n], b \in sst[p] : b.key < a.key
          <6>1. minKey(sst[p]) < minKey(sst[n])
                BY <5>2, <5>3, <5>5
          <6>. QED BY <1>6, <2>1, <3>1, <6>1
        <5>. QED BY <5>1, <5>4, <5>5 DEF Apart
      <4>. QED BY <4>1, <4>2
    <3>2. n \in getTableMeta(l, k)
          BY <2>1, <2>3, <3>1 DEF getTableMeta
    <3>. QED BY <2>5, <3>2 DEF Probed
  <2>. QED BY <2>4, <2>5
<1>8. \A n \in man.levels[l] : SourceGet(sst[n], k, s) # Absent <=> Visible(sst[n], k, s) # {}
      BY <1>3, SourceGetIs
<1>. QED
      BY <1>4, <1>7, <1>8 DEF Holding

LEMMA SearchIs ==
    ASSUME StructInv, Running, NEW k \in Keys, NEW s
    PROVE  searchSSTables(k, s) =
               IF HoldingLevels(k, s) = {} THEN Absent
               ELSE SourceGet(sst[Max(Holding(Min(HoldingLevels(k, s)), k, s))], k, s)
<1>. DEFINE Hits(l) == {n \in Probed(l, k) : SourceGet(sst[n], k, s) # Absent}
            hitLevels == {l \in Levels : Hits(l) # {}}
<1>1. searchSSTables(k, s) =
          IF hitLevels = {} THEN Absent ELSE SourceGet(sst[Max(Hits(Min(hitLevels)))], k, s)
      BY DEF searchSSTables
<1>2. \A l \in Levels : Hits(l) = Holding(l, k, s)
      BY ProbedHolds
<1>. HIDE DEF Hits
<1>3. hitLevels = HoldingLevels(k, s)
      BY <1>2 DEF HoldingLevels
<1>4. hitLevels # {} => Min(hitLevels) \in Levels
  <2>1. hitLevels \in SUBSET Nat /\ hitLevels \subseteq Levels
        BY DEF Levels
  <2>. HIDE DEF hitLevels
  <2>. QED BY <2>1, MinNat
<1>. HIDE DEF hitLevels
<1>. QED
      BY <1>1, <1>2, <1>3, <1>4

\* get() looks in the memtable and then in the tables, in its order, and stops at
\* the first source with a version.  The answer is the newest one of them all.
LEMMA GetIs ==
    ASSUME Inv, Running, NEW k \in Keys, NEW s \in Int
    PROVE  get(k, s) = SourceGet(Stored(sst, man) \cup mem, k, s)
<1>. USE DEF Inv, ReadInv
<1>. DEFINE all == Stored(sst, man) \cup mem
<1>1. man \in Known /\ TypeOK /\ mem \in SUBSET Record /\ StructInv
      BY DEF Known, StructInv, TypeOK
<1>2. all \in SUBSET Record /\ Distinct(all)
  <2>1. all \subseteq AllRecords
        BY <1>1, AllParts
  <2>. QED
        BY <1>1, <2>1, StoredType DEF TypeOK, Unique, Distinct
<1>3. \A r \in all : r.seq \in Int
      BY <1>2 DEF Record
<1>4. \A n \in allTableNumbers(man) : sst[n] \subseteq all
      BY InStored
<1>5. \A r \in all : r \in mem \/ \E n \in allTableNumbers(man) : r \in sst[n]
      BY InStored
<1>6. mem \subseteq all
      OBVIOUS
<1>. HIDE DEF all
<1>7. CASE Visible(mem, k, s) # {}
  <2>. DEFINE a == SourceGet(mem, k, s)
  <2>1. /\ a # Absent /\ a \in Visible(mem, k, s)
        /\ \A q \in Visible(mem, k, s) : q.seq <= a.seq
        BY <1>1, <1>7, SourceGetIs
  <2>2. get(k, s) = a
        BY <2>1 DEF get
  <2>. HIDE DEF a
  <2>3. a \in mem /\ a.key = k /\ a.seq <= s /\ a \in Visible(all, k, s) /\ a.seq \in Int
        BY <1>3, <1>6, <2>1 DEF Visible
  <2>4. ASSUME NEW q \in Visible(all, k, s) PROVE q.seq <= a.seq
    <3>1. q \in all /\ q.key = k /\ q.seq <= s /\ q.seq \in Int
          BY <1>3 DEF Visible
    <3>2. CASE q \in mem
          BY <2>1, <3>1, <3>2 DEF Visible
    <3>3. CASE q \notin mem
      <4>1. ~ (q.seq >= a.seq)
            BY <1>5, <2>3, <3>1, <3>3 DEF MemTableNewer, Newer
      <4>. QED BY <2>3, <3>1, <4>1
    <3>. QED BY <3>2, <3>3
  <2>5. SourceGet(all, k, s) = a
        BY <1>2, <2>3, <2>4, SourceGetUnique
  <2>. QED BY <2>2, <2>5 DEF all
<1>8. CASE Visible(mem, k, s) = {}
  <2>1. get(k, s) = searchSSTables(k, s)
        BY <1>1, <1>8, SourceGetIs DEF get
  <2>2. ASSUME NEW q \in Visible(all, k, s)
        PROVE  \E l \in Levels : \E p \in Holding(l, k, s) : q \in sst[p]
    <3>1. q \in all /\ q.key = k /\ q.seq <= s
          BY DEF Visible
    <3>2. q \notin mem
          BY <1>8, <3>1 DEF Visible
    <3>3. PICK p \in allTableNumbers(man) : q \in sst[p]
          BY <1>5, <3>1, <3>2
    <3>4. q \in Visible(sst[p], k, s)
          BY <3>1, <3>3 DEF Visible
    <3>. QED BY <3>3, <3>4 DEF Holding, allTableNumbers
  <2>3. CASE HoldingLevels(k, s) = {}
    <3>1. Visible(all, k, s) = {}
          BY <2>2, <2>3 DEF HoldingLevels
    <3>2. SourceGet(all, k, s) = Absent
          BY <1>2, <3>1, SourceGetIs
    <3>. QED BY <1>1, <2>1, <2>3, <3>2, SearchIs DEF all
  <2>4. CASE HoldingLevels(k, s) # {}
    <3>. DEFINE l == Min(HoldingLevels(k, s))
                n == Max(Holding(l, k, s))
                a == SourceGet(sst[n], k, s)
    <3>1. l \in HoldingLevels(k, s) /\ \A j \in HoldingLevels(k, s) : l <= j
      <4>1. HoldingLevels(k, s) \in SUBSET Nat
            BY DEF HoldingLevels, Levels
      <4>. QED BY <2>4, <4>1, MinNat
    <3>2. get(k, s) = a
          BY <1>1, <2>1, <2>4, SearchIs
    <3>. HIDE DEF l
    <3>3. l \in Levels /\ Holding(l, k, s) # {} /\ l \in Int
          BY <3>1 DEF HoldingLevels, Levels
    <3>4. n \in Holding(l, k, s) /\ \A p \in Holding(l, k, s) : p <= n
      <4>1. Holding(l, k, s) \in SUBSET (0..MaxNumber)
            BY <1>1, <3>3 DEF Holding, TypeOK, Manifest, Numbers
      <4>. QED BY <3>3, <4>1, MaxBounded
    <3>. HIDE DEF n
    <3>5. /\ n \in man.levels[l] /\ n \in allTableNumbers(man)
          /\ Visible(sst[n], k, s) # {} /\ sst[n] \in SUBSET Record
          BY <1>2, <1>4, <3>3, <3>4 DEF Holding, allTableNumbers
    <3>6. /\ a \in Visible(sst[n], k, s)
          /\ \A q \in Visible(sst[n], k, s) : q.seq <= a.seq
          BY <3>5, SourceGetIs
    <3>. HIDE DEF a
    <3>7. a \in sst[n] /\ a.key = k /\ a.seq <= s /\ a \in Visible(all, k, s) /\ a.seq \in Int
          BY <1>3, <1>4, <3>5, <3>6 DEF Visible
    <3>8. Ordered(man, sst) /\ Sound(man, sst)
          BY <1>1 DEF ManifestsOrdered, StructInv, ManifestsSound
    <3>9. ASSUME NEW q \in Visible(all, k, s) PROVE q.seq <= a.seq
      <4>1. q.key = k /\ q.seq <= s /\ q.seq \in Int
            BY <1>3 DEF Visible
      <4>2. PICK j \in Levels : \E p \in Holding(j, k, s) : q \in sst[p]
            BY <2>2
      <4>3. PICK p \in Holding(j, k, s) : q \in sst[p]
            BY <4>2
      <4>4. p \in man.levels[j] /\ j \in HoldingLevels(k, s) /\ l <= j /\ j \in Int
            BY <3>1, <4>3 DEF Holding, HoldingLevels, Levels
      <4>5. ASSUME Newer(sst[n], sst[p]) PROVE q.seq <= a.seq
        <5>1. CASE q \in sst[n]
              BY <3>6, <4>1, <5>1 DEF Visible
        <5>2. CASE q \notin sst[n]
          <6>1. ~ (q.seq >= a.seq)
                BY <3>7, <4>1, <4>3, <4>5, <5>2 DEF Newer
          <6>. QED BY <3>7, <4>1, <6>1
        <5>. QED BY <5>1, <5>2
      <4>6. CASE l < j
            BY <3>3, <3>5, <3>8, <4>4, <4>5, <4>6 DEF Ordered
      <4>7. CASE j = l
        <5>1. CASE p = n
              BY <3>6, <4>1, <4>3, <5>1 DEF Visible
        <5>2. CASE p # n /\ l = 0
          <6>1. p < n
            <7>1. p <= n /\ p \in Int /\ n \in Int
                  BY <1>1, <3>3, <3>4, <3>5, <4>3, <4>4, <4>7 DEF TypeOK, Manifest, Numbers
            <7>. QED BY <5>2, <7>1
          <6>. QED BY <3>5, <3>8, <4>4, <4>5, <4>7, <5>2, <6>1 DEF Ordered
        <5>3. CASE p # n /\ l # 0
          <6>1. Apart(sst[n], sst[p])
                BY <3>3, <3>5, <3>8, <4>4, <4>7, <5>3 DEF Sound
          <6>2. k \in Nat
                BY KeysAssumption
          <6>. QED BY <3>7, <4>1, <4>3, <6>1, <6>2 DEF Apart
        <5>. QED BY <5>1, <5>2, <5>3
      <4>. QED BY <3>3, <4>4, <4>6, <4>7
    <3>10. SourceGet(all, k, s) = a
          BY <1>2, <3>7, <3>9, SourceGetUnique
    <3>. QED BY <3>2, <3>10 DEF all
  <2>. QED BY <2>3, <2>4
<1>. QED
      BY <1>7, <1>8

\* Records that cover a larger set up to s answer every lookup at s as it does.
LEMMA SourceGetCovered ==
    ASSUME NEW B \in SUBSET Record, NEW A \in SUBSET B, Distinct(B), NEW k, NEW s \in Int,
           CoversAt(A, B, s)
    PROVE  SourceGet(A, k, s) = SourceGet(B, k, s)
<1>1. A \in SUBSET Record /\ Visible(A, k, s) \subseteq Visible(B, k, s)
      BY DEF Visible
<1>2. \A q \in Visible(B, k, s) : \E y \in Visible(A, k, s) : y.seq >= q.seq
      BY DEF CoversAt, Visible
<1>3. CASE Visible(A, k, s) = {}
  <2>1. Visible(B, k, s) = {}
        BY <1>2, <1>3
  <2>. QED
        BY <1>1, <1>3, <2>1, SourceGetIs
<1>4. CASE Visible(A, k, s) # {}
  <2>. DEFINE r == SourceGet(A, k, s)
  <2>1. r \in Visible(A, k, s) /\ \A y \in Visible(A, k, s) : y.seq <= r.seq
        BY <1>1, <1>4, SourceGetIs
  <2>. HIDE DEF r
  <2>2. \A y \in Visible(B, k, s) : y.seq \in Int
        BY DEF Visible, Record
  <2>3. \A q \in Visible(B, k, s) : q.seq <= r.seq
        BY <1>1, <1>2, <2>1, <2>2
  <2>. QED
        BY <1>1, <2>1, <2>3, SourceGetUnique DEF r
<1>. QED
      BY <1>3, <1>4

LEMMA ReadPointsType ==
    ASSUME Inv, Running, NEW s \in ReadPoints
    PROVE  s \in Int /\ s < nextSeq /\ nextSeq \in Int
<1>1. nextSeq \in Nat /\ \A h \in Live : snap[h] \in Int /\ snap[h] < nextSeq
      BY DEF Inv, StructInv, ReadInv, SequencesBelow, TypeOK, Live, NoSnap
<1>. QED
      BY <1>1 DEF ReadPoints

LEMMA InvFresh == Inv => SequencesFresh
BY DEF Inv, ReadInv, SequencesBelow, SequencesFresh

LEMMA InvReads == Inv => ReadsNewest
<1>. SUFFICES ASSUME Inv, Running, NEW k \in Keys, NEW s \in ReadPoints
              PROVE  get(k, s) = SourceGet(hist \cup mem, k, s)
      BY DEF ReadsNewest
<1>. USE DEF Inv, ReadInv
<1>. DEFINE all == Stored(sst, man) \cup mem
<1>1. /\ all \subseteq hist \cup mem /\ hist \cup mem \in SUBSET Record
      BY DEF StoredKnown, StructInv, TypeOK
<1>2. Distinct(hist \cup mem)
      BY AllParts DEF Unique, Distinct
<1>3. \A r \in hist \cup mem : r.seq \in Int
      BY <1>1 DEF Record
<1>4. s \in Int /\ s < nextSeq /\ nextSeq \in Int
      BY ReadPointsType
<1>5. CoversAt(all, hist, s)
  <2>1. CASE s = nextSeq - 1
    <3>1. \A a \in all : a.seq <= s
      <4>1. \A a \in all : a.seq \in Int /\ a.seq < nextSeq
            BY <1>1, <1>3 DEF SequencesBelow
      <4>. QED BY <1>4, <2>1, <4>1
    <3>2. Covers(all, hist)
          BY DEF DurInv, MemTableCovered
    <3>. HIDE DEF all
    <3>. QED BY <3>1, <3>2, CoversNow
  <2>2. CASE s # nextSeq - 1
    <3>1. PICK h \in Live : s = snap[h]
          BY <2>2 DEF ReadPoints
    <3>. QED BY <3>1 DEF SnapshotsCovered
  <2>. QED BY <2>1, <2>2
<1>6. CoversAt(all, hist \cup mem, s)
  <2>1. all \in SUBSET Record /\ mem \subseteq all
        BY <1>1
  <2>. HIDE DEF all
  <2>. QED BY <1>5, <2>1, CoversAtGrow
<1>7. get(k, s) = SourceGet(all, k, s)
      BY <1>4, GetIs
<1>. HIDE DEF all
<1>. QED
      BY <1>1, <1>2, <1>4, <1>6, <1>7, SourceGetCovered

LEMMA InvScans == Inv => ScanMatchesGet
<1>. DEFINE answers(s) == {get(k, s) : k \in Keys} \ {Absent}
<1>. SUFFICES ASSUME Inv, Running, NEW s \in ReadPoints, NEW lo \in Keys, NEW last \in Keys
              PROVE  scan(lo, last + 1, s) =
                         {r \in answers(s) : r.key >= lo /\ r.key <= last /\ r.val # Tombstone}
      BY DEF ScanMatchesGet
<1>. DEFINE all == Stored(sst, man) \cup mem
            merged == mem \cup Contents(sst, selectScanTables(lo, last + 1))
            latest == {SourceGet(merged, k, s) : k \in KeysOf(merged)} \ {Absent}
<1>1. /\ man \in Known /\ TypeOK /\ Sound(man, sst) /\ s \in Int
      BY ReadPointsType DEF Inv, StructInv, ManifestsSound, Known
<1>2. lo \in Nat /\ last \in Nat /\ \A k \in Keys : k \in Nat
      BY KeysAssumption
<1>3. merged \subseteq all /\ all \in SUBSET Record
      BY <1>1, StoredType DEF TypeOK, selectScanTables, Stored, Contents
<1>4. ASSUME NEW k \in Keys, lo <= k, k <= last
      PROVE  get(k, s) = SourceGet(merged, k, s)
  <2>1. Visible(merged, k, s) = Visible(all, k, s)
    <3>. SUFFICES ASSUME NEW r \in all, r.key = k, r \notin mem
                  PROVE  r \in merged
          BY <1>3 DEF Visible
    <3>1. PICK n \in allTableNumbers(man) : r \in sst[n]
          BY InStored
    <3>2. sst[n] \in SUBSET Record /\ sst[n] # {}
          BY <1>1, <3>1, StructGives DEF TypeOK, Sound, Inv
    <3>3. /\ minKey(sst[n]) <= k /\ k <= maxKey(sst[n])
          /\ minKey(sst[n]) \in Nat /\ maxKey(sst[n]) \in Nat
          BY <3>1, <3>2, KeyRange
    <3>4. maxKey(sst[n]) >= lo /\ minKey(sst[n]) < last + 1
          BY <1>2, <1>4, <3>3
    <3>. QED BY <3>1, <3>4 DEF selectScanTables, Contents
  <2>. QED
        BY <1>1, <2>1, GetIs DEF SourceGet
<1>5. \A k \in Keys : get(k, s) = SourceGet(all, k, s)
      BY <1>1, GetIs
<1>6. scan(lo, last + 1, s) =
          {r \in latest : r.key >= lo /\ r.key < last + 1 /\ r.val # Tombstone}
      BY DEF scan
<1>. HIDE DEF all, merged
<1>7. \A k : /\ SourceGet(merged, k, s) # Absent => SourceGet(merged, k, s) \in Visible(merged, k, s)
             /\ SourceGet(all, k, s) # Absent => SourceGet(all, k, s) \in Visible(all, k, s)
      BY <1>3, SourceGetIs
<1>8. \A r \in all : r.key \in Keys
      BY <1>3 DEF Record
<1>9. ASSUME NEW r \in latest, r.key >= lo, r.key < last + 1
      PROVE  r \in answers(s) /\ r.key <= last
  <2>1. PICK k \in KeysOf(merged) : r = SourceGet(merged, k, s) /\ r # Absent
        OBVIOUS
  <2>2. r.key = k /\ r \in merged
        BY <1>7, <2>1 DEF Visible
  <2>3. k \in Keys /\ k \in Nat
        BY <1>2, <1>3, <1>8, <2>2
  <2>4. lo <= k /\ k <= last
        BY <1>2, <1>9, <2>2, <2>3
  <2>5. r = get(k, s)
        BY <1>4, <2>1, <2>3, <2>4
  <2>. QED BY <2>1, <2>2, <2>3, <2>4, <2>5
<1>10. ASSUME NEW r \in answers(s), r.key >= lo, r.key <= last
       PROVE  r \in latest /\ r.key < last + 1
  <2>1. PICK k \in Keys : r = get(k, s) /\ r # Absent
        OBVIOUS
  <2>2. r.key = k
        BY <1>5, <1>7, <2>1 DEF Visible
  <2>3. k \in Nat /\ lo <= k /\ k <= last /\ k < last + 1
        BY <1>2, <1>10, <2>2
  <2>4. r = SourceGet(merged, k, s)
        BY <1>4, <2>1, <2>3
  <2>5. k \in KeysOf(merged)
        BY <1>7, <2>1, <2>2, <2>4 DEF Visible, KeysOf
  <2>. QED BY <2>1, <2>2, <2>3, <2>4, <2>5
<1>. HIDE DEF answers, latest
<1>. QED
      BY <1>6, <1>9, <1>10

-----------------------------------------------------------------------------
(***************************************************************************)
(* Snapshots.                                                              *)
(***************************************************************************)

\* A flush moves records between the memtable and the committed ones.
LEMMA FlushKeepsRecords ==
    ASSUME Inv, AnyFlush
    PROVE  hist' \cup mem' = hist \cup mem
<1>1. Running /\ Flushing
      BY DEF AnyFlush, Flush, FlushBuildFails, FlushSaveFails, FlushNewWalFails,
             FlushUnlinkFails, Building, Flushing, Running
<1>2. Stored(sst, man) \subseteq hist \cup mem
      BY <1>1 DEF Inv, ReadInv, StoredKnown
<1>3. \/ hist' = hist /\ mem' = mem
      \/ hist' = hist \cup Stored(Built, ManFlushed) /\ mem' \in {mem, {}}
      BY DEF AnyFlush, Flush, FlushBuildFails, FlushSaveFails, FlushNewWalFails,
             FlushUnlinkFails, Save, SaveFails, SwitchMemTable
<1>4. Stored(Built, ManFlushed) = Stored(sst, man) \cup mem
      BY <1>1, FlushedOrdered
<1>. QED
      BY <1>2, <1>3, <1>4

\* While the process lives, what is committed or in the memtable never goes away,
\* and what is new has a number that was not yet handed out.
LEMMA RecordsOnlyAdded ==
    ASSUME Inv, ~CompactWhenFailed, Running, Running', [Next]_vars
    PROVE  /\ hist \cup mem \subseteq hist' \cup mem'
           /\ \A r \in (hist' \cup mem') \ (hist \cup mem) : r.seq >= nextSeq
<1>. USE DEF Inv, ReadInv
<1>1. Stored(sst, man) \subseteq hist \cup mem
      BY DEF StoredKnown
<1>2. ~Open /\ ~OpenRefused /\ ~OpenTruncateFails /\ ~OpenNewWalFails /\ ~OpenUnlinkFails
      BY DEF Open, OpenRefused, OpenTruncateFails, OpenNewWalFails, OpenUnlinkFails,
             OpenCleanup, Running
<1>3. ~Kill /\ ~PowerLoss
      BY DEF Kill, PowerLoss, ProcessGone, Running
<1>4. ASSUME NEW n \in 1..MaxBatch, NEW b \in [1..n -> Op], Write(b, n)
      PROVE  /\ hist \cup mem \subseteq hist' \cup mem'
             /\ \A r \in (hist' \cup mem') \ (hist \cup mem) : r.seq >= nextSeq
  <2>1. /\ mem' = mem \cup BatchRecords(b, n) /\ ~poisoned
        /\ hist' = hist \cup Readable(wal[walNo]) \cup BatchRecords(b, n)
        BY <1>4 DEF Write, MayAppend
  <2>2. Readable(wal[walNo]) \subseteq mem
        BY <2>1 DEF DurInv, MemTableLogged
  <2>3. \A r \in BatchRecords(b, n) : r.seq >= nextSeq
    <3>1. nextSeq \in Nat /\ n \in Nat
          BY DEF StructInv, TypeOK
    <3>. QED BY <3>1, BatchSequences
  <2>. QED BY <2>1, <2>2, <2>3
<1>5. AnyFlush => hist' \cup mem' = hist \cup mem
      BY FlushKeepsRecords
<1>6. ASSUME NEW l \in 0..(MaxLevel - 1), Compact(l)
      PROVE  hist' \cup mem' = hist \cup mem
  <2>1. PICK M, F : CompactionEnd(M, F)
        BY <1>6, CompactEnds
  <2>. QED BY <1>1, <2>1 DEF CompactionEnd
<1>7. ASSUME \/ \E n \in 1..MaxBatch : \E b \in [1..n -> Op] : WriteFails(b, n)
             \/ WriteEmpty
             \/ \E n \in 1..MaxBatch : WriteRejected(n)
             \/ LoopDone
             \/ \E h \in Handles : TakeSnapshot(h) \/ ReleaseSnapshot(h)
      PROVE  hist' \cup mem' = hist \cup mem
      BY <1>7 DEF WriteFails, WriteEmpty, WriteRejected, LoopDone, TakeSnapshot,
                  ReleaseSnapshot
<1>8. UNCHANGED vars => hist' \cup mem' = hist \cup mem
      BY DEF vars, procVars
<1>. QED
      BY <1>2, <1>3, <1>4, <1>5, <1>6, <1>7, <1>8 DEF Next, AnyWrite

\* A live snapshot reads the same before and after a step.
LEMMA StableStep ==
    ASSUME Inv, Inv', ReadsNewest, ReadsNewest', ~CompactWhenFailed, [Next]_vars,
           NEW h \in Handles, snap[h] # NoSnap, snap'[h] = snap[h], NEW k \in Keys
    PROVE  get(k, snap[h])' = get(k, snap[h])
<1>1. h \in Live /\ h \in Live'
      BY DEF Live
<1>2. Running /\ Running'
      BY <1>1 DEF Inv, StructInv, ClosedEmpty
<1>3. snap[h] \in ReadPoints /\ snap'[h] \in ReadPoints'
      BY <1>1 DEF ReadPoints
<1>4. snap[h] \in Int /\ snap[h] < nextSeq /\ nextSeq \in Int
      BY <1>2, <1>3, ReadPointsType
<1>5. Visible(hist \cup mem, k, snap[h]) = Visible(hist' \cup mem', k, snap[h])
  <2>1. hist' \cup mem' \subseteq Record
        BY DEF Inv, StructInv, TypeOK
  <2>2. \A r \in hist' \cup mem' : r.seq \in Int
        BY <2>1 DEF Record
  <2>3. \A r \in hist' \cup mem' : r.seq <= snap[h] => r \in hist \cup mem
        BY <1>2, <1>4, <2>2, RecordsOnlyAdded
  <2>. QED
        BY <1>2, <2>3, RecordsOnlyAdded DEF Visible
<1>6. get(k, snap[h]) = SourceGet(hist \cup mem, k, snap[h])
      BY <1>2, <1>3 DEF ReadsNewest
<1>7. get(k, snap[h])' = SourceGet(hist' \cup mem', k, snap'[h])
      BY <1>2, <1>3 DEF ReadsNewest
<1>. QED
      BY <1>5, <1>6, <1>7 DEF SourceGet

-----------------------------------------------------------------------------
\* No sequence number is handed out twice: after every crash and recovery, and
\* however many batches failed, nextSeq_ is above every record ever committed.
THEOREM SequencesNeverReused ==
    ASSUME Journaled, ~CompactWhenFailed
    PROVE  Spec => []SequencesFresh
BY InvInit, InvStep, InvFresh, PTL DEF Spec

\* get() is right, now and through every live snapshot: although it stops at
\* the first source that has a version, the answer is the newest version ever
\* committed at or below the read's sequence number, whatever flushes,
\* compactions, failures and restarts came before.
THEOREM ReadsReturnNewest ==
    ASSUME Journaled, ~CompactWhenFailed
    PROVE  Spec => []ReadsNewest
BY InvInit, InvStep, InvReads, PTL DEF Spec

\* scan() over any range returns what get() returns for the keys of the range:
\* the tables it leaves out by their key range hold nothing of it.
THEOREM ScansAgreeWithGet ==
    ASSUME Journaled, ~CompactWhenFailed
    PROVE  Spec => []ScanMatchesGet
BY InvInit, InvStep, InvScans, PTL DEF Spec

\* A live snapshot is frozen: what get() returns through it is the same before
\* and after every write, flush, compaction, failure and other snapshot.
THEOREM SnapshotsAreFrozen ==
    ASSUME Journaled, ~CompactWhenFailed
    PROVE  Spec => SnapshotStable
<1>1. /\ Inv /\ Inv' /\ ReadsNewest /\ ReadsNewest' /\ [Next]_vars
      => [\A h \in Handles :
             snap[h] # NoSnap /\ snap'[h] = snap[h]
                 => \A k \in Keys : get(k, snap[h])' = get(k, snap[h])]_vars
      BY StableStep
<1>. QED
      BY <1>1, InvInit, InvStep, InvReads, PTL DEF Spec, SnapshotStable

=============================================================================
