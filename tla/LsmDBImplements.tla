--------------------------- MODULE LsmDBImplements ---------------------------
(***************************************************************************)
(* The proof that the engine implements KVStore, where directory changes   *)
(* become durable in order (Journaled) and the client does not compact a   *)
(* database whose flush has failed (~CompactWhenFailed).                   *)
(*                                                                         *)
(* Every map in sight is the map of some set of records, and two sets have *)
(* the same map when each covers the other: that is how the outcomes of a  *)
(* crash are compared with the map the client reads.  While the process    *)
(* may write, what a start recovers depends on the frames that survive and *)
(* on nothing else, because every MANIFEST it may find covers the          *)
(* committed records and lists none but those.                             *)
(***************************************************************************)
EXTENDS LsmDBReads, LsmDBRefinement

USE SeqAssumption, NumberAssumption, LevelAssumption

\* The records that a start finds with MANIFEST m and the unsynced frames fr.
Replay(m, fr) == Stored(sst, m) \cup wal[m.log].recs \cup UNION fr

\* The map the client reads.
Present == MapOf(hist \cup mem)

\* A WAL that a power loss may take away has no synced record.
LooseEmpty == \A n \in Numbers : wal[n].st = "loose" => wal[n].recs = {}

\* While the process may write, tables hold committed records only.
StoredCommitted == Publishing => \A m \in Candidates : Stored(sst, m) \subseteq hist

\* Until an append fails, the WAL holds all that the memtable does.
MemTableInLog == Publishing /\ ~poisoned => mem \subseteq Readable(wal[walNo])

\* The map the client reads is one that a start may find.
PresentRecovered == Running => Present \in Recovered

MapInv ==
    /\ LooseEmpty
    /\ StoredCommitted
    /\ MemTableInLog
    /\ PresentRecovered

-----------------------------------------------------------------------------
(***************************************************************************)
(* Maps of sets of records.                                                *)
(***************************************************************************)

\* Records that cover a larger set have its map.
LEMMA MapCovered ==
    ASSUME NEW B \in SUBSET Record, NEW A \in SUBSET B, Distinct(B), Covers(A, B)
    PROVE  MapOf(A) = MapOf(B)
<1>1. \A a \in A : a.seq <= MaxSeq
      BY DEF Record
<1>2. CoversAt(A, B, MaxSeq)
      BY <1>1, CoversNow
<1>3. \A k \in Keys : SourceGet(A, k, MaxSeq) = SourceGet(B, k, MaxSeq)
      BY <1>2, SourceGetCovered
<1>. QED
      BY <1>3 DEF MapOf

\* Tables S that, with D, cover the committed records H and list none but those
\* have the map of H, whatever is replayed on top.
LEMMA ReplayMap ==
    ASSUME NEW H \in SUBSET Record, NEW S \in SUBSET H, NEW L \in SUBSET Record,
           NEW D \in SUBSET L, Covers(S \cup D, H), Distinct(H \cup L)
    PROVE  MapOf(S \cup L) = MapOf(H \cup L)
<1>1. Covers(S \cup L, H \cup L)
  <2>1. \A r \in H \cup L : r.seq \in Int
        BY DEF Record
  <2>. QED
        BY <2>1 DEF Covers
<1>. QED
      BY <1>1, MapCovered

LEMMA RecoveredIs ==
    /\ \A m \in {disk} \cup older : \A fr \in Prefixes(wal[m.log].tail) :
           MapOf(Replay(m, fr)) \in Recovered
    /\ \A map \in Recovered : \E m \in {disk} \cup older : \E fr \in Prefixes(wal[m.log].tail) :
           map = MapOf(Replay(m, fr))
<1>. DEFINE From(m) == {MapOf(Stored(sst, m) \cup wal[m.log].recs \cup UNION fr) :
                           fr \in Prefixes(wal[m.log].tail)}
<1>1. Recovered = UNION {From(m) : m \in {disk} \cup older}
      BY DEF Recovered
<1>2. \A m : /\ \A fr \in Prefixes(wal[m.log].tail) : MapOf(Replay(m, fr)) \in From(m)
             /\ \A map \in From(m) : \E fr \in Prefixes(wal[m.log].tail) : map = MapOf(Replay(m, fr))
      BY DEF Replay
<1>. HIDE DEF From
<1>. QED
      BY <1>1, <1>2

\* To bound what a start may find after a step, look at each MANIFEST.
LEMMA RecoveredFrom ==
    ASSUME NEW R, \A m \in {disk'} \cup older' : \A fr \in Prefixes(wal'[m.log].tail) :
                      MapOf(Stored(sst', m) \cup wal'[m.log].recs \cup UNION fr) \in R
    PROVE  Recovered' \subseteq R
<1>. DEFINE From(m) == {MapOf(Stored(sst', m) \cup wal'[m.log].recs \cup UNION fr) :
                           fr \in Prefixes(wal'[m.log].tail)}
<1>1. Recovered' = UNION {From(m) : m \in {disk'} \cup older'}
      BY DEF Recovered
<1>2. \A m \in {disk'} \cup older' : From(m) \subseteq R
      OBVIOUS
<1>. HIDE DEF From
<1>. QED
      BY <1>1, <1>2

\* A prefix of a prefix is a prefix, and so are none and all of the frames.
LEMMA PrefixOfPrefix ==
    ASSUME NEW tail, NEW t \in Prefixes(tail), NEW fr \in Prefixes(t)
    PROVE  fr \in Prefixes(tail)
BY DEF Prefixes

LEMMA PrefixEnds ==
    ASSUME NEW tail
    PROVE  tail \in Prefixes(tail) /\ \A fr \in Prefixes(tail) : fr \subseteq tail
BY DEF Prefixes

\* What a start may find after a step.
LEMMA RecoveredHas ==
    ASSUME NEW m \in {disk'} \cup older', NEW fr \in Prefixes(wal'[m.log].tail)
    PROVE  MapOf(Stored(sst', m) \cup wal'[m.log].recs \cup UNION fr) \in Recovered'
<1>. DEFINE From(k) == {MapOf(Stored(sst', k) \cup wal'[k.log].recs \cup UNION g) :
                           g \in Prefixes(wal'[k.log].tail)}
<1>1. Recovered' = UNION {From(k) : k \in {disk'} \cup older'}
      BY DEF Recovered
<1>2. MapOf(Stored(sst', m) \cup wal'[m.log].recs \cup UNION fr) \in From(m)
      OBVIOUS
<1>. HIDE DEF From
<1>. QED
      BY <1>1, <1>2

LEMMA RecoveredNonempty == Recovered' # {}
<1>1. {} \in Prefixes(wal'[disk'.log].tail)
      BY DEF Prefixes
<1>. QED
      BY <1>1, RecoveredHas

\* A file without records has nothing to replay.
LEMMA NothingToReplay ==
    ASSUME NEW w, Readable(w) = {}
    PROVE  w.recs = {} /\ \A fr \in Prefixes(w.tail) : UNION fr = {}
BY PrefixEnds DEF Readable

-----------------------------------------------------------------------------
(***************************************************************************)
(* Opening and crashing.                                                   *)
(***************************************************************************)

\* A new WAL, or what a failed creation leaves of it.
LEMMA NewWals ==
    \A w \in NewWalLeftovers \cup {NoWal, WalWith("ready"), WalWith("bare")} :
        w \in WalFile /\ w.recs = {} /\ Readable(w) = {}
<1>1. \A st : WalWith(st).recs = {} /\ Readable(WalWith(st)) = {}
      BY NoWalShape DEF WalWith, Readable
<1>. QED
      BY <1>1, WalWithType, NewWalLeftoversType DEF NoWal, NewWalLeftovers

\* However a start ends, the next one finds no more than this one did.
LEMMA MapOpenDisk ==
    ASSUME Journaled, Inv, MapInv,
           Open \/ OpenRefused \/ OpenTruncateFails \/ OpenNewWalFails \/ OpenUnlinkFails,
           \/ /\ wal'[disk.log].recs = wal[disk.log].recs
              /\ wal'[disk.log].tail = wal[disk.log].tail
           \/ Readable(wal[disk.log]) = {} /\ Readable(wal'[disk.log]) = {}
    PROVE  Recovered' \subseteq Recovered
<1>1. /\ disk' = disk /\ older' = {}
      /\ \A n \in allTableNumbers(disk) : sst'[n] = sst[n]
      BY OpenChanges DEF Inv, StructInv
<1>2. Stored(sst', disk) = Stored(sst, disk)
      BY <1>1, StoredSame
<1>3. ASSUME NEW fr \in Prefixes(wal'[disk.log].tail)
      PROVE  MapOf(Stored(sst', disk) \cup wal'[disk.log].recs \cup UNION fr) \in Recovered
  <2>1. CASE /\ wal'[disk.log].recs = wal[disk.log].recs
             /\ wal'[disk.log].tail = wal[disk.log].tail
    <3>1. MapOf(Replay(disk, fr)) \in Recovered
          BY <1>3, <2>1, RecoveredIs
    <3>. QED BY <1>2, <2>1, <3>1 DEF Replay
  <2>2. CASE Readable(wal[disk.log]) = {} /\ Readable(wal'[disk.log]) = {}
    <3>1. wal'[disk.log].recs = {} /\ UNION fr = {}
          BY <1>3, <2>2, NothingToReplay
    <3>2. wal[disk.log].recs = {} /\ UNION wal[disk.log].tail = {}
          BY <2>2 DEF Readable
    <3>3. MapOf(Replay(disk, wal[disk.log].tail)) \in Recovered
          BY PrefixEnds, RecoveredIs
    <3>. QED BY <1>2, <3>1, <3>2, <3>3 DEF Replay
  <2>. QED BY <2>1, <2>2
<1>. QED
      BY <1>1, <1>3, RecoveredFrom

LEMMA MapClosed ==
    ASSUME ~Running', LooseEmpty'
    PROVE  MapInv'
BY DEF MapInv, StoredCommitted, MemTableInLog, PresentRecovered, Publishing

LEMMA MapOpenFails ==
    ASSUME Journaled, Inv, MapInv,
           OpenRefused \/ OpenTruncateFails \/ OpenNewWalFails \/ OpenUnlinkFails
    PROVE  MapInv' /\ ~Running' /\ Recovered' \subseteq Recovered
<1>1. ~Running'
      BY DEF OpenRefused, OpenTruncateFails, OpenNewWalFails, OpenUnlinkFails, Running
<1>2. disk.log \in Numbers /\ TypeOK /\ wal \in [Numbers -> WalFile]
      BY DEF Inv, StructInv, TypeOK, Manifest
<1>3. /\ \A n \in Numbers : wal'[n] = wal[n] \/ wal'[n] \in NewWalLeftovers \cup {NoWal}
      /\ \/ wal'[disk.log] = wal[disk.log]
         \/ wal[disk.log].st = "none" /\ wal'[disk.log] \in NewWalLeftovers \cup {NoWal}
  <2>1. CASE OpenRefused \/ OpenTruncateFails
        BY <1>2, <2>1, CleanupKeeps DEF OpenRefused, OpenTruncateFails
  <2>2. CASE OpenNewWalFails
    <3>. DEFINE wals == cleanupOldWALFiles(disk.log)
    <3>1. PICK w \in NewWalLeftovers : wal' = [wals EXCEPT ![disk.log] = w]
          BY <2>2 DEF OpenNewWalFails
    <3>2. wals \in [Numbers -> WalFile] /\ wals[disk.log] = wal[disk.log]
          BY <1>2, CleanupKeeps, WalWithType DEF cleanupOldWALFiles
    <3>3. wal[disk.log].st = "none"
          BY <2>2, <3>2 DEF OpenNewWalFails
    <3>4. \A n \in Numbers : wals[n] = wal[n] \/ wals[n] = NoWal
          BY <1>2, CleanupKeeps
    <3>. HIDE DEF wals
    <3>. QED BY <1>2, <3>1, <3>2, <3>3, <3>4
  <2>3. CASE OpenUnlinkFails
    <3>1. ~ (disk.log < disk.log)
          BY <1>2 DEF Numbers
    <3>2. \/ wal' = wal
          \/ \E gone \in SUBSET {n \in Numbers : n < disk.log} :
                 wal' = [n \in Numbers |-> IF n \in gone THEN NoWal ELSE wal[n]]
          BY <2>3 DEF OpenUnlinkFails
    <3>. QED BY <1>2, <3>1, <3>2
  <2>. QED BY <2>1, <2>2, <2>3
<1>4. LooseEmpty'
      BY <1>3, NewWals DEF MapInv, LooseEmpty
<1>5. wal[disk.log].st = "none" => Readable(wal[disk.log]) = {}
      BY <1>2 DEF Inv, StructInv, BareIsEmpty
<1>6. Recovered' \subseteq Recovered
      BY <1>3, <1>5, NewWals, MapOpenDisk
<1>. QED
      BY <1>1, <1>4, <1>6, MapClosed

LEMMA MapOpen ==
    ASSUME Journaled, Inv, MapInv, Open, Inv'
    PROVE  MapInv' /\ Running' /\ Recovered' \subseteq Recovered
<1>. DEFINE wals == cleanupOldWALFiles(disk.log)
            live == IF wals[disk.log].st = "none" THEN WalWith("ready") ELSE wals[disk.log]
<1>1. Restore(disk, wals, live)
      BY DEF Open
<1>2. disk.log \in Numbers /\ TypeOK /\ wal \in [Numbers -> WalFile]
      BY DEF Inv, StructInv, TypeOK, Manifest
<1>3. /\ wals[disk.log] = wal[disk.log] /\ wals \in [Numbers -> WalFile]
      /\ \A n \in Numbers : wals[n] = wal[n] \/ wals[n] = NoWal
      BY <1>2, CleanupKeeps, WalWithType DEF cleanupOldWALFiles
<1>4. \/ live = wal[disk.log]
      \/ live = WalWith("ready") /\ wal[disk.log].st = "none"
      BY <1>3
<1>5. live \in WalFile
      BY <1>2, <1>4, WalWithType
<1>. HIDE DEF wals, live
<1>6. /\ wal' = [wals EXCEPT ![disk.log] = [live EXCEPT !.torn = FALSE]]
      /\ mem' = Readable(live) /\ man' = disk /\ walNo' = disk.log /\ Running'
      BY <1>1 DEF Restore, Running
<1>7. /\ wal'[disk.log].recs = live.recs /\ wal'[disk.log].tail = live.tail
      /\ wal'[disk.log].st = live.st
      BY <1>2, <1>3, <1>5, <1>6 DEF WalFile
<1>8. Readable(wal'[disk.log]) = Readable(live)
      BY <1>7 DEF Readable
<1>9. wal[disk.log].st = "none" => Readable(wal[disk.log]) = {}
      BY <1>2 DEF Inv, StructInv, BareIsEmpty
<1>10. Recovered' \subseteq Recovered
      BY <1>4, <1>7, <1>8, <1>9, NewWals, MapOpenDisk
<1>11. LooseEmpty'
  <2>1. \A n \in Numbers : n # disk.log => wal'[n] = wal[n] \/ wal'[n] = NoWal
        BY <1>2, <1>3, <1>6
  <2>2. live.st = "loose" => live.recs = {}
        BY <1>2, <1>4, NewWals DEF MapInv, LooseEmpty
  <2>. QED
        BY <1>7, <2>1, <2>2, NewWals DEF MapInv, LooseEmpty
<1>12. /\ disk' = disk /\ older' = {} /\ hist' = hist \cup Stored(sst, disk)
       /\ \A n \in allTableNumbers(disk) : sst'[n] = sst[n]
      BY <1>2, OpenChanges
<1>13. Stored(sst', disk) = Stored(sst, disk)
      BY <1>12, StoredSame
<1>14. StoredCommitted' /\ MemTableInLog'
      BY <1>6, <1>8, <1>12, <1>13 DEF StoredCommitted, MemTableInLog, Candidates
<1>15. PresentRecovered'
  <2>. DEFINE S == Stored(sst', disk)
              L == Readable(live)
  <2>1. MapOf(S \cup wal'[disk.log].recs \cup UNION live.tail) \in Recovered'
        BY <1>7, <1>12, PrefixEnds, RecoveredHas
  <2>2. S \cup wal'[disk.log].recs \cup UNION live.tail = S \cup L
        BY <1>7 DEF Readable
  <2>3. hist' \in SUBSET Record /\ L \in SUBSET Record /\ S \subseteq hist'
        BY <1>5, <1>12, <1>13, ReadableType DEF Inv, StructInv, TypeOK
  <2>4. Covers(S \cup L, hist')
        BY <1>6 DEF Inv, DurInv, MemTableCovered
  <2>5. Distinct(hist' \cup L)
    <3>1. hist' \cup L \subseteq AllRecords'
          BY <1>6 DEF AllRecords
    <3>. QED BY <3>1 DEF Inv, ReadInv, Unique, Distinct
  <2>. HIDE DEF S, L
  <2>6. MapOf(S \cup L) = MapOf(hist' \cup L)
        BY <2>3, <2>4, <2>5, ReplayMap
  <2>. QED
        BY <1>6, <2>1, <2>2, <2>6 DEF PresentRecovered, Present, L
<1>. QED
      BY <1>6, <1>10, <1>11, <1>14, <1>15 DEF MapInv

\* The process goes; a power loss leaves one MANIFEST and a prefix of the frames.
LEMMA MapCrash ==
    ASSUME Journaled, Inv, MapInv, Kill \/ PowerLoss
    PROVE  MapInv' /\ ~Running' /\ Recovered' \subseteq Recovered
<1>1. ~Running'
      BY DEF Kill, PowerLoss, ProcessGone, Running
<1>2. TypeOK /\ wal \in [Numbers -> WalFile] /\ \A m \in Known : m.log \in Numbers
      BY StructGives DEF Inv, StructInv, TypeOK
<1>3. CASE Kill
  <2>1. UNCHANGED <<sst, wal, disk, older>>
        BY <1>3 DEF Kill, diskVars
  <2>2. Recovered' = Recovered
        BY <2>1 DEF Recovered
  <2>3. LooseEmpty'
        BY <2>1 DEF MapInv, LooseEmpty
  <2>. QED BY <1>1, <2>2, <2>3, MapClosed
<1>4. CASE PowerLoss
  <2>1. /\ disk' \in {disk} \cup older /\ older' = {} /\ sst' = sst /\ disk'.log \in Numbers
        BY <1>2, <1>4 DEF PowerLoss, Known
  <2>. DEFINE w == wal[disk'.log]
  <2>2. PICK v \in Survivors(w) : wal' = [wal EXCEPT ![disk'.log] = v]
        BY <1>4 DEF PowerLoss
  <2>3. wal'[disk'.log] = v /\ w \in WalFile
        BY <1>2, <2>1, <2>2
  <2>4. /\ w.st \in {"none", "bare"} => Readable(w) = {}
        /\ w.st = "loose" => w.recs = {}
        BY <2>1 DEF Inv, StructInv, BareIsEmpty, MapInv, LooseEmpty
  <2>. HIDE DEF w
  <2>5. \/ v.recs = w.recs /\ v.tail \in Prefixes(w.tail) /\ v.st # "loose"
        \/ w.recs = {} /\ v.recs = {} /\ Readable(v) = {} /\ v.st # "loose"
    <3>1. CASE \E t \in Prefixes(w.tail), b \in BOOLEAN : v = CutBack(w, t, b)
      <4>1. PICK t \in Prefixes(w.tail), b \in BOOLEAN : v = CutBack(w, t, b)
            BY <3>1
      <4>2. v.recs = w.recs /\ v.tail = t /\ v.st # "loose"
            BY <2>3, <4>1 DEF CutBack, WalFile
      <4>. QED BY <4>2
    <3>2. CASE v \in {NoWal, WalWith("bare")} /\ w.st \in {"bare", "loose"}
      <4>1. w.recs = {}
            BY <2>4, <3>2 DEF Readable
      <4>2. v.recs = {} /\ Readable(v) = {} /\ v.st # "loose"
            BY <3>2, NewWals DEF NoWal, WalWith
      <4>. QED BY <4>1, <4>2
    <3>3. \/ \E t \in Prefixes(w.tail), b \in BOOLEAN : v = CutBack(w, t, b)
          \/ v \in {NoWal, WalWith("bare")} /\ w.st \in {"bare", "loose"}
      <4>1. TRUE \in BOOLEAN /\ FALSE \in BOOLEAN
            OBVIOUS
      <4>. QED BY <4>1, Zenon DEF Survivors
    <3>. QED BY <3>1, <3>2, <3>3
  <2>6. ASSUME NEW fr \in Prefixes(v.tail)
        PROVE  MapOf(Stored(sst, disk') \cup v.recs \cup UNION fr) \in Recovered
    <3>1. CASE v.recs = w.recs /\ v.tail \in Prefixes(w.tail)
      <4>1. MapOf(Replay(disk', fr)) \in Recovered
            BY <2>1, <3>1, PrefixOfPrefix, RecoveredIs DEF w
      <4>. QED BY <3>1, <4>1 DEF Replay, w
    <3>2. CASE w.recs = {} /\ v.recs = {} /\ Readable(v) = {}
      <4>1. UNION fr = {}
            BY <3>2, NothingToReplay
      <4>2. {} \in Prefixes(w.tail)
            BY DEF Prefixes
      <4>3. MapOf(Replay(disk', {})) \in Recovered
            BY <2>1, <4>2, RecoveredIs DEF w
      <4>. QED BY <3>2, <4>1, <4>3 DEF Replay, w
    <3>. QED BY <2>5, <3>1, <3>2
  <2>7. Recovered' \subseteq Recovered
        BY <2>1, <2>3, <2>6, RecoveredFrom
  <2>8. LooseEmpty'
        BY <1>2, <2>1, <2>2, <2>3, <2>5 DEF MapInv, LooseEmpty
  <2>. QED BY <1>1, <2>7, <2>8, MapClosed
<1>. QED
      BY <1>3, <1>4

-----------------------------------------------------------------------------
(***************************************************************************)
(* Writes.                                                                 *)
(***************************************************************************)

\* What a start finds if the frames fr of the live WAL survive.
FoundWith(fr) == MapOf(hist \cup wal[walNo].recs \cup UNION fr)

\* While the process may write, what a start finds depends on the surviving
\* frames only.
PublishedMaps ==
    Publishing => Recovered = {FoundWith(fr) : fr \in Prefixes(wal[walNo].tail)}

\* Tables S that, with the synced frames, cover the committed records.
LEMMA FoundIs ==
    ASSUME Inv, Publishing, NEW S \in SUBSET hist, Covers(S \cup Durable(wal[walNo]), hist),
           NEW fr \in Prefixes(wal[walNo].tail)
    PROVE  MapOf(S \cup wal[walNo].recs \cup UNION fr) = FoundWith(fr)
<1>. DEFINE L == wal[walNo].recs \cup UNION fr
            D == Durable(wal[walNo])
<1>1. Running /\ TypeOK /\ hist \in SUBSET Record /\ wal[walNo] \in WalFile
      BY DEF Publishing, Inv, StructInv, TypeOK
<1>2. D \in SUBSET L /\ L \subseteq Readable(wal[walNo])
      BY PrefixEnds DEF Durable, Readable
<1>3. L \in SUBSET Record
      BY <1>1, <1>2, ReadableType
<1>4. Distinct(hist \cup L)
  <2>1. walNo \in Logs
        BY <1>1 DEF Logs
  <2>2. hist \cup L \subseteq AllRecords
        BY <1>2, <2>1, AllParts
  <2>. QED BY <2>2 DEF Inv, ReadInv, Unique, Distinct
<1>5. /\ S \cup wal[walNo].recs \cup UNION fr = S \cup L
      /\ hist \cup wal[walNo].recs \cup UNION fr = hist \cup L
      OBVIOUS
<1>. HIDE DEF D, L
<1>6. Covers(S \cup D, hist)
      BY DEF D
<1>7. MapOf(S \cup L) = MapOf(hist \cup L)
  <2>1. hist \in SUBSET Record /\ S \in SUBSET hist /\ L \in SUBSET Record /\ D \in SUBSET L
        BY <1>1, <1>2, <1>3
  <2>. QED BY <1>4, <1>6, <2>1, ReplayMap
<1>. QED
      BY <1>5, <1>7 DEF FoundWith

LEMMA Published == Inv /\ StoredCommitted => PublishedMaps
<1>. SUFFICES ASSUME Inv, StoredCommitted, Publishing
              PROVE  Recovered = {FoundWith(fr) : fr \in Prefixes(wal[walNo].tail)}
      BY DEF PublishedMaps
<1>2. {disk} \cup older \subseteq Candidates /\ \A m \in Candidates : m.log = walNo
      BY DEF Candidates, Inv, DurInv, LogCurrent
<1>3. ASSUME NEW m \in {disk} \cup older, NEW fr \in Prefixes(wal[walNo].tail)
      PROVE  MapOf(Replay(m, fr)) = FoundWith(fr)
  <2>1. /\ Stored(sst, m) \in SUBSET hist
        /\ Covers(Stored(sst, m) \cup Durable(wal[walNo]), hist)
        BY <1>2 DEF StoredCommitted, Inv, DurInv, CandidatesCovered
  <2>2. Replay(m, fr) = Stored(sst, m) \cup wal[walNo].recs \cup UNION fr
        BY <1>2 DEF Replay
  <2>. QED
        BY <2>1, <2>2, FoundIs
<1>4. \A m \in {disk} \cup older : m.log = walNo
      BY <1>2
<1>5. ASSUME NEW map \in Recovered
      PROVE  \E fr \in Prefixes(wal[walNo].tail) : map = FoundWith(fr)
  <2>1. PICK m \in {disk} \cup older : \E fr \in Prefixes(wal[m.log].tail) :
            map = MapOf(Replay(m, fr))
        BY <1>5, RecoveredIs
  <2>. QED
        BY <1>3, <1>4, <2>1
<1>6. ASSUME NEW fr \in Prefixes(wal[walNo].tail)
      PROVE  FoundWith(fr) \in Recovered
  <2>1. fr \in Prefixes(wal[disk.log].tail)
        BY <1>4
  <2>2. MapOf(Replay(disk, fr)) \in Recovered
        BY <2>1, RecoveredIs
  <2>. QED
        BY <1>3, <2>2
<1>. QED
      BY <1>5, <1>6

LEMMA PublishedNext == Inv' /\ StoredCommitted' => PublishedMaps'
BY Published, PTL

\* The map of a batch's records on top of older ones.
LEMMA BatchMap ==
    ASSUME NEW old \in SUBSET Record, nextSeq \in 1..(MaxSeq + 1), \A r \in old : r.seq < nextSeq,
           NEW n \in Nat, NEW b \in [1..n -> Op], nextSeq + n <= MaxSeq + 1
    PROVE  MapOf(old \cup BatchRecords(b, n)) = KV!Apply(MapOf(old), b, n)
<1>. DEFINE new == BatchRecords(b, n)
            all == old \cup new
<1>1. /\ \A r \in new : r.seq \in Int /\ nextSeq <= r.seq /\ r.seq < nextSeq + n
      /\ nextSeq \in Nat
      BY BatchSequences
<1>2. \A r \in old : r.seq \in Int
      BY DEF Record
<1>3. all \in SUBSET Record
      BY BatchType
<1>4. \A r \in new : \E i \in 1..n :
          r = [key |-> b[i].key, seq |-> nextSeq + i - 1, val |-> b[i].val]
      BY DEF BatchRecords
<1>5. \A i \in 1..n : [key |-> b[i].key, seq |-> nextSeq + i - 1, val |-> b[i].val] \in new
      BY DEF BatchRecords
<1>. HIDE DEF new
<1>6. ASSUME NEW k \in Keys
      PROVE  MapOf(all)[k] = KV!Apply(MapOf(old), b, n)[k]
  <2>. DEFINE ops == {i \in 1..n : b[i].key = k}
  <2>1. KV!Apply(MapOf(old), b, n)[k] = IF ops = {} THEN MapOf(old)[k] ELSE b[KV!Max(ops)].val
        BY DEF KV!Apply
  <2>2. MapOf(all)[k] = ValueOf(SourceGet(all, k, MaxSeq))
        BY DEF MapOf
  <2>3. CASE ops = {}
    <3>1. Visible(all, k, MaxSeq) = Visible(old, k, MaxSeq)
      <4>1. \A r \in new : r.key # k
            BY <1>4, <2>3
      <4>. QED BY <4>1 DEF Visible
    <3>. QED BY <2>1, <2>2, <2>3, <3>1 DEF MapOf, SourceGet
  <2>4. CASE ops # {}
    <3>. DEFINE r == SourceGet(all, k, MaxSeq)
    <3>1. ASSUME NEW i \in ops
          PROVE  \E q \in Visible(all, k, MaxSeq) : q.seq = nextSeq + i - 1
      <4>. DEFINE q == [key |-> b[i].key, seq |-> nextSeq + i - 1, val |-> b[i].val]
      <4>1. q \in all /\ q.key = k /\ q.seq = nextSeq + i - 1 /\ q.seq \in 1..MaxSeq
            BY <1>1, <1>5
      <4>. QED BY <4>1 DEF Visible
    <3>2. /\ r # Absent /\ r \in Visible(all, k, MaxSeq)
          /\ \A q \in Visible(all, k, MaxSeq) : q.seq <= r.seq
          BY <1>3, <2>4, <3>1, SourceGetIs
    <3>. HIDE DEF r
    <3>3. r \in all /\ r.key = k /\ r.seq \in Int
          BY <1>1, <1>2, <3>2 DEF Visible
    <3>4. ASSUME NEW i \in ops
          PROVE  i \in Int /\ nextSeq + i - 1 <= r.seq
      <4>1. PICK q \in Visible(all, k, MaxSeq) : q.seq = nextSeq + i - 1
            BY <3>1
      <4>2. q.seq <= r.seq
            BY <3>2
      <4>. QED BY <4>1, <4>2
    <3>5. r \in new
      <4>1. PICK i \in ops : i >= 1
            BY <2>4
      <4>2. ~ (r.seq < nextSeq)
            BY <1>1, <3>3, <3>4, <4>1
      <4>. QED BY <3>3, <4>2
    <3>6. PICK i \in 1..n : r = [key |-> b[i].key, seq |-> nextSeq + i - 1, val |-> b[i].val]
          BY <1>4, <3>5
    <3>7. i \in ops /\ r.val = b[i].val /\ r.seq = nextSeq + i - 1
          BY <3>3, <3>6
    <3>8. \A j \in ops : i >= j
      <4>1. \A j \in ops : nextSeq + j - 1 <= nextSeq + i - 1
            BY <3>4, <3>7
      <4>. QED BY <1>1, <4>1
    <3>9. KV!Max(ops) = i
      <4>1. \A j \in ops : (\A y \in ops : j >= y) => j = i
            BY <3>7, <3>8
      <4>. HIDE DEF ops
      <4>. QED BY <3>7, <3>8, <4>1 DEF KV!Max
    <3>. QED BY <2>1, <2>2, <2>4, <3>2, <3>7, <3>9 DEF ValueOf, r
  <2>. QED BY <2>3, <2>4
<1>7. /\ MapOf(all) = [k \in Keys |-> MapOf(all)[k]]
      /\ KV!Apply(MapOf(old), b, n) = [k \in Keys |-> KV!Apply(MapOf(old), b, n)[k]]
      BY DEF MapOf, KV!Apply
<1>. HIDE DEF all
<1>8. MapOf(all) = KV!Apply(MapOf(old), b, n)
      BY <1>6, <1>7
<1>. QED
      BY <1>8 DEF all, new

\* An acknowledged batch is in the map, and is all that a start can find.
LEMMA MapWrite ==
    ASSUME Journaled, Inv, MapInv, Inv', NEW n \in 1..MaxBatch, NEW b \in [1..n -> Op],
           Write(b, n)
    PROVE  /\ MapInv' /\ Running /\ Running'
           /\ Present' = KV!Apply(Present, b, n)
           /\ Recovered' = {Present'}
<1>. DEFINE frame == BatchRecords(b, n)
            w == wal[walNo]
<1>1. /\ Publishing /\ Publishing' /\ Running /\ Running' /\ ~poisoned /\ n \in Nat
      /\ UNCHANGED <<walNo, man, sst, disk, older>> /\ nextSeq + n <= MaxSeq + 1
      BY DEF Write, Writing, MayAppend, Publishing, Running
<1>2. /\ walNo \in Numbers /\ w \in WalFile /\ wal \in [Numbers -> WalFile]
      /\ nextSeq \in 1..(MaxSeq + 1)
      BY DEF Inv, StructInv, TypeOK
<1>3. /\ wal' = [wal EXCEPT ![walNo] = AppendSynced(w, frame)]
      /\ mem' = mem \cup frame /\ hist' = hist \cup Readable(w) \cup frame
      BY DEF Write
<1>4. Readable(w) \subseteq mem /\ mem \subseteq Readable(w)
      BY <1>1 DEF Inv, DurInv, MemTableLogged, MapInv, MemTableInLog
<1>. HIDE DEF frame, w
<1>5. /\ wal'[walNo].recs = Readable(w) \cup frame /\ wal'[walNo].tail = {}
      /\ wal'[walNo].st # "loose"
      BY <1>2, <1>3 DEF AppendSynced, WalFile
<1>6. Present' = KV!Apply(Present, b, n)
  <2>. DEFINE old == hist \cup mem
  <2>1. old \in SUBSET Record /\ \A r \in old : r.seq < nextSeq
        BY <1>1, AllBelow, AllParts
  <2>2. hist' \cup mem' = old \cup frame
        BY <1>3, <1>4
  <2>. HIDE DEF old
  <2>3. MapOf(old \cup frame) = KV!Apply(MapOf(old), b, n)
        BY <1>1, <1>2, <2>1, BatchMap DEF frame
  <2>. QED BY <2>2, <2>3 DEF Present, old
<1>7. LooseEmpty'
      BY <1>2, <1>3, <1>5 DEF MapInv, LooseEmpty
<1>8. StoredCommitted'
  <2>1. Candidates' = Candidates
        BY <1>1 DEF Candidates
  <2>. QED BY <1>1, <1>3, <2>1 DEF MapInv, StoredCommitted
<1>9. MemTableInLog'
      BY <1>1, <1>3, <1>4, <1>5 DEF MemTableInLog, Readable
<1>10. Recovered' = {Present'}
  <2>1. Recovered' = {MapOf(hist' \cup wal'[walNo'].recs \cup UNION fr) :
                         fr \in Prefixes(wal'[walNo'].tail)}
        BY <1>1, <1>8, PublishedNext DEF PublishedMaps, FoundWith
  <2>2. Prefixes(wal'[walNo'].tail) = {{}}
        BY <1>1, <1>5 DEF Prefixes
  <2>3. hist' \cup wal'[walNo'].recs \cup UNION {} = hist' \cup mem'
        BY <1>1, <1>3, <1>4, <1>5
  <2>4. Recovered' = {MapOf(hist' \cup wal'[walNo'].recs \cup UNION {})}
        BY <2>1, <2>2
  <2>. QED BY <2>3, <2>4 DEF Present
<1>. QED
      BY <1>1, <1>6, <1>7, <1>8, <1>9, <1>10 DEF MapInv, PresentRecovered

\* The frames that may survive a failed append: a prefix of the old ones, or all.
LEMMA PrefixesGrow ==
    ASSUME NEW tail, NEW frame, frame # {},
           \A f \in tail : \A x \in f, y \in frame : x.seq \in Int /\ y.seq \in Int /\ x.seq < y.seq
    PROVE  /\ Prefixes(tail) \subseteq Prefixes(tail \cup {frame})
           /\ \A fr \in Prefixes(tail \cup {frame}) :
                  fr \in Prefixes(tail) \/ UNION fr = (UNION tail) \cup frame
<1>1. ASSUME NEW fr \in Prefixes(tail) PROVE fr \in Prefixes(tail \cup {frame})
      BY DEF Prefixes
<1>2. ASSUME NEW fr \in Prefixes(tail \cup {frame}), frame \notin fr
      PROVE  fr \in Prefixes(tail)
      BY <1>2 DEF Prefixes
<1>3. ASSUME NEW fr \in Prefixes(tail \cup {frame}), frame \in fr
      PROVE  UNION fr = (UNION tail) \cup frame
  <2>1. fr \subseteq tail \cup {frame}
        BY DEF Prefixes
  <2>2. ASSUME NEW g \in tail, NEW y \in g PROVE g \in fr
    <3>1. PICK x \in frame : TRUE
          OBVIOUS
    <3>2. g \notin fr => x.seq < y.seq
          BY <1>3 DEF Prefixes
    <3>3. y.seq \in Int /\ x.seq \in Int /\ y.seq < x.seq
          BY <2>2
    <3>. QED BY <3>2, <3>3
  <2>. QED BY <1>3, <2>1, <2>2
<1>. QED
      BY <1>1, <1>2, <1>3

\* A batch that failed is not in the map; a start may find it, all of it.
LEMMA MapWriteFails ==
    ASSUME Inv, MapInv, Inv', NEW n \in 1..MaxBatch, NEW b \in [1..n -> Op],
           WriteFails(b, n)
    PROVE  /\ MapInv' /\ Running /\ Running' /\ Present' = Present
           /\ Recovered' \in {Recovered, Recovered \cup {KV!Apply(Present, b, n)}}
<1>. DEFINE frame == BatchRecords(b, n)
            w == wal[walNo]
<1>1. /\ Publishing /\ Publishing' /\ Running /\ Running' /\ ~poisoned /\ poisoned' /\ n \in Nat
      /\ UNCHANGED <<mem, hist, walNo, man, sst, disk, older>> /\ nextSeq + n <= MaxSeq + 1
      BY DEF WriteFails, Writing, MayAppend, Publishing, Running
<1>2. /\ walNo \in Numbers /\ w \in WalFile /\ wal \in [Numbers -> WalFile]
      /\ nextSeq \in 1..(MaxSeq + 1)
      BY DEF Inv, StructInv, TypeOK
<1>3. PICK v \in AppendFailures(w, frame) : wal' = [wal EXCEPT ![walNo] = v]
      BY DEF WriteFails
<1>4. Readable(w) \subseteq mem /\ mem \subseteq Readable(w)
      BY <1>1 DEF Inv, DurInv, MemTableLogged, MapInv, MemTableInLog
<1>. HIDE DEF frame, w
<1>5. /\ v.recs = w.recs /\ v.st = w.st
      /\ v.tail = w.tail \/ v.tail = w.tail \cup {frame}
      BY <1>2 DEF AppendFailures, WalFile
<1>6. wal'[walNo] = v
      BY <1>2, <1>3
<1>7. LooseEmpty'
      BY <1>2, <1>3, <1>5 DEF MapInv, LooseEmpty, w
<1>8. StoredCommitted'
  <2>1. Candidates' = Candidates
        BY <1>1 DEF Candidates
  <2>. QED BY <1>1, <2>1 DEF MapInv, StoredCommitted
<1>9. MemTableInLog' /\ Present' = Present
      BY <1>1 DEF MemTableInLog, Present
<1>. DEFINE Found(fr) == MapOf(hist \cup w.recs \cup UNION fr)
<1>10. Recovered = {Found(fr) : fr \in Prefixes(w.tail)}
      BY <1>1, Published DEF MapInv, PublishedMaps, FoundWith, w
<1>11. Recovered' = {Found(fr) : fr \in Prefixes(v.tail)}
  <2>1. Recovered' = {MapOf(hist' \cup wal'[walNo'].recs \cup UNION fr) :
                         fr \in Prefixes(wal'[walNo'].tail)}
        BY <1>1, <1>8, PublishedNext DEF PublishedMaps, FoundWith
  <2>. QED BY <1>1, <1>5, <1>6, <2>1
<1>12. CASE v.tail = w.tail
  <2>1. Recovered' = Recovered
        BY <1>10, <1>11, <1>12
  <2>. QED
        BY <1>1, <1>7, <1>8, <1>9, <2>1 DEF MapInv, PresentRecovered
<1>13. CASE v.tail = w.tail \cup {frame}
  <2>. DEFINE full == w.tail \cup {frame}
  <2>1. frame # {}
    <3>1. [key |-> b[1].key, seq |-> nextSeq + 1 - 1, val |-> b[1].val] \in frame
          BY DEF BatchRecords, frame
    <3>. QED BY <3>1
  <2>2. /\ \A y \in frame : y.seq \in Int /\ nextSeq <= y.seq
        /\ nextSeq \in Int
        BY <1>1, <1>2, BatchSequences DEF frame
  <2>3. \A f \in w.tail : \A x \in f : x.seq \in Int /\ x.seq < nextSeq
    <3>1. walNo \in Logs /\ Readable(w) \subseteq AllRecords
          BY <1>1, AllParts DEF Logs, w
    <3>2. \A f \in w.tail : f \subseteq Readable(w)
          BY DEF Readable
    <3>. QED BY <1>1, <3>1, <3>2, AllBelow
  <2>4. \A f \in w.tail : \A x \in f, y \in frame : x.seq \in Int /\ y.seq \in Int /\ x.seq < y.seq
        BY <2>2, <2>3
  <2>5. /\ Prefixes(w.tail) \subseteq Prefixes(full)
        /\ \A fr \in Prefixes(full) : fr \in Prefixes(w.tail) \/ UNION fr = (UNION w.tail) \cup frame
        BY <2>1, <2>4, PrefixesGrow
  <2>6. full \in Prefixes(full) /\ UNION full = (UNION w.tail) \cup frame
        BY PrefixEnds
  <2>. HIDE DEF full
  <2>7. \A fr : UNION fr = (UNION w.tail) \cup frame => Found(fr) = KV!Apply(Present, b, n)
    <3>. SUFFICES ASSUME NEW fr, UNION fr = (UNION w.tail) \cup frame
                  PROVE  Found(fr) = KV!Apply(Present, b, n)
          OBVIOUS
    <3>. DEFINE old == hist \cup mem
    <3>1. hist \cup w.recs \cup UNION fr = old \cup frame
          BY <1>4 DEF Readable
    <3>2. old \in SUBSET Record /\ \A r \in old : r.seq < nextSeq
          BY <1>1, AllBelow, AllParts
    <3>. HIDE DEF old
    <3>3. MapOf(old \cup frame) = KV!Apply(MapOf(old), b, n)
          BY <1>1, <1>2, <3>2, BatchMap DEF frame
    <3>. QED BY <3>1, <3>3 DEF Present, old
  <2>. HIDE DEF Found
  <2>8. Recovered' = Recovered \cup {KV!Apply(Present, b, n)}
    <3>1. v.tail = full
          BY <1>13 DEF full
    <3>2. \A fr \in Prefixes(full) : Found(fr) \in Recovered \cup {KV!Apply(Present, b, n)}
          BY <1>10, <2>5, <2>7
    <3>3. \A fr \in Prefixes(w.tail) : Found(fr) \in Recovered'
          BY <1>11, <2>5, <3>1
    <3>4. KV!Apply(Present, b, n) \in Recovered'
          BY <1>11, <2>6, <2>7, <3>1
    <3>5. Recovered' \subseteq Recovered \cup {KV!Apply(Present, b, n)}
          BY <1>11, <3>1, <3>2
    <3>6. Recovered \subseteq Recovered'
          BY <1>10, <3>3
    <3>. QED BY <3>4, <3>5, <3>6
  <2>9. PresentRecovered'
        BY <1>1, <1>9, <2>8 DEF MapInv, PresentRecovered
  <2>. QED
        BY <1>1, <1>7, <1>8, <1>9, <2>8, <2>9 DEF MapInv
<1>. QED
      BY <1>5, <1>12, <1>13

-----------------------------------------------------------------------------
(***************************************************************************)
(* Flush and compaction.                                                   *)
(***************************************************************************)

\* The MANIFEST of a flush recovers to the present map.
LEMMA FlushedMap ==
    ASSUME Inv, Flushing
    PROVE  MapOf(Stored(Built, ManFlushed)) = Present
<1>. DEFINE A == Stored(sst, man) \cup mem
            B == hist \cup mem
<1>1. Running /\ TypeOK
      BY DEF Flushing, Running, Inv, StructInv
<1>2. B \in SUBSET Record /\ A \in SUBSET B
      BY <1>1 DEF TypeOK, Inv, ReadInv, StoredKnown
<1>3. Distinct(B)
      BY AllParts DEF Inv, ReadInv, Unique, Distinct
<1>4. Covers(A, B)
  <2>1. \A r \in mem : r.seq \in Int
        BY <1>1 DEF TypeOK, Record
  <2>. QED BY <1>1, <2>1 DEF Inv, DurInv, MemTableCovered, Covers
<1>5. Stored(Built, ManFlushed) = A
      BY FlushedOrdered
<1>. HIDE DEF A, B
<1>6. MapOf(A) = MapOf(B)
      BY <1>2, <1>3, <1>4, MapCovered
<1>. QED
      BY <1>5, <1>6 DEF Present, B

\* A flush leaves the MANIFESTs it found, or its own, or both.
LEMMA MapFlushEnds ==
    ASSUME Inv, MapInv, Flushing,
           \/ /\ sst' \in {sst, Built} /\ UNCHANGED <<wal, disk, older>>
           \/ /\ sst' = Built /\ UNCHANGED wal
              /\ {disk} \cup older \subseteq {disk'} \cup older'
              /\ {disk'} \cup older' \subseteq {disk} \cup older \cup {ManFlushed}
           \/ /\ sst' = Built /\ disk' = ManFlushed /\ older' = {}
              /\ Readable(wal'[nextWALNumber]) = {}
    PROVE  Recovered' \subseteq Recovered /\ Present \in Recovered'
<1>1. Present \in Recovered
      BY DEF MapInv, PresentRecovered, Flushing, Running
<1>2. /\ \A m \in Known : \A n \in allTableNumbers(m) : Built[n] = sst[n]
      /\ ManFlushed.log = nextWALNumber
      BY FlushedSound DEF Inv
<1>3. Readable(wal[nextWALNumber]) = {}
      BY FlushedOrdered
<1>4. ASSUME sst' \in {sst, Built}, UNCHANGED wal, NEW m \in {disk} \cup older
      PROVE  \A fr : Replay(m, fr) = Stored(sst', m) \cup wal'[m.log].recs \cup UNION fr
  <2>1. Stored(sst', m) = Stored(sst, m)
        BY <1>2, <1>4, StoredSame DEF Known
  <2>. QED BY <1>4, <2>1 DEF Replay
<1>5. ASSUME sst' = Built, Readable(wal'[nextWALNumber]) = {}, NEW fr \in Prefixes(wal'[ManFlushed.log].tail)
      PROVE  MapOf(Stored(sst', ManFlushed) \cup wal'[ManFlushed.log].recs \cup UNION fr) = Present
  <2>1. wal'[ManFlushed.log].recs = {} /\ UNION fr = {}
        BY <1>2, <1>5, NothingToReplay
  <2>2. Stored(sst', ManFlushed) \cup wal'[ManFlushed.log].recs \cup UNION fr = Stored(Built, ManFlushed)
        BY <1>5, <2>1
  <2>. QED BY <2>2, FlushedMap
<1>6. CASE /\ sst' \in {sst, Built} /\ UNCHANGED wal
           /\ {disk} \cup older \subseteq {disk'} \cup older'
           /\ \/ {disk'} \cup older' \subseteq {disk} \cup older
              \/ /\ {disk'} \cup older' \subseteq {disk} \cup older \cup {ManFlushed}
                 /\ sst' = Built
  <2>1. ASSUME NEW m \in {disk'} \cup older', NEW fr \in Prefixes(wal'[m.log].tail)
        PROVE  MapOf(Stored(sst', m) \cup wal'[m.log].recs \cup UNION fr) \in Recovered
    <3>1. CASE m \in {disk} \cup older
      <4>1. MapOf(Replay(m, fr)) \in Recovered
            BY <1>6, <3>1, RecoveredIs
      <4>. QED BY <1>4, <1>6, <3>1, <4>1
    <3>2. CASE m = ManFlushed /\ sst' = Built
          BY <1>1, <1>3, <1>5, <1>6, <3>2
    <3>. QED BY <1>6, <3>1, <3>2
  <2>2. PICK m \in {disk} \cup older : \E fr \in Prefixes(wal[m.log].tail) : Present = MapOf(Replay(m, fr))
        BY <1>1, RecoveredIs
  <2>3. PICK fr \in Prefixes(wal[m.log].tail) : Present = MapOf(Replay(m, fr))
        BY <2>2
  <2>4. MapOf(Stored(sst', m) \cup wal'[m.log].recs \cup UNION fr) \in Recovered'
        BY <1>6, RecoveredHas
  <2>5. Present \in Recovered'
        BY <1>4, <1>6, <2>3, <2>4
  <2>. QED
        BY <2>1, <2>5, RecoveredFrom
<1>7. CASE /\ sst' = Built /\ disk' = ManFlushed /\ older' = {}
           /\ Readable(wal'[nextWALNumber]) = {}
  <2>1. \A m \in {disk'} \cup older' : \A fr \in Prefixes(wal'[m.log].tail) :
            MapOf(Stored(sst', m) \cup wal'[m.log].recs \cup UNION fr) \in {Present}
        BY <1>5, <1>7
  <2>2. Recovered' \subseteq {Present}
        BY <2>1, RecoveredFrom
  <2>3. Recovered' # {}
        BY RecoveredNonempty
  <2>. QED BY <1>1, <2>2, <2>3
<1>. QED
      BY <1>6, <1>7

LEMMA MapFlush ==
    ASSUME Inv, MapInv, AnyFlush
    PROVE  /\ MapInv' /\ Running /\ Running' /\ Present' = Present
           /\ Recovered' \subseteq Recovered /\ Present \in Recovered'
<1>1. Flushing /\ Running /\ Running'
      BY DEF AnyFlush, Flush, FlushBuildFails, FlushSaveFails, FlushNewWalFails,
             FlushUnlinkFails, Building, Flushing, GiveUpFlush, Running
<1>2. nextWALNumber \in Numbers /\ walNo \in Numbers /\ wal \in [Numbers -> WalFile]
      BY <1>1, FlushedSound DEF Inv, StructInv, TypeOK
<1>3. \A n \in Numbers : wal'[n] = wal[n] \/ wal'[n].recs = {}
      BY <1>2, NewWals DEF AnyFlush, Flush, FlushBuildFails, FlushSaveFails, FlushNewWalFails,
             FlushUnlinkFails, SwitchMemTable
<1>4. LooseEmpty'
      BY <1>3 DEF MapInv, LooseEmpty
<1>5. Present' = Present
      BY FlushKeepsRecords DEF Present
<1>6. Recovered' \subseteq Recovered /\ Present \in Recovered'
  <2>1. CASE FlushBuildFails
        BY <1>1, <2>1, MapFlushEnds DEF FlushBuildFails
  <2>2. CASE FlushSaveFails
    <3>1. /\ sst' = Built /\ UNCHANGED wal
          /\ {disk} \cup older \subseteq {disk'} \cup older'
          /\ {disk'} \cup older' \subseteq {disk} \cup older \cup {ManFlushed}
          BY <2>2 DEF FlushSaveFails, SaveFails, Building
    <3>. QED BY <1>1, <3>1, MapFlushEnds
  <2>3. CASE Flush \/ FlushNewWalFails \/ FlushUnlinkFails
    <3>1. sst' = Built /\ disk' = ManFlushed /\ older' = {}
          BY <2>3 DEF Flush, FlushNewWalFails, FlushUnlinkFails, Save, Building
    <3>2. Readable(wal'[nextWALNumber]) = {}
          BY <1>2, <2>3, NewWals DEF Flush, FlushNewWalFails, FlushUnlinkFails, SwitchMemTable
    <3>. QED BY <1>1, <3>1, <3>2, MapFlushEnds
  <2>. QED BY <2>1, <2>2, <2>3 DEF AnyFlush
<1>7. StoredCommitted' /\ MemTableInLog'
  <2>1. CASE Flush
    <3>1. /\ man' = ManFlushed /\ disk' = ManFlushed /\ older' = {} /\ sst' = Built /\ mem' = {}
          /\ hist' = hist \cup Stored(Built, ManFlushed)
          BY <2>1 DEF Flush, Save, Building, SwitchMemTable
    <3>. QED BY <3>1 DEF StoredCommitted, MemTableInLog, Candidates
  <2>2. CASE ~Flush
    <3>1. ~Publishing'
          BY <2>2 DEF AnyFlush, FlushBuildFails, FlushSaveFails, FlushNewWalFails,
                      FlushUnlinkFails, GiveUpFlush, Publishing
    <3>. QED BY <3>1 DEF StoredCommitted, MemTableInLog
  <2>. QED BY <2>1, <2>2
<1>. QED
      BY <1>1, <1>4, <1>5, <1>6, <1>7 DEF MapInv, PresentRecovered

\* A compaction changes neither the map nor what a start may find: each MANIFEST
\* it leaves covers the committed records and lists none but those.
LEMMA MapCompact ==
    ASSUME Inv, MapInv, Inv', ~CompactWhenFailed, NEW l \in 0..(MaxLevel - 1), Compact(l)
    PROVE  /\ MapInv' /\ Running /\ Running' /\ Present' = Present
           /\ Recovered' \subseteq Recovered /\ Present \in Recovered'
<1>1. PICK M, F : CompactionEnd(M, F)
      BY CompactEnds
<1>2. Publishing /\ Running
      BY CompactEnds DEF Publishing
<1>3. /\ Running' /\ UNCHANGED <<mem, walNo, poisoned, wal>> /\ man' = M /\ M.log = man.log
      /\ {disk'} \cup older' \subseteq {disk, M} \cup older
      BY <1>1 DEF CompactionEnd
<1>4. /\ {disk, man} \cup older \subseteq Candidates
      /\ \A m \in Candidates : m.log = walNo /\ Stored(sst, m) \subseteq hist
      BY <1>2 DEF Candidates, Inv, DurInv, LogCurrent, MapInv, StoredCommitted
<1>5. Stored(sst', M) \subseteq hist /\ hist' = hist
  <2>1. Stored(sst', M) = Stored(F, M)
        BY <1>1, StoredSame DEF CompactionEnd
  <2>. QED BY <1>1, <1>4, <2>1 DEF CompactionEnd
<1>6. ASSUME NEW m \in {disk', M} \cup older'
      PROVE  m.log = walNo /\ Stored(sst', m) \subseteq hist
  <2>1. CASE m = M
        BY <1>3, <1>4, <1>5, <2>1
  <2>2. CASE m # M
    <3>1. m \in {disk} \cup older /\ m \in Known' \ {M}
          BY <1>3, <1>6, <2>2 DEF Known
    <3>2. Stored(sst', m) = Stored(sst, m)
          BY <1>1, <3>1, StoredSame DEF CompactionEnd
    <3>. QED BY <1>4, <3>1, <3>2
  <2>. QED BY <2>1, <2>2
<1>7. ASSUME NEW m \in {disk'} \cup older', NEW fr \in Prefixes(wal[walNo].tail)
      PROVE  MapOf(Stored(sst', m) \cup wal'[m.log].recs \cup UNION fr) = FoundWith(fr)
  <2>1. Covers(Stored(sst', m) \cup Durable(wal[walNo]), hist)
    <3>1. Covers(Stored(sst', m) \cup Durable(wal'[m.log]), hist')
          BY DEF Candidates, Inv, DurInv, CandidatesCovered
    <3>. QED BY <1>3, <1>5, <1>6, <3>1
  <2>2. Stored(sst', m) \in SUBSET hist /\ wal'[m.log] = wal[walNo]
        BY <1>3, <1>6
  <2>. QED BY <1>2, <2>1, <2>2, FoundIs
<1>8. Recovered = {FoundWith(fr) : fr \in Prefixes(wal[walNo].tail)}
      BY <1>2, Published DEF MapInv, PublishedMaps
<1>9. Recovered' \subseteq Recovered
  <2>1. \A m \in {disk'} \cup older' : \A fr \in Prefixes(wal'[m.log].tail) :
            MapOf(Stored(sst', m) \cup wal'[m.log].recs \cup UNION fr) \in Recovered
        BY <1>3, <1>6, <1>7, <1>8
  <2>. QED BY <2>1, RecoveredFrom
<1>10. Recovered \subseteq Recovered'
  <2>1. ASSUME NEW fr \in Prefixes(wal[walNo].tail) PROVE FoundWith(fr) \in Recovered'
    <3>1. disk'.log = walNo /\ wal' = wal
          BY <1>3, <1>6
    <3>2. MapOf(Stored(sst', disk') \cup wal'[disk'.log].recs \cup UNION fr) \in Recovered'
          BY <3>1, RecoveredHas
    <3>. QED BY <1>7, <3>2
  <2>. QED BY <1>8, <2>1
<1>11. Present' = Present /\ Present \in Recovered
      BY <1>2, <1>3, <1>5 DEF Present, MapInv, PresentRecovered
<1>12. LooseEmpty' /\ MemTableInLog'
      BY <1>2, <1>3 DEF MapInv, LooseEmpty, MemTableInLog
<1>13. StoredCommitted'
  <2>1. Candidates' \subseteq {disk', M} \cup older'
        BY <1>3 DEF Candidates
  <2>. QED BY <1>5, <1>6, <2>1 DEF StoredCommitted
<1>. QED
      BY <1>2, <1>3, <1>9, <1>10, <1>11, <1>12, <1>13 DEF MapInv, PresentRecovered

\* Steps that change neither a record nor a file.
LEMMA MapSame ==
    ASSUME MapInv, UNCHANGED <<mem, walNo, poisoned, man, sst, wal, disk, older, hist>>,
           Running' => Running, Publishing' => Publishing
    PROVE  MapInv' /\ Present' = Present /\ Recovered' = Recovered
<1>1. Present' = Present /\ Recovered' = Recovered
      BY DEF Present, Recovered
<1>2. Publishing' => Candidates' = Candidates
      BY DEF Candidates
<1>3. LooseEmpty' /\ MemTableInLog'
      BY DEF MapInv, LooseEmpty, MemTableInLog
<1>4. StoredCommitted'
      BY <1>2 DEF MapInv, StoredCommitted
<1>5. PresentRecovered'
      BY <1>1 DEF MapInv, PresentRecovered
<1>. QED
      BY <1>1, <1>3, <1>4, <1>5 DEF MapInv

-----------------------------------------------------------------------------
(***************************************************************************)
(* The step simulation.                                                    *)
(***************************************************************************)

\* What get() answers, key by key, is the map of the committed records and the
\* memtable.
ViewRead == View = IF Running THEN Present ELSE <<>>

LEMMA ViewIs == Inv => ViewRead
<1>. SUFFICES ASSUME Inv, Running PROVE View = Present
      BY DEF ViewRead, View
<1>. DEFINE now == nextSeq - 1
<1>1. ReadsNewest /\ now \in ReadPoints
      BY InvReads DEF ReadPoints
<1>2. TypeOK /\ nextSeq \in 1..(MaxSeq + 1)
      BY DEF Inv, StructInv, TypeOK
<1>3. \A r \in hist \cup mem : r.seq \in Int /\ r.seq <= now /\ r.seq <= MaxSeq
  <2>1. \A r \in hist \cup mem : r.seq \in 1..MaxSeq
        BY <1>2 DEF TypeOK, Record
  <2>2. \A r \in hist \cup mem : r.seq < nextSeq
        BY DEF Inv, ReadInv, SequencesBelow
  <2>. QED BY <1>2, <2>1, <2>2
<1>. HIDE DEF now
<1>4. ASSUME NEW k \in Keys
      PROVE  get(k, now) = SourceGet(hist \cup mem, k, MaxSeq)
  <2>1. get(k, now) = SourceGet(hist \cup mem, k, now)
        BY <1>1 DEF ReadsNewest
  <2>2. Visible(hist \cup mem, k, now) = Visible(hist \cup mem, k, MaxSeq)
        BY <1>3 DEF Visible
  <2>. QED BY <2>1, <2>2 DEF SourceGet
<1>. QED
      BY <1>4 DEF View, ReadMap, Present, MapOf, now

LEMMA ViewIsNext == Inv' => ViewRead'
BY ViewIs, PTL

\* A snapshot that is neither taken nor released shows the same map.
LEMMA FrozenSame ==
    ASSUME Inv, Inv', ~CompactWhenFailed, [Next]_vars, NEW h \in Handles, snap'[h] = snap[h]
    PROVE  Frozen'[h] = Frozen[h]
<1>1. ReadsNewest /\ ReadsNewest'
  <2>1. Inv' => ReadsNewest'
        BY InvReads, PTL
  <2>. QED BY <2>1, InvReads
<1>2. CASE snap[h] = NoSnap
      BY <1>2 DEF Frozen
<1>3. CASE snap[h] # NoSnap
  <2>1. \A k \in Keys : get(k, snap[h])' = get(k, snap[h])
        BY <1>1, <1>3, StableStep
  <2>2. ReadMap(snap[h])' = ReadMap(snap[h])
        BY <2>1 DEF ReadMap
  <2>3. Frozen[h] = ReadMap(snap[h]) /\ Frozen'[h] = ReadMap(snap[h])'
        BY <1>3 DEF Frozen
  <2>. QED BY <2>2, <2>3
<1>. QED
      BY <1>2, <1>3

LEMMA AllFrozenSame ==
    ASSUME Inv, Inv', ~CompactWhenFailed, [Next]_vars, snap' = snap
    PROVE  Frozen' = Frozen
<1>1. \A h \in Handles : Frozen'[h] = Frozen[h]
      BY FrozenSame
<1>2. /\ Frozen = [h \in Handles |-> Frozen[h]]
      /\ Frozen' = [h \in Handles |-> Frozen'[h]]
      BY DEF Frozen
<1>. QED
      BY <1>1, <1>2

\* No snapshot is left when the process is gone.
NoneFrozen == ~Running => Frozen = [h \in Handles |-> <<>>]

LEMMA FrozenGone == Inv => NoneFrozen
BY DEF Inv, StructInv, ClosedEmpty, Live, Frozen, NoneFrozen

LEMMA FrozenGoneNext == Inv' => NoneFrozen'
BY FrozenGone, PTL

LEMMA BatchApplied ==
    ASSUME NEW n \in 1..MaxBatch, NEW b \in [1..n -> Op]
    PROVE  KV!Apply(View, b, n) \in KV!AfterBatch
<1>. DEFINE With(i) == {KV!Apply(View, c, i) : c \in [1..i -> KV!Op]}
<1>1. KV!AfterBatch = UNION {With(i) : i \in 0..MaxBatch}
      BY DEF KV!AfterBatch
<1>2. KV!Apply(View, b, n) \in With(n)
      BY DEF KV!Op, Op
<1>3. n \in 0..MaxBatch
      BY BatchAssumption
<1>. HIDE DEF With
<1>. QED
      BY <1>1, <1>2, <1>3

LEMMA MapInit == Init => MapInv /\ KV!Init
<1>. SUFFICES ASSUME Init PROVE MapInv /\ KV!Init
      OBVIOUS
<1>1. /\ ~Running /\ ~Publishing /\ disk = NoManifest /\ older = {}
      /\ \A n \in Numbers : wal[n] = NoWal /\ sst[n] = {}
      BY DEF Init, Running, Publishing
<1>2. MapInv
      BY <1>1, NoWalShape
      DEF MapInv, LooseEmpty, StoredCommitted, MemTableInLog, PresentRecovered
<1>3. Stored(sst, NoManifest) = {} /\ NoManifest.log \in Numbers
      BY NoManifestType DEF Stored, Contents, NoManifest, allTableNumbers, Manifest
<1>4. MapOf({}) = [k \in Keys |-> Tombstone]
      BY DEF MapOf, ValueOf, SourceGet, Visible, Newest
<1>5. \A m \in {disk} \cup older : \A fr \in Prefixes(wal[m.log].tail) : Replay(m, fr) = {}
      BY <1>1, <1>3, NoWalShape, PrefixEnds DEF Replay
<1>6. \A map \in Recovered : map = MapOf({})
      BY <1>5, RecoveredIs
<1>7. MapOf({}) \in Recovered
  <2>1. wal[disk.log].tail \in Prefixes(wal[disk.log].tail)
        BY PrefixEnds
  <2>. QED BY <1>5, <2>1, RecoveredIs
<1>8. Recovered = {[k \in Keys |-> Tombstone]}
      BY <1>4, <1>6, <1>7
<1>9. View = <<>> /\ Frozen = [h \in Handles |-> <<>>]
      BY <1>1 DEF View, Frozen, Init
<1>10. Running = FALSE
      BY <1>1 DEF Running
<1>. QED
      BY <1>2, <1>8, <1>9, <1>10 DEF KV!Init, KV!Closed

\* Every step keeps MapInv and is a step of the abstract store, or none.
LEMMA MapStep ==
    ASSUME Journaled, ~CompactWhenFailed
    PROVE  Inv /\ Inv' /\ MapInv /\ [Next]_vars => MapInv' /\ [KV!Next]_(KV!vars)
<1>. SUFFICES ASSUME Inv, Inv', MapInv, [Next]_vars PROVE MapInv' /\ [KV!Next]_(KV!vars)
      OBVIOUS
<1>1. /\ View = IF Running THEN Present ELSE <<>>
      /\ View' = IF Running' THEN Present' ELSE <<>>
      BY ViewIs, ViewIsNext DEF ViewRead
<1>2. Running \in BOOLEAN /\ Running' \in BOOLEAN
      BY DEF Running
<1>3. CASE Open
  <2>1. MapInv' /\ Running' /\ Recovered' \subseteq Recovered
        BY <1>3, MapOpen
  <2>2. ~Running /\ snap' = snap
        BY <1>3 DEF Open, OpenCleanup, Restore, Running
  <2>3. View' \in Recovered'
        BY <1>1, <2>1 DEF MapInv, PresentRecovered
  <2>4. Frozen' = Frozen
        BY <2>2, AllFrozenSame
  <2>5. KV!Start
        BY <1>2, <2>1, <2>2, <2>3, <2>4 DEF KV!Start
  <2>. QED BY <2>1, <2>5 DEF KV!Next
<1>4. CASE OpenRefused \/ OpenTruncateFails \/ OpenNewWalFails \/ OpenUnlinkFails \/ Kill \/ PowerLoss
  <2>1. MapInv' /\ ~Running' /\ Recovered' \subseteq Recovered
        BY <1>4, MapOpenFails, MapCrash
  <2>2. Recovered' # {}
        BY RecoveredNonempty
  <2>3. Frozen' = [h \in Handles |-> <<>>]
        BY <2>1, FrozenGoneNext DEF NoneFrozen
  <2>4. KV!Stop
        BY <1>1, <1>2, <2>1, <2>2, <2>3 DEF KV!Stop, KV!Closed
  <2>. QED BY <2>1, <2>4 DEF KV!Next
<1>5. ASSUME NEW n \in 1..MaxBatch, NEW b \in [1..n -> Op], Write(b, n)
      PROVE  MapInv' /\ [KV!Next]_(KV!vars)
  <2>1. /\ MapInv' /\ Running /\ Running'
        /\ Present' = KV!Apply(Present, b, n) /\ Recovered' = {Present'}
        BY <1>5, MapWrite
  <2>2. snap' = snap
        BY <1>5 DEF Write
  <2>3. Frozen' = Frozen
        BY <2>2, AllFrozenSame
  <2>4. View' \in KV!AfterBatch /\ Recovered' = {View'}
        BY <1>1, <2>1, BatchApplied
  <2>5. KV!Commit
        BY <1>2, <2>1, <2>3, <2>4 DEF KV!Commit
  <2>. QED BY <2>1, <2>5 DEF KV!Next
<1>6. ASSUME NEW n \in 1..MaxBatch, NEW b \in [1..n -> Op], WriteFails(b, n)
      PROVE  MapInv' /\ [KV!Next]_(KV!vars)
  <2>1. /\ MapInv' /\ Running /\ Running' /\ Present' = Present
        /\ Recovered' \in {Recovered, Recovered \cup {KV!Apply(Present, b, n)}}
        BY <1>6, MapWriteFails
  <2>2. snap' = snap
        BY <1>6 DEF WriteFails
  <2>3. Frozen' = Frozen
        BY <2>2, AllFrozenSame
  <2>4. View' = View /\ View = Present /\ Running' = Running
        BY <1>1, <1>2, <2>1
  <2>5. CASE Recovered' = Recovered
        BY <2>1, <2>3, <2>4, <2>5 DEF KV!vars
  <2>6. CASE Recovered' = Recovered \cup {KV!Apply(Present, b, n)}
    <3>1. KV!Apply(Present, b, n) \in KV!AfterBatch
          BY <2>4, BatchApplied
    <3>2. KV!FailedWrite
          BY <2>1, <2>3, <2>4, <2>6, <3>1 DEF KV!FailedWrite
    <3>. QED BY <2>1, <3>2 DEF KV!Next
  <2>. QED BY <2>1, <2>5, <2>6
<1>7. ASSUME AnyFlush \/ \E l \in 0..(MaxLevel - 1) : Compact(l)
      PROVE  MapInv' /\ [KV!Next]_(KV!vars)
  <2>1. /\ MapInv' /\ Running /\ Running' /\ Present' = Present
        /\ Recovered' \subseteq Recovered /\ Present \in Recovered'
        BY <1>7, MapFlush, MapCompact
  <2>2. snap' = snap
        BY <1>7 DEF AnyFlush, Flush, FlushBuildFails, FlushSaveFails, FlushNewWalFails,
                    FlushUnlinkFails, Compact
  <2>3. Frozen' = Frozen
        BY <2>2, AllFrozenSame
  <2>4. View' = View /\ View = Present /\ Running' = Running
        BY <1>1, <1>2, <2>1
  <2>5. KV!Settle
        BY <2>1, <2>3, <2>4 DEF KV!Settle
  <2>. QED BY <2>1, <2>5 DEF KV!Next
<1>8. CASE WriteEmpty \/ (\E n \in 1..MaxBatch : WriteRejected(n)) \/ LoopDone \/ UNCHANGED vars
  <2>1. /\ UNCHANGED <<mem, walNo, poisoned, man, sst, wal, disk, older, hist, snap>>
        /\ Running' = Running /\ (Publishing' => Publishing)
        BY <1>8 DEF WriteEmpty, WriteRejected, LoopDone, Writing, vars, procVars, diskVars,
                    Running, Publishing
  <2>2. MapInv' /\ Present' = Present /\ Recovered' = Recovered
        BY <2>1, MapSame
  <2>3. Frozen' = Frozen
        BY <2>1, AllFrozenSame
  <2>4. View' = View
        BY <1>1, <2>1, <2>2
  <2>. QED BY <2>1, <2>2, <2>3, <2>4 DEF KV!vars
<1>9. ASSUME NEW h \in Handles, TakeSnapshot(h) \/ ReleaseSnapshot(h)
      PROVE  MapInv' /\ [KV!Next]_(KV!vars)
  <2>1. /\ UNCHANGED <<mem, walNo, poisoned, man, sst, wal, disk, older, hist, nextSeq>>
        /\ Running /\ Running' /\ (Publishing' => Publishing)
        BY <1>9 DEF TakeSnapshot, ReleaseSnapshot, diskVars, Running, Publishing
  <2>2. MapInv' /\ Present' = Present /\ Recovered' = Recovered
        BY <2>1, MapSame
  <2>3. View' = View /\ Running' = Running
        BY <1>1, <1>2, <2>1, <2>2
  <2>4. snap \in [Handles -> {NoSnap} \cup (0..MaxSeq)] /\ \A g \in Handles : g # h => snap'[g] = snap[g]
        BY <1>9 DEF TakeSnapshot, ReleaseSnapshot, Inv, StructInv, TypeOK
  <2>5. \A g \in Handles : g # h => Frozen'[g] = Frozen[g]
        BY <2>4, FrozenSame
  <2>6. /\ Frozen = [g \in Handles |-> Frozen[g]]
        /\ Frozen' = [g \in Handles |-> Frozen'[g]]
        BY DEF Frozen
  <2>7. CASE TakeSnapshot(h)
    <3>1. snap[h] = NoSnap /\ snap'[h] = nextSeq' - 1 /\ snap'[h] # NoSnap
      <4>1. nextSeq \in 1..(MaxSeq + 1)
            BY DEF Inv, StructInv, TypeOK
      <4>. QED BY <2>1, <2>4, <2>7, <4>1 DEF TakeSnapshot, NoSnap
    <3>2. Frozen[h] = <<>>
          BY <3>1 DEF Frozen
    <3>3. Frozen'[h] = View'
      <4>1. Frozen'[h] = ReadMap(snap[h])'
            BY <3>1 DEF Frozen
      <4>2. View' = ReadMap(nextSeq - 1)'
            BY <2>1 DEF View
      <4>. QED BY <3>1, <4>1, <4>2 DEF ReadMap
    <3>4. Frozen' = [Frozen EXCEPT ![h] = View]
          BY <2>3, <2>5, <2>6, <3>3
    <3>5. KV!Take(h)
          BY <2>1, <2>2, <2>3, <3>2, <3>4 DEF KV!Take, KV!Closed
    <3>. QED BY <2>2, <3>5 DEF KV!Next
  <2>8. CASE ReleaseSnapshot(h)
    <3>1. Frozen'[h] = <<>>
      <4>1. snap'[h] = NoSnap
            BY <2>4, <2>8 DEF ReleaseSnapshot
      <4>. QED BY <4>1 DEF Frozen
    <3>2. Frozen' = [Frozen EXCEPT ![h] = <<>>]
          BY <2>5, <2>6, <3>1
    <3>3. CASE Frozen[h] = <<>>
      <4>1. Frozen' = Frozen
            BY <2>5, <2>6, <3>1, <3>3
      <4>. QED BY <2>2, <2>3, <4>1 DEF KV!vars
    <3>4. CASE Frozen[h] # <<>>
      <4>1. KV!Release(h)
            BY <2>1, <2>2, <2>3, <3>2, <3>4 DEF KV!Release, KV!Closed
      <4>. QED BY <2>2, <4>1 DEF KV!Next
    <3>. QED BY <3>3, <3>4
  <2>. QED BY <1>9, <2>7, <2>8
<1>. QED
      BY <1>3, <1>4, <1>5, <1>6, <1>7, <1>8, <1>9 DEF Next, AnyWrite

-----------------------------------------------------------------------------
\* The engine implements the abstract store.  Whatever fails, and wherever the
\* power goes, an acknowledged batch is all that any later start can find; a
\* batch that failed is found whole or not at all; flushes and compactions
\* change nothing a client can see, now, through a snapshot or after a crash.
THEOREM EngineImplementsStore ==
    ASSUME Journaled, ~CompactWhenFailed
    PROVE  Spec => ImplementsKVStore
<1>1. Inv /\ MapInv /\ [Next]_vars => Inv' /\ MapInv' /\ [KV!Next]_(KV!vars)
      BY InvStep, MapStep
<1>. QED
      BY <1>1, InvInit, MapInit, PTL DEF Spec, ImplementsKVStore, KV!Spec

=============================================================================
