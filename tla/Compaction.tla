----------------------------- MODULE Compaction -----------------------------
(***************************************************************************)
(* The compaction policy of class DB: what maybeCompact decides to compact, *)
(* from the byte sizes of the levels, their budgets and the per-level      *)
(* cursor, and what the merge pipeline makes of the tables it picks.       *)
(*                                                                         *)
(* LsmDB has every I/O failure and lets any level be over its budget; this *)
(* module has the sizes and the order of records and tables, and asks      *)
(* whether the loop comes to an end and whether the pipeline computes what *)
(* LsmDB takes it to compute.  Of the failures it has the one that leaves  *)
(* records twice in what is published: a flush that fails behind its save, *)
(* any number of times.  A level is a SEQUENCE of tables, level 0 newest   *)
(* first, the others by minKey; a table is a sequence of records.  Numbers *)
(* only order level 0 and are left out.                                    *)
(***************************************************************************)
EXTENDS Versions, SequencesExt

CONSTANTS
    HeaderBytes,    \* bytes of an encoded record besides its value
    ValueBytes,     \* bytes of a value
    TableBytes,     \* bytes of a table's filter, index and footer
    SliceBytes,     \* compactionSliceBytes_
    BaseBudgets,    \* what compactionBaseThresholdBytes_ may be set to
    Width,          \* bound: uint64_t is modelled with Width bits
    L0Trigger,      \* level0CompactionThreshold_
    MaxLevel,       \* bound: the deepest level that is modelled
    MaxTrouble      \* bound: failed flushes and restarts, together

P == INSTANCE MergePipeline

\* Records that there can ever be: each version once, and a copy of it for each
\* flush that failed behind its save.
MostRecords == (MaxTrouble + 1) * MaxSeq

\* Bytes a level below 0 can ever hold: it has no more tables than there are keys.
MostBytes == MostRecords * (HeaderBytes + ValueBytes) + Cardinality(Keys) * TableBytes

\* What levelCompactionBudget returns for level l when the base is b.
Budget(b, l) == (b * 10^(l - 1)) % 2^Width

\* Level l takes everything there can be, whatever the base.
TakesAll(l) == \A b \in BaseBudgets : Budget(b, l) \in MostBytes..(2^Width - 1)

\* The first such level.
Sink == Min({l \in 1..MaxLevel : TakesAll(l)})

ASSUME LevelAssumption == MaxLevel \in Nat \ {0}
ASSUME BytesAssumption == {HeaderBytes, ValueBytes, TableBytes} \subseteq Nat
ASSUME TroubleAssumption == MaxTrouble \in Nat

\* Some budget is large enough for all bases, whether or not others wrap around.
\* Not an assumption on all instances: the constructor takes any base.
SomeLevelTakesAll == \E l \in 1..(MaxLevel - 1) : TakesAll(l)

VARIABLES
    pc,       \* "closed", "idle", "loop" in maybeCompact, "compact" in compactRange
    mem,      \* activeMemTable_, in its order
    levels,   \* manifest_->levels_
    job,      \* the inputs of the compactRange that is running
    cursors,  \* compactionCursors_, the maxKey of the last table picked
    nextSeq,  \* nextSeq_
    base,     \* compactionBaseThresholdBytes_
    failed,   \* writeFailed_: flush() threw behind its save
    trouble   \* failed flushes and restarts so far

vars == <<pc, mem, levels, job, cursors, nextSeq, base, failed, trouble>>

NoCursor == -1
NoJob == [level |-> -1]
NoBase == 0  \* while no DB is open

-----------------------------------------------------------------------------
\* The order of a memtable's map, Key::operator<.
KeyLess(x, y) == x.key < y.key \/ (x.key = y.key /\ x.seq > y.seq)

minKeyOf(t) == t[1].key
maxKeyOf(t) == t[Len(t)].key

tableSize(t) == TableBytes + P!Bytes(t)

levelSizeBytes(l) == P!Total([i \in DOMAIN levels[l] |-> tableSize(levels[l][i])])

\* Bug: every level has the budget of level 1.
levelBudgetFlat(l) == base

levelCompactionBudget(l) == Budget(base, l)

overBudget == {l \in 1..MaxLevel : levelCompactionBudget(l) < levelSizeBytes(l)}

\* The tables of level l whose range meets lo..hi, in their order.
Overlapping(l, lo, hi) ==
    P!Selected(levels[l], {i \in DOMAIN levels[l] :
                               lo <= maxKeyOf(levels[l][i]) /\ minKeyOf(levels[l][i]) <= hi})

\* The first table behind the cursor, the first of all when there is none.
pickTable(l) ==
    LET after == {i \in DOMAIN levels[l] : minKeyOf(levels[l][i]) > cursors[l]}
    IN  IF cursors[l] = NoCursor \/ after = {} THEN 1 ELSE Min(after)

\* Bug: what is compacted stays in the level it came from.
TargetSame(l) == l

\* The level compactRange writes to.  The last level that is modelled stands for
\* all that follow it; DepthBounded says when none of them is used.
Target(l) == Min({l + 1, MaxLevel})

(***************************************************************************)
(* compactLevel selects its inputs: selectLevelZeroCompactionTables takes  *)
(* all of level 0 and what overlaps its combined range in level 1,         *)
(* selectHigherLevelCompactionTables the table at the cursor, which moves, *)
(* and what overlaps that table in the next level.  It returns at once     *)
(* when the level is empty.                                                *)
(***************************************************************************)
compactLevel(l) ==
    LET tables == IF l = 0 THEN levels[0] ELSE <<levels[l][pickTable(l)]>>
        lo == Min({minKeyOf(tables[i]) : i \in DOMAIN tables})
        hi == Max({maxKeyOf(tables[i]) : i \in DOMAIN tables})
    IN  /\ levels[l] # <<>>
        /\ job' = [level |-> l, tables |-> tables, back |-> pc,
                   below |-> IF l = MaxLevel THEN <<>> ELSE Overlapping(l + 1, lo, hi)]
        /\ cursors' = IF l = 0 THEN cursors ELSE [cursors EXCEPT ![l] = hi]
        /\ pc' = "compact"
        /\ UNCHANGED <<mem, levels, nextSeq, base, failed, trouble>>

\* The records compactRange writes, as slices, when oldest is what
\* smallestActiveSnapshot returns.
Output(oldest) ==
    P!writeCompactionOutput(
        P!retainForCompaction(P!mergeAll(job.tables \o job.below), oldest), SliceBytes)

Without(level, gone) ==
    P!Selected(level, {i \in DOMAIN level : level[i] \notin ToSet(gone)})

\* addTable for a level below 0: before the first table with no smaller minKey.
InsertTable(level, t) ==
    LET position == Min({i \in 1..(Len(level) + 1) :
                             i <= Len(level) => minKeyOf(level[i]) >= minKeyOf(t)})
    IN  InsertAt(level, position, t)

replaceTables(outputs) ==
    LET target == Target(job.level)
        rest == [levels EXCEPT ![job.level] = Without(@, job.tables)]
        kept == [rest EXCEPT ![target] = Without(@, job.below)]
        Added[n \in 0..Len(outputs)] ==
            IF n = 0 THEN kept[target] ELSE InsertTable(Added[n - 1], outputs[n])
    IN  [kept EXCEPT ![target] = Added[Len(outputs)]]

\* The oldest live snapshot may be of any sequence number handed out so far;
\* without one it is the last of them.
ReadPoints == 0..(nextSeq - 1)

compactRange ==
    /\ pc = "compact"
    /\ \E oldest \in ReadPoints : levels' = replaceTables(Output(oldest))
    /\ pc' = job.back
    /\ job' = NoJob
    /\ UNCHANGED <<mem, cursors, nextSeq, base, failed, trouble>>

\* The memtable and every table, in the order scan opens them.
Sources ==
    LET Upto[l \in 0..(MaxLevel + 1)] ==
            IF l = 0 THEN <<mem>> ELSE Upto[l - 1] \o levels[l - 1]
    IN  Upto[MaxLevel + 1]

\* scan of all keys: a merge of snapshot iterators, then the newest per key.
scan(readSeq) ==
    LET sources == Sources
    IN  P!latestVisiblePerKey(
            P!mergeAll([i \in DOMAIN sources |-> P!SnapshotIterator(sources[i], readSeq)]))

-----------------------------------------------------------------------------
Init ==
    /\ pc = "closed" /\ mem = <<>>
    /\ job = NoJob
    /\ levels = [l \in 0..MaxLevel |-> <<>>]
    /\ cursors = [l \in 1..MaxLevel |-> NoCursor]
    /\ nextSeq = 1 /\ failed = FALSE
    /\ base = NoBase /\ trouble = 0

\* The directory is opened, with any base budget the client likes.
Open ==
    /\ pc = "closed" /\ pc' = "idle"
    /\ base' \in BaseBudgets
    /\ UNCHANGED <<mem, levels, job, cursors, nextSeq, failed, trouble>>

\* The process ends.  The WAL restores the memtable, unless flush() has saved
\* a MANIFEST that names the next WAL; cursors are not stored anywhere.
Kill ==
    /\ pc # "closed" /\ pc' = "closed"
    /\ trouble < MaxTrouble /\ trouble' = trouble + 1
    /\ mem' = IF failed THEN <<>> ELSE mem
    /\ failed' = FALSE
    /\ cursors' = [l \in 1..MaxLevel |-> NoCursor]
    /\ base' = NoBase /\ job' = NoJob
    /\ UNCHANGED <<levels, nextSeq>>

Write(k, v) ==
    /\ pc = "idle" /\ ~failed /\ nextSeq <= MaxSeq
    /\ LET r == [key |-> k, seq |-> nextSeq, val |-> v]
           position == Min({i \in 1..(Len(mem) + 1) : i <= Len(mem) => KeyLess(r, mem[i])})
       IN  mem' = InsertAt(mem, position, r)
    /\ nextSeq' = nextSeq + 1
    /\ UNCHANGED <<pc, levels, job, cursors, base, failed, trouble>>

\* flush(): the memtable becomes the newest table of level 0.
Flush ==
    /\ pc = "idle" /\ mem # <<>>
    /\ levels' = [levels EXCEPT ![0] = <<mem>> \o @]
    /\ mem' = <<>> /\ pc' = "loop"
    /\ UNCHANGED <<job, cursors, nextSeq, base, failed, trouble>>

\* The table is listed and saved, but the next WAL cannot be created: the
\* memtable stays, and each further flush() writes its records once more.
FlushNewWalFails ==
    /\ pc = "idle" /\ mem # <<>>
    /\ trouble < MaxTrouble /\ trouble' = trouble + 1
    /\ levels' = [levels EXCEPT ![0] = <<mem>> \o @]
    /\ failed' = TRUE
    /\ UNCHANGED <<pc, mem, job, cursors, nextSeq, base>>

\* compact(), whether or not level 0 has reached its trigger.
Compact == pc = "idle" /\ compactLevel(0)

(***************************************************************************)
(* The loop in maybeCompact: level 0 while it has too many tables, then    *)
(* the first level that is over its budget, until there is none.           *)
(***************************************************************************)
LoopLevelZero == pc = "loop" /\ Len(levels[0]) > L0Trigger /\ compactLevel(0)

LoopOverBudget ==
    /\ pc = "loop" /\ Len(levels[0]) <= L0Trigger
    /\ overBudget # {} /\ compactLevel(Min(overBudget))

LoopDone ==
    /\ pc = "loop" /\ Len(levels[0]) <= L0Trigger
    /\ overBudget = {} /\ pc' = "idle"
    /\ UNCHANGED <<mem, levels, job, cursors, nextSeq, base, failed, trouble>>

Next ==
    \/ Open \/ Kill
    \/ \E k \in Keys, v \in Values \cup {Tombstone} : Write(k, v)
    \/ Flush \/ FlushNewWalFails
    \/ Compact \/ compactRange
    \/ LoopLevelZero \/ LoopOverBudget \/ LoopDone

(***************************************************************************)
(* Compaction runs on the thread that called flush() or compact(), and     *)
(* waits for nothing: while the process lives, its next step comes.  Every *)
(* such step changes pc, and one of them is enabled in both phases.        *)
(***************************************************************************)
Compacting == pc \in {"loop", "compact"}

Fairness == WF_pc(Compacting /\ pc' \in {"idle", "loop", "compact"})

Spec == Init /\ [][Next]_vars /\ Fairness

-----------------------------------------------------------------------------
(***************************************************************************)
(* Properties.                                                             *)
(***************************************************************************)
\* Every table is non-empty and sorted by (key, seq descending), and the tables
\* of a level below 0 are in the order of disjoint ranges: what the merge, the
\* binary searches of get and addTable's overlap check all take for granted.
LevelsSorted ==
    /\ \A l \in 0..MaxLevel : \A i \in DOMAIN levels[l] :
           /\ levels[l][i] # <<>>
           /\ \A j \in 1..(Len(levels[l][i]) - 1) : ~KeyLess(levels[l][i][j + 1], levels[l][i][j])
    /\ \A l \in 1..MaxLevel : \A i \in 1..(Len(levels[l]) - 1) :
           maxKeyOf(levels[l][i]) < minKeyOf(levels[l][i + 1])

\* For every compaction, the passes over sorted sequences keep the records that
\* the set retainForCompaction of Versions keeps, which is what LsmDB and its
\* proofs reason about, and no cut between slices separates versions of a key.
CompactionMatchesSets ==
    pc = "compact" =>
        LET inputs == UNION {ToSet(t) : t \in ToSet(job.tables) \cup ToSet(job.below)}
        IN  \A oldest \in ReadPoints :
                LET output == Output(oldest)
                IN  /\ UNION {ToSet(t) : t \in ToSet(output)}
                           = retainForCompaction(inputs, oldest)
                    /\ \A i, j \in DOMAIN output : i < j =>
                           maxKeyOf(output[i]) < minKeyOf(output[j])

\* A scan of everything returns for each key the newest version at or below the
\* read point, drops the key when that version is a tombstone, and has the keys
\* in ascending order, once each.
ScanMatchesSets ==
    pc = "idle" => \A s \in ReadPoints :
        LET found == scan(s)
            tables == UNION {ToSet(levels[l]) : l \in 0..MaxLevel}
            stored == ToSet(mem) \cup UNION {ToSet(t) : t \in tables}
            newest == {SourceGet(stored, k, s) : k \in KeysOf(stored)} \ {Absent}
        IN  /\ ToSet(found) = {r \in newest : r.val # Tombstone}
            /\ \A i, j \in DOMAIN found : i < j => found[i].key < found[j].key

\* No table ever lies below the first level that takes everything, whichever base
\* the directory is opened with and however often a failed flush has copied the
\* memtable: a budget above it that wrapped around, and is smaller than the one of
\* the level before, only moves tables on, and the budgets below it, small or
\* zero, never decide anything.  Where SomeLevelTakesAll.
DepthBounded == \A l \in 1..MaxLevel : l > Sink => levels[l] = <<>>

\* maybeCompact comes to an end: flush() returns, whatever the directory holds
\* and whichever budget it was opened with, where SomeLevelTakesAll.
LoopEnds == Compacting ~> ~Compacting

=============================================================================
