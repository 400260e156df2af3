---------------------------- MODULE MergePipeline ----------------------------
(***************************************************************************)
(* The pipeline a compaction and a scan push records through (src/src/     *)
(* utils.cpp and the slicing of src/src/DB.cpp), on SEQUENCES of records,  *)
(* the way the code has them.  A record is a key, a sequence number and a  *)
(* val, as in Versions; a source is a sequence sorted by (key, seq         *)
(* descending), which is the order of a memtable and of a table.           *)
(***************************************************************************)
EXTENDS Integers, Sequences

CONSTANTS
    Tombstone,    \* what a remove writes
    HeaderBytes,  \* bytes of an encoded record besides its value
    ValueBytes    \* bytes of a value

\* The elements of s at the positions I, in their order.
Selected(s, I) ==
    LET Upto[n \in 0..Len(s)] ==
            IF n = 0 THEN <<>>
            ELSE IF n \in I THEN Append(Upto[n - 1], s[n]) ELSE Upto[n - 1]
    IN  Upto[Len(s)]

\* The sum of a sequence of numbers.
Total(numbers) ==
    LET Upto[n \in 0..Len(numbers)] == IF n = 0 THEN 0 ELSE Upto[n - 1] + numbers[n]
    IN  Upto[Len(numbers)]

encodedRecordSize(r) == HeaderBytes + IF r.val = Tombstone THEN 0 ELSE ValueBytes

Bytes(recs) == Total([i \in DOMAIN recs |-> encodedRecordSize(recs[i])])

\* Bug: versions of one key leave the heap oldest first.
BeforeOldestFirst(x, y) == x.key < y.key \/ (x.key = y.key /\ x.seq < y.seq)

\* The order of the heap in mergeAll: x is taken out before y.
Before(x, y) == x.key < y.key \/ (x.key = y.key /\ x.seq > y.seq)

(***************************************************************************)
(* The top of the heap, when at gives the position of each source: one of  *)
(* the sources that are not exhausted, whose current record comes first.   *)
(* Copies of a record in several sources are taken in any order.           *)
(***************************************************************************)
Winner(sources, at) ==
    LET queue == {i \in DOMAIN sources : at[i] <= Len(sources[i])}
    IN  CHOOSE i \in queue :
            \A j \in queue : ~Before(sources[j][at[j]], sources[i][at[i]])

\* A turn of the loop in mergeAll: the winner's record is taken, and it advances.
Advance(sources, turn) ==
    LET winner == Winner(sources, turn.at)
    IN  [at |-> [turn.at EXCEPT ![winner] = @ + 1],
         result |-> Append(turn.result, sources[winner][turn.at[winner]])]

\* mergeAll: as many turns as there are records exhaust all sources.
mergeAll(sources) ==
    LET records == Total([i \in DOMAIN sources |-> Len(sources[i])])
        Turn[n \in 0..records] ==
            IF n = 0 THEN [at |-> [i \in DOMAIN sources |-> 1], result |-> <<>>]
                     ELSE Advance(sources, Turn[n - 1])
    IN  Turn[records].result

\* SnapshotIterator: the records of a source a read at readSeq may see.
SnapshotIterator(source, readSeq) ==
    Selected(source, {n \in DOMAIN source : source[n].seq <= readSeq})

\* std::ranges::unique by key: the first record of each run of equal keys.
FirstPerKey(recs) ==
    Selected(recs, {n \in DOMAIN recs : n > 1 => recs[n].key # recs[n - 1].key})

\* erase_if of the tombstones.
WithoutTombstones(recs) == Selected(recs, {n \in DOMAIN recs : recs[n].val # Tombstone})

\* Bug: tombstones go first, and uncover the versions they hide.
latestVisibleDropsFirst(recs) == FirstPerKey(WithoutTombstones(recs))

\* latestVisiblePerKey: the newest version of each key, unless it is a tombstone.
latestVisiblePerKey(recs) == WithoutTombstones(FirstPerKey(recs))

\* Bug: the first version of a key uses up the boundary, even above the oldest
\* snapshot.
retainFirstOnly(recs, oldest) ==
    Selected(recs, {n \in DOMAIN recs :
                        \/ recs[n].seq > oldest
                        \/ n > 1 => recs[n].key # recs[n - 1].key})

(***************************************************************************)
(* retainForCompaction, one pass: every version above the oldest snapshot, *)
(* and the first version of each key that is not above it.  kept[n] is     *)
(* keptSnapshotBoundary when the pass looks at record n: it is reset where *)
(* the key changes, and set by a record that is not above the snapshot.    *)
(***************************************************************************)
retainForCompaction(recs, oldest) ==
    LET kept[n \in 1..Len(recs)] ==
            /\ n > 1 /\ recs[n].key = recs[n - 1].key
            /\ recs[n - 1].seq <= oldest \/ kept[n - 1]
    IN  Selected(recs, {n \in DOMAIN recs : recs[n].seq > oldest \/ ~kept[n]})

(***************************************************************************)
(* writeCompactionOutput.  The slice begun at loop.begin ends with record  *)
(* n if it is over the threshold, unless the next record has the same key. *)
(***************************************************************************)
Cut(recs, threshold, loop, n) ==
    LET slice == SubSeq(recs, loop.begin, n)
    IN  IF Bytes(slice) > threshold /\ (n < Len(recs) => recs[n].key # recs[n + 1].key)
        THEN [output |-> Append(loop.output, slice), begin |-> n + 1]
        ELSE loop

writeCompactionOutput(recs, threshold) ==
    LET Loop[n \in 0..Len(recs)] ==
            IF n = 0 THEN [output |-> <<>>, begin |-> 1]
                     ELSE Cut(recs, threshold, Loop[n - 1], n)
        end == Loop[Len(recs)]
    IN  IF end.begin > Len(recs) THEN end.output
        ELSE Append(end.output, SubSeq(recs, end.begin, Len(recs)))

=============================================================================
