------------------------------ MODULE Versions ------------------------------
(***************************************************************************)
(* Versioned records, the data every part of the engine exchanges.         *)
(*                                                                         *)
(* A Record of the code (inc/utils.h) is a key, a sequence number, a type  *)
(* and a value.  Type and value are one field here: val is a member of     *)
(* Values, or Tombstone.  Keys are naturals, which keeps the order of the  *)
(* byte strings and nothing else.  A run of records that the code keeps    *)
(* sorted by (key ascending, seq descending) is the SET of its records: the *)
(* order makes the two determine each other, but for exact copies.         *)
(***************************************************************************)
EXTENDS Integers, FiniteSetsExt

CONSTANTS
    Keys,       \* the keys, ordered
    Values,     \* the values a put may write
    Tombstone,  \* what a remove writes
    MaxSeq      \* bound: sequence numbers are at most MaxSeq

ASSUME KeysAssumption == Keys \subseteq Nat
\* The length of a key has 32 bits: encoding a record throws for a longer one.
ASSUME FiniteKeysAssumption == IsFiniteSet(Keys)
ASSUME SeqAssumption == MaxSeq \in Nat

Record == [key : Keys, seq : 1..MaxSeq, val : Values \cup {Tombstone}]

(***************************************************************************)
(* The answer of a lookup that finds no version: Result::ABSENT.           *)
(***************************************************************************)
Absent == [seq |-> -1]

KeysOf(recs) == {r.key : r \in recs}

SeqsOf(recs) == {r.seq : r \in recs}

\* The versions of key k that a read at sequence s may return.
Visible(recs, k, s) == {r \in recs : r.key = k /\ r.seq <= s}

\* The newest of a set of versions, Absent when there is none.
Newest(recs) ==
    IF recs = {} THEN Absent
                 ELSE CHOOSE r \in recs : \A q \in recs : q.seq <= r.seq

(***************************************************************************)
(* One sorted source: the map order (key, seq descending) makes            *)
(* lower_bound land on the newest version not above readSeq, and the scan  *)
(* of an SSTable's block stops at the same record.                         *)
(***************************************************************************)
SourceGet(recs, k, s) == Newest(Visible(recs, k, s))

\* Bug: only the newest version of a key is kept, whatever the snapshots.
RetainKeepsOnlyNewest(recs, oldest) ==
    {r \in recs : \A q \in recs : q.key = r.key => q.seq <= r.seq}

\* Bug: tombstones are dropped while they still hide an older version.
RetainDropsTombstones(recs, oldest) ==
    {r \in recs : /\ r.val # Tombstone
                  /\ \/ r.seq > oldest
                     \/ \A q \in recs :
                            q.key = r.key /\ q.seq <= oldest => q.seq <= r.seq}

(***************************************************************************)
(* Compaction keeps every version above the oldest live snapshot, and of   *)
(* the others the newest of each key.  Tombstones are versions like any.   *)
(***************************************************************************)
retainForCompaction(recs, oldest) ==
    {r \in recs : \/ r.seq > oldest
                  \/ \A q \in recs :
                         q.key = r.key /\ q.seq <= oldest => q.seq <= r.seq}

-----------------------------------------------------------------------------
(***************************************************************************)
(* Key ranges of a non-empty run: TableMeta's minKey and maxKey are the    *)
(* keys of its first and last record.                                      *)
(***************************************************************************)
minKey(recs) == Min(KeysOf(recs))
maxKey(recs) == Max(KeysOf(recs))

rangesOverlap(recs, lo, hi) == lo <= maxKey(recs) /\ minKey(recs) <= hi

=============================================================================
