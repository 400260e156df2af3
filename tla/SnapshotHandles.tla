--------------------------- MODULE SnapshotHandles ---------------------------
(***************************************************************************)
(* The objects of class Snapshot (src/src/DB.cpp) and the multiset of      *)
(* sequence numbers that a DB keeps for them.  A handle refers to the      *)
(* multiset by a weak pointer: it may be moved into another handle, be     *)
(* assigned over, and outlive its DB.                                      *)
(*                                                                         *)
(* DBs are instances of class DB, each opened and destroyed at most once;  *)
(* reopening a directory makes the next one.                               *)
(***************************************************************************)
EXTENDS Integers, FiniteSets

CONSTANTS
    DBs,      \* the DB objects of a process
    Handles,  \* the places a Snapshot object may be in
    NoDB,     \* an empty or expired weak pointer
    MaxSeq    \* bound: sequence numbers are at most MaxSeq

ASSUME HandlesAssumption == IsFiniteSet(Handles)
ASSUME NoDBAssumption == NoDB \notin DBs
ASSUME SeqAssumption == MaxSeq \in Nat

VARIABLES
    open,     \* the DB objects that exist
    gone,     \* the DB objects that were destroyed
    nextSeq,  \* nextSeq_ of each DB
    active,   \* *activeSnapshotSequences_: how often it holds each number
    alive,    \* the Snapshot objects that exist
    owner,    \* activeSequences_: the DB a handle points at, or NoDB
    seq,      \* seq_
    horizon   \* history: the newest number a compaction has been told is the
              \* oldest that a snapshot may read at

vars == <<open, gone, nextSeq, active, alive, owner, seq, horizon>>

Seqs == 0..MaxSeq

Init ==
    /\ open = {} /\ gone = {}
    /\ nextSeq = [d \in DBs |-> 1]
    /\ active = [d \in DBs |-> [s \in Seqs |-> 0]]
    /\ alive = {}
    /\ owner = [h \in Handles |-> NoDB]
    /\ seq = [h \in Handles |-> 0]
    /\ horizon = [d \in DBs |-> 0]

-----------------------------------------------------------------------------
\* DB's constructor, and its destructor: the multiset goes with it.
OpenDB(d) ==
    /\ d \notin open \cup gone
    /\ open' = open \cup {d}
    /\ UNCHANGED <<gone, nextSeq, active, alive, owner, seq, horizon>>

CloseDB(d) ==
    /\ d \in open
    /\ open' = open \ {d} /\ gone' = gone \cup {d}
    /\ UNCHANGED <<nextSeq, active, alive, owner, seq, horizon>>

Write(d) ==
    /\ d \in open /\ nextSeq[d] <= MaxSeq
    /\ nextSeq' = [nextSeq EXCEPT ![d] = @ + 1]
    /\ UNCHANGED <<open, gone, active, alive, owner, seq, horizon>>

Registered(d) == {s \in Seqs : active[d][s] > 0}

\* The first element of the multiset, the last number used when it is empty.
IsSmallestActiveSnapshot(d, s) ==
    IF Registered(d) = {} THEN s = nextSeq[d] - 1
    ELSE s \in Registered(d) /\ \A t \in Registered(d) : s <= t

\* compactRange drops what no snapshot from s on can see.
Compact(d) ==
    /\ d \in open
    /\ \E s \in Seqs : /\ IsSmallestActiveSnapshot(d, s)
                       /\ horizon' = [horizon EXCEPT ![d] = s]
    /\ UNCHANGED <<open, gone, nextSeq, active, alive, owner, seq>>

\* DB::snapshot registers the last number used, once more if it is there.
TakeSnapshot(d, h) ==
    /\ d \in open /\ h \in Handles \ alive
    /\ active' = [active EXCEPT ![d][nextSeq[d] - 1] = @ + 1]
    /\ alive' = alive \cup {h}
    /\ owner' = [owner EXCEPT ![h] = d]
    /\ seq' = [seq EXCEPT ![h] = nextSeq[d] - 1]
    /\ UNCHANGED <<open, gone, nextSeq, horizon>>

\* Bug: every registration of the number goes, not one.
releaseAllEqual(h) ==
    IF owner[h] \in open THEN [active EXCEPT ![owner[h]][seq[h]] = 0] ELSE active

\* Snapshot::release: lock() fails when the DB is gone, and one registration of
\* the number is erased, if there is one.
release(h) ==
    IF owner[h] \in open /\ active[owner[h]][seq[h]] > 0
    THEN [active EXCEPT ![owner[h]][seq[h]] = @ - 1]
    ELSE active

\* ~Snapshot
Destroy(h) ==
    /\ h \in alive
    /\ active' = release(h)
    /\ alive' = alive \ {h}
    /\ owner' = [owner EXCEPT ![h] = NoDB]
    /\ UNCHANGED <<open, gone, nextSeq, seq, horizon>>

\* Snapshot(Snapshot&&): the source keeps its number and loses its pointer.
MoveConstruct(h, from) ==
    /\ from \in alive /\ h \in Handles \ alive
    /\ alive' = alive \cup {h}
    /\ owner' = [owner EXCEPT ![h] = owner[from], ![from] = NoDB]
    /\ seq' = [seq EXCEPT ![h] = seq[from]]
    /\ UNCHANGED <<open, gone, nextSeq, active, horizon>>

\* Bug: the pointer is copied, not moved.
AssignCopies(h, from) ==
    /\ h \in alive /\ from \in alive /\ h # from
    /\ active' = release(h)
    /\ owner' = [owner EXCEPT ![h] = owner[from]]
    /\ seq' = [seq EXCEPT ![h] = seq[from]]
    /\ UNCHANGED <<open, gone, nextSeq, alive, horizon>>

\* operator=(Snapshot&&): a handle assigned to itself stays as it is; otherwise
\* what it holds is released first.
MoveAssign(h, from) ==
    /\ h \in alive /\ from \in alive /\ h # from
    /\ active' = release(h)
    /\ owner' = [owner EXCEPT ![h] = owner[from], ![from] = NoDB]
    /\ seq' = [seq EXCEPT ![h] = seq[from]]
    /\ UNCHANGED <<open, gone, nextSeq, alive, horizon>>

Next ==
    \/ \E d \in DBs : OpenDB(d) \/ CloseDB(d) \/ Write(d) \/ Compact(d)
    \/ \E d \in DBs, h \in Handles : TakeSnapshot(d, h)
    \/ \E h \in Handles : Destroy(h)
    \/ \E h, from \in Handles : MoveConstruct(h, from) \/ MoveAssign(h, from)

Spec == Init /\ [][Next]_vars

-----------------------------------------------------------------------------
(***************************************************************************)
(* Properties.                                                             *)
(***************************************************************************)
TypeOK ==
    /\ open \subseteq DBs /\ gone \subseteq DBs
    /\ nextSeq \in [DBs -> 1..(MaxSeq + 1)]
    /\ active \in [DBs -> [Seqs -> Nat]]
    /\ alive \subseteq Handles
    /\ owner \in [Handles -> DBs \cup {NoDB}]
    /\ seq \in [Handles -> Seqs]
    /\ horizon \in [DBs -> Seqs]

\* The handles that pin number s of DB d.
Pins(d, s) == {h \in Handles : owner[h] = d /\ seq[h] = s}

\* A DB that exists holds each number exactly as often as there are handles for
\* it: however handles were moved, assigned over and destroyed, and whichever
\* of them belonged to a DB that is gone, none was released twice or forgotten.
RegistrationsMatchHandles ==
    \A d \in open, s \in Seqs : active[d][s] = Cardinality(Pins(d, s))

\* A compaction never drops versions that a live handle may still read: the
\* horizon of a DB is never above the number of a handle that points at it.
HandlesAboveHorizon ==
    \A h \in Handles : owner[h] \in open => seq[h] >= horizon[owner[h]]

=============================================================================
