------------------------------- MODULE KVStore -------------------------------
(***************************************************************************)
(* What the engine promises its client, with no memtable, log, table or    *)
(* level in sight: a map from keys to values that batches change           *)
(* atomically, frozen copies of it, and, for every moment, the maps that   *)
(* the client may find if it has to start again now.                       *)
(***************************************************************************)
EXTENDS Integers, FiniteSetsExt

CONSTANTS
    Keys, Values,
    Nothing,    \* what a key that was never put, or was removed, maps to
    MaxBatch,   \* bound: operations in one batch
    Handles     \* the snapshots a client can hold

VARIABLES
    up,         \* the store is open
    view,       \* the map the client reads, Closed when the store is not open
    outcomes,   \* the maps that the next start may find
    frozen      \* the map of each snapshot, Closed for a handle not in use

vars == <<up, view, outcomes, frozen>>

Maps == [Keys -> Values \cup {Nothing}]
Closed == <<>>
Op == [key : Keys, val : Values \cup {Nothing}]

\* A batch applied in order: for each key its last operation counts.
Apply(map, b, n) ==
    [k \in Keys |-> LET ops == {i \in 1..n : b[i].key = k}
                    IN  IF ops = {} THEN map[k] ELSE b[Max(ops)].val]

\* The maps that one batch can make of the present one.
AfterBatch ==
    LET map == view
    IN  UNION {{Apply(map, b, n) : b \in [1..n -> Op]} : n \in 0..MaxBatch}

Init ==
    /\ up = FALSE
    /\ view = Closed
    /\ outcomes = {[k \in Keys |-> Nothing]}
    /\ frozen = [h \in Handles |-> Closed]

\* An acknowledged batch is all that any later start can find.
Commit ==
    /\ up
    /\ view' \in AfterBatch
    /\ outcomes' = {view'}
    /\ UNCHANGED <<up, frozen>>

\* A batch that failed is not visible; a later start finds all of it or none.
FailedWrite ==
    /\ up
    /\ UNCHANGED <<up, view, frozen>>
    /\ outcomes' \in {outcomes \cup {map} : map \in AfterBatch}

\* Work that the client does not see: fewer outcomes, always the present map.
Settle ==
    /\ up
    /\ outcomes' \subseteq outcomes /\ view \in outcomes'
    /\ UNCHANGED <<up, view, frozen>>

Take(h) ==
    /\ up /\ frozen[h] = Closed
    /\ frozen' = [frozen EXCEPT ![h] = view]
    /\ UNCHANGED <<up, view, outcomes>>

Release(h) ==
    /\ up /\ frozen[h] # Closed
    /\ frozen' = [frozen EXCEPT ![h] = Closed]
    /\ UNCHANGED <<up, view, outcomes>>

\* The process ends, or a start fails: some outcome remains.
Stop ==
    /\ outcomes' \subseteq outcomes /\ outcomes' # {}
    /\ up' = FALSE
    /\ view' = Closed
    /\ frozen' = [h \in Handles |-> Closed]

Start ==
    /\ ~up
    /\ outcomes' \subseteq outcomes
    /\ view' \in outcomes'
    /\ up' = TRUE
    /\ UNCHANGED frozen

Next ==
    \/ Settle \/ Stop \/ Start \/ Commit \/ FailedWrite
    \/ \E h \in Handles : Take(h) \/ Release(h)

Spec == Init /\ [][Next]_vars

=============================================================================
