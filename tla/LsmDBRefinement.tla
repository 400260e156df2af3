--------------------------- MODULE LsmDBRefinement ---------------------------
(***************************************************************************)
(* The engine implements KVStore: the map is what DB::get answers, and the *)
(* outcomes are what DB's constructor and DB::get would make of every      *)
(* directory that a crash or a power loss may leave at this moment.        *)
(***************************************************************************)
EXTENDS LsmDB

ValueOf(r) == IF r = Absent THEN Tombstone ELSE r.val

\* The map a set of records stands for: the newest version of each key.
MapOf(recs) == [k \in Keys |-> ValueOf(SourceGet(recs, k, MaxSeq))]

ReadMap(s) == [k \in Keys |-> ValueOf(get(k, s))]

Recovered ==
    UNION {{MapOf(Stored(sst, m) \cup wal[m.log].recs \cup UNION frames) :
               frames \in Prefixes(wal[m.log].tail)} : m \in {disk} \cup older}

\* What the client reads now, and through each snapshot it holds.
View == IF Running THEN ReadMap(nextSeq - 1) ELSE <<>>
Frozen == [h \in Handles |-> IF snap[h] = NoSnap THEN <<>> ELSE ReadMap(snap[h])]

KV == INSTANCE KVStore WITH
        Nothing <- Tombstone,
        up <- Running,
        view <- View,
        outcomes <- Recovered,
        frozen <- Frozen

\* The engine implements the abstract store: acknowledged batches are atomic
\* and final, failed ones are never half visible, snapshots never change.
ImplementsKVStore == KV!Spec

=============================================================================
