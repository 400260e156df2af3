----------------------------- MODULE MCDataFiles -----------------------------
(***************************************************************************)
(* Tables of one to MaxRecords records for TLC, with keys from StoredKeys  *)
(* and tombstones, which are shorter than values and shift the blocks, in  *)
(* every combination.  Sequence numbers descend through the table, so that *)
(* every key order is a legal one.                                         *)
(***************************************************************************)
EXTENDS TableFile, ManifestFile

CONSTANTS StoredKeys, MaxRecords

MCTables ==
    UNION {{[i \in 1..n |-> [key |-> k[i], seq |-> MaxRecords + 1 - i, val |-> v[i]]] :
               k \in {f \in [1..n -> StoredKeys] : \A i \in 1..(n - 1) : f[i] <= f[i + 1]},
               v \in [1..n -> Values \cup {Tombstone}]} :
           n \in 1..MaxRecords}

\* MANIFESTs with no level, an empty level, and tables from and to empty keys.
MCManifestStates ==
    LET Table(lo, hi) == [number |-> 1, size |-> 2, minKey |-> lo, maxKey |-> hi]
        Manifest(levels) ==
            [levels |-> levels, logNumber |-> 3, nextNumber |-> 4, lastSeq |-> 5]
    IN  {Manifest(<<>>), Manifest(<<<<Table(0, 0)>>>>),
         Manifest(<<<<>>, <<Table(0, 1), Table(2, 2)>>>>)}

MCManifests == {saveManifest(m) : m \in MCManifestStates}

MCContents == {addRecordToFile(t) : t \in MCTables} \cup MCManifests

\* Keys 1 and 3 share positions with others, and key 2 has a zero half.
MCFirstHash == [k \in Keys |-> 3 * k]
MCSecondHash == [k \in Keys |-> (2 * k) % 4]

=============================================================================
