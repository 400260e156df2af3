------------------------ MODULE SnapshotHandlesProofs ------------------------
(***************************************************************************)
(* Proofs about SnapshotHandles, for every number of DB objects, handles   *)
(* and sequence numbers: a registration is released exactly once, and no   *)
(* compaction passes a live handle.                                        *)
(***************************************************************************)
EXTENDS SnapshotHandles, FiniteSetTheorems, TLAPS

\* Destroyed handles point nowhere, and no handle points at a DB object that
\* has yet to be constructed.
OwnersKnown ==
    /\ \A h \in Handles : owner[h] \in open \cup gone \cup {NoDB}
    /\ \A h \in Handles \ alive : owner[h] = NoDB
    /\ open \cap gone = {}

\* RegistrationsMatchHandles, also of the DB objects yet to be constructed.
Matching ==
    \A d \in DBs \ gone, s \in Seqs : active[d][s] = Cardinality(Pins(d, s))

\* Registered numbers, and what compactions were told, have been handed out.
NumbersUsed ==
    \A d \in DBs : /\ horizon[d] < nextSeq[d]
                   /\ \A s \in Seqs : active[d][s] > 0 => s < nextSeq[d]

HandlesInv == TypeOK /\ OwnersKnown /\ Matching /\ NumbersUsed /\ HandlesAboveHorizon

-----------------------------------------------------------------------------
\* Pinning handles can be counted.
LEMMA PinsFinite ==
    ASSUME NEW d, NEW s
    PROVE  /\ Pins(d, s) \subseteq Handles
           /\ IsFiniteSet(Pins(d, s))
           /\ Cardinality(Pins(d, s)) \in Nat
BY HandlesAssumption, FS_Subset, FS_CardinalityType DEF Pins

\* Counting with one element in another's place.
LEMMA CardSwapped ==
    ASSUME NEW S, IsFiniteSet(S), NEW x \in S, NEW y, y \notin S
    PROVE  Cardinality((S \ {x}) \cup {y}) = Cardinality(S)
<1>1. /\ IsFiniteSet(S \ {x})
      /\ Cardinality(S \ {x}) = Cardinality(S) - 1
      /\ Cardinality(S) \in Nat
  BY FS_RemoveElement, FS_CardinalityType
<1>2. Cardinality((S \ {x}) \cup {y}) = Cardinality(S \ {x}) + 1
  BY <1>1, FS_AddElement
<1> QED BY <1>1, <1>2

\* release() takes a handle out of the counts of a DB that is not gone.
LEMMA ReleaseCounts ==
    ASSUME HandlesInv, NEW h \in Handles, NEW d \in DBs \ gone, NEW s \in Seqs
    PROVE  release(h)[d][s] = Cardinality(Pins(d, s) \ {h})
<1> USE DEF HandlesInv
<1>1. active[d][s] = Cardinality(Pins(d, s)) /\ active[d][s] \in Nat
  BY DEF Matching, TypeOK
<1>2. CASE h \in Pins(d, s)
  <2>1. owner[h] = d /\ seq[h] = s /\ d \in open
    BY <1>2, NoDBAssumption DEF Pins, OwnersKnown
  <2>2. Cardinality(Pins(d, s) \ {h}) = active[d][s] - 1
    BY <1>1, <1>2, PinsFinite, FS_RemoveElement
  <2>3. active[d][s] > 0
    BY <1>1, <1>2, PinsFinite, FS_EmptySet
  <2> QED BY <2>1, <2>2, <2>3 DEF release, TypeOK
<1>3. CASE h \notin Pins(d, s)
  <2>1. ~(owner[h] = d /\ seq[h] = s)
    BY <1>3 DEF Pins
  <2>2. Cardinality(Pins(d, s) \ {h}) = active[d][s]
    BY <1>1, <1>3, PinsFinite, FS_RemoveElement
  <2>3. release(h)[d][s] = active[d][s]
    BY <2>1 DEF release, TypeOK
  <2> QED BY <2>2, <2>3
<1> QED BY <1>2, <1>3

\* release() keeps the type and registers nothing.
LEMMA ReleaseType ==
    ASSUME TypeOK, NEW h \in Handles
    PROVE  /\ release(h) \in [DBs -> [Seqs -> Nat]]
           /\ \A d \in DBs, s \in Seqs : release(h)[d][s] > 0 => active[d][s] > 0
<1>1. CASE owner[h] \in open /\ active[owner[h]][seq[h]] > 0
  <2>1. owner[h] \in DBs /\ seq[h] \in Seqs /\ active[owner[h]][seq[h]] - 1 \in Nat
    BY <1>1 DEF TypeOK
  <2> QED BY <1>1, <2>1 DEF release, TypeOK
<1>2. CASE ~(owner[h] \in open /\ active[owner[h]][seq[h]] > 0)
  BY <1>2 DEF release, TypeOK
<1> QED BY <1>1, <1>2

-----------------------------------------------------------------------------
LEMMA HandlesInit == Init => HandlesInv
<1> SUFFICES ASSUME Init PROVE HandlesInv
  OBVIOUS
<1>1. TypeOK
  BY SeqAssumption DEF Init, TypeOK, Seqs
<1>2. \A d \in DBs, s \in Seqs : Pins(d, s) = {}
  BY NoDBAssumption DEF Init, Pins
<1>3. Matching
  BY <1>2, FS_EmptySet DEF Init, Matching
<1> QED
  BY <1>1, <1>3, SeqAssumption, NoDBAssumption
     DEF Init, HandlesInv, OwnersKnown, NumbersUsed, HandlesAboveHorizon, Seqs

\* The steps that touch no handle.
LEMMA DBSteps ==
    ASSUME HandlesInv, NEW d \in DBs, OpenDB(d) \/ CloseDB(d) \/ Write(d)
    PROVE  HandlesInv'
<1> USE DEF HandlesInv
<1>1. UNCHANGED <<active, alive, owner, seq, horizon>>
  BY DEF OpenDB, CloseDB, Write
<1>2. TypeOK'
  BY SeqAssumption DEF OpenDB, CloseDB, Write, TypeOK
<1>3. OwnersKnown'
  BY <1>1 DEF OpenDB, CloseDB, Write, OwnersKnown
<1>4. Matching'
  <2>1. DBs \ gone' \subseteq DBs \ gone
    BY DEF OpenDB, CloseDB, Write
  <2>2. \A e, s : Pins(e, s)' = Pins(e, s)
    BY <1>1 DEF Pins
  <2> QED BY <1>1, <2>1, <2>2 DEF Matching
<1>5. NumbersUsed'
  <2>1. \A e \in DBs : nextSeq[e] \in Int /\ nextSeq'[e] \in Int /\ nextSeq[e] <= nextSeq'[e]
    BY SeqAssumption DEF OpenDB, CloseDB, Write, TypeOK
  <2>2. /\ \A e \in DBs : horizon[e] \in Int
        /\ \A e \in DBs, s \in Seqs : s \in Int
    BY SeqAssumption DEF TypeOK, Seqs
  <2> QED BY <1>1, <2>1, <2>2 DEF NumbersUsed
<1>6. HandlesAboveHorizon'
  <2>1. \A h \in Handles : owner[h] \in open' => owner[h] \in open
    BY NoDBAssumption DEF OpenDB, CloseDB, Write, OwnersKnown
  <2> QED BY <1>1, <2>1 DEF HandlesAboveHorizon
<1> QED BY <1>2, <1>3, <1>4, <1>5, <1>6

\* Compaction takes the oldest registered number: no live handle is below it.
LEMMA CompactStep ==
    ASSUME HandlesInv, NEW d \in DBs, Compact(d)
    PROVE  HandlesInv'
<1> USE DEF HandlesInv
<1>1. PICK s \in Seqs : IsSmallestActiveSnapshot(d, s) /\ horizon' = [horizon EXCEPT ![d] = s]
  BY DEF Compact
<1>2. UNCHANGED <<open, gone, nextSeq, active, alive, owner, seq>> /\ d \in open
  BY DEF Compact
<1>3. TypeOK'
  BY <1>1, <1>2 DEF TypeOK
<1>4. OwnersKnown' /\ Matching'
  BY <1>2 DEF OwnersKnown, Matching, Pins
<1>5. s < nextSeq[d]
  BY <1>1, SeqAssumption DEF IsSmallestActiveSnapshot, Registered, NumbersUsed, TypeOK, Seqs
<1>6. NumbersUsed'
  BY <1>1, <1>2, <1>5 DEF NumbersUsed, TypeOK
<1>7. ASSUME NEW h \in Handles, owner[h] = d PROVE seq[h] >= s
  <2>1. seq[h] \in Seqs /\ h \in Pins(d, seq[h])
    BY <1>7 DEF TypeOK, Pins
  <2>2. active[d][seq[h]] = Cardinality(Pins(d, seq[h])) /\ active[d][seq[h]] \in Nat
    BY <1>2, <2>1 DEF Matching, OwnersKnown, TypeOK
  <2>3. active[d][seq[h]] > 0
    BY <2>1, <2>2, PinsFinite, FS_EmptySet
  <2>4. seq[h] \in Registered(d)
    BY <2>1, <2>3 DEF Registered
  <2> QED BY <1>1, <2>1, <2>4, SeqAssumption DEF IsSmallestActiveSnapshot, Seqs
<1>8. HandlesAboveHorizon'
  BY <1>1, <1>2, <1>7 DEF HandlesAboveHorizon, TypeOK
<1> QED BY <1>3, <1>4, <1>6, <1>8

\* A new handle takes an unused place, which pins nothing.
LEMMA TakeStep ==
    ASSUME HandlesInv, NEW d \in DBs, NEW h \in Handles, TakeSnapshot(d, h)
    PROVE  HandlesInv'
<1> USE DEF HandlesInv
<1> DEFINE n == nextSeq[d] - 1
<1>1. n \in Seqs /\ n < nextSeq[d] /\ d \in open
  BY SeqAssumption DEF TakeSnapshot, TypeOK, Seqs
<1>2. TypeOK'
  BY <1>1 DEF TakeSnapshot, TypeOK
<1>3. OwnersKnown'
  BY DEF TakeSnapshot, OwnersKnown, TypeOK
<1>4. ASSUME NEW e \in DBs \ gone', NEW s \in Seqs
      PROVE  active'[e][s] = Cardinality(Pins(e, s)')
  <2>1. e \in DBs \ gone /\ active[e][s] = Cardinality(Pins(e, s))
    BY <1>4 DEF TakeSnapshot, Matching
  <2>2. h \notin Pins(e, s)
    BY <2>1, NoDBAssumption DEF TakeSnapshot, OwnersKnown, Pins
  <2>3. CASE e = d /\ s = n
    <3>1. Pins(e, s)' = Pins(e, s) \cup {h}
      BY <2>3 DEF TakeSnapshot, Pins, TypeOK
    <3>2. Cardinality(Pins(e, s)') = Cardinality(Pins(e, s)) + 1
      BY <2>2, <3>1, PinsFinite, FS_AddElement
    <3> QED BY <1>1, <2>1, <2>3, <3>2 DEF TakeSnapshot, TypeOK
  <2>4. CASE ~(e = d /\ s = n)
    <3>1. Pins(e, s)' = Pins(e, s)
      BY <2>2, <2>4 DEF TakeSnapshot, Pins, TypeOK
    <3>2. active'[e][s] = active[e][s]
      BY <1>1, <2>1, <2>4 DEF TakeSnapshot, TypeOK
    <3> QED BY <2>1, <3>1, <3>2
  <2> QED BY <2>3, <2>4
<1>5. NumbersUsed'
  BY <1>1 DEF TakeSnapshot, NumbersUsed, TypeOK
<1>6. HandlesAboveHorizon'
  BY <1>1, SeqAssumption DEF TakeSnapshot, HandlesAboveHorizon, NumbersUsed, TypeOK, Seqs
<1> QED BY <1>2, <1>3, <1>4, <1>5, <1>6 DEF Matching

\* A destroyed handle is taken out of the counts.
LEMMA DestroyStep ==
    ASSUME HandlesInv, NEW h \in Handles, Destroy(h)
    PROVE  HandlesInv'
<1> USE DEF HandlesInv
<1>1. TypeOK'
  BY ReleaseType DEF Destroy, TypeOK
<1>2. OwnersKnown'
  BY DEF Destroy, OwnersKnown, TypeOK
<1>3. ASSUME NEW d \in DBs \ gone', NEW s \in Seqs
      PROVE  active'[d][s] = Cardinality(Pins(d, s)')
  <2>1. Pins(d, s)' = Pins(d, s) \ {h}
    BY <1>3, NoDBAssumption DEF Destroy, Pins, TypeOK
  <2> QED BY <1>3, <2>1, ReleaseCounts DEF Destroy
<1>4. NumbersUsed'
  BY ReleaseType DEF Destroy, NumbersUsed
<1>5. HandlesAboveHorizon'
  BY NoDBAssumption DEF Destroy, HandlesAboveHorizon, TypeOK
<1> QED BY <1>1, <1>2, <1>3, <1>4, <1>5 DEF Matching

\* After a move, h pins what from has pinned, in the place of it; what h itself
\* has pinned before was released or was nothing.
LEMMA MovedPins ==
    ASSUME HandlesInv, NEW h \in Handles, NEW from \in Handles, h # from,
           owner' = [owner EXCEPT ![h] = owner[from], ![from] = NoDB],
           seq' = [seq EXCEPT ![h] = seq[from]],
           NEW d \in DBs, NEW s \in Seqs
    PROVE  Cardinality(Pins(d, s)') = Cardinality(Pins(d, s) \ {h})
<1> USE DEF HandlesInv
<1> DEFINE Q == Pins(d, s) \ {h}
<1>1. IsFiniteSet(Q) /\ h \notin Q
  BY PinsFinite, FS_RemoveElement
<1>2. CASE from \in Q
  <2>1. Pins(d, s)' = (Q \ {from}) \cup {h}
    BY <1>2, NoDBAssumption DEF Pins, TypeOK
  <2>2. Cardinality((Q \ {from}) \cup {h}) = Cardinality(Q)
    <3> HIDE DEF Q
    <3> QED BY <1>1, <1>2, CardSwapped
  <2> QED BY <2>1, <2>2
<1>3. CASE from \notin Q
  <2>1. Pins(d, s)' = Q
    BY <1>3, NoDBAssumption DEF Pins, TypeOK
  <2> QED BY <2>1
<1> QED BY <1>2, <1>3

\* Both moves leave one handle for each registration.
LEMMA MoveSteps ==
    ASSUME HandlesInv, NEW h \in Handles, NEW from \in Handles,
           MoveConstruct(h, from) \/ MoveAssign(h, from)
    PROVE  HandlesInv'
<1> USE DEF HandlesInv
<1>1. /\ h # from /\ from \in alive /\ h \in alive'
      /\ owner' = [owner EXCEPT ![h] = owner[from], ![from] = NoDB]
      /\ seq' = [seq EXCEPT ![h] = seq[from]]
      /\ alive' = alive \cup {h}
      /\ UNCHANGED <<open, gone, nextSeq, horizon>>
  BY DEF MoveConstruct, MoveAssign, TypeOK
<1>2. (active' = active /\ owner[h] = NoDB) \/ active' = release(h)
  BY DEF MoveConstruct, MoveAssign, OwnersKnown
<1>3. TypeOK'
  BY <1>1, <1>2, ReleaseType DEF TypeOK
<1>4. OwnersKnown'
  BY <1>1 DEF OwnersKnown, TypeOK
<1>5. ASSUME NEW d \in DBs \ gone', NEW s \in Seqs
      PROVE  active'[d][s] = Cardinality(Pins(d, s)')
  <2>1. Cardinality(Pins(d, s)') = Cardinality(Pins(d, s) \ {h})
    BY <1>1, <1>5, MovedPins
  <2>2. CASE active' = release(h)
    BY <1>1, <1>5, <2>1, <2>2, ReleaseCounts
  <2>3. CASE active' = active /\ owner[h] = NoDB
    <3>1. Pins(d, s) \ {h} = Pins(d, s)
      BY <2>3, NoDBAssumption DEF Pins
    <3> QED BY <1>1, <1>5, <2>1, <2>3, <3>1 DEF Matching
  <2> QED BY <1>2, <2>2, <2>3
<1>6. NumbersUsed'
  BY <1>1, <1>2, ReleaseType DEF NumbersUsed
<1>7. HandlesAboveHorizon'
  BY <1>1, NoDBAssumption DEF HandlesAboveHorizon, TypeOK
<1> QED BY <1>3, <1>4, <1>5, <1>6, <1>7 DEF Matching

LEMMA HandlesStep == HandlesInv /\ [Next]_vars => HandlesInv'
<1> SUFFICES ASSUME HandlesInv, [Next]_vars PROVE HandlesInv'
  OBVIOUS
<1>1. CASE UNCHANGED vars
  BY <1>1 DEF vars, HandlesInv, TypeOK, OwnersKnown, Matching, Pins, NumbersUsed,
             HandlesAboveHorizon
<1>2. CASE Next
  BY <1>2, DBSteps, CompactStep, TakeStep, DestroyStep, MoveSteps DEF Next
<1> QED BY <1>1, <1>2

LEMMA HandlesAlways == Spec => []HandlesInv
BY HandlesInit, HandlesStep, PTL DEF Spec

-----------------------------------------------------------------------------
\* Every registration has exactly one handle: release() never takes a number
\* out twice or leaves one behind, for any number of handles and DB objects.
THEOREM ReleasedOnce == Spec => []RegistrationsMatchHandles
<1>1. HandlesInv => RegistrationsMatchHandles
  BY DEF HandlesInv, TypeOK, OwnersKnown, Matching, RegistrationsMatchHandles
<1> QED BY <1>1, HandlesAlways, PTL

\* No compaction is told an oldest snapshot above the number of a live handle,
\* nor does a handle ever come by a number below one a compaction was told.
THEOREM HandlesProtected == Spec => []HandlesAboveHorizon
<1>1. HandlesInv => HandlesAboveHorizon
  BY DEF HandlesInv
<1> QED BY <1>1, HandlesAlways, PTL

=============================================================================
