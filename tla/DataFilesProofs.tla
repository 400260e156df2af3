--------------------------- MODULE DataFilesProofs ---------------------------
(***************************************************************************)
(* Proofs about the files under the engine.  FileWriter implements         *)
(* AtomicFile, for every set of contents: through every failure, crash and *)
(* power loss a path holds nothing or one whole content.  The Bloom        *)
(* filter of a table answers no for no key that was added, whatever the    *)
(* hash, the number of bits and the size of a word, also after it was      *)
(* written to the table and read back.  And the readers make of a table    *)
(* what was written: it opens, and a lookup misses no version; nor does    *)
(* the reader of a MANIFEST lose or shift a field.                         *)
(***************************************************************************)
EXTENDS TableFile, ManifestFile, Induction, SequenceTheorems, TLAPS

\* A file that was synced and has one whole content.
WholeFile == {File(c, TRUE) : c \in Contents}

\* While a file is being written, what is there and what is to come make up one
\* content; the rename waits for all of it, and for its fsync.
TemporaryComplete ==
    /\ pc = "writing" => /\ todo \in Seq(Chunks)
                         /\ \E d \in Seq(Chunks) : /\ tmp = File(d, FALSE)
                                                   /\ d \o todo \in Contents
    /\ pc = "synced" => tmp \in WholeFile

\* Whatever a power loss may leave under the path is whole and synced.
PathWhole == path \in WholeFile \cup {NoFile} /\ older \subseteq WholeFile \cup {NoFile}

WriterInv == TemporaryComplete /\ PathWhole

-----------------------------------------------------------------------------
\* Moving the head of the rest behind what was written changes nothing.
LEMMA AppendHead ==
    ASSUME NEW S, NEW d \in Seq(S), NEW t \in Seq(S), t # <<>>
    PROVE  /\ Append(d, Head(t)) \in Seq(S)
           /\ Tail(t) \in Seq(S)
           /\ Append(d, Head(t)) \o Tail(t) = d \o t
<1>1. Head(t) \in S /\ Tail(t) \in Seq(S)
  BY HeadTailProperties
<1>2. Len(t) \in Nat /\ Len(t) > 0 /\ Len(d) \in Nat
  BY EmptySeq, LenProperties
<1>3. Append(d, Head(t)) \in Seq(S)
  BY <1>1, AppendProperties
<1>4. t = <<Head(t)>> \o Tail(t)
  BY <1>1, <1>2
<1>5. Append(d, Head(t)) = d \o <<Head(t)>>
  BY <1>1, AppendIsConcat
<1>6. (d \o <<Head(t)>>) \o Tail(t) = d \o (<<Head(t)>> \o Tail(t))
  BY <1>1, ConcatAssociative
<1> QED BY <1>1, <1>3, <1>4, <1>5, <1>6

\* A whole file is no missing file, and survives a power loss as it is.
LEMMA WholeSurvives ==
    ASSUME NEW f \in WholeFile \cup {NoFile}
    PROVE  /\ Survivors(f) = {f}
           /\ f \in WholeFile => f # NoFile /\ f.data \in Contents
<1>1. \A c \in Contents : File(c, TRUE) # NoFile
  <2>1. SUFFICES ASSUME NEW c \in Contents PROVE File(c, TRUE) \in [data : Contents, synced : BOOLEAN]
    BY NoFileAssumption
  <2>2. TRUE \in BOOLEAN
    OBVIOUS
  <2> QED BY <2>2, Zenon DEF File
<1>2. CASE f = NoFile
  BY <1>1, <1>2 DEF Survivors, WholeFile
<1>3. CASE f \in WholeFile
  <2>1. PICK c \in Contents : f = File(c, TRUE)
    BY <1>3 DEF WholeFile
  <2>2. f.data = c
    BY <2>1 DEF File
  <2>3. f.synced
    BY <2>1, Zenon DEF File
  <2>4. f # NoFile
    BY <1>1, <2>1
  <2>5. Survivors(f) = {f}
    BY <2>3, <2>4 DEF Survivors
  <2> QED BY <2>2, <2>4, <2>5
<1> QED BY <1>2, <1>3

-----------------------------------------------------------------------------
LEMMA WriterInit == Init => WriterInv
BY DEF Init, WriterInv, TemporaryComplete, PathWhole

LEMMA WriterStep == WriterInv /\ [Next]_vars => WriterInv'
<1> SUFFICES ASSUME WriterInv, [Next]_vars PROVE WriterInv'
  OBVIOUS
<1> USE DEF WriterInv
<1>1. ASSUME NEW c \in Contents, Begin(c) PROVE WriterInv'
  <2>1. PathWhole'
    BY <1>1 DEF Begin, PathWhole
  <2>2. c \in Seq(Chunks) /\ <<>> \in Seq(Chunks) /\ <<>> \o c = c
    BY ContentsAssumption, ConcatEmptySeq, EmptySeq
  <2>3. TemporaryComplete'
    BY <1>1, <2>2 DEF Begin, TemporaryComplete
  <2> QED BY <2>1, <2>3
<1>2. ASSUME Write PROVE WriterInv'
  <2>1. PathWhole'
    BY <1>2 DEF Write, PathWhole
  <2>2. todo \in Seq(Chunks)
    BY <1>2 DEF Write, TemporaryComplete
  <2>3. PICK d \in Seq(Chunks) : tmp = File(d, FALSE) /\ d \o todo \in Contents
    BY <1>2 DEF Write, TemporaryComplete
  <2>4. /\ Append(d, Head(todo)) \in Seq(Chunks)
        /\ Tail(todo) \in Seq(Chunks)
        /\ Append(d, Head(todo)) \o Tail(todo) = d \o todo
    BY <1>2, <2>2, AppendHead DEF Write
  <2>5. tmp' = File(Append(d, Head(todo)), FALSE) /\ todo' = Tail(todo) /\ pc' = "writing"
    BY <1>2, <2>3 DEF Write, File
  <2>6. TemporaryComplete'
    BY <2>3, <2>4, <2>5 DEF TemporaryComplete
  <2> QED BY <2>1, <2>6
<1>3. ASSUME WriteFails PROVE WriterInv'
  BY <1>3 DEF WriteFails, TemporaryComplete, PathWhole
<1>4. ASSUME Fsync PROVE WriterInv'
  <2>1. PathWhole'
    BY <1>4 DEF Fsync, PathWhole
  <2>2. PICK d \in Seq(Chunks) : tmp = File(d, FALSE) /\ d \o todo \in Contents
    BY <1>4 DEF Fsync, TemporaryComplete
  <2>3. d \in Contents
    BY <1>4, <2>2, ConcatEmptySeq DEF Fsync
  <2>4. tmp' = File(d, TRUE)
    BY <1>4, <2>2 DEF Fsync, File
  <2>5. TemporaryComplete'
    BY <1>4, <2>3, <2>4 DEF Fsync, TemporaryComplete, WholeFile
  <2> QED BY <2>1, <2>5
<1>5. ASSUME Rename PROVE WriterInv'
  BY <1>5 DEF Rename, TemporaryComplete, PathWhole
<1>6. ASSUME SyncDirectory PROVE WriterInv'
  BY <1>6 DEF SyncDirectory, TemporaryComplete, PathWhole
<1>7. ASSUME Abandon PROVE WriterInv'
  BY <1>7 DEF Abandon, TemporaryComplete, PathWhole
<1>8. ASSUME CleanupTemp PROVE WriterInv'
  BY <1>8 DEF CleanupTemp, TemporaryComplete, PathWhole
<1>9. ASSUME RemoveTable PROVE WriterInv'
  BY <1>9 DEF RemoveTable, TemporaryComplete, PathWhole
<1>10. ASSUME PowerLoss PROVE WriterInv'
  <2>1. PICK f \in {path} \cup older : path' \in Survivors(f)
    BY <1>10 DEF PowerLoss
  <2>2. path' = f /\ f \in WholeFile \cup {NoFile}
    BY <2>1, WholeSurvives DEF PathWhole
  <2> QED BY <1>10, <2>2 DEF PowerLoss, TemporaryComplete, PathWhole
<1>11. ASSUME UNCHANGED vars PROVE WriterInv'
  BY <1>11 DEF vars, TemporaryComplete, PathWhole
<1> QED
  BY <1>1, <1>2, <1>3, <1>4, <1>5, <1>6, <1>7, <1>8, <1>9, <1>10, <1>11 DEF Next

-----------------------------------------------------------------------------
\* Every step of the writer is a step of the atomic file, or leaves it alone.
LEMMA StepIsAtomic == WriterInv /\ [Next]_vars => [Atomic!ANext]_(Atomic!avars)
<1> SUFFICES ASSUME WriterInv, [Next]_vars PROVE [Atomic!ANext]_(Atomic!avars)
  OBVIOUS
<1> USE DEF WriterInv
<1>1. ASSUME UNCHANGED <<path, older, acked>> PROVE UNCHANGED Atomic!avars
  BY <1>1 DEF Atomic!avars, DataOf
<1>2. ASSUME Rename PROVE Atomic!Replace
  <2>1. path' \in WholeFile
    BY <1>2 DEF Rename, TemporaryComplete
  <2>2. DataOf(path') \in Contents
    BY <2>1, WholeSurvives DEF DataOf
  <2>3. {path'} \cup older' = {path} \cup older \cup {path'}
    BY <1>2 DEF Rename
  <2>4. {DataOf(f) : f \in {path'} \cup older'}
            = {DataOf(f) : f \in {path} \cup older} \cup {DataOf(path')}
    BY <2>3
  <2> QED BY <1>2, <2>2, <2>4 DEF Rename, Atomic!Replace, DataOf
<1>3. ASSUME SyncDirectory PROVE Atomic!Settle
  <2>1. {DataOf(f) : f \in {path'} \cup older'} = {DataOf(path)}
    BY <1>3 DEF SyncDirectory
  <2> QED BY <1>3, <2>1 DEF SyncDirectory, Atomic!Settle, DataOf
<1>4. ASSUME RemoveTable PROVE Atomic!Remove
  <2>1. {DataOf(f) : f \in {path'} \cup older'} = {NoFile}
    BY <1>4 DEF RemoveTable, DataOf
  <2> QED BY <1>4, <2>1 DEF RemoveTable, Atomic!Remove, DataOf
<1>5. ASSUME PowerLoss PROVE Atomic!PowerLoss
  <2>1. PICK f \in {path} \cup older : path' \in Survivors(f)
    BY <1>5 DEF PowerLoss
  <2>2. path' = f
    BY <2>1, WholeSurvives DEF PathWhole
  <2>3. {DataOf(g) : g \in {path'} \cup older'} = {DataOf(f)}
    BY <1>5, <2>2 DEF PowerLoss
  <2> QED BY <1>5, <2>1, <2>2, <2>3 DEF PowerLoss, Atomic!PowerLoss, DataOf
<1>6. ASSUME \/ \E c \in Contents : Begin(c)
             \/ Write \/ WriteFails \/ Fsync \/ Abandon \/ CleanupTemp
             \/ UNCHANGED vars
      PROVE  UNCHANGED <<path, older, acked>>
  BY <1>6 DEF Begin, Write, WriteFails, Fsync, Abandon, CleanupTemp, vars
<1> QED
  BY <1>1, <1>2, <1>3, <1>4, <1>5, <1>6 DEF Next, Atomic!ANext

\* Publication is atomic, whatever the contents are: finish() replaces the file
\* under the path in one step, and what it has returned for survives everything
\* but the next rename and a removal.
THEOREM WriterIsAtomic == Spec => PublicationIsAtomic
<1>1. Init => Atomic!AInit
  BY DEF Init, Atomic!AInit, DataOf
<1>2. Spec => []WriterInv
  BY WriterInit, WriterStep, PTL DEF Spec
<1> QED
  BY <1>1, <1>2, StepIsAtomic, PTL DEF Spec, PublicationIsAtomic, Atomic!ASpec

-----------------------------------------------------------------------------
(***************************************************************************)
(* The Bloom filter.                                                       *)
(***************************************************************************)

HashedKeys == DOMAIN FirstHash

\* A filter with at least one bit, and a word for each of its bits.
IsFilter(f) ==
    /\ f = [bitCount |-> f.bitCount, hashCount |-> f.hashCount, words |-> f.words]
    /\ f.bitCount \in Nat \ {0} /\ f.hashCount \in Nat
    /\ f.words = [w \in 0..(wordCountFor(f.bitCount) - 1) |-> f.words[w]]

\* The number of words is a natural number.
LEMMA WordCountType ==
    ASSUME NEW bits \in Nat
    PROVE  wordCountFor(bits) \in Nat
BY BitsAssumption DEF wordCountFor

\* Every bit below the bit count lies in one of the words.
LEMMA WordOfBit ==
    ASSUME NEW bits \in Nat, NEW p \in 0..(bits - 1)
    PROVE  p \div WordBits \in 0..(wordCountFor(bits) - 1)
<1> DEFINE W == WordBits
           q == p \div W
           n == (bits + W - 1) \div W
<1>1. W \in Nat /\ W > 0 /\ p \in Nat /\ bits + W - 1 \in Nat
  BY BitsAssumption
<1>2. q \in Nat /\ n \in Nat
  BY <1>1
<1>3. q * W <= p /\ bits + W - 1 < (n + 1) * W
  BY <1>1
<1>4. bits <= n * W
  BY <1>1, <1>2, <1>3
<1>5. q < n
  <2>1. SUFFICES ASSUME n <= q PROVE FALSE
    BY <1>2
  <2>2. n * W <= q * W
    BY <1>1, <1>2, <2>1
  <2>3. n * W \in Nat /\ q * W \in Nat
    BY <1>1, <1>2
  <2> QED BY <1>1, <1>3, <1>4, <2>2, <2>3
<1> QED BY <1>2, <1>5 DEF wordCountFor

\* The positions of a key are bits of the filter.
LEMMA PositionsInFilter ==
    ASSUME NEW f, IsFilter(f), NEW k \in HashedKeys, NEW p \in Positions(f, k)
    PROVE  p \in 0..(f.bitCount - 1)
<1>1. PICK i \in 0..(f.hashCount - 1) : p = getBitPosition(f, k, i)
  BY DEF Positions
<1>2. f.bitCount \in Nat \ {0} /\ f.hashCount \in Nat
  BY DEF IsFilter
<1> DEFINE second == IF SecondHash[k] = 0 THEN 1 ELSE SecondHash[k]
<1>3. FirstHash[k] \in Nat /\ second \in Nat /\ i \in Nat
  BY <1>2, HashAssumption DEF HashedKeys
<1>4. i * second \in Nat
  BY <1>3
<1>5. FirstHash[k] + i * second \in Nat
  BY <1>3, <1>4
<1>6. p = (FirstHash[k] + i * second) % f.bitCount
  BY <1>1 DEF getBitPosition
<1> HIDE DEF second
<1> QED BY <1>2, <1>5, <1>6

\* A filter keeps its shape, and its positions, when a key is added.
LEMMA AddShape ==
    ASSUME NEW f, IsFilter(f), NEW k \in HashedKeys
    PROVE  /\ IsFilter(Add(f, k))
           /\ Add(f, k).bitCount = f.bitCount /\ Add(f, k).hashCount = f.hashCount
           /\ \A j : Positions(Add(f, k), j) = Positions(f, j)
           /\ \A w \in 0..(wordCountFor(f.bitCount) - 1) :
                  Add(f, k).words[w] = f.words[w] \cup
                      {p % WordBits : p \in {q \in Positions(f, k) : q \div WordBits = w}}
<1> DEFINE W == 0..(wordCountFor(f.bitCount) - 1)
           g == [w \in W |-> f.words[w] \cup
                    {p % WordBits : p \in {q \in Positions(f, k) : q \div WordBits = w}}]
<1>1. /\ f = [bitCount |-> f.bitCount, hashCount |-> f.hashCount, words |-> f.words]
      /\ DOMAIN f.words = W
      /\ f.bitCount \in Nat \ {0} /\ f.hashCount \in Nat
  BY DEF IsFilter
<1>2. Add(f, k) = [f EXCEPT !.words = g]
  BY <1>1 DEF Add
<1>3. Add(f, k) = [bitCount |-> f.bitCount, hashCount |-> f.hashCount, words |-> g]
  <2> HIDE DEF g
  <2> QED BY <1>1, <1>2
<1>4. /\ Add(f, k).bitCount = f.bitCount /\ Add(f, k).hashCount = f.hashCount
      /\ Add(f, k).words = g
  <2> HIDE DEF g
  <2> QED BY <1>3
<1>5. g = [w \in W |-> g[w]]
  OBVIOUS
<1>6. IsFilter(Add(f, k))
  <2> HIDE DEF g
  <2> QED BY <1>1, <1>3, <1>4, <1>5 DEF IsFilter
<1>7. \A j : Positions(Add(f, k), j) = Positions(f, j)
  BY <1>4 DEF Positions, getBitPosition
<1> QED BY <1>4, <1>6, <1>7

\* A filter is what its serialised form is read back as, and is accepted.
LEMMA RoundTrip ==
    ASSUME NEW f, IsFilter(f)
    PROVE  AcceptsBytes(Serialize(f)) /\ fromBytes(Serialize(f)) = f
<1> DEFINE n == wordCountFor(f.bitCount)
           tail == [i \in 1..n |-> f.words[i - 1]]
           s == <<f.bitCount, f.hashCount>> \o tail
<1>1. n \in Nat
  BY WordCountType DEF IsFilter
<1>2. /\ Len(s) = 2 + n
      /\ s[1] = f.bitCount /\ s[2] = f.hashCount
      /\ \A i \in 1..n : s[i + 2] = f.words[i - 1]
  BY <1>1
<1>3. Serialize(f) = s
  BY DEF Serialize
<1>4. \A w \in 0..(n - 1) : s[w + 3] = f.words[w]
  <2>1. SUFFICES ASSUME NEW w \in 0..(n - 1) PROVE s[w + 3] = f.words[w]
    OBVIOUS
  <2>2. w + 1 \in 1..n /\ (w + 1) + 2 = w + 3 /\ (w + 1) - 1 = w
    BY <1>1
  <2> HIDE DEF s
  <2> QED BY <1>2, <2>2
<1> HIDE DEF s
<1>5. AcceptsBytes(s)
  BY <1>1, <1>2 DEF AcceptsBytes
<1>6. [w \in 0..(n - 1) |-> s[w + 3]] = f.words
  BY <1>4 DEF IsFilter
<1>7. fromBytes(s) = f
  BY <1>2, <1>6 DEF fromBytes, IsFilter
<1> QED BY <1>3, <1>5, <1>7

\* No false negatives: a filter that has been given key j, written into a table
\* and read back is a filter, answers yes for j, and still answers yes for every
\* key it answered yes for before.
THEOREM NoFalseNegatives ==
    ASSUME NEW f, IsFilter(f), NEW j \in HashedKeys, NEW k \in HashedKeys,
           k = j \/ mightContain(f, k)
    PROVE  /\ IsFilter(fromBytes(Serialize(Add(f, j))))
           /\ mightContain(fromBytes(Serialize(Add(f, j))), k)
<1>1. IsFilter(Add(f, j)) /\ fromBytes(Serialize(Add(f, j))) = Add(f, j)
  BY AddShape, RoundTrip
<1>2. ASSUME NEW p \in Positions(f, k)
      PROVE  (p % WordBits) \in Add(f, j).words[p \div WordBits]
  <2>1. p \div WordBits \in 0..(wordCountFor(f.bitCount) - 1)
    BY PositionsInFilter, WordOfBit DEF IsFilter
  <2>2. Add(f, j).words[p \div WordBits] = f.words[p \div WordBits] \cup
            {q % WordBits : q \in {r \in Positions(f, j) : r \div WordBits = p \div WordBits}}
    BY <2>1, AddShape
  <2>3. CASE k = j
    BY <2>2, <2>3
  <2>4. CASE mightContain(f, k)
    BY <2>2, <2>4 DEF mightContain
  <2> QED BY <2>3, <2>4
<1>3. mightContain(Add(f, j), k)
  BY <1>2, AddShape DEF mightContain
<1> QED BY <1>1, <1>3

\* forEntries makes such a filter, for every table that has a record.
THEOREM ForEntriesIsFilter ==
    ASSUME NEW n \in Nat \ {0}
    PROVE  IsFilter(forEntries(n))
<1>1. n * BitsPerEntry \in Nat \ {0}
  BY BitsAssumption
<1> QED BY <1>1, HashAssumption DEF forEntries, IsFilter

-----------------------------------------------------------------------------
(***************************************************************************)
(* Tables.  First the bytes in front of each chunk of a file.              *)
(***************************************************************************)

\* o[n] is the size of the first n chunks of d.
AddsUp(o, d) ==
    /\ o \in [0..Len(d) -> Nat] /\ o[0] = 0
    /\ \A n \in 1..Len(d) : o[n] = o[n - 1] + ChunkBytes(d[n])

LEMMA OffsetsAddUp ==
    ASSUME NEW d, Len(d) \in Nat, \A n \in 1..Len(d) : ChunkBytes(d[n]) \in Nat
    PROVE  AddsUp(Offsets(d), d)
<1> DEFINE N == Len(d)
           Bytes(n) == ChunkBytes(d[n])
           Eq(f) == f = [n \in 0..N |-> IF n = 0 THEN 0 ELSE f[n - 1] + Bytes(n)]
           step == [x \in (1..N) \X Nat |-> x[2] + Bytes(x[1])]
           Upto == CHOOSE f : Eq(f)
<1>1. N \in Nat /\ \A n \in 1..N : Bytes(n) \in Nat
  OBVIOUS
<1>2. Offsets(d) = Upto
  BY DEF Offsets
<1> HIDE DEF N, Bytes
<1>3. \A n \in 1..N, v \in Nat : step[<<n, v>>] = v + Bytes(n) /\ v + Bytes(n) \in Nat
  BY <1>1
<1>4. step \in [(1..N) \X Nat -> Nat]
  BY <1>1
<1> HIDE DEF step
<1>5. PICK f \in [0..N -> Nat] : Recursive(f, N, 0, step)
  <2>1. N \in Nat /\ 0 \in Nat /\ step \in [(1..N) \X Nat -> Nat]
    BY <1>1, <1>4
  <2> QED BY <2>1, Recursion
<1>6. ASSUME NEW n \in 0..N PROVE f[n] = IF n = 0 THEN 0 ELSE f[n - 1] + Bytes(n)
  <2>1. f[n] = IF n = 0 THEN 0 ELSE step[<<n, f[n - 1]>>]
    BY <1>5 DEF Recursive
  <2>2. n # 0 => n \in 1..N /\ f[n - 1] \in Nat
    BY <1>1
  <2> QED BY <1>3, <2>1, <2>2
<1>7. Eq(Upto)
  <2>1. Eq(f)
    BY <1>5, <1>6
  <2> QED BY <2>1
<1> HIDE DEF Upto
<1>8. DOMAIN Upto = 0..N /\ Upto[0] = 0 /\ \A n \in 1..N : Upto[n] = Upto[n - 1] + Bytes(n)
  BY <1>1, <1>7
<1> DEFINE Good == {n \in 0..N : Upto[n] \in Nat}
<1>9. 0 \in Good
  BY <1>1, <1>8
<1>10. ASSUME NEW n \in 1..N, n - 1 \in Good PROVE n \in Good
  BY <1>1, <1>8, <1>10
<1> HIDE DEF Good
<1>11. \A n \in 0..N : n \in Good
  BY <1>1, <1>9, <1>10, UpToInduction
<1>12. Upto \in [0..N -> Nat]
  BY <1>7, <1>8, <1>11 DEF Good
<1> QED BY <1>2, <1>8, <1>12 DEF AddsUp, N, Bytes

\* Chunks have bytes, so a later chunk starts further behind.
LEMMA OffsetsGrow ==
    ASSUME NEW d, Len(d) \in Nat, NEW o, AddsUp(o, d),
           \A n \in 1..Len(d) : ChunkBytes(d[n]) \in Nat \ {0}
    PROVE  \A m, n \in 0..Len(d) : m < n => o[m] < o[n]
<1> DEFINE N == Len(d)
           Good == {n \in 0..N : \A m \in 0..N : m < n => o[m] < o[n]}
<1>1. /\ N \in Nat /\ o \in [0..N -> Nat]
      /\ \A n \in 1..N : o[n - 1] < o[n]
  <2>1. N \in Nat /\ o \in [0..N -> Nat]
    BY DEF AddsUp
  <2>2. ASSUME NEW n \in 1..N PROVE o[n - 1] < o[n]
    <3>1. o[n] = o[n - 1] + ChunkBytes(d[n]) /\ ChunkBytes(d[n]) \in Nat \ {0}
      BY DEF AddsUp
    <3> HIDE DEF N
    <3>2. n - 1 \in 0..N
      BY <2>1
    <3>3. o[n - 1] \in Nat
      BY <2>1, <3>2, Zenon
    <3> QED BY <3>1, <3>3
  <2> QED BY <2>1, <2>2
<1> HIDE DEF N
<1>2. 0 \in Good
  BY <1>1
<1>3. ASSUME NEW n \in 1..N, n - 1 \in Good PROVE n \in Good
  <2>1. n \in 0..N /\ n - 1 \in 0..N /\ o[n - 1] < o[n]
    BY <1>1
  <2>2. ASSUME NEW m \in 0..N, m < n PROVE o[m] < o[n]
    <3>1. m = n - 1 \/ m < n - 1
      BY <1>1, <2>2
    <3>2. m < n - 1 => o[m] < o[n - 1]
      BY <1>3
    <3>3. o[m] \in Nat /\ o[n - 1] \in Nat /\ o[n] \in Nat
      BY <1>1, <2>1
    <3> QED BY <2>1, <3>1, <3>2, <3>3
  <2> QED BY <2>1, <2>2
<1> HIDE DEF Good
<1>4. \A n \in 0..N : n \in Good
  BY <1>1, <1>2, <1>3, UpToInduction
<1> QED BY <1>4 DEF Good, N

\* sec are the chunks of d behind the a-th, up to the b-th.
IsSection(sec, d, a, b) ==
    /\ Len(sec) = b - a
    /\ Bodies(sec) = [i \in 1..(b - a) |-> Body(d[a + i])]
    /\ \A i \in 1..(b - a) : sec[i] = d[a + i]

\* The chunks between two offsets are those between the two positions.
LEMMA SectionIs ==
    ASSUME NEW S, NEW d \in Seq(S),
           \A n \in 1..Len(d) : ChunkBytes(d[n]) \in Nat \ {0},
           NEW a \in 0..Len(d), NEW b \in 0..Len(d), a < b
    PROVE  IsSection(Section(d, Offsets(d)[a], Offsets(d)[b]), d, a, b)
<1> DEFINE N == Len(d)
           o == Offsets(d)
           in == {n \in DOMAIN d : Start(d, n) >= o[a] /\ Start(d, n) < o[b]}
<1>1. N \in Nat /\ DOMAIN d = 1..N /\ a \in 0..N /\ b \in 0..N
  OBVIOUS
<1>2. AddsUp(o, d)
  BY <1>1, OffsetsAddUp
<1>3. \A m, n \in 0..N : m < n => o[m] < o[n]
  BY <1>1, <1>2, OffsetsGrow
<1>4. o \in [0..N -> Nat]
  BY <1>2 DEF AddsUp
<1>5. \A n \in DOMAIN d : Start(d, n) = o[n - 1]
  BY DEF Start
<1>6. Section(d, o[a], o[b]) = IF in = {} THEN <<>> ELSE SubSeq(d, Min(in), Max(in))
  BY DEF Section
<1>6a. \A n : n \in in <=> n \in 1..N /\ o[n - 1] >= o[a] /\ o[n - 1] < o[b]
  BY <1>1, <1>5
<1> HIDE DEF o, in, N
<1>7. in = (a + 1)..b
  <2>1. ASSUME NEW n \in 1..N
        PROVE  (o[n - 1] >= o[a] /\ o[n - 1] < o[b]) <=> (a + 1 <= n /\ n <= b)
    <3>1. n - 1 \in 0..N /\ a \in 0..N /\ b \in 0..N
      BY <1>1
    <3>2. o[n - 1] \in Nat /\ o[a] \in Nat /\ o[b] \in Nat
      BY <1>4, <3>1
    <3>3. n - 1 < a => o[n - 1] < o[a]
      BY <1>3, <3>1
    <3>4. a < n - 1 => o[a] < o[n - 1]
      BY <1>3, <3>1
    <3>5. n - 1 < b => o[n - 1] < o[b]
      BY <1>3, <3>1
    <3>6. b < n - 1 => o[b] < o[n - 1]
      BY <1>3, <3>1
    <3>7. n - 1 = a => o[n - 1] = o[a]
      OBVIOUS
    <3>8. n - 1 = b => o[n - 1] = o[b]
      OBVIOUS
    <3> QED BY <3>1, <3>2, <3>3, <3>4, <3>5, <3>6, <3>7, <3>8
  <2>2. \A n \in 1..N : n \in in <=> n \in (a + 1)..b
    <3>1. ASSUME NEW n \in 1..N PROVE n \in in <=> n \in (a + 1)..b
      <4>1. n \in in <=> a + 1 <= n /\ n <= b
        BY <1>6a, <2>1
      <4>2. n \in (a + 1)..b <=> a + 1 <= n /\ n <= b
        BY <1>1
      <4> QED BY <4>1, <4>2
    <3> QED BY <3>1
  <2>3. \A n : (n \in in => n \in 1..N) /\ (n \in (a + 1)..b => n \in 1..N)
    BY <1>1, <1>6a
  <2> QED BY <2>2, <2>3, Zenon
<1>8. in # {} /\ in \in SUBSET Nat /\ in \in SUBSET (0..b) /\ b \in Nat
  <2>1. b \in in
    BY <1>1, <1>7
  <2>2. \A n \in in : n \in 0..b
    BY <1>1, <1>7
  <2> QED BY <1>1, <2>1, <2>2
<1>9. Min(in) = a + 1 /\ Max(in) = b
  <2>1. Min(in) \in in /\ \A y \in in : Min(in) <= y
    BY <1>8, MinNat
  <2>2. Max(in) \in in /\ \A y \in in : y <= Max(in)
    BY <1>1, <1>8, MaxBounded
  <2>3. a + 1 \in in /\ b \in in
    BY <1>1, <1>7
  <2> QED BY <1>1, <1>7, <2>1, <2>2, <2>3
<1>10. Section(d, o[a], o[b]) = SubSeq(d, a + 1, b)
  BY <1>6, <1>8, <1>9
<1> DEFINE sec == SubSeq(d, a + 1, b)
<1>11. /\ Len(sec) = b - a /\ DOMAIN sec = 1..(b - a)
       /\ \A i \in 1..(b - a) : sec[i] = d[a + i]
  BY <1>1 DEF N
<1> HIDE DEF sec
<1>12. Bodies(sec) = [i \in 1..(b - a) |-> Body(d[a + i])]
  BY <1>11 DEF Bodies
<1>13. IsSection(sec, d, a, b)
  BY <1>11, <1>12 DEF IsSection
<1> QED BY <1>10, <1>13 DEF o, sec

-----------------------------------------------------------------------------
(***************************************************************************)
(* What addRecordToFile's loop makes of the records: the sparse index.     *)
(***************************************************************************)
Entry == [key : Keys, offset : Nat]

\* Records have bytes, and are the chunks at the front of the file.
LEMMA RecordBytes ==
    ASSUME NEW recs \in Seq(Record)
    PROVE  /\ \A n \in 1..Len(recs) : encodedRecordSize(recs[n]) \in Nat \ {0}
           /\ Len(Tagged("record", recs)) = Len(recs)
           /\ \A n \in 1..Len(recs) :
                  /\ Tagged("record", recs)[n] = <<"record", recs[n]>>
                  /\ ChunkBytes(Tagged("record", recs)[n]) = encodedRecordSize(recs[n])
<1> DEFINE t == Tagged("record", recs)
           N == Len(recs)
<1>1. N \in Nat /\ DOMAIN recs = 1..N
  OBVIOUS
<1>2. t = [n \in 1..N |-> <<"record", recs[n]>>]
  BY <1>1 DEF Tagged
<1>3. Len(t) = N
  <2> HIDE DEF N
  <2> QED BY <1>1, <1>2
<1>4. \A r : encodedRecordSize(r) \in Nat \ {0}
  BY BytesAssumption DEF encodedRecordSize
<1>5. \A r : ChunkBytes(<<"record", r>>) = encodedRecordSize(r)
  BY DEF ChunkBytes, Kind, Body
<1> QED BY <1>2, <1>3, <1>4, <1>5

\* The entries ix name records among the first n, the first record first, in
\* the order of the file.
IndexUpto(ix, n, recs, o) ==
    /\ ix \in Seq(Entry)
    /\ n > 0 => ix # <<>> /\ ix[1].offset = 0
    /\ \A i \in 1..Len(ix) :
           \E b \in 1..n : ix[i].key = recs[b].key /\ ix[i].offset = o[b - 1]
    /\ \A i, j \in 1..Len(ix) : i < j => ix[i].offset < ix[j].offset

\* A record that starts a block gets the next entry.
LEMMA IndexGrows ==
    ASSUME NEW recs \in Seq(Record), NEW o, o \in [0..Len(recs) -> Nat], o[0] = 0,
           \A m, n \in 0..Len(recs) : m < n => o[m] < o[n],
           NEW n \in 1..Len(recs), NEW ix, IndexUpto(ix, n - 1, recs, o)
    PROVE  /\ IndexUpto(Append(ix, [key |-> recs[n].key, offset |-> o[n - 1]]), n, recs, o)
           /\ o[n - 1] # 0 => IndexUpto(ix, n, recs, o)
<1> DEFINE N == Len(recs)
           e == [key |-> recs[n].key, offset |-> o[n - 1]]
           L == Len(ix)
           new == Append(ix, e)
<1>1. N \in Nat /\ n \in 1..N /\ n - 1 \in 0..N /\ ix \in Seq(Entry) /\ L \in Nat
  BY DEF IndexUpto
<1>2. e \in Entry /\ e.key = recs[n].key /\ e.offset = o[n - 1]
  <2>1. recs[n] \in Record
    OBVIOUS
  <2>2. o[n - 1] \in Nat
    BY <1>1
  <2> QED BY <2>1, <2>2 DEF Entry, Record
<1> HIDE DEF e
<1>3. /\ new \in Seq(Entry) /\ Len(new) = L + 1 /\ new[L + 1] = e
      /\ \A i \in 1..L : new[i] = ix[i]
  BY <1>1, <1>2
<1> HIDE DEF new, L
<1>4. ASSUME NEW i \in 1..L
      PROVE  \E b \in 1..(n - 1) : ix[i].key = recs[b].key /\ ix[i].offset = o[b - 1]
  BY DEF IndexUpto, L
<1>5. ASSUME NEW i \in 1..L PROVE ix[i].offset < o[n - 1]
  <2>1. PICK b \in 1..(n - 1) : ix[i].offset = o[b - 1]
    BY <1>4
  <2>2. b - 1 \in 0..N /\ b - 1 < n - 1
    BY <1>1
  <2> QED BY <1>1, <2>1, <2>2
<1>6. ASSUME NEW i \in 1..L, NEW j \in 1..L, i < j PROVE ix[i].offset < ix[j].offset
  BY <1>6 DEF IndexUpto, L
<1>7. n - 1 > 0 => ix # <<>> /\ ix[1].offset = 0
  BY DEF IndexUpto
<1>8. IndexUpto(new, n, recs, o)
  <2>1. new # <<>> /\ new[1].offset = 0
    <3>1. new # <<>>
      BY <1>1, <1>3
    <3>2. CASE n - 1 > 0
      <4>1. 1 \in 1..L
        BY <1>1, <1>7, <3>2, EmptySeq DEF L
      <4> QED BY <1>3, <1>7, <3>1, <3>2, <4>1
    <3>3. CASE ~(n - 1 > 0)
      <4>1. n - 1 = 0
        BY <1>1, <3>3
      <4>2. L = 0
        <5>1. SUFFICES ASSUME L # 0 PROVE FALSE
          OBVIOUS
        <5>2. 1 \in 1..L
          BY <1>1, <5>1
        <5>3. \E b \in 1..(n - 1) : ix[1].offset = o[b - 1]
          BY <1>4, <5>2
        <5> QED BY <4>1, <5>3
      <4>3. L + 1 = 1
        BY <4>2
      <4>4. new[1] = e /\ e.offset = o[0]
        BY <1>2, <1>3, <4>1, <4>3
      <4> QED BY <3>1, <4>4
    <3> QED BY <3>2, <3>3
  <2>2. ASSUME NEW i \in 1..Len(new)
        PROVE  \E b \in 1..n : new[i].key = recs[b].key /\ new[i].offset = o[b - 1]
    <3>1. CASE i = L + 1
      <4>1. n \in 1..n
        BY <1>1
      <4> QED BY <1>2, <1>3, <3>1, <4>1
    <3>2. CASE i # L + 1
      <4>1. i \in 1..L
        BY <1>1, <1>3, <3>2
      <4>2. PICK b \in 1..(n - 1) : ix[i].key = recs[b].key /\ ix[i].offset = o[b - 1]
        BY <1>4, <4>1
      <4>3. b \in 1..n
        BY <1>1
      <4> QED BY <1>3, <4>1, <4>2, <4>3
    <3> QED BY <3>1, <3>2
  <2>3. ASSUME NEW i \in 1..Len(new), NEW j \in 1..Len(new), i < j
        PROVE  new[i].offset < new[j].offset
    <3>1. i \in 1..L
      BY <1>1, <1>3, <2>3
    <3>2. CASE j = L + 1
      BY <1>2, <1>3, <1>5, <3>1, <3>2
    <3>3. CASE j # L + 1
      <4>1. j \in 1..L
        BY <1>1, <1>3, <3>3
      <4> QED BY <1>3, <1>6, <2>3, <3>1, <4>1
    <3> QED BY <3>2, <3>3
  <2> QED BY <1>3, <2>1, <2>2, <2>3 DEF IndexUpto
<1>9. ASSUME o[n - 1] # 0 PROVE IndexUpto(ix, n, recs, o)
  <2>1. n - 1 > 0
    <3>1. n - 1 # 0
      BY <1>9
    <3> QED BY <1>1, <3>1
  <2>2. ASSUME NEW i \in 1..Len(ix)
        PROVE  \E b \in 1..n : ix[i].key = recs[b].key /\ ix[i].offset = o[b - 1]
    <3>1. PICK b \in 1..(n - 1) : ix[i].key = recs[b].key /\ ix[i].offset = o[b - 1]
      BY <1>4 DEF L
    <3>2. b \in 1..n
      BY <1>1
    <3> QED BY <3>1, <3>2
  <2> QED BY <1>1, <1>7, <2>1, <2>2, <1>6 DEF IndexUpto, L
<1> QED BY <1>8, <1>9 DEF new, e

LoopState == [indices : Seq(Entry), recordsSize : Nat, currentBlockSize : Nat]

LEMMA LoopTurn ==
    ASSUME NEW loop \in LoopState, NEW r \in Record
    PROVE  /\ addRecord(loop, r) \in LoopState
           /\ addRecord(loop, r).recordsSize = loop.recordsSize + encodedRecordSize(r)
           /\ \/ addRecord(loop, r).indices
                     = Append(loop.indices, [key |-> r.key, offset |-> loop.recordsSize])
              \/ addRecord(loop, r).indices = loop.indices /\ loop.recordsSize # 0
<1> DEFINE starts == loop.recordsSize = 0 \/ loop.currentBlockSize > BlockBytes
           index == [key |-> r.key, offset |-> loop.recordsSize]
           bytes == encodedRecordSize(r)
           ix == IF starts THEN Append(loop.indices, index) ELSE loop.indices
           cur == (IF starts THEN 0 ELSE loop.currentBlockSize) + bytes
<1>1. /\ loop.indices \in Seq(Entry) /\ loop.recordsSize \in Nat
      /\ loop.currentBlockSize \in Nat /\ bytes \in Nat
  BY BytesAssumption DEF LoopState, encodedRecordSize
<1>2. index \in Entry
  BY <1>1 DEF Entry, Record
<1>3. addRecord(loop, r)
          = [indices |-> ix, recordsSize |-> loop.recordsSize + bytes, currentBlockSize |-> cur]
  BY DEF addRecord
<1> HIDE DEF index, bytes
<1>4. ix \in Seq(Entry) /\ cur \in Nat /\ loop.recordsSize + bytes \in Nat
  BY <1>1, <1>2
<1>5. \/ ix = Append(loop.indices, index)
      \/ ix = loop.indices /\ loop.recordsSize # 0
  OBVIOUS
<1> HIDE DEF ix, cur
<1>6. addRecord(loop, r) \in LoopState
  BY <1>3, <1>4 DEF LoopState
<1>7. addRecord(loop, r).recordsSize = loop.recordsSize + bytes /\ addRecord(loop, r).indices = ix
  BY <1>3
<1> QED BY <1>5, <1>6, <1>7 DEF index, bytes

\* The index of a table: entries for records of the table, in order.
LEMMA IndexIs ==
    ASSUME NEW recs \in Seq(Record), NEW o, AddsUp(o, Tagged("record", recs))
    PROVE  IndexUpto(IndexOf(recs), Len(recs), recs, o)
<1> DEFINE N == Len(recs)
           t == Tagged("record", recs)
           Eq(f) == f = [n \in 0..N |-> IF n = 0 THEN NoRecords ELSE addRecord(f[n - 1], recs[n])]
           step == [x \in (1..N) \X LoopState |-> addRecord(x[2], recs[x[1]])]
           After == CHOOSE f : Eq(f)
<1>1. N \in Nat /\ (\A n \in 1..N : recs[n] \in Record) /\ Len(t) = N
  BY RecordBytes
<1>2. IndexOf(recs) = After[N].indices
  BY DEF IndexOf
<1>3. /\ o \in [0..N -> Nat] /\ o[0] = 0
      /\ \A n \in 1..N : o[n] = o[n - 1] + encodedRecordSize(recs[n])
  BY <1>1, RecordBytes DEF AddsUp
<1>4. \A m, n \in 0..N : m < n => o[m] < o[n]
  <2>1. \A n \in 1..N : ChunkBytes(t[n]) \in Nat \ {0}
    BY RecordBytes
  <2> HIDE DEF t
  <2>2. AddsUp(o, t)
    BY DEF t
  <2> QED BY <1>1, <2>1, <2>2, OffsetsGrow
<1> HIDE DEF t
<1>5. NoRecords \in LoopState
  BY DEF NoRecords, LoopState
<1> HIDE DEF N
<1>6. \A n \in 1..N, v \in LoopState :
          step[<<n, v>>] = addRecord(v, recs[n]) /\ addRecord(v, recs[n]) \in LoopState
  BY <1>1, LoopTurn
<1>7. step \in [(1..N) \X LoopState -> LoopState]
  BY <1>1, LoopTurn
<1> HIDE DEF step
<1>8. PICK f \in [0..N -> LoopState] : Recursive(f, N, NoRecords, step)
  <2>1. N \in Nat /\ NoRecords \in LoopState /\ step \in [(1..N) \X LoopState -> LoopState]
    BY <1>1, <1>5, <1>7
  <2> QED BY <2>1, Recursion
<1>9. ASSUME NEW n \in 0..N
      PROVE  f[n] = IF n = 0 THEN NoRecords ELSE addRecord(f[n - 1], recs[n])
  <2>1. f[n] = IF n = 0 THEN NoRecords ELSE step[<<n, f[n - 1]>>]
    BY <1>8 DEF Recursive
  <2>2. n # 0 => n \in 1..N /\ f[n - 1] \in LoopState
    BY <1>1
  <2> QED BY <1>6, <2>1, <2>2
<1>10. Eq(After)
  <2>1. Eq(f)
    BY <1>8, <1>9
  <2> QED BY <2>1
<1> HIDE DEF After
<1>11. After[0] = NoRecords /\ \A n \in 1..N : After[n] = addRecord(After[n - 1], recs[n])
  BY <1>1, <1>10
<1> DEFINE Good == {n \in 0..N : /\ After[n] \in LoopState
                                 /\ After[n].recordsSize = o[n]
                                 /\ IndexUpto(After[n].indices, n, recs, o)}
<1>12. 0 \in Good
  <2>1. /\ After[0] \in LoopState /\ After[0].recordsSize = o[0] /\ After[0].indices = <<>>
    BY <1>3, <1>5, <1>11 DEF NoRecords
  <2>2. IndexUpto(<<>>, 0, recs, o)
    BY DEF IndexUpto
  <2> QED BY <1>1, <2>1, <2>2
<1>13. ASSUME NEW n \in 1..N, n - 1 \in Good PROVE n \in Good
  <2> DEFINE loop == After[n - 1]
             r == recs[n]
             ix == loop.indices
             ix2 == After[n].indices
  <2>1. /\ n \in 0..N /\ loop \in LoopState /\ loop.recordsSize = o[n - 1]
        /\ IndexUpto(ix, n - 1, recs, o)
        /\ After[n] = addRecord(loop, r) /\ r \in Record
    BY <1>1, <1>11, <1>13
  <2> HIDE DEF loop
  <2>2. /\ After[n] \in LoopState
        /\ After[n].recordsSize = loop.recordsSize + encodedRecordSize(r)
        /\ \/ ix2 = Append(ix, [key |-> r.key, offset |-> loop.recordsSize])
           \/ ix2 = ix /\ loop.recordsSize # 0
    BY <2>1, LoopTurn, SMTT(30)
  <2>3. After[n].recordsSize = o[n]
    BY <1>3, <2>1, <2>2
  <2>4. /\ IndexUpto(Append(ix, [key |-> recs[n].key, offset |-> o[n - 1]]), n, recs, o)
        /\ o[n - 1] # 0 => IndexUpto(ix, n, recs, o)
    <3> HIDE DEF ix
    <3>1. /\ o \in [0..Len(recs) -> Nat] /\ o[0] = 0 /\ n \in 1..Len(recs)
          /\ \A i, j \in 0..Len(recs) : i < j => o[i] < o[j]
      BY <1>3, <1>4 DEF N
    <3> QED BY <2>1, <3>1, IndexGrows
  <2>5. IndexUpto(ix2, n, recs, o)
    BY <2>1, <2>2, <2>4
  <2> QED BY <2>1, <2>2, <2>3, <2>5
<1> HIDE DEF Good
<1>14. \A n \in 0..N : n \in Good
  BY <1>1, <1>12, <1>13, UpToInduction
<1>15. IndexUpto(After[N].indices, N, recs, o)
  BY <1>1, <1>14 DEF Good
<1> QED BY <1>2, <1>15 DEF N

-----------------------------------------------------------------------------
(***************************************************************************)
(* The filter of a table.                                                  *)
(***************************************************************************)
Filters(bits) ==
    [bitCount : {bits}, hashCount : {HashCount},
     words : [0..(wordCountFor(bits) - 1) -> SUBSET Nat]]

\* Adding a key gives a filter of the same size.
LEMMA AddInFilters ==
    ASSUME NEW bits \in Nat \ {0}, NEW f \in Filters(bits), NEW k \in HashedKeys
    PROVE  IsFilter(f) /\ Add(f, k) \in Filters(bits)
<1> DEFINE W == 0..(wordCountFor(bits) - 1)
           g == Add(f, k)
<1>1. /\ f = [bitCount |-> f.bitCount, hashCount |-> f.hashCount, words |-> f.words]
      /\ f.bitCount = bits /\ f.hashCount = HashCount /\ f.words \in [W -> SUBSET Nat]
  BY DEF Filters
<1>2. IsFilter(f)
  BY <1>1, HashAssumption DEF IsFilter
<1>3. /\ IsFilter(g) /\ g.bitCount = bits /\ g.hashCount = HashCount
      /\ \A w \in W : g.words[w] = f.words[w] \cup
             {p % WordBits : p \in {q \in Positions(f, k) : q \div WordBits = w}}
  BY <1>1, <1>2, AddShape
<1> HIDE DEF g
<1>4. /\ g = [bitCount |-> g.bitCount, hashCount |-> g.hashCount, words |-> g.words]
      /\ g.words = [w \in W |-> g.words[w]]
  BY <1>3 DEF IsFilter
<1>5. ASSUME NEW w \in W PROVE g.words[w] \in SUBSET Nat
  <2>1. ASSUME NEW p \in Positions(f, k) PROVE p % WordBits \in Nat
    <3>1. p \in 0..(bits - 1)
      BY <1>1, <1>2, PositionsInFilter
    <3> QED BY <3>1, BitsAssumption
  <2>2. f.words[w] \in SUBSET Nat
    BY <1>1
  <2> QED BY <1>3, <2>1, <2>2
<1>6. g.words \in [W -> SUBSET Nat]
  BY <1>4, <1>5
<1>7. g \in Filters(bits)
  BY <1>3, <1>4, <1>6 DEF Filters
<1> QED BY <1>2, <1>7 DEF g

\* The filter that addRecordToFile writes has every key of the table.
LEMMA BloomIs ==
    ASSUME NEW recs \in Seq(Record), recs # <<>>
    PROVE  /\ IsFilter(BloomOf(recs))
           /\ \A n \in 1..Len(recs) : mightContain(BloomOf(recs), recs[n].key)
<1> DEFINE N == Len(recs)
           bits == N * BitsPerEntry
           first == forEntries(N)
           V == Filters(bits)
           Eq(f) == f = [n \in 0..N |-> IF n = 0 THEN first ELSE Add(f[n - 1], recs[n].key)]
           step == [x \in (1..N) \X V |-> Add(x[2], recs[x[1]].key)]
           After == CHOOSE f : Eq(f)
<1>1. N \in Nat \ {0}
  BY EmptySeq
<1>2. bits \in Nat \ {0}
  BY <1>1, BitsAssumption
<1>3. \A n \in 1..N : recs[n].key \in HashedKeys
  <2>1. \A n \in 1..N : recs[n] \in Record
    OBVIOUS
  <2> QED BY <2>1, HashedAssumption DEF HashedKeys, Record
<1>4. first \in V
  <2>1. [w \in 0..(wordCountFor(bits) - 1) |-> {}] \in [0..(wordCountFor(bits) - 1) -> SUBSET Nat]
    OBVIOUS
  <2> QED BY <2>1 DEF forEntries, Filters
<1>5. BloomOf(recs) = After[N]
  BY DEF BloomOf
<1> HIDE DEF N, bits, first
<1>6. \A g \in V, k \in HashedKeys : IsFilter(g) /\ Add(g, k) \in V
  BY <1>2, AddInFilters
<1> HIDE DEF V
<1>7. \A n \in 1..N, v \in V :
          step[<<n, v>>] = Add(v, recs[n].key) /\ Add(v, recs[n].key) \in V
  BY <1>3, <1>6
<1>8. step \in [(1..N) \X V -> V]
  BY <1>3, <1>6
<1> HIDE DEF step
<1>9. PICK f \in [0..N -> V] : Recursive(f, N, first, step)
  <2>1. N \in Nat /\ first \in V /\ step \in [(1..N) \X V -> V]
    BY <1>1, <1>4, <1>8
  <2> QED BY <2>1, Recursion
<1>10. ASSUME NEW n \in 0..N
       PROVE  f[n] = IF n = 0 THEN first ELSE Add(f[n - 1], recs[n].key)
  <2>1. f[n] = IF n = 0 THEN first ELSE step[<<n, f[n - 1]>>]
    BY <1>9 DEF Recursive
  <2>2. n # 0 => n \in 1..N /\ f[n - 1] \in V
    BY <1>1
  <2> QED BY <1>7, <2>1, <2>2
<1>11. Eq(After)
  <2>1. Eq(f)
    BY <1>9, <1>10
  <2> QED BY <2>1
<1> HIDE DEF After
<1>12. After[0] = first /\ \A n \in 1..N : After[n] = Add(After[n - 1], recs[n].key)
  BY <1>1, <1>11
<1> DEFINE Good == {n \in 0..N : /\ After[n] \in V
                                 /\ \A m \in 1..n : mightContain(After[n], recs[m].key)}
<1>13. 0 \in Good
  BY <1>1, <1>4, <1>12
<1>14. ASSUME NEW n \in 1..N, n - 1 \in Good PROVE n \in Good
  <2> DEFINE g == After[n - 1]
             h == After[n]
             k == recs[n].key
  <2>1. /\ n \in 0..N /\ g \in V /\ IsFilter(g) /\ k \in HashedKeys /\ h = Add(g, k)
        /\ \A m \in 1..(n - 1) : mightContain(g, recs[m].key)
    BY <1>1, <1>3, <1>6, <1>12, <1>14
  <2> HIDE DEF g, h, k
  <2>2. h \in V
    BY <1>6, <2>1
  <2>3. ASSUME NEW m \in 1..n PROVE mightContain(h, recs[m].key)
    <3>1. recs[m].key \in HashedKeys
      BY <1>1, <1>3
    <3>2. recs[m].key = k \/ mightContain(g, recs[m].key)
      <4>1. m = n \/ m \in 1..(n - 1)
        OBVIOUS
      <4> QED BY <2>1, <4>1 DEF k
    <3>3. fromBytes(Serialize(h)) = h
      <4>1. IsFilter(h)
        BY <2>1, AddShape
      <4> QED BY <4>1, RoundTrip
    <3>4. mightContain(fromBytes(Serialize(Add(g, k))), recs[m].key)
      BY <2>1, <3>1, <3>2, NoFalseNegatives
    <3> QED BY <2>1, <3>3, <3>4
  <2> QED BY <2>1, <2>2, <2>3 DEF h
<1> HIDE DEF Good
<1>15. \A n \in 0..N : n \in Good
  BY <1>1, <1>13, <1>14, UpToInduction
<1>16. After[N] \in V /\ \A m \in 1..N : mightContain(After[N], recs[m].key)
  BY <1>1, <1>15 DEF Good
<1>17. PICK k : k \in HashedKeys
  <2>1. 1 \in 1..N
    BY <1>1
  <2> QED BY <1>3, <2>1
<1> QED BY <1>5, <1>6, <1>16, <1>17 DEF N

-----------------------------------------------------------------------------
(***************************************************************************)
(* The chunks of a table, and where they are.                              *)
(***************************************************************************)
\* The parts of a file, one after the other.
Parts(d, S, R, b, I, f) ==
    /\ d \in Seq(S) /\ Len(d) = Len(R) + Len(I) + 2
    /\ \A n \in 1..Len(R) : d[n] = R[n]
    /\ d[Len(R) + 1] = b
    /\ \A n \in 1..Len(I) : d[Len(R) + 1 + n] = I[n]
    /\ d[Len(R) + Len(I) + 2] = f

LEMMA PartsJoined ==
    ASSUME NEW S, NEW R \in Seq(S), NEW b \in S, NEW I \in Seq(S), NEW f \in S
    PROVE  Parts(R \o <<b>> \o I \o <<f>>, S, R, b, I, f)
<1> DEFINE K == Len(R)
           J == Len(I)
           u == R \o <<b>>
           v == u \o I
           d == v \o <<f>>
<1>1. K \in Nat /\ J \in Nat
  OBVIOUS
<1>2. u \in Seq(S) /\ Len(u) = K + 1 /\ u[K + 1] = b /\ \A n \in 1..K : u[n] = R[n]
  OBVIOUS
<1> HIDE DEF u, K, J
<1>3. /\ v \in Seq(S) /\ Len(v) = K + 1 + J
      /\ \A n \in 1..(K + 1) : v[n] = u[n]
      /\ \A n \in 1..J : v[K + 1 + n] = I[n]
  BY <1>1, <1>2 DEF J
<1> HIDE DEF v
<1>4. /\ d \in Seq(S) /\ Len(d) = (K + 1 + J) + 1 /\ d[(K + 1 + J) + 1] = f
      /\ \A n \in 1..(K + 1 + J) : d[n] = v[n]
  BY <1>1, <1>3
<1> HIDE DEF d
<1>5. (K + 1 + J) + 1 = K + J + 2
  BY <1>1
<1>6. \A n \in 1..K : d[n] = R[n]
  <2>1. \A n \in 1..K : n \in 1..(K + 1) /\ n \in 1..(K + 1 + J)
    BY <1>1
  <2> QED BY <1>2, <1>3, <1>4, <2>1
<1>7. d[K + 1] = b
  <2>1. K + 1 \in 1..(K + 1) /\ K + 1 \in 1..(K + 1 + J)
    BY <1>1
  <2> QED BY <1>2, <1>3, <1>4, <2>1
<1>8. ASSUME NEW n \in 1..J PROVE d[K + 1 + n] = I[n]
  <2>1. K + 1 + n \in 1..(K + 1 + J)
    BY <1>1
  <2> QED BY <1>3, <1>4, <2>1
<1>9. Parts(d, S, R, b, I, f)
  BY <1>4, <1>5, <1>6, <1>7, <1>8 DEF Parts, K, J
<1> QED BY <1>9 DEF d, v, u

\* d holds chunks as large as those of t behind its a-th.
PartOf(t, d, a) ==
    /\ Len(d) \in Nat /\ Len(t) \in Nat /\ a \in Nat /\ a + Len(t) <= Len(d)
    /\ \A n \in 1..Len(t) :
           ChunkBytes(t[n]) \in Nat /\ ChunkBytes(d[a + n]) = ChunkBytes(t[n])

\* The offsets of a part of a file are those of the part alone, moved along.
LEMMA OffsetsShift ==
    ASSUME NEW d, NEW o, AddsUp(o, d), NEW t, NEW p, AddsUp(p, t), NEW a, PartOf(t, d, a)
    PROVE  \A n \in 0..Len(t) : o[a + n] = o[a] + p[n]
<1> DEFINE N == Len(t)
           M == Len(d)
           Good == {n \in 0..N : o[a + n] = o[a] + p[n]}
<1>1. /\ N \in Nat /\ M \in Nat /\ a \in Nat /\ a + N <= M
      /\ o \in [0..M -> Nat] /\ p \in [0..N -> Nat] /\ p[0] = 0
      /\ \A n \in 1..M : o[n] = o[n - 1] + ChunkBytes(d[n])
      /\ \A n \in 1..N : p[n] = p[n - 1] + ChunkBytes(t[n])
      /\ \A n \in 1..N : ChunkBytes(t[n]) \in Nat /\ ChunkBytes(d[a + n]) = ChunkBytes(t[n])
  BY DEF AddsUp, PartOf
<1> HIDE DEF N, M
<1>2. \A n \in 0..N : a + n \in 0..M /\ o[a + n] \in Nat /\ p[n] \in Nat
  BY <1>1
<1>3. 0 \in Good
  <2>1. 0 \in 0..N /\ a + 0 = a /\ o[a] \in Nat
    BY <1>1, <1>2
  <2> QED BY <1>1, <2>1
<1>4. ASSUME NEW n \in 1..N, n - 1 \in Good PROVE n \in Good
  <2>1. /\ n \in 0..N /\ n - 1 \in 0..N /\ 0 \in 0..N /\ a + n \in 1..M
        /\ (a + n) - 1 = a + (n - 1) /\ a + 0 = a
    BY <1>1
  <2>2. o[a + n] = o[a + (n - 1)] + ChunkBytes(d[a + n])
    <3>1. o[a + n] = o[(a + n) - 1] + ChunkBytes(d[a + n])
      BY <1>1, <2>1
    <3> QED BY <2>1, <3>1
  <2>3. o[a + (n - 1)] = o[a] + p[n - 1]
    BY <1>4
  <2>4. p[n] = p[n - 1] + ChunkBytes(t[n]) /\ ChunkBytes(d[a + n]) = ChunkBytes(t[n])
    BY <1>1
  <2>5. /\ o[a] \in Nat /\ p[n - 1] \in Nat /\ p[n] \in Nat
        /\ o[a + n] \in Nat /\ o[a + (n - 1)] \in Nat
    BY <1>2, <2>1
  <2> DEFINE c == ChunkBytes(t[n])
  <2>6. o[a + n] = (o[a] + p[n - 1]) + c /\ p[n] = p[n - 1] + c /\ c \in Nat
    BY <1>1, <2>2, <2>3, <2>4
  <2> HIDE DEF c
  <2>7. o[a + n] = o[a] + p[n]
    BY <2>5, <2>6
  <2> QED BY <2>1, <2>7
<1> HIDE DEF Good
<1>5. \A n \in 0..N : n \in Good
  BY <1>1, <1>3, <1>4, UpToInduction
<1> QED BY <1>5 DEF Good, N

\* The same for the entries of the index.
LEMMA EntryBytes ==
    ASSUME NEW ix \in Seq(Entry)
    PROVE  /\ Len(Tagged("index", ix)) = Len(ix)
           /\ \A n \in 1..Len(ix) :
                  /\ Tagged("index", ix)[n] = <<"index", ix[n]>>
                  /\ ChunkBytes(Tagged("index", ix)[n]) = IndexBytes
<1> DEFINE t == Tagged("index", ix)
           N == Len(ix)
<1>1. N \in Nat /\ DOMAIN ix = 1..N
  OBVIOUS
<1>2. t = [n \in 1..N |-> <<"index", ix[n]>>]
  BY <1>1 DEF Tagged
<1>3. Len(t) = N
  <2> HIDE DEF N
  <2> QED BY <1>1, <1>2
<1>4. \A e : ChunkBytes(<<"index", e>>) = IndexBytes
  BY DEF ChunkBytes, Kind, Body
<1> QED BY <1>2, <1>3, <1>4

\* What the readers find in the file of a table: the three sizes in its footer
\* lead to the filter, the index and the records that were written.
LEMMA TableRead ==
    ASSUME NEW recs, IsTable(recs), NEW d, d = addRecordToFile(recs)
    PROVE  /\ HasFooter(d) /\ validateFooter(d)
           /\ Len(BloomSection(d)) = 1 /\ Body(BloomSection(d)[1]) = Serialize(BloomOf(recs))
           /\ Indices(d) = IndexOf(recs)
           /\ Footer(d).recordsSize = Offsets(Tagged("record", recs))[Len(recs)]
           /\ iterate(d) = recs /\ RecordsOf(d) = recs
           /\ \A a, b \in 0..Len(recs) : a < b =>
                  Bodies(Section(d, Offsets(Tagged("record", recs))[a],
                                    Offsets(Tagged("record", recs))[b]))
                      = [i \in 1..(b - a) |-> recs[a + i]]
           /\ Section(d, 0, 0) = <<>>
<1> DEFINE R == Tagged("record", recs)
           words == Serialize(BloomOf(recs))
           bloom == <<"bloom", words>>
           ix == IndexOf(recs)
           I == Tagged("index", ix)
           footer == [recordsSize |-> FileSize(R), bloomSize |-> ChunkBytes(bloom),
                      indexSize |-> FileSize(I)]
           foot == <<"footer", footer>>
           S == {<<"record", r>> : r \in Record} \cup {<<"index", e>> : e \in Entry}
                    \cup {bloom, foot}
           K == Len(recs)
           J == Len(ix)
           p == Offsets(R)
           q == Offsets(I)
           o == Offsets(d)
<1>1. recs \in Seq(Record) /\ recs # <<>> /\ K \in Nat \ {0}
  BY EmptySeq DEF IsTable
<1>2. AddsUp(p, R) /\ Len(R) = K
  <2>1. Len(R) = K /\ \A n \in 1..K : ChunkBytes(R[n]) \in Nat
    BY <1>1, RecordBytes
  <2> HIDE DEF R
  <2> QED BY <1>1, <2>1, OffsetsAddUp
<1>3. ix \in Seq(Entry) /\ ix # <<>> /\ J \in Nat
  BY <1>1, <1>2, IndexIs DEF IndexUpto
<1>4. AddsUp(q, I) /\ Len(I) = J
  <2>1. Len(I) = J /\ \A n \in 1..J : ChunkBytes(I[n]) \in Nat
    BY <1>3, EntryBytes, BytesAssumption
  <2> HIDE DEF I
  <2> QED BY <1>3, <2>1, OffsetsAddUp
<1>5. ChunkBytes(bloom) \in Nat \ {0}
  <2>1. IsFilter(BloomOf(recs))
    BY <1>1, BloomIs
  <2>2. Len(words) \in Nat /\ Len(words) >= 2
    BY <2>1, RoundTrip DEF AcceptsBytes
  <2> HIDE DEF words
  <2>3. ChunkBytes(bloom) = 8 * Len(words)
    BY DEF ChunkBytes, Kind, Body
  <2> QED BY <2>2, <2>3
<1>6. ChunkBytes(foot) = FooterBytes /\ Kind(foot) = "footer" /\ Body(foot) = footer
  <2> HIDE DEF footer
  <2> QED BY DEF ChunkBytes, Kind, Body
<1>7. /\ \A n \in 1..K : R[n] = <<"record", recs[n]>> /\ ChunkBytes(R[n]) \in Nat \ {0}
      /\ \A n \in 1..J : I[n] = <<"index", ix[n]>> /\ ChunkBytes(I[n]) = IndexBytes
  <2> HIDE DEF ix
  <2> QED BY <1>1, <1>3, RecordBytes, EntryBytes DEF ix
<1>8. d = R \o <<bloom>> \o I \o <<foot>>
  BY DEF addRecordToFile
<1>9. footer.recordsSize = p[K] /\ footer.bloomSize = ChunkBytes(bloom) /\ footer.indexSize = q[J]
  BY <1>2, <1>4 DEF FileSize
<1> HIDE DEF footer
<1>10. R \in Seq(S) /\ I \in Seq(S) /\ bloom \in S /\ foot \in S
  <2>1. R = [n \in 1..K |-> R[n]] /\ I = [n \in 1..J |-> I[n]]
    <3>1. DOMAIN recs = 1..K /\ DOMAIN ix = 1..J
      BY <1>1, <1>3
    <3> HIDE DEF ix
    <3> QED BY <3>1 DEF Tagged
  <2>2. \A n \in 1..K : R[n] \in S
    <3>1. \A n \in 1..K : recs[n] \in Record
      BY <1>1
    <3> QED BY <1>7, <3>1
  <2>3. \A n \in 1..J : I[n] \in S
    <3>1. \A n \in 1..J : ix[n] \in Entry
      BY <1>3
    <3> HIDE DEF ix
    <3> QED BY <1>7, <3>1
  <2>4. bloom \in S /\ foot \in S
    OBVIOUS
  <2> HIDE DEF S, R, I, J, K
  <2>5. R \in [1..K -> S] /\ I \in [1..J -> S]
    BY <2>1, <2>2, <2>3
  <2>6. R \in Seq(S) /\ I \in Seq(S)
    BY <1>1, <1>3, <2>5
  <2> QED BY <2>4, <2>6
<1> HIDE DEF S, R, I, bloom, foot, ix, words
<1>11. Parts(d, S, R, bloom, I, foot)
  BY <1>8, <1>10, PartsJoined
<1>12. /\ d \in Seq(S) /\ Len(d) = K + J + 2
       /\ \A n \in 1..K : d[n] = R[n]
       /\ d[K + 1] = bloom
       /\ \A n \in 1..J : d[K + 1 + n] = I[n]
       /\ d[K + J + 2] = foot
  BY <1>2, <1>4, <1>11 DEF Parts
<1>13. \A n \in 1..Len(d) : ChunkBytes(d[n]) \in Nat \ {0}
  <2>1. IndexBytes \in Nat \ {0} /\ FooterBytes \in Nat \ {0}
    BY BytesAssumption
  <2>2. ASSUME NEW n \in 1..Len(d) PROVE ChunkBytes(d[n]) \in Nat \ {0}
    <3>1. CASE n \in 1..K
      BY <1>7, <1>12, <3>1
    <3>2. CASE n = K + 1
      BY <1>5, <1>12, <3>2
    <3>3. CASE n - (K + 1) \in 1..J
      <4>1. d[K + 1 + (n - (K + 1))] = I[n - (K + 1)]
        BY <1>12, <3>3
      <4>2. K + 1 + (n - (K + 1)) = n
        BY <1>1, <1>12
      <4> QED BY <1>7, <2>1, <3>3, <4>1, <4>2
    <3>4. CASE n = K + J + 2
      BY <1>6, <1>12, <2>1, <3>4
    <3>5. n \in 1..K \/ n = K + 1 \/ n - (K + 1) \in 1..J \/ n = K + J + 2
      <4> HIDE DEF K, J
      <4> QED BY <1>1, <1>3, <1>12
    <3> QED BY <3>1, <3>2, <3>3, <3>4, <3>5
  <2> QED BY <2>2
<1>14. AddsUp(o, d) /\ Len(d) \in Nat
  BY <1>12, <1>13, OffsetsAddUp
<1> HIDE DEF o, p, q
<1>15. \A n \in 0..K : o[n] = p[n]
  <2>1. \A n \in 1..Len(R) : ChunkBytes(R[n]) \in Nat /\ ChunkBytes(d[0 + n]) = ChunkBytes(R[n])
    <3>1. \A n \in 1..K : 0 + n = n
      BY <1>1
    <3> QED BY <1>2, <1>7, <1>12, <3>1
  <2>2. 0 + Len(R) <= Len(d) /\ Len(R) \in Nat /\ 0 \in Nat
    BY <1>1, <1>2, <1>3, <1>12
  <2>3. \A n \in 0..Len(R) : o[0 + n] = o[0] + p[n]
    <3>1. PartOf(R, d, 0)
      BY <1>14, <2>1, <2>2 DEF PartOf
    <3> QED BY <1>2, <1>14, <3>1, OffsetsShift
  <2>4. o[0] = 0 /\ p \in [0..K -> Nat]
    BY <1>2, <1>14 DEF AddsUp
  <2> HIDE DEF K
  <2>5. ASSUME NEW n \in 0..K PROVE o[n] = p[n]
    <3>1. 0 + n = n /\ p[n] \in Nat
      BY <2>4
    <3>2. o[0 + n] = o[0] + p[n]
      BY <1>2, <2>3
    <3> QED BY <2>4, <3>1, <3>2
  <2> QED BY <2>5
<1>16. o[K + 1] = o[K] + ChunkBytes(bloom)
  <2>1. K + 1 \in 1..Len(d) /\ (K + 1) - 1 = K
    BY <1>1, <1>3, <1>12
  <2>2. o[K + 1] = o[(K + 1) - 1] + ChunkBytes(d[K + 1])
    BY <1>14, <2>1 DEF AddsUp
  <2> QED BY <1>12, <2>1, <2>2
<1>17. o[K + 1 + J] = o[K + 1] + q[J]
  <2>1. \A n \in 1..Len(I) :
            ChunkBytes(I[n]) \in Nat /\ ChunkBytes(d[(K + 1) + n]) = ChunkBytes(I[n])
    BY <1>4, <1>7, <1>12, BytesAssumption
  <2>2. (K + 1) + Len(I) <= Len(d) /\ Len(I) \in Nat /\ K + 1 \in Nat
    BY <1>1, <1>3, <1>4, <1>12
  <2>3. \A n \in 0..Len(I) : o[(K + 1) + n] = o[K + 1] + q[n]
    <3>1. PartOf(I, d, K + 1)
      BY <1>14, <2>1, <2>2 DEF PartOf
    <3> QED BY <1>4, <1>14, <3>1, OffsetsShift, SMTT(30)
  <2>4. J \in 0..Len(I)
    BY <1>3, <1>4
  <2> QED BY <2>3, <2>4
<1>18. o[K + J + 2] = o[K + 1 + J] + FooterBytes
  <2>1. K + J + 2 \in 1..Len(d) /\ (K + J + 2) - 1 = K + 1 + J
    BY <1>1, <1>3, <1>12
  <2>2. o[K + J + 2] = o[(K + J + 2) - 1] + ChunkBytes(d[K + J + 2])
    BY <1>14, <2>1 DEF AddsUp
  <2> QED BY <1>6, <1>12, <2>1, <2>2
<1>19. /\ 0 \in 0..Len(d) /\ K \in 0..Len(d) /\ K + 1 \in 0..Len(d) /\ K + 1 + J \in 0..Len(d)
       /\ 0 < K /\ K < K + 1 /\ K + 1 < K + 1 + J /\ K \in 0..K /\ 0 \in 0..K
  <2>1. J > 0
    BY <1>3, EmptySeq
  <2> HIDE DEF K, J
  <2> QED BY <1>1, <1>3, <1>12, <2>1
<1>20. /\ o[0] = 0 /\ o[K] \in Nat \ {0} /\ o[K + 1] \in Nat /\ o[K + 1 + J] \in Nat
       /\ q[J] \in Nat
  <2>1. o \in [0..Len(d) -> Nat] /\ o[0] = 0 /\ q \in [0..J -> Nat]
    BY <1>4, <1>14 DEF AddsUp
  <2>2. \A m, n \in 0..Len(d) : m < n => o[m] < o[n]
    BY <1>13, <1>14, OffsetsGrow
  <2>3. o[0] < o[K]
    BY <1>19, <2>2
  <2>4. J \in 0..J
    BY <1>3
  <2> QED BY <1>19, <2>1, <2>3, <2>4
<1>21. /\ Footer(d) = footer /\ HasFooter(d) /\ FileSize(d) = o[K + J + 2]
  <2>1. d # <<>> /\ d[Len(d)] = foot
    BY <1>1, <1>3, <1>12
  <2> QED BY <1>6, <1>12, <2>1 DEF Footer, HasFooter, FileSize, o
<1>22. /\ Footer(d).recordsSize = o[K]
       /\ Footer(d).recordsSize + Footer(d).bloomSize = o[K + 1]
       /\ FileSize(d) - FooterBytes = o[K + 1 + J]
       /\ validateFooter(d)
  <2>1. footer.recordsSize = o[K] /\ o[K] = p[K]
    BY <1>9, <1>15, <1>19
  <2>2. footer.recordsSize + footer.bloomSize = o[K + 1]
    BY <1>9, <1>16, <2>1
  <2>3. FooterBytes \in Nat
    BY BytesAssumption
  <2>4. FileSize(d) - FooterBytes = o[K + 1 + J]
    BY <1>18, <1>20, <1>21, <2>3
  <2>5. footer.recordsSize + footer.bloomSize + footer.indexSize + FooterBytes = FileSize(d)
    BY <1>9, <1>17, <1>18, <1>21, <2>2
  <2>6. validateFooter(d)
    BY <1>20, <1>21, <2>1, <2>5 DEF validateFooter
  <2> QED BY <1>21, <2>1, <2>2, <2>4, <2>6
<1>23. ASSUME NEW a \in 0..Len(d), NEW b \in 0..Len(d), a < b
       PROVE  /\ Len(Section(d, o[a], o[b])) = b - a
              /\ Bodies(Section(d, o[a], o[b])) = [i \in 1..(b - a) |-> Body(d[a + i])]
              /\ \A i \in 1..(b - a) : Section(d, o[a], o[b])[i] = d[a + i]
  <2>1. IsSection(Section(d, Offsets(d)[a], Offsets(d)[b]), d, a, b)
    BY <1>12, <1>13, <1>23, SectionIs
  <2> QED BY <2>1 DEF IsSection, o
<1>24. Len(BloomSection(d)) = 1 /\ Body(BloomSection(d)[1]) = words
  <2> DEFINE sec == Section(d, o[K], o[K + 1])
  <2>1. BloomSection(d) = sec
    BY <1>22 DEF BloomSection
  <2>2. Len(sec) = (K + 1) - K /\ \A i \in 1..((K + 1) - K) : sec[i] = d[K + i]
    BY <1>19, <1>23
  <2> HIDE DEF sec
  <2>3. (K + 1) - K = 1
    BY <1>1
  <2>4. sec[1] = bloom /\ Len(sec) = 1
    BY <1>12, <2>2, <2>3
  <2> QED BY <2>1, <2>4 DEF Body, bloom
<1>25. Indices(d) = ix
  <2>1. Indices(d) = Bodies(Section(d, o[K + 1], o[K + 1 + J]))
    BY <1>22 DEF Indices
  <2>2. Indices(d) = [i \in 1..((K + 1 + J) - (K + 1)) |-> Body(d[K + 1 + i])]
    BY <1>19, <1>23, <2>1
  <2>3. (K + 1 + J) - (K + 1) = J
    BY <1>1, <1>3
  <2>4. \A i \in 1..J : Body(d[K + 1 + i]) = ix[i]
    BY <1>7, <1>12 DEF Body
  <2>5. Indices(d) = [i \in 1..J |-> ix[i]]
    BY <2>2, <2>3, <2>4
  <2> QED BY <1>3, <2>5
<1>26. ASSUME NEW a \in 0..K, NEW b \in 0..K, a < b
       PROVE  Bodies(Section(d, p[a], p[b])) = [i \in 1..(b - a) |-> recs[a + i]]
  <2>1. a \in 0..Len(d) /\ b \in 0..Len(d) /\ o[a] = p[a] /\ o[b] = p[b]
    BY <1>1, <1>3, <1>12, <1>15
  <2>2. Bodies(Section(d, p[a], p[b])) = [i \in 1..(b - a) |-> Body(d[a + i])]
    BY <1>23, <1>26, <2>1
  <2>3. ASSUME NEW i \in 1..(b - a) PROVE Body(d[a + i]) = recs[a + i]
    <3>1. a + i \in 1..K
      BY <1>1
    <3> QED BY <1>7, <1>12, <3>1 DEF Body
  <2> QED BY <2>2, <2>3
<1>27. recs = [i \in 1..K |-> recs[i]]
  BY <1>1
<1>28. iterate(d) = recs
  <2>1. iterate(d) = Bodies(Section(d, p[0], p[K]))
    <3>1. Footer(d).recordsSize = p[K] /\ p[0] = 0
      BY <1>15, <1>19, <1>20, <1>22
    <3> QED BY <3>1 DEF iterate
  <2>2. iterate(d) = [i \in 1..(K - 0) |-> recs[0 + i]]
    BY <1>19, <1>26, <2>1
  <2>3. K - 0 = K /\ \A i \in 1..K : 0 + i = i
    BY <1>1
  <2> HIDE DEF K
  <2>4. iterate(d) = [i \in 1..K |-> recs[i]]
    BY <2>2, <2>3
  <2> QED BY <1>27, <2>4
<1>29. RecordsOf(d) = recs
  <2>1. ASSUME NEW n \in DOMAIN d PROVE Kind(d[n]) = "record" <=> n \in 1..K
    <3>1. n \in 1..Len(d)
      BY <1>12
    <3>2. CASE n \in 1..K
      BY <1>7, <1>12, <3>2 DEF Kind
    <3>3. CASE n = K + 1
      BY <1>1, <1>12, <3>3 DEF Kind, bloom
    <3>4. CASE n - (K + 1) \in 1..J
      <4>1. d[K + 1 + (n - (K + 1))] = I[n - (K + 1)]
        BY <1>12, <3>4
      <4>2. K + 1 + (n - (K + 1)) = n /\ n \notin 1..K
        <5>1. K \in Nat /\ J \in Nat /\ n \in Int
          BY <1>1, <1>3, <1>14, <3>1
        <5> HIDE DEF K, J
        <5> QED BY <3>4, <5>1
      <4>3. d[n] = <<"index", ix[n - (K + 1)]>>
        BY <1>7, <3>4, <4>1, <4>2
      <4> QED BY <4>2, <4>3 DEF Kind
    <3>5. CASE n = K + J + 2
      BY <1>1, <1>3, <1>6, <1>12, <3>5
    <3>6. n \in 1..K \/ n = K + 1 \/ n - (K + 1) \in 1..J \/ n = K + J + 2
      <4> HIDE DEF K, J
      <4> QED BY <1>1, <1>3, <1>12, <3>1
    <3> QED BY <3>2, <3>3, <3>4, <3>5, <3>6
  <2>2. \A n \in 1..K : n \in DOMAIN d
    BY <1>1, <1>3, <1>12
  <2>3. {m \in DOMAIN d : Kind(d[m]) = "record"} = 1..K
    BY <2>1, <2>2
  <2>4. \A n \in 1..K : Body(d[n]) = recs[n]
    BY <1>7, <1>12 DEF Body
  <2>5. RecordsOf(d) = [n \in 1..K |-> recs[n]]
    BY <2>3, <2>4 DEF RecordsOf
  <2> QED BY <1>27, <2>5
<1>30. Section(d, 0, 0) = <<>>
  <2>1. \A n \in DOMAIN d : Start(d, n) \in Nat
    <3>1. o \in [0..Len(d) -> Nat] /\ DOMAIN d = 1..Len(d)
      BY <1>12, <1>14 DEF AddsUp
    <3>2. \A n \in 1..Len(d) : n - 1 \in 0..Len(d)
      BY <1>14
    <3> QED BY <3>1, <3>2 DEF Start, o
  <2>2. {n \in DOMAIN d : Start(d, n) >= 0 /\ Start(d, n) < 0} = {}
    BY <2>1
  <2> QED BY <2>2 DEF Section
<1>31. Footer(d).recordsSize = p[K]
  BY <1>15, <1>19, <1>22
<1> QED BY <1>21, <1>22, <1>24, <1>25, <1>26, <1>28, <1>29, <1>30, <1>31 DEF p, R, words, ix

-----------------------------------------------------------------------------
(***************************************************************************)
(* Lookups.                                                                *)
(***************************************************************************)
\* The newest of some versions, where no two have the same sequence number.
LEMMA NewestIn ==
    ASSUME NEW V, NEW r \in V, \A q \in V : q.seq \in Nat,
           \A q \in V : r = q \/ r.seq > q.seq
    PROVE  Newest(V) = r
<1>1. \A q \in V : q.seq <= r.seq
  OBVIOUS
<1> DEFINE c == CHOOSE x \in V : \A q \in V : q.seq <= x.seq
<1>2. c \in V /\ \A q \in V : q.seq <= c.seq
  BY <1>1
<1>3. Newest(V) = c
  BY DEF Newest
<1> HIDE DEF c
<1> QED BY <1>2, <1>3

\* Keys ascend through a table.
LEMMA KeysAscend ==
    ASSUME NEW recs, IsTable(recs)
    PROVE  /\ \A n \in 1..Len(recs) : recs[n] \in Record /\ recs[n].key \in Nat /\ recs[n].seq \in Nat
           /\ \A m, n \in 1..Len(recs) : m <= n => recs[m].key <= recs[n].key
<1>1. recs \in Seq(Record) /\ Len(recs) \in Nat /\ DOMAIN recs = 1..Len(recs)
  BY DEF IsTable
<1>2. ASSUME NEW r \in Record PROVE r.key \in Nat /\ r.seq \in Nat
  <2>1. r.key \in Keys /\ r.seq \in 1..MaxSeq
    BY DEF Record
  <2>2. r.key \in Nat
    BY <2>1, KeysAssumption, Zenon
  <2>3. r.seq \in Nat
    BY <2>1, SeqAssumption
  <2> QED BY <2>2, <2>3
<1>3. \A n \in 1..Len(recs) : recs[n] \in Record
  BY <1>1
<1>4. ASSUME NEW m \in 1..Len(recs), NEW n \in 1..Len(recs), m <= n
      PROVE  recs[m].key <= recs[n].key
  <2>1. recs[m].key \in Nat /\ recs[n].key \in Nat
    BY <1>2, <1>3
  <2>2. m = n \/ InOrder(recs[m], recs[n])
    BY <1>1, <1>4 DEF IsTable
  <2> QED BY <2>1, <2>2 DEF InOrder
<1> QED BY <1>2, <1>3, <1>4

\* All that recs has of key k is behind the a-th record, up to the b-th.
Surrounds(recs, a, b, k) ==
    /\ a \in 0..Len(recs) /\ b \in 0..Len(recs) /\ a < b
    /\ \A n \in 1..a : recs[n].key < k
    /\ \A n \in (b + 1)..Len(recs) : recs[n].key > k

Slice(recs, a, b) == [i \in 1..(b - a) |-> recs[a + i]]

\* What get makes of the records of a block.
Found(block, k, s) ==
    LET stops == {n \in DOMAIN block :
                     block[n].key > k \/ (block[n].key = k /\ block[n].seq <= s)}
    IN  IF stops = {} \/ block[Min(stops)].key > k THEN Absent ELSE block[Min(stops)]

\* A search of the records that surround those of key k finds what there is.
LEMMA SearchFinds ==
    ASSUME NEW recs, IsTable(recs), NEW k \in Nat, NEW s \in Nat,
           NEW a, NEW b, Surrounds(recs, a, b, k)
    PROVE  SourceGet(ToSet(recs), k, s) = Found(Slice(recs, a, b), k, s)
<1> DEFINE block == Slice(recs, a, b)
           stops == {n \in DOMAIN block :
                        block[n].key > k \/ (block[n].key = k /\ block[n].seq <= s)}
<1>0. SUFFICES SourceGet(ToSet(recs), k, s)
                   = IF stops = {} \/ block[Min(stops)].key > k THEN Absent ELSE block[Min(stops)]
  BY DEF Found
<1> DEFINE K == Len(recs)
           V == Visible(ToSet(recs), k, s)
<1>1. K \in Nat /\ DOMAIN recs = 1..K /\ a \in 0..K /\ b \in 0..K
  BY DEF IsTable, Surrounds
<1>2. \A n \in 1..K : recs[n] \in Record /\ recs[n].key \in Nat /\ recs[n].seq \in Nat
  BY KeysAscend
<1>3. \A m, n \in 1..K : m <= n => recs[m].key <= recs[n].key
  BY KeysAscend
<1>4. \A m, n \in 1..K : m < n => InOrder(recs[m], recs[n])
  BY <1>1 DEF IsTable
<1>5. SourceGet(ToSet(recs), k, s) = Newest(V)
  BY DEF SourceGet
<1>6. \A r : r \in V <=> \E n \in 1..K : r = recs[n] /\ r.key = k /\ r.seq <= s
  BY <1>1 DEF Visible, ToSet
<1>7. (\A n \in 1..a : recs[n].key < k) /\ (\A n \in (b + 1)..K : recs[n].key > k)
  BY DEF Surrounds
<1> HIDE DEF V, K
<1>8. \A i \in 1..(b - a) : a + i \in 1..K /\ block[i] = recs[a + i]
  BY <1>1 DEF Slice
<1>9. \A i : i \in stops <=> /\ i \in 1..(b - a)
                             /\ \/ recs[a + i].key > k
                                \/ recs[a + i].key = k /\ recs[a + i].seq <= s
  <2>1. DOMAIN block = 1..(b - a)
    BY DEF Slice
  <2> QED BY <1>8, <2>1
<1> HIDE DEF stops, block
<1>10. ASSUME NEW n \in 1..K, recs[n].key = k, recs[n].seq <= s PROVE n - a \in stops
  <2>1. n \notin 1..a /\ n \notin (b + 1)..K
    BY <1>2, <1>7, <1>10
  <2>2. n - a \in 1..(b - a) /\ a + (n - a) = n
    BY <1>1, <2>1
  <2> QED BY <1>9, <1>10, <2>2
<1>11. CASE stops = {}
  <2>1. V = {}
    BY <1>6, <1>10, <1>11
  <2> QED BY <1>5, <1>11, <2>1 DEF Newest
<1>12. CASE stops # {}
  <2> DEFINE m == Min(stops)
  <2>1. stops \in SUBSET Nat
    BY <1>1, <1>9
  <2>2. m \in stops /\ \A i \in stops : m <= i
    BY <1>12, <2>1, MinNat
  <2> HIDE DEF m
  <2>3. /\ m \in 1..(b - a) /\ a + m \in 1..K /\ block[m] = recs[a + m]
        /\ recs[a + m].key > k \/ (recs[a + m].key = k /\ recs[a + m].seq <= s)
    BY <1>8, <1>9, <2>2
  <2>4. ASSUME NEW n \in 1..K, recs[n].key = k, recs[n].seq <= s PROVE a + m <= n
    <3>1. m <= n - a
      BY <1>10, <2>2, <2>4
    <3> QED BY <1>1, <2>3, <3>1
  <2>5. CASE recs[a + m].key > k
    <3>1. V = {}
      <4>1. SUFFICES ASSUME NEW r \in V PROVE FALSE
        OBVIOUS
      <4>2. PICK n \in 1..K : recs[n].key = k /\ recs[n].seq <= s
        BY <1>6, <4>1
      <4>3. recs[a + m].key <= recs[n].key
        BY <1>3, <2>3, <2>4, <4>2
      <4> QED BY <1>2, <2>3, <2>5, <4>2, <4>3
    <3>2. SourceGet(ToSet(recs), k, s) = Absent
      BY <1>5, <3>1 DEF Newest
    <3> QED BY <2>3, <2>5, <3>2 DEF m
  <2>6. CASE recs[a + m].key = k /\ recs[a + m].seq <= s
    <3>1. recs[a + m] \in V
      BY <1>6, <2>3, <2>6
    <3>2. ASSUME NEW q \in V
          PROVE  q.seq \in Nat /\ (recs[a + m] = q \/ recs[a + m].seq > q.seq)
      <4>1. PICK n \in 1..K : q = recs[n] /\ recs[n].key = k /\ recs[n].seq <= s
        BY <1>6, <3>2
      <4>2. a + m <= n
        BY <2>4, <4>1
      <4>3. a + m = n \/ InOrder(recs[a + m], recs[n])
        BY <1>1, <1>4, <2>3, <4>2
      <4>4. recs[a + m].key \in Nat
        BY <2>6
      <4> QED BY <1>2, <2>6, <4>1, <4>3, <4>4 DEF InOrder
    <3>3. Newest(V) = recs[a + m]
      BY <3>1, <3>2, NewestIn
    <3>4. ~(block[m].key > k)
      BY <2>3, <2>6
    <3> QED BY <1>5, <1>12, <2>3, <3>3, <3>4 DEF m
  <2> QED BY <2>3, <2>5, <2>6
<1> QED BY <1>11, <1>12

\* The sparse index is as readSparseIndex demands, and its entries name records.
LEMMA TableIndex ==
    ASSUME NEW recs, IsTable(recs), NEW p, p = Offsets(Tagged("record", recs))
    PROVE  /\ p \in [0..Len(recs) -> Nat] /\ p[0] = 0
           /\ \A m, n \in 0..Len(recs) : m < n => p[m] < p[n]
           /\ IndexUpto(IndexOf(recs), Len(recs), recs, p)
           /\ \A i, j \in 1..Len(IndexOf(recs)) :
                  i < j => IndexOf(recs)[i].key <= IndexOf(recs)[j].key
           /\ IndexInOrder(IndexOf(recs), p[Len(recs)])
<1> DEFINE t == Tagged("record", recs)
           ix == IndexOf(recs)
           K == Len(recs)
           J == Len(ix)
<1>1. recs \in Seq(Record) /\ K \in Nat \ {0}
  BY EmptySeq DEF IsTable
<1>2. Len(t) = K /\ \A n \in 1..K : ChunkBytes(t[n]) \in Nat \ {0}
  BY <1>1, RecordBytes
<1>3. AddsUp(p, t)
  <2> HIDE DEF t
  <2>1. p = Offsets(t)
    BY DEF t
  <2> QED BY <1>1, <1>2, <2>1, OffsetsAddUp
<1>4. IndexUpto(ix, K, recs, p)
  BY <1>1, <1>3, IndexIs
<1> HIDE DEF t, ix
<1>5. p \in [0..K -> Nat] /\ p[0] = 0
  BY <1>2, <1>3 DEF AddsUp
<1>6. \A m, n \in 0..K : m < n => p[m] < p[n]
  <2>1. Len(t) \in Nat /\ \A n \in 1..Len(t) : ChunkBytes(t[n]) \in Nat \ {0}
    BY <1>1, <1>2
  <2>2. \A m, n \in 0..Len(t) : m < n => p[m] < p[n]
    BY <1>3, <2>1, OffsetsGrow
  <2> QED BY <1>2, <2>2
<1>7. /\ ix \in Seq(Entry) /\ ix # <<>> /\ ix[1].offset = 0 /\ J \in Nat
      /\ \A i, j \in 1..J : i < j => ix[i].offset < ix[j].offset
  BY <1>1, <1>4 DEF IndexUpto
<1>8. ASSUME NEW i \in 1..J
      PROVE  \E b \in 1..K : ix[i].key = recs[b].key /\ ix[i].offset = p[b - 1]
  BY <1>4 DEF IndexUpto
<1> HIDE DEF K, J
<1>9. ASSUME NEW i \in 1..J, NEW j \in 1..J, i < j PROVE ix[i].key <= ix[j].key
  <2>1. PICK b \in 1..K : ix[i].key = recs[b].key /\ ix[i].offset = p[b - 1]
    BY <1>8
  <2>2. PICK c \in 1..K : ix[j].key = recs[c].key /\ ix[j].offset = p[c - 1]
    BY <1>8
  <2>3. p[b - 1] < p[c - 1]
    BY <1>7, <1>9, <2>1, <2>2
  <2>4. b - 1 \in 0..K /\ c - 1 \in 0..K /\ p[b - 1] \in Nat /\ p[c - 1] \in Nat
    BY <1>1, <1>5
  <2>5. b <= c
    <3>1. SUFFICES ASSUME c < b PROVE FALSE
      OBVIOUS
    <3>2. c - 1 < b - 1
      BY <3>1
    <3>3. p[c - 1] < p[b - 1]
      BY <1>6, <2>4, <3>2
    <3> QED BY <2>3, <2>4, <3>3
  <2>6. recs[b].key <= recs[c].key
    BY <2>5, KeysAscend DEF K
  <2> QED BY <2>1, <2>2, <2>6
<1>10. ASSUME NEW i \in 1..J PROVE ix[i].offset < p[K]
  <2>1. PICK b \in 1..K : ix[i].offset = p[b - 1]
    BY <1>8
  <2>2. b - 1 \in 0..K /\ K \in 0..K /\ b - 1 < K
    BY <1>1
  <2> QED BY <1>6, <2>1, <2>2
<1>11. IndexInOrder(ix, p[K])
  <2>1. \A n \in DOMAIN ix : ix[n].offset < p[K]
    BY <1>7, <1>10 DEF J
  <2>2. \A n \in 1..(J - 1) : n \in 1..J /\ n + 1 \in 1..J /\ n < n + 1
    BY <1>7
  <2>3. \A n \in 1..(J - 1) : ix[n].offset < ix[n + 1].offset /\ ix[n].key <= ix[n + 1].key
    BY <1>7, <1>9, <2>2
  <2> QED BY <1>7, <2>1, <2>3 DEF IndexInOrder, J
<1> QED BY <1>4, <1>5, <1>6, <1>9, <1>11 DEF ix, K, J

\* getBlock's range is bounded by two records, and leaves out no record of key k.
LEMMA BlockHolds ==
    ASSUME NEW recs, IsTable(recs), NEW p, p = Offsets(Tagged("record", recs)),
           NEW ix, ix = IndexOf(recs), NEW k \in Nat, ~(ix[1].key > k)
    PROVE  \E a, b \in 0..Len(recs) :
               /\ a < b
               /\ getBlock(ix, p[Len(recs)], k) = [from |-> p[a], to |-> p[b]]
               /\ \A n \in 1..a : recs[n].key < k
               /\ \A n \in (b + 1)..Len(recs) : recs[n].key > k
<1> DEFINE K == Len(recs)
           J == Len(ix)
           T == {n \in DOMAIN ix : ix[n].key >= k} \cup {J + 1}
           position == Min(T)
           first == FirstBlock(ix, k)
           after == {n \in first..J : ix[n].key > k}
<1>1. /\ p \in [0..K -> Nat] /\ p[0] = 0
      /\ \A m, n \in 0..K : m < n => p[m] < p[n]
      /\ IndexUpto(ix, K, recs, p)
      /\ \A i, j \in 1..J : i < j => ix[i].key <= ix[j].key
  BY TableIndex
<1>2. recs \in Seq(Record) /\ K \in Nat \ {0}
  BY EmptySeq DEF IsTable
<1>3. /\ ix \in Seq(Entry) /\ ix # <<>> /\ ix[1].offset = 0 /\ J \in Nat \ {0}
      /\ \A i, j \in 1..J : i < j => ix[i].offset < ix[j].offset
  BY <1>1, <1>2, EmptySeq DEF IndexUpto
<1>4. ASSUME NEW i \in 1..J
      PROVE  \E b \in 1..K : ix[i].key = recs[b].key /\ ix[i].offset = p[b - 1]
  BY <1>1 DEF IndexUpto
<1>5. \A n \in 1..K : recs[n].key \in Nat
  BY KeysAscend
<1>6. \A m, n \in 1..K : m <= n => recs[m].key <= recs[n].key
  BY KeysAscend
<1>7. \A i \in 1..J : ix[i].key \in Nat
  BY <1>4, <1>5
<1>8. getBlock(ix, p[K], k)
          = [from |-> ix[first].offset,
             to |-> IF after = {} THEN p[K] ELSE ix[Min(after)].offset]
  BY DEF getBlock
<1>9. first = IF position = 1 THEN 1 ELSE position - 1
  BY DEF FirstBlock
<1>10. DOMAIN ix = 1..J
  BY <1>3
<1> HIDE DEF K, J, first
<1>11. position \in T /\ \A n \in T : position <= n
  <2>1. T \in SUBSET Nat /\ T # {}
    BY <1>3, <1>10
  <2> HIDE DEF T
  <2> QED BY <2>1, MinNat
<1>12. /\ first \in 1..J
       /\ (position = 1 /\ first = 1) \/ ix[first].key < k
  <2> HIDE DEF position
  <2>1. position \in 1..(J + 1)
    BY <1>3, <1>10, <1>11
  <2>2. CASE position = 1
    BY <1>3, <1>9, <2>2
  <2>3. CASE position # 1
    <3>1. first = position - 1 /\ first \in 1..J /\ first < position
      BY <1>3, <1>9, <2>1, <2>3
    <3>2. first \notin T
      BY <1>11, <2>1, <3>1
    <3>3. ~(ix[first].key >= k)
      BY <1>10, <3>1, <3>2
    <3> QED BY <1>7, <3>1, <3>3
  <2> QED BY <2>2, <2>3
<1>13. ix[first].key <= k
  BY <1>7, <1>12
<1> HIDE DEF T, position
<1>14. PICK c \in 1..K : ix[first].key = recs[c].key /\ ix[first].offset = p[c - 1]
  BY <1>4, <1>12
<1> DEFINE a == c - 1
<1>15. a \in 0..K /\ a < K /\ p[a] = ix[first].offset
  BY <1>2, <1>14
<1>16. ASSUME NEW n \in 1..a PROVE recs[n].key < k
  <2>1. n \in 1..K /\ n <= c /\ recs[n].key <= recs[c].key
    BY <1>2, <1>6
  <2>2. CASE ix[first].key < k
    BY <1>5, <1>14, <2>1, <2>2
  <2>3. CASE first = 1
    <3>1. p[a] = 0
      BY <1>3, <1>15, <2>3
    <3>2. a = 0
      <4>1. SUFFICES ASSUME a # 0 PROVE FALSE
        OBVIOUS
      <4>2. 0 \in 0..K /\ 0 < a
        BY <1>2, <1>15, <4>1
      <4>3. p[0] < p[a]
        BY <1>1, <1>15, <4>2
      <4> QED BY <1>1, <3>1, <4>3
    <3> QED BY <3>2
  <2> QED BY <1>12, <2>2, <2>3
<1> HIDE DEF a
<1>17. CASE after = {}
  <2>1. getBlock(ix, p[K], k) = [from |-> p[a], to |-> p[K]]
    BY <1>8, <1>15, <1>17
  <2>2. K \in 0..K /\ (K + 1)..K = {}
    BY <1>2
  <2> QED BY <1>15, <1>16, <2>1, <2>2 DEF K
<1>18. CASE after # {}
  <2> DEFINE m == Min(after)
  <2>1. after \in SUBSET Nat
    BY <1>12
  <2>2. m \in after
    <3> HIDE DEF after
    <3> QED BY <1>18, <2>1, MinNat
  <2>3. getBlock(ix, p[K], k) = [from |-> p[a], to |-> ix[m].offset]
    BY <1>8, <1>15, <1>18
  <2> HIDE DEF m
  <2>4. m \in 1..J /\ first < m /\ ix[m].key > k
    <3>1. m \in first..J /\ ix[m].key > k
      BY <2>2
    <3>2. m # first
      BY <1>7, <1>12, <1>13, <3>1
    <3> QED BY <1>3, <1>12, <3>1, <3>2
  <2>5. PICK e \in 1..K : ix[m].key = recs[e].key /\ ix[m].offset = p[e - 1]
    BY <1>4, <2>4
  <2> DEFINE b == e - 1
  <2>6. b \in 0..K /\ p[b] = ix[m].offset /\ b + 1 = e
    BY <1>2, <2>5
  <2>7. p[a] < p[b]
    BY <1>3, <1>12, <1>15, <2>4, <2>6
  <2>8. a < b
    <3>1. SUFFICES ASSUME b <= a PROVE FALSE
      BY <1>15, <2>6
    <3>2. b = a \/ p[b] < p[a]
      BY <1>1, <1>15, <2>6, <3>1
    <3>3. p[a] \in Nat /\ p[b] \in Nat
      BY <1>1, <1>15, <2>6
    <3> QED BY <2>7, <3>2, <3>3
  <2>9. ASSUME NEW n \in (b + 1)..K PROVE recs[n].key > k
    <3>1. n \in 1..K /\ e <= n
      BY <1>2, <2>6
    <3>2. recs[e].key <= recs[n].key
      BY <1>6, <3>1
    <3> QED BY <1>5, <2>4, <2>5, <3>1, <3>2
  <2>10. getBlock(ix, p[K], k) = [from |-> p[a], to |-> p[b]]
    BY <2>3, <2>6
  <2> HIDE DEF b
  <2> QED BY <1>15, <1>16, <2>6, <2>8, <2>9, <2>10 DEF K
<1> QED BY <1>17, <1>18

-----------------------------------------------------------------------------
\* What is found under a path and is no MANIFEST is the file of a table.
LEMMA FoundIsTable ==
    ASSUME PathWhole, TableFound
    PROVE  \E recs : IsTable(recs) /\ path.data = addRecordToFile(recs)
<1>1. path \in WholeFile
  BY DEF PathWhole, TableFound
<1>2. path.data \in Contents
  BY <1>1, WholeSurvives
<1> QED BY <1>2, TablesAssumption DEF TableFound

\* The constructor and the iterator read a table as it was written.
LEMMA TableIsOpened ==
    ASSUME NEW recs, IsTable(recs), NEW d, d = addRecordToFile(recs)
    PROVE  Opens(d) /\ iterate(d) = RecordsOf(d)
<1>1. /\ HasFooter(d) /\ validateFooter(d)
      /\ Len(BloomSection(d)) = 1 /\ Body(BloomSection(d)[1]) = Serialize(BloomOf(recs))
      /\ Indices(d) = IndexOf(recs)
      /\ Footer(d).recordsSize = Offsets(Tagged("record", recs))[Len(recs)]
      /\ iterate(d) = recs /\ RecordsOf(d) = recs
  BY TableRead
<1>2. AcceptsBytes(Serialize(BloomOf(recs)))
  BY BloomIs, RoundTrip DEF IsTable
<1>3. IndexInOrder(IndexOf(recs), Offsets(Tagged("record", recs))[Len(recs)])
  BY TableIndex
<1> QED BY <1>1, <1>2, <1>3 DEF Opens

\* SSTable::get answers what a search of all records answers.
LEMMA TableIsSearched ==
    ASSUME NEW recs, IsTable(recs), NEW d, d = addRecordToFile(recs),
           NEW k \in Keys, NEW s \in 0..MaxSeq
    PROVE  tableGet(d, k, s) = SourceGet(ToSet(RecordsOf(d)), k, s)
<1> DEFINE p == Offsets(Tagged("record", recs))
           ix == IndexOf(recs)
           K == Len(recs)
           range == getBlock(ix, p[K], k)
           block == Bodies(Section(d, range.from, range.to))
           stops == {n \in DOMAIN block :
                        block[n].key > k \/ (block[n].key = k /\ block[n].seq <= s)}
           contains == mightContain(fromBytes(Body(BloomSection(d)[1])), k)
           answer == SourceGet(ToSet(recs), k, s)
<1>1. /\ Body(BloomSection(d)[1]) = Serialize(BloomOf(recs))
      /\ Indices(d) = ix /\ Footer(d).recordsSize = p[K] /\ RecordsOf(d) = recs
      /\ Section(d, 0, 0) = <<>>
  BY TableRead
<1>2. \A a, b \in 0..K : a < b =>
          Bodies(Section(d, p[a], p[b])) = [i \in 1..(b - a) |-> recs[a + i]]
  BY TableRead
<1>3. tableGet(d, k, s) = IF ~contains \/ stops = {} \/ block[Min(stops)].key > k
                          THEN Absent ELSE block[Min(stops)]
  BY <1>1 DEF tableGet
<1>4. k \in Nat /\ s \in Nat /\ k \in HashedKeys
  BY KeysAssumption, SeqAssumption, HashedAssumption DEF HashedKeys
<1>5. /\ recs \in Seq(Record) /\ recs # <<>> /\ K \in Nat \ {0} /\ DOMAIN recs = 1..K
  BY EmptySeq DEF IsTable
<1>6. ASSUME \A n \in 1..K : recs[n].key # k PROVE answer = Absent
  <2>1. Visible(ToSet(recs), k, s) = {}
    BY <1>5, <1>6 DEF Visible, ToSet
  <2> QED BY <2>1 DEF SourceGet, Newest
<1>7. CASE ~contains
  <2>1. fromBytes(Serialize(BloomOf(recs))) = BloomOf(recs)
    BY <1>5, BloomIs, RoundTrip
  <2>2. ~mightContain(BloomOf(recs), k)
    BY <1>1, <1>7, <2>1
  <2>3. \A n \in 1..K : recs[n].key # k
    BY <1>5, <2>2, BloomIs
  <2>4. tableGet(d, k, s) = Absent
    BY <1>3, <1>7
  <2> QED BY <1>1, <1>6, <2>3, <2>4
<1>8. CASE contains /\ ix[1].key > k
  <2>1. range.from = 0 /\ range.to = 0
    BY <1>8 DEF getBlock
  <2>2. block = <<>>
    BY <1>1, <2>1 DEF Bodies
  <2>3. stops = {}
    <3> HIDE DEF block
    <3> QED BY <2>2
  <2>4. tableGet(d, k, s) = Absent
    <3> HIDE DEF block, stops, contains
    <3> QED BY <1>3, <2>3, Zenon
  <2>5. \A n \in 1..K : recs[n].key # k
    <3>1. /\ p[0] = 0 /\ p \in [0..K -> Nat] /\ \A m, n \in 0..K : m < n => p[m] < p[n]
          /\ IndexUpto(ix, K, recs, p)
      BY TableIndex
    <3>2. 1 \in 1..Len(ix) /\ ix[1].offset = 0
      BY <1>5, <3>1, EmptySeq DEF IndexUpto
    <3>3. PICK b \in 1..K : ix[1].key = recs[b].key /\ ix[1].offset = p[b - 1]
      BY <3>1, <3>2 DEF IndexUpto
    <3>4. b = 1
      <4>1. SUFFICES ASSUME b # 1 PROVE FALSE
        OBVIOUS
      <4>2. 0 \in 0..K /\ b - 1 \in 0..K /\ 0 < b - 1
        BY <1>5, <4>1
      <4>3. p[0] < p[b - 1]
        BY <3>1, <4>2
      <4> QED BY <3>1, <3>2, <3>3, <4>3
    <3>5. ASSUME NEW n \in 1..K PROVE recs[n].key # k
      <4>1. 1 \in 1..K /\ 1 <= n
        BY <1>5
      <4>2. recs[1].key <= recs[n].key /\ recs[1].key \in Nat /\ recs[n].key \in Nat
        BY <4>1, KeysAscend
      <4> QED BY <1>4, <1>8, <3>3, <3>4, <4>2
    <3> QED BY <3>5
  <2> QED BY <1>1, <1>6, <2>4, <2>5
<1>9. CASE contains /\ ~(ix[1].key > k)
  <2>1. PICK a \in 0..K, b \in 0..K :
            /\ a < b
            /\ range = [from |-> p[a], to |-> p[b]]
            /\ \A n \in 1..a : recs[n].key < k
            /\ \A n \in (b + 1)..K : recs[n].key > k
    BY <1>4, <1>9, BlockHolds
  <2>2. range.from = p[a] /\ range.to = p[b]
    BY <2>1
  <2>3. block = Slice(recs, a, b)
    BY <1>2, <2>1, <2>2 DEF Slice
  <2>4. Surrounds(recs, a, b, k)
    BY <2>1 DEF Surrounds
  <2>5. answer = Found(block, k, s)
    <3> HIDE DEF block
    <3> QED BY <1>4, <2>3, <2>4, SearchFinds
  <2>6. tableGet(d, k, s) = Found(block, k, s)
    <3> HIDE DEF block, contains
    <3> QED BY <1>3, <1>9 DEF Found
  <2> QED BY <1>1, <2>5, <2>6
<1> QED BY <1>7, <1>8, <1>9

\* Through every failure, crash and power loss: the constructor accepts the file
\* it finds under a table's path, and the iterator returns the records that were
\* written; for every set of tables and every size of records and blocks.
THEOREM TablesOpen == Spec => []TableOpens
<1>1. Spec => []WriterInv
  BY WriterInit, WriterStep, PTL DEF Spec
<1>2. WriterInv => TableOpens
  <2>1. SUFFICES ASSUME PathWhole, TableFound
                 PROVE  Opens(path.data) /\ iterate(path.data) = RecordsOf(path.data)
    BY DEF WriterInv, TableOpens
  <2> QED BY <2>1, FoundIsTable, TableIsOpened
<1> QED BY <1>1, <1>2, PTL

\* And get, by way of the filter, the sparse index and one run of blocks, answers
\* what a search of all records answers, for every key and read point.
THEOREM LookupsComplete == Spec => []GetSearchesEnough
<1>1. Spec => []WriterInv
  BY WriterInit, WriterStep, PTL DEF Spec
<1>2. WriterInv => GetSearchesEnough
  <2>1. SUFFICES ASSUME PathWhole, TableFound, NEW k \in Keys, NEW s \in 0..MaxSeq
                 PROVE  tableGet(path.data, k, s)
                            = SourceGet(ToSet(RecordsOf(path.data)), k, s)
    BY DEF WriterInv, GetSearchesEnough
  <2>2. PICK recs : IsTable(recs) /\ path.data = addRecordToFile(recs)
    BY <2>1, FoundIsTable
  <2> QED BY <2>2, TableIsSearched
<1> QED BY <1>1, <1>2, PTL

-----------------------------------------------------------------------------
(***************************************************************************)
(* MANIFESTs.  A stream that has read some values, with the rest in front. *)
(***************************************************************************)
At(rest, got) == [rest |-> rest, got |-> got, state |-> "good"]

Widths == {"u64", "u32", "u8", "key"}
Fields == Widths \X Nat

\* Sequences of one and two elements, and the grouping of five.
LEMMA ShortSequences ==
    ASSUME NEW S, NEW a \in S, NEW b \in S
    PROVE  <<a>> \in Seq(S) /\ <<a, b>> \in Seq(S) /\ <<a, b>> = <<a>> \o <<b>>
<1>1. <<a>> \in Seq(S) /\ <<b>> \in Seq(S) /\ <<a, b>> \in Seq(S)
  OBVIOUS
<1>2. Len(<<a, b>>) = Len(<<a>> \o <<b>>)
  OBVIOUS
<1>3. \A i \in 1..2 : <<a, b>>[i] = (<<a>> \o <<b>>)[i]
  OBVIOUS
<1>4. <<a>> \o <<b>> \in Seq(S)
  BY <1>1, ConcatProperties
<1> DEFINE x == <<a, b>>
           y == <<a>> \o <<b>>
<1>5. x \in Seq(S) /\ y \in Seq(S) /\ Len(x) = Len(y) /\ Len(x) = 2 /\ \A i \in 1..2 : x[i] = y[i]
  BY <1>1, <1>2, <1>3, <1>4
<1> HIDE DEF x, y
<1>6. x = y
  BY <1>5, SeqEqual
<1> QED BY <1>1, <1>6 DEF x, y

Groups(x, y, z) == (x \o y) \o z = x \o (y \o z)

LEMMA Concat ==
    ASSUME NEW S
    PROVE  \A x, y, z \in Seq(S) : x \o y \in Seq(S) /\ Groups(x, y, z)
<1> SUFFICES ASSUME NEW x \in Seq(S), NEW y \in Seq(S), NEW z \in Seq(S)
             PROVE  x \o y \in Seq(S) /\ Groups(x, y, z)
  OBVIOUS
<1>1. x \o y \in Seq(S)
  BY ConcatProperties
<1>2. (x \o y) \o z = x \o (y \o z)
  BY ConcatAssociative
<1> QED BY <1>1, <1>2 DEF Groups

Regroups(a, b, c, d, e) ==
    (((a \o b) \o c) \o d) \o e = a \o (b \o (c \o (d \o e)))

LEMMA Regroup ==
    ASSUME NEW S, NEW a \in Seq(S), NEW b \in Seq(S), NEW c \in Seq(S), NEW d \in Seq(S),
           NEW e \in Seq(S)
    PROVE  Regroups(a, b, c, d, e)
<1>1. a \o b \in Seq(S) /\ d \o e \in Seq(S)
  BY Concat, Zenon
<1>2. (a \o b) \o c \in Seq(S) /\ c \o (d \o e) \in Seq(S)
  BY <1>1, Concat, Zenon
<1>3. Groups((a \o b) \o c, d, e)
  BY <1>2, Concat, Zenon
<1>4. Groups(a \o b, c, d \o e)
  BY <1>1, Concat, Zenon
<1>5. Groups(a, b, c \o (d \o e))
  BY <1>2, Concat, Zenon
<1> QED BY <1>3, <1>4, <1>5, Zenon DEF Groups, Regroups

\* Putting aside what a stream has read.
LEMMA StreamGot ==
    ASSUME NEW rest, NEW got, NEW other
    PROVE  /\ [At(rest, got) EXCEPT !.got = other] = At(rest, other)
           /\ Readable(At(rest, got)) /\ At(rest, got).got = got /\ At(rest, got).rest = rest
<1>1. [At(rest, got) EXCEPT !.got = other] = At(rest, other)
  BY DEF At
<1>2. Readable(At(rest, got))
  BY DEF At, Readable
<1>3. At(rest, got).got = got /\ At(rest, got).rest = rest
  BY DEF At
<1> QED BY <1>1, <1>2, <1>3

\* The fields that save() writes, for numbers, keys and tables.
LEMMA WrittenFields ==
    /\ \A n \in Nat : U64(n) \in Fields
    /\ \A k \in Nat : writeKey(k) \in Seq(Fields)
    /\ \A t \in TableMeta : writeTable(t) \in Seq(Fields)
<1>1. \A n \in Nat : U64(n) \in Fields /\ <<"u32", n>> \in Fields /\ <<"key", n>> \in Fields
  BY DEF U64, Fields, Widths
<1>2. \A k \in Nat : writeKey(k) \in Seq(Fields)
  <2>1. ASSUME NEW k \in Nat PROVE writeKey(k) \in Seq(Fields)
    <3>1. <<"u32", 0>> \in Fields /\ <<"u32", 1>> \in Fields /\ <<"key", k>> \in Fields
      BY <1>1
    <3> QED BY <3>1 DEF writeKey
  <2> QED BY <2>1
<1>3. ASSUME NEW t \in TableMeta PROVE writeTable(t) \in Seq(Fields)
  <2>1. t.number \in Nat /\ t.size \in Nat /\ t.minKey \in Nat /\ t.maxKey \in Nat
    BY DEF TableMeta
  <2>2. <<U64(t.number), U64(t.size)>> \in Seq(Fields)
    <3>1. U64(t.number) \in Fields /\ U64(t.size) \in Fields
      BY <1>1, <2>1
    <3> QED BY <3>1, ShortSequences
  <2>3. writeKey(t.minKey) \in Seq(Fields) /\ writeKey(t.maxKey) \in Seq(Fields)
    BY <1>2, <2>1
  <2> QED BY <2>2, <2>3, ConcatProperties DEF writeTable
<1> QED BY <1>1, <1>2, <1>3

\* A field that is there with its width is read.
LEMMA ReadsValue ==
    ASSUME NEW rest \in Seq(Fields), NEW got, NEW width \in Widths, NEW v \in Nat
    PROVE  readValue(At(<<<<width, v>>>> \o rest, got), width) = At(rest, Append(got, v))
<1> DEFINE field == <<width, v>>
           d == <<field>> \o rest
<1>1. field \in Fields /\ field[1] = width /\ field[2] = v
  BY DEF Fields, Widths
<1> HIDE DEF field
<1>2. d # <<>> /\ Head(d) = field /\ Tail(d) = rest
  BY <1>1
<1> HIDE DEF d
<1>3. readValue(At(d, got), width) = At(rest, Append(got, v))
  BY <1>1, <1>2 DEF readValue, Readable, At
<1> QED BY <1>3 DEF d, field

\* So is a key, the empty one too.
LEMMA ReadsKey ==
    ASSUME NEW rest \in Seq(Fields), NEW got \in Seq(Nat), NEW k \in Nat
    PROVE  readKey(At(writeKey(k) \o rest, got)) = At(rest, Append(got, k))
<1>0. "u32" \in Widths /\ "key" \in Widths /\ 0 \in Nat /\ 1 \in Nat
  BY DEF Widths
<1>1. CASE k = 0
  <2>1. readValue(At(writeKey(k) \o rest, got), "u32") = At(rest, Append(got, 0))
    BY <1>0, <1>1, ReadsValue DEF writeKey
  <2> DEFINE out == Append(got, 0)
  <2>2. Last(out) = 0
    BY DEF Last
  <2> HIDE DEF out
  <2>3. At(rest, out).got = out
    BY DEF At
  <2> QED BY <1>1, <2>1, <2>2, <2>3 DEF readKey, out
<1>2. CASE k # 0
  <2> DEFINE more == <<<<"key", k>>>> \o rest
             size == At(more, Append(got, 1))
  <2>1. <<"key", k>> \in Fields /\ <<"u32", 1>> \in Fields
    BY DEF Fields, Widths
  <2>2. more \in Seq(Fields) /\ writeKey(k) \o rest = <<<<"u32", 1>>>> \o more
    <3> DEFINE a == <<<<"u32", 1>>>>
               b == <<<<"key", k>>>>
    <3>1. a \in Seq(Fields) /\ b \in Seq(Fields) /\ <<<<"u32", 1>>, <<"key", k>>>> = a \o b
      <4> DEFINE f == <<"u32", 1>>
                 g == <<"key", k>>
      <4>1. f \in Fields /\ g \in Fields
        BY <2>1
      <4> HIDE DEF f, g
      <4>2. <<f>> \in Seq(Fields) /\ <<g>> \in Seq(Fields) /\ <<f, g>> = <<f>> \o <<g>>
        BY <4>1, ShortSequences
      <4> QED BY <4>2 DEF f, g
    <3>2. writeKey(k) = a \o b
      BY <1>2, <3>1 DEF writeKey
    <3> HIDE DEF a, b
    <3>3. b \o rest \in Seq(Fields) /\ Groups(a, b, rest)
      BY <3>1, Concat, Zenon
    <3> QED BY <3>2, <3>3, Zenon DEF Groups, a, b
  <2>3. readValue(At(more, got), "key") = At(rest, Append(got, k))
    BY <1>0, ReadsValue
  <2> HIDE DEF more
  <2>4. readValue(At(writeKey(k) \o rest, got), "u32") = size
    BY <1>0, <2>2, ReadsValue
  <2>5. Last(Append(got, 1)) # 0
    BY DEF Last
  <2>6. [size EXCEPT !.got = got] = At(more, got) /\ Readable(size) /\ size.got = Append(got, 1)
    BY StreamGot
  <2>7. At(writeKey(k) \o rest, got).got = got
    BY StreamGot
  <2> HIDE DEF size
  <2> QED BY <2>3, <2>4, <2>5, <2>6, <2>7 DEF readKey
<1> QED BY <1>1, <1>2

\* And the four values of a table.
LEMMA ReadsTable ==
    ASSUME NEW t \in TableMeta, NEW rest \in Seq(Fields), NEW got
    PROVE  readTable(At(writeTable(t) \o rest, got)) = At(rest, Append(got, t))
<1> DEFINE last == writeKey(t.maxKey) \o rest
           keys == writeKey(t.minKey) \o last
           size == <<U64(t.size)>> \o keys
           all == <<U64(t.number)>> \o size
           in == At(all, got)
           one == Append(<<>>, t.number)
           two == Append(one, t.size)
           three == Append(two, t.minKey)
           four == Append(three, t.maxKey)
<1>1. /\ t.number \in Nat /\ t.size \in Nat /\ t.minKey \in Nat /\ t.maxKey \in Nat
      /\ t = [number |-> t.number, size |-> t.size, minKey |-> t.minKey, maxKey |-> t.maxKey]
  BY DEF TableMeta
<1>2. /\ <<U64(t.number)>> \in Seq(Fields) /\ <<U64(t.size)>> \in Seq(Fields)
      /\ writeKey(t.minKey) \in Seq(Fields) /\ writeKey(t.maxKey) \in Seq(Fields)
  BY <1>1, WrittenFields
<1>3. last \in Seq(Fields) /\ keys \in Seq(Fields) /\ size \in Seq(Fields)
  BY <1>2, ConcatProperties
<1>4. writeTable(t) \o rest = all
  <2>1. U64(t.number) \in Fields /\ U64(t.size) \in Fields
    BY <1>1, WrittenFields
  <2> DEFINE n == <<U64(t.number)>>
             s == <<U64(t.size)>>
             a == writeKey(t.minKey)
             b == writeKey(t.maxKey)
  <2>2. n \in Seq(Fields) /\ s \in Seq(Fields) /\ a \in Seq(Fields) /\ b \in Seq(Fields)
    BY <1>2
  <2>3. writeTable(t) = ((n \o s) \o a) \o b
    BY <2>1, ShortSequences DEF writeTable
  <2>4. all = n \o (s \o (a \o (b \o rest)))
    OBVIOUS
  <2> HIDE DEF n, s, a, b, all
  <2>5. Regroups(n, s, a, b, rest)
    BY <2>2, Regroup, Zenon
  <2> QED BY <2>3, <2>4, <2>5, Zenon DEF Regroups
<1>0. "u64" \in Widths
  BY DEF Widths
<1>5. /\ one \in Seq(Nat) /\ two \in Seq(Nat) /\ three \in Seq(Nat)
      /\ four[1] = t.number /\ four[2] = t.size /\ four[3] = t.minKey /\ four[4] = t.maxKey
  BY <1>1
<1>6. readValue(At(all, <<>>), "u64") = At(size, one)
  <2> HIDE DEF size
  <2> QED BY <1>0, <1>1, <1>3, ReadsValue DEF U64
<1>7. readValue(At(size, one), "u64") = At(keys, two)
  <2> HIDE DEF keys, one
  <2> QED BY <1>0, <1>1, <1>3, ReadsValue DEF U64
<1>8. readKey(At(keys, two)) = At(last, three)
  <2> HIDE DEF last, two
  <2> QED BY <1>1, <1>3, <1>5, ReadsKey
<1>9. readKey(At(last, three)) = At(rest, four)
  <2> HIDE DEF three
  <2> QED BY <1>1, <1>5, ReadsKey
<1> HIDE DEF all, size, keys, last, one, two, three, four
<1>10. [in EXCEPT !.got = <<>>] = At(all, <<>>) /\ in.got = got
  BY StreamGot
<1> HIDE DEF in
<1> DEFINE fresh == [in EXCEPT !.got = <<>>]
           out == readKey(readKey(readValue(readValue(fresh, "u64"), "u64")))
           table == [number |-> out.got[1], size |-> out.got[2],
                     minKey |-> out.got[3], maxKey |-> out.got[4]]
<1>11. out = At(rest, four)
  BY <1>6, <1>7, <1>8, <1>9, <1>10
<1>12. readTable(in) = IF Readable(out) THEN [out EXCEPT !.got = Append(in.got, table)] ELSE out
  BY DEF readTable
<1> HIDE DEF out
<1>13. Readable(out) /\ table = t
  BY <1>1, <1>5, <1>11, StreamGot
<1>14. readTable(in) = [out EXCEPT !.got = Append(got, t)]
  BY <1>10, <1>12, <1>13
<1>15. readTable(in) = At(rest, Append(got, t))
  BY <1>11, <1>14, StreamGot
<1> QED BY <1>4, <1>15 DEF in

-----------------------------------------------------------------------------
\* Behind the i-th of the parts of a file, D[i] is left to be read.
Tails(D, parts, rest) ==
    /\ D[0] = Joined(parts) \o rest
    /\ D[Len(parts)] = rest
    /\ \A i \in 1..Len(parts) : D[i - 1] = parts[i] \o D[i]

LEMMA JoinedTails ==
    ASSUME NEW S, NEW parts \in Seq(Seq(S)), NEW rest \in Seq(S)
    PROVE  /\ Joined(parts) \in Seq(S)
           /\ \E D \in [0..Len(parts) -> Seq(S)] : Tails(D, parts, rest)
<1> DEFINE N == Len(parts)
           V == Seq(S)
           Eq(f) == f = [n \in 0..N |-> IF n = 0 THEN <<>> ELSE f[n - 1] \o parts[n]]
           step == [x \in (1..N) \X V |-> x[2] \o parts[x[1]]]
           back == [x \in (1..N) \X V |-> parts[(N + 1) - x[1]] \o x[2]]
           Upto == CHOOSE f : Eq(f)
<1>1. N \in Nat /\ \A n \in 1..N : parts[n] \in V
  OBVIOUS
<1>2. Joined(parts) = Upto[N]
  BY DEF Joined
<1>3. \A x, y, z \in V : x \o y \in V /\ Groups(x, y, z)
  BY Concat
<1>4. <<>> \in V /\ rest \in V /\ \A x \in V : <<>> \o x = x
  BY ConcatEmptySeq
<1> HIDE DEF N, V
<1>5. \A n \in 1..N, v \in V : step[<<n, v>>] = v \o parts[n] /\ v \o parts[n] \in V
  BY <1>1, <1>3
<1>6. step \in [(1..N) \X V -> V]
  BY <1>1, <1>3
<1>7. \A n \in 1..N, v \in V :
          /\ (N + 1) - n \in 1..N
          /\ back[<<n, v>>] = parts[(N + 1) - n] \o v /\ parts[(N + 1) - n] \o v \in V
  <2>1. \A n \in 1..N : (N + 1) - n \in 1..N
    BY <1>1
  <2> QED BY <1>1, <1>3, <2>1
<1>8. back \in [(1..N) \X V -> V]
  <2>1. \A x \in (1..N) \X V : parts[(N + 1) - x[1]] \o x[2] \in V
    BY <1>7
  <2> QED BY <2>1
<1> HIDE DEF step, back
<1>9. PICK f \in [0..N -> V] : Recursive(f, N, <<>>, step)
  BY <1>1, <1>4, <1>6, Recursion
<1>10. ASSUME NEW n \in 0..N PROVE f[n] = IF n = 0 THEN <<>> ELSE f[n - 1] \o parts[n]
  <2>1. f[n] = IF n = 0 THEN <<>> ELSE step[<<n, f[n - 1]>>]
    BY <1>9 DEF Recursive
  <2>2. n # 0 => n \in 1..N /\ f[n - 1] \in V
    BY <1>1
  <2> QED BY <1>5, <2>1, <2>2
<1>11. Eq(Upto)
  <2>1. Eq(f)
    BY <1>9, <1>10
  <2> QED BY <2>1
<1> HIDE DEF Upto
<1>12. Upto[0] = <<>> /\ \A n \in 1..N : Upto[n] = Upto[n - 1] \o parts[n]
  <2>1. \A n \in 0..N : Upto[n] = IF n = 0 THEN <<>> ELSE Upto[n - 1] \o parts[n]
    BY <1>11, Zenon
  <2>2. 0 \in 0..N /\ \A n \in 1..N : n \in 0..N /\ n # 0
    BY <1>1
  <2> QED BY <2>1, <2>2, Zenon
<1> DEFINE Typed == {n \in 0..N : Upto[n] \in V}
<1>13. \A n \in 0..N : Upto[n] \in V
  <2>1. 0 \in Typed
    BY <1>1, <1>4, <1>12
  <2>2. ASSUME NEW n \in 1..N, n - 1 \in Typed PROVE n \in Typed
    <3>1. n \in 0..N /\ Upto[n - 1] \in V /\ parts[n] \in V
      BY <1>1, <2>2
    <3>2. Upto[n] = Upto[n - 1] \o parts[n]
      BY <1>12, Zenon
    <3>3. Upto[n - 1] \o parts[n] \in V
      BY <1>3, <3>1, Zenon
    <3> QED BY <3>1, <3>2, <3>3, Zenon
  <2> HIDE DEF Typed
  <2>3. \A n \in 0..N : n \in Typed
    BY <1>1, <2>1, <2>2, UpToInduction
  <2> QED BY <2>3 DEF Typed
<1>14. PICK B \in [0..N -> V] : Recursive(B, N, rest, back)
  <2>1. N \in Nat /\ rest \in V /\ back \in [(1..N) \X V -> V]
    BY <1>1, <1>4, <1>8
  <2> QED BY <2>1, Recursion
<1>15. B[0] = rest /\ \A n \in 1..N : B[n] = parts[(N + 1) - n] \o B[n - 1]
  <2>1. B[0] = rest
    <3>1. 0 \in 0..N
      BY <1>1
    <3>2. B[0] = IF 0 = 0 THEN rest ELSE back[<<0, B[0 - 1]>>]
      BY <1>14, <3>1, Zenon DEF Recursive
    <3> QED BY <3>2, Zenon
  <2>2. ASSUME NEW n \in 1..N PROVE B[n] = parts[(N + 1) - n] \o B[n - 1]
    <3>1. n \in 0..N /\ n # 0 /\ n - 1 \in 0..N
      BY <1>1
    <3>2. B[n] = back[<<n, B[n - 1]>>]
      BY <1>14, <3>1 DEF Recursive
    <3>3. B[n - 1] \in V
      BY <3>1
    <3> QED BY <1>7, <3>2, <3>3
  <2> QED BY <2>1, <2>2
<1> DEFINE Same == {j \in 0..N : Upto[N - j] \o B[j] = Upto[N] \o rest}
<1>16. \A j \in 0..N : j \in Same
  <2>1. 0 \in Same
    BY <1>1, <1>15
  <2>2. ASSUME NEW j \in 1..N, j - 1 \in Same PROVE j \in Same
    <3>1. /\ j \in 0..N /\ N - j \in 0..N /\ (N + 1) - j \in 1..N /\ j - 1 \in 0..N
          /\ ((N + 1) - j) - 1 = N - j /\ N - (j - 1) = (N + 1) - j
      BY <1>1
    <3> DEFINE u == Upto[N - j]
               p == parts[(N + 1) - j]
               b == B[j - 1]
    <3>2. u \in V /\ p \in V /\ b \in V /\ B[j] = p \o b
      BY <1>1, <1>13, <1>15, <3>1
    <3>3. Upto[(N + 1) - j] = u \o p
      BY <1>12, <3>1
    <3>4. Upto[(N + 1) - j] \o b = Upto[N] \o rest
      BY <2>2, <3>1
    <3> HIDE DEF u, p, b
    <3>5. Groups(u, p, b)
      BY <1>3, <3>2
    <3>6. u \o B[j] = Upto[N] \o rest
      BY <3>2, <3>3, <3>4, <3>5, Zenon DEF Groups
    <3> QED BY <3>1, <3>6 DEF u
  <2> HIDE DEF Same
  <2> QED BY <1>1, <2>1, <2>2, UpToInduction
<1> DEFINE D == [i \in 0..N |-> B[N - i]]
<1>17. D \in [0..N -> V] /\ \A i \in 0..N : D[i] = B[N - i]
  <2>1. \A i \in 0..N : N - i \in 0..N
    BY <1>1
  <2> QED BY <2>1
<1> HIDE DEF D
<1>18. D[0] = Upto[N] \o rest
  <2>1. N \in 0..N /\ 0 \in 0..N /\ N - 0 = N /\ N - N = 0
    BY <1>1
  <2>2. Upto[0] \o B[N] = Upto[N] \o rest
    <3>1. N \in Same
      BY <1>16, <2>1
    <3> QED BY <2>1, <3>1
  <2>3. B[N] \in V
    BY <2>1
  <2> QED BY <1>4, <1>12, <1>17, <2>1, <2>2, <2>3
<1>19. D[N] = rest
  <2>1. N \in 0..N /\ N - N = 0
    BY <1>1
  <2> QED BY <1>15, <1>17, <2>1
<1>20. ASSUME NEW i \in 1..N PROVE D[i - 1] = parts[i] \o D[i]
  <2>1. /\ i \in 0..N /\ i - 1 \in 0..N /\ (N + 1) - i \in 1..N
        /\ (N + 1) - ((N + 1) - i) = i /\ N - (i - 1) = (N + 1) - i
        /\ ((N + 1) - i) - 1 = N - i
    BY <1>1
  <2>2. B[(N + 1) - i] = parts[i] \o B[N - i]
    BY <1>15, <2>1
  <2> QED BY <1>17, <2>1, <2>2
<1>21. Upto[N] \in V
  <2>1. N \in 0..N
    BY <1>1
  <2> QED BY <1>13, <2>1
<1>22. Tails(D, parts, rest)
  BY <1>2, <1>18, <1>19, <1>20 DEF Tails, N
<1> QED BY <1>2, <1>17, <1>21, <1>22 DEF N, V

\* The first i elements of s.
Firsts(s, i) == [j \in 1..i |-> s[j]]

LEMMA FirstsGrow ==
    ASSUME NEW S, NEW s \in Seq(S)
    PROVE  /\ Firsts(s, 0) = <<>> /\ Firsts(s, Len(s)) = s
           /\ \A i \in 1..Len(s) : Append(Firsts(s, i - 1), s[i]) = Firsts(s, i)
<1>1. Firsts(s, 0) = <<>> /\ Firsts(s, Len(s)) = s
  BY DEF Firsts
<1>2. ASSUME NEW i \in 1..Len(s) PROVE Append(Firsts(s, i - 1), s[i]) = Firsts(s, i)
  <2>1. \A j \in 1..Len(s) : s[j] \in S
    OBVIOUS
  <2>2. Firsts(s, i - 1) \in Seq(S) /\ Len(Firsts(s, i - 1)) = i - 1
    BY <2>1 DEF Firsts
  <2>3. Firsts(s, i) \in Seq(S) /\ Len(Firsts(s, i)) = i
    BY <2>1 DEF Firsts
  <2> DEFINE x == Append(Firsts(s, i - 1), s[i])
             y == Firsts(s, i)
  <2>4. /\ x \in Seq(S) /\ Len(x) = i /\ x[i] = s[i]
        /\ \A j \in 1..(i - 1) : x[j] = Firsts(s, i - 1)[j]
    BY <2>1, <2>2
  <2>5. \A j \in 1..i : y[j] = s[j]
    BY DEF Firsts
  <2>6. \A j \in 1..(i - 1) : Firsts(s, i - 1)[j] = s[j]
    BY DEF Firsts
  <2>7. ASSUME NEW j \in 1..i PROVE x[j] = y[j]
    <3>1. j = i \/ j \in 1..(i - 1)
      OBVIOUS
    <3> HIDE DEF x, y
    <3> QED BY <2>4, <2>5, <2>6, <3>1
  <2>8. y \in Seq(S) /\ Len(y) = i
    BY <2>3
  <2> HIDE DEF x, y
  <2>9. x = y
    BY <2>4, <2>7, <2>8, SeqEqual
  <2> QED BY <2>9 DEF x, y
<1> QED BY <1>1, <1>2

\* What the loop over the tables of a level reads.
LEMMA ReadsTables ==
    ASSUME NEW level \in Seq(TableMeta), NEW rest \in Seq(Fields), NEW parts,
           parts = [i \in DOMAIN level |-> writeTable(level[i])]
    PROVE  /\ Joined(parts) \in Seq(Fields)
           /\ readTables(At(Joined(parts) \o rest, <<>>), Len(level)) = At(rest, level)
<1> DEFINE N == Len(level)
<1>1. N \in Nat /\ \A i \in 1..N : level[i] \in TableMeta
  OBVIOUS
<1>2. /\ parts \in Seq(Seq(Fields)) /\ Len(parts) = N
      /\ \A i \in 1..N : parts[i] = writeTable(level[i])
  <2>1. \A i \in 1..N : writeTable(level[i]) \in Seq(Fields)
    BY <1>1, WrittenFields
  <2>2. DOMAIN level = 1..N
    OBVIOUS
  <2> QED BY <1>1, <2>1, <2>2
<1>3. Joined(parts) \in Seq(Fields)
  BY <1>2, JoinedTails
<1>4. PICK D \in [0..N -> Seq(Fields)] : Tails(D, parts, rest)
  BY <1>2, JoinedTails
<1>5. /\ D[0] = Joined(parts) \o rest /\ D[N] = rest
      /\ \A i \in 1..N : D[i - 1] = writeTable(level[i]) \o D[i]
  BY <1>2, <1>4 DEF Tails
<1>6. /\ Firsts(level, 0) = <<>> /\ Firsts(level, N) = level
      /\ \A i \in 1..N : Append(Firsts(level, i - 1), level[i]) = Firsts(level, i)
  BY FirstsGrow
<1> DEFINE in == At(D[0], <<>>)
           f == [i \in 0..N |-> At(D[i], Firsts(level, i))]
           Eq(g) == g = [i \in 0..N |-> IF i = 0 THEN in ELSE readTable(g[i - 1])]
           After == CHOOSE g : Eq(g)
<1>7. readTables(in, N) = After[N]
  BY DEF readTables
<1> HIDE DEF N, in
<1>8. ASSUME NEW i \in 1..N PROVE f[i] = readTable(f[i - 1])
  <2>1. i \in 0..N /\ i - 1 \in 0..N /\ level[i] \in TableMeta
    BY <1>1
  <2>2. D[i] \in Seq(Fields) /\ D[i - 1] = writeTable(level[i]) \o D[i]
    BY <1>5, <2>1
  <2>3. readTable(At(D[i - 1], Firsts(level, i - 1)))
            = At(D[i], Append(Firsts(level, i - 1), level[i]))
    BY <2>1, <2>2, ReadsTable
  <2>4. f[i] = At(D[i], Firsts(level, i)) /\ f[i - 1] = At(D[i - 1], Firsts(level, i - 1))
    BY <2>1, Zenon
  <2> QED BY <1>6, <2>3, <2>4, Zenon
<1>9. f[0] = in /\ f[N] = At(rest, level)
  <2>1. 0 \in 0..N /\ N \in 0..N
    BY <1>1
  <2>2. f[0] = At(D[0], Firsts(level, 0)) /\ f[N] = At(D[N], Firsts(level, N))
    BY <2>1, Zenon
  <2> QED BY <1>5, <1>6, <2>2, Zenon DEF in
<1>10. Eq(f)
  <2>1. f = [i \in 0..N |-> f[i]]
    OBVIOUS
  <2> HIDE DEF f
  <2>2. ASSUME NEW i \in 0..N PROVE f[i] = IF i = 0 THEN in ELSE readTable(f[i - 1])
    <3>1. i = 0 \/ i \in 1..N
      BY <1>1
    <3>2. i \in 1..N => i # 0
      BY <1>1
    <3> QED BY <1>8, <1>9, <3>1, <3>2, Zenon
  <2> QED BY <2>1, <2>2, Zenon
<1> HIDE DEF f
<1>11. Eq(After)
  BY <1>10, Zenon
<1> HIDE DEF After
<1>12. \A i \in 0..N : After[i] = IF i = 0 THEN in ELSE readTable(After[i - 1])
  BY <1>11, Zenon
<1> DEFINE Same == {i \in 0..N : After[i] = f[i]}
<1>13. \A i \in 0..N : i \in Same
  <2>1. 0 \in Same
    <3>1. 0 \in 0..N
      BY <1>1
    <3> QED BY <1>9, <1>12, <3>1, Zenon
  <2>2. ASSUME NEW i \in 1..N, i - 1 \in Same PROVE i \in Same
    <3>1. i \in 0..N /\ i # 0
      BY <1>1
    <3>2. After[i - 1] = f[i - 1]
      BY <2>2, Zenon
    <3> QED BY <1>8, <1>12, <3>1, <3>2, Zenon
  <2> HIDE DEF Same
  <2> QED BY <1>1, <2>1, <2>2, UpToInduction
<1>14. After[N] = f[N]
  <2>1. N \in 0..N
    BY <1>1
  <2> QED BY <1>13, <2>1, Zenon
<1>15. readTables(in, N) = At(rest, level)
  BY <1>7, <1>9, <1>14, Zenon
<1> QED BY <1>3, <1>5, <1>15 DEF N, in

\* A level, the one without tables too.
LEMMA ReadsLevel ==
    ASSUME NEW level \in Seq(TableMeta), NEW rest \in Seq(Fields), NEW got
    PROVE  /\ writeLevel(level) \in Seq(Fields)
           /\ readLevel(At(writeLevel(level) \o rest, got)) = At(rest, Append(got, level))
<1> DEFINE parts == [i \in DOMAIN level |-> writeTable(level[i])]
           J == Joined(parts)
           N == Len(level)
           n == <<U64(N)>>
           in == At(n \o (J \o rest), got)
           count == readValue([in EXCEPT !.got = <<>>], "u64")
           one == Append(<<>>, N)
           out == readTables([count EXCEPT !.got = <<>>], count.got[1])
<1>1. J \in Seq(Fields) /\ readTables(At(J \o rest, <<>>), N) = At(rest, level)
  <2> HIDE DEF parts
  <2> QED BY ReadsTables DEF parts
<1>2. N \in Nat /\ "u64" \in Widths
  BY DEF Widths
<1>3. n \in Seq(Fields)
  BY <1>2, WrittenFields, ShortSequences
<1>4. writeLevel(level) = n \o J
  BY DEF writeLevel
<1>5. one[1] = N
  BY <1>2
<1> HIDE DEF J, N
<1>6. n \o J \in Seq(Fields) /\ J \o rest \in Seq(Fields) /\ Groups(n, J, rest)
  <2> HIDE DEF n
  <2> QED BY <1>1, <1>3, Concat, Zenon
<1>7. At(writeLevel(level) \o rest, got) = in
  <2> HIDE DEF n
  <2> QED BY <1>4, <1>6, Zenon DEF Groups
<1>8. readValue(At(n \o (J \o rest), <<>>), "u64") = At(J \o rest, one)
  BY <1>2, <1>6, ReadsValue DEF U64
<1> HIDE DEF n, one
<1>9. [in EXCEPT !.got = <<>>] = At(n \o (J \o rest), <<>>) /\ in.got = got
  BY StreamGot
<1>10. count = At(J \o rest, one)
  BY <1>8, <1>9
<1>11. readLevel(in) = IF Readable(count) /\ Readable(out)
                       THEN [out EXCEPT !.got = Append(in.got, out.got)]
                       ELSE [count EXCEPT !.state = "thrown"]
  BY DEF readLevel
<1> HIDE DEF in, count
<1>12. Readable(count) /\ count.got = one /\ [count EXCEPT !.got = <<>>] = At(J \o rest, <<>>)
  BY <1>10, StreamGot
<1>13. out = At(rest, level)
  BY <1>1, <1>5, <1>12
<1> HIDE DEF out
<1>14. Readable(out) /\ out.got = level
  BY <1>13, StreamGot
<1>15. readLevel(in) = [At(rest, level) EXCEPT !.got = Append(got, level)]
  BY <1>9, <1>11, <1>12, <1>13, <1>14
<1>16. readLevel(in) = At(rest, Append(got, level))
  BY <1>15, StreamGot
<1> QED BY <1>4, <1>6, <1>7, <1>16

\* And what the loop over the levels reads.
LEMMA ReadsLevels ==
    ASSUME NEW levels \in Seq(Seq(TableMeta)), NEW rest \in Seq(Fields), NEW parts,
           parts = [i \in DOMAIN levels |-> writeLevel(levels[i])]
    PROVE  /\ Joined(parts) \in Seq(Fields)
           /\ readLevels(At(Joined(parts) \o rest, <<>>), Len(levels)) = At(rest, levels)
<1> DEFINE N == Len(levels)
<1>1. N \in Nat /\ \A i \in 1..N : levels[i] \in Seq(TableMeta)
  OBVIOUS
<1>2. /\ parts \in Seq(Seq(Fields)) /\ Len(parts) = N
      /\ \A i \in 1..N : parts[i] = writeLevel(levels[i])
  <2>1. \A i \in 1..N : writeLevel(levels[i]) \in Seq(Fields)
    BY <1>1, ReadsLevel
  <2>2. DOMAIN levels = 1..N
    OBVIOUS
  <2> QED BY <1>1, <2>1, <2>2
<1>3. Joined(parts) \in Seq(Fields)
  BY <1>2, JoinedTails
<1>4. PICK D \in [0..N -> Seq(Fields)] : Tails(D, parts, rest)
  BY <1>2, JoinedTails
<1>5. /\ D[0] = Joined(parts) \o rest /\ D[N] = rest
      /\ \A i \in 1..N : D[i - 1] = writeLevel(levels[i]) \o D[i]
  BY <1>2, <1>4 DEF Tails
<1>6. /\ Firsts(levels, 0) = <<>> /\ Firsts(levels, N) = levels
      /\ \A i \in 1..N : Append(Firsts(levels, i - 1), levels[i]) = Firsts(levels, i)
  BY FirstsGrow
<1> DEFINE in == At(D[0], <<>>)
           f == [i \in 0..N |-> At(D[i], Firsts(levels, i))]
           Eq(g) == g = [i \in 0..N |-> IF i = 0 THEN in ELSE readLevel(g[i - 1])]
           After == CHOOSE g : Eq(g)
<1>7. readLevels(in, N) = After[N]
  BY DEF readLevels
<1> HIDE DEF N, in
<1>8. ASSUME NEW i \in 1..N PROVE f[i] = readLevel(f[i - 1])
  <2>1. i \in 0..N /\ i - 1 \in 0..N /\ levels[i] \in Seq(TableMeta)
    BY <1>1
  <2>2. D[i] \in Seq(Fields) /\ D[i - 1] = writeLevel(levels[i]) \o D[i]
    BY <1>5, <2>1
  <2>3. readLevel(At(D[i - 1], Firsts(levels, i - 1)))
            = At(D[i], Append(Firsts(levels, i - 1), levels[i]))
    BY <2>1, <2>2, ReadsLevel
  <2>4. f[i] = At(D[i], Firsts(levels, i)) /\ f[i - 1] = At(D[i - 1], Firsts(levels, i - 1))
    BY <2>1, Zenon
  <2> QED BY <1>6, <2>3, <2>4, Zenon
<1>9. f[0] = in /\ f[N] = At(rest, levels)
  <2>1. 0 \in 0..N /\ N \in 0..N
    BY <1>1
  <2>2. f[0] = At(D[0], Firsts(levels, 0)) /\ f[N] = At(D[N], Firsts(levels, N))
    BY <2>1, Zenon
  <2> QED BY <1>5, <1>6, <2>2, Zenon DEF in
<1>10. Eq(f)
  <2>1. f = [i \in 0..N |-> f[i]]
    OBVIOUS
  <2> HIDE DEF f
  <2>2. ASSUME NEW i \in 0..N PROVE f[i] = IF i = 0 THEN in ELSE readLevel(f[i - 1])
    <3>1. i = 0 \/ i \in 1..N
      BY <1>1
    <3>2. i \in 1..N => i # 0
      BY <1>1
    <3> QED BY <1>8, <1>9, <3>1, <3>2, Zenon
  <2> QED BY <2>1, <2>2, Zenon
<1> HIDE DEF f
<1>11. Eq(After)
  BY <1>10, Zenon
<1> HIDE DEF After
<1>12. \A i \in 0..N : After[i] = IF i = 0 THEN in ELSE readLevel(After[i - 1])
  BY <1>11, Zenon
<1> DEFINE Same == {i \in 0..N : After[i] = f[i]}
<1>13. \A i \in 0..N : i \in Same
  <2>1. 0 \in Same
    <3>1. 0 \in 0..N
      BY <1>1
    <3> QED BY <1>9, <1>12, <3>1, Zenon
  <2>2. ASSUME NEW i \in 1..N, i - 1 \in Same PROVE i \in Same
    <3>1. i \in 0..N /\ i # 0
      BY <1>1
    <3>2. After[i - 1] = f[i - 1]
      BY <2>2, Zenon
    <3> QED BY <1>8, <1>12, <3>1, <3>2, Zenon
  <2> HIDE DEF Same
  <2> QED BY <1>1, <2>1, <2>2, UpToInduction
<1>14. After[N] = f[N]
  <2>1. N \in 0..N
    BY <1>1
  <2> QED BY <1>13, <2>1, Zenon
<1>15. readLevels(in, N) = At(rest, levels)
  BY <1>7, <1>9, <1>14, Zenon
<1> QED BY <1>3, <1>5, <1>15 DEF N, in

\* The fields in front of the levels, one by one.
OneByOne(S, a, b, c, d, e, s) ==
    /\ <<e>> \o s \in Seq(S) /\ <<d>> \o (<<e>> \o s) \in Seq(S)
    /\ <<c>> \o (<<d>> \o (<<e>> \o s)) \in Seq(S)
    /\ <<b>> \o (<<c>> \o (<<d>> \o (<<e>> \o s))) \in Seq(S)
    /\ <<a, b, c, d, e>> \o s = <<a>> \o (<<b>> \o (<<c>> \o (<<d>> \o (<<e>> \o s))))

LEMMA HeaderFields ==
    ASSUME NEW S, NEW a \in S, NEW b \in S, NEW c \in S, NEW d \in S, NEW e \in S,
           NEW s \in Seq(S)
    PROVE  OneByOne(S, a, b, c, d, e, s)
<1>1. ASSUME NEW x \in S, NEW t \in Seq(S)
      PROVE  /\ <<x>> \o t \in Seq(S) /\ Len(<<x>> \o t) = Len(t) + 1
             /\ (<<x>> \o t)[1] = x /\ \A i \in 1..Len(t) : (<<x>> \o t)[i + 1] = t[i]
  OBVIOUS
<1> DEFINE N == Len(s)
           s1 == <<e>> \o s
           s2 == <<d>> \o s1
           s3 == <<c>> \o s2
           s4 == <<b>> \o s3
           s5 == <<a>> \o s4
           h == <<a, b, c, d, e>>
           w == h \o s
<1>2. N \in Nat
  OBVIOUS
<1>3. s1 \in Seq(S) /\ Len(s1) = N + 1 /\ s1[1] = e /\ \A i \in 1..N : s1[i + 1] = s[i]
  BY <1>1
<1> HIDE DEF s1
<1>4. s2 \in Seq(S) /\ Len(s2) = N + 2 /\ s2[1] = d /\ \A i \in 1..(N + 1) : s2[i + 1] = s1[i]
  BY <1>1, <1>2, <1>3
<1> HIDE DEF s2
<1>5. s3 \in Seq(S) /\ Len(s3) = N + 3 /\ s3[1] = c /\ \A i \in 1..(N + 2) : s3[i + 1] = s2[i]
  BY <1>1, <1>2, <1>4
<1> HIDE DEF s3
<1>6. s4 \in Seq(S) /\ Len(s4) = N + 4 /\ s4[1] = b /\ \A i \in 1..(N + 3) : s4[i + 1] = s3[i]
  BY <1>1, <1>2, <1>5
<1> HIDE DEF s4
<1>7. s5 \in Seq(S) /\ Len(s5) = N + 5 /\ s5[1] = a /\ \A i \in 1..(N + 4) : s5[i + 1] = s4[i]
  BY <1>1, <1>2, <1>6
<1> HIDE DEF s5
<1>8. /\ h \in Seq(S) /\ Len(h) = 5
      /\ h[1] = a /\ h[2] = b /\ h[3] = c /\ h[4] = d /\ h[5] = e
  OBVIOUS
<1> HIDE DEF h
<1>9. /\ w \in Seq(S) /\ Len(w) = N + 5
      /\ \A i \in 1..5 : w[i] = h[i]
      /\ \A i \in 1..N : w[i + 5] = s[i]
  <2>0. h \in Seq(S)
    BY <1>8
  <2>1. /\ w \in Seq(S) /\ Len(w) = 5 + N
        /\ \A i \in 1..(5 + N) : w[i] = IF i <= 5 THEN h[i] ELSE s[i - 5]
    <3>1. /\ w \in Seq(S) /\ Len(w) = Len(h) + Len(s)
          /\ \A i \in 1..(Len(h) + Len(s)) :
                 w[i] = IF i <= Len(h) THEN h[i] ELSE s[i - Len(h)]
      BY <2>0, ConcatProperties
    <3> HIDE DEF w
    <3> QED BY <1>8, <3>1 DEF N
  <2> HIDE DEF w, N
  <2>2. \A i \in 1..5 : i \in 1..(5 + N) /\ i <= 5
    BY <1>2
  <2>3. \A i \in 1..N : i + 5 \in 1..(5 + N) /\ ~(i + 5 <= 5) /\ (i + 5) - 5 = i
    BY <1>2
  <2> QED BY <1>2, <2>1, <2>2, <2>3
<1> HIDE DEF w, N
<1>10. s5[2] = b /\ s5[3] = c /\ s5[4] = d /\ s5[5] = e
  <2>1. s5[2] = b
    <3>1. 1 \in 1..(N + 4) /\ 1 + 1 = 2
      BY <1>2
    <3> QED BY <1>6, <1>7, <3>1
  <2>2. s5[3] = c
    <3>1. 2 \in 1..(N + 4) /\ 1 \in 1..(N + 3) /\ 1 + 1 = 2 /\ 2 + 1 = 3
      BY <1>2
    <3> QED BY <1>5, <1>6, <1>7, <3>1
  <2>3. s5[4] = d
    <3>1. 3 \in 1..(N + 4) /\ 2 \in 1..(N + 3) /\ 1 \in 1..(N + 2)
          /\ 1 + 1 = 2 /\ 2 + 1 = 3 /\ 3 + 1 = 4
      BY <1>2
    <3> QED BY <1>4, <1>5, <1>6, <1>7, <3>1
  <2>4. s5[5] = e
    <3>1. 4 \in 1..(N + 4) /\ 3 \in 1..(N + 3) /\ 2 \in 1..(N + 2) /\ 1 \in 1..(N + 1)
          /\ 1 + 1 = 2 /\ 2 + 1 = 3 /\ 3 + 1 = 4 /\ 4 + 1 = 5
      BY <1>2
    <3> QED BY <1>3, <1>4, <1>5, <1>6, <1>7, <3>1, SMTT(30)
  <2> QED BY <2>1, <2>2, <2>3, <2>4
<1>11. ASSUME NEW i \in 1..N PROVE s5[i + 5] = s[i]
  <2>1. /\ i + 4 \in 1..(N + 4) /\ i + 3 \in 1..(N + 3) /\ i + 2 \in 1..(N + 2)
        /\ i + 1 \in 1..(N + 1)
        /\ (i + 4) + 1 = i + 5 /\ (i + 3) + 1 = i + 4 /\ (i + 2) + 1 = i + 3
        /\ (i + 1) + 1 = i + 2
    BY <1>2
  <2>2. /\ s5[(i + 4) + 1] = s4[i + 4] /\ s4[(i + 3) + 1] = s3[i + 3]
        /\ s3[(i + 2) + 1] = s2[i + 2] /\ s2[(i + 1) + 1] = s1[i + 1] /\ s1[i + 1] = s[i]
    BY <1>3, <1>4, <1>5, <1>6, <1>7, <2>1, Zenon
  <2> QED BY <2>1, <2>2, Zenon
<1>12. ASSUME NEW i \in 1..(N + 5) PROVE w[i] = s5[i]
  <2>1. i \in 1..5 \/ (i - 5 \in 1..N /\ (i - 5) + 5 = i)
    BY <1>2
  <2>2. CASE i \in 1..5
    <3>1. i = 1 \/ i = 2 \/ i = 3 \/ i = 4 \/ i = 5
      BY <2>2
    <3> QED BY <1>7, <1>8, <1>9, <1>10, <2>2, <3>1
  <2>3. CASE i - 5 \in 1..N /\ (i - 5) + 5 = i
    <3>1. w[(i - 5) + 5] = s[i - 5]
      BY <1>9, <2>3, Zenon
    <3>2. s5[(i - 5) + 5] = s[i - 5]
      BY <1>11, <2>3, Zenon
    <3> QED BY <2>3, <3>1, <3>2
  <2> QED BY <2>1, <2>2, <2>3
<1>13. w = s5
  BY <1>7, <1>9, <1>12, SeqEqual
<1> QED BY <1>3, <1>4, <1>5, <1>6, <1>13, Zenon DEF OneByOne, s1, s2, s3, s4, s5, h, w

\* The constructor gets from a MANIFEST what save() was called on.
LEMMA ManifestIsRead ==
    ASSUME NEW m \in ManifestStates
    PROVE  loadManifest(saveManifest(m)) = m
<1> DEFINE parts == [l \in DOMAIN m.levels |-> writeLevel(m.levels[l])]
           J == Joined(parts)
           N == Len(m.levels)
           s1 == <<U64(m.lastSeq)>> \o J
           s2 == <<U64(m.nextNumber)>> \o s1
           s3 == <<<<"u8", FormatVersion>>>> \o s2
           s4 == <<U64(m.logNumber)>> \o s3
           d == <<U64(N)>> \o s4
           g1 == Append(<<>>, N)
           g2 == Append(g1, m.logNumber)
           g3 == Append(g2, FormatVersion)
           g4 == Append(g3, m.nextNumber)
           g5 == Append(g4, m.lastSeq)
           header == readHeader(d)
           body == readLevels([header EXCEPT !.got = <<>>], header.got[1])
<1>1. /\ m.levels \in Seq(Seq(TableMeta)) /\ m.logNumber \in Nat /\ m.nextNumber \in Nat
      /\ m.lastSeq \in Nat /\ FormatVersion \in Nat
      /\ m = [logNumber |-> m.logNumber, nextNumber |-> m.nextNumber,
              lastSeq |-> m.lastSeq, levels |-> m.levels]
  <2>1. m \in [levels : Seq(Seq(TableMeta)), logNumber : Nat, nextNumber : Nat, lastSeq : Nat]
    BY StatesAssumption
  <2> DEFINE L == Seq(Seq(TableMeta))
  <2> HIDE DEF L
  <2>2. m \in [levels : L, logNumber : Nat, nextNumber : Nat, lastSeq : Nat]
    BY <2>1 DEF L
  <2> QED BY <2>2, StatesAssumption DEF L
<1>2. N \in Nat /\ "u64" \in Widths /\ "u8" \in Widths
  BY <1>1 DEF Widths
<1>3. /\ J \in Seq(Fields) /\ readLevels(At(J, <<>>), N) = At(<<>>, m.levels)
  <2>1. <<>> \in Seq(Fields)
    OBVIOUS
  <2> HIDE DEF parts
  <2>2. /\ J \in Seq(Fields)
        /\ readLevels(At(J \o <<>>, <<>>), N) = At(<<>>, m.levels)
    BY <1>1, <2>1, ReadsLevels DEF parts
  <2> HIDE DEF J
  <2>3. J \o <<>> = J
    BY <2>2, ConcatEmptySeq
  <2> QED BY <2>2, <2>3
<1>4. /\ U64(N) \in Fields /\ U64(m.logNumber) \in Fields /\ <<"u8", FormatVersion>> \in Fields
      /\ U64(m.nextNumber) \in Fields /\ U64(m.lastSeq) \in Fields
  BY <1>1, <1>2 DEF U64, Fields
<1>5. saveManifest(m) = <<U64(N), U64(m.logNumber), <<"u8", FormatVersion>>,
                          U64(m.nextNumber), U64(m.lastSeq)>> \o J
  BY DEF saveManifest
<1> HIDE DEF J, N
<1>6. /\ s1 \in Seq(Fields) /\ s2 \in Seq(Fields) /\ s3 \in Seq(Fields) /\ s4 \in Seq(Fields)
      /\ saveManifest(m) = d
  <2> DEFINE a == U64(N)
             b == U64(m.logNumber)
             c == <<"u8", FormatVersion>>
             e == U64(m.nextNumber)
             f == U64(m.lastSeq)
  <2>1. a \in Fields /\ b \in Fields /\ c \in Fields /\ e \in Fields /\ f \in Fields
    BY <1>4
  <2> HIDE DEF a, b, c, e, f
  <2>2. OneByOne(Fields, a, b, c, e, f, J)
    BY <1>3, <2>1, HeaderFields
  <2> QED BY <1>5, <2>2, Zenon DEF OneByOne, a, b, c, e, f
<1>7. readValue(At(d, <<>>), "u64") = At(s4, g1)
  <2> HIDE DEF s4
  <2> QED BY <1>2, <1>6, ReadsValue DEF U64
<1>8. readValue(At(s4, g1), "u64") = At(s3, g2)
  <2> HIDE DEF s3, g1
  <2> QED BY <1>1, <1>2, <1>6, ReadsValue DEF U64
<1>9. readValue(At(s3, g2), "u8") = At(s2, g3)
  <2> HIDE DEF s2, g2
  <2> QED BY <1>1, <1>2, <1>6, ReadsValue
<1>10. readValue(At(s2, g3), "u64") = At(s1, g4)
  <2> HIDE DEF s1, g3
  <2> QED BY <1>1, <1>2, <1>6, ReadsValue DEF U64
<1>11. readValue(At(s1, g4), "u64") = At(J, g5)
  <2> HIDE DEF g4
  <2> QED BY <1>1, <1>2, <1>3, ReadsValue DEF U64
<1>12. /\ g5[1] = N /\ g5[2] = m.logNumber /\ g5[3] = FormatVersion
       /\ g5[4] = m.nextNumber /\ g5[5] = m.lastSeq
  BY <1>1, <1>2
<1> HIDE DEF s1, s2, s3, s4, d, g1, g2, g3, g4, g5
<1>13. header = At(J, g5)
  BY <1>7, <1>8, <1>9, <1>10, <1>11 DEF readHeader, Stream, At
<1>14. loadManifest(d) =
           IF ~Readable(header) \/ header.got[3] # FormatVersion \/ ~Readable(body) THEN Throws
           ELSE [logNumber |-> header.got[2], nextNumber |-> header.got[4],
                 lastSeq |-> header.got[5], levels |-> body.got]
  BY DEF loadManifest
<1> HIDE DEF header
<1>15. Readable(header) /\ header.got = g5 /\ [header EXCEPT !.got = <<>>] = At(J, <<>>)
  BY <1>13, StreamGot
<1>16. body = At(<<>>, m.levels)
  BY <1>3, <1>12, <1>15
<1> HIDE DEF body
<1>17. Readable(body) /\ body.got = m.levels
  BY <1>16, StreamGot
<1>18. loadManifest(d) = m
  BY <1>1, <1>12, <1>14, <1>15, <1>17
<1> QED BY <1>6, <1>18

\* Through every failure, crash and power loss: a MANIFEST that is found was saved
\* whole, and the constructor gets from it every field that was saved, for every
\* number of levels and tables, empty ones and empty keys included.
THEOREM ManifestsRead == Spec => []ManifestReads
<1>1. Spec => []WriterInv
  BY WriterInit, WriterStep, PTL DEF Spec
<1>2. WriterInv => ManifestReads
  <2>1. SUFFICES ASSUME PathWhole, ManifestFound
                 PROVE  /\ \E m \in ManifestStates : path.data = saveManifest(m)
                        /\ \A m \in ManifestStates :
                               path.data = saveManifest(m) => loadManifest(path.data) = m
    BY DEF WriterInv, ManifestReads
  <2>2. path \in WholeFile
    BY <2>1 DEF PathWhole, ManifestFound
  <2>3. path.data \in Contents
    BY <2>2, WholeSurvives
  <2>4. path.data \in Manifests
    <3>1. SUFFICES ASSUME path.data \notin Manifests PROVE FALSE
      OBVIOUS
    <3> DEFINE d == path.data
               recs == RecordsOf(d)
    <3>2. IsTable(recs) /\ d = addRecordToFile(recs)
      BY <2>3, <3>1, TablesAssumption
    <3>3. d \in Seq(Chunks)
      BY <2>3, ContentsAssumption
    <3>4. 1 \in DOMAIN recs
      <4> HIDE DEF recs
      <4> QED BY <3>2, EmptySeq DEF IsTable
    <3>5. 1 \in DOMAIN d /\ Kind(d[1]) = "record"
      BY <3>4 DEF RecordsOf
    <3>6. d # <<>> /\ Head(d) = d[1]
      <4> HIDE DEF d
      <4> QED BY <3>3, <3>5
    <3> QED BY <2>1, <3>5, <3>6 DEF ManifestFound, Kind
  <2> QED BY <2>4, StatesAssumption, ManifestIsRead
<1> QED BY <1>1, <1>2, PTL

=============================================================================
