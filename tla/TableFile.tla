------------------------------ MODULE TableFile ------------------------------
(***************************************************************************)
(* The file of an SSTable (src/src/SSTable.cpp): what addRecordToFile hands *)
(* to FileWriter, and what the constructor, get and the iterator make of   *)
(* the file they find.  Offsets and sizes are in bytes, as in the code;    *)
(* what is read is the chunk that starts at an offset.                     *)
(***************************************************************************)
EXTENDS Versions, FileWriter, BloomFilter, SequencesExt

CONSTANTS
    HeaderBytes,  \* bytes of an encoded record besides its value
    ValueBytes,   \* bytes of a value
    BlockBytes,   \* kBlockSize
    IndexBytes,   \* bytes of an index entry
    FooterBytes   \* kFooterSize

ASSUME HashedAssumption == Keys \subseteq DOMAIN FirstHash
ASSUME BytesAssumption ==
    /\ {HeaderBytes, IndexBytes, FooterBytes} \subseteq Nat \ {0}
    /\ {ValueBytes, BlockBytes} \subseteq Nat

\* A chunk is a pair of its kind and what it encodes.
Kind(c) == c[1]
Body(c) == c[2]

encodedRecordSize(r) == HeaderBytes + IF r.val = Tombstone THEN 0 ELSE ValueBytes

ChunkBytes(c) ==
    CASE Kind(c) = "record" -> encodedRecordSize(Body(c))
      [] Kind(c) = "bloom"  -> 8 * Len(Body(c))
      [] Kind(c) = "index"  -> IndexBytes
      [] Kind(c) = "footer" -> FooterBytes
      [] OTHER              -> 1

\* The bytes of the first n chunks, for each n.
Offsets(d) ==
    LET Upto[n \in 0..Len(d)] == IF n = 0 THEN 0 ELSE Upto[n - 1] + ChunkBytes(d[n])
    IN  Upto

\* The bytes in front of the n-th chunk.
Start(d, n) == Offsets(d)[n - 1]

FileSize(d) == Offsets(d)[Len(d)]

\* The chunks that start at the offsets from..(to - 1).
Section(d, from, to) ==
    LET in == {n \in DOMAIN d : Start(d, n) >= from /\ Start(d, n) < to}
    IN  IF in = {} THEN <<>> ELSE SubSeq(d, Min(in), Max(in))

Bodies(chunks) == [n \in DOMAIN chunks |-> Body(chunks[n])]

-----------------------------------------------------------------------------
(***************************************************************************)
(* SSTable::addRecordToFile.  A block gets an index entry when the one     *)
(* before it has grown beyond BlockBytes, so a block may end between two   *)
(* versions of a key.                                                      *)
(***************************************************************************)
NoRecords == [indices |-> <<>>, recordsSize |-> 0, currentBlockSize |-> 0]

\* One turn of the loop over the records.
addRecord(loop, record) ==
    LET starts == loop.recordsSize = 0 \/ loop.currentBlockSize > BlockBytes
        index == [key |-> record.key, offset |-> loop.recordsSize]
        bytesWritten == encodedRecordSize(record)
    IN  [indices |-> IF starts THEN Append(loop.indices, index) ELSE loop.indices,
         recordsSize |-> loop.recordsSize + bytesWritten,
         currentBlockSize |-> (IF starts THEN 0 ELSE loop.currentBlockSize) + bytesWritten]

\* The loop: the index, and the filter that grows beside it.
IndexOf(recs) ==
    LET After[n \in 0..Len(recs)] ==
            IF n = 0 THEN NoRecords ELSE addRecord(After[n - 1], recs[n])
    IN  After[Len(recs)].indices

BloomOf(recs) ==
    LET After[n \in 0..Len(recs)] ==
            IF n = 0 THEN forEntries(Len(recs)) ELSE Add(After[n - 1], recs[n].key)
    IN  After[Len(recs)]

Tagged(kind, bodies) == [n \in DOMAIN bodies |-> <<kind, bodies[n]>>]

addRecordToFile(recs) ==
    LET records == Tagged("record", recs)
        bloom == <<"bloom", Serialize(BloomOf(recs))>>
        index == Tagged("index", IndexOf(recs))
        footer == [recordsSize |-> FileSize(records), bloomSize |-> ChunkBytes(bloom),
                   indexSize |-> FileSize(index)]
    IN  records \o <<bloom>> \o index \o <<<<"footer", footer>>>>

\* The records in a file.
RecordsOf(d) == [n \in {m \in DOMAIN d : Kind(d[m]) = "record"} |-> Body(d[n])]

\* The order build and the merge give to the records of a table: by key, and the
\* versions of a key newest first.  Copies of a record may follow each other.
InOrder(r, q) == r.key < q.key \/ (r.key = q.key /\ r.seq > q.seq) \/ r = q

IsTable(recs) ==
    /\ recs \in Seq(Record) /\ recs # <<>>
    /\ \A i, j \in DOMAIN recs : i < j => InOrder(recs[i], recs[j])

\* A content that is no MANIFEST is what addRecordToFile writes for such records.
ASSUME TablesAssumption ==
    \A d \in Contents \ Manifests :
        IsTable(RecordsOf(d)) /\ d = addRecordToFile(RecordsOf(d))

-----------------------------------------------------------------------------
(***************************************************************************)
(* SSTable's constructor: readFooter and validateFooter, the filter, and   *)
(* readSparseIndex with the order it demands of the entries.               *)
(***************************************************************************)
HasFooter(d) == d # <<>> /\ Kind(d[Len(d)]) = "footer"
Footer(d) == Body(d[Len(d)])

validateFooter(d) ==
    LET f == Footer(d)
    IN  /\ f.recordsSize # 0
        /\ f.recordsSize + f.bloomSize + f.indexSize + FooterBytes = FileSize(d)

BloomSection(d) ==
    Section(d, Footer(d).recordsSize, Footer(d).recordsSize + Footer(d).bloomSize)

Indices(d) ==
    Bodies(Section(d, Footer(d).recordsSize + Footer(d).bloomSize, FileSize(d) - FooterBytes))

\* Bug: two entries with the same key are refused.
IndexInOrderStrict(ix, recordsSize) ==
    /\ ix # <<>> /\ ix[1].offset = 0
    /\ \A n \in DOMAIN ix : ix[n].offset < recordsSize
    /\ \A n \in 1..(Len(ix) - 1) :
           ix[n].offset < ix[n + 1].offset /\ ix[n].key < ix[n + 1].key

\* What readSparseIndex demands of the entries ix.
IndexInOrder(ix, recordsSize) ==
    /\ ix # <<>> /\ ix[1].offset = 0
    /\ \A n \in DOMAIN ix : ix[n].offset < recordsSize
    /\ \A n \in 1..(Len(ix) - 1) :
           ix[n].offset < ix[n + 1].offset /\ ix[n].key <= ix[n + 1].key

Opens(d) ==
    /\ HasFooter(d) /\ validateFooter(d)
    /\ Len(BloomSection(d)) = 1 /\ AcceptsBytes(Body(BloomSection(d)[1]))
    /\ IndexInOrder(Indices(d), Footer(d).recordsSize)

\* Bug: the search starts at the first entry of the key, not before it.
FirstBlockNoStepBack(ix, k) ==
    LET position == Min({n \in DOMAIN ix : ix[n].key >= k} \cup {Len(ix) + 1})
    IN  IF position > Len(ix) THEN Len(ix) ELSE position

\* getBlock: lower_bound, and a step back unless that is the first entry.
FirstBlock(ix, k) ==
    LET position == Min({n \in DOMAIN ix : ix[n].key >= k} \cup {Len(ix) + 1})
    IN  IF position = 1 THEN 1 ELSE position - 1

\* The byte range getBlock returns, empty when it returns nullopt: it ends at
\* the first entry, from there on, with a greater key.
getBlock(ix, recordsSize, k) ==
    LET first == FirstBlock(ix, k)
        after == {n \in first..Len(ix) : ix[n].key > k}
    IN  IF ix[1].key > k THEN [from |-> 0, to |-> 0]
        ELSE [from |-> ix[first].offset,
              to |-> IF after = {} THEN recordsSize ELSE ix[Min(after)].offset]

\* SSTable::get: the first record of the block that is key's and visible, unless
\* a greater key comes before it.
tableGet(d, k, s) ==
    LET range == getBlock(Indices(d), Footer(d).recordsSize, k)
        block == Bodies(Section(d, range.from, range.to))
        stops == {n \in DOMAIN block :
                     block[n].key > k \/ (block[n].key = k /\ block[n].seq <= s)}
    IN  IF \/ ~mightContain(fromBytes(Body(BloomSection(d)[1])), k)
           \/ stops = {}
           \/ block[Min(stops)].key > k
        THEN Absent
        ELSE block[Min(stops)]

\* SSTableIterator, from its first record to the end of the records.
iterate(d) == Bodies(Section(d, 0, Footer(d).recordsSize))

-----------------------------------------------------------------------------
(***************************************************************************)
(* Properties.                                                             *)
(***************************************************************************)
TableFound == path # NoFile /\ path.data \notin Manifests

\* Whatever failed, crashed or lost power before, SSTable's constructor accepts
\* the file it finds under a table's path, and an iterator over it returns the
\* records that were written, all of them and in order.
TableOpens ==
    TableFound => Opens(path.data) /\ iterate(path.data) = RecordsOf(path.data)

\* SSTable::get, by way of the filter, the sparse index and one run of blocks,
\* answers for every key, stored or not, and every read point what a search of
\* all records answers, also when the versions of a key straddle blocks.
GetSearchesEnough ==
    TableFound => \A k \in Keys, s \in 0..MaxSeq :
        tableGet(path.data, k, s) = SourceGet(ToSet(RecordsOf(path.data)), k, s)

=============================================================================
