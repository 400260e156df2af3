---------------------------- MODULE ManifestFile ----------------------------
(***************************************************************************)
(* The MANIFEST file (src/src/Manifest.cpp): the fields that save() hands  *)
(* to FileWriter one by one, and what the constructor reads from them.  A  *)
(* field is a pair of its width and its value.                             *)
(*                                                                         *)
(* The key 0 is the empty string, for which writeAll writes nothing.       *)
(***************************************************************************)
EXTENDS FileWriter, Integers, SequencesExt

CONSTANTS
    FormatVersion,  \* kManifestFormatVersion
    ManifestStates  \* the MANIFESTs that are saved

U64(n) == <<"u64", n>>

\* Bug: an empty key leaves no trace.
writeKeyUnsized(k) == IF k = 0 THEN <<>> ELSE <<<<"u32", 1>>, <<"key", k>>>>

writeKey(k) == IF k = 0 THEN <<<<"u32", 0>>>> ELSE <<<<"u32", 1>>, <<"key", k>>>>

writeTable(t) == <<U64(t.number), U64(t.size)>> \o writeKey(t.minKey) \o writeKey(t.maxKey)

\* The parts of a file, one behind the other.
Joined(parts) ==
    LET Upto[n \in 0..Len(parts)] == IF n = 0 THEN <<>> ELSE Upto[n - 1] \o parts[n]
    IN  Upto[Len(parts)]

writeLevel(level) ==
    <<U64(Len(level))>> \o Joined([i \in DOMAIN level |-> writeTable(level[i])])

\* Manifest::save, up to finish().
saveManifest(m) ==
    <<U64(Len(m.levels)), U64(m.logNumber), <<"u8", FormatVersion>>,
      U64(m.nextNumber), U64(m.lastSeq)>>
        \o Joined([l \in DOMAIN m.levels |-> writeLevel(m.levels[l])])

TableMeta == [number : Nat, size : Nat, minKey : Nat, maxKey : Nat]

ASSUME StatesAssumption ==
    /\ FormatVersion \in Nat
    /\ \A m \in ManifestStates :
           m \in [levels : Seq(Seq(TableMeta)), logNumber : Nat, nextNumber : Nat, lastSeq : Nat]
    /\ Manifests = {saveManifest(m) : m \in ManifestStates}

-----------------------------------------------------------------------------
(***************************************************************************)
(* The input stream: the fields that are left, the values that were got    *)
(* from it, and whether the constructor has thrown.                        *)
(***************************************************************************)
Stream(d) == [rest |-> d, got |-> <<>>, state |-> "good"]

Readable(in) == in.state = "good"

\* A field that is missing, or is not as wide as the value, makes it throw.
readValue(in, width) ==
    IF Readable(in) /\ in.rest # <<>> /\ Head(in.rest)[1] = width
    THEN [in EXCEPT !.rest = Tail(@), !.got = Append(@, Head(in.rest)[2])]
    ELSE [in EXCEPT !.state = "thrown"]

readKey(in) ==
    LET size == readValue(in, "u32")
    IN  IF Readable(size) /\ Last(size.got) # 0
        THEN readValue([size EXCEPT !.got = in.got], "key")
        ELSE size

readTable(in) ==
    LET fresh == [in EXCEPT !.got = <<>>]
        out == readKey(readKey(readValue(readValue(fresh, "u64"), "u64")))
        table == [number |-> out.got[1], size |-> out.got[2],
                  minKey |-> out.got[3], maxKey |-> out.got[4]]
    IN  IF Readable(out) THEN [out EXCEPT !.got = Append(in.got, table)] ELSE out

readTables(in, n) ==
    LET After[i \in 0..n] == IF i = 0 THEN in ELSE readTable(After[i - 1])
    IN  After[n]

readLevel(in) ==
    LET count == readValue([in EXCEPT !.got = <<>>], "u64")
        out == readTables([count EXCEPT !.got = <<>>], count.got[1])
    IN  IF Readable(count) /\ Readable(out) THEN [out EXCEPT !.got = Append(in.got, out.got)]
        ELSE [count EXCEPT !.state = "thrown"]

readLevels(in, n) ==
    LET After[i \in 0..n] == IF i = 0 THEN in ELSE readLevel(After[i - 1])
    IN  After[n]

\* levelCount, logNumber_, formatVersion, nextTableNumber_ and lastSeq_.
readHeader(d) ==
    LET Wide(in) == readValue(in, "u64")
    IN  Wide(Wide(readValue(Wide(Wide(Stream(d))), "u8")))

\* The outcome when the constructor throws.
Throws == [state |-> "thrown"]

\* Manifest::Manifest, for a file that exists.
loadManifest(d) ==
    LET header == readHeader(d)
        body == readLevels([header EXCEPT !.got = <<>>], header.got[1])
    IN  IF ~Readable(header) \/ header.got[3] # FormatVersion \/ ~Readable(body) THEN Throws
        ELSE [logNumber |-> header.got[2], nextNumber |-> header.got[4],
              lastSeq |-> header.got[5], levels |-> body.got]

-----------------------------------------------------------------------------
\* What is found is not the beginning of a table, which is a record.
ManifestFound == path # NoFile /\ (path.data # <<>> => Head(path.data)[1] # "record")

\* Whatever failed, crashed or lost power before, the MANIFEST that is found is one
\* that save() was called on, and the constructor accepts it and gets from it what
\* was saved, field by field, empty levels and empty keys included.
ManifestReads ==
    ManifestFound =>
        /\ \E m \in ManifestStates : path.data = saveManifest(m)
        /\ \A m \in ManifestStates :
               path.data = saveManifest(m) => loadManifest(path.data) = m

=============================================================================
