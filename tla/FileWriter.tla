------------------------------ MODULE FileWriter ------------------------------
(***************************************************************************)
(* FileWriter (src/src/utils.cpp): a file is written under a temporary     *)
(* name, synced, renamed over its path, and the directory is synced.       *)
(*                                                                         *)
(* The module follows one path and its temporary name.  A file is the      *)
(* sequence of the chunks that writeAll was called with; a call that fails *)
(* may leave part of its chunk, Torn.  Any other failure, and the end of   *)
(* the process, leave the directory as it is at that point: Abandon.       *)
(***************************************************************************)
EXTENDS Sequences, Naturals

CONSTANTS
    Contents,  \* the chunk sequences that may be written
    Manifests, \* those of them that may be written over, and write over others
    Torn,      \* part of a chunk
    NoFile     \* there is no file under this name

\* What writeAll is called with.
Chunks == UNION {{c[i] : i \in 1..Len(c)} : c \in Contents}

ASSUME ContentsAssumption == Manifests \subseteq Contents /\ Contents \subseteq Seq(Chunks)
ASSUME NoFileAssumption == NoFile \notin [data : Contents, synced : BOOLEAN]

VARIABLES
    pc,     \* "idle", "writing", "synced" or "renamed"
    todo,   \* the chunks that are still to be written
    tmp,    \* the file under the temporary name
    path,   \* the file under the path
    older,  \* the files the path may name again after a power loss
    acked   \* history: finish() has returned for what the path holds

vars == <<pc, todo, tmp, path, older, acked>>

\* A file: its chunks, and whether fsync has confirmed them.
File(data, synced) == [data |-> data, synced |-> synced]

Init ==
    /\ pc = "idle" /\ todo = <<>>
    /\ tmp = NoFile /\ path = NoFile /\ older = {} /\ acked = FALSE

\* Manifest::save writes over the MANIFEST there is; SSTable::build throws when
\* its path exists, and a compaction writes to numbers that were never used.
MayWrite(c) == path # NoFile => c \in Manifests /\ path.data \in Manifests

\* The constructor: open(temporaryPath_, O_WRONLY | O_CREAT | O_TRUNC).
Begin(c) ==
    /\ pc = "idle" /\ pc' = "writing"
    /\ MayWrite(c)
    /\ todo' = c
    /\ tmp' = File(<<>>, FALSE)
    /\ UNCHANGED <<path, older, acked>>

Write ==
    /\ pc = "writing" /\ todo # <<>>
    /\ tmp' = File(Append(tmp.data, Head(todo)), FALSE)
    /\ todo' = Tail(todo)
    /\ UNCHANGED <<pc, path, older, acked>>

WriteFails ==
    /\ pc = "writing" /\ todo # <<>>
    /\ tmp' = File(Append(tmp.data, Torn), FALSE)
    /\ pc' = "idle" /\ todo' = <<>>
    /\ UNCHANGED <<path, older, acked>>

\* finish(), in its order.
Fsync ==
    /\ pc = "writing" /\ todo = <<>>
    /\ tmp' = File(tmp.data, TRUE)
    /\ pc' = "synced"
    /\ UNCHANGED <<todo, path, older, acked>>

Rename ==
    /\ pc = "synced" /\ pc' = "renamed"
    /\ path' = tmp /\ tmp' = NoFile
    /\ older' = older \cup {path}
    /\ acked' = FALSE
    /\ UNCHANGED todo

\* Bug: finish() returns without syncing the directory.
SyncDirectorySkipped ==
    /\ pc = "renamed" /\ pc' = "idle"
    /\ acked' = TRUE
    /\ UNCHANGED <<todo, tmp, path, older>>

SyncDirectory ==
    /\ pc = "renamed" /\ pc' = "idle"
    /\ older' = {}
    /\ acked' = TRUE
    /\ UNCHANGED <<todo, tmp, path>>

\* An exception, or the end of the process: the temporary file stays.
Abandon ==
    /\ pc # "idle" /\ pc' = "idle" /\ todo' = <<>>
    /\ UNCHANGED <<tmp, path, older, acked>>

\* SSTable::cleanupOrphanedTemps, when a table's directory is opened again; the
\* temporary file of a MANIFEST is not removed.
CleanupTemp ==
    /\ pc = "idle" /\ tmp # NoFile
    /\ tmp' = NoFile
    /\ UNCHANGED <<pc, todo, path, older, acked>>

\* removeFile, on a table that was compacted away or that no MANIFEST names.  A
\* file that was removed does not come back.
RemoveTable ==
    /\ pc = "idle" /\ path # NoFile /\ path.data \notin Manifests
    /\ path' = NoFile /\ older' = {} /\ acked' = FALSE
    /\ UNCHANGED <<pc, todo, tmp>>

\* What a power loss may leave of a file: all of it once it is synced.
Survivors(f) ==
    IF f = NoFile THEN {NoFile}
    ELSE IF f.synced THEN {f}
    ELSE {File(SubSeq(f.data, 1, n), TRUE) : n \in 0..Len(f.data)}

PowerLoss ==
    /\ pc' = "idle" /\ todo' = <<>>
    /\ \E f \in {path} \cup older : path' \in Survivors(f)
    /\ tmp' \in Survivors(tmp) \cup Survivors(path) \cup {NoFile}
    /\ older' = {}
    /\ UNCHANGED acked

Next ==
    \/ \E c \in Contents : Begin(c)
    \/ Write \/ WriteFails
    \/ Fsync \/ Rename \/ SyncDirectory
    \/ Abandon \/ CleanupTemp \/ RemoveTable \/ PowerLoss

Spec == Init /\ [][Next]_vars

-----------------------------------------------------------------------------
(***************************************************************************)
(* Properties.                                                             *)
(***************************************************************************)
DataOf(f) == IF f = NoFile THEN NoFile ELSE f.data

Atomic == INSTANCE AtomicFile
              WITH file <- DataOf(path),
                   durable <- {DataOf(f) : f \in {path} \cup older}

\* Publication is atomic: through failures, crashes, power losses and leftover
\* temporary files, the path holds nothing or a whole content, and what finish()
\* has returned for stays there until it is replaced or removed.
PublicationIsAtomic == Atomic!ASpec

=============================================================================
