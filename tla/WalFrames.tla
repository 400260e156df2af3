------------------------------ MODULE WalFrames ------------------------------
(***************************************************************************)
(* The WAL file behind its header: frames of [frame magic][payload size]   *)
(* [payload][CRC32][commit magic], and the parser that, after a crash,     *)
(* tells a tail to cut off from damage to refuse (src/src/MemTable.cpp).   *)
(*                                                                         *)
(* The file is a sequence of cells, numbers like the bytes they stand for. *)
(* A magic, a size and a checksum are one cell each, so a write is torn    *)
(* between cells; a cell holds the same number whatever it is read as.     *)
(***************************************************************************)
EXTENDS Integers, SequencesExt

CONSTANTS
    PayloadCells,   \* the cells a payload is made of; a value may hold any bytes
    FillCells,      \* what fills space that was allocated and not written
    DamageCells,    \* what a damaged cell may read as
    MaxPayload,     \* bound: cells in one payload
    MaxFrames       \* bound: frames in the file

kWalFrameMagic == 90
kWalCommitMagic == 95

\* Magic, size, checksum and commit magic.
kWalFrameMetadataSize == 4

ASSUME CellsAssumption ==
    PayloadCells \cup FillCells \cup DamageCells \subseteq 0..kWalCommitMagic
ASSUME SizesAssumption == MaxPayload \in 1..(kWalCommitMagic - 1) /\ MaxFrames \in Nat

VARIABLES
    content,   \* the file
    acked,     \* the payloads that were acknowledged, in order
    unsure,    \* a whole frame that a failed append left: <<payload>> or <<>>
    poisoned,  \* WALFileWriter::poisoned_
    damaged,   \* the position of a damaged cell, 0 if there is none
    refused    \* restoreFromWAL has thrown

vars == <<content, acked, unsure, poisoned, damaged, refused>>

Payloads == UNION {[1..n -> PayloadCells] : n \in 1..MaxPayload}

-----------------------------------------------------------------------------
(***************************************************************************)
(* Writing.  The checksum has a fixed width.  It differs for any two       *)
(* payloads of at most two cells, and the empty payload's is 0.            *)
(***************************************************************************)
ChecksumWidth == 999983

crc32(payload) ==
    LET Sum[n \in 0..Len(payload)] ==
            IF n = 0 THEN 0 ELSE (100 * Sum[n - 1] + payload[n] + 1) % ChecksumWidth
    IN  Sum[Len(payload)]

encodeWALFrame(payload) ==
    <<kWalFrameMagic, Len(payload)>> \o payload \o <<crc32(payload), kWalCommitMagic>>

\* The file that appending the payloads' frames leaves.
Encoded(payloads) ==
    LET Upto[n \in 0..Len(payloads)] ==
            IF n = 0 THEN <<>> ELSE Upto[n - 1] \o encodeWALFrame(payloads[n])
    IN  Upto[Len(payloads)]

(***************************************************************************)
(* Parsing.  A position is where a frame should start.                     *)
(***************************************************************************)
PayloadAt(file, pos) == SubSeq(file, pos + 2, pos + 1 + file[pos + 1])

\* A frame with both magics around as many cells as it says.
FramedAt(file, pos) ==
    /\ pos + kWalFrameMetadataSize <= Len(file) + 1
    /\ file[pos] = kWalFrameMagic
    /\ file[pos + 1] <= Len(file) + 1 - pos - kWalFrameMetadataSize
    /\ file[pos + 3 + file[pos + 1]] = kWalCommitMagic

ChecksumAt(file, pos) == file[pos + 2 + file[pos + 1]] = crc32(PayloadAt(file, pos))

validFrameAt(file, pos) == FramedAt(file, pos) /\ ChecksumAt(file, pos)

\* Bug: the bytes behind the unreadable frame are not searched.
hasNoFrameAfter(file, pos) == FALSE

hasValidFrameAfter(file, pos) == \E later \in pos..Len(file) : validFrameAt(file, later)

hasCommitMarker(file, pos) ==
    /\ Len(file) + 1 - pos >= kWalFrameMetadataSize
    /\ file[Len(file)] = kWalCommitMagic

(***************************************************************************)
(* The parser stops at the first frame it cannot frame, and throws if the  *)
(* rest looks committed; it throws at a frame whose checksum is wrong.     *)
(***************************************************************************)
parse(file) ==
    LET From[pos \in 1..(Len(file) + 1)] ==
            IF pos > Len(file) \/ ~FramedAt(file, pos)
            THEN [ok |-> \/ pos > Len(file)
                         \/ ~hasCommitMarker(file, pos) /\ ~hasValidFrameAfter(file, pos + 1),
                  payloads |-> <<>>, lastGood |-> pos - 1]
            ELSE IF ~ChecksumAt(file, pos)
            THEN [ok |-> FALSE, payloads |-> <<>>, lastGood |-> pos - 1]
            ELSE LET rest == From[pos + kWalFrameMetadataSize + file[pos + 1]]
                 IN  [rest EXCEPT !.payloads = <<PayloadAt(file, pos)>> \o @]
    IN  From[1]

-----------------------------------------------------------------------------
Init ==
    /\ content = <<>> /\ acked = <<>> /\ unsure = <<>>
    /\ poisoned = FALSE /\ damaged = 0 /\ refused = FALSE

\* Bug: the writer keeps appending after a failed append.
NeverPoisoned == TRUE

MayAppend == ~poisoned

Appending == ~refused /\ MayAppend /\ Len(acked) < MaxFrames

\* A frame written and synced.
Write(payload) ==
    /\ Appending
    /\ content' = content \o encodeWALFrame(payload)
    /\ acked' = Append(acked, payload)
    /\ UNCHANGED <<unsure, poisoned, damaged, refused>>

\* A part of a frame, with or without space behind it that was never written.
TornFrames(frame) ==
    UNION {{SubSeq(frame, 1, written) \o [i \in 1..space |-> fill] :
                space \in 0..(Len(frame) - written), fill \in FillCells} :
           written \in 0..(Len(frame) - 1)}

\* The write fails, or a power loss takes what was not synced.
WriteFails(payload) ==
    /\ Appending
    /\ \/ /\ content' = content \o encodeWALFrame(payload)
          /\ unsure' = <<payload>>
       \/ /\ \E torn \in TornFrames(encodeWALFrame(payload)) : content' = content \o torn
          /\ UNCHANGED unsure
    /\ poisoned' = TRUE
    /\ UNCHANGED <<acked, damaged, refused>>

\* restoreFromWAL takes the payloads and truncates, or throws and leaves the file.
Restore ==
    /\ parse(content).ok
    /\ content' = SubSeq(content, 1, parse(content).lastGood)
    /\ acked' = parse(content).payloads
    /\ unsure' = <<>> /\ poisoned' = FALSE /\ damaged' = 0
    /\ UNCHANGED refused

RestoreThrows ==
    /\ ~parse(content).ok
    /\ refused' = TRUE
    /\ UNCHANGED <<content, acked, unsure, poisoned, damaged>>

\* One cell of an acknowledged frame goes bad.
Damage ==
    /\ damaged = 0
    /\ \E pos \in 1..Len(Encoded(acked)) : \E cell \in DamageCells \ {content[pos]} :
           /\ content' = [content EXCEPT ![pos] = cell]
           /\ damaged' = pos
    /\ UNCHANGED <<acked, unsure, poisoned, refused>>

Next ==
    \/ \E payload \in Payloads : Write(payload) \/ WriteFails(payload)
    \/ Restore \/ RestoreThrows \/ Damage

Spec == Init /\ [][Next]_vars

-----------------------------------------------------------------------------
\* Whatever a failed append leaves at the end of an undamaged log, torn, filled
\* with zeros or with old bytes, restoring takes every acknowledged frame (and
\* a whole unacknowledged one) and cuts off exactly the rest.
TailIsCutOff ==
    damaged = 0 =>
        /\ parse(content).ok
        /\ parse(content).payloads = acked \o unsure
        /\ parse(content).lastGood = Len(Encoded(acked \o unsure))

\* Damage to an acknowledged frame is refused and never taken for a tail.  In the
\* last of them that means its payload and checksum in any log, and all of it but
\* the commit magic where no failed append has left a tail behind it.
DamageIsRefused ==
    LET before == Len(Encoded(Front(acked)))
        framing == {before + 1, before + 2, Len(Encoded(acked))}  \* magic, size, commit magic
    IN  damaged # 0 =>
            \/ ~parse(content).ok
            \/ damaged \in framing /\ (poisoned \/ damaged = Len(content))

=============================================================================
