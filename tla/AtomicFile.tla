------------------------------ MODULE AtomicFile ------------------------------
(***************************************************************************)
(* What FileWriter promises of the file it publishes, for the MANIFEST and *)
(* for every table: whoever opens the path finds nothing or one whole      *)
(* content, the last one or, after a power loss, an earlier one that was   *)
(* not settled; and once finish() has returned, only the one it wrote.     *)
(***************************************************************************)
CONSTANTS
    Contents,  \* what may be written
    NoFile     \* there is no such path

VARIABLES
    file,     \* what the path holds
    durable,  \* what it may hold after a power loss
    acked     \* finish() has returned for what the path holds

avars == <<file, durable, acked>>

AInit == file = NoFile /\ durable = {NoFile} /\ acked = FALSE

\* A new content takes the place of the old one, but may not survive.
Replace ==
    /\ acked' = FALSE
    /\ durable' = durable \cup {file'}
    /\ file' \in Contents

\* finish() returns: the new content survives everything.
Settle == durable' = {file} /\ acked' = TRUE /\ UNCHANGED file

Remove == file' = NoFile /\ durable' = {NoFile} /\ acked' = FALSE

\* The path falls back to what it may hold, and the choice only narrows; nothing
\* is lost that finish() has returned for: then durable is {file}.
PowerLoss == file' \in durable' /\ durable' \subseteq durable /\ UNCHANGED acked

ANext == PowerLoss \/ Settle \/ Remove \/ Replace

ASpec == AInit /\ [][ANext]_avars

=============================================================================
