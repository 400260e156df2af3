------------------------------ MODULE MCLsmDB ------------------------------
(***************************************************************************)
(* LsmDB for TLC: the sets that a configuration chooses and the symmetry   *)
(* of the snapshot handles.  Numbers are given in the .cfg files.          *)
(***************************************************************************)
EXTENDS LsmDBRefinement, TLC

\* Every I/O call may fail, except that a new WAL gets its whole header.
FaultsButHeader == FaultPoints \ {"header"}

\* No action and no property tells two handles apart.
HandleSymmetry == Permutations(Handles)

=============================================================================
