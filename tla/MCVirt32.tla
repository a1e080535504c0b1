------------------------------ MODULE MCVirt32 ------------------------------
(***************************************************************************)
(* Virt32, with the program's peak demand, for TLC.                         *)
(***************************************************************************)
EXTENDS Virt32Peak

MCProgram == {<<5>>}

\* A program that meets no assertion on carvable memory.
UncheckedSpec == PeakInit /\ [][NextUnchecked /\ UNCHANGED peak]_<<vars, peak>>
=============================================================================
