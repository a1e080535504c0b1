----------------------------- MODULE MCSegTable -----------------------------
(***************************************************************************)
(* SegTable, with the program's peak demand, for TLC.                       *)
(***************************************************************************)
EXTENDS SegTablePeak

MCProgram == {<<>>, <<5>>}
=============================================================================
