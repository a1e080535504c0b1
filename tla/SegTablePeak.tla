---------------------------- MODULE SegTablePeak ----------------------------
(***************************************************************************)
(* SegTable with a history variable: the largest number of segments that    *)
(* were live at once.                                                       *)
(***************************************************************************)
EXTENDS SegTable

VARIABLE peak

live == Cardinality(DOMAIN held)

PeakInit == Init /\ peak = 1
PeakNext == Next /\ peak' = IF live' > peak THEN live' ELSE peak
PeakSpec == PeakInit /\ [][PeakNext]_<<vars, peak>>

\* The table is no larger than the program's peak demand: map_segment makes a
\* new identifier only when no freed one waits to be used again.
TableIsPeakDemand == seq_size = peak
=============================================================================
