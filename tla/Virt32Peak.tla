----------------------------- MODULE Virt32Peak -----------------------------
(***************************************************************************)
(* Virt32 with a history variable: the largest number of segments of each   *)
(* capacity that were live at once.                                         *)
(***************************************************************************)
EXTENDS Virt32

VARIABLE peak

InBucket(S, b) == {a \in S : bucket_of_cap(CapOf(a)) = b}
LiveIn(b) == Cardinality(InBucket(mapped, b))

PeakInit == Init /\ peak = [b \in DOMAIN rec |-> 0]
PeakNext ==
    /\ Next
    /\ peak' = [b \in DOMAIN rec |-> IF LiveIn(b)' > peak[b] THEN LiveIn(b)' ELSE peak[b]]
PeakSpec == PeakInit /\ [][PeakNext]_<<vars, peak>>

\* The heap is no larger than the program's peak demand of each capacity: the
\* allocator carves only what could not have been served from a freed segment.
HeapIsPeakDemand == \A b \in DOMAIN rec : Cardinality(InBucket(Owned, b)) = peak[b]
=============================================================================
