------------------------------ MODULE UMMemory ------------------------------
(***************************************************************************)
(* The memory a UM program may rely on, whatever serves it: a set of        *)
(* segments, each a sequence of words under an identifier the program holds.*)
(* Segment 0 holds the program.  Virt32.tla (the 4 GB allocator) and        *)
(* SegTable.tla (the malloc table of the first emulator) are both checked   *)
(* and proved to implement this specification.                              *)
(***************************************************************************)
EXTENDS Naturals, Sequences

CONSTANTS Id,       \* the identifiers a segment may have
          Word,     \* the values of a word
          Length    \* the lengths, in words, a program may ask for

VARIABLE segs       \* segs[id] is the sequence of words of segment id

Zeros(n) == [i \in 1..n |-> 0]

Init == segs \in [{0} -> Seq(Word)]

\* A fresh segment: an identifier that names no other live segment, and
\* nothing but zero words.
Map(id, n) ==
    /\ id \notin DOMAIN segs
    /\ segs' = [i \in DOMAIN segs \cup {id} |->
                    IF i = id THEN Zeros(n) ELSE segs[i]]

Unmap(id) ==
    /\ id # 0
    /\ segs' = [i \in DOMAIN segs \ {id} |-> segs[i]]

Store(id, k, v) == segs' = [segs EXCEPT ![id][k] = v]

\* The duplicate of a segment replaces segment 0; the original is untouched.
LoadSegment(id) == segs' = [segs EXCEPT ![0] = segs[id]]

Next ==
    \/ \E id \in Id \ {0}, n \in Length : Map(id, n)
    \/ \E id \in DOMAIN segs : Unmap(id)
    \/ \E id \in DOMAIN segs : \E k \in 1..Len(segs[id]), v \in Word : Store(id, k, v)
    \/ \E id \in DOMAIN segs : LoadSegment(id)

Spec == Init /\ [][Next]_segs
=============================================================================
