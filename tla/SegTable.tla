------------------------------ MODULE SegTable ------------------------------
(***************************************************************************)
(* The segment table of the first emulator (original-interpreter,           *)
(* emulator.c): a growable array of malloc'ed buffers indexed by segment    *)
(* identifier, and a LIFO of identifiers whose buffers are kept for reuse.  *)
(*                                                                          *)
(* segment_lengths[id] is the length of the buffer, which a reused segment  *)
(* may only partly use; what the program asked for is kept nowhere, and is  *)
(* the history variable `held' here.                                        *)
(***************************************************************************)
EXTENDS Integers, Sequences, FiniteSets

CONSTANTS ICAP,       \* initial capacity of both arrays
          NULL,       \* the null pointer
          MaxIds,     \* bound: the most identifiers a behaviour hands out
          Program,    \* the program texts that may be loaded at start
          Request,    \* the lengths, in words, the program asks for
          Offset,     \* the word offsets the program stores at
          Value       \* the words programs are made of, and store

ASSUME SegTableAssumption ==
    /\ ICAP \in Nat \ {0} /\ MaxIds \in Nat
    /\ Request \subseteq Nat /\ Offset \subseteq Nat
    /\ Program \subseteq Seq(Value)
    /\ NULL \notin Seq(Value \cup {0})   \* no buffer is at the null pointer

VARIABLES segment_sequence,  \* id -> buffer (a sequence of words), or NULL
          segment_lengths,   \* id -> length of its buffer
          seq_size,          \* number of identifiers handed out, 0 included
          seq_capacity,      \* length of the two arrays above
          recycled_ids,      \* stack of freed identifiers: its live prefix
          rec_capacity,      \* length of its buffer
          held               \* id -> length asked for, of the live segments

table == <<segment_sequence, segment_lengths, seq_size, seq_capacity>>
recycler == <<recycled_ids, rec_capacity>>
vars == <<table, recycler, held>>

Zeros(n) == [i \in 1..n |-> 0]
Range0(n) == 0..n - 1
rec_size == Len(recycled_ids)

\* memset(buffer, 0, size words)
Cleared_skipped(buffer, size) == buffer
Cleared(buffer, size) == [i \in DOMAIN buffer |-> IF i <= size THEN 0 ELSE buffer[i]]

-----------------------------------------------------------------------------
\* initialize_memory: fsize is the file's size in bytes plus 4, and the number
\* of words allocated for segment 0.
Init ==
    \E p \in Program :
        LET fsize == 4 * Len(p) + 4
        IN  /\ segment_sequence =
                 [id \in Range0(ICAP) |->
                    IF id = 0 THEN p \o Zeros(fsize - Len(p)) ELSE NULL]
            /\ segment_lengths = [id \in Range0(ICAP) |-> IF id = 0 THEN fsize ELSE 0]
            /\ seq_size = 1 /\ seq_capacity = ICAP
            /\ recycled_ids = <<>> /\ rec_capacity = ICAP
            /\ held = [id \in {0} |-> fsize]

\* The arrays after the growth that a new identifier may need.
grown_capacity ==
    IF rec_size = 0 /\ seq_size = seq_capacity THEN seq_capacity * 2 + 2 ELSE seq_capacity
grown(array, empty) ==
    [id \in Range0(grown_capacity) |-> IF id < seq_capacity THEN array[id] ELSE empty]

new_seg_id_oldest == IF rec_size = 0 THEN seq_size ELSE recycled_ids[1]
new_seg_id == IF rec_size = 0 THEN seq_size ELSE recycled_ids[rec_size]

\* Whether the buffer that the identifier has, if any, cannot be reused.
too_small_only_if_null(buffer, size, length) == buffer = NULL
too_small_if_it_differs(buffer, size, length) == buffer = NULL \/ size # length
too_small(buffer, size, length) == buffer = NULL \/ size > length

map_segment(size) ==
    LET id == new_seg_id
        sequence == grown(segment_sequence, NULL)
        lengths == grown(segment_lengths, 0)
        fresh == too_small(sequence[id], size, lengths[id])
    IN  /\ seq_capacity' = grown_capacity
        /\ seq_size' = IF rec_size = 0 THEN seq_size + 1 ELSE seq_size
        /\ recycled_ids' = SubSeq(recycled_ids, 1, rec_size - 1)
        /\ segment_sequence' = [sequence EXCEPT
               ![id] = IF fresh THEN Zeros(size) ELSE Cleared(@, size)]
        /\ segment_lengths' = [lengths EXCEPT ![id] = IF fresh THEN size ELSE @]
        /\ held' = [i \in DOMAIN held \cup {id} |-> IF i = id THEN size ELSE held[i]]
        /\ UNCHANGED rec_capacity

unmap_segment_without_recycling(segment) ==
    /\ held' = [i \in DOMAIN held \ {segment} |-> held[i]]
    /\ UNCHANGED <<table, recycler>>

unmap_segment_without_growing(segment) ==
    /\ recycled_ids' = Append(recycled_ids, segment)
    /\ held' = [i \in DOMAIN held \ {segment} |-> held[i]]
    /\ UNCHANGED <<table, rec_capacity>>

unmap_segment(segment) ==
    /\ rec_capacity' = IF rec_size = rec_capacity THEN rec_capacity * 2 + 2
                       ELSE rec_capacity
    /\ recycled_ids' = Append(recycled_ids, segment)
    /\ held' = [i \in DOMAIN held \ {segment} |-> held[i]]
    /\ UNCHANGED table

StoreWord(id, k, v) ==
    /\ segment_sequence' = [segment_sequence EXCEPT ![id][k + 1] = v]
    /\ UNCHANGED <<segment_lengths, seq_size, seq_capacity, recycler, held>>

\* The copy is as long as the buffer; segment_lengths[0] is left as it was, and
\* the old buffer of segment 0 is not freed.
load_segment(index) ==
    LET copied_seq_size == segment_lengths[index]
    IN  /\ index > 0
        /\ segment_sequence' = [segment_sequence EXCEPT
               ![0] = SubSeq(segment_sequence[index], 1, copied_seq_size)]
        /\ held' = [held EXCEPT ![0] = held[index]]
        /\ UNCHANGED <<segment_lengths, seq_size, seq_capacity, recycler>>

-----------------------------------------------------------------------------
Next ==
    \/ \E size \in Request :
          (rec_size = 0 => seq_size < MaxIds) /\ map_segment(size)
    \/ \E id \in DOMAIN held \ {0} : unmap_segment(id)
    \/ \E id \in DOMAIN held, k \in Offset, v \in Value :
          k < held[id] /\ StoreWord(id, k, v)
    \/ \E id \in DOMAIN held \ {0} : load_segment(id)

Spec == Init /\ [][Next]_vars

-----------------------------------------------------------------------------
\* Properties.

Freed == {recycled_ids[i] : i \in DOMAIN recycled_ids}

TypeOK ==
    /\ seq_capacity \in Nat /\ seq_size \in 1..seq_capacity
    /\ segment_lengths \in [Range0(seq_capacity) -> Nat]
    /\ DOMAIN segment_sequence = Range0(seq_capacity)
    /\ recycled_ids \in Seq(1..seq_size - 1) /\ rec_capacity \in Nat
    /\ rec_size <= rec_capacity
    /\ DOMAIN held \subseteq Range0(seq_size) /\ 0 \in DOMAIN held

\* Each identifier handed out is either in the program's hands or waits, once,
\* to be handed out again: none is lost and none is served twice.
IdsExact ==
    /\ Freed \cap DOMAIN held = {}
    /\ Freed \cup DOMAIN held = Range0(seq_size)
    /\ \A i, j \in DOMAIN recycled_ids : recycled_ids[i] = recycled_ids[j] => i = j

\* A segment fits its buffer, and the recorded length of a buffer that can be
\* loaded or reused is the true one: a load never copies past the end of a
\* buffer.  For segment 0 the record goes stale with the first load; it is only
\* a bound on nothing, because 0 is neither loaded from nor freed.
LengthsTrue ==
    \A id \in Range0(seq_size) :
        /\ segment_sequence[id] # NULL
        /\ id # 0 => segment_lengths[id] = Len(segment_sequence[id])
        /\ id \in DOMAIN held => held[id] <= Len(segment_sequence[id])

\* A buffer never shrinks: reusing an identifier keeps the larger allocation.
BuffersGrow ==
    [][\A id \in 1..seq_size - 1 : segment_lengths[id] <= segment_lengths'[id]]_vars

\* The table serves the memory of the UM.
UM == INSTANCE UMMemory
        WITH segs <- [id \in DOMAIN held |-> SubSeq(segment_sequence[id], 1, held[id])],
             Id <- Range0(MaxIds), Word <- Value \cup {0}, Length <- Request
ImplementsUMMemory == UM!Spec
=============================================================================
