---------------------------- MODULE SegTableProofs ----------------------------
(***************************************************************************)
(* Proofs about the segment table of the first emulator, for every initial  *)
(* capacity, every program and every length asked for: no identifier is     *)
(* lost or served twice, recorded lengths are true, buffers never shrink,   *)
(* and the table implements UMMemory.                                       *)
(***************************************************************************)
EXTENDS SegTablePeak, SequenceTheorems, FiniteSetTheorems, TLAPS

\* What every step keeps, and the properties follow from: beyond them, that
\* buffers are sequences of words, that an entry no identifier has reached yet
\* is null, and that identifiers stay below their bound.
Buffer == Seq(Value \cup {0})

TableInv ==
    /\ TypeOK
    /\ IdsExact
    /\ seq_size <= MaxIds \/ seq_size = 1
    /\ \A id \in Range0(seq_size) : segment_sequence[id] \in Buffer
    /\ \A id \in seq_size..seq_capacity - 1 : segment_sequence[id] = NULL
    /\ \A id \in 1..seq_size - 1 : segment_lengths[id] = Len(segment_sequence[id])
    /\ held \in [DOMAIN held -> Nat]
    /\ \A id \in DOMAIN held : held[id] <= Len(segment_sequence[id])

-----------------------------------------------------------------------------
\* Buffers.

\* A sequence given by its elements.
LEMMA SeqOfElements ==
    ASSUME NEW S, NEW n \in Nat, NEW f \in [1..n -> S]
    PROVE  f \in Seq(S) /\ Len(f) = n /\ DOMAIN f = 1..n
<1>1. f \in Seq(S)
  BY SeqDef
<1>2. DOMAIN f = 1..Len(f) /\ Len(f) \in Nat
  BY <1>1, LenProperties
<1> QED
  BY <1>1, <1>2

LEMMA ZerosFacts ==
    ASSUME NEW n \in Nat
    PROVE  /\ Zeros(n) \in Buffer /\ Len(Zeros(n)) = n
           /\ \A i \in 1..n : Zeros(n)[i] = 0
<1>1. Zeros(n) \in [1..n -> Value \cup {0}]
  BY DEF Zeros
<1> QED
  BY <1>1, SeqOfElements DEF Zeros, Buffer

\* Clearing keeps the buffer and its length.
LEMMA ClearedFacts ==
    ASSUME NEW b \in Buffer, NEW n \in Nat
    PROVE  /\ Cleared(b, n) \in Buffer /\ Len(Cleared(b, n)) = Len(b)
           /\ \A i \in 1..Len(b) : i <= n => Cleared(b, n)[i] = 0
<1>1. /\ DOMAIN b = 1..Len(b) /\ Len(b) \in Nat
      /\ \A i \in 1..Len(b) : b[i] \in Value \cup {0}
  BY LenProperties, ElementOfSeq DEF Buffer
<1>2. Cleared(b, n) \in [1..Len(b) -> Value \cup {0}]
  BY <1>1 DEF Cleared
<1> QED
  BY <1>1, <1>2, SeqOfElements DEF Cleared, Buffer

\* The part of a buffer that its segment uses.
LEMMA PrefixFacts ==
    ASSUME NEW b \in Buffer, NEW n \in Nat, n <= Len(b)
    PROVE  /\ SubSeq(b, 1, n) \in Buffer /\ Len(SubSeq(b, 1, n)) = n
           /\ \A i \in 1..n : SubSeq(b, 1, n)[i] = b[i]
<1>1. Len(b) \in Nat /\ \A i \in 1..n : b[i] \in Value \cup {0}
  BY LenProperties, ElementOfSeq DEF Buffer
<1>2. 1 \in Int /\ n \in Int
  OBVIOUS
<1>3. /\ SubSeq(b, 1, n) \in Buffer
      /\ Len(SubSeq(b, 1, n)) = IF 1 <= n THEN n - 1 + 1 ELSE 0
      /\ \A i \in 1..n - 1 + 1 : SubSeq(b, 1, n)[i] = b[1 + i - 1]
  BY <1>1, <1>2, SubSeqProperties DEF Buffer
<1> QED
  BY <1>3

LEMMA BufferNotNull == ASSUME NEW b \in Buffer PROVE b # NULL
BY SegTableAssumption DEF Buffer

\* Two buffers of the same length and elements are the same.
LEMMA BufferEqual ==
    ASSUME NEW a \in Buffer, NEW b \in Buffer, Len(a) = Len(b),
           \A i \in 1..Len(a) : a[i] = b[i]
    PROVE  a = b
BY SeqEqual DEF Buffer

-----------------------------------------------------------------------------
\* The initial state.

LEMMA InitTable == ASSUME Init PROVE TableInv
<1>1. PICK p \in Program :
        LET fsize == 4 * Len(p) + 4
        IN  /\ segment_sequence =
                 [id \in Range0(ICAP) |->
                    IF id = 0 THEN p \o Zeros(fsize - Len(p)) ELSE NULL]
            /\ segment_lengths = [id \in Range0(ICAP) |-> IF id = 0 THEN fsize ELSE 0]
            /\ held = [id \in {0} |-> fsize]
  BY DEF Init
<1> DEFINE fsize == 4 * Len(p) + 4
<1>2. p \in Buffer /\ Len(p) \in Nat
  BY SegTableAssumption, SeqMonotonic, LenProperties DEF Buffer
<1>3. fsize \in Nat /\ fsize - Len(p) \in Nat
  BY <1>2
<1>4. /\ p \o Zeros(fsize - Len(p)) \in Buffer
      /\ Len(p \o Zeros(fsize - Len(p))) = fsize
  <2>1. PICK z : z = Zeros(fsize - Len(p))
    OBVIOUS
  <2>2. z \in Buffer /\ Len(z) = fsize - Len(p)
    BY <1>3, <2>1, ZerosFacts
  <2>3. p \o z \in Buffer /\ Len(p \o z) = Len(p) + Len(z)
    BY <1>2, <2>2, ConcatProperties DEF Buffer
  <2> QED
    BY <1>2, <1>3, <2>1, <2>2, <2>3
<1> HIDE DEF fsize
<1>5. /\ seq_size = 1 /\ seq_capacity = ICAP /\ ICAP \in Nat \ {0}
      /\ recycled_ids = <<>> /\ rec_capacity = ICAP
  BY SegTableAssumption DEF Init
<1>6. /\ DOMAIN segment_sequence = Range0(ICAP)
      /\ segment_sequence[0] \in Buffer /\ Len(segment_sequence[0]) = fsize
      /\ \A id \in 1..ICAP - 1 : segment_sequence[id] = NULL
      /\ segment_lengths \in [Range0(ICAP) -> Nat]
  BY <1>1, <1>3, <1>4, <1>5 DEF Range0, fsize
<1>7. held = [id \in {0} |-> fsize]
  BY <1>1 DEF fsize
<1>8. recycled_ids \in Seq(1..seq_size - 1) /\ rec_size = 0 /\ Freed = {}
  BY <1>5, EmptySeq DEF rec_size, Freed
<1>9. TypeOK
  BY <1>5, <1>6, <1>7, <1>8 DEF TypeOK, Range0
<1>10. IdsExact
  BY <1>5, <1>7, <1>8 DEF IdsExact, Range0
<1> QED
  BY <1>3, <1>5, <1>6, <1>7, <1>9, <1>10 DEF TableInv, Range0

-----------------------------------------------------------------------------
\* The operations.

\* What the invariant says of the recycled identifiers.
LEMMA RecycledFacts ==
    ASSUME TableInv
    PROVE  /\ rec_size \in Nat /\ DOMAIN recycled_ids = 1..rec_size
           /\ \A i \in 1..rec_size : recycled_ids[i] \in 1..seq_size - 1
           /\ \A x : x \in Freed <=> \E i \in 1..rec_size : x = recycled_ids[i]
           /\ seq_size \in Nat \ {0} /\ seq_capacity \in Nat /\ seq_size <= seq_capacity
<1>1. recycled_ids \in Seq(1..seq_size - 1)
  BY DEF TableInv, TypeOK
<1>2. /\ rec_size \in Nat /\ DOMAIN recycled_ids = 1..rec_size
      /\ \A i \in 1..rec_size : recycled_ids[i] \in 1..seq_size - 1
  BY <1>1, LenProperties, ElementOfSeq DEF rec_size
<1>3. seq_size \in Nat \ {0} /\ seq_capacity \in Nat /\ seq_size <= seq_capacity
  BY DEF TableInv, TypeOK
<1> QED
  BY <1>2, <1>3 DEF Freed

\* The identifier that map_segment gives out is one the program does not hold,
\* and its entry, in arrays that have grown if they had to, is the only one that
\* changes.
LEMMA NewId ==
    ASSUME TableInv, rec_size = 0 => seq_size < MaxIds
    PROVE  LET id == new_seg_id
               size == IF rec_size = 0 THEN seq_size + 1 ELSE seq_size
           IN  /\ id \in Nat /\ id # 0 /\ id < MaxIds
               /\ id \notin DOMAIN held
               /\ id < size /\ seq_size <= size
               /\ \A j \in Nat : j < size => j < seq_size \/ j = id
               /\ grown_capacity \in Nat /\ size <= grown_capacity
               /\ seq_capacity <= grown_capacity
               /\ rec_size = 0 => id = seq_size
               /\ rec_size # 0 => id = recycled_ids[rec_size] /\ id < seq_size
<1>1. /\ rec_size \in Nat /\ seq_size \in Nat \ {0} /\ seq_capacity \in Nat
      /\ seq_size <= seq_capacity /\ MaxIds \in Nat
  BY RecycledFacts, SegTableAssumption
<1>2. DOMAIN held \subseteq Range0(seq_size) /\ Freed \cap DOMAIN held = {}
  BY DEF TableInv, TypeOK, IdsExact
<1>3. CASE rec_size = 0
  <2>1. seq_size \notin DOMAIN held
    BY <1>1, <1>2 DEF Range0
  <2> QED
    BY <1>1, <1>3, <2>1 DEF new_seg_id, grown_capacity
<1>4. CASE rec_size # 0
  <2>1. recycled_ids[rec_size] \in 1..seq_size - 1 /\ recycled_ids[rec_size] \in Freed
    BY <1>1, <1>4, RecycledFacts
  <2>2. seq_size <= MaxIds
    BY <1>1, <2>1 DEF TableInv
  <2> QED
    BY <1>1, <1>2, <1>4, <2>1, <2>2 DEF new_seg_id, grown_capacity
<1> QED
  BY <1>3, <1>4

\* What map_segment does to the arrays, in a fresh buffer or a used one.
LEMMA MapFacts ==
    ASSUME TableInv, NEW size \in Request, rec_size = 0 => seq_size < MaxIds,
           map_segment(size)
    PROVE  LET id == new_seg_id
           IN  /\ DOMAIN segment_sequence' = Range0(grown_capacity)
               /\ segment_lengths' \in [Range0(grown_capacity) -> Nat]
               /\ segment_sequence'[id] \in Buffer
               /\ size <= Len(segment_sequence'[id])
               /\ \A i \in 1..size : segment_sequence'[id][i] = 0
               /\ segment_lengths'[id] = Len(segment_sequence'[id])
               /\ id < seq_size => segment_lengths[id] <= segment_lengths'[id]
               /\ \A j \in Range0(grown_capacity) \ {id} :
                     /\ segment_sequence'[j] = IF j < seq_capacity THEN segment_sequence[j]
                                               ELSE NULL
                     /\ segment_lengths'[j] = IF j < seq_capacity THEN segment_lengths[j]
                                              ELSE 0
<1> DEFINE id == new_seg_id
           sequence == grown(segment_sequence, NULL)
           lengths == grown(segment_lengths, 0)
           fresh == too_small(sequence[id], size, lengths[id])
<1>1. size \in Nat
  BY SegTableAssumption
<1>2. /\ id \in Range0(grown_capacity) /\ grown_capacity \in Nat
      /\ seq_capacity \in Nat /\ seq_capacity <= grown_capacity
      /\ seq_size \in Nat /\ seq_size <= seq_capacity
      /\ id # 0 /\ id \in Nat /\ (id < seq_size \/ id = seq_size)
  BY NewId, RecycledFacts DEF Range0
<1>3. /\ sequence = [j \in Range0(grown_capacity) |->
                        IF j < seq_capacity THEN segment_sequence[j] ELSE NULL]
      /\ lengths = [j \in Range0(grown_capacity) |->
                        IF j < seq_capacity THEN segment_lengths[j] ELSE 0]
  BY DEF grown
<1>4. /\ segment_sequence' = [sequence EXCEPT
               ![id] = IF fresh THEN Zeros(size) ELSE Cleared(sequence[id], size)]
      /\ segment_lengths' = [lengths EXCEPT ![id] = IF fresh THEN size ELSE lengths[id]]
  BY DEF map_segment
<1>5. fresh <=> sequence[id] = NULL \/ size > lengths[id]
  BY DEF too_small
<1> HIDE DEF id, sequence, lengths, fresh
<1>6. lengths \in [Range0(grown_capacity) -> Nat]
  BY <1>2, <1>3 DEF TableInv, TypeOK, Range0
<1>7. id < seq_size => /\ sequence[id] = segment_sequence[id] /\ sequence[id] \in Buffer
                       /\ lengths[id] = segment_lengths[id]
                       /\ lengths[id] = Len(sequence[id])
  BY <1>2, <1>3 DEF TableInv, Range0
<1>8. id = seq_size => sequence[id] = NULL
  BY <1>2, <1>3 DEF TableInv, Range0
<1>9. ~fresh => id < seq_size
  BY <1>2, <1>5, <1>8
<1>10. /\ segment_sequence'[id] = IF fresh THEN Zeros(size) ELSE Cleared(sequence[id], size)
       /\ segment_lengths'[id] = IF fresh THEN size ELSE lengths[id]
       /\ segment_lengths' \in [Range0(grown_capacity) -> Nat]
       /\ DOMAIN segment_sequence' = Range0(grown_capacity)
       /\ \A j \in Range0(grown_capacity) \ {id} :
             segment_sequence'[j] = sequence[j] /\ segment_lengths'[j] = lengths[j]
  BY <1>1, <1>2, <1>3, <1>4, <1>6
<1>11. CASE fresh
  <2>1. id < seq_size => segment_lengths[id] <= size
    <3> SUFFICES ASSUME id < seq_size PROVE segment_lengths[id] <= size
      OBVIOUS
    <3>1. sequence[id] # NULL /\ lengths[id] \in Nat
      BY <1>2, <1>6, <1>7, BufferNotNull
    <3> QED
      BY <1>1, <1>5, <1>7, <1>11, <3>1
  <2> QED
    BY <1>1, <1>3, <1>10, <1>11, <2>1, ZerosFacts DEF id
<1>12. CASE ~fresh
  <2>1. /\ sequence[id] \in Buffer /\ lengths[id] = Len(sequence[id])
        /\ size <= Len(sequence[id]) /\ Len(sequence[id]) \in Nat
        /\ segment_lengths[id] = lengths[id]
    BY <1>1, <1>2, <1>5, <1>6, <1>7, <1>9, <1>12
  <2>2. /\ Cleared(sequence[id], size) \in Buffer
        /\ Len(Cleared(sequence[id], size)) = Len(sequence[id])
        /\ \A i \in 1..size : Cleared(sequence[id], size)[i] = 0
    BY <1>1, <2>1, ClearedFacts
  <2> QED
    BY <1>1, <1>3, <1>10, <1>12, <2>1, <2>2 DEF id
<1> QED
  BY <1>11, <1>12

\* The stack of identifiers without its top.
LEMMA PopIds ==
    ASSUME TableInv, NEW ids, ids = SubSeq(recycled_ids, 1, rec_size - 1), rec_size # 0
    PROVE  /\ ids \in Seq(1..seq_size - 1) /\ Len(ids) = rec_size - 1
           /\ \A i \in 1..rec_size - 1 : ids[i] = recycled_ids[i]
<1>1. /\ rec_size \in Nat /\ rec_size - 1 \in Nat
      /\ \A i \in 1..rec_size - 1 : recycled_ids[i] \in 1..seq_size - 1
  BY RecycledFacts
<1> DEFINE n == rec_size - 1
<1>2. 1 \in Int /\ n \in Int /\ n \in Nat /\ \A i \in 1..n : recycled_ids[i] \in 1..seq_size - 1
  BY <1>1
<1> HIDE DEF n
<1>3. /\ SubSeq(recycled_ids, 1, n) \in Seq(1..seq_size - 1)
      /\ Len(SubSeq(recycled_ids, 1, n)) = IF 1 <= n THEN n - 1 + 1 ELSE 0
      /\ \A i \in 1..n - 1 + 1 : SubSeq(recycled_ids, 1, n)[i] = recycled_ids[1 + i - 1]
  BY <1>2, SubSeqProperties
<1>4. /\ SubSeq(recycled_ids, 1, n) \in Seq(1..seq_size - 1)
      /\ Len(SubSeq(recycled_ids, 1, n)) = n
      /\ \A i \in 1..n : SubSeq(recycled_ids, 1, n)[i] = recycled_ids[i]
  BY <1>2, <1>3
<1> QED
  BY <1>4 DEF n

\* The identifiers after map_segment: the new one has left the stack, if it was
\* there, and is held.
LEMMA MapIds ==
    ASSUME TableInv, NEW size \in Request, rec_size = 0 => seq_size < MaxIds,
           map_segment(size)
    PROVE  /\ (recycled_ids \in Seq(1..seq_size - 1))' /\ (rec_size <= rec_capacity)'
           /\ IdsExact'
<1> DEFINE id == new_seg_id
           n == rec_size
<1>1. /\ seq_size' = IF n = 0 THEN seq_size + 1 ELSE seq_size
      /\ recycled_ids' = SubSeq(recycled_ids, 1, n - 1)
      /\ DOMAIN held' = DOMAIN held \cup {id}
      /\ rec_capacity' = rec_capacity
  BY DEF map_segment
<1>2. /\ n \in Nat /\ seq_size \in Nat \ {0}
      /\ \A i \in 1..n : recycled_ids[i] \in 1..seq_size - 1
      /\ \A x : x \in Freed <=> \E i \in 1..n : x = recycled_ids[i]
      /\ n <= rec_capacity /\ rec_capacity \in Nat
  BY RecycledFacts DEF TableInv, TypeOK
<1>3. /\ Freed \cap DOMAIN held = {} /\ Freed \cup DOMAIN held = Range0(seq_size)
      /\ \A i, j \in 1..n : recycled_ids[i] = recycled_ids[j] => i = j
  BY RecycledFacts DEF TableInv, IdsExact
<1> HIDE DEF n
<1>4. CASE n = 0
  <2>1. recycled_ids' = <<>>
    <3>1. 1 \in Int /\ n - 1 \in Int /\ n - 1 < 1
      BY <1>4
    <3> QED
      BY <1>1, <3>1, SubSeqEmpty
  <2>2. rec_size' = 0 /\ Freed' = {} /\ DOMAIN recycled_ids' = {}
    BY <2>1, EmptySeq DEF rec_size, Freed
  <2>3. (recycled_ids \in Seq(1..seq_size - 1))'
    BY <2>1, EmptySeq
  <2>4. DOMAIN held' = Range0(seq_size')
    <3>1. id = seq_size /\ Freed = {}
      BY <1>2, <1>4, NewId DEF n
    <3> QED
      BY <1>1, <1>2, <1>3, <1>4, <3>1 DEF Range0
  <2> QED
    BY <1>1, <1>2, <2>2, <2>3, <2>4 DEF IdsExact
<1>5. CASE n # 0
  <2>1. /\ recycled_ids' \in Seq(1..seq_size - 1) /\ Len(recycled_ids') = n - 1
        /\ \A i \in 1..n - 1 : recycled_ids'[i] = recycled_ids[i]
    BY <1>1, <1>5, PopIds DEF n
  <2>2. rec_size' = n - 1 /\ DOMAIN recycled_ids' = 1..n - 1
    BY <2>1, LenProperties DEF rec_size
  <2>3. (recycled_ids \in Seq(1..seq_size - 1))' /\ (rec_size <= rec_capacity)'
    BY <1>1, <1>2, <1>5, <2>1, <2>2
  <2>4. id = recycled_ids[n] /\ n \in 1..n
    BY <1>2, <1>5, NewId DEF n
  <2>5. Freed' = Freed \ {id}
    <3>1. \A x : x \in Freed' <=> \E i \in 1..n - 1 : x = recycled_ids[i]
      BY <2>1, <2>2 DEF Freed
    <3>2. \A i \in 1..n - 1 : i \in 1..n /\ i # n /\ recycled_ids[i] # id
      BY <1>2, <1>3, <2>4
    <3>3. \A i \in 1..n : i \in 1..n - 1 \/ recycled_ids[i] = id
      BY <1>2, <2>4
    <3> QED
      BY <1>2, <3>1, <3>2, <3>3
  <2>6. id \in Freed
    BY <1>2, <2>4
  <2>7. IdsExact'
    <3>1. (Freed \cap DOMAIN held = {})' /\ (Freed \cup DOMAIN held = Range0(seq_size))'
      BY <1>1, <1>3, <1>5, <2>5, <2>6 DEF Range0
    <3>2. ASSUME NEW i \in 1..n - 1, NEW j \in 1..n - 1, recycled_ids'[i] = recycled_ids'[j]
          PROVE  i = j
      BY <1>2, <1>3, <2>1, <3>2
    <3> QED
      BY <2>2, <3>1, <3>2 DEF IdsExact
  <2> QED
    BY <2>3, <2>7
<1> QED
  BY <1>4, <1>5

\* map_segment keeps the invariant, and shrinks no buffer.
LEMMA MapKeeps ==
    ASSUME TableInv, NEW size \in Request, rec_size = 0 => seq_size < MaxIds,
           map_segment(size)
    PROVE  /\ TableInv'
           /\ \A id \in 1..seq_size - 1 : segment_lengths[id] <= segment_lengths'[id]
<1> DEFINE id == new_seg_id
<1>1. /\ id \in Nat /\ id # 0 /\ id < MaxIds /\ id \notin DOMAIN held
      /\ id < seq_size' /\ seq_size <= seq_size'
      /\ \A j \in Nat : j < seq_size' => j < seq_size \/ j = id
      /\ seq_capacity' = grown_capacity /\ seq_capacity' \in Nat /\ seq_size' <= seq_capacity'
      /\ seq_capacity <= seq_capacity'
  BY NewId DEF map_segment
<1>2. /\ seq_size' \in Nat \ {0} /\ seq_size \in Nat \ {0} /\ seq_capacity \in Nat
      /\ seq_size <= seq_capacity
      /\ seq_size' <= MaxIds \/ seq_size' = 1
  <2>1. rec_size \in Nat /\ seq_size \in Nat \ {0} /\ MaxIds \in Nat /\ seq_capacity \in Nat
        /\ seq_size <= seq_capacity
    BY RecycledFacts, SegTableAssumption
  <2> QED
    BY <2>1 DEF TableInv, map_segment
<1>3. /\ DOMAIN segment_sequence' = Range0(seq_capacity')
      /\ segment_lengths' \in [Range0(seq_capacity') -> Nat]
      /\ segment_sequence'[id] \in Buffer /\ size <= Len(segment_sequence'[id])
      /\ segment_lengths'[id] = Len(segment_sequence'[id])
      /\ id < seq_size => segment_lengths[id] <= segment_lengths'[id]
      /\ \A j \in Range0(seq_capacity') \ {id} :
            /\ segment_sequence'[j] = IF j < seq_capacity THEN segment_sequence[j] ELSE NULL
            /\ segment_lengths'[j] = IF j < seq_capacity THEN segment_lengths[j] ELSE 0
  BY <1>1, MapFacts
<1>4. /\ DOMAIN held' = DOMAIN held \cup {id} /\ held'[id] = size
      /\ \A j \in DOMAIN held : held'[j] = held[j]
      /\ held' = [j \in DOMAIN held' |-> held'[j]]
  BY <1>1 DEF map_segment
<1>5. size \in Nat
  BY SegTableAssumption
<1> HIDE DEF id
<1>0. PICK s \in Nat : s = seq_size'
  BY <1>2
<1>6. /\ \A j \in Range0(seq_size) : segment_sequence[j] \in Buffer
      /\ \A j \in seq_size..seq_capacity - 1 : segment_sequence[j] = NULL
      /\ \A j \in 1..seq_size - 1 : segment_lengths[j] = Len(segment_sequence[j])
      /\ held \in [DOMAIN held -> Nat]
      /\ \A j \in DOMAIN held : held[j] <= Len(segment_sequence[j])
      /\ DOMAIN held \subseteq Range0(seq_size) /\ 0 \in DOMAIN held
      /\ segment_lengths \in [Range0(seq_capacity) -> Nat]
      /\ rec_capacity \in Nat
  BY DEF TableInv, TypeOK
<1>7. \A j \in Range0(seq_size) : j # id => /\ segment_sequence'[j] = segment_sequence[j]
                                            /\ segment_lengths'[j] = segment_lengths[j]
  BY <1>1, <1>2, <1>3 DEF Range0
<1>8. \A j \in Range0(s) : j \in Range0(seq_size) \/ j = id
  <2> SUFFICES ASSUME NEW j \in Range0(s)
               PROVE  j \in Range0(seq_size) \/ j = id
    OBVIOUS
  <2>1. j \in Nat /\ j < s
    BY DEF Range0
  <2>2. j < seq_size \/ j = id
    BY <1>0, <1>1, <2>1
  <2> QED
    BY <1>2, <2>1, <2>2 DEF Range0
<1>9. TypeOK'
  <2>1. (recycled_ids \in Seq(1..seq_size - 1))' /\ (rec_size <= rec_capacity)'
    BY MapIds
  <2>2. DOMAIN held' \subseteq Range0(seq_size') /\ 0 \in DOMAIN held'
    BY <1>1, <1>2, <1>4, <1>6 DEF Range0
  <2>3. rec_capacity' \in Nat
    BY <1>6 DEF map_segment
  <2> QED
    BY <1>1, <1>2, <1>3, <2>1, <2>2, <2>3 DEF TypeOK
<1>10. IdsExact'
  BY MapIds
<1>11. \A j \in Range0(seq_size') : segment_sequence'[j] \in Buffer
  BY <1>0, <1>3, <1>6, <1>7, <1>8
<1>12. \A j \in seq_size'..seq_capacity' - 1 : segment_sequence'[j] = NULL
  <2> SUFFICES ASSUME NEW j \in seq_size'..seq_capacity' - 1
               PROVE  segment_sequence'[j] = NULL
    OBVIOUS
  <2>1. j \in Range0(seq_capacity') \ {id} /\ (j < seq_capacity => j \in seq_size..seq_capacity - 1)
    BY <1>1, <1>2 DEF Range0
  <2> QED
    BY <1>3, <1>6, <2>1
<1>13. \A j \in 1..s - 1 : segment_lengths'[j] = Len(segment_sequence'[j])
  <2> SUFFICES ASSUME NEW j \in 1..s - 1
               PROVE  segment_lengths'[j] = Len(segment_sequence'[j])
    OBVIOUS
  <2>1. j \in Range0(s) /\ j # 0 /\ j \in Nat
    BY DEF Range0
  <2>2. j = id \/ j \in Range0(seq_size)
    BY <1>8, <2>1
  <2>3. j \in Range0(seq_size) => j \in 1..seq_size - 1
    BY <1>2, <2>1 DEF Range0
  <2> QED
    BY <1>3, <1>6, <1>7, <2>2, <2>3
<1>14. held' \in [DOMAIN held' -> Nat] /\ \A j \in DOMAIN held' : held'[j] <= Len(segment_sequence'[j])
  BY <1>1, <1>3, <1>4, <1>5, <1>6, <1>7
<1>15. \A j \in 1..seq_size - 1 : segment_lengths[j] <= segment_lengths'[j]
  <2> SUFFICES ASSUME NEW j \in 1..seq_size - 1
               PROVE  segment_lengths[j] <= segment_lengths'[j]
    OBVIOUS
  <2>1. j \in Range0(seq_size) /\ j \in Range0(seq_capacity) /\ j < seq_size
    BY <1>2 DEF Range0
  <2>2. segment_lengths[j] \in Nat
    BY <1>6, <2>1
  <2> QED
    BY <1>3, <1>7, <2>1, <2>2
<1> QED
  BY <1>0, <1>2, <1>9, <1>10, <1>11, <1>12, <1>13, <1>14, <1>15 DEF TableInv

\* unmap_segment moves an identifier from the program's hands to the stack.
LEMMA UnmapKeeps ==
    ASSUME TableInv, NEW id \in DOMAIN held \ {0}, unmap_segment(id)
    PROVE  TableInv' /\ UNCHANGED table
<1> DEFINE n == rec_size
<1>1. /\ UNCHANGED <<segment_sequence, segment_lengths, seq_size, seq_capacity>>
      /\ recycled_ids' = Append(recycled_ids, id)
      /\ held' = [i \in DOMAIN held \ {id} |-> held[i]]
      /\ rec_capacity' = IF n = rec_capacity THEN rec_capacity * 2 + 2 ELSE rec_capacity
  BY DEF unmap_segment, table
<1>2. /\ n \in Nat /\ seq_size \in Nat \ {0} /\ recycled_ids \in Seq(1..seq_size - 1)
      /\ \A x : x \in Freed <=> \E i \in 1..n : x = recycled_ids[i]
      /\ n <= rec_capacity /\ rec_capacity \in Nat
      /\ DOMAIN held \subseteq Range0(seq_size) /\ 0 \in DOMAIN held
  BY RecycledFacts DEF TableInv, TypeOK
<1>3. /\ Freed \cap DOMAIN held = {} /\ Freed \cup DOMAIN held = Range0(seq_size)
      /\ \A i, j \in 1..n : recycled_ids[i] = recycled_ids[j] => i = j
  BY RecycledFacts DEF TableInv, IdsExact
<1>4. id \in 1..seq_size - 1
  BY <1>2 DEF Range0
<1>5. Len(recycled_ids) = n
  BY DEF rec_size
<1>6. /\ recycled_ids' \in Seq(1..seq_size - 1) /\ Len(recycled_ids') = n + 1
      /\ \A i \in 1..n : recycled_ids'[i] = recycled_ids[i]
      /\ recycled_ids'[n + 1] = id
  BY <1>1, <1>2, <1>4, <1>5, AppendProperties
<1>7. rec_size' = n + 1 /\ DOMAIN recycled_ids' = 1..n + 1
  BY <1>6, LenProperties DEF rec_size
<1> HIDE DEF n
<1>8. TypeOK'
  <2>1. rec_capacity' \in Nat /\ rec_size' <= rec_capacity'
    BY <1>1, <1>2, <1>7
  <2>2. DOMAIN held' \subseteq Range0(seq_size') /\ 0 \in DOMAIN held'
    BY <1>1, <1>2
  <2> QED
    BY <1>1, <1>6, <2>1, <2>2 DEF TableInv, TypeOK
<1>9. Freed' = Freed \cup {id}
  <2>1. \A x : x \in Freed' <=> \E i \in 1..n + 1 : x = recycled_ids'[i]
    BY <1>7 DEF Freed
  <2>2. ASSUME NEW x \in Freed' PROVE x \in Freed \cup {id}
    <3>1. PICK i \in 1..n + 1 : x = recycled_ids'[i]
      BY <2>1
    <3>2. CASE i = n + 1
      BY <1>6, <3>1, <3>2
    <3>3. CASE i # n + 1
      <4>1. i \in 1..n
        BY <1>2, <3>3
      <4> QED
        BY <1>2, <1>6, <3>1, <4>1
    <3> QED
      BY <3>2, <3>3
  <2>3. ASSUME NEW x \in Freed PROVE x \in Freed'
    <3>1. PICK i \in 1..n : x = recycled_ids[i]
      BY <1>2
    <3>2. i \in 1..n + 1 /\ x = recycled_ids'[i]
      BY <1>2, <1>6, <3>1
    <3> QED
      BY <2>1, <3>2
  <2>4. id \in Freed'
    <3>1. n + 1 \in 1..n + 1
      BY <1>2
    <3> QED
      BY <1>6, <2>1, <3>1
  <2> QED
    BY <2>2, <2>3, <2>4
<1>10. IdsExact'
  <2>1. (Freed \cap DOMAIN held = {})' /\ (Freed \cup DOMAIN held = Range0(seq_size))'
    BY <1>1, <1>3, <1>9
  <2>2. ASSUME NEW i \in 1..n + 1, NEW j \in 1..n + 1, recycled_ids'[i] = recycled_ids'[j]
        PROVE  i = j
    <3>1. \A k \in 1..n : recycled_ids'[k] # id
      BY <1>2, <1>3, <1>6
    <3>2. (i \in 1..n \/ i = n + 1) /\ (j \in 1..n \/ j = n + 1)
      BY <1>2
    <3> QED
      BY <1>3, <1>6, <2>2, <3>1, <3>2
  <2> QED
    BY <1>7, <2>1, <2>2 DEF IdsExact
<1> QED
  BY <1>1, <1>8, <1>10 DEF TableInv, table

\* What stays as it was when only the buffers change: a write that leaves
\* each entry a buffer of the same length keeps the invariant.
LEMMA BuffersKept ==
    ASSUME TableInv,
           UNCHANGED <<segment_lengths, seq_size, seq_capacity, recycler>>,
           DOMAIN segment_sequence' = DOMAIN segment_sequence,
           DOMAIN held' = DOMAIN held, held' \in [DOMAIN held' -> Nat],
           NEW id \in Range0(seq_size), segment_sequence'[id] \in Buffer,
           id # 0 => Len(segment_sequence'[id]) = Len(segment_sequence[id]),
           \A i \in Range0(seq_capacity) \ {id} : segment_sequence'[i] = segment_sequence[i],
           \A i \in DOMAIN held : held'[i] <= Len(segment_sequence'[i])
    PROVE  TableInv'
<1>1. /\ seq_size' = seq_size /\ seq_capacity' = seq_capacity
      /\ recycled_ids' = recycled_ids /\ rec_capacity' = rec_capacity
      /\ segment_lengths' = segment_lengths
  BY DEF recycler
<1>2. rec_size' = rec_size /\ Freed' = Freed
  BY <1>1 DEF rec_size, Freed
<1>3. TypeOK' /\ IdsExact'
  BY <1>1, <1>2 DEF TableInv, TypeOK, IdsExact
<1>4. seq_size \in Nat \ {0} /\ seq_capacity \in Nat /\ seq_size <= seq_capacity
  BY RecycledFacts
<1>5. \A i \in Range0(seq_size) : segment_sequence'[i] \in Buffer
  <2> SUFFICES ASSUME NEW i \in Range0(seq_size)
               PROVE  segment_sequence'[i] \in Buffer
    OBVIOUS
  <2>1. segment_sequence[i] \in Buffer
    BY DEF TableInv
  <2>2. i \in Range0(seq_capacity)
    BY <1>4 DEF Range0
  <2>3. CASE i = id
    BY <2>3
  <2>4. CASE i # id
    BY <2>1, <2>2, <2>4
  <2> QED
    BY <2>3, <2>4
<1>6. \A i \in seq_size..seq_capacity - 1 : segment_sequence'[i] = NULL
  BY <1>4 DEF TableInv, Range0
<1>7. \A i \in 1..seq_size - 1 : segment_lengths[i] = Len(segment_sequence'[i])
  <2> SUFFICES ASSUME NEW i \in 1..seq_size - 1
               PROVE  segment_lengths[i] = Len(segment_sequence'[i])
    OBVIOUS
  <2>1. i \in Range0(seq_capacity) /\ i # 0 /\ segment_lengths[i] = Len(segment_sequence[i])
    BY <1>4 DEF TableInv, Range0
  <2>2. CASE i = id
    BY <2>1, <2>2
  <2>3. CASE i # id
    BY <2>1, <2>3
  <2> QED
    BY <2>2, <2>3
<1> QED
  BY <1>1, <1>3, <1>5, <1>6, <1>7 DEF TableInv

\* A store within a segment leaves its buffer as long as it was.
LEMMA StoreKeeps ==
    ASSUME TableInv, NEW id \in DOMAIN held, NEW k \in Nat, NEW v \in Value,
           k < held[id], StoreWord(id, k, v)
    PROVE  /\ TableInv'
           /\ segment_sequence'[id] = [segment_sequence[id] EXCEPT ![k + 1] = v]
           /\ \A i \in DOMAIN held \ {id} : segment_sequence'[i] = segment_sequence[i]
<1>1. /\ segment_sequence' = [segment_sequence EXCEPT ![id][k + 1] = v]
      /\ UNCHANGED <<segment_lengths, seq_size, seq_capacity, recycler, held>>
  BY DEF StoreWord
<1>2. /\ DOMAIN segment_sequence = Range0(seq_capacity)
      /\ DOMAIN held \subseteq Range0(seq_size)
      /\ held \in [DOMAIN held -> Nat] /\ \A i \in DOMAIN held : held[i] <= Len(segment_sequence[i])
      /\ seq_size \in Nat /\ seq_capacity \in Nat /\ seq_size <= seq_capacity
  BY RecycledFacts DEF TableInv, TypeOK
<1>3. id \in Range0(seq_size) /\ id \in Range0(seq_capacity)
      /\ DOMAIN held \subseteq Range0(seq_capacity)
  BY <1>2 DEF Range0
<1>4. segment_sequence[id] \in Buffer /\ Len(segment_sequence[id]) \in Nat
  BY <1>3, LenProperties DEF TableInv, Buffer
<1>5. k + 1 \in 1..Len(segment_sequence[id])
  BY <1>2, <1>4
<1>6. /\ segment_sequence'[id] = [segment_sequence[id] EXCEPT ![k + 1] = v]
      /\ DOMAIN segment_sequence' = DOMAIN segment_sequence
      /\ \A i \in Range0(seq_capacity) \ {id} : segment_sequence'[i] = segment_sequence[i]
  BY <1>1, <1>2, <1>3
<1>7. /\ segment_sequence'[id] \in Buffer
      /\ Len(segment_sequence'[id]) = Len(segment_sequence[id])
  <2>1. v \in Value \cup {0}
    OBVIOUS
  <2> QED
    BY <1>4, <1>5, <1>6, <2>1, ExceptSeq DEF Buffer
<1>8. TableInv'
  BY <1>1, <1>2, <1>3, <1>6, <1>7, BuffersKept
<1> QED
  BY <1>3, <1>6, <1>8

\* A load gives segment 0 the whole buffer of the other segment, however much
\* of it that segment uses.
LEMMA LoadKeeps ==
    ASSUME TableInv, NEW index \in DOMAIN held \ {0}, load_segment(index)
    PROVE  /\ TableInv'
           /\ segment_sequence'[0] = segment_sequence[index]
           /\ \A i \in DOMAIN held \ {0} : segment_sequence'[i] = segment_sequence[i]
<1>1. /\ segment_sequence' = [segment_sequence EXCEPT
               ![0] = SubSeq(segment_sequence[index], 1, segment_lengths[index])]
      /\ held' = [held EXCEPT ![0] = held[index]]
      /\ UNCHANGED <<segment_lengths, seq_size, seq_capacity, recycler>>
  BY DEF load_segment
<1>2. /\ DOMAIN segment_sequence = Range0(seq_capacity)
      /\ DOMAIN held \subseteq Range0(seq_size) /\ 0 \in DOMAIN held
      /\ held \in [DOMAIN held -> Nat] /\ \A i \in DOMAIN held : held[i] <= Len(segment_sequence[i])
      /\ seq_size \in Nat /\ seq_capacity \in Nat /\ seq_size <= seq_capacity
  BY RecycledFacts DEF TableInv, TypeOK
<1>3. /\ index \in Range0(seq_size) /\ index \in 1..seq_size - 1 /\ 0 \in Range0(seq_size)
      /\ 0 \in Range0(seq_capacity) /\ DOMAIN held \subseteq Range0(seq_capacity)
  BY <1>2 DEF Range0
<1>4. /\ segment_sequence[index] \in Buffer
      /\ segment_lengths[index] = Len(segment_sequence[index])
  BY <1>3 DEF TableInv
<1>5. SubSeq(segment_sequence[index], 1, segment_lengths[index]) = segment_sequence[index]
  BY <1>4, SubSeqFull DEF Buffer
<1>6. /\ segment_sequence'[0] = segment_sequence[index]
      /\ DOMAIN segment_sequence' = DOMAIN segment_sequence
      /\ \A i \in Range0(seq_capacity) \ {0} : segment_sequence'[i] = segment_sequence[i]
  BY <1>1, <1>2, <1>3, <1>5
<1>7. DOMAIN held' = DOMAIN held /\ held' \in [DOMAIN held' -> Nat]
  BY <1>1, <1>2
<1>8. \A i \in DOMAIN held : held'[i] <= Len(segment_sequence'[i])
  BY <1>1, <1>2, <1>3, <1>6
<1>9. TableInv'
  BY <1>1, <1>3, <1>4, <1>6, <1>7, <1>8, BuffersKept
<1> QED
  BY <1>3, <1>6, <1>9

-----------------------------------------------------------------------------
\* The theorems.

\* A step is one of the operations, with the guard Next gives it, or a stutter.
LEMMA StepCases ==
    ASSUME [Next]_vars
    PROVE  \/ \E size \in Request :
                 (rec_size = 0 => seq_size < MaxIds) /\ map_segment(size)
           \/ \E id \in DOMAIN held \ {0} : unmap_segment(id)
           \/ \E id \in DOMAIN held, k \in Nat, v \in Value :
                 k < held[id] /\ StoreWord(id, k, v)
           \/ \E id \in DOMAIN held \ {0} : load_segment(id)
           \/ UNCHANGED vars
BY SegTableAssumption DEF Next

LEMMA StutterKeeps == ASSUME TableInv, UNCHANGED vars PROVE TableInv'
BY DEF vars, table, recycler, TableInv, TypeOK, IdsExact, Freed, rec_size

LEMMA StepKeeps == ASSUME TableInv, [Next]_vars PROVE TableInv'
BY StepCases, MapKeeps, UnmapKeeps, StoreKeeps, LoadKeeps, StutterKeeps

\* Whatever a program maps, frees, writes and loads, the invariant holds.
THEOREM TableInvariant == Spec => []TableInv
<1>1. Init => TableInv
  BY InitTable
<1>2. TableInv /\ [Next]_vars => TableInv'
  BY StepKeeps
<1> QED
  BY <1>1, <1>2, PTL DEF Spec

\* The two arrays and the stack of freed identifiers have the sizes that are
\* recorded for them, so no index the code uses is past their ends.
THEOREM TypeCorrect == Spec => []TypeOK
<1>1. TableInv => TypeOK
  BY DEF TableInv
<1> QED
  BY <1>1, TableInvariant, PTL

\* No identifier is lost, and none is in the program's hands twice, or there
\* and on the stack of freed ones.
THEOREM IdsCorrect == Spec => []IdsExact
<1>1. TableInv => IdsExact
  BY DEF TableInv
<1> QED
  BY <1>1, TableInvariant, PTL

\* Every identifier handed out has a buffer, of the length recorded for it, and
\* its segment fits: no copy and no clearing goes past the end of a buffer.
THEOREM LengthsCorrect == Spec => []LengthsTrue
<1>1. ASSUME TableInv, NEW id \in Range0(seq_size)
      PROVE  /\ segment_sequence[id] # NULL
             /\ id # 0 => segment_lengths[id] = Len(segment_sequence[id])
             /\ id \in DOMAIN held => held[id] <= Len(segment_sequence[id])
  <2>1. segment_sequence[id] # NULL
    BY <1>1, BufferNotNull DEF TableInv
  <2>2. id # 0 => id \in 1..seq_size - 1
    BY <1>1, RecycledFacts DEF Range0
  <2> QED
    BY <1>1, <2>1, <2>2 DEF TableInv
<1>2. TableInv => LengthsTrue
  BY <1>1 DEF LengthsTrue
<1> QED
  BY <1>2, TableInvariant, PTL

\* No step shortens the buffer of an identifier, freed or live.
THEOREM BuffersNeverShrink == Spec => BuffersGrow
<1> DEFINE Grow == \A id \in 1..seq_size - 1 : segment_lengths[id] <= segment_lengths'[id]
<1>1. ASSUME TableInv, [Next]_vars PROVE Grow
  <2>1. segment_lengths' = segment_lengths => Grow
    <3>1. \A id \in 1..seq_size - 1 : segment_lengths[id] \in Nat
      BY <1>1, RecycledFacts DEF TableInv, TypeOK, Range0
    <3> QED
      BY <3>1
  <2>2. \/ \E size \in Request :
              (rec_size = 0 => seq_size < MaxIds) /\ map_segment(size)
        \/ segment_lengths' = segment_lengths
    BY <1>1, StepCases
       DEF unmap_segment, StoreWord, load_segment, vars, table
  <2> QED
    BY <1>1, <2>1, <2>2, MapKeeps
<1>2. TableInv /\ [Next]_vars => [Grow]_vars
  BY <1>1
<1> QED
  BY <1>2, TableInvariant, PTL DEF Spec, BuffersGrow

-----------------------------------------------------------------------------
\* The size of the table.

\* A segment in use has one of the identifiers handed out, so the number in use
\* is bounded by them, and meets the bound when none waits to be used again.
LiveWithin == live \in Nat /\ live <= seq_size /\ (Freed = {} => live = seq_size)

LEMMA LiveBound == TableInv => LiveWithin
<1> SUFFICES ASSUME TableInv PROVE LiveWithin
  OBVIOUS
<1>1. seq_size \in Nat
  BY RecycledFacts
<1>2. /\ IsFiniteSet(0..seq_size - 1)
      /\ Cardinality(0..seq_size - 1) = seq_size
  <2>1. 0 \in Int /\ seq_size - 1 \in Int
    BY <1>1
  <2> QED
    BY <1>1, <2>1, FS_Interval
<1>3. DOMAIN held \in SUBSET (0..seq_size - 1)
  BY DEF TableInv, TypeOK, Range0
<1>4. /\ Cardinality(DOMAIN held) <= Cardinality(0..seq_size - 1)
      /\ IsFiniteSet(DOMAIN held)
  BY <1>2, <1>3, FS_Subset
<1>5. Cardinality(DOMAIN held) \in Nat
  BY <1>4, FS_CardinalityType
<1>6. Freed = {} => DOMAIN held = 0..seq_size - 1
  BY DEF TableInv, IdsExact, Range0
<1> QED
  BY <1>1, <1>2, <1>4, <1>5, <1>6 DEF live, LiveWithin

\* A step makes a new identifier only when all of them are in use after it.
LEMMA NewIdMeetsDemand ==
    ASSUME TableInv, [Next]_vars
    PROVE  seq_size' = seq_size \/ (seq_size' = seq_size + 1 /\ Freed' = {})
<1>1. CASE \E size \in Request : (rec_size = 0 => seq_size < MaxIds) /\ map_segment(size)
  <2>1. /\ seq_size' = IF rec_size = 0 THEN seq_size + 1 ELSE seq_size
        /\ recycled_ids' = SubSeq(recycled_ids, 1, rec_size - 1)
    BY <1>1 DEF map_segment
  <2>2. CASE rec_size = 0
    <3>1. recycled_ids = <<>>
      BY <2>2, EmptySeq DEF rec_size, TableInv, TypeOK
    <3>2. recycled_ids' = <<>>
      BY <2>1, <2>2, <3>1
    <3> QED
      BY <2>1, <2>2, <3>2 DEF Freed
  <2> QED
    BY <2>1, <2>2
<1>2. CASE UNCHANGED seq_size
  BY <1>2
<1>3. \/ \E size \in Request : (rec_size = 0 => seq_size < MaxIds) /\ map_segment(size)
      \/ UNCHANGED seq_size
  BY StepCases DEF unmap_segment, StoreWord, load_segment, vars, table
<1> QED
  BY <1>1, <1>2, <1>3

\* The table never has more identifiers than the program has had segments at
\* once: a new one is made only when no freed one waits.
THEOREM TableMeetsDemand == PeakSpec => []TableIsPeakDemand
<1> DEFINE PeakInv == TableInv /\ TableIsPeakDemand
<1>1. PeakInit => PeakInv
  BY InitTable DEF PeakInit, Init, TableIsPeakDemand
<1>2. PeakInv /\ [PeakNext]_<<vars, peak>> => PeakInv'
  <2> SUFFICES ASSUME PeakInv, [PeakNext]_<<vars, peak>> PROVE PeakInv'
    OBVIOUS
  <2>1. [Next]_vars
    BY DEF PeakNext
  <2>2. TableInv'
    BY <2>1, StepKeeps
  <2>3. CASE UNCHANGED <<vars, peak>>
    BY <2>2, <2>3 DEF TableIsPeakDemand, vars, table
  <2>4. CASE PeakNext
    <3>1. LiveWithin'
      BY <2>2, LiveBound, PTL
    <3>2. seq_size' = seq_size \/ (seq_size' = seq_size + 1 /\ Freed' = {})
      BY <2>1, NewIdMeetsDemand
    <3>3. seq_size \in Nat /\ peak = seq_size
      BY RecycledFacts DEF TableIsPeakDemand
    <3>4. peak' = IF live' > peak THEN live' ELSE peak
      BY <2>4 DEF PeakNext
    <3>5. peak' = seq_size'
      BY <3>1, <3>2, <3>3, <3>4 DEF LiveWithin
    <3> QED
      BY <2>2, <3>5 DEF TableIsPeakDemand
  <2> QED
    BY <2>3, <2>4
<1>3. PeakInv => TableIsPeakDemand
  OBVIOUS
<1> QED
  BY <1>1, <1>2, <1>3, PTL DEF PeakSpec

-----------------------------------------------------------------------------
\* Refinement: the memory the table serves is, for each live identifier, the
\* part of its buffer that the program asked for.
Memory == [id \in DOMAIN held |-> SubSeq(segment_sequence[id], 1, held[id])]

MemoryRead ==
    /\ DOMAIN Memory = DOMAIN held
    /\ \A id \in DOMAIN held :
          /\ held[id] \in Nat /\ id \in Range0(seq_size)
          /\ held[id] <= Len(segment_sequence[id])
          /\ segment_sequence[id] \in Buffer
          /\ Memory[id] \in Buffer /\ Len(Memory[id]) = held[id]
          /\ \A i \in 1..held[id] : Memory[id][i] = segment_sequence[id][i]

LEMMA MemoryFacts == TableInv => MemoryRead
<1> SUFFICES ASSUME TableInv PROVE MemoryRead
  OBVIOUS
<1>1. ASSUME NEW id \in DOMAIN held
      PROVE  /\ held[id] \in Nat /\ id \in Range0(seq_size)
             /\ held[id] <= Len(segment_sequence[id]) /\ segment_sequence[id] \in Buffer
  BY DEF TableInv, TypeOK
<1>2. ASSUME NEW id \in DOMAIN held
      PROVE  /\ Memory[id] \in Buffer /\ Len(Memory[id]) = held[id]
             /\ \A i \in 1..held[id] : Memory[id][i] = segment_sequence[id][i]
  <2>1. PICK n, b : n = held[id] /\ b = segment_sequence[id]
    OBVIOUS
  <2>2. /\ SubSeq(b, 1, n) \in Buffer /\ Len(SubSeq(b, 1, n)) = n
        /\ \A i \in 1..n : SubSeq(b, 1, n)[i] = b[i]
    BY <1>1, <2>1, PrefixFacts
  <2> QED
    BY <2>1, <2>2 DEF Memory
<1> QED
  BY <1>1, <1>2 DEF Memory, MemoryRead

\* The initial memory holds the program, in segment 0.
LEMMA InitMemory == ASSUME Init PROVE UM!Init
<1>1. TableInv /\ DOMAIN held = {0}
  BY InitTable DEF Init
<1>2. Memory \in [{0} -> Buffer]
  BY <1>1, MemoryFacts DEF Memory, MemoryRead
<1> QED
  BY <1>2 DEF UM!Init, Memory, Buffer

\* A fresh segment is all zeros, even where it reuses a buffer.
LEMMA MapMemory ==
    ASSUME TableInv, NEW size \in Request, rec_size = 0 => seq_size < MaxIds,
           map_segment(size)
    PROVE  UM!Map(new_seg_id, size) /\ new_seg_id \in Range0(MaxIds) \ {0}
<1> DEFINE id == new_seg_id
<1>1. /\ TableInv' /\ size \in Nat /\ MaxIds \in Nat
  BY MapKeeps, SegTableAssumption
<1>2. id \in Nat /\ id # 0 /\ id < MaxIds /\ id \notin DOMAIN held
  BY NewId
<1>3. /\ DOMAIN held' = DOMAIN held \cup {id} /\ held'[id] = size
      /\ \A i \in DOMAIN held : held'[i] = held[i]
  BY <1>2 DEF map_segment
<1>4. \A i \in 1..size : segment_sequence'[id][i] = 0
  BY MapFacts
<1>5. \A i \in DOMAIN held : segment_sequence'[i] = segment_sequence[i]
  <2> SUFFICES ASSUME NEW i \in DOMAIN held PROVE segment_sequence'[i] = segment_sequence[i]
    OBVIOUS
  <2>1. i \in Range0(seq_size) /\ i # id
    BY <1>2, MemoryFacts DEF MemoryRead
  <2>2. i < seq_capacity /\ i \in Range0(grown_capacity) \ {id}
    BY <2>1, RecycledFacts, NewId DEF Range0
  <2> QED
    BY <2>2, MapFacts
<1> HIDE DEF id
<1>6. Memory'[id] = Zeros(size)
  <2>1. PICK m : m = Memory'[id]
    OBVIOUS
  <2>2. m \in Buffer /\ Len(m) = size /\ \A i \in 1..size : m[i] = 0
    <3>1. MemoryRead'
      BY <1>1, MemoryFacts, PTL
    <3> QED
      BY <1>3, <1>4, <2>1, <3>1 DEF MemoryRead
  <2>3. m = Zeros(size)
    BY <1>1, <2>2, ZerosFacts, BufferEqual
  <2> QED
    BY <2>1, <2>3
<1>7. \A i \in DOMAIN held : Memory'[i] = Memory[i]
  BY <1>3, <1>5 DEF Memory
<1>8. Memory' = [i \in DOMAIN Memory' |-> Memory'[i]] /\ DOMAIN Memory' = DOMAIN held'
      /\ DOMAIN Memory = DOMAIN held
  BY DEF Memory
<1>9. Memory' = [i \in DOMAIN Memory \cup {id} |->
                    IF i = id THEN [j \in 1..size |-> 0] ELSE Memory[i]]
  BY <1>2, <1>3, <1>6, <1>7, <1>8 DEF Zeros
<1>10. UM!Map(id, size)
  BY <1>2, <1>8, <1>9 DEF UM!Map, UM!Zeros, Memory
<1>11. id \in Range0(MaxIds) \ {0}
  BY <1>1, <1>2 DEF Range0
<1> QED
  BY <1>10, <1>11 DEF id

LEMMA UnmapMemory ==
    ASSUME TableInv, NEW id \in DOMAIN held \ {0}, unmap_segment(id)
    PROVE  UM!Unmap(id) /\ id \in DOMAIN Memory
<1>1. /\ segment_sequence' = segment_sequence
      /\ held' = [i \in DOMAIN held \ {id} |-> held[i]]
  BY DEF unmap_segment, table
<1>2. Memory' = [i \in DOMAIN Memory \ {id} |-> Memory[i]]
  BY <1>1 DEF Memory
<1> QED
  BY <1>2 DEF UM!Unmap, Memory

\* A write within a segment changes that word of it and no other segment.
LEMMA StoreMemory ==
    ASSUME TableInv, NEW id \in DOMAIN held, NEW k \in Nat, NEW v \in Value,
           k < held[id], StoreWord(id, k, v)
    PROVE  UM!Store(id, k + 1, v) /\ id \in DOMAIN Memory /\ k + 1 \in 1..Len(Memory[id])
<1>1. /\ TableInv' /\ held' = held
      /\ segment_sequence'[id] = [segment_sequence[id] EXCEPT ![k + 1] = v]
      /\ \A i \in DOMAIN held \ {id} : segment_sequence'[i] = segment_sequence[i]
  <2>1. held' = held
    BY DEF StoreWord
  <2> QED
    BY <2>1, StoreKeeps
<1>2. /\ held[id] \in Nat /\ held[id] <= Len(segment_sequence[id])
      /\ segment_sequence[id] \in Buffer
      /\ Memory[id] \in Buffer /\ Len(Memory[id]) = held[id]
      /\ \A i \in 1..held[id] : Memory[id][i] = segment_sequence[id][i]
      /\ DOMAIN Memory = DOMAIN held
  BY MemoryFacts DEF MemoryRead
<1>3. /\ Memory'[id] \in Buffer /\ Len(Memory'[id]) = held[id]
      /\ \A i \in 1..held[id] : Memory'[id][i] = segment_sequence'[id][i]
      /\ DOMAIN Memory' = DOMAIN held
  <2>1. MemoryRead'
    BY <1>1, MemoryFacts, PTL
  <2> QED
    BY <1>1, <2>1 DEF MemoryRead
<1>4. k + 1 \in 1..held[id]
  BY <1>2
<1>5. PICK m : m = [Memory[id] EXCEPT ![k + 1] = v]
  OBVIOUS
<1>6. /\ m \in Buffer /\ Len(m) = held[id]
      /\ \A i \in 1..held[id] : m[i] = IF i = k + 1 THEN v ELSE Memory[id][i]
  <2>1. v \in Value \cup {0}
    OBVIOUS
  <2>2. DOMAIN Memory[id] = 1..held[id]
    BY <1>2, LenProperties DEF Buffer
  <2> QED
    BY <1>2, <1>4, <1>5, <2>1, <2>2, ExceptSeq DEF Buffer
<1>7. \A i \in 1..held[id] : segment_sequence'[id][i] =
                                IF i = k + 1 THEN v ELSE segment_sequence[id][i]
  <2>1. DOMAIN segment_sequence[id] = 1..Len(segment_sequence[id]) /\ Len(segment_sequence[id]) \in Nat
    BY <1>2, LenProperties DEF Buffer
  <2>2. \A i \in 1..held[id] : i \in DOMAIN segment_sequence[id]
    BY <1>2, <2>1
  <2> QED
    BY <1>1, <2>2
<1>8. Memory'[id] = m
  <2>1. PICK a : a = Memory'[id]
    OBVIOUS
  <2>2. a \in Buffer /\ Len(a) = Len(m) /\ \A i \in 1..Len(a) : a[i] = m[i]
    BY <1>2, <1>3, <1>6, <1>7, <2>1
  <2> QED
    BY <1>6, <2>1, <2>2, BufferEqual
<1>9. \A i \in DOMAIN held \ {id} : Memory'[i] = Memory[i]
  BY <1>1 DEF Memory
<1>10. Memory' = [Memory EXCEPT ![id] = m]
  <2>1. Memory' = [i \in DOMAIN Memory' |-> Memory'[i]]
    BY DEF Memory
  <2> QED
    BY <1>2, <1>3, <1>8, <1>9, <2>1
<1>11. Memory' = [Memory EXCEPT ![id][k + 1] = v]
  BY <1>5, <1>10
<1> QED
  BY <1>2, <1>4, <1>11 DEF UM!Store, Memory

\* A load duplicates a segment into segment 0, though the buffer copied may be
\* longer than the segment.
LEMMA LoadMemory ==
    ASSUME TableInv, NEW index \in DOMAIN held \ {0}, load_segment(index)
    PROVE  UM!LoadSegment(index) /\ index \in DOMAIN Memory
<1>1. /\ segment_sequence'[0] = segment_sequence[index]
      /\ \A i \in DOMAIN held \ {0} : segment_sequence'[i] = segment_sequence[i]
  BY LoadKeeps
<1>2. held' = [held EXCEPT ![0] = held[index]] /\ 0 \in DOMAIN held
  BY DEF load_segment, TableInv, TypeOK
<1>3. Memory' = [Memory EXCEPT ![0] = Memory[index]]
  BY <1>1, <1>2 DEF Memory
<1> QED
  BY <1>3 DEF UM!LoadSegment, Memory

\* The table serves the memory of the UM: every behaviour of the table, its
\* reuse of identifiers and buffers hidden, is one that UMMemory allows.
THEOREM ServesUMMemory == Spec => ImplementsUMMemory
<1>1. Init => UM!Init
  BY InitMemory
<1>2. ASSUME TableInv, [Next]_vars PROVE UM!Next \/ UNCHANGED Memory
  <2>1. CASE \E size \in Request :
                (rec_size = 0 => seq_size < MaxIds) /\ map_segment(size)
    BY <1>2, <2>1, MapMemory DEF UM!Next
  <2>2. CASE \E id \in DOMAIN held \ {0} : unmap_segment(id)
    BY <1>2, <2>2, UnmapMemory DEF UM!Next, Memory
  <2>3. CASE \E id \in DOMAIN held, k \in Nat, v \in Value :
                k < held[id] /\ StoreWord(id, k, v)
    BY <1>2, <2>3, StoreMemory DEF UM!Next, Memory
  <2>4. CASE \E id \in DOMAIN held \ {0} : load_segment(id)
    BY <1>2, <2>4, LoadMemory DEF UM!Next, Memory
  <2>5. CASE UNCHANGED vars
    BY <2>5 DEF vars, table, Memory
  <2> QED
    BY <1>2, <2>1, <2>2, <2>3, <2>4, <2>5, StepCases
<1>3. TableInv /\ [Next]_vars =>
        [UM!Next]_([id \in DOMAIN held |-> SubSeq(segment_sequence[id], 1, held[id])])
  BY <1>2 DEF Memory
<1> QED
  BY <1>1, <1>3, TableInvariant, PTL DEF Spec, UM!Spec, ImplementsUMMemory
=============================================================================
