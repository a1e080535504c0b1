--------------------------- MODULE EmulatorProofs ---------------------------
(***************************************************************************)
(* The first emulator of a legal program takes only steps of SegTable, so   *)
(* that the theorems of SegTableProofs hold of its memory, keeps the types  *)
(* of its registers, pointer and output, never leaves its finger in a       *)
(* buffer that is no longer segment 0's, and is a UM.                       *)
(***************************************************************************)
EXTENDS Emulator, SegTableProofs, IsaProofs

\* What every step keeps: the invariant of the table, the types, and a finger
\* that points into the buffer of segment 0.
FingerInZero == text = NULL
EmulatorInv == TableInv /\ EmulatorTypeOK /\ FingerInZero

-----------------------------------------------------------------------------
\* Words.

LEMMA WordFacts ==
    /\ POWER \in Nat \ {0} /\ OP_UNIT \in Nat \ {0} /\ POWER = 16 * OP_UNIT
    /\ U32 \subseteq Nat /\ 0 \in U32 /\ Value \cup {0} = U32
    /\ Range0(MaxIds) \subseteq U32
<1>1. PICK n \in Nat \ {0}, v \in Nat \ {0} : n = NREGS /\ v = LV_UNIT
  BY IsaAssumption
<1>2. n * v \in Nat \ {0}
  BY <1>1
<1>3. OP_UNIT \in Nat \ {0} /\ POWER = 16 * OP_UNIT
  BY <1>1, <1>2, IsaAssumption DEF POWER
<1>4. 0 \in U32
  BY <1>3 DEF U32
<1>5. MaxIds \in Nat /\ MaxIds <= POWER
  BY SegTableAssumption, EmulatorAssumption
<1>6. Range0(MaxIds) \subseteq U32
  BY <1>3, <1>5 DEF U32, Range0
<1>7. Value \cup {0} = U32
  BY <1>4, EmulatorAssumption
<1>8. U32 \subseteq Nat
  BY DEF U32
<1> QED
  BY <1>3, <1>4, <1>6, <1>7, <1>8

LEMMA WrappedWord == ASSUME NEW x \in Nat PROVE x % POWER \in U32
BY WordFacts, DivMod DEF U32

LEMMA QuotientWord ==
    ASSUME NEW x \in U32, NEW y \in U32, y # 0
    PROVE  x \div y \in U32
<1>1. x \in Nat /\ y \in Nat \ {0} /\ POWER \in Nat /\ x <= POWER - 1
  BY WordFacts DEF U32
<1>2. x \div y \in Nat /\ x \div y <= x
  BY <1>1
<1> QED
  BY <1>1, <1>2 DEF U32

\* A legal access reads a word of the buffer.
LEMMA ReadWord ==
    ASSUME TableInv, NEW id \in DOMAIN held, NEW k \in Nat, k < held[id]
    PROVE  /\ segment_sequence[id][k + 1] \in U32 /\ k + 1 \in 1..Len(segment_sequence[id])
           /\ id \in Range0(seq_size)
<1>1. /\ held[id] \in Nat /\ id \in Range0(seq_size)
      /\ held[id] <= Len(segment_sequence[id]) /\ segment_sequence[id] \in Buffer
  BY DEF TableInv, TypeOK
<1>2. Len(segment_sequence[id]) \in Nat
  BY <1>1, LenProperties DEF Buffer
<1>3. k + 1 \in 1..Len(segment_sequence[id])
  BY <1>1, <1>2
<1>4. segment_sequence[id] \in Seq(U32)
  BY <1>1, WordFacts DEF Buffer
<1> QED
  BY <1>1, <1>3, <1>4, ElementOfSeq

\* The word under the pointer is a word, and names registers.
LEMMA Fetched ==
    ASSUME EmulatorInv, NEW op, Opcode(op)
    PROVE  /\ word \in U32 /\ A \in U32 /\ B \in U32 /\ C \in U32 /\ lv_val(word) \in U32
           /\ reg_a(word) \in Reg /\ reg_b(word) \in Reg /\ reg_c(word) \in Reg
           /\ lv_reg(word) \in Reg /\ 0 \in DOMAIN held
<1>1. pp \in Nat /\ pp < held[0] /\ 0 \in DOMAIN held /\ regs \in [Reg -> U32]
  BY DEF EmulatorInv, EmulatorTypeOK, TableInv, TypeOK, Opcode
<1>2. word \in U32
  BY <1>1, ReadWord DEF EmulatorInv, FingerInZero, word
<1>3. word \in Nat
  BY <1>2, WordFacts
<1>4. /\ reg_a(word) \in Reg /\ reg_b(word) \in Reg /\ reg_c(word) \in Reg
      /\ lv_reg(word) \in Reg /\ lv_val(word) \in 0..OP_UNIT - 1
  BY <1>3, FieldsInRange
<1>5. lv_val(word) \in U32
  BY <1>4, WordFacts DEF U32
<1> QED
  BY <1>1, <1>2, <1>4, <1>5 DEF A, B, C

-----------------------------------------------------------------------------
\* Every instruction of a legal program is a step of the table, or leaves the
\* table alone.
LEMMA InstructionUsesTable ==
    ASSUME EmulatorInv, EmulatorNext
    PROVE  [Next]_vars
<1>1. CASE \/ LoadValue \/ SegmentedLoad \/ BitwiseNand \/ Addition
           \/ Multiplication \/ Division \/ ConditionalMove \/ ReadInput
  BY <1>1 DEF LoadValue, SegmentedLoad, BitwiseNand, Addition,
              Multiplication, Division, ConditionalMove, ReadInput, Computes
<1>2. CASE SegmentedStore
  <2>1. A \in DOMAIN held /\ B \in U32 /\ C \in U32 /\ B < held[A] /\ StoreWord(A, B, C)
    BY <1>2, Fetched DEF SegmentedStore, InSegment
  <2>2. B \in Offset /\ C \in Value
    BY <2>1, EmulatorAssumption
  <2> QED
    BY <2>1, <2>2 DEF Next
<1>3. CASE MapSegment
  <2>1. C \in Request
    BY <1>3, Fetched, EmulatorAssumption DEF MapSegment
  <2> QED
    BY <1>3, <2>1 DEF MapSegment, Next
<1>4. CASE UnmapSegment
  BY <1>4 DEF UnmapSegment, Next
<1>5. CASE LoadSegment
  <2>1. B \in U32 /\ B \in Nat
    BY <1>5, Fetched, WordFacts DEF LoadSegment
  <2> QED
    BY <1>5, <2>1 DEF LoadSegment, Next
<1>6. CASE Output \/ Stop
  BY <1>6 DEF Output, Stop
<1> QED
  BY <1>1, <1>2, <1>3, <1>4, <1>5, <1>6 DEF EmulatorNext

\* No map hands out the identifier of segment 0.
LEMMA MappedElsewhere ==
    ASSUME EmulatorInv, MapSegment
    PROVE  new_seg_id # 0
BY NewId DEF MapSegment, EmulatorInv

\* Registers hold words, whatever the instruction.
LEMMA InstructionKeepsType ==
    ASSUME EmulatorInv, EmulatorNext
    PROVE  EmulatorTypeOK'
<1>0. /\ regs \in [Reg -> U32] /\ pp \in Nat /\ pp + 1 \in Nat
      /\ text = NULL /\ text \in Seq(U32) \cup {NULL}
      /\ out \in Seq(0..BYTE - 1) /\ halted \in BOOLEAN
  BY DEF EmulatorInv, FingerInZero, EmulatorTypeOK
<1>1. ASSUME NEW r, NEW v \in U32, Computes(r, v)
      PROVE  EmulatorTypeOK'
  BY <1>0, <1>1 DEF Computes, set_reg, Advance, EmulatorTypeOK
<1>2. CASE LoadValue
  BY <1>1, <1>2, Fetched DEF LoadValue
<1>3. CASE SegmentedLoad
  <2>1. B \in DOMAIN held /\ C \in Nat /\ C < held[B]
    BY <1>3, Fetched, WordFacts DEF SegmentedLoad, InSegment
  <2>2. segment_sequence[B][C + 1] \in U32
    BY <2>1, ReadWord DEF EmulatorInv
  <2> QED
    BY <1>1, <1>3, <2>2 DEF SegmentedLoad
<1>4. CASE BitwiseNand
  <2>1. And(B, C) \in U32
    BY <1>4, Fetched, EmulatorAssumption DEF BitwiseNand
  <2>2. POWER - 1 - And(B, C) \in U32
    BY <2>1, WordFacts DEF U32
  <2> QED
    BY <1>1, <1>4, <2>2 DEF BitwiseNand
<1>5. CASE Addition \/ Multiplication
  <2>1. B \in Nat /\ C \in Nat
    BY <1>5, Fetched, WordFacts DEF Addition, Multiplication
  <2>2. B + C \in Nat /\ B * C \in Nat
    BY <2>1
  <2> QED
    BY <1>1, <1>5, <2>2, WrappedWord DEF Addition, Multiplication
<1>6. CASE Division
  <2>1. B \div C \in U32
    BY <1>6, Fetched, QuotientWord DEF Division
  <2> QED
    BY <1>1, <1>6, <2>1 DEF Division
<1>7. CASE ConditionalMove
  BY <1>1, <1>7, Fetched DEF ConditionalMove
<1>8. CASE ReadInput
  BY <1>1, <1>8, EmulatorAssumption DEF ReadInput
<1>9. CASE SegmentedStore \/ UnmapSegment
  BY <1>0, <1>9 DEF SegmentedStore, UnmapSegment, Advance, EmulatorTypeOK
<1>10. CASE MapSegment
  <2>1. new_seg_id \in Range0(MaxIds)
    <3>1. new_seg_id \in Nat /\ new_seg_id < MaxIds /\ MaxIds \in Nat
      BY <1>10, NewId, SegTableAssumption DEF MapSegment, EmulatorInv
    <3> QED
      BY <3>1 DEF Range0
  <2>2. regs' \in [Reg -> U32]
    BY <1>0, <1>10, <2>1, WordFacts DEF MapSegment, set_reg
  <2>3. text' \in Seq(U32) \cup {NULL}
    BY <1>0, <1>10, MappedElsewhere DEF MapSegment
  <2> QED
    BY <1>0, <1>10, <2>2, <2>3 DEF MapSegment, EmulatorTypeOK
<1>11. CASE Output
  <2>1. C \in Nat /\ BYTE \in Nat \ {0}
    BY <1>11, Fetched, IsaAssumption, WordFacts DEF Output
  <2>2. C % BYTE \in 0..BYTE - 1
    BY <2>1, DivMod
  <2>3. out' \in Seq(0..BYTE - 1)
    BY <1>0, <1>11, <2>2 DEF Output
  <2> QED
    BY <1>0, <1>11, <2>3 DEF Output, Advance, EmulatorTypeOK
<1>12. CASE LoadSegment
  <2>1. C \in Nat
    BY <1>12, Fetched, WordFacts DEF LoadSegment
  <2> QED
    BY <1>0, <1>12, <2>1 DEF LoadSegment, EmulatorTypeOK
<1>13. CASE Stop
  BY <1>0, <1>13 DEF Stop, EmulatorTypeOK
<1> QED
  BY <1>2, <1>3, <1>4, <1>5, <1>6, <1>7, <1>8, <1>9, <1>10, <1>11, <1>12, <1>13
     DEF EmulatorNext

\* The finger stays with segment 0: a map hands out another identifier, and a
\* load takes the finger along.
LEMMA InstructionKeepsFinger ==
    ASSUME EmulatorInv, EmulatorNext
    PROVE  FingerInZero'
<1>1. text = NULL
  BY DEF EmulatorInv, FingerInZero
<1>2. CASE MapSegment
  BY <1>1, <1>2, MappedElsewhere DEF MapSegment, FingerInZero
<1>3. CASE LoadSegment
  BY <1>3 DEF LoadSegment, FingerInZero
<1>4. CASE Stop
  BY <1>1, <1>4 DEF Stop, FingerInZero
<1>5. CASE SegmentedStore \/ UnmapSegment \/ Output
  BY <1>1, <1>5 DEF SegmentedStore, UnmapSegment, Output, Advance, FingerInZero
<1>6. CASE \/ LoadValue \/ SegmentedLoad \/ BitwiseNand \/ Addition
           \/ Multiplication \/ Division \/ ConditionalMove \/ ReadInput
  BY <1>1, <1>6 DEF LoadValue, SegmentedLoad, BitwiseNand, Addition, Multiplication,
              Division, ConditionalMove, ReadInput, Computes, Advance, FingerInZero
<1> QED
  BY <1>2, <1>3, <1>4, <1>5, <1>6 DEF EmulatorNext

-----------------------------------------------------------------------------
\* The theorems.

\* The emulator of a legal program keeps the invariant of the segment table and
\* its own types, for every program and meaning of And within a word.
THEOREM EmulatorInvariant == EmulatorSpec => []EmulatorInv
<1>1. EmulatorInit => EmulatorInv
  <2> SUFFICES ASSUME EmulatorInit PROVE EmulatorInv
    OBVIOUS
  <2>1. TableInv
    BY InitTable DEF EmulatorInit
  <2>2. /\ regs \in [Reg -> U32] /\ pp \in Nat /\ halted \in BOOLEAN
        /\ FingerInZero /\ text \in Seq(U32) \cup {NULL}
    BY WordFacts DEF EmulatorInit, FingerInZero
  <2>3. out \in Seq(0..BYTE - 1)
    BY DEF EmulatorInit
  <2> QED
    BY <2>1, <2>2, <2>3 DEF EmulatorInv, EmulatorTypeOK
<1>2. EmulatorInv /\ [EmulatorNext]_<<vars, machine>> => EmulatorInv'
  <2>1. EmulatorInv /\ EmulatorNext => EmulatorInv'
    BY InstructionUsesTable, InstructionKeepsType, InstructionKeepsFinger, StepKeeps
       DEF EmulatorInv
  <2>2. EmulatorInv /\ UNCHANGED <<vars, machine>> => EmulatorInv'
    BY StutterKeeps DEF EmulatorInv, EmulatorTypeOK, FingerInZero, machine
  <2> QED
    BY <2>1, <2>2
<1> QED
  BY <1>1, <1>2, PTL DEF EmulatorSpec

\* The emulator's registers, pointer, console and flag keep their types.
THEOREM EmulatorTypeCorrect == EmulatorSpec => []EmulatorTypeOK
<1>1. EmulatorInv => EmulatorTypeOK
  BY DEF EmulatorInv
<1> QED
  BY <1>1, EmulatorInvariant, PTL

\* What the emulator is about to run is what the program would read there: no
\* load, map or store of a legal program leaves the finger in an old buffer.
THEOREM FingerCurrent == EmulatorSpec => []FetchesProgram
<1>1. EmulatorInv => FetchesProgram
  BY DEF EmulatorInv, FingerInZero, FetchesProgram, word
<1> QED
  BY <1>1, EmulatorInvariant, PTL

\* The emulator uses its table as the table expects: its behaviours are
\* behaviours of SegTable.
THEOREM EmulatorUsesTable == EmulatorSpec => Spec
<1>1. EmulatorInit => Init
  BY DEF EmulatorInit
<1>2. EmulatorInv /\ [EmulatorNext]_<<vars, machine>> => [Next]_vars
  BY InstructionUsesTable
<1> QED
  BY <1>1, <1>2, EmulatorInvariant, PTL DEF EmulatorSpec, Spec

\* No access or copy of a legal program leaves the buffer of its segment.
THEOREM EmulatorLengths == EmulatorSpec => []LengthsTrue
BY EmulatorUsesTable, LengthsCorrect, PTL

-----------------------------------------------------------------------------
\* The emulator is a UM.

\* What the program sees of a segment is what the emulator reads of its buffer.
LEMMA Seen ==
    ASSUME TableInv
    PROVE  /\ DOMAIN Memory = DOMAIN held
           /\ \A id \in DOMAIN held :
                 /\ Len(Memory[id]) = held[id]
                 /\ \A k \in Nat : k < held[id] =>
                       Memory[id][k + 1] = segment_sequence[id][k + 1]
<1>1. MemoryRead
  BY MemoryFacts
<1>2. ASSUME NEW id \in DOMAIN held, NEW k \in Nat, k < held[id]
      PROVE  Memory[id][k + 1] = segment_sequence[id][k + 1]
  <2>1. k + 1 \in 1..held[id]
    BY <1>1, <1>2 DEF MemoryRead
  <2> QED
    BY <1>1, <2>1 DEF MemoryRead
<1> QED
  BY <1>1, <1>2 DEF MemoryRead

\* Both machines decode a word alike.
LEMMA SameDecoding ==
    ASSUME NEW w
    PROVE  /\ UM32!opcode(w) = opcode(w)
           /\ UM32!reg_a(w) = reg_a(w) /\ UM32!reg_b(w) = reg_b(w) /\ UM32!reg_c(w) = reg_c(w)
           /\ UM32!lv_reg(w) = lv_reg(w) /\ UM32!lv_val(w) = lv_val(w) /\ UM32!Reg = Reg
BY DEF UM32!opcode, opcode, UM32!reg_a, reg_a, UM32!reg_b, reg_b, UM32!reg_c, reg_c,
       UM32!lv_reg, lv_reg, UM32!lv_val, lv_val, UM32!Reg, Reg

\* Both machines fetch the same word, and find the same registers in it.
LEMMA SameFetch ==
    ASSUME EmulatorInv, NEW op, Opcode(op)
    PROVE  /\ UM32!W = word /\ UM32!A = A /\ UM32!B = B /\ UM32!C = C
           /\ UM32!Operator(op)
<1>1. pp \in Nat /\ pp < held[0] /\ 0 \in DOMAIN held /\ ~halted /\ opcode(word) = op
  BY Fetched DEF EmulatorInv, EmulatorTypeOK, Opcode
<1>2. Memory[0][pp + 1] = word /\ Len(Memory[0]) = held[0]
  BY <1>1, Seen DEF EmulatorInv, FingerInZero, word
<1>3. UM32!W = word
  BY <1>2 DEF UM32!W, Memory
<1>4. UM32!Operator(op)
  <2>1. UM32!opcode(UM32!W) = op
    BY <1>1, <1>3, SameDecoding
  <2> QED
    BY <1>1, <1>2, <2>1 DEF UM32!Operator, Memory
<1>5. /\ UM32!reg_a(UM32!W) = reg_a(word) /\ UM32!reg_b(UM32!W) = reg_b(word)
      /\ UM32!reg_c(UM32!W) = reg_c(word)
  BY <1>3, SameDecoding
<1> QED
  BY <1>3, <1>4, <1>5 DEF UM32!A, UM32!B, UM32!C, A, B, C

\* An instruction that leaves a value in register A.
LEMMA ComputeStep ==
    ASSUME EmulatorInv, NEW op, Opcode(op), NEW v, Computes(reg_a(word), v)
    PROVE  UM32!SetA(v) /\ UM32!Advance
<1>1. UM32!reg_a(UM32!W) = reg_a(word)
  BY SameFetch, SameDecoding
<1>2. /\ regs' = [regs EXCEPT ![reg_a(word)] = v] /\ pp' = pp + 1
      /\ halted' = halted /\ out' = out
      /\ segment_sequence' = segment_sequence /\ held' = held
  BY DEF Computes, set_reg, Advance, vars, table
<1> QED
  BY <1>1, <1>2 DEF UM32!SetA, UM32!Advance

LEMMA StoreStep ==
    ASSUME EmulatorInv, SegmentedStore
    PROVE  UM32!ArrayAmendment /\ UM32!Advance
<1>1. /\ A \in DOMAIN held /\ B \in U32 /\ B \in Nat /\ B < held[A] /\ StoreWord(A, B, C)
      /\ C \in Value /\ Opcode(2) /\ Advance /\ UNCHANGED <<regs, out>>
  BY Fetched, WordFacts, EmulatorAssumption DEF SegmentedStore, InSegment
<1>2. PICK id, k, v : id = A /\ k = B /\ v = C
  OBVIOUS
<1>3. id \in DOMAIN held /\ k \in Nat /\ k < held[id] /\ v \in Value /\ StoreWord(id, k, v)
  BY <1>1, <1>2 DEF StoreWord
<1>4. UM!Store(id, k + 1, v)
  BY <1>3, StoreMemory DEF EmulatorInv
<1>5. UM32!A = id /\ UM32!B = k /\ UM32!C = v /\ UM32!Operator(2)
  BY <1>1, <1>2, SameFetch
<1>6. UM32!Memory!Store(UM32!A, UM32!B + 1, UM32!C)
  BY <1>4, <1>5 DEF UM!Store, UM32!Memory!Store
<1>7. UM32!Active(UM32!A, UM32!B)
  BY <1>3, <1>5, Seen DEF UM32!Active, Memory, EmulatorInv
<1> QED
  BY <1>1, <1>5, <1>6, <1>7 DEF UM32!ArrayAmendment, UM32!Advance, Advance

\* The identifier that the table serves is one the UM may choose.
LEMMA MapStep ==
    ASSUME EmulatorInv, MapSegment
    PROVE  UM32!Allocation /\ UM32!Advance
<1>1. /\ C \in Request /\ (rec_size = 0 => seq_size < MaxIds) /\ map_segment(C)
      /\ Opcode(8) /\ pp' = pp + 1 /\ UNCHANGED <<out, halted>>
      /\ regs' = [regs EXCEPT ![reg_b(word)] = new_seg_id]
  BY Fetched, EmulatorAssumption DEF MapSegment, set_reg
<1>2. PICK size, id : size = C /\ id = new_seg_id
  OBVIOUS
<1>3. size \in Request /\ map_segment(size)
  BY <1>1, <1>2 DEF map_segment
<1>4. UM!Map(id, size) /\ id \in Range0(MaxIds) \ {0}
  <2>1. UM!Map(new_seg_id, size) /\ new_seg_id \in Range0(MaxIds) \ {0}
    BY <1>1, <1>3, MapMemory DEF EmulatorInv
  <2> QED
    BY <1>2, <2>1 DEF UM!Map
<1>5. UM32!C = size /\ UM32!Operator(8) /\ UM32!reg_b(UM32!W) = reg_b(word)
  BY <1>1, <1>2, SameFetch, SameDecoding
<1>6. UM32!Memory!Map(id, UM32!C)
  BY <1>4, <1>5 DEF UM!Map, UM!Zeros, UM32!Memory!Map, UM32!Memory!Zeros
<1>7. regs' = [regs EXCEPT ![UM32!reg_b(UM32!W)] = id]
  BY <1>1, <1>2, <1>5
<1>8. UM32!Allocation
  BY <1>1, <1>4, <1>5, <1>6, <1>7 DEF UM32!Allocation
<1> QED
  BY <1>1, <1>8 DEF UM32!Advance

LEMMA UnmapStep ==
    ASSUME EmulatorInv, UnmapSegment
    PROVE  UM32!Abandonment /\ UM32!Advance
<1>1. /\ C \in DOMAIN held \ {0} /\ unmap_segment(C) /\ Opcode(9) /\ Advance
      /\ UNCHANGED <<regs, out>>
  BY DEF UnmapSegment
<1>2. PICK id : id = C
  OBVIOUS
<1>3. id \in DOMAIN held \ {0} /\ unmap_segment(id)
  BY <1>1, <1>2 DEF unmap_segment
<1>4. UM!Unmap(id) /\ id \in DOMAIN Memory
  BY <1>3, UnmapMemory DEF EmulatorInv
<1>5. UM32!C = id /\ UM32!Operator(9)
  BY <1>1, <1>2, SameFetch
<1>6. UM32!Memory!Unmap(UM32!C)
  BY <1>4, <1>5 DEF UM!Unmap, UM32!Memory!Unmap
<1> QED
  BY <1>1, <1>4, <1>5, <1>6 DEF UM32!Abandonment, UM32!Advance, Advance, Memory

\* load_segment of segment 0 copies nothing, as its duplicate would be itself.
LEMMA LoadStep == ASSUME EmulatorInv, LoadSegment PROVE UM32!LoadProgram
<1>1. /\ B \in DOMAIN held /\ pp' = C /\ UNCHANGED <<regs, out, halted>> /\ Opcode(12)
      /\ IF B > 0 THEN load_segment(B) ELSE UNCHANGED vars
      /\ B \in Nat /\ 0 \in DOMAIN held
  BY Fetched, WordFacts DEF LoadSegment
<1>2. PICK id : id = B
  OBVIOUS
<1>3. UM!LoadSegment(id) /\ id \in DOMAIN Memory
  <2>1. CASE id > 0
    <3>1. id \in DOMAIN held \ {0} /\ load_segment(id)
      BY <1>1, <1>2, <2>1 DEF load_segment
    <3> QED
      BY <3>1, LoadMemory DEF EmulatorInv
  <2>2. CASE id = 0
    <3>1. UNCHANGED <<segment_sequence, held>>
      BY <1>1, <1>2, <2>2 DEF vars, table
    <3>2. Memory' = Memory /\ DOMAIN Memory = DOMAIN held
      BY <3>1 DEF Memory
    <3>3. Memory' = [Memory EXCEPT ![0] = Memory[0]]
      BY <1>1, <3>2 DEF Memory
    <3> QED
      BY <1>1, <2>2, <3>2, <3>3 DEF UM!LoadSegment, Memory
  <2> QED
    BY <1>1, <1>2, <2>1, <2>2
<1>4. UM32!B = id /\ UM32!C = C /\ UM32!Operator(12)
  BY <1>1, <1>2, SameFetch
<1>5. UM32!Memory!LoadSegment(UM32!B)
  BY <1>3, <1>4 DEF UM!LoadSegment, UM32!Memory!LoadSegment
<1> QED
  BY <1>1, <1>3, <1>4, <1>5 DEF UM32!LoadProgram, Memory

\* The instructions that compute a word from registers.
LEMMA ArithmeticStep ==
    ASSUME EmulatorInv,
           \/ ConditionalMove \/ SegmentedLoad \/ BitwiseNand
           \/ Addition \/ Multiplication \/ Division
    PROVE  UM32!Next
<1>1. CASE ConditionalMove
  <2>1. Opcode(0) /\ Computes(reg_a(word), IF C # 0 THEN B ELSE A)
    BY <1>1 DEF ConditionalMove
  <2>2. UM32!ConditionalMove /\ UM32!Advance
    <3>1. UM32!SetA(IF C # 0 THEN B ELSE A) /\ UM32!Advance
      BY <2>1, ComputeStep
    <3> QED
      BY <2>1, <3>1, SameFetch DEF UM32!ConditionalMove, UM32!SetA
  <2> QED
    BY <2>2 DEF UM32!Next
<1>2. CASE SegmentedLoad
  <2>1. /\ Opcode(1) /\ Computes(reg_a(word), segment_sequence[B][C + 1])
        /\ B \in DOMAIN held /\ C \in Nat /\ C < held[B]
    BY <1>2, Fetched, WordFacts DEF SegmentedLoad, InSegment
  <2>2. PICK id, k : id = B /\ k = C
    OBVIOUS
  <2>3. UM32!SetA(segment_sequence[B][C + 1]) /\ UM32!Advance
    BY <2>1, ComputeStep
  <2>4. /\ Memory[id][k + 1] = segment_sequence[id][k + 1]
        /\ id \in DOMAIN Memory /\ k < Len(Memory[id])
    BY <2>1, <2>2, Seen DEF EmulatorInv
  <2>5. UM32!B = id /\ UM32!C = k /\ UM32!Operator(1)
    BY <2>1, <2>2, SameFetch
  <2>6. UM32!Active(UM32!B, UM32!C)
    BY <2>4, <2>5 DEF UM32!Active, Memory
  <2>7. UM32!ArrayIndex
    BY <2>2, <2>3, <2>4, <2>5, <2>6 DEF UM32!ArrayIndex, UM32!SetA, Memory
  <2> QED
    BY <2>3, <2>7 DEF UM32!Next
<1>3. CASE BitwiseNand
  <2>1. Opcode(6) /\ Computes(reg_a(word), POWER - 1 - And(B, C))
    BY <1>3 DEF BitwiseNand
  <2>2. UM32!SetA(POWER - 1 - And(B, C)) /\ UM32!Advance
    BY <2>1, ComputeStep
  <2>3. UM32!NotAnd
    BY <2>1, <2>2, SameFetch DEF UM32!NotAnd, UM32!SetA
  <2> QED
    BY <2>2, <2>3 DEF UM32!Next
<1>4. CASE Addition
  <2>1. Opcode(3) /\ Computes(reg_a(word), (B + C) % (16 * OP_UNIT))
    BY <1>4 DEF Addition, POWER
  <2>2. UM32!SetA((B + C) % (16 * OP_UNIT)) /\ UM32!Advance
    BY <2>1, ComputeStep
  <2>3. UM32!Addition
    BY <2>1, <2>2, SameFetch DEF UM32!Addition, UM32!SetA
  <2> QED
    BY <2>2, <2>3 DEF UM32!Next
<1>5. CASE Multiplication
  <2>1. Opcode(4) /\ Computes(reg_a(word), (B * C) % (16 * OP_UNIT))
    BY <1>5 DEF Multiplication, POWER
  <2>2. UM32!SetA((B * C) % (16 * OP_UNIT)) /\ UM32!Advance
    BY <2>1, ComputeStep
  <2>3. UM32!Multiplication
    BY <2>1, <2>2, SameFetch DEF UM32!Multiplication, UM32!SetA
  <2> QED
    BY <2>2, <2>3 DEF UM32!Next
<1>6. CASE Division
  <2>1. Opcode(5) /\ C # 0 /\ Computes(reg_a(word), B \div C)
    BY <1>6 DEF Division
  <2>2. UM32!SetA(B \div C) /\ UM32!Advance
    BY <2>1, ComputeStep
  <2>3. UM32!Division
    BY <2>1, <2>2, SameFetch DEF UM32!Division, UM32!SetA
  <2> QED
    BY <2>2, <2>3 DEF UM32!Next
<1> QED
  BY <1>1, <1>2, <1>3, <1>4, <1>5, <1>6

\* The instructions that load a value, use the console, or halt.
LEMMA PlainStep ==
    ASSUME EmulatorInv, LoadValue \/ ReadInput \/ Output \/ Stop
    PROVE  UM32!Next
<1>0. ASSUME NEW r, NEW v, Computes(r, v)
      PROVE  /\ regs' = [regs EXCEPT ![r] = v] /\ pp' = pp + 1
             /\ halted' = halted /\ out' = out
             /\ segment_sequence' = segment_sequence /\ held' = held
  BY <1>0 DEF Computes, set_reg, Advance, vars, table
<1>1. CASE LoadValue
  <2>1. Opcode(13) /\ Computes(lv_reg(word), lv_val(word))
    BY <1>1 DEF LoadValue
  <2>2. UM32!Operator(13) /\ UM32!lv_reg(UM32!W) = lv_reg(word) /\ UM32!lv_val(UM32!W) = lv_val(word)
    BY <2>1, SameFetch, SameDecoding
  <2>3. UM32!Orthography /\ UM32!Advance
    BY <1>0, <2>1, <2>2 DEF UM32!Orthography, UM32!Advance
  <2> QED
    BY <2>3 DEF UM32!Next
<1>2. CASE ReadInput
  <2>1. PICK value \in Input : Opcode(11) /\ Computes(reg_c(word), value)
    BY <1>2 DEF ReadInput
  <2>2. UM32!Operator(11) /\ UM32!reg_c(UM32!W) = reg_c(word)
    BY <2>1, SameFetch, SameDecoding
  <2>3. UM32!ReadInput /\ UM32!Advance
    BY <1>0, <2>1, <2>2 DEF UM32!ReadInput, UM32!Advance
  <2> QED
    BY <2>3 DEF UM32!Next
<1>3. CASE Output
  <2>1. /\ Opcode(10) /\ C < BYTE /\ C \in Nat /\ BYTE \in Nat \ {0}
        /\ out' = Append(out, C % BYTE) /\ Advance /\ UNCHANGED <<vars, regs>>
    BY <1>3, Fetched, WordFacts, IsaAssumption DEF Output
  <2>2. C % BYTE = C
    BY <2>1
  <2>3. UM32!Operator(10) /\ UM32!C = C
    BY <2>1, SameFetch
  <2>4. UM32!Output /\ UM32!Advance
    BY <2>1, <2>2, <2>3 DEF UM32!Output, UM32!Advance, Advance, vars, table
  <2> QED
    BY <2>4 DEF UM32!Next
<1>4. CASE Stop
  <2>1. PICK op \in {7, 14, 15} : Opcode(op)
    BY <1>4 DEF Stop
  <2>2. UM32!Halt
    BY <1>4, <2>1, SameFetch DEF Stop, UM32!Halt, vars, table
  <2> QED
    BY <2>2 DEF UM32!Next
<1> QED
  BY <1>1, <1>2, <1>3, <1>4

\* The emulator of a legal program is a UM: what it does to its registers, its
\* segments, its own code and the console is what the UM would have done,
\* whatever buffers and identifiers it reuses to do it.
THEOREM EmulatorIsUM == EmulatorSpec => ImplementsUMachine
<1>1. EmulatorInit => UM32!Init
  <2> SUFFICES ASSUME EmulatorInit PROVE UM32!Init
    OBVIOUS
  <2>1. UM!Init
    BY InitMemory DEF EmulatorInit
  <2>2. UM32!Memory!Init
    BY <2>1, WordFacts DEF UM!Init, UM32!Memory!Init
  <2> QED
    BY <2>2, SameDecoding DEF EmulatorInit, UM32!Init
<1>2. ASSUME EmulatorInv, EmulatorNext PROVE UM32!Next
  <2>1. CASE SegmentedStore
    BY <1>2, <2>1, StoreStep DEF UM32!Next
  <2>2. CASE MapSegment
    BY <1>2, <2>2, MapStep DEF UM32!Next
  <2>3. CASE UnmapSegment
    BY <1>2, <2>3, UnmapStep DEF UM32!Next
  <2>4. CASE LoadSegment
    BY <1>2, <2>4, LoadStep DEF UM32!Next
  <2> QED
    BY <1>2, <2>1, <2>2, <2>3, <2>4, ArithmeticStep, PlainStep DEF EmulatorNext
<1>3. EmulatorInv /\ UNCHANGED <<vars, machine>> => UNCHANGED UM32!vars
  BY DEF vars, table, machine, UM32!vars
<1>4. EmulatorInv /\ [EmulatorNext]_<<vars, machine>> => [UM32!Next]_UM32!vars
  BY <1>2, <1>3
<1> QED
  BY <1>1, <1>4, EmulatorInvariant, PTL DEF EmulatorSpec, UM32!Spec, ImplementsUMachine
=============================================================================
