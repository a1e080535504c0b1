-------------------------- MODULE ModEmulatorProofs --------------------------
(***************************************************************************)
(* The interpreter of a legal program takes only steps of Virt32, so that   *)
(* the theorems of Virt32Proofs hold of its memory, keeps the type of its   *)
(* registers, its program counter and its output, and is a UM.              *)
(***************************************************************************)
EXTENDS ModEmulator, Virt32Proofs, IsaProofs

-----------------------------------------------------------------------------
\* Decoding yields registers and values in range.
LEMMA Fields ==
    ASSUME NEW w \in U32
    PROVE  /\ reg_a(w) \in Reg /\ reg_b(w) \in Reg /\ reg_c(w) \in Reg
           /\ lv_reg(w) \in Reg /\ lv_val(w) \in U32
<1>1. w \in Nat /\ GB4 \in Nat
  BY Virt32Assumption DEF U32
<1> QED
  BY <1>1, FieldsInRange, ModEmulatorAssumption DEF U32

\* A legal access reads a word of the mapping, and its address does not wrap.
LEMMA LegalAccess ==
    ASSUME HeapInv, NEW id \in Segments, NEW k \in Nat, 4 * k < SizeOf(id)
    PROVE  /\ Address(id, k) = id + 4 * k /\ Address(id, k) \in U32
           /\ get_at(mem, Address(id, k)) \in U32
           /\ Memory[id][k + 1] = get_at(mem, Address(id, k))
           /\ k < Len(Memory[id])
<1>1. id + 4 * k \in U32
  BY ReadMemory
<1>2. Address(id, k) = id + 4 * k
  BY <1>1, WrapFits DEF Address
<1> QED
  BY <1>1, <1>2, ReadMemory

-----------------------------------------------------------------------------
\* What every step of the interpreter keeps.

MachineInv == HeapInv /\ MachineTypeOK

\* The word under the program counter is a word, and names registers.
LEMMA Fetched ==
    ASSUME MachineInv, NEW op, Opcode(op)
    PROVE  /\ word \in U32
           /\ A \in U32 /\ B \in U32 /\ C \in U32
           /\ lv_val(word) \in U32
<1>1. pc \in Nat /\ 0 \in Segments
  BY Virt32Assumption DEF MachineInv, MachineTypeOK, U32, Segments
<1>2. Address(0, pc) = Wrap(4 * pc)
  BY <1>1 DEF Address
<1>3. word \in U32
  BY <1>1, <1>2, LegalAccess DEF MachineInv, Opcode, word
<1>4. /\ reg_a(word) \in Reg /\ reg_b(word) \in Reg /\ reg_c(word) \in Reg
      /\ lv_val(word) \in U32
  BY <1>3, Fields
<1> QED
  BY <1>3, <1>4 DEF MachineInv, MachineTypeOK, A, B, C

\* Every instruction of a legal program is a step of Virt32, or leaves the
\* allocator alone.
LEMMA InstructionUsesVirt32 ==
    ASSUME MachineInv, MachineNext
    PROVE  [Next]_vars
<1>1. ASSUME NEW r, NEW v, Computes(r, v)
      PROVE  UNCHANGED vars
  BY <1>1 DEF Computes
<1>2. CASE \/ LoadValue \/ SegmentedLoad \/ BitwiseNand \/ Addition
           \/ Multiplication \/ Division \/ ConditionalMove \/ ReadInput
  BY <1>1, <1>2 DEF LoadValue, SegmentedLoad, BitwiseNand, Addition,
                    Multiplication, Division, ConditionalMove, ReadInput
<1>3. CASE SegmentedStore
  <2>1. A \in U32 /\ B \in U32 /\ C \in U32 /\ A \in Segments /\ 4 * B < SizeOf(A)
    BY <1>3, Fetched DEF SegmentedStore, InSegment
  <2>2. B \in Nat /\ B \in Offset /\ C \in Value
    BY <2>1, Virt32Assumption, ModEmulatorAssumption DEF U32
  <2>3. StoreWord(A, B, C)
    BY <1>3, <2>1, <2>2, LegalAccess DEF SegmentedStore, StoreWord, MachineInv, Opcode
  <2>4. Access
    BY <2>1, <2>2, <2>3 DEF Access
  <2> QED
    BY <2>4 DEF Next
<1>4. CASE map_segment
  <2>1. C \in Request
    BY <1>4, Fetched, ModEmulatorAssumption DEF map_segment
  <2> QED
    BY <1>4, <2>1 DEF map_segment, Next
<1>5. CASE unmap_segment
  BY <1>5 DEF unmap_segment, Next, Access
<1>6. CASE LoadProgram
  BY <1>6 DEF LoadProgram, Next, Access
<1>7. CASE Output \/ Stop
  BY <1>7 DEF Output, Stop
<1> QED
  BY <1>2, <1>3, <1>4, <1>5, <1>6, <1>7 DEF MachineNext

\* Registers hold words, whatever the instruction.
LEMMA InstructionKeepsType ==
    ASSUME MachineInv, MachineNext
    PROVE  MachineTypeOK'
<1>0. /\ regs \in [Reg -> U32] /\ pc \in U32 /\ pc \in Int
      /\ out \in Seq(0..BYTE - 1) /\ halted \in BOOLEAN
  BY Virt32Assumption DEF MachineInv, MachineTypeOK, U32
<1>a. Wrap(pc + 1) \in U32
  BY <1>0, WrapRange
<1>1. ASSUME NEW r, NEW v \in U32, Computes(r, v)
      PROVE  MachineTypeOK'
  <2>1. regs' \in [Reg -> U32]
    BY <1>0, <1>1 DEF Computes, set_reg
  <2> QED
    BY <1>0, <1>a, <1>1, <2>1 DEF Computes, Advance, MachineTypeOK
<1>2. CASE LoadValue
  BY <1>1, <1>2, Fetched DEF LoadValue
<1>3. CASE SegmentedLoad
  <2>1. B \in Segments /\ C \in Nat /\ 4 * C < SizeOf(B)
    BY <1>3, Fetched, Virt32Assumption DEF SegmentedLoad, InSegment, U32
  <2>2. get_at(mem, Address(B, C)) \in U32
    BY <2>1, LegalAccess DEF MachineInv
  <2> QED
    BY <1>1, <1>3, <2>2 DEF SegmentedLoad
<1>4. CASE BitwiseNand
  <2>1. And(B, C) \in U32
    BY <1>4, Fetched, ModEmulatorAssumption DEF BitwiseNand
  <2>2. Nand(B, C) \in U32
    BY <2>1, Virt32Assumption DEF Nand, U32
  <2> QED
    BY <1>1, <1>4, <2>2 DEF BitwiseNand
<1>5. CASE Addition \/ Multiplication
  <2>1. B \in U32 /\ C \in U32
    BY <1>5, Fetched DEF Addition, Multiplication
  <2>2. B \in Int /\ C \in Int
    BY <2>1, Virt32Assumption DEF U32
  <2>3. B + C \in Int /\ B * C \in Int
    BY <2>2
  <2> QED
    BY <1>1, <1>5, <2>3, WrapRange DEF Addition, Multiplication
<1>6. CASE Division
  <2>1. B \div C \in U32
    BY <1>6, Fetched, QuotientBound DEF Division
  <2> QED
    BY <1>1, <1>6, <2>1 DEF Division
<1>7. CASE ConditionalMove
  BY <1>1, <1>7, Fetched DEF ConditionalMove
<1>8. CASE ReadInput
  BY <1>1, <1>8, ModEmulatorAssumption DEF ReadInput
<1>9. CASE SegmentedStore \/ unmap_segment
  BY <1>0, <1>a, <1>9 DEF SegmentedStore, unmap_segment, Advance, MachineTypeOK
<1>10. CASE map_segment
  <2>1. served(Wrap(4 * C)) \in U32
    BY <1>10, Fetched, ServedType DEF map_segment, MachineInv
  <2>2. regs' \in [Reg -> U32]
    BY <1>0, <1>10, <2>1 DEF map_segment, set_reg
  <2> QED
    BY <1>0, <1>a, <1>10, <2>2 DEF map_segment, Advance, MachineTypeOK
<1>11. CASE Output
  <2>1. C \in Nat /\ BYTE \in Nat \ {0}
    BY <1>11, Fetched, IsaAssumption, Virt32Assumption DEF Output, U32
  <2>2. C % BYTE \in 0..BYTE - 1
    BY <2>1, DivMod
  <2>3. out' \in Seq(0..BYTE - 1)
    BY <1>0, <1>11, <2>2 DEF Output
  <2> QED
    BY <1>0, <1>a, <1>11, <2>3 DEF Output, Advance, MachineTypeOK
<1>12. CASE LoadProgram
  BY <1>0, <1>12, Fetched DEF LoadProgram, MachineTypeOK
<1>13. CASE Stop
  BY <1>0, <1>13 DEF Stop, MachineTypeOK
<1> QED
  BY <1>2, <1>3, <1>4, <1>5, <1>6, <1>7, <1>8, <1>9, <1>10, <1>11, <1>12, <1>13
     DEF MachineNext

-----------------------------------------------------------------------------
\* The interpreter of a legal program keeps the allocator's invariant and its
\* own types, for every program, heap size, and meaning of And within a word.
THEOREM MachineInvariant == MachineSpec => []MachineInv
<1>1. MachineInit => MachineInv
  <2> SUFFICES ASSUME MachineInit PROVE MachineInv
    OBVIOUS
  <2>1. HeapInv
    BY InitHeapInv DEF MachineInit
  <2>2. 0 \in U32
    BY Virt32Assumption DEF U32, BOOK_SIZE
  <2>3. regs \in [Reg -> U32] /\ pc \in U32 /\ halted \in BOOLEAN
    BY <2>2 DEF MachineInit
  <2>4. out \in Seq(0..BYTE - 1)
    BY DEF MachineInit
  <2> QED
    BY <2>1, <2>3, <2>4 DEF MachineInv, MachineTypeOK
<1>2. MachineInv /\ [MachineNext]_<<vars, machine>> => MachineInv'
  <2>1. MachineInv /\ MachineNext => MachineInv'
    BY InstructionUsesVirt32, InstructionKeepsType, NextKeeps, StutterKeeps
       DEF MachineInv
  <2>2. MachineInv /\ UNCHANGED <<vars, machine>> => MachineInv'
    BY StutterKeeps DEF MachineInv, MachineTypeOK, machine
  <2> QED
    BY <2>1, <2>2
<1> QED
  BY <1>1, <1>2, PTL DEF MachineSpec

\* The interpreter uses the allocator as the allocator expects: its behaviours
\* are behaviours of Virt32, and every theorem about Virt32 holds of them.
THEOREM InterpreterUsesVirt32 == MachineSpec => UsesVirt32
<1>1. MachineInit => Init
  BY DEF MachineInit
<1>2. MachineInv /\ [MachineNext]_<<vars, machine>> => [Next]_vars
  BY InstructionUsesVirt32
<1> QED
  BY <1>1, <1>2, MachineInvariant, PTL DEF MachineSpec, UsesVirt32, Spec

\* The interpreter's registers, counter, console and flag keep their types.
THEOREM MachineTypeCorrect == MachineSpec => []MachineTypeOK
<1>1. MachineInv => MachineTypeOK
  BY DEF MachineInv
<1> QED
  BY <1>1, MachineInvariant, PTL

\* A legal program never breaks the heap it runs on.
THEOREM InterpreterKeepsHeap == MachineSpec => []HeapInv
<1>1. MachineInv => HeapInv
  BY DEF MachineInv
<1> QED
  BY <1>1, MachineInvariant, PTL

-----------------------------------------------------------------------------
\* The interpreter is a UM.

\* What the refinement needs beyond the types: memory that no write has reached
\* is zero, because a carved segment is not cleared.
RefineInv == MachineInv /\ Unwritten

\* Both machines decode a word alike.
LEMMA SameDecoding ==
    ASSUME NEW w
    PROVE  /\ UM32!opcode(w) = opcode(w)
           /\ UM32!reg_a(w) = reg_a(w) /\ UM32!reg_b(w) = reg_b(w) /\ UM32!reg_c(w) = reg_c(w)
           /\ UM32!lv_reg(w) = lv_reg(w) /\ UM32!lv_val(w) = lv_val(w) /\ UM32!Reg = Reg
BY DEF UM32!opcode, opcode, UM32!reg_a, reg_a, UM32!reg_b, reg_b, UM32!reg_c, reg_c,
       UM32!lv_reg, lv_reg, UM32!lv_val, lv_val, UM32!Reg, Reg

\* Both machines fetch the same word, and find the same registers in it.  The
\* counter of a legal program never wraps.
LEMMA SameFetch ==
    ASSUME MachineInv, NEW op, Opcode(op)
    PROVE  /\ UM32!W = word /\ UM32!A = A /\ UM32!B = B /\ UM32!C = C
           /\ UM32!Operator(op) /\ Wrap(pc + 1) = pc + 1
<1>1. /\ pc \in Nat /\ 4 * pc < SizeOf(0) /\ ~halted /\ opcode(word) = op
      /\ 0 \in Segments /\ 0 \in Owned \cup {0} /\ HeapInv
  BY Virt32Assumption DEF MachineInv, MachineTypeOK, Opcode, Segments, U32
<1>2. /\ SizeOf(0) \in Nat /\ SizeOf(0) <= CapOf(0) /\ CapOf(0) \in Nat
      /\ 0 + CapOf(0) + 8 <= GB4 /\ GB4 \in Nat
  BY <1>1, SegmentFacts, Virt32Assumption
<1>3. Wrap(pc + 1) = pc + 1
  <2>1. pc + 1 \in U32
    BY <1>1, <1>2 DEF U32
  <2> QED
    BY <2>1, WrapFits
<1>4. Memory[0][pc + 1] = word /\ pc < Len(Memory[0])
  <2>1. Address(0, pc) = Wrap(4 * pc)
    BY <1>1 DEF Address
  <2>2. Memory[0][pc + 1] = get_at(mem, Address(0, pc)) /\ pc < Len(Memory[0])
    BY <1>1, LegalAccess
  <2> QED
    BY <2>1, <2>2 DEF word
<1>5. UM32!W = word
  BY <1>4 DEF UM32!W, Memory
<1>6. UM32!Operator(op)
  <2>1. UM32!opcode(UM32!W) = op
    BY <1>1, <1>5, SameDecoding
  <2> QED
    BY <1>1, <1>4, <2>1 DEF UM32!Operator, Memory
<1>7. /\ UM32!reg_a(UM32!W) = reg_a(word) /\ UM32!reg_b(UM32!W) = reg_b(word)
      /\ UM32!reg_c(UM32!W) = reg_c(word)
  BY <1>5, SameDecoding
<1> QED
  BY <1>3, <1>5, <1>6, <1>7 DEF UM32!A, UM32!B, UM32!C, A, B, C

\* What the UM sees is unchanged where the allocator's state is.
LEMMA MemoryUnchanged == ASSUME UNCHANGED <<mem, mapped>> PROVE Memory' = Memory
BY DEF Memory, Segments, Contents, SizeOf, get_at

\* An instruction that leaves a value in a register.
LEMMA ComputeStep ==
    ASSUME MachineInv, NEW op, Opcode(op), NEW r, NEW v, Computes(r, v)
    PROVE  /\ regs' = [regs EXCEPT ![r] = v] /\ UM32!Advance
           /\ Memory' = Memory /\ out' = out
<1>1. /\ regs' = [regs EXCEPT ![r] = v] /\ pc' = Wrap(pc + 1)
      /\ halted' = halted /\ out' = out /\ UNCHANGED <<mem, mapped>>
  BY DEF Computes, set_reg, Advance, vars
<1> QED
  BY <1>1, SameFetch, MemoryUnchanged DEF UM32!Advance

LEMMA SetStep ==
    ASSUME MachineInv, NEW op, Opcode(op), NEW v, Computes(reg_a(word), v)
    PROVE  UM32!SetA(v) /\ UM32!Advance
<1>1. UM32!reg_a(UM32!W) = reg_a(word)
  BY SameFetch, SameDecoding
<1>2. PICK r : r = reg_a(word)
  OBVIOUS
<1>3. Computes(r, v)
  BY <1>2 DEF Computes, set_reg
<1>4. /\ regs' = [regs EXCEPT ![r] = v] /\ UM32!Advance
      /\ Memory' = Memory /\ out' = out
  BY <1>3, ComputeStep
<1> QED
  BY <1>1, <1>2, <1>4 DEF UM32!SetA, Memory

LEMMA StoreStep ==
    ASSUME RefineInv, SegmentedStore
    PROVE  UM32!ArrayAmendment /\ UM32!Advance
<1>1. /\ A \in Segments /\ B \in Nat /\ 4 * B < SizeOf(A) /\ C \in U32
      /\ mem' = set_at(mem, Address(A, B), C) /\ Opcode(2)
      /\ UNCHANGED <<alloc, kernel_virtual_size, aborted>>
      /\ Advance /\ UNCHANGED <<regs, out>> /\ ~aborted
  BY Fetched, Virt32Assumption
     DEF SegmentedStore, InSegment, RefineInv, Opcode, U32
<1>2. PICK id, k, v : id = A /\ k = B /\ v = C
  OBVIOUS
<1>3. id \in Segments /\ k \in Nat /\ 4 * k < SizeOf(id) /\ v \in U32
  BY <1>1, <1>2
<1>4. StoreWord(id, k, v)
  BY <1>1, <1>2, <1>3, LegalAccess DEF StoreWord, RefineInv, MachineInv
<1>5. /\ UM!Store(id, k + 1, v) /\ k < Len(Memory[id]) /\ id \in DOMAIN Memory
  BY <1>3, <1>4, StoreMemory, LegalAccess DEF RefineInv, MachineInv
<1>6. /\ UM32!A = id /\ UM32!B = k /\ UM32!C = v /\ UM32!Operator(2)
      /\ Wrap(pc + 1) = pc + 1
  BY <1>1, <1>2, SameFetch DEF RefineInv
<1>7. UM32!Memory!Store(UM32!A, UM32!B + 1, UM32!C)
  BY <1>5, <1>6 DEF UM!Store, UM32!Memory!Store
<1>8. UM32!Active(UM32!A, UM32!B)
  BY <1>5, <1>6 DEF UM32!Active, Memory
<1> QED
  BY <1>1, <1>6, <1>7, <1>8 DEF UM32!ArrayAmendment, UM32!Advance, Advance

\* The address that vs_calloc serves is one the UM may choose for a name.
LEMMA MapStep ==
    ASSUME RefineInv, map_segment
    PROVE  UM32!Allocation /\ UM32!Advance
<1>1. /\ Requested(C) /\ FitsHeap(4 * C) /\ MapSegment(C) /\ C \in U32 /\ C \in Nat
      /\ Opcode(8) /\ Advance /\ UNCHANGED out
      /\ regs' = [regs EXCEPT ![reg_b(word)] = served(Wrap(4 * C))]
      /\ HeapInv /\ Unwritten /\ MachineInv
  BY Fetched, Virt32Assumption DEF map_segment, set_reg, RefineInv, MachineInv, U32
<1>2. PICK words : words = C
  OBVIOUS
<1>3. /\ words \in Request /\ words \in U32 /\ words \in Nat
      /\ Requested(words) /\ FitsHeap(4 * words) /\ MapSegment(words)
  BY <1>1, <1>2, ModEmulatorAssumption DEF MapSegment
<1>4. /\ 4 * words < MAX_ALLOC
      /\ Recycle(4 * words) \/ Carve(4 * words)
      /\ UNCHANGED <<kernel_virtual_size, aborted>>
  BY <1>3, MapCases
<1>5. PICK id \in SegmentId \ {0} : id = served(4 * words) /\ UM!Map(id, words)
  <2>1. HeapInv /\ Unwritten /\ FitsHeap(4 * words)
    BY <1>1, <1>3
  <2>2. CASE Recycle(4 * words)
    BY <1>3, <1>4, <2>1, <2>2, RecycleMemory
  <2>3. CASE Carve(4 * words)
    BY <1>3, <1>4, <2>1, <2>3, CarveMemory
  <2> QED
    BY <1>4, <2>2, <2>3
<1>6. Wrap(4 * words) = 4 * words
  BY <1>1, <1>3, ServedType
<1>7. regs' = [regs EXCEPT ![reg_b(word)] = id]
  BY <1>1, <1>2, <1>5, <1>6
<1>8. /\ UM32!C = words /\ UM32!Operator(8) /\ UM32!reg_b(UM32!W) = reg_b(word)
      /\ Wrap(pc + 1) = pc + 1
  BY <1>1, <1>2, SameFetch, SameDecoding
<1>9. UM32!Memory!Map(id, UM32!C)
  BY <1>5, <1>8 DEF UM!Map, UM!Zeros, UM32!Memory!Map, UM32!Memory!Zeros
<1>10. regs' = [regs EXCEPT ![UM32!reg_b(UM32!W)] = id]
  BY <1>7, <1>8
<1>11. UM32!Allocation
  BY <1>1, <1>8, <1>9, <1>10 DEF UM32!Allocation
<1> QED
  BY <1>1, <1>8, <1>11 DEF UM32!Advance, Advance

LEMMA UnmapStep ==
    ASSUME RefineInv, unmap_segment
    PROVE  UM32!Abandonment /\ UM32!Advance
<1>1. /\ C \in mapped /\ vs_free(C) /\ Opcode(9) /\ Advance /\ UNCHANGED <<regs, out>>
      /\ HeapInv /\ Unwritten /\ MachineInv
  BY DEF unmap_segment, UnmapSegment, RefineInv, MachineInv
<1>2. PICK id : id = C
  OBVIOUS
<1>3. id \in mapped /\ vs_free(id)
  BY <1>1, <1>2 DEF vs_free
<1>4. UM!Unmap(id) /\ id \in DOMAIN Memory
  BY <1>1, <1>3, FreeMemory
<1>5. UM32!C = id /\ UM32!Operator(9) /\ Wrap(pc + 1) = pc + 1
  BY <1>1, <1>2, SameFetch
<1>6. UM32!Memory!Unmap(UM32!C)
  BY <1>4, <1>5 DEF UM!Unmap, UM32!Memory!Unmap
<1> QED
  BY <1>1, <1>4, <1>5, <1>6 DEF UM32!Abandonment, UM32!Advance, Advance, Memory

\* A load from segment 0 is the jump alone.  One that does not fit ends the
\* process, and the program sees nothing of it.
LEMMA LoadStep ==
    ASSUME RefineInv, LoadProgram
    PROVE  UM32!LoadProgram \/ UNCHANGED UM32!vars
<1>1. /\ Opcode(12) /\ UNCHANGED <<regs, out, halted>> /\ ~aborted
      /\ \/ B = 0 /\ UNCHANGED vars
         \/ B \in mapped /\ LoadSegment(B)
      /\ pc' = IF aborted' THEN pc ELSE C
      /\ HeapInv /\ Unwritten /\ MachineInv
  BY DEF LoadProgram, RefineInv, MachineInv, Opcode
<1>2. PICK id : id = B
  OBVIOUS
<1>3. UM32!B = id /\ UM32!C = C /\ UM32!Operator(12)
  BY <1>1, <1>2, SameFetch
<1>4. CASE id = 0 /\ UNCHANGED vars
  <2>1. Memory' = Memory /\ aborted' = aborted
    BY <1>4, MemoryUnchanged DEF vars
  <2>2. Memory' = [Memory EXCEPT ![0] = Memory[0]] /\ 0 \in DOMAIN Memory
    BY <2>1 DEF Memory, Segments
  <2>3. UM32!Memory!LoadSegment(UM32!B)
    BY <1>3, <1>4, <2>2 DEF UM32!Memory!LoadSegment, Memory
  <2> QED
    BY <1>1, <1>3, <1>4, <2>1, <2>2, <2>3 DEF UM32!LoadProgram, Memory
<1>5. CASE id \in mapped /\ LoadSegment(id)
  <2>1. id \in DOMAIN Memory /\ IF aborted' THEN UNCHANGED Memory ELSE UM!LoadSegment(id)
    BY <1>1, <1>5, LoadMemory
  <2>2. CASE aborted'
    BY <1>1, <2>1, <2>2 DEF UM32!vars, Memory
  <2>3. CASE ~aborted'
    <3>1. UM32!Memory!LoadSegment(UM32!B)
      BY <1>3, <2>1, <2>3 DEF UM!LoadSegment, UM32!Memory!LoadSegment
    <3> QED
      BY <1>1, <1>3, <2>1, <2>3, <3>1 DEF UM32!LoadProgram, Memory
  <2> QED
    BY <2>2, <2>3
<1>6. \/ id = 0 /\ UNCHANGED vars
      \/ id \in mapped /\ LoadSegment(id)
  BY <1>1, <1>2 DEF LoadSegment, SizeOf
<1> QED
  BY <1>4, <1>5, <1>6

\* The instructions that compute a word from registers.
LEMMA ArithmeticStep ==
    ASSUME MachineInv,
           \/ ConditionalMove \/ SegmentedLoad \/ BitwiseNand
           \/ Addition \/ Multiplication \/ Division
    PROVE  UM32!Next
<1>1. CASE ConditionalMove
  <2>1. Opcode(0) /\ Computes(reg_a(word), IF C # 0 THEN B ELSE A)
    BY <1>1 DEF ConditionalMove
  <2>2. UM32!SetA(IF C # 0 THEN B ELSE A) /\ UM32!Advance
    BY <2>1, SetStep
  <2>3. UM32!ConditionalMove
    BY <2>1, <2>2, SameFetch DEF UM32!ConditionalMove, UM32!SetA
  <2> QED
    BY <2>2, <2>3 DEF UM32!Next
<1>2. CASE SegmentedLoad
  <2>1. /\ Opcode(1) /\ Computes(reg_a(word), get_at(mem, Address(B, C)))
        /\ B \in Segments /\ C \in Nat /\ 4 * C < SizeOf(B)
    BY <1>2, Fetched, Virt32Assumption DEF SegmentedLoad, InSegment, U32
  <2>2. PICK id, k : id = B /\ k = C
    OBVIOUS
  <2>3. UM32!SetA(get_at(mem, Address(B, C))) /\ UM32!Advance
    BY <2>1, SetStep
  <2>4. id \in Segments /\ k \in Nat /\ 4 * k < SizeOf(id)
    BY <2>1, <2>2
  <2>5. /\ Memory[id][k + 1] = get_at(mem, Address(id, k))
        /\ id \in DOMAIN Memory /\ k < Len(Memory[id])
    BY <2>4, LegalAccess DEF MachineInv, Memory
  <2>6. UM32!B = id /\ UM32!C = k /\ UM32!Operator(1)
    BY <2>1, <2>2, SameFetch
  <2>7. UM32!Active(UM32!B, UM32!C)
    BY <2>5, <2>6 DEF UM32!Active, Memory
  <2>8. UM32!ArrayIndex
    BY <2>2, <2>3, <2>5, <2>6, <2>7 DEF UM32!ArrayIndex, UM32!SetA, Memory
  <2> QED
    BY <2>3, <2>8 DEF UM32!Next
<1>3. CASE BitwiseNand
  <2>1. Opcode(6) /\ Computes(reg_a(word), Nand(B, C))
    BY <1>3 DEF BitwiseNand
  <2>2. UM32!SetA(Nand(B, C)) /\ UM32!Advance
    BY <2>1, SetStep
  <2>3. UM32!NotAnd
    BY <2>1, <2>2, SameFetch DEF UM32!NotAnd, UM32!SetA, Nand
  <2> QED
    BY <2>2, <2>3 DEF UM32!Next
<1>4. CASE Addition
  <2>1. Opcode(3) /\ Computes(reg_a(word), (B + C) % (16 * OP_UNIT))
    BY <1>4, ModEmulatorAssumption DEF Addition, Wrap
  <2>2. UM32!SetA((B + C) % (16 * OP_UNIT)) /\ UM32!Advance
    BY <2>1, SetStep
  <2>3. UM32!Addition
    BY <2>1, <2>2, SameFetch DEF UM32!Addition, UM32!SetA
  <2> QED
    BY <2>2, <2>3 DEF UM32!Next
<1>5. CASE Multiplication
  <2>1. Opcode(4) /\ Computes(reg_a(word), (B * C) % (16 * OP_UNIT))
    BY <1>5, ModEmulatorAssumption DEF Multiplication, Wrap
  <2>2. UM32!SetA((B * C) % (16 * OP_UNIT)) /\ UM32!Advance
    BY <2>1, SetStep
  <2>3. UM32!Multiplication
    BY <2>1, <2>2, SameFetch DEF UM32!Multiplication, UM32!SetA
  <2> QED
    BY <2>2, <2>3 DEF UM32!Next
<1>6. CASE Division
  <2>1. Opcode(5) /\ C # 0 /\ Computes(reg_a(word), B \div C)
    BY <1>6 DEF Division
  <2>2. UM32!SetA(B \div C) /\ UM32!Advance
    BY <2>1, SetStep
  <2>3. UM32!Division
    BY <2>1, <2>2, SameFetch DEF UM32!Division, UM32!SetA
  <2> QED
    BY <2>2, <2>3 DEF UM32!Next
<1> QED
  BY <1>1, <1>2, <1>3, <1>4, <1>5, <1>6

\* The instructions that load a value, use the console, or halt.
LEMMA PlainStep ==
    ASSUME MachineInv, LoadValue \/ ReadInput \/ Output \/ Stop
    PROVE  UM32!Next
<1>0. ASSUME NEW op, Opcode(op), NEW r, NEW v, Computes(r, v)
      PROVE  /\ regs' = [regs EXCEPT ![r] = v] /\ UM32!Advance
             /\ Memory' = Memory /\ out' = out
  BY <1>0, ComputeStep
<1>1. CASE LoadValue
  <2>1. Opcode(13) /\ Computes(lv_reg(word), lv_val(word))
    BY <1>1 DEF LoadValue
  <2>2. UM32!Operator(13) /\ UM32!lv_reg(UM32!W) = lv_reg(word) /\ UM32!lv_val(UM32!W) = lv_val(word)
    BY <2>1, SameFetch, SameDecoding
  <2>3. PICK r, v : r = lv_reg(word) /\ v = lv_val(word)
    OBVIOUS
  <2>4. Computes(r, v)
    BY <2>1, <2>3 DEF Computes, set_reg
  <2>5. UM32!Orthography /\ UM32!Advance
    BY <1>0, <2>1, <2>2, <2>3, <2>4 DEF UM32!Orthography, Memory
  <2> QED
    BY <2>5 DEF UM32!Next
<1>2. CASE ReadInput
  <2>1. PICK value \in Input : Opcode(11) /\ Computes(reg_c(word), value)
    BY <1>2 DEF ReadInput
  <2>2. UM32!Operator(11) /\ UM32!reg_c(UM32!W) = reg_c(word)
    BY <2>1, SameFetch, SameDecoding
  <2>3. PICK r : r = reg_c(word)
    OBVIOUS
  <2>4. Computes(r, value)
    BY <2>1, <2>3 DEF Computes, set_reg
  <2>5. UM32!ReadInput /\ UM32!Advance
    BY <1>0, <2>1, <2>2, <2>3, <2>4 DEF UM32!ReadInput, Memory
  <2> QED
    BY <2>5 DEF UM32!Next
<1>3. CASE Output
  <2>1. /\ Opcode(10) /\ C < BYTE /\ C \in Nat /\ BYTE \in Nat \ {0}
        /\ out' = Append(out, C % BYTE) /\ Advance /\ UNCHANGED <<vars, regs>>
    BY <1>3, Fetched, Virt32Assumption, IsaAssumption DEF Output, U32
  <2>2. C % BYTE = C
    BY <2>1
  <2>3. UM32!Operator(10) /\ UM32!C = C /\ Wrap(pc + 1) = pc + 1
    BY <2>1, SameFetch
  <2>4. Memory' = Memory
    BY <2>1, MemoryUnchanged DEF vars
  <2>5. UM32!Output /\ UM32!Advance
    BY <2>1, <2>2, <2>3, <2>4 DEF UM32!Output, UM32!Advance, Advance, Memory
  <2> QED
    BY <2>5 DEF UM32!Next
<1>4. CASE Stop
  <2>1. PICK op \in {7, 14, 15} : Opcode(op)
    BY <1>4 DEF Stop
  <2>2. Memory' = Memory
    BY <1>4, MemoryUnchanged DEF Stop, vars
  <2>3. UM32!Halt
    BY <1>4, <2>1, <2>2, SameFetch DEF Stop, UM32!Halt, Memory
  <2> QED
    BY <2>3 DEF UM32!Next
<1> QED
  BY <1>1, <1>2, <1>3, <1>4

\* The interpreter of a legal program is a UM: what it does to its registers,
\* its segments, its own code and the console is what the UM would have done,
\* though its segments share one mapping and their names are addresses in it.
THEOREM InterpreterIsUM == MachineSpec => ImplementsUMachine
<1>1. MachineInit => UM32!Init
  <2> SUFFICES ASSUME MachineInit PROVE UM32!Init
    OBVIOUS
  <2>1. UM!Init
    BY InitMemory DEF MachineInit
  <2>2. Value \cup {0} = U32
    <3>1. 0 \in U32
      BY Virt32Assumption DEF U32, BOOK_SIZE
    <3> QED
      BY <3>1, ModEmulatorAssumption
  <2>3. UM32!Memory!Init
    BY <2>1, <2>2 DEF UM!Init, UM32!Memory!Init
  <2> QED
    BY <2>3, SameDecoding DEF MachineInit, UM32!Init
<1>2. ASSUME RefineInv, MachineNext PROVE UM32!Next \/ UNCHANGED UM32!vars
  <2>1. CASE SegmentedStore
    BY <1>2, <2>1, StoreStep DEF UM32!Next
  <2>2. CASE map_segment
    BY <1>2, <2>2, MapStep DEF UM32!Next
  <2>3. CASE unmap_segment
    BY <1>2, <2>3, UnmapStep DEF UM32!Next
  <2>4. CASE LoadProgram
    BY <1>2, <2>4, LoadStep DEF UM32!Next
  <2> QED
    BY <1>2, <2>1, <2>2, <2>3, <2>4, ArithmeticStep, PlainStep DEF MachineNext, RefineInv
<1>3. UNCHANGED <<vars, machine>> => UNCHANGED UM32!vars
  BY MemoryUnchanged DEF vars, machine, UM32!vars, Memory
<1>4. MachineInv /\ Unwritten /\ [MachineNext]_<<vars, machine>> => [UM32!Next]_UM32!vars
  BY <1>2, <1>3 DEF RefineInv
<1>5. MachineSpec => []Unwritten
  BY InterpreterUsesVirt32, UncarvedIsZero, PTL DEF UsesVirt32
<1> QED
  BY <1>1, <1>4, <1>5, MachineInvariant, PTL DEF MachineSpec, UM32!Spec, ImplementsUMachine
=============================================================================
