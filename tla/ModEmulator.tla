----------------------------- MODULE ModEmulator -----------------------------
(***************************************************************************)
(* The interpreter over Virt32 (runtimes/interpreter/mod_emulator.c): fetch *)
(* a word of segment 0, advance, execute.  An identifier of a segment is    *)
(* its address, so that an access is one addition.                          *)
(*                                                                          *)
(* exec_instr checks nothing; a program that goes where the UM gives it no  *)
(* meaning, or asks more of the heap than Virt32 can serve, has undefined   *)
(* behaviour.  The conjuncts marked `legal' end a behaviour there.          *)
(***************************************************************************)
EXTENDS Virt32, Isa

CONSTANTS And(_, _),  \* bitwise and of two words (the processor's)
          Input,      \* what getc(stdin) returns: bytes, and (uint32_t)EOF
          MaxOut      \* bound: the most bytes a behaviour puts out

ASSUME ModEmulatorAssumption ==
    /\ GB4 = 16 * OP_UNIT /\ Spare = 4
    /\ U32 \subseteq Request /\ U32 \subseteq Offset /\ Value = U32
    /\ \A x, y \in U32 : And(x, y) \in U32
    /\ Input \subseteq U32
    /\ MaxOut \in Nat

VARIABLES regs,    \* the eight registers
          pc,      \* index, in words, of the next instruction in segment 0
          out,     \* what putchar has written
          halted   \* handle_instructions has left its loop

machine == <<regs, pc, out, halted>>

MachineInit ==
    /\ Init
    /\ regs = [r \in Reg |-> 0] /\ pc = 0
    /\ out = <<>> /\ halted = FALSE

-----------------------------------------------------------------------------
\* Fetch and decode.

word == get_at(mem, Wrap(4 * pc))
A == regs[reg_a(word)]
B == regs[reg_b(word)]
C == regs[reg_c(word)]

\* The next instruction has this opcode; legal: it lies in segment 0.
Opcode(op) == ~halted /\ ~aborted /\ 4 * pc < SizeOf(0) /\ opcode(word) = op

\* legal: the segment is mapped and the offset within it.
InSegment(id, offset) == id \in Segments /\ 4 * offset < SizeOf(id)

Address(id, offset) == Wrap(id + 4 * offset)

Nand(x, y) == GB4 - 1 - And(x, y)

set_reg(r, value) == regs' = [regs EXCEPT ![r] = value]
Advance == pc' = Wrap(pc + 1) /\ UNCHANGED halted

\* Leaves a value in register r, and touches nothing else.
Computes(r, value) == set_reg(r, value) /\ Advance /\ UNCHANGED <<vars, out>>

LoadValue == Opcode(13) /\ Computes(lv_reg(word), lv_val(word))
SegmentedLoad ==
    Opcode(1) /\ InSegment(B, C) /\ Computes(reg_a(word), get_at(mem, Address(B, C)))
BitwiseNand == Opcode(6) /\ Computes(reg_a(word), Nand(B, C))
Addition_unwrapped == Opcode(3) /\ Computes(reg_a(word), B + C)
Addition == Opcode(3) /\ Computes(reg_a(word), Wrap(B + C))
Multiplication == Opcode(4) /\ Computes(reg_a(word), Wrap(B * C))
Division == Opcode(5) /\ C # 0 /\ Computes(reg_a(word), B \div C)
ConditionalMove == Opcode(0) /\ Computes(reg_a(word), IF C # 0 THEN B ELSE A)
ReadInput == Opcode(11) /\ \E value \in Input : Computes(reg_c(word), value)

SegmentedStore_from_mapping ==
    /\ Opcode(2) /\ InSegment(A, B)
    /\ mem' = set_at(mem, Address(A, B) - BOOK_SIZE, C)
    /\ Advance
    /\ UNCHANGED <<alloc, kernel_virtual_size, aborted, regs, out>>
SegmentedStore ==
    /\ Opcode(2) /\ InSegment(A, B)
    /\ mem' = set_at(mem, Address(A, B), C)
    /\ Advance
    /\ UNCHANGED <<alloc, kernel_virtual_size, aborted, regs, out>>

\* legal: a length, and a heap, that vs_calloc can serve.
map_segment ==
    /\ Opcode(8) /\ Requested(C) /\ FitsHeap(4 * C)
    /\ MapSegment(C)
    /\ set_reg(reg_b(word), served(Wrap(4 * C)))
    /\ Advance /\ UNCHANGED out

\* legal: a segment that is mapped, and is not segment 0.
unmap_segment ==
    /\ Opcode(9) /\ C \in mapped
    /\ UnmapSegment(C)
    /\ Advance /\ UNCHANGED <<regs, out>>

\* legal: a value of one byte, which the cast to unsigned char keeps.
Output ==
    /\ Opcode(10) /\ C < BYTE /\ Len(out) < MaxOut
    /\ out' = Append(out, C % BYTE)
    /\ Advance /\ UNCHANGED <<vars, regs>>

\* load_segment, then the jump: a load from segment 0 is the jump alone, and an
\* assertion that fails in kern_realloc ends the process before it.
LoadProgram_without_jump ==
    /\ Opcode(12)
    /\ \/ B = 0 /\ UNCHANGED vars
       \/ B \in mapped /\ LoadSegment(B)
    /\ pc' = IF aborted' THEN pc ELSE Wrap(pc + 1)
    /\ UNCHANGED <<regs, out, halted>>
LoadProgram ==
    /\ Opcode(12)
    /\ \/ B = 0 /\ UNCHANGED vars
       \/ B \in mapped /\ LoadSegment(B)
    /\ pc' = IF aborted' THEN pc ELSE C
    /\ UNCHANGED <<regs, out, halted>>

Stop ==
    /\ \E op \in {7, 14, 15} : Opcode(op)
    /\ halted' = TRUE
    /\ UNCHANGED <<vars, regs, pc, out>>

-----------------------------------------------------------------------------
MachineNext ==
    \/ LoadValue \/ SegmentedLoad \/ SegmentedStore \/ BitwiseNand
    \/ LoadProgram \/ Addition \/ ConditionalMove \/ map_segment
    \/ unmap_segment \/ Division \/ Multiplication \/ Output \/ ReadInput
    \/ Stop

MachineSpec == MachineInit /\ [][MachineNext]_<<vars, machine>>

-----------------------------------------------------------------------------
\* Properties.

MachineTypeOK ==
    /\ regs \in [Reg -> U32] /\ pc \in U32
    /\ out \in Seq(0..BYTE - 1) /\ halted \in BOOLEAN

\* The interpreter uses the allocator as the allocator expects: every step that
\* a legal program makes is a step of Virt32 or leaves its state alone.  What
\* holds of Virt32 holds therefore of the interpreter's memory.
UsesVirt32 == Spec

\* The interpreter is a UM: whatever a legal program does to its registers, its
\* segments, its own code and the console is what the UM would have done.
UM32 == INSTANCE UMachine
            WITH segs <- [id \in Segments |-> Contents(id)], finger <- pc,
                 Word <- U32, Id <- SegmentId
ImplementsUMachine == UM32!Spec
=============================================================================
