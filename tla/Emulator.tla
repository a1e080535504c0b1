------------------------------ MODULE Emulator ------------------------------
(***************************************************************************)
(* The first emulator (runtimes/original-interpreter/emulator.c): the       *)
(* instruction loop over the segment table, where an access goes through    *)
(* segment_sequence and the execution finger is a pointer into a buffer.    *)
(* load_segment gives segment 0 another buffer and keeps the old one, so    *)
(* that a finger still in there would go on reading what the program was:   *)
(* `pp' is its index, and `text' the buffer it has been left in, if any.    *)
(*                                                                          *)
(* exec_instr checks nothing.  The conjuncts marked `legal' end a behaviour *)
(* where the UM gives a program no meaning.                                 *)
(***************************************************************************)
EXTENDS SegTable, Isa

CONSTANTS And(_, _),  \* bitwise and of two words (the processor's)
          Input,      \* what getc(stdin) returns: bytes, and (uint32_t)EOF
          MaxOut      \* bound: the most bytes a behaviour puts out

POWER == 16 * OP_UNIT
U32 == 0..POWER - 1

ASSUME EmulatorAssumption ==
    /\ U32 \subseteq Request /\ U32 \subseteq Offset /\ Value = U32
    /\ \A x, y \in U32 : And(x, y) \in U32
    /\ Input \subseteq U32 /\ MaxOut \in Nat
    /\ MaxIds <= POWER   \* an identifier is a word

VARIABLES regs,    \* the eight registers
          pp,      \* the next instruction: its index in the finger's buffer
          text,    \* that buffer, when segment 0 has moved to another; else NULL
          out,     \* what putchar has written
          halted   \* handle_instructions has left its loop

machine == <<regs, pp, text, out, halted>>

EmulatorInit ==
    /\ Init
    /\ regs = [r \in Reg |-> 0]
    /\ pp = 0 /\ text = NULL
    /\ out = <<>> /\ halted = FALSE

-----------------------------------------------------------------------------
word == (IF text = NULL THEN segment_sequence[0] ELSE text)[pp + 1]
A == regs[reg_a(word)]
B == regs[reg_b(word)]
C == regs[reg_c(word)]

\* The next instruction has this opcode; legal: it lies in segment 0.
Opcode(op) == ~halted /\ pp < held[0] /\ opcode(word) = op

\* legal: the segment is mapped and the offset within it.
InSegment(id, offset) == id \in DOMAIN held /\ offset < held[id]

set_reg(r, value) == regs' = [regs EXCEPT ![r] = value]
Advance == pp' = pp + 1 /\ UNCHANGED <<text, halted>>

\* The finger's buffer once segment 0's buffer has been replaced.
left_behind == IF text = NULL THEN segment_sequence[0] ELSE text

\* Leaves a value in register r, and touches nothing else.
Computes(r, value) == set_reg(r, value) /\ Advance /\ UNCHANGED <<vars, out>>

LoadValue == Opcode(13) /\ Computes(lv_reg(word), lv_val(word))
SegmentedLoad ==
    Opcode(1) /\ InSegment(B, C) /\ Computes(reg_a(word), segment_sequence[B][C + 1])
BitwiseNand == Opcode(6) /\ Computes(reg_a(word), POWER - 1 - And(B, C))
Addition_unwrapped == Opcode(3) /\ Computes(reg_a(word), B + C)
Addition == Opcode(3) /\ Computes(reg_a(word), (B + C) % POWER)
Multiplication == Opcode(4) /\ Computes(reg_a(word), (B * C) % POWER)
Division == Opcode(5) /\ C # 0 /\ Computes(reg_a(word), B \div C)
ConditionalMove == Opcode(0) /\ Computes(reg_a(word), IF C # 0 THEN B ELSE A)
ReadInput == Opcode(11) /\ \E value \in Input : Computes(reg_c(word), value)

SegmentedStore ==
    Opcode(2) /\ InSegment(A, B) /\ StoreWord(A, B, C) /\ Advance /\ UNCHANGED <<regs, out>>

\* map_segment may reallocate the buffer of the identifier that it hands out.
MapSegment ==
    /\ Opcode(8) /\ (rec_size = 0 => seq_size < MaxIds)
    /\ map_segment(C)
    /\ set_reg(reg_b(word), new_seg_id)
    /\ text' = IF new_seg_id = 0 THEN left_behind ELSE text
    /\ pp' = pp + 1 /\ UNCHANGED <<out, halted>>

\* legal: a segment that is mapped, and is not segment 0.
UnmapSegment ==
    /\ Opcode(9) /\ C \in DOMAIN held \ {0}
    /\ unmap_segment(C)
    /\ Advance /\ UNCHANGED <<regs, out>>

\* legal: a value of one byte, which the cast to unsigned char keeps.
Output ==
    /\ Opcode(10) /\ C < BYTE /\ Len(out) < MaxOut
    /\ out' = Append(out, C % BYTE)
    /\ Advance /\ UNCHANGED <<vars, regs>>

\* The jump is from `zero', the buffer that exec_instr is handed and casts to void.
LoadSegment_from_zero ==
    /\ Opcode(12) /\ B \in DOMAIN held
    /\ IF B > 0 THEN load_segment(B) ELSE UNCHANGED vars
    /\ pp' = C /\ text' = IF B > 0 THEN left_behind ELSE text
    /\ UNCHANGED <<regs, out, halted>>

\* load_segment does nothing for segment 0.  The finger is then taken from the
\* buffer that segment 0 has by now.
LoadSegment ==
    /\ Opcode(12) /\ B \in DOMAIN held
    /\ IF B > 0 THEN load_segment(B) ELSE UNCHANGED vars
    /\ pp' = C /\ text' = NULL
    /\ UNCHANGED <<regs, out, halted>>

Stop ==
    /\ \E op \in {7, 14, 15} : Opcode(op)
    /\ halted' = TRUE
    /\ UNCHANGED <<vars, regs, pp, text, out>>

-----------------------------------------------------------------------------
EmulatorNext ==
    \/ LoadValue \/ SegmentedLoad \/ SegmentedStore \/ BitwiseNand
    \/ LoadSegment \/ Addition \/ ConditionalMove \/ MapSegment
    \/ UnmapSegment \/ Division \/ Multiplication \/ Output \/ ReadInput
    \/ Stop

EmulatorSpec == EmulatorInit /\ [][EmulatorNext]_<<vars, machine>>

-----------------------------------------------------------------------------
\* Properties.

EmulatorTypeOK ==
    /\ regs \in [Reg -> U32] /\ pp \in Nat /\ text \in Seq(U32) \cup {NULL}
    /\ out \in Seq(0..BYTE - 1) /\ halted \in BOOLEAN

\* What is about to run is what the program would read of itself there: the
\* finger never stays in a buffer that a load, or a map, has taken from segment
\* 0, and it sees every store that the program makes into its own code.
FetchesProgram == pp < held[0] => word = segment_sequence[0][pp + 1]

\* Whatever a legal program does to its registers, its segments, its own code
\* and the console is what the UM would have done; a buffer that is longer than
\* the segment it serves never shows.
UM32 == INSTANCE UMachine
            WITH segs <- [id \in DOMAIN held |-> SubSeq(segment_sequence[id], 1, held[id])],
                 finger <- pp, Word <- U32, Id <- Range0(MaxIds),
                 Nand <- LAMBDA x, y : POWER - 1 - And(x, y)
ImplementsUMachine == UM32!Spec
=============================================================================
