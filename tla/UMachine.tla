------------------------------ MODULE UMachine ------------------------------
(***************************************************************************)
(* What a runtime promises a UM program: registers, an execution finger, a  *)
(* memory (UMMemory), and the sequence of bytes put out.  An instruction    *)
(* that the UM leaves undefined (an array that is not active, an offset     *)
(* beyond its end, a division by zero, an output above a byte) has no step  *)
(* here: a runtime is held to nothing once its program has gone there.      *)
(***************************************************************************)
EXTENDS Isa

CONSTANTS Word,      \* the values of a register and of a word of memory
          Id,        \* the identifiers a segment may have
          Input,     \* what reading the console returns: bytes, and end of file
          Nand(_, _) \* bitwise not-and of two words

VARIABLES regs, finger, segs, out, halted
vars == <<regs, finger, segs, out, halted>>

Memory == INSTANCE UMMemory WITH Length <- Word

Init ==
    /\ Memory!Init
    /\ regs = [r \in Reg |-> 0] /\ finger = 0
    /\ out = <<>> /\ halted = FALSE

\* The word under the finger, and the registers it names.
W == segs[0][finger + 1]
A == regs[reg_a(W)]
B == regs[reg_b(W)]
C == regs[reg_c(W)]

Operator(op) == ~halted /\ finger < Len(segs[0]) /\ opcode(W) = op
Active(id, offset) == id \in DOMAIN segs /\ offset < Len(segs[id])

Advance == finger' = finger + 1 /\ UNCHANGED halted
SetA(value) == regs' = [regs EXCEPT ![reg_a(W)] = value] /\ UNCHANGED <<segs, out>>

ConditionalMove == Operator(0) /\ SetA(IF C # 0 THEN B ELSE A)
ArrayIndex == Operator(1) /\ Active(B, C) /\ SetA(segs[B][C + 1])
ArrayAmendment ==
    Operator(2) /\ Active(A, B) /\ Memory!Store(A, B + 1, C) /\ UNCHANGED <<regs, out>>
Addition == Operator(3) /\ SetA((B + C) % (16 * OP_UNIT))
Multiplication == Operator(4) /\ SetA((B * C) % (16 * OP_UNIT))
Division == Operator(5) /\ C # 0 /\ SetA(B \div C)
NotAnd == Operator(6) /\ SetA(Nand(B, C))
Allocation ==
    /\ Operator(8)
    /\ \E id \in Id \ {0} :
          regs' = [regs EXCEPT ![reg_b(W)] = id] /\ Memory!Map(id, C)
    /\ UNCHANGED out
Abandonment ==
    Operator(9) /\ C \in DOMAIN segs /\ Memory!Unmap(C) /\ UNCHANGED <<regs, out>>
Output ==
    Operator(10) /\ C < BYTE /\ out' = Append(out, C) /\ UNCHANGED <<regs, segs>>
ReadInput ==
    /\ Operator(11)
    /\ \E value \in Input : regs' = [regs EXCEPT ![reg_c(W)] = value]
    /\ UNCHANGED <<segs, out>>
Orthography ==
    /\ Operator(13)
    /\ regs' = [regs EXCEPT ![lv_reg(W)] = lv_val(W)]
    /\ UNCHANGED <<segs, out>>

LoadProgram ==
    /\ Operator(12) /\ B \in DOMAIN segs
    /\ Memory!LoadSegment(B) /\ finger' = C
    /\ UNCHANGED <<regs, out, halted>>

\* A halt, and an operator number that means nothing.
Halt ==
    /\ \E op \in {7, 14, 15} : Operator(op)
    /\ halted' = TRUE
    /\ UNCHANGED <<regs, finger, segs, out>>

Next ==
    \/ /\ \/ ConditionalMove \/ ArrayIndex \/ ArrayAmendment \/ Addition
          \/ Multiplication \/ Division \/ NotAnd \/ Allocation \/ Abandonment
          \/ Output \/ ReadInput \/ Orthography
       /\ Advance
    \/ LoadProgram
    \/ Halt

Spec == Init /\ [][Next]_vars
=============================================================================
