----------------------------- MODULE MCEmulator -----------------------------
(***************************************************************************)
(* Emulator for TLC: four registers, and every program made of a fixed      *)
(* beginning and a short tail of instructions that interact.                *)
(***************************************************************************)
EXTENDS Emulator, SequencesExt
Bits == INSTANCE Bitwise

MCAnd(x, y) == Bits!&(x, y)
MCWords == 0..1023

lv(a, val) == load_val(val, a)

\* r0 = 0, r1 = 1; r2 names a segment of r3 = 2 words that has been used,
\* unmapped and mapped again with one word less.
Opening == << lv(1, 1), lv(3, 2), three_reg(8, 0, 2, 3), three_reg(2, 2, 1, 3),
             three_reg(9, 0, 0, 2), three_reg(8, 0, 2, 1) >>

Moves == { three_reg(2, 2, 0, 3), three_reg(2, 0, 3, 1), three_reg(1, 1, 2, 0),
          three_reg(1, 3, 0, 1), three_reg(8, 0, 3, 1), three_reg(8, 0, 2, 3),
          three_reg(9, 0, 0, 2), three_reg(9, 0, 0, 3), three_reg(12, 0, 2, 0),
          three_reg(12, 0, 0, 3), three_reg(10, 0, 0, 3), three_reg(11, 0, 0, 3),
          three_reg(3, 3, 1, 1), three_reg(0, 1, 2, 3) }

\* Arithmetic on what was read.
Reading == << three_reg(11, 0, 0, 1), three_reg(11, 0, 0, 2) >>
Sums == { three_reg(op, 3, 1, 2) : op \in {0, 3, 4, 5, 6} }
          \cup { three_reg(op, 1, 3, 2) : op \in {0, 3, 4, 5, 6} }

MCProgram ==
    { Opening \o t \o <<three_reg(7, 0, 0, 0)>> : t \in TupleOf(Moves, 3) }
      \cup { Reading \o t \o <<three_reg(15, 0, 0, 0)>> : t \in TupleOf(Sums, 2) }
=============================================================================
