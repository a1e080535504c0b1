------------------------------ MODULE MCOptJit ------------------------------
(***************************************************************************)
(* OptJit for TLC: four UM registers, and programs that halt, jump or end   *)
(* anywhere.                                                                *)
(***************************************************************************)
EXTENDS OptJit, SequencesExt
Bits == INSTANCE Bitwise

MCAnd(x, y) == Bits!&(x, y)
MCWords == 0..1023

lv(a, val) == load_val(val, a)

\* Every operator; the jumps go to r1 = 1, r2 = 4 and r3 = what was read last.
Opening == << lv(1, 1), lv(2, 4) >>
Moves == { three_reg(0, 1, 2, 3), three_reg(1, 1, 0, 0), three_reg(2, 0, 0, 1),
          three_reg(3, 3, 3, 1), three_reg(4, 2, 2, 3), three_reg(5, 3, 2, 1),
          three_reg(6, 1, 3, 1), three_reg(7, 0, 0, 0), three_reg(8, 0, 2, 0),
          three_reg(9, 0, 0, 2), three_reg(10, 0, 0, 2), three_reg(11, 0, 0, 3),
          three_reg(12, 0, 0, 2), three_reg(12, 0, 0, 3), three_reg(14, 0, 0, 0) }

MCProgram == {<<>>} \cup { Opening \o t : t \in UNION {TupleOf(Moves, n) : n \in 1..3} }
=============================================================================
