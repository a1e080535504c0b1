------------------------------ MODULE MCX86Jit ------------------------------
(***************************************************************************)
(* X86Jit for TLC: four UM registers, all of them volatile for C, and the   *)
(* programs of MCModEmulator's kind.                                        *)
(***************************************************************************)
EXTENDS X86Jit, SequencesExt
Bits == INSTANCE Bitwise

MCAnd(x, y) == Bits!&(x, y)
MCWords == 0..1023
MCCaller(q) == 2000 + q

lv(a, val) == load_val(val, a)

\* r0 = 0, r1 = 1, and r2 names a segment of r3 = 108 words, the longest that
\* segment 0 has room for.
Large == << lv(1, 1), lv(2, 12), lv(3, 9), three_reg(4, 3, 2, 3), three_reg(8, 0, 2, 3) >>

\* It leaves a heap of four blocks; r2 then names a segment of r3 = 6 words.
Opening == Large \o << lv(3, 6), three_reg(8, 0, 2, 3) >>

\* r2 names the longest segment there is, which segment 0 has no room for.
Largest == SubSeq(Large, 1, 4) \o << three_reg(3, 3, 3, 1), three_reg(8, 0, 2, 3) >>

\* Memory instructions on that segment, on segment 0 and on what is mapped next.
Moves == { three_reg(2, 2, 1, 3), three_reg(2, 2, 0, 1), three_reg(2, 0, 3, 1),
          three_reg(1, 1, 2, 0), three_reg(1, 3, 0, 1), three_reg(8, 0, 3, 1),
          three_reg(9, 0, 0, 2), three_reg(9, 0, 0, 3), three_reg(12, 0, 2, 0),
          three_reg(12, 0, 0, 3), three_reg(10, 0, 0, 3), three_reg(11, 0, 0, 3),
          three_reg(3, 3, 1, 1), three_reg(0, 1, 2, 3), three_reg(6, 3, 1, 1) }

\* Arithmetic on what was read, the destination among the sources or not.
Reading == << three_reg(11, 0, 0, 1), three_reg(11, 0, 0, 2) >>
Sums == { three_reg(op, 3, 1, 2) : op \in {0, 3, 4, 5, 6} }
          \cup { three_reg(op, 1, 3, 2) : op \in {0, 3, 4, 5, 6} }
          \cup { three_reg(op, 2, 1, 2) : op \in {0, 3, 4, 5, 6} }

\* Loads at the limit of segment 0.
Loads == { Large \o <<m, three_reg(12, 0, 2, 0)>> : m \in Moves }
           \cup { Largest \o <<m, three_reg(12, 0, 2, 0)>> : m \in Moves }

MCProgram ==
    Loads
      \cup { Opening \o t \o <<three_reg(7, 0, 0, 0)>> : t \in TupleOf(Moves, 3) }
      \cup { Reading \o t \o <<three_reg(7, 0, 0, 0)>> : t \in TupleOf(Sums, 2) }
=============================================================================
