---------------------------- MODULE ArmJitProofs ----------------------------
(***************************************************************************)
(* What the chunks and the handlers of the arm64 JITs keep, on both hosts:  *)
(* the reserved registers and the stack, the places where control lands,    *)
(* the caller's registers, and the heap of Virt32; and that compiled code   *)
(* is a UM until it reaches a word that it has changed.                     *)
(***************************************************************************)
EXTENDS ArmJit, Virt32Proofs, IsaProofs, FiniteSetTheorems

-----------------------------------------------------------------------------
\* Machine instructions.

Cpu == [reg : [Register -> Nat], zero : BOOLEAN, stack : Seq(Nat \X Nat)]

\* s is c with v in register q.
Writes(c, q, v, s) ==
    /\ s \in Cpu /\ s.stack = c.stack
    /\ \A p \in Register : s.reg[p] = IF p = q THEN v ELSE c.reg[p]

\* What the instructions of a chunk do when they leave v in register q: they
\* use x9 freely, and keep everything else.
Yields(c, s, q, v) ==
    /\ s \in Cpu /\ s.stack = c.stack /\ s.reg[q] = v
    /\ \A p \in Register \ {9, q} : s.reg[p] = c.reg[p]

Near(c, s) ==
    /\ s \in Cpu /\ s.stack = c.stack
    /\ \A p \in Register \ {9} : s.reg[p] = c.reg[p]

Flagged(c, zero_result) == [c EXCEPT !.zero = zero_result]

LEMMA Setting ==
    ASSUME NEW c \in Cpu, NEW d \in Register, NEW v \in Nat, NEW t, t = Set(c, d, v)
    PROVE  Writes(c, d, v, t) /\ t.zero = c.zero
BY DEF Cpu, Set, Writes

LEMMA Leaving ==
    ASSUME NEW c, NEW s, Near(c, s), NEW p \in Register, NEW v \in Nat, NEW t, t = Set(s, p, v)
    PROVE  Yields(c, t, p, v)
<1>1. s \in Cpu
  BY DEF Near
<1>2. Writes(s, p, v, t)
  BY <1>1, Setting
<1> QED
  BY <1>1, <1>2 DEF Near, Writes, Yields

LEMMA Scratch ==
    ASSUME NEW c \in Cpu, NEW v \in Nat, NEW t, t = Set(c, 9, v)
    PROVE  Near(c, t) /\ t.reg[9] = v
<1>1. 9 \in Register
  BY DEF Register
<1>2. Writes(c, 9, v, t)
  BY <1>1, Setting
<1> QED
  BY <1>1, <1>2 DEF Near, Writes

\* UM registers live in machine registers 19 and up.
LEMMA Registers ==
    /\ \A r \in Reg : R(r) \in Register /\ R(r) \in 19..26
    /\ 0..30 = Register
    /\ \A r, s \in Reg : R(r) = R(s) => r = s
<1>1. NREGS \in Nat /\ NREGS <= 8
  BY IsaAssumption, ArmJitAssumption
<1> QED
  BY <1>1 DEF R, Reg, Register, BR

LEMMA Fielded ==
    ASSUME NEW name, NEW d, NEW n, NEW m
    PROVE  /\ Op(name, d, n, m).op = name /\ Op(name, d, n, m).d = d
           /\ Op(name, d, n, m).n = n /\ Op(name, d, n, m).m = m
BY DEF Op

\* What each kind of instruction does.
LEMMA Exec_movimm ==
    ASSUME NEW c, NEW o, o.op = "mov imm"
    PROVE  Exec(c, o) = Set(c, o.d, o.n)
BY Zenon DEF Exec

LEMMA Exec_movk ==
    ASSUME NEW c, NEW o, o.op = "movk"
    PROVE  LET m == Wrap(c.reg[o.m])
           IN  Exec(c, o) = Set(c, o.d, (m - (m % (HALF * HALF))) + o.n * HALF + (m % HALF))
BY Zenon DEF Exec

LEMMA Exec_mov ==
    ASSUME NEW c, NEW o, o.op = "mov"
    PROVE  Exec(c, o) = Set(c, o.d, Wrap(c.reg[o.n]))
BY Zenon DEF Exec

LEMMA Exec_cmp ==
    ASSUME NEW c, NEW o, o.op = "cmp"
    PROVE  Exec(c, o) = Flagged(c, Wrap(c.reg[o.n]) = 0)
BY Zenon DEF Exec, Flagged

LEMMA Exec_csel ==
    ASSUME NEW c, NEW o, o.op = "csel ne"
    PROVE  Exec(c, o) = Set(c, o.d, IF c.zero THEN Wrap(c.reg[o.m]) ELSE Wrap(c.reg[o.n]))
BY Zenon DEF Exec

LEMMA Exec_addx ==
    ASSUME NEW c, NEW o, o.op = "add x"
    PROVE  Exec(c, o) = Set(c, o.d, c.reg[o.n] + c.reg[o.m])
BY Zenon DEF Exec

LEMMA Exec_add ==
    ASSUME NEW c, NEW o, o.op = "add"
    PROVE  Exec(c, o) = Set(c, o.d, Wrap(Wrap(c.reg[o.n]) + Wrap(c.reg[o.m])))
BY Zenon DEF Exec

LEMMA Exec_mul ==
    ASSUME NEW c, NEW o, o.op = "mul"
    PROVE  Exec(c, o) = Set(c, o.d, Wrap(Wrap(c.reg[o.n]) * Wrap(c.reg[o.m])))
BY Zenon DEF Exec

LEMMA Exec_udiv ==
    ASSUME NEW c, NEW o, o.op = "udiv"
    PROVE  Exec(c, o) = Set(c, o.d, IF Wrap(c.reg[o.m]) = 0 THEN 0
                                    ELSE Wrap(c.reg[o.n]) \div Wrap(c.reg[o.m]))
BY Zenon DEF Exec

LEMMA Exec_and ==
    ASSUME NEW c, NEW o, o.op = "and"
    PROVE  Exec(c, o) = Set(c, o.d, And(Wrap(c.reg[o.n]), Wrap(c.reg[o.m])))
BY Zenon DEF Exec

LEMMA Exec_mvn ==
    ASSUME NEW c, NEW o, o.op = "mvn"
    PROVE  Exec(c, o) = Set(c, o.d, GB4 - 1 - Wrap(c.reg[o.m]))
BY Zenon DEF Exec

LEMMA Exec_ldr ==
    ASSUME NEW c, NEW o, o.op = "ldr"
    PROVE  Exec(c, o) = Set(c, o.d, mem[Target(c, o.n, o.m)])
BY Zenon DEF Exec

LEMMA Exec_nothing ==
    ASSUME NEW c, NEW o, o.op \in {"str", "br", "blr", "nop"}
    PROVE  Exec(c, o) = c
BY Zenon DEF Exec

LEMMA Instructions ==
    /\ \A c, d, n : Exec(c, movimm(d, n)) = Set(c, d, n)
    /\ \A c, d, n : Exec(c, mov(d, n)) = Set(c, d, Wrap(c.reg[n]))
    /\ \A c, n : Exec(c, cmp(n)) = Flagged(c, Wrap(c.reg[n]) = 0)
    /\ \A c, d, n, m : Exec(c, csel(d, n, m)) =
            Set(c, d, IF c.zero THEN Wrap(c.reg[m]) ELSE Wrap(c.reg[n]))
    /\ \A c, d, n, m : Exec(c, addx(d, n, m)) = Set(c, d, c.reg[n] + c.reg[m])
    /\ \A c, d, n, m : Exec(c, and(d, n, m)) =
            Set(c, d, And(Wrap(c.reg[n]), Wrap(c.reg[m])))
    /\ \A c, d, m : Exec(c, mvn(d, m)) = Set(c, d, GB4 - 1 - Wrap(c.reg[m]))
    /\ \A c, d, n, m : Exec(c, ldr(d, n, m)) = Set(c, d, mem[Target(c, n, m)])
    /\ \A c, d, n, m : Exec(c, add(d, n, m)) =
            Set(c, d, Wrap(Wrap(c.reg[n]) + Wrap(c.reg[m])))
    /\ \A c, d, n, m : Exec(c, mul(d, n, m)) =
            Set(c, d, Wrap(Wrap(c.reg[n]) * Wrap(c.reg[m])))
    /\ \A c, d, n, m : Exec(c, udiv(d, n, m)) = Set(c, d, IF Wrap(c.reg[m]) = 0 THEN 0
            ELSE Wrap(c.reg[n]) \div Wrap(c.reg[m]))
    /\ \A c, d, n, m : Exec(c, str(d, n, m)) = c
    /\ \A c, n : Exec(c, br(n)) = c
    /\ \A c, n : Exec(c, blr(n)) = c
    /\ \A c : Exec(c, nop) = c
<1>1. ASSUME NEW c, NEW d, NEW n
      PROVE  Exec(c, movimm(d, n)) = Set(c, d, n)
  <2>1. PICK kind : kind = "mov imm"
    OBVIOUS
  <2>2. PICK o : o = Op(kind, d, n, d)
    OBVIOUS
  <2>3. o.op = kind /\ o.d = d /\ o.n = n /\ o.m = d
    BY <2>2, Fielded
  <2>4. o = movimm(d, n)
    BY <2>1, <2>2, Zenon DEF movimm
  <2> QED
    BY <2>1, <2>3, <2>4, Exec_movimm, Zenon
<1>2. ASSUME NEW c, NEW d, NEW n
      PROVE  Exec(c, mov(d, n)) = Set(c, d, Wrap(c.reg[n]))
  BY Fielded, Exec_mov DEF mov
<1>3. ASSUME NEW c, NEW n
      PROVE  Exec(c, cmp(n)) = Flagged(c, Wrap(c.reg[n]) = 0)
  BY Fielded, Exec_cmp DEF cmp
<1>4. ASSUME NEW c, NEW d, NEW n, NEW m
      PROVE  Exec(c, csel(d, n, m)) =
               Set(c, d, IF c.zero THEN Wrap(c.reg[m]) ELSE Wrap(c.reg[n]))
  <2>1. PICK kind : kind = "csel ne"
    OBVIOUS
  <2>2. PICK o : o = Op(kind, d, n, m)
    OBVIOUS
  <2>3. o.op = kind /\ o.d = d /\ o.n = n /\ o.m = m
    BY <2>2, Fielded
  <2>4. o = csel(d, n, m)
    BY <2>1, <2>2, Zenon DEF csel
  <2> QED
    BY <2>1, <2>3, <2>4, Exec_csel, Zenon
<1>5. ASSUME NEW c, NEW d, NEW n, NEW m
      PROVE  Exec(c, addx(d, n, m)) = Set(c, d, c.reg[n] + c.reg[m])
  <2>1. PICK kind : kind = "add x"
    OBVIOUS
  <2>2. PICK o : o = Op(kind, d, n, m)
    OBVIOUS
  <2>3. o.op = kind /\ o.d = d /\ o.n = n /\ o.m = m
    BY <2>2, Fielded
  <2>4. o = addx(d, n, m)
    BY <2>1, <2>2, Zenon DEF addx
  <2> QED
    BY <2>1, <2>3, <2>4, Exec_addx, Zenon
<1>6. ASSUME NEW c, NEW d, NEW n, NEW m
      PROVE  Exec(c, and(d, n, m)) =
               Set(c, d, And(Wrap(c.reg[n]), Wrap(c.reg[m])))
  BY Fielded, Exec_and DEF and
<1>7. ASSUME NEW c, NEW d, NEW m
      PROVE  Exec(c, mvn(d, m)) = Set(c, d, GB4 - 1 - Wrap(c.reg[m]))
  BY Fielded, Exec_mvn DEF mvn
<1>8. ASSUME NEW c, NEW d, NEW n, NEW m
      PROVE  Exec(c, ldr(d, n, m)) = Set(c, d, mem[Target(c, n, m)])
  BY Fielded, Exec_ldr DEF ldr
<1>9. ASSUME NEW c, NEW d, NEW n, NEW m
      PROVE  Exec(c, add(d, n, m)) =
               Set(c, d, Wrap(Wrap(c.reg[n]) + Wrap(c.reg[m])))
  BY Fielded, Exec_add DEF add
<1>10. ASSUME NEW c, NEW d, NEW n, NEW m
      PROVE  Exec(c, mul(d, n, m)) =
               Set(c, d, Wrap(Wrap(c.reg[n]) * Wrap(c.reg[m])))
  BY Fielded, Exec_mul DEF mul
<1>11. ASSUME NEW c, NEW d, NEW n, NEW m
      PROVE  Exec(c, udiv(d, n, m)) = Set(c, d, IF Wrap(c.reg[m]) = 0 THEN 0
               ELSE Wrap(c.reg[n]) \div Wrap(c.reg[m]))
  BY Fielded, Exec_udiv DEF udiv
<1>12. ASSUME NEW c, NEW d, NEW n, NEW m
      PROVE  Exec(c, str(d, n, m)) = c
  BY Fielded, Exec_nothing DEF str
<1>13. ASSUME NEW c, NEW n
      PROVE  Exec(c, br(n)) = c
  BY Fielded, Exec_nothing DEF br
<1>14. ASSUME NEW c, NEW n
      PROVE  Exec(c, blr(n)) = c
  BY Fielded, Exec_nothing DEF blr
<1>15. ASSUME NEW c
      PROVE  Exec(c, nop) = c
  BY Fielded, Exec_nothing DEF nop
<1> QED
  BY <1>1, <1>2, <1>3, <1>4, <1>5, <1>6, <1>7, <1>8, <1>9, <1>10, <1>11, <1>12, <1>13, <1>14, <1>15

LEMMA MovkDoes ==
    ASSUME NEW c, NEW d, NEW n
    PROVE  LET m == Wrap(c.reg[d])
           IN  Exec(c, movk(d, n)) = Set(c, d, (m - (m % (HALF * HALF))) + n * HALF + (m % HALF))
BY Fielded, Exec_movk DEF movk

\* A run of up to three instructions is one after the other.
LEMMA Counting ==
    ASSUME NEW o, NEW p, NEW q
    PROVE  /\ Len(<<>>) = 0 /\ Len(<<o>>) = 1 /\ Len(<<o, p>>) = 2 /\ Len(<<o, p, q>>) = 3
OBVIOUS

LEMMA ThenDoes ==
    ASSUME NEW c, NEW ops, NEW k
    PROVE  /\ k <= Len(ops) => Then(c, ops, k) = Exec(c, ops[k])
           /\ ~(k <= Len(ops)) => Then(c, ops, k) = c
BY DEF Then

LEMMA RunThree ==
    ASSUME NEW c, NEW o, NEW p, NEW q
    PROVE  Run(c, <<o, p, q>>) = Exec(Exec(Exec(c, o), p), q)
<1> DEFINE ops == <<o, p, q>>
<1>1. Len(ops) = 3 /\ ops[1] = o /\ ops[2] = p /\ ops[3] = q
  BY Counting
<1> HIDE DEF ops
<1>2. \A d : /\ Then(d, ops, 1) = Exec(d, o) /\ Then(d, ops, 2) = Exec(d, p)
             /\ Then(d, ops, 3) = Exec(d, q)
  BY <1>1, ThenDoes
<1>3. Run(c, ops) = Exec(Exec(Exec(c, o), p), q)
  BY <1>2 DEF Run
<1> QED
  BY <1>3 DEF ops

LEMMA RunTwo ==
    ASSUME NEW c, NEW o, NEW p
    PROVE  Run(c, <<o, p>>) = Exec(Exec(c, o), p)
<1> DEFINE ops == <<o, p>>
<1>1. Len(ops) = 2 /\ ops[1] = o /\ ops[2] = p
  BY Counting
<1> HIDE DEF ops
<1>2. \A d : /\ Then(d, ops, 1) = Exec(d, o) /\ Then(d, ops, 2) = Exec(d, p)
             /\ Then(d, ops, 3) = d
  BY <1>1, ThenDoes
<1>3. Run(c, ops) = Exec(Exec(c, o), p)
  BY <1>2 DEF Run
<1> QED
  BY <1>3 DEF ops

LEMMA RunOne ==
    ASSUME NEW c, NEW o
    PROVE  Run(c, <<o>>) = Exec(c, o)
<1> DEFINE ops == <<o>>
<1>1. Len(ops) = 1 /\ ops[1] = o
  BY Counting
<1> HIDE DEF ops
<1>2. \A d : /\ Then(d, ops, 1) = Exec(d, o) /\ Then(d, ops, 2) = d /\ Then(d, ops, 3) = d
  BY <1>1, ThenDoes
<1>3. Run(c, ops) = Exec(c, o)
  BY <1>2 DEF Run
<1> QED
  BY <1>3 DEF ops

LEMMA RunNone == ASSUME NEW c PROVE Run(c, <<>>) = c
<1>1. \A d : Then(d, <<>>, 1) = d /\ Then(d, <<>>, 2) = d /\ Then(d, <<>>, 3) = d
  BY Counting, ThenDoes
<1> QED
  BY <1>1 DEF Run

-----------------------------------------------------------------------------
\* What the chunk of each instruction without a branch does.

\* The UM registers hold words.
Words(c) == \A r \in Reg : c.reg[R(r)] \in U32

LEMMA WordNat == ASSUME NEW x \in U32 PROVE x \in Nat /\ Wrap(x) = x
<1>1. x \in Nat
  BY Virt32Assumption DEF U32
<1> QED
  BY <1>1, WrapFits

LEMMA WrapNat == ASSUME NEW x \in Nat PROVE Wrap(x) \in U32 /\ Wrap(x) \in Nat
<1>1. Wrap(x) \in U32
  BY WrapRange
<1> QED
  BY <1>1, WordNat

LEMMA Operands ==
    ASSUME NEW c, Words(c), NEW r \in Reg
    PROVE  /\ R(r) \in Register /\ R(r) # 9
           /\ c.reg[R(r)] \in U32 /\ c.reg[R(r)] \in Nat /\ Wrap(c.reg[R(r)]) = c.reg[R(r)]
BY Registers, WordNat DEF Words

LEMMA Staying == ASSUME NEW c \in Cpu PROVE Near(c, c)
BY DEF Near

\* The value of a load-value word, in two halves.
LEMMA Halves ==
    ASSUME NEW v \in Nat, NEW h \in Nat \ {0}, v < h * h
    PROVE  /\ v % h \in Nat /\ (v \div h) % h \in Nat /\ v % h < h * h
           /\ ((v % h) - ((v % h) % (h * h))) + ((v \div h) % h) * h + ((v % h) % h) = v
<1>1. PICK q \in Nat, r \in 0..h - 1 : q = v \div h /\ r = v % h /\ v = q * h + r
  BY DivMod
<1>2. q < h
  <2>1. SUFFICES ASSUME q >= h PROVE FALSE
    BY <1>1
  <2>2. q * h >= h * h
    BY <1>1, <2>1
  <2> QED
    BY <1>1, <2>2
<1>3. q % h = q /\ r % h = r
  BY <1>1, <1>2
<1>4. h * h >= h /\ h * h \in Nat \ {0}
  OBVIOUS
<1>5. PICK s \in Nat \ {0} : s = h * h /\ r < s
  BY <1>1, <1>4
<1>6. r % s = r
  BY <1>1, <1>5
<1>7. PICK m \in Nat : m = q * h /\ v = m + r
  BY <1>1
<1>8. (r - (r % s)) + m + (r % h) = v
  <2>1. r - (r % s) = 0
    BY <1>1, <1>6
  <2> QED
    BY <1>1, <1>3, <1>7, <2>1
<1>9. (v \div h) % h = q /\ v % h = r
  BY <1>1, <1>3
<1>10. q \in Nat /\ r \in Nat
  BY <1>1
<1>11. r < h * h
  BY <1>5
<1>12. (r - (r % (h * h))) + q * h + (r % h) = v
  BY <1>5, <1>7, <1>8, Zenon
<1> QED
  BY <1>9, <1>10, <1>11, <1>12, Zenon

LEMMA LoadRegDoes ==
    ASSUME NEW c \in Cpu, NEW a \in Reg, NEW v \in U32, v < HALF * HALF
    PROVE  Yields(c, Run(c, load_reg(a, v)), R(a), v)
<1>1. R(a) \in Register /\ v \in Nat
  BY Registers, WordNat
<1>2. PICK p, l, u : p = R(a) /\ l = v % HALF /\ u = (v \div HALF) % HALF
  OBVIOUS
<1>3. PICK s \in Nat : s = HALF * HALF
  BY ArmJitAssumption
<1>4. l \in Nat /\ u \in Nat /\ l < s /\ (l - (l % s)) + u * HALF + (l % HALF) = v
  <2>1. HALF \in Nat \ {0}
    BY ArmJitAssumption
  <2> QED
    BY <1>1, <1>2, <1>3, <2>1, Halves
<1>5. Wrap(l) = l
  <2>1. l <= v
    <3>1. HALF \in Nat \ {0}
      BY ArmJitAssumption
    <3> QED
      BY <1>1, <1>2, <3>1
  <2>2. l \in U32
    BY <1>4, <2>1, Virt32Assumption DEF U32
  <2> QED
    BY <2>2, WordNat
<1>6. PICK d : d = Set(c, p, l)
  OBVIOUS
<1>7. p \in Register
  BY <1>1, <1>2
<1>8. Writes(c, p, l, d)
  BY <1>4, <1>6, <1>7, Setting
<1>9. d \in Cpu /\ d.reg[p] = l
  BY <1>7, <1>8 DEF Writes
<1>10. PICK e : e = Set(d, p, v)
  OBVIOUS
<1>11. Writes(d, p, v, e)
  BY <1>1, <1>7, <1>9, <1>10, Setting
<1>12. Run(c, load_reg(a, v)) = Exec(Exec(Exec(c, movimm(p, l)), movk(p, u)), nop)
  BY <1>2, RunThree DEF load_reg
<1>13. Exec(c, movimm(p, l)) = d
  BY <1>6, Instructions
<1>14. Exec(d, movk(p, u)) = e
  <2>1. Wrap(d.reg[p]) = l
    BY <1>5, <1>9
  <2>2. Exec(d, movk(p, u)) = Set(d, p, (l - (l % s)) + u * HALF + (l % HALF))
    BY <1>3, <2>1, MovkDoes
  <2> QED
    BY <1>4, <1>10, <2>2
<1>15. Run(c, load_reg(a, v)) = e
  BY <1>12, <1>13, <1>14, Instructions
<1>16. Yields(c, e, p, v)
  BY <1>7, <1>8, <1>11 DEF Writes, Yields
<1> QED
  BY <1>2, <1>15, <1>16

LEMMA CondMoveDoes ==
    ASSUME NEW c \in Cpu, Words(c), NEW a \in Reg, NEW b \in Reg, NEW e \in Reg
    PROVE  Yields(c, Run(c, cond_move(a, b, e)), R(a),
                  IF c.reg[R(e)] # 0 THEN c.reg[R(b)] ELSE c.reg[R(a)])
<1>1. PICK p \in Register, q \in Register, s \in Register : p = R(a) /\ q = R(b) /\ s = R(e)
  BY Registers
<1>2. PICK x \in Nat, y \in Nat, z \in Nat :
         /\ x = c.reg[p] /\ y = c.reg[q] /\ z = c.reg[s]
         /\ Wrap(x) = x /\ Wrap(y) = y /\ Wrap(z) = z
  BY <1>1, Operands
<1>3. PICK d : d = Flagged(c, z = 0)
  OBVIOUS
<1>4. /\ d \in Cpu /\ d.reg = c.reg /\ d.stack = c.stack /\ d.zero = (z = 0)
  BY <1>3 DEF Cpu, Flagged
<1>5. Near(c, d)
  BY <1>4 DEF Near
<1>6. PICK v \in Nat : v = IF z # 0 THEN y ELSE x
  OBVIOUS
<1>7. Run(c, cond_move(a, b, e)) = Exec(Exec(Exec(c, cmp(s)), csel(p, q, p)), nop)
  BY <1>1, RunThree DEF cond_move
<1>8. Exec(c, cmp(s)) = d
  <2>1. Exec(c, cmp(s)) = Flagged(c, Wrap(c.reg[s]) = 0)
    BY Instructions
  <2> QED
    BY <1>2, <1>3, <2>1
<1>9. Exec(d, csel(p, q, p)) = Set(d, p, v)
  <2>1. Exec(d, csel(p, q, p)) = Set(d, p, IF d.zero THEN Wrap(d.reg[p]) ELSE Wrap(d.reg[q]))
    BY Instructions
  <2>2. (IF d.zero THEN Wrap(d.reg[p]) ELSE Wrap(d.reg[q])) = v
    BY <1>2, <1>4, <1>6
  <2> QED
    BY <2>1, <2>2
<1>10. Run(c, cond_move(a, b, e)) = Set(d, p, v)
  BY <1>7, <1>8, <1>9, Instructions
<1> QED
  BY <1>1, <1>2, <1>5, <1>6, <1>10, Leaving

LEMMA AddDoes ==
    ASSUME NEW c \in Cpu, Words(c), NEW a \in Reg, NEW b \in Reg, NEW e \in Reg
    PROVE  Yields(c, Run(c, add_regs(a, b, e)), R(a), Wrap(c.reg[R(b)] + c.reg[R(e)]))
<1>1. PICK p \in Register, q \in Register, s \in Register : p = R(a) /\ q = R(b) /\ s = R(e)
  BY Registers
<1>2. PICK y \in Nat, z \in Nat :
         y = c.reg[q] /\ z = c.reg[s] /\ Wrap(y) = y /\ Wrap(z) = z
  BY <1>1, Operands
<1>3. PICK v \in Nat : v = Wrap(y + z)
  BY WrapNat
<1>4. Run(c, add_regs(a, b, e)) = Exec(Exec(Exec(c, add(p, q, s)), nop), nop)
  BY <1>1, RunThree DEF add_regs
<1>5. Exec(c, add(p, q, s)) = Set(c, p, v)
  BY <1>2, <1>3, Instructions
<1>6. Run(c, add_regs(a, b, e)) = Set(c, p, v)
  BY <1>4, <1>5, Instructions
<1> QED
  BY <1>1, <1>2, <1>3, <1>6, Staying, Leaving

LEMMA MultDoes ==
    ASSUME NEW c \in Cpu, Words(c), NEW a \in Reg, NEW b \in Reg, NEW e \in Reg
    PROVE  Yields(c, Run(c, mult_regs(a, b, e)), R(a), Wrap(c.reg[R(b)] * c.reg[R(e)]))
<1>1. PICK p \in Register, q \in Register, s \in Register : p = R(a) /\ q = R(b) /\ s = R(e)
  BY Registers
<1>2. PICK y \in Nat, z \in Nat :
         y = c.reg[q] /\ z = c.reg[s] /\ Wrap(y) = y /\ Wrap(z) = z
  BY <1>1, Operands
<1>3. PICK m \in Nat : m = y * z
  OBVIOUS
<1>a. PICK v \in Nat : v = Wrap(m)
  BY WrapNat
<1>4. Run(c, mult_regs(a, b, e)) = Exec(Exec(Exec(c, mul(p, q, s)), nop), nop)
  BY <1>1, RunThree DEF mult_regs
<1>5. Exec(c, mul(p, q, s)) = Set(c, p, v)
  BY <1>2, <1>3, <1>a, Instructions
<1>6. Run(c, mult_regs(a, b, e)) = Set(c, p, v)
  BY <1>4, <1>5, Instructions
<1> QED
  BY <1>1, <1>2, <1>3, <1>a, <1>6, Staying, Leaving

LEMMA DivDoes ==
    ASSUME NEW c \in Cpu, Words(c), NEW a \in Reg, NEW b \in Reg, NEW e \in Reg,
           c.reg[R(e)] # 0
    PROVE  Yields(c, Run(c, div_regs(a, b, e)), R(a), c.reg[R(b)] \div c.reg[R(e)])
<1>1. PICK p \in Register, q \in Register, s \in Register : p = R(a) /\ q = R(b) /\ s = R(e)
  BY Registers
<1>2. PICK y \in Nat, z \in Nat \ {0} :
         y = c.reg[q] /\ z = c.reg[s] /\ Wrap(y) = y /\ Wrap(z) = z
  BY <1>1, Operands
<1>3. PICK v \in Nat : v = y \div z
  BY DivMod
<1>4. Run(c, div_regs(a, b, e)) = Exec(Exec(Exec(c, udiv(p, q, s)), nop), nop)
  BY <1>1, RunThree DEF div_regs
<1>5. Exec(c, udiv(p, q, s)) = Set(c, p, v)
  <2>1. Exec(c, udiv(p, q, s))
          = Set(c, p, IF Wrap(c.reg[s]) = 0 THEN 0 ELSE Wrap(c.reg[q]) \div Wrap(c.reg[s]))
    BY Instructions
  <2> QED
    BY <1>2, <1>3, <2>1
<1>6. Run(c, div_regs(a, b, e)) = Set(c, p, v)
  BY <1>4, <1>5, Instructions
<1> QED
  BY <1>1, <1>2, <1>3, <1>6, Staying, Leaving

LEMMA NandDoes ==
    ASSUME NEW c \in Cpu, Words(c), NEW a \in Reg, NEW b \in Reg, NEW e \in Reg
    PROVE  Yields(c, Run(c, nand_regs(a, b, e)), R(a),
                  GB4 - 1 - And(c.reg[R(b)], c.reg[R(e)]))
<1>1. PICK p \in Register, q \in Register, s \in Register : p = R(a) /\ q = R(b) /\ s = R(e)
  BY Registers
<1>2. PICK y \in U32, z \in U32 :
         y = c.reg[q] /\ z = c.reg[s] /\ Wrap(y) = y /\ Wrap(z) = z
  BY <1>1, Operands
<1>3. PICK x \in U32 : x = And(y, z)
  BY ArmJitAssumption
<1>4. x \in Nat /\ Wrap(x) = x
  BY WordNat
<1>5. PICK v \in Nat : v = GB4 - 1 - x
  BY Virt32Assumption DEF U32
<1>6. PICK d : d = Set(c, 9, x)
  OBVIOUS
<1>7. Near(c, d) /\ d.reg[9] = x
  BY <1>4, <1>6, Scratch
<1>8. Run(c, nand_regs(a, b, e)) = Exec(Exec(Exec(c, and(9, q, s)), mvn(p, 9)), nop)
  BY <1>1, RunThree DEF nand_regs
<1>9. Exec(c, and(9, q, s)) = d
  <2>1. Exec(c, and(9, q, s)) = Set(c, 9, And(Wrap(c.reg[q]), Wrap(c.reg[s])))
    BY Instructions
  <2> QED
    BY <1>2, <1>3, <1>6, <2>1
<1>10. Exec(d, mvn(p, 9)) = Set(d, p, v)
  <2>1. Exec(d, mvn(p, 9)) = Set(d, p, GB4 - 1 - Wrap(d.reg[9]))
    BY Instructions
  <2> QED
    BY <1>4, <1>5, <1>7, <2>1
<1>11. Run(c, nand_regs(a, b, e)) = Set(d, p, v)
  BY <1>8, <1>9, <1>10, Instructions
<1> QED
  BY <1>1, <1>2, <1>3, <1>5, <1>7, <1>11, Leaving

\* The address that the 64-bit add leaves in x9, with the index, names a UM word.
LEMMA Addressing ==
    ASSUME NEW c \in Cpu, Words(c), c.reg[28] = USABLE, NEW i \in Reg, NEW k \in Reg
    PROVE  LET d == Exec(c, addx(9, 28, R(i)))
           IN  /\ Near(c, d)
               /\ Target(d, 9, R(k)) = Cell(c.reg[R(i)] + 4 * c.reg[R(k)])
<1>1. PICK q \in Register, s \in Register : q = R(i) /\ s = R(k) /\ s # 9
  BY Operands
<1>2. PICK x \in Nat, y \in Nat : x = c.reg[q] /\ y = c.reg[s] /\ Wrap(y) = y
  BY <1>1, Operands
<1>3. PICK base \in Nat, u \in Nat : base = USABLE /\ u = base + x
  BY ArmJitAssumption DEF USABLE, BOOK_SIZE
<1>4. PICK d : d = Exec(c, addx(9, 28, q))
  OBVIOUS
<1>5. d = Set(c, 9, u)
  BY <1>2, <1>3, <1>4, Instructions
<1>6. Near(c, d) /\ d.reg[9] = u
  BY <1>5, Scratch
<1>7. d.reg[s] = y
  BY <1>1, <1>2, <1>6 DEF Near
<1>8. u + 4 * y - base = x + 4 * y
  BY <1>3
<1>9. Target(d, 9, s) = Cell(x + 4 * y)
  BY <1>2, <1>3, <1>6, <1>7, <1>8 DEF Target
<1> QED
  BY <1>1, <1>2, <1>4, <1>6, <1>9

LEMMA SegLoadDoes ==
    ASSUME NEW c \in Cpu, Words(c), c.reg[28] = USABLE,
           NEW a \in Reg, NEW b \in Reg, NEW e \in Reg,
           NEW v \in Nat, v = get_at(mem, c.reg[R(b)] + 4 * c.reg[R(e)])
    PROVE  Yields(c, Run(c, seg_load(a, b, e)), R(a), v)
<1>1. PICK p \in Register, q \in Register, s \in Register : p = R(a) /\ q = R(b) /\ s = R(e)
  BY Registers
<1>2. PICK d : d = Exec(c, addx(9, 28, q))
  OBVIOUS
<1>3. Near(c, d) /\ Target(d, 9, s) = Cell(c.reg[q] + 4 * c.reg[s])
  BY <1>1, <1>2, Addressing
<1>4. Run(c, seg_load(a, b, e)) = Exec(Exec(Exec(c, addx(9, 28, q)), ldr(p, 9, s)), nop)
  BY <1>1, RunThree DEF seg_load
<1>5. mem[Target(d, 9, s)] = v
  BY <1>1, <1>3 DEF get_at
<1>6. Exec(d, ldr(p, 9, s)) = Set(d, p, v)
  BY <1>5, Instructions
<1>7. Run(c, seg_load(a, b, e)) = Set(d, p, v)
  BY <1>2, <1>4, <1>6, Instructions
<1> QED
  BY <1>1, <1>3, <1>7, Leaving

LEMMA SegStoreDoes ==
    ASSUME NEW c \in Cpu, Words(c), c.reg[28] = USABLE,
           NEW a \in Reg, NEW b \in Reg, NEW e \in Reg
    PROVE  LET ops == seg_store(a, b, e)
               d == Run(c, ops)
           IN  /\ Near(c, d)
               /\ Target(d, ops[2].n, ops[2].m) = Cell(c.reg[R(a)] + 4 * c.reg[R(b)])
               /\ Wrap(c.reg[ops[2].d]) = c.reg[R(e)]
<1>1. PICK q \in Register, s \in Register, p \in Register : q = R(a) /\ s = R(b) /\ p = R(e)
  BY Registers
<1>2. PICK d : d = Exec(c, addx(9, 28, q))
  OBVIOUS
<1>3. Near(c, d) /\ Target(d, 9, s) = Cell(c.reg[q] + 4 * c.reg[s])
  BY <1>1, <1>2, Addressing
<1>4. Run(c, seg_store(a, b, e)) = Exec(Exec(Exec(c, addx(9, 28, q)), str(p, 9, s)), nop)
  BY <1>1, RunThree DEF seg_store
<1>5. Run(c, seg_store(a, b, e)) = d
  BY <1>2, <1>4, Instructions
<1>6. /\ seg_store(a, b, e)[2].n = 9 /\ seg_store(a, b, e)[2].m = s
      /\ seg_store(a, b, e)[2].d = p
  <2>1. seg_store(a, b, e)[2] = str(p, 9, s)
    BY <1>1 DEF seg_store
  <2> QED
    BY <2>1, Fielded DEF str
<1>7. Wrap(c.reg[p]) = c.reg[p]
  BY <1>1, Operands
<1> QED
  BY <1>1, <1>3, <1>5, <1>6, <1>7

-----------------------------------------------------------------------------
\* The stack: what pushing pairs of registers onto it and popping them yields.

Couple == Register \X Register
Both(p) == {p[1], p[2]}

Pushing(c, pairs, s) ==
    /\ s \in Cpu /\ s.reg = c.reg
    /\ Len(s.stack) = Len(c.stack) + Len(pairs)
    /\ \A i \in 1..Len(c.stack) : s.stack[i] = c.stack[i]
    /\ \A i \in 1..Len(pairs) :
          s.stack[Len(c.stack) + i] = << c.reg[pairs[i][1]], c.reg[pairs[i][2]] >>

Popping(c, pairs, s) ==
    /\ s \in Cpu
    /\ s.stack = SubSeq(c.stack, 1, Len(c.stack) - Len(pairs))
    /\ \A i \in 1..Len(pairs) : /\ s.reg[pairs[i][1]] = c.stack[Len(c.stack) + 1 - i][1]
                                /\ s.reg[pairs[i][2]] = c.stack[Len(c.stack) + 1 - i][2]
    /\ \A q \in Register :
          (\A i \in 1..Len(pairs) : q \notin Both(pairs[i])) => s.reg[q] = c.reg[q]

\* No register occurs twice.
Distinct(pairs) ==
    /\ \A i \in 1..Len(pairs) : pairs[i][1] # pairs[i][2]
    /\ \A i, j \in 1..Len(pairs) : Both(pairs[i]) \cap Both(pairs[j]) # {} => i = j

LEMMA CoupleParts == ASSUME NEW p \in Couple PROVE p[1] \in Register /\ p[2] \in Register
BY DEF Couple

LEMMA Pushes ==
    ASSUME NEW c \in Cpu, NEW pairs \in Seq(Couple), NEW s, s = Pushed(c, pairs)
    PROVE  Pushing(c, pairs, s)
<1> DEFINE f == [i \in DOMAIN pairs |-> << c.reg[pairs[i][1]], c.reg[pairs[i][2]] >>]
<1>1. c.stack \in Seq(Nat \X Nat) /\ c.reg \in [Register -> Nat]
  BY DEF Cpu
<1>2. /\ DOMAIN pairs = 1..Len(pairs) /\ Len(pairs) \in Nat
      /\ \A i \in 1..Len(pairs) : pairs[i][1] \in Register /\ pairs[i][2] \in Register
  BY LenProperties, ElementOfSeq, CoupleParts
<1>3. f \in Seq(Nat \X Nat) /\ Len(f) = Len(pairs)
  <2>1. \A i \in 1..Len(pairs) : << c.reg[pairs[i][1]], c.reg[pairs[i][2]] >> \in Nat \X Nat
    BY <1>1, <1>2
  <2> QED
    BY <1>2, <2>1
<1>4. \A i \in 1..Len(pairs) : f[i] = << c.reg[pairs[i][1]], c.reg[pairs[i][2]] >>
  BY <1>2
<1> HIDE DEF f
<1>5. /\ c.stack \o f \in Seq(Nat \X Nat) /\ Len(c.stack \o f) = Len(c.stack) + Len(f)
      /\ \A i \in 1..Len(c.stack) + Len(f) :
            (c.stack \o f)[i] = IF i <= Len(c.stack) THEN c.stack[i] ELSE f[i - Len(c.stack)]
  BY <1>1, <1>3, ConcatProperties
<1>6. s = [c EXCEPT !.stack = c.stack \o f]
  BY DEF Pushed, f
<1>7. s \in Cpu /\ s.reg = c.reg /\ s.stack = c.stack \o f
  BY <1>5, <1>6 DEF Cpu
<1>8. Len(c.stack) \in Nat
  BY <1>1, LenProperties
<1>9. \A i \in 1..Len(c.stack) : s.stack[i] = c.stack[i]
  BY <1>2, <1>3, <1>5, <1>7, <1>8
<1>10. ASSUME NEW i \in 1..Len(pairs)
       PROVE  s.stack[Len(c.stack) + i] = << c.reg[pairs[i][1]], c.reg[pairs[i][2]] >>
  <2>1. /\ Len(c.stack) + i \in 1..Len(c.stack) + Len(f) /\ ~(Len(c.stack) + i <= Len(c.stack))
        /\ (Len(c.stack) + i) - Len(c.stack) = i
    BY <1>2, <1>3, <1>8
  <2>2. s.stack[Len(c.stack) + i] = f[i]
    BY <1>5, <1>7, <2>1
  <2> QED
    BY <1>4, <2>2
<1> QED
  BY <1>3, <1>5, <1>7, <1>9, <1>10 DEF Pushing

\* The pair that a register is popped with, and its place in it.
Popper(c, pairs, q) ==
    LET i == CHOOSE i \in {i \in DOMAIN pairs : q \in {pairs[i][1], pairs[i][2]}} : TRUE
    IN  c.stack[Len(c.stack) + 1 - i][IF pairs[i][1] = q THEN 1 ELSE 2]

LEMMA Poppers ==
    ASSUME NEW c, NEW pairs \in Seq(Couple), Distinct(pairs), NEW i \in 1..Len(pairs)
    PROVE  /\ Popper(c, pairs, pairs[i][1]) = c.stack[Len(c.stack) + 1 - i][1]
           /\ Popper(c, pairs, pairs[i][2]) = c.stack[Len(c.stack) + 1 - i][2]
<1>1. DOMAIN pairs = 1..Len(pairs)
  BY LenProperties
<1>2. ASSUME NEW q \in Both(pairs[i])
      PROVE  Popper(c, pairs, q) = c.stack[Len(c.stack) + 1 - i][IF pairs[i][1] = q THEN 1 ELSE 2]
  <2>1. \A j \in DOMAIN pairs : q \in {pairs[j][1], pairs[j][2]} => j = i
    BY <1>1, <1>2 DEF Distinct, Both
  <2>2. {j \in DOMAIN pairs : q \in {pairs[j][1], pairs[j][2]}} = {i}
    BY <1>1, <1>2, <2>1 DEF Both
  <2>3. (CHOOSE j \in {j \in DOMAIN pairs : q \in {pairs[j][1], pairs[j][2]}} : TRUE) = i
    BY <2>2
  <2> QED
    BY <2>3, Zenon DEF Popper
<1>3. pairs[i][1] # pairs[i][2]
  BY DEF Distinct
<1> QED
  BY <1>2, <1>3 DEF Both

LEMMA PoppedParts ==
    ASSUME NEW c, NEW pairs
    PROVE  Popped(c, pairs) =
             [c EXCEPT !.reg = [q \in Register |->
                          IF {i \in DOMAIN pairs : q \in {pairs[i][1], pairs[i][2]}} = {}
                          THEN c.reg[q] ELSE Popper(c, pairs, q)],
                       !.stack = SubSeq(c.stack, 1, Len(c.stack) - Len(pairs))]
BY Zenon DEF Popped, Popper

LEMMA Pops ==
    ASSUME NEW c \in Cpu, NEW pairs \in Seq(Couple), Len(pairs) <= Len(c.stack),
           Distinct(pairs), NEW s, s = Popped(c, pairs)
    PROVE  Popping(c, pairs, s)
<1>1. PICK n \in Nat, m \in Nat : n = Len(c.stack) /\ m = Len(pairs) /\ m <= n
  BY LenProperties DEF Cpu
<1>2. /\ DOMAIN pairs = 1..m
      /\ \A i \in 1..m : pairs[i][1] \in Register /\ pairs[i][2] \in Register
  BY <1>1, LenProperties, ElementOfSeq, CoupleParts
<1>3. /\ c.stack \in Seq(Nat \X Nat) /\ c.reg \in [Register -> Nat]
      /\ \A i \in 1..n : c.stack[i] \in Nat \X Nat
  BY <1>1, ElementOfSeq DEF Cpu
<1> DEFINE from(q) == {i \in DOMAIN pairs : q \in {pairs[i][1], pairs[i][2]}}
           regs == [q \in Register |-> IF from(q) = {} THEN c.reg[q] ELSE Popper(c, pairs, q)]
           rest == SubSeq(c.stack, 1, n - m)
<1>4. s = [c EXCEPT !.reg = regs, !.stack = rest]
  BY <1>1, PoppedParts, Zenon
<1>5. \A q \in Register : from(q) # {} =>
         \E i \in 1..m : q \in Both(pairs[i])
  BY <1>2 DEF Both
<1>6. \A q \in Register : (\A i \in 1..m : q \notin Both(pairs[i])) => regs[q] = c.reg[q]
  BY <1>5
<1>7. ASSUME NEW i \in 1..m
      PROVE  /\ regs[pairs[i][1]] = c.stack[n + 1 - i][1]
             /\ regs[pairs[i][2]] = c.stack[n + 1 - i][2]
  <2>1. from(pairs[i][1]) # {} /\ from(pairs[i][2]) # {}
    BY <1>2
  <2>2. /\ Popper(c, pairs, pairs[i][1]) = c.stack[n + 1 - i][1]
        /\ Popper(c, pairs, pairs[i][2]) = c.stack[n + 1 - i][2]
    BY <1>1, Poppers
  <2> QED
    BY <1>2, <2>1, <2>2
<1>8. \A q \in Register : regs[q] \in Nat
  <2> SUFFICES ASSUME NEW q \in Register PROVE regs[q] \in Nat
    OBVIOUS
  <2>1. CASE from(q) = {}
    BY <1>3, <2>1
  <2>2. CASE from(q) # {}
    <3>1. PICK i \in 1..m : q = pairs[i][1] \/ q = pairs[i][2]
      BY <1>2, <2>2
    <3>2. n + 1 - i \in 1..n
      BY <1>1
    <3>3. c.stack[n + 1 - i][1] \in Nat /\ c.stack[n + 1 - i][2] \in Nat
      BY <1>3, <3>2
    <3> QED
      BY <1>7, <3>1, <3>3
  <2> QED
    BY <2>1, <2>2
<1>9. regs \in [Register -> Nat]
  BY <1>8
<1>10. rest \in Seq(Nat \X Nat)
  <2>1. \A i \in 1..n - m : c.stack[i] \in Nat \X Nat
    BY <1>1, <1>3
  <2> QED
    BY <1>1, <1>3, <2>1, SubSeqProperties
<1> HIDE DEF regs, rest
<1>11. s \in Cpu /\ s.reg = regs /\ s.stack = rest
  BY <1>4, <1>9, <1>10 DEF Cpu
<1> QED
  BY <1>1, <1>6, <1>7, <1>11 DEF rest, Popping

\* Pairs pushed in one order and popped in the other.
Reverses(rev, pairs) ==
    Len(rev) = Len(pairs) /\ \A i \in 1..Len(pairs) : rev[i] = pairs[Len(pairs) + 1 - i]

Restoring(h, s, pairs, t) ==
    /\ t \in Cpu /\ t.stack = h.stack
    /\ \A i \in 1..Len(pairs) : /\ t.reg[pairs[i][1]] = h.reg[pairs[i][1]]
                                /\ t.reg[pairs[i][2]] = h.reg[pairs[i][2]]
    /\ \A q \in Register :
          (\A i \in 1..Len(pairs) : q \notin Both(pairs[i])) => t.reg[q] = s.reg[q]

LEMMA PushPop ==
    ASSUME NEW h \in Cpu, NEW pairs \in Seq(Couple), NEW rev \in Seq(Couple),
           Reverses(rev, pairs), Distinct(pairs),
           NEW s \in Cpu, s.stack = Pushed(h, pairs).stack,
           NEW t, t = Popped(s, rev)
    PROVE  Restoring(h, s, pairs, t)
<1>1. PICK p : p = Pushed(h, pairs)
  OBVIOUS
<1>2. PICK n \in Nat, m \in Nat : n = Len(h.stack) /\ m = Len(pairs)
  BY LenProperties DEF Cpu
<1>3. /\ p \in Cpu /\ Len(p.stack) = n + m
      /\ \A i \in 1..n : p.stack[i] = h.stack[i]
      /\ \A i \in 1..m : p.stack[n + i] = << h.reg[pairs[i][1]], h.reg[pairs[i][2]] >>
  <2>1. Pushing(h, pairs, p)
    BY <1>1, Pushes
  <2> QED
    BY <1>2, <2>1 DEF Pushing
<1>4. s.stack = p.stack /\ Len(s.stack) = n + m /\ Len(rev) = m /\ Len(rev) <= Len(s.stack)
  BY <1>1, <1>2, <1>3 DEF Reverses
<1>a. \A i \in 1..m : rev[i] = pairs[m + 1 - i]
  BY <1>2 DEF Reverses
<1>5. Distinct(rev)
  <2>1. \A i \in 1..m : m + 1 - i \in 1..m
    BY <1>2
  <2>2. \A i \in 1..m : rev[i][1] # rev[i][2]
    BY <1>a, <1>2, <2>1 DEF Distinct
  <2>3. ASSUME NEW i \in 1..m, NEW j \in 1..m, Both(rev[i]) \cap Both(rev[j]) # {}
        PROVE  i = j
    <3>1. Both(pairs[m + 1 - i]) \cap Both(pairs[m + 1 - j]) # {}
      BY <1>a, <2>3
    <3>2. m + 1 - i = m + 1 - j
      BY <1>2, <2>1, <3>1 DEF Distinct
    <3> QED
      BY <1>2, <3>2
  <2> QED
    BY <1>4, <2>2, <2>3 DEF Distinct
<1>6. /\ t \in Cpu
      /\ t.stack = SubSeq(s.stack, 1, Len(s.stack) - Len(rev))
      /\ \A i \in 1..Len(rev) : /\ t.reg[rev[i][1]] = s.stack[Len(s.stack) + 1 - i][1]
                                /\ t.reg[rev[i][2]] = s.stack[Len(s.stack) + 1 - i][2]
      /\ \A q \in Register :
            (\A i \in 1..Len(rev) : q \notin Both(rev[i])) => t.reg[q] = s.reg[q]
  <2>1. Popping(s, rev, t)
    BY <1>4, <1>5, Pops
  <2> QED
    BY <2>1 DEF Popping
<1>7. t.stack = h.stack
  <2>1. (n + m) - m = n /\ n <= n + m /\ 1 \in 1..n + 1
    BY <1>2
  <2>2. t.stack = SubSeq(p.stack, 1, n)
    BY <1>4, <1>6, <2>1
  <2>3. p.stack \in Seq(Nat \X Nat) /\ h.stack \in Seq(Nat \X Nat)
    BY <1>3 DEF Cpu
  <2>4. \A i \in 1..n : p.stack[i] \in Nat \X Nat
    <3>1. PICK u : u = p.stack
      OBVIOUS
    <3>2. u \in Seq(Nat \X Nat) /\ \A i \in 1..n : i \in 1..Len(u)
      BY <1>2, <1>3, <2>3, <3>1
    <3>3. \A i \in 1..n : u[i] \in Nat \X Nat
      BY <3>2, ElementOfSeq
    <3> QED
      BY <3>1, <3>3
  <2>5. /\ SubSeq(p.stack, 1, n) \in Seq(Nat \X Nat)
        /\ Len(SubSeq(p.stack, 1, n)) = n
        /\ \A i \in 1..n : SubSeq(p.stack, 1, n)[i] = p.stack[i]
    BY <1>2, <1>3, <2>3, <2>4
  <2> QED
    BY <1>2, <1>3, <2>2, <2>3, <2>5, SeqEqual
<1>8. ASSUME NEW i \in 1..m
      PROVE  /\ t.reg[pairs[i][1]] = h.reg[pairs[i][1]]
             /\ t.reg[pairs[i][2]] = h.reg[pairs[i][2]]
  <2>1. PICK j \in 1..m : j = m + 1 - i
    OBVIOUS
  <2>2. m + 1 - j = i
    BY <2>1
  <2>3. (n + m) + 1 - j = n + i
    BY <2>1
  <2>4. rev[j] = pairs[i]
    BY <1>a, <2>2
  <2>5. /\ t.reg[pairs[i][1]] = p.stack[n + i][1]
        /\ t.reg[pairs[i][2]] = p.stack[n + i][2]
    <3>1. j \in 1..Len(rev) /\ Len(s.stack) + 1 - j = n + i
      BY <1>4, <2>3
    <3>2. /\ t.reg[rev[j][1]] = s.stack[Len(s.stack) + 1 - j][1]
          /\ t.reg[rev[j][2]] = s.stack[Len(s.stack) + 1 - j][2]
      BY <1>6, <3>1
    <3> QED
      BY <1>4, <2>4, <3>1, <3>2
  <2>6. PICK x, y : x = h.reg[pairs[i][1]] /\ y = h.reg[pairs[i][2]]
    OBVIOUS
  <2>7. p.stack[n + i] = << x, y >>
    BY <1>3, <2>6
  <2> QED
    BY <2>5, <2>6, <2>7
<1>9. ASSUME NEW q \in Register, \A i \in 1..m : q \notin Both(pairs[i])
      PROVE  t.reg[q] = s.reg[q]
  <2>1. ASSUME NEW i \in 1..m
        PROVE  q \notin Both(rev[i])
    <3>1. m + 1 - i \in 1..m
      BY <1>2
    <3> QED
      BY <1>a, <1>9, <3>1
  <2> QED
    BY <1>4, <1>6, <2>1
<1> QED
  BY <1>2, <1>6, <1>7, <1>8, <1>9 DEF Restoring

-----------------------------------------------------------------------------
\* What a handler keeps across the C function it calls, which leaves what it
\* likes in the volatile registers: all that a chunk relies on.

Spared == 12..15 \cup 19..30

LEMMA Joins ==
    ASSUME NEW S, NEW s \in Seq(S), NEW t \in Seq(S), NEW u \in Seq(S),
           Len(u) = Len(s) + Len(t),
           \A i \in 1..Len(s) : u[i] = s[i],
           \A i \in 1..Len(t) : u[Len(s) + i] = t[i]
    PROVE  s \o t = u
<1>1. /\ s \o t \in Seq(S) /\ Len(s \o t) = Len(s) + Len(t)
      /\ \A i \in 1..Len(s) + Len(t) :
            (s \o t)[i] = IF i <= Len(s) THEN s[i] ELSE t[i - Len(s)]
  BY ConcatProperties
<1>2. PICK n \in Nat, m \in Nat : n = Len(s) /\ m = Len(t)
  BY LenProperties
<1>3. ASSUME NEW i \in 1..n + m
      PROVE  (s \o t)[i] = u[i]
  <2>1. CASE i <= n
    <3>1. i \in 1..n
      BY <1>2, <2>1
    <3> QED
      BY <1>1, <1>2, <2>1, <3>1
  <2>2. CASE ~(i <= n)
    <3>1. PICK k \in 1..m : k = i - n
      <4>1. i - n \in 1..m
        BY <2>2
      <4> QED
        BY <4>1
    <3>2. n + k = i
      BY <1>2, <3>1
    <3>3. (s \o t)[i] = t[k]
      BY <1>1, <1>2, <2>2, <3>1
    <3>4. \A j \in 1..m : u[n + j] = t[j]
      BY <1>2
    <3> QED
      BY <3>2, <3>3, <3>4
  <2> QED
    BY <2>1, <2>2
<1> QED
  BY <1>1, <1>2, <1>3, SeqEqual

LEMMA Joined ==
    /\ \A a, b, c : <<a>> \o <<b, c>> = <<a, b, c>>
    /\ \A a, b, c : <<b, c>> \o <<a>> = <<b, c, a>>
    /\ \A a, d : <<a>> \o <<d>> = <<a, d>>
    /\ \A a, b, c, d : <<a, d>> \o <<b, c>> = <<a, d, b, c>>
    /\ \A a, b, c, d : <<b, c, d>> \o <<a>> = <<b, c, d, a>>
<1>1. ASSUME NEW a, NEW b, NEW c
      PROVE  <<a>> \o <<b, c>> = <<a, b, c>>
  <2>1. PICK S : S = {a, b, c}
    OBVIOUS
  <2>2. <<a>> \in Seq(S) /\ <<b, c>> \in Seq(S) /\ <<a, b, c>> \in Seq(S)
    BY <2>1
  <2>3. PICK s, t, u : s = <<a>> /\ t = <<b, c>> /\ u = <<a, b, c>>
    OBVIOUS
  <2>4. Len(s) = 1 /\ s[1] = a
    BY <2>3
  <2>5. Len(t) = 2 /\ t[1] = b /\ t[2] = c
    BY <2>3
  <2>6. Len(u) = 3 /\ u[1] = a /\ u[2] = b /\ u[3] = c
    BY <2>3
  <2>7. Len(u) = Len(s) + Len(t)
    BY <2>4, <2>5, <2>6
  <2>8. \A i \in 1..Len(s) : u[i] = s[i]
    BY <2>4, <2>6
  <2>9. \A i \in 1..Len(t) : u[Len(s) + i] = t[i]
    BY <2>4, <2>5, <2>6
  <2>10. s \o t = u
    BY <2>2, <2>3, <2>7, <2>8, <2>9, Joins
  <2> QED
    BY <2>3, <2>10
<1>2. ASSUME NEW a, NEW b, NEW c
      PROVE  <<b, c>> \o <<a>> = <<b, c, a>>
  <2>1. PICK S : S = {a, b, c}
    OBVIOUS
  <2>2. <<b, c>> \in Seq(S) /\ <<a>> \in Seq(S) /\ <<b, c, a>> \in Seq(S)
    BY <2>1
  <2>3. PICK s, t, u : s = <<b, c>> /\ t = <<a>> /\ u = <<b, c, a>>
    OBVIOUS
  <2>4. Len(s) = 2 /\ s[1] = b /\ s[2] = c
    BY <2>3
  <2>5. Len(t) = 1 /\ t[1] = a
    BY <2>3
  <2>6. Len(u) = 3 /\ u[1] = b /\ u[2] = c /\ u[3] = a
    BY <2>3
  <2>7. Len(u) = Len(s) + Len(t)
    BY <2>4, <2>5, <2>6
  <2>8. \A i \in 1..Len(s) : u[i] = s[i]
    BY <2>4, <2>6
  <2>9. \A i \in 1..Len(t) : u[Len(s) + i] = t[i]
    BY <2>4, <2>5, <2>6
  <2>10. s \o t = u
    BY <2>2, <2>3, <2>7, <2>8, <2>9, Joins
  <2> QED
    BY <2>3, <2>10
<1>3. ASSUME NEW a, NEW d
      PROVE  <<a>> \o <<d>> = <<a, d>>
  <2>1. PICK S : S = {a, d}
    OBVIOUS
  <2>2. <<a>> \in Seq(S) /\ <<d>> \in Seq(S) /\ <<a, d>> \in Seq(S)
    BY <2>1
  <2>3. PICK s, t, u : s = <<a>> /\ t = <<d>> /\ u = <<a, d>>
    OBVIOUS
  <2>4. Len(s) = 1 /\ s[1] = a
    BY <2>3
  <2>5. Len(t) = 1 /\ t[1] = d
    BY <2>3
  <2>6. Len(u) = 2 /\ u[1] = a /\ u[2] = d
    BY <2>3
  <2>7. Len(u) = Len(s) + Len(t)
    BY <2>4, <2>5, <2>6
  <2>8. \A i \in 1..Len(s) : u[i] = s[i]
    BY <2>4, <2>6
  <2>9. \A i \in 1..Len(t) : u[Len(s) + i] = t[i]
    BY <2>4, <2>5, <2>6
  <2>10. s \o t = u
    BY <2>2, <2>3, <2>7, <2>8, <2>9, Joins
  <2> QED
    BY <2>3, <2>10
<1>4. ASSUME NEW a, NEW b, NEW c, NEW d
      PROVE  <<a, d>> \o <<b, c>> = <<a, d, b, c>>
  <2>1. PICK S : S = {a, b, c, d}
    OBVIOUS
  <2>2. <<a, d>> \in Seq(S) /\ <<b, c>> \in Seq(S) /\ <<a, d, b, c>> \in Seq(S)
    BY <2>1
  <2>3. PICK s, t, u : s = <<a, d>> /\ t = <<b, c>> /\ u = <<a, d, b, c>>
    OBVIOUS
  <2>4. Len(s) = 2 /\ s[1] = a /\ s[2] = d
    BY <2>3
  <2>5. Len(t) = 2 /\ t[1] = b /\ t[2] = c
    BY <2>3
  <2>6. Len(u) = 4 /\ u[1] = a /\ u[2] = d /\ u[3] = b /\ u[4] = c
    BY <2>3
  <2>7. Len(u) = Len(s) + Len(t)
    BY <2>4, <2>5, <2>6
  <2>8. \A i \in 1..Len(s) : u[i] = s[i]
    BY <2>4, <2>6
  <2>9. \A i \in 1..Len(t) : u[Len(s) + i] = t[i]
    BY <2>4, <2>5, <2>6
  <2>10. s \o t = u
    BY <2>2, <2>3, <2>7, <2>8, <2>9, Joins
  <2> QED
    BY <2>3, <2>10
<1>5. ASSUME NEW a, NEW b, NEW c, NEW d
      PROVE  <<b, c, d>> \o <<a>> = <<b, c, d, a>>
  <2>1. PICK S : S = {a, b, c, d}
    OBVIOUS
  <2>2. <<b, c, d>> \in Seq(S) /\ <<a>> \in Seq(S) /\ <<b, c, d, a>> \in Seq(S)
    BY <2>1
  <2>3. PICK s, t, u : s = <<b, c, d>> /\ t = <<a>> /\ u = <<b, c, d, a>>
    OBVIOUS
  <2>4. Len(s) = 3 /\ s[1] = b /\ s[2] = c /\ s[3] = d
    BY <2>3
  <2>5. Len(t) = 1 /\ t[1] = a
    BY <2>3
  <2>6. Len(u) = 4 /\ u[1] = b /\ u[2] = c /\ u[3] = d /\ u[4] = a
    BY <2>3
  <2>7. Len(u) = Len(s) + Len(t)
    BY <2>4, <2>5, <2>6
  <2>8. \A i \in 1..Len(s) : u[i] = s[i]
    BY <2>4, <2>6
  <2>9. \A i \in 1..Len(t) : u[Len(s) + i] = t[i]
    BY <2>4, <2>5, <2>6
  <2>10. s \o t = u
    BY <2>2, <2>3, <2>7, <2>8, <2>9, Joins
  <2> QED
    BY <2>3, <2>10
<1> QED
  BY <1>1, <1>2, <1>3, <1>4, <1>5

\* The pairs cover every register of `kept' that a handler or a C function
\* writes, and no other.
Covers(pairs, kept) ==
    /\ \A i \in 1..Len(pairs) : Both(pairs[i]) \subseteq kept
    /\ \A q \in (Volatile \cup {29}) \cap kept : \E i \in 1..Len(pairs) : q \in Both(pairs[i])

Undoes(rev, pairs) ==
    /\ pairs \in Seq(Couple) /\ rev \in Seq(Couple)
    /\ Reverses(rev, pairs) /\ Distinct(pairs)

LEMMA Gluing ==
    ASSUME host \in {"linux", "darwin"}
    PROVE  LET pairs == function_start \o push_regs
               rev == pop_regs \o function_end
           IN  Undoes(rev, pairs) /\ Covers(pairs, Spared)
<1>1. CASE host = "linux"
  <2>1. PICK pairs, rev : /\ pairs = << <<29, 30>>, <<12, 13>>, <<14, 15>> >>
                          /\ rev = << <<14, 15>>, <<12, 13>>, <<29, 30>> >>
    OBVIOUS
  <2>2. pairs = function_start \o push_regs /\ rev = pop_regs \o function_end
    <3>1. PICK a, b, c : a = <<29, 30>> /\ b = <<12, 13>> /\ c = <<14, 15>>
      OBVIOUS
    <3>2. function_start = <<a>> /\ function_end = <<a>> /\ push_regs = <<b, c>>
      BY <1>1, <3>1 DEF function_start, function_end, push_regs, linux_push_regs
    <3>3. pop_regs = <<c, b>>
      BY <1>1, <3>1 DEF pop_regs, linux_pop_regs
    <3>4. <<a>> \o <<b, c>> = <<a, b, c>>
      BY Joined
    <3>5. <<c, b>> \o <<a>> = <<c, b, a>>
      BY Joined
    <3> QED
      BY <2>1, <3>1, <3>2, <3>3, <3>4, <3>5, Zenon
  <2>3. Undoes(rev, pairs)
    BY <2>1 DEF Undoes, Couple, Register, Reverses, Distinct, Both
  <2>4. Covers(pairs, Spared)
    BY <2>1 DEF Covers, Spared, Volatile, Both
  <2> QED
    BY <2>2, <2>3, <2>4
<1>2. CASE host = "darwin"
  <2>1. PICK pairs, rev : /\ pairs = << <<29, 30>>, <<14, 15>>, <<12, 13>> >>
                          /\ rev = << <<12, 13>>, <<14, 15>>, <<29, 30>> >>
    OBVIOUS
  <2>2. pairs = function_start \o push_regs /\ rev = pop_regs \o function_end
    <3>1. PICK a, b, c : a = <<29, 30>> /\ b = <<14, 15>> /\ c = <<12, 13>>
      OBVIOUS
    <3>2. function_start = <<a>> /\ function_end = <<a>> /\ push_regs = <<b, c>>
      BY <1>2, <3>1 DEF function_start, function_end, push_regs, darwin_push_regs
    <3>3. pop_regs = <<c, b>>
      BY <1>2, <3>1 DEF pop_regs, darwin_pop_regs
    <3>4. <<a>> \o <<b, c>> = <<a, b, c>>
      BY Joined
    <3>5. <<c, b>> \o <<a>> = <<c, b, a>>
      BY Joined
    <3> QED
      BY <2>1, <3>1, <3>2, <3>3, <3>4, <3>5, Zenon
  <2>3. Undoes(rev, pairs)
    BY <2>1 DEF Undoes, Couple, Register, Reverses, Distinct, Both
  <2>4. Covers(pairs, Spared)
    BY <2>1 DEF Covers, Spared, Volatile, Both
  <2> QED
    BY <2>2, <2>3, <2>4
<1> QED
  BY <1>1, <1>2

LEMMA GluingLoad ==
    ASSUME host \in {"linux", "darwin"}
    PROVE  LET pairs == function_start \o << <<9, 10>> >> \o push_regs
               rev == pop_regs \o << <<9, 10>> >> \o function_end
           IN  /\ Undoes(rev, pairs) /\ Covers(pairs, {9, 10} \cup Spared)
               /\ \A i \in 1..Len(pairs) : 27 \notin Both(pairs[i])
<1>1. CASE host = "linux"
  <2>1. PICK pairs, rev : /\ pairs = << <<29, 30>>, <<9, 10>>, <<12, 13>>, <<14, 15>> >>
                          /\ rev = << <<14, 15>>, <<12, 13>>, <<9, 10>>, <<29, 30>> >>
    OBVIOUS
  <2>2. /\ pairs = function_start \o << <<9, 10>> >> \o push_regs
        /\ rev = pop_regs \o << <<9, 10>> >> \o function_end
    <3>1. PICK a, b, c, d : a = <<29, 30>> /\ b = <<12, 13>> /\ c = <<14, 15>> /\ d = <<9, 10>>
      OBVIOUS
    <3>2. function_start = <<a>> /\ function_end = <<a>> /\ push_regs = <<b, c>>
      BY <1>1, <3>1 DEF function_start, function_end, push_regs, linux_push_regs
    <3>3. pop_regs = <<c, b>>
      BY <1>1, <3>1 DEF pop_regs, linux_pop_regs
    <3>4. <<a>> \o <<d>> = <<a, d>> /\ <<a, d>> \o <<b, c>> = <<a, d, b, c>>
      BY Joined
    <3>5. <<c, b>> \o <<d>> = <<c, b, d>> /\ <<c, b, d>> \o <<a>> = <<c, b, d, a>>
      BY Joined
    <3> QED
      BY <2>1, <3>1, <3>2, <3>3, <3>4, <3>5, Zenon
  <2>3. Undoes(rev, pairs)
    BY <2>1 DEF Undoes, Couple, Register, Reverses, Distinct, Both
  <2>4. Covers(pairs, {9, 10} \cup Spared)
    BY <2>1 DEF Covers, Spared, Volatile, Both
  <2>5. \A i \in 1..Len(pairs) : 27 \notin Both(pairs[i])
    BY <2>1 DEF Both
  <2> QED
    BY <2>2, <2>3, <2>4, <2>5
<1>2. CASE host = "darwin"
  <2>1. PICK pairs, rev : /\ pairs = << <<29, 30>>, <<9, 10>>, <<14, 15>>, <<12, 13>> >>
                          /\ rev = << <<12, 13>>, <<14, 15>>, <<9, 10>>, <<29, 30>> >>
    OBVIOUS
  <2>2. /\ pairs = function_start \o << <<9, 10>> >> \o push_regs
        /\ rev = pop_regs \o << <<9, 10>> >> \o function_end
    <3>1. PICK a, b, c, d : a = <<29, 30>> /\ b = <<14, 15>> /\ c = <<12, 13>> /\ d = <<9, 10>>
      OBVIOUS
    <3>2. function_start = <<a>> /\ function_end = <<a>> /\ push_regs = <<b, c>>
      BY <1>2, <3>1 DEF function_start, function_end, push_regs, darwin_push_regs
    <3>3. pop_regs = <<c, b>>
      BY <1>2, <3>1 DEF pop_regs, darwin_pop_regs
    <3>4. <<a>> \o <<d>> = <<a, d>> /\ <<a, d>> \o <<b, c>> = <<a, d, b, c>>
      BY Joined
    <3>5. <<c, b>> \o <<d>> = <<c, b, d>> /\ <<c, b, d>> \o <<a>> = <<c, b, d, a>>
      BY Joined
    <3> QED
      BY <2>1, <3>1, <3>2, <3>3, <3>4, <3>5, Zenon
  <2>3. Undoes(rev, pairs)
    BY <2>1 DEF Undoes, Couple, Register, Reverses, Distinct, Both
  <2>4. Covers(pairs, {9, 10} \cup Spared)
    BY <2>1 DEF Covers, Spared, Volatile, Both
  <2>5. \A i \in 1..Len(pairs) : 27 \notin Both(pairs[i])
    BY <2>1 DEF Both
  <2> QED
    BY <2>2, <2>3, <2>4, <2>5
<1> QED
  BY <1>1, <1>2

\* The C function returns to the handler.
Returning(c, result, t) ==
    /\ t \in Cpu /\ t.stack = c.stack /\ t.reg[0] = result
    /\ \A q \in Register \ Volatile : t.reg[q] = c.reg[q]

LEMMA ReturnsFrom ==
    ASSUME NEW c \in Cpu, NEW result \in Nat, NEW junk \in Nat,
           NEW t, t = returned(c, result, junk)
    PROVE  Returning(c, result, t)
<1>1. c.reg \in [Register -> Nat] /\ 0 \in Register /\ 0 \in Volatile
  BY DEF Cpu, Register, Volatile
<1> DEFINE regs == [q \in Register |-> IF q = 0 THEN result
                                       ELSE IF q \in Volatile THEN junk ELSE c.reg[q]]
<1>2. /\ regs \in [Register -> Nat] /\ regs[0] = result
      /\ \A q \in Register \ Volatile : regs[q] = c.reg[q]
  BY <1>1
<1>3. t = [c EXCEPT !.reg = regs]
  BY DEF returned
<1> HIDE DEF regs
<1>4. t \in Cpu /\ t.stack = c.stack /\ t.reg = regs
  BY <1>2, <1>3 DEF Cpu
<1> QED
  BY <1>2, <1>4 DEF Returning

\* A handler that has called C is back, with a result in x0.
Back(c, d, kept, result) ==
    /\ d \in Cpu /\ d.stack = c.stack /\ d.reg[0] = result
    /\ \A q \in kept : d.reg[q] = c.reg[q]

\* From the push to the pop: s is the CPU before the pop.
LEMMA RoundTrip ==
    ASSUME NEW h \in Cpu, NEW pairs, NEW rev, Undoes(rev, pairs),
           NEW kept, kept \subseteq Register \ {0}, Covers(pairs, kept),
           NEW s \in Cpu, s.stack = Pushed(h, pairs).stack,
           \A q \in (Register \ (Volatile \cup {29})) \cap kept : s.reg[q] = h.reg[q],
           NEW t, t = Popped(s, rev)
    PROVE  Back(h, t, kept, s.reg[0])
<1>1. /\ t \in Cpu /\ t.stack = h.stack
      /\ \A i \in 1..Len(pairs) : /\ t.reg[pairs[i][1]] = h.reg[pairs[i][1]]
                                  /\ t.reg[pairs[i][2]] = h.reg[pairs[i][2]]
      /\ \A q \in Register :
            (\A i \in 1..Len(pairs) : q \notin Both(pairs[i])) => t.reg[q] = s.reg[q]
  <2>1. Restoring(h, s, pairs, t)
    BY PushPop DEF Undoes
  <2> QED
    BY <2>1 DEF Restoring
<1>2. /\ \A i \in 1..Len(pairs) : Both(pairs[i]) \subseteq kept
      /\ \A q \in (Volatile \cup {29}) \cap kept :
            \E i \in 1..Len(pairs) : q \in Both(pairs[i])
  BY DEF Covers
<1>3. t.reg[0] = s.reg[0]
  <2>1. 0 \in Register
    BY DEF Register
  <2> QED
    BY <1>1, <1>2, <2>1
<1>4. ASSUME NEW q \in kept
      PROVE  t.reg[q] = h.reg[q]
  <2>1. CASE \E i \in 1..Len(pairs) : q \in Both(pairs[i])
    BY <1>1, <2>1 DEF Both
  <2>2. CASE \A i \in 1..Len(pairs) : q \notin Both(pairs[i])
    <3>1. q \in (Register \ (Volatile \cup {29})) \cap kept
      BY <1>2, <2>2
    <3> QED
      BY <1>1, <2>2, <3>1
  <2> QED
    BY <2>1, <2>2
<1> QED
  BY <1>1, <1>3, <1>4 DEF Back

\* function_start's x29, with as much on the stack as run ever has.
Depth == 6
LEMMA Framing ==
    ASSUME NEW c \in Cpu, Len(c.stack) <= Depth
    PROVE  Frame(c) \in Nat
<1>1. Len(c.stack) \in Nat
  BY LenProperties DEF Cpu
<1> QED
  BY <1>1, ArmJitAssumption DEF Frame, Depth

LEMMA SparedRegisters == Spared \subseteq Register \ {0} /\ {9, 10} \subseteq Register \ {0}
BY DEF Spared, Register

\* The argument in x1 does not outlive the call that it is for.
LEMMA ArgumentForgotten ==
    ASSUME NEW c \in Cpu, NEW result, NEW junk
    PROVE  returned(given_usable(c), result, junk) = returned(c, result, junk)
<1>1. PICK d : d = given_usable(c)
  OBVIOUS
<1>2. /\ d = [c EXCEPT !.reg = [@ EXCEPT ![1] = c.reg[28]]]
      /\ 1 \in Volatile /\ c.reg \in [Register -> Nat]
  BY <1>1 DEF given_usable, Set, Volatile, Cpu
<1>3. d.stack = c.stack /\ d.zero = c.zero /\ \A q \in Register \ Volatile : d.reg[q] = c.reg[q]
  BY <1>2 DEF Cpu
<1> DEFINE f(s) == [q \in Register |-> IF q = 0 THEN result
                                       ELSE IF q \in Volatile THEN junk ELSE s.reg[q]]
<1>5. f(d) = f(c)
  BY <1>3
<1>6. [d EXCEPT !.reg = f(c)] = [c EXCEPT !.reg = f(c)]
  BY <1>2 DEF Cpu
<1>7. returned(d, result, junk) = [d EXCEPT !.reg = f(d)]
  BY DEF returned
<1>8. returned(c, result, junk) = [c EXCEPT !.reg = f(c)]
  BY DEF returned
<1> QED
  BY <1>1, <1>5, <1>6, <1>7, <1>8

\* On entry to C the machine is a machine.
LEMMA EnteredCpu ==
    ASSUME host \in {"linux", "darwin"}, NEW h \in Cpu, Len(h.stack) <= Depth
    PROVE  entered(h) \in Cpu /\ dup_entered(h) \in Cpu
<1>1. 29 \in Register /\ Frame(h) \in Nat
  BY Framing DEF Register
<1>2. ASSUME NEW pairs \in Seq(Couple)
      PROVE  Set(Pushed(h, pairs), 29, Frame(h)) \in Cpu
  <2>1. PICK p : p = Pushed(h, pairs)
    OBVIOUS
  <2>2. p \in Cpu
    BY <2>1, Pushes DEF Pushing
  <2>3. PICK e : e = Set(p, 29, Frame(h))
    OBVIOUS
  <2>4. e \in Cpu
    BY <1>1, <2>2, <2>3, Setting DEF Writes
  <2> QED
    BY <2>1, <2>3, <2>4
<1>3. PICK pairs : pairs = function_start \o push_regs /\ pairs \in Seq(Couple)
  BY Gluing DEF Undoes
<1>4. PICK four : four = function_start \o << <<9, 10>> >> \o push_regs /\ four \in Seq(Couple)
  BY GluingLoad DEF Undoes
<1>5. entered(h) \in Cpu
  BY <1>2, <1>3 DEF entered
<1>6. dup_entered(h) \in Cpu
  BY <1>2, <1>4 DEF dup_entered
<1> QED
  BY <1>5, <1>6

\* A handler that saves x12 to x15.
LEMMA HandlerReturns ==
    ASSUME host \in {"linux", "darwin"}, NEW h \in Cpu, Len(h.stack) <= Depth,
           NEW result \in Nat, NEW junk \in Nat,
           NEW t, t = exited(returned(entered(h), result, junk))
    PROVE  Back(h, t, Spared, result)
<1>1. PICK pairs, rev : pairs = function_start \o push_regs /\ rev = pop_regs \o function_end
  OBVIOUS
<1>2. Undoes(rev, pairs) /\ Covers(pairs, Spared) /\ pairs \in Seq(Couple)
  BY <1>1, Gluing DEF Undoes
<1>3. PICK p : p = Pushed(h, pairs)
  OBVIOUS
<1>4. p \in Cpu /\ p.reg = h.reg
  <2>1. Pushing(h, pairs, p)
    BY <1>2, <1>3, Pushes
  <2> QED
    BY <2>1 DEF Pushing
<1>5. PICK e : e = Set(p, 29, Frame(h))
  OBVIOUS
<1>6. e = entered(h)
  BY <1>1, <1>3, <1>5 DEF entered
<1>7. /\ e \in Cpu /\ e.stack = p.stack
      /\ \A q \in Register \ {29} : e.reg[q] = h.reg[q]
  <2>1. 29 \in Register /\ Frame(h) \in Nat
    BY Framing DEF Register
  <2>2. Writes(p, 29, Frame(h), e)
    BY <1>4, <1>5, <2>1, Setting
  <2> QED
    BY <1>4, <2>2 DEF Writes
<1>8. PICK u : u = returned(e, result, junk)
  OBVIOUS
<1>9. /\ u \in Cpu /\ u.stack = e.stack /\ u.reg[0] = result
      /\ \A q \in Register \ Volatile : u.reg[q] = e.reg[q]
  <2>1. Returning(e, result, u)
    BY <1>7, <1>8, ReturnsFrom
  <2> QED
    BY <2>1 DEF Returning
<1>10. t = Popped(u, rev)
  BY <1>1, <1>6, <1>8 DEF exited
<1>11. \A q \in (Register \ (Volatile \cup {29})) \cap Spared : u.reg[q] = h.reg[q]
  BY <1>7, <1>9
<1>12. u.stack = Pushed(h, pairs).stack
  BY <1>3, <1>7, <1>9
<1>13. Back(h, t, Spared, u.reg[0])
  BY <1>2, <1>9, <1>10, <1>11, <1>12, SparedRegisters, RoundTrip
<1> QED
  BY <1>9, <1>13

\* .dup saves x9 and x10 as well, and takes the new region to x27.
Reloaded(c, d, region) ==
    /\ Back(c, d, {9, 10} \cup (Spared \ {27}), region)
    /\ d.reg[27] = region

LEMMA LoadReturns ==
    ASSUME host \in {"linux", "darwin"}, NEW h \in Cpu, Len(h.stack) <= Depth,
           NEW result, result \in Nat, NEW junk, junk \in Nat,
           NEW back, back = returned(dup_entered(h), result, junk),
           NEW t, t = dup_exited(Set(back, 27, back.reg[0]))
    PROVE  Reloaded(h, t, result)
<1>1. PICK pairs, rev : /\ pairs = function_start \o << <<9, 10>> >> \o push_regs
                        /\ rev = pop_regs \o << <<9, 10>> >> \o function_end
  OBVIOUS
<1>2. PICK kept : kept = {9, 10} \cup Spared
  OBVIOUS
<1>3. Undoes(rev, pairs) /\ Covers(pairs, kept) /\ pairs \in Seq(Couple)
  BY <1>1, <1>2, GluingLoad DEF Undoes
<1>4. PICK p : p = Pushed(h, pairs)
  OBVIOUS
<1>5. p \in Cpu /\ p.reg = h.reg
  <2>1. Pushing(h, pairs, p)
    BY <1>3, <1>4, Pushes
  <2> QED
    BY <2>1 DEF Pushing
<1>6. PICK e : e = Set(p, 29, Frame(h))
  OBVIOUS
<1>7. e = dup_entered(h)
  BY <1>1, <1>4, <1>6 DEF dup_entered
<1>8. /\ e \in Cpu /\ e.stack = p.stack
      /\ \A q \in Register \ {29} : e.reg[q] = h.reg[q]
  <2>1. 29 \in Register /\ Frame(h) \in Nat
    BY Framing DEF Register
  <2>2. Writes(p, 29, Frame(h), e)
    BY <1>5, <1>6, <2>1, Setting
  <2> QED
    BY <1>5, <2>2 DEF Writes
<1>9. /\ back \in Cpu /\ back.stack = e.stack /\ back.reg[0] = result
      /\ \A q \in Register \ Volatile : back.reg[q] = e.reg[q]
  <2>1. Returning(e, result, back)
    BY <1>7, <1>8, ReturnsFrom
  <2> QED
    BY <2>1 DEF Returning
<1>10. PICK u : u = Set(back, 27, result)
  OBVIOUS
<1>11. /\ u \in Cpu /\ u.stack = back.stack /\ u.reg[0] = result /\ u.reg[27] = result
       /\ \A q \in Register \ {27} : u.reg[q] = back.reg[q]
  <2>1. 27 \in Register /\ 0 \in Register \ {27}
    BY DEF Register
  <2>2. Writes(back, 27, result, u)
    BY <1>9, <1>10, <2>1, Setting
  <2> QED
    BY <1>9, <2>1, <2>2 DEF Writes
<1>12. t = Popped(u, rev)
  BY <1>1, <1>9, <1>10 DEF dup_exited
<1>13. u.stack = Pushed(h, pairs).stack
  BY <1>4, <1>8, <1>9, <1>11
<1>14. PICK rest : rest = kept \ {27}
  OBVIOUS
<1>15. \A q \in (Register \ (Volatile \cup {29})) \cap rest : u.reg[q] = h.reg[q]
  BY <1>8, <1>9, <1>11, <1>14
<1>16. Restoring(h, u, pairs, t)
  BY <1>3, <1>11, <1>12, <1>13, PushPop DEF Undoes
<1>17. \A i \in 1..Len(pairs) : 27 \notin Both(pairs[i])
  BY <1>1, GluingLoad
<1>18. t.reg[27] = result
  <2>1. 27 \in Register
    BY DEF Register
  <2> QED
    BY <1>11, <1>16, <1>17, <2>1 DEF Restoring
<1>19. Covers(pairs, rest)
  <2>1. \A i \in 1..Len(pairs) : Both(pairs[i]) \subseteq rest
    BY <1>3, <1>14, <1>17 DEF Covers
  <2> QED
    BY <1>3, <1>14, <2>1 DEF Covers
<1>20. rest \subseteq Register \ {0}
  BY <1>2, <1>14, SparedRegisters
<1>21. Back(h, t, rest, u.reg[0])
  BY <1>3, <1>11, <1>12, <1>13, <1>15, <1>19, <1>20, RoundTrip
<1>22. rest = {9, 10} \cup (Spared \ {27})
  BY <1>2, <1>14
<1> QED
  BY <1>11, <1>18, <1>21, <1>22 DEF Reloaded

-----------------------------------------------------------------------------
\* run saves its caller's registers, sets up those that the chunks rely on, and
\* gives the caller's back at its end.

Saved == << <<19, 20>>, <<21, 22>>, <<23, 24>>, <<25, 26>>, <<27, 28>> >>
RunPairs == << <<29, 30>>, <<19, 20>>, <<21, 22>>, <<23, 24>>, <<25, 26>>, <<27, 28>> >>
RunPops == << <<27, 28>>, <<25, 26>>, <<23, 24>>, <<21, 22>>, <<19, 20>>, <<29, 30>> >>

LEMMA JoinedSix ==
    /\ \A a, b, c, d, e, f : <<a>> \o <<b, c, d, e, f>> = <<a, b, c, d, e, f>>
    /\ \A a, b, c, d, e, f : <<f, e, d, c, b>> \o <<a>> = <<f, e, d, c, b, a>>
<1>1. ASSUME NEW a, NEW b, NEW c, NEW d, NEW e, NEW f
      PROVE  <<a>> \o <<b, c, d, e, f>> = <<a, b, c, d, e, f>>
  <2>1. PICK S : S = {a, b, c, d, e, f}
    OBVIOUS
  <2>2. <<a>> \in Seq(S) /\ <<b, c, d, e, f>> \in Seq(S) /\ <<a, b, c, d, e, f>> \in Seq(S)
    BY <2>1
  <2>3. PICK s, t, u : s = <<a>> /\ t = <<b, c, d, e, f>> /\ u = <<a, b, c, d, e, f>>
    OBVIOUS
  <2>4. Len(s) = 1 /\ s[1] = a
    BY <2>3
  <2>5. Len(t) = 5 /\ t[1] = b /\ t[2] = c /\ t[3] = d /\ t[4] = e /\ t[5] = f
    BY <2>3
  <2>6. Len(u) = 6 /\ u[1] = a /\ u[2] = b /\ u[3] = c /\ u[4] = d /\ u[5] = e /\ u[6] = f
    BY <2>3
  <2>7. Len(u) = Len(s) + Len(t)
    BY <2>4, <2>5, <2>6
  <2>8. \A i \in 1..Len(s) : u[i] = s[i]
    BY <2>4, <2>6
  <2>9. \A i \in 1..Len(t) : u[Len(s) + i] = t[i]
    BY <2>4, <2>5, <2>6
  <2>10. s \o t = u
    BY <2>2, <2>3, <2>7, <2>8, <2>9, Joins
  <2> QED
    BY <2>3, <2>10
<1>2. ASSUME NEW a, NEW b, NEW c, NEW d, NEW e, NEW f
      PROVE  <<f, e, d, c, b>> \o <<a>> = <<f, e, d, c, b, a>>
  <2>1. PICK S : S = {a, b, c, d, e, f}
    OBVIOUS
  <2>2. <<f, e, d, c, b>> \in Seq(S) /\ <<a>> \in Seq(S) /\ <<f, e, d, c, b, a>> \in Seq(S)
    BY <2>1
  <2>3. PICK s, t, u : s = <<f, e, d, c, b>> /\ t = <<a>> /\ u = <<f, e, d, c, b, a>>
    OBVIOUS
  <2>4. Len(s) = 5 /\ s[1] = f /\ s[2] = e /\ s[3] = d /\ s[4] = c /\ s[5] = b
    BY <2>3
  <2>5. Len(t) = 1 /\ t[1] = a
    BY <2>3
  <2>6. Len(u) = 6 /\ u[1] = f /\ u[2] = e /\ u[3] = d /\ u[4] = c /\ u[5] = b /\ u[6] = a
    BY <2>3
  <2>7. Len(u) = Len(s) + Len(t)
    BY <2>4, <2>5, <2>6
  <2>8. \A i \in 1..Len(s) : u[i] = s[i]
    BY <2>4, <2>6
  <2>9. \A i \in 1..Len(t) : u[Len(s) + i] = t[i]
    BY <2>4, <2>5, <2>6
  <2>10. s \o t = u
    BY <2>2, <2>3, <2>7, <2>8, <2>9, Joins
  <2> QED
    BY <2>3, <2>10
<1> QED
  BY <1>1, <1>2

LEMMA RunUndoes ==
    /\ Undoes(RunPops, RunPairs) /\ Covers(RunPairs, 19..30) /\ Len(RunPairs) = Depth
    /\ \A q \in 19..30 : \E i \in 1..Len(RunPairs) : q \in Both(RunPairs[i])
<1>1. Undoes(RunPops, RunPairs)
  BY DEF RunPops, RunPairs, Undoes, Couple, Register, Reverses, Distinct, Both
<1>2. \A i \in 1..Len(RunPairs) : Both(RunPairs[i]) \subseteq 19..30
  BY DEF RunPairs, Both
<1>3. ASSUME NEW q \in 19..30
      PROVE  \E i \in 1..Len(RunPairs) : q \in Both(RunPairs[i])
  <2>1. Len(RunPairs) = 6
    BY DEF RunPairs
  <2>2. /\ Both(RunPairs[1]) = {29, 30} /\ Both(RunPairs[2]) = {19, 20}
        /\ Both(RunPairs[3]) = {21, 22} /\ Both(RunPairs[4]) = {23, 24}
        /\ Both(RunPairs[5]) = {25, 26} /\ Both(RunPairs[6]) = {27, 28}
    BY DEF RunPairs, Both
  <2>3. \/ q \in {29, 30} \/ q \in {19, 20} \/ q \in {21, 22} \/ q \in {23, 24}
        \/ q \in {25, 26} \/ q \in {27, 28}
    BY <1>3
  <2>4. {1, 2, 3, 4, 5, 6} \subseteq 1..Len(RunPairs)
    BY <2>1
  <2> QED
    BY <2>2, <2>3, <2>4
<1>4. Len(RunPairs) = Depth
  BY DEF RunPairs, Depth
<1> QED
  BY <1>1, <1>2, <1>3, <1>4 DEF Covers

LEMMA RegionNat == ASSUME NEW n \in Nat PROVE Region(n) \in Nat
BY Virt32Assumption DEF Region, CHUNK

LEMMA LabelNat == \A x \in Labels \cup {Caller(30)} : x \in Nat /\ x # 0 /\ x < Region(1)
<1>1. Region(1) \in Nat
  BY RegionNat
<1> QED
  BY <1>1, ArmJitAssumption

LEMMA CallerIsCpu ==
    /\ Called \in Cpu /\ Called.stack = <<>>
    /\ Called.reg[0] = Region(1) /\ Called.reg[1] = USABLE
    /\ \A q \in Register \ {0, 1} : Called.reg[q] = Caller(q)
<1>1. Region(1) \in Nat /\ USABLE \in Nat
  BY RegionNat, ArmJitAssumption DEF USABLE, BOOK_SIZE
<1>2. \A q \in Register : Caller(q) \in Nat
  BY ArmJitAssumption
<1> DEFINE regs == [q \in Register |-> CASE q = 0 -> Region(1)
                                         [] q = 1 -> USABLE
                                         [] OTHER -> Caller(q)]
<1>3. regs \in [Register -> Nat]
  BY <1>1, <1>2
<1>4. /\ regs[0] = Region(1) /\ regs[1] = USABLE
      /\ \A q \in Register \ {0, 1} : regs[q] = Caller(q)
  <2>1. 0 \in Register /\ 1 \in Register
    BY DEF Register
  <2> QED
    BY <2>1
<1> HIDE DEF regs
<1>5. Called = [reg |-> regs, zero |-> FALSE, stack |-> <<>>]
  BY DEF Called, regs
<1>6. <<>> \in Seq(Nat \X Nat)
  OBVIOUS
<1> QED
  BY <1>3, <1>4, <1>5, <1>6 DEF Cpu

LEMMA Calling ==
    LET c == run_entered(Called)
    IN  /\ c \in Cpu /\ c.stack = Pushed(Called, RunPairs).stack /\ Len(c.stack) = Depth
        /\ c.reg[29] = STACK - 16
        /\ \A q \in Register \ {29} : c.reg[q] = Called.reg[q]
<1>1. PICK p, c : p = Pushed(Called, RunPairs) /\ c = run_entered(Called)
  OBVIOUS
<1>2. Called \in Cpu /\ Len(Called.stack) = 0
  BY CallerIsCpu
<1>3. RunPairs \in Seq(Couple) /\ Len(RunPairs) = 6
  BY RunUndoes DEF Undoes, Depth
<1>4. p \in Cpu /\ p.reg = Called.reg /\ Len(p.stack) = 6
  <2>1. Pushing(Called, RunPairs, p)
    BY <1>1, <1>2, <1>3, Pushes
  <2> QED
    BY <1>2, <1>3, <2>1 DEF Pushing
<1>5. Frame(Called) = STACK - 16 /\ Frame(Called) \in Nat
  BY <1>2, ArmJitAssumption DEF Frame
<1>6. c = Set(p, 29, Frame(Called))
  <2>1. function_start \o Saved = RunPairs
    <3>1. PICK a, b, d, e, f, g :
             /\ a = <<29, 30>> /\ b = <<19, 20>> /\ d = <<21, 22>> /\ e = <<23, 24>>
             /\ f = <<25, 26>> /\ g = <<27, 28>>
      OBVIOUS
    <3>2. <<a>> \o <<b, d, e, f, g>> = <<a, b, d, e, f, g>>
      BY JoinedSix
    <3> QED
      BY <3>1, <3>2, Zenon DEF function_start, Saved, RunPairs
  <2> QED
    BY <1>1, <2>1 DEF run_entered, Saved
<1>7. 29 \in Register
  BY DEF Register
<1>8. Writes(p, 29, Frame(Called), c)
  BY <1>4, <1>5, <1>6, <1>7, Setting
<1> QED
  BY <1>1, <1>4, <1>5, <1>7, <1>8 DEF Writes, Depth

LEMMA Starting ==
    /\ started \in Cpu /\ started.stack = run_entered(Called).stack
    /\ started.reg[27] = Region(1) /\ started.reg[28] = USABLE
    /\ started.reg[15] = large_op /\ started.reg[14] = OP_DUPLICATE
    /\ started.reg[13] = handle_x13 /\ started.reg[12] = handle_map
    /\ started.reg[10] = 0 /\ started.reg[29] = STACK - 16
    /\ \A q \in 19..26 : started.reg[q] = 0
<1>1. PICK c : c = run_entered(Called)
  OBVIOUS
<1>2. /\ c \in Cpu /\ c.reg[29] = STACK - 16
      /\ c.reg[0] = Region(1) /\ c.reg[1] = USABLE
  <2>1. 0 \in Register \ {29} /\ 1 \in Register \ {29}
    BY DEF Register
  <2> QED
    BY <1>1, <2>1, Calling, CallerIsCpu
<1> DEFINE regs == [q \in Register |-> CASE q \in 19..26 -> 0
                                                [] q = 27 -> c.reg[0]
                                                [] q = 28 -> c.reg[1]
                                                [] q = 15 -> large_op
                                                [] q = 14 -> OP_DUPLICATE
                                                [] q = 13 -> handle_x13
                                                [] q = 12 -> handle_map
                                                [] q = 10 -> 0
                                                [] OTHER -> c.reg[q]]
<1>3. started = [c EXCEPT !.reg = regs]
  BY <1>1 DEF started
<1>4. /\ large_op \in Nat /\ handle_x13 \in Nat /\ handle_map \in Nat /\ OP_DUPLICATE \in Nat
  BY LabelNat DEF Labels, OP_DUPLICATE
<1>5. \A q \in Register : c.reg[q] \in Nat
  BY <1>2 DEF Cpu
<1>6. c.reg[0] \in Nat /\ c.reg[1] \in Nat
  BY <1>5 DEF Register
<1>7. regs \in [Register -> Nat]
  BY <1>4, <1>5, <1>6
<1>8. \A q \in 19..26 : regs[q] = 0
  BY DEF Register
<1>9. regs[27] = c.reg[0] /\ regs[28] = c.reg[1] /\ regs[29] = c.reg[29] /\ regs[10] = 0
  BY DEF Register
<1>10. /\ regs[15] = large_op /\ regs[14] = OP_DUPLICATE
       /\ regs[13] = handle_x13 /\ regs[12] = handle_map
  BY DEF Register
<1> HIDE DEF regs
<1>11. started \in Cpu /\ started.stack = c.stack /\ started.reg = regs
  BY <1>2, <1>3, <1>7 DEF Cpu
<1> QED
  BY <1>1, <1>2, <1>8, <1>9, <1>10, <1>11

LEMMA Restored ==
    ASSUME NEW c \in Cpu, c.stack = run_entered(Called).stack, NEW t, t = done(c)
    PROVE  /\ t \in Cpu /\ t.stack = <<>> /\ t.reg[30] = Caller(30)
           /\ \A q \in Register \ Volatile : t.reg[q] = Caller(q)
<1>1. t = Popped(c, RunPops)
  <2>1. << <<27, 28>>, <<25, 26>>, <<23, 24>>, <<21, 22>>, <<19, 20>> >> \o function_end = RunPops
    <3>1. PICK a, b, d, e, f, g :
             /\ a = <<29, 30>> /\ b = <<19, 20>> /\ d = <<21, 22>> /\ e = <<23, 24>>
             /\ f = <<25, 26>> /\ g = <<27, 28>>
      OBVIOUS
    <3>2. <<g, f, e, d, b>> \o <<a>> = <<g, f, e, d, b, a>>
      BY JoinedSix
    <3> QED
      BY <3>1, <3>2, Zenon DEF function_end, RunPops
  <2> QED
    BY <2>1 DEF done
<1>2. c.stack = Pushed(Called, RunPairs).stack
  BY Calling
<1>3. Restoring(Called, c, RunPairs, t)
  BY <1>1, <1>2, CallerIsCpu, RunUndoes, PushPop DEF Undoes
<1>4. ASSUME NEW q \in 19..30
      PROVE  t.reg[q] = Caller(q)
  <2>1. PICK i \in 1..Len(RunPairs) : q \in Both(RunPairs[i])
    BY RunUndoes
  <2>2. t.reg[q] = Called.reg[q]
    BY <1>3, <2>1 DEF Restoring, Both
  <2>3. q \in Register \ {0, 1}
    BY DEF Register
  <2> QED
    BY <2>2, <2>3, CallerIsCpu
<1>5. t \in Cpu /\ t.stack = <<>>
  BY <1>3, CallerIsCpu DEF Restoring
<1>6. 30 \in 19..30 /\ Register \ Volatile \subseteq 19..30
  BY DEF Register, Volatile
<1> QED
  BY <1>4, <1>5, <1>6

\* The label `loop' computes the address of a chunk.
Jumped(c, v) == [c EXCEPT !.reg[9] = CHUNK, !.reg[0] = v]

LEMMA Loops ==
    ASSUME NEW c \in Cpu, NEW v, v \in Nat,
           NEW t, t = Jumped(c, v)
    PROVE  /\ t \in Cpu /\ t.stack = c.stack /\ t.reg[0] = v
           /\ \A q \in Register \ {0, 9} : t.reg[q] = c.reg[q]
<1>1. 0 \in Register /\ 9 \in Register /\ CHUNK \in Nat
  BY DEF Register, CHUNK
<1>2. PICK d : d = Set(c, 9, CHUNK)
  OBVIOUS
<1>3. t = Set(d, 0, v)
  BY <1>2 DEF Set, Jumped
<1>4. Writes(c, 9, CHUNK, d)
  BY <1>1, <1>2, Setting
<1>5. d \in Cpu
  BY <1>4 DEF Writes
<1>6. Writes(d, 0, v, t)
  BY <1>1, <1>3, <1>5, Setting
<1> QED
  BY <1>1, <1>4, <1>6 DEF Writes

-----------------------------------------------------------------------------
\* The instructions of a chunk: which of them leave it, and what is before and
\* behind those.

LEMMA Slice ==
    ASSUME NEW S, NEW s \in Seq(S), NEW m \in Nat, NEW n \in Nat,
           1 <= m, m <= n, n <= Len(s),
           NEW t \in Seq(S), Len(t) = n - m + 1,
           \A i \in 1..n - m + 1 : t[i] = s[m + i - 1]
    PROVE  SubSeq(s, m, n) = t
<1>1. Len(s) \in Nat
  BY LenProperties
<1>2. m \in 1..Len(s) + 1 /\ n \in m - 1..Len(s) /\ n - m + 1 \in Nat
  BY <1>1
<1>3. /\ SubSeq(s, m, n) \in Seq(S)
      /\ Len(SubSeq(s, m, n)) = IF m <= n THEN n - m + 1 ELSE 0
      /\ \A i \in 1..n - m + 1 : SubSeq(s, m, n)[i] = s[m + i - 1]
  BY <1>2, SubSeqProperties
<1>4. Len(SubSeq(s, m, n)) = n - m + 1
  BY <1>3
<1> QED
  BY <1>3, <1>4, SeqEqual

LEMMA SlicesOfThree ==
    ASSUME NEW o, NEW p, NEW q, NEW ops, ops = <<o, p, q>>
    PROVE  /\ SubSeq(ops, 1, 3) = <<o, p, q>>
           /\ SubSeq(ops, 1, 2) = <<o, p>>
           /\ SubSeq(ops, 1, 1) = <<o>>
           /\ SubSeq(ops, 3, 3) = <<q>>
           /\ Len(ops) = 3 /\ DOMAIN ops = 1..3
           /\ ops[1] = o /\ ops[2] = p /\ ops[3] = q
<1>1. PICK S : S = {o, p, q}
  OBVIOUS
<1>2. <<o, p, q>> \in Seq(S) /\ <<o, p>> \in Seq(S) /\ <<o>> \in Seq(S) /\ <<q>> \in Seq(S)
  BY <1>1
<1>3. /\ ops \in Seq(S) /\ Len(ops) = 3 /\ DOMAIN ops = 1..3
      /\ ops[1] = o /\ ops[2] = p /\ ops[3] = q
  BY <1>2
<1>4. 1 \in Nat /\ 2 \in Nat /\ 3 \in Nat
  OBVIOUS
<1>5. SubSeq(ops, 1, 3) = <<o, p, q>>
  <2>1. PICK t : t = <<o, p, q>>
    OBVIOUS
  <2>2. t \in Seq(S)
    BY <1>2, <2>1
  <2>3. 1 <= 3 /\ 1 <= 1 /\ 3 <= Len(ops) /\ Len(t) = 3 - 1 + 1
    BY <1>3, <2>1
  <2>4. \A i \in 1..3 - 1 + 1 : t[i] = ops[1 + i - 1]
    BY <1>3, <2>1
  <2>5. SubSeq(ops, 1, 3) = t
    BY <1>3, <1>4, <2>2, <2>3, <2>4, Slice, Zenon
  <2> QED
    BY <2>1, <2>5
<1>6. SubSeq(ops, 1, 2) = <<o, p>>
  <2>1. PICK t : t = <<o, p>>
    OBVIOUS
  <2>2. t \in Seq(S)
    BY <1>2, <2>1
  <2>3. 1 <= 2 /\ 1 <= 1 /\ 2 <= Len(ops) /\ Len(t) = 2 - 1 + 1
    BY <1>3, <2>1
  <2>4. \A i \in 1..2 - 1 + 1 : t[i] = ops[1 + i - 1]
    BY <1>3, <2>1
  <2>5. SubSeq(ops, 1, 2) = t
    BY <1>3, <1>4, <2>2, <2>3, <2>4, Slice, Zenon
  <2> QED
    BY <2>1, <2>5
<1>7. SubSeq(ops, 1, 1) = <<o>>
  <2>1. PICK t : t = <<o>>
    OBVIOUS
  <2>2. t \in Seq(S)
    BY <1>2, <2>1
  <2>3. 1 <= 1 /\ 1 <= 1 /\ 1 <= Len(ops) /\ Len(t) = 1 - 1 + 1
    BY <1>3, <2>1
  <2>4. \A i \in 1..1 - 1 + 1 : t[i] = ops[1 + i - 1]
    BY <1>3, <2>1
  <2>5. SubSeq(ops, 1, 1) = t
    BY <1>3, <1>4, <2>2, <2>3, <2>4, Slice, Zenon
  <2> QED
    BY <2>1, <2>5
<1>8. SubSeq(ops, 3, 3) = <<q>>
  <2>1. PICK t : t = <<q>>
    OBVIOUS
  <2>2. t \in Seq(S)
    BY <1>2, <2>1
  <2>3. 3 <= 3 /\ 1 <= 3 /\ 3 <= Len(ops) /\ Len(t) = 3 - 3 + 1
    BY <1>3, <2>1
  <2>4. \A i \in 1..3 - 3 + 1 : t[i] = ops[3 + i - 1]
    BY <1>3, <2>1
  <2>5. SubSeq(ops, 3, 3) = t
    BY <1>3, <1>4, <2>2, <2>3, <2>4, Slice, Zenon
  <2> QED
    BY <2>1, <2>5
<1> QED
  BY <1>3, <1>5, <1>6, <1>7, <1>8

LEMMA SlicesOfTwo ==
    ASSUME NEW o, NEW p, NEW ops, ops = <<o, p>>
    PROVE  /\ SubSeq(ops, 1, 2) = <<o, p>>
           /\ SubSeq(ops, 1, 1) = <<o>>
           /\ Len(ops) = 2 /\ DOMAIN ops = 1..2
           /\ ops[1] = o /\ ops[2] = p
<1>1. PICK S : S = {o, p}
  OBVIOUS
<1>2. <<o, p>> \in Seq(S) /\ <<o>> \in Seq(S)
  BY <1>1
<1>3. /\ ops \in Seq(S) /\ Len(ops) = 2 /\ DOMAIN ops = 1..2
      /\ ops[1] = o /\ ops[2] = p
  BY <1>2
<1>4. 1 \in Nat /\ 2 \in Nat /\ 3 \in Nat
  OBVIOUS
<1>5. SubSeq(ops, 1, 2) = <<o, p>>
  <2>1. PICK t : t = <<o, p>>
    OBVIOUS
  <2>2. t \in Seq(S)
    BY <1>2, <2>1
  <2>3. 1 <= 2 /\ 1 <= 1 /\ 2 <= Len(ops) /\ Len(t) = 2 - 1 + 1
    BY <1>3, <2>1
  <2>4. \A i \in 1..2 - 1 + 1 : t[i] = ops[1 + i - 1]
    BY <1>3, <2>1
  <2>5. SubSeq(ops, 1, 2) = t
    BY <1>3, <1>4, <2>2, <2>3, <2>4, Slice, Zenon
  <2> QED
    BY <2>1, <2>5
<1>6. SubSeq(ops, 1, 1) = <<o>>
  <2>1. PICK t : t = <<o>>
    OBVIOUS
  <2>2. t \in Seq(S)
    BY <1>2, <2>1
  <2>3. 1 <= 1 /\ 1 <= 1 /\ 1 <= Len(ops) /\ Len(t) = 1 - 1 + 1
    BY <1>3, <2>1
  <2>4. \A i \in 1..1 - 1 + 1 : t[i] = ops[1 + i - 1]
    BY <1>3, <2>1
  <2>5. SubSeq(ops, 1, 1) = t
    BY <1>3, <1>4, <2>2, <2>3, <2>4, Slice, Zenon
  <2> QED
    BY <2>1, <2>5
<1> QED
  BY <1>3, <1>5, <1>6

LEMMA NothingBefore == ASSUME NEW S, NEW s \in Seq(S) PROVE SubSeq(s, 1, 0) = <<>>
<1>1. Len(s) \in Nat
  BY LenProperties
<1>2. 1 \in 1..Len(s) + 1 /\ 0 \in 1 - 1..Len(s)
  BY <1>1
<1>3. SubSeq(s, 1, 0) \in Seq(S) /\ Len(SubSeq(s, 1, 0)) = 0
  BY <1>2, SubSeqProperties
<1> QED
  BY <1>3, EmptySeq

-----------------------------------------------------------------------------
\* The inductive invariant: where control is, and what is there.

\* What every chunk relies on but the handlers' opcode and the region.
Ready(c) ==
    /\ c \in Cpu /\ Words(c)
    /\ c.reg[28] = USABLE /\ c.reg[15] = large_op
    /\ c.reg[13] = handle_x13 /\ c.reg[12] = handle_map
    /\ c.stack = run_entered(Called).stack /\ c.reg[29] = STACK - 16
InRegion(c, n) == Ready(c) /\ c.reg[27] = Region(n)
Chunky(c, n) == InRegion(c, n) /\ c.reg[14] = OP_DUPLICATE

\* The chunk that left for a handler, and its UM registers.
last == code[begun + 1]
LastB == cpu.reg[R(reg_b(last))]
LastC == cpu.reg[R(reg_c(last))]
Behind(bytes) == Region(regions) + CHUNK * begun + bytes
Fetched ==
    /\ begun \in Nat /\ begun < Len(code)
    /\ 4 * begun < SizeOf(0) /\ get_at(mem, 4 * begun) = last

Mapping ==
    /\ pc = handle_map /\ Chunky(cpu, regions) /\ Fetched /\ opcode(last) = 8
    /\ cpu.reg[0] = LastC /\ cpu.reg[30] = Behind(8)
    /\ Requested(LastC) /\ FitsHeap(4 * LastC)
Unmapping ==
    /\ InRegion(cpu, regions) /\ Fetched /\ opcode(last) = 9
    /\ cpu.reg[0] = LastC /\ LastC \in mapped
    /\ \/ /\ host = "linux" /\ pc = large_op /\ cpu.reg[14] = OP_UNMAP
          /\ cpu.reg[30] = Behind(12)
       \/ /\ host = "darwin" /\ pc = handle_x13 /\ cpu.reg[14] = OP_DUPLICATE
          /\ cpu.reg[30] = Behind(8)
Printing ==
    /\ pc = large_op /\ InRegion(cpu, regions) /\ Fetched /\ opcode(last) = 10
    /\ cpu.reg[14] = OP_OUT /\ cpu.reg[0] = LastC /\ LastC < BYTE /\ cpu.reg[30] = Behind(12)
Reading ==
    /\ pc = large_op /\ InRegion(cpu, regions) /\ Fetched /\ opcode(last) = 11
    /\ cpu.reg[14] = OP_IN /\ cpu.reg[30] = Behind(8)
Halting ==
    /\ pc = large_op /\ InRegion(cpu, regions) /\ Fetched /\ opcode(last) = 7
    /\ cpu.reg[14] = OP_HALT
Loading ==
    /\ pc = large_op /\ Chunky(cpu, regions)
    /\ cpu.reg[0] \in U32 /\ cpu.reg[10] \in U32
    /\ ~aborted =>
          /\ Fetched /\ opcode(last) = 12
          /\ cpu.reg[0] = LastB /\ cpu.reg[10] = LastC
          /\ LastB # 0 => LastB \in mapped /\ SizeOf(LastB) # 0 /\ regions < MaxRegions

Looping == pc = loop /\ Chunky(cpu, regions) /\ cpu.reg[10] \in U32
Stopping ==
    pc = loop /\ Ready(cpu) /\ cpu.reg[27] = 0 /\ Fetched /\ opcode(last) = 7
Fetching == Region(regions) <= pc /\ Inside = 0 /\ Chunky(cpu, regions)
Resuming ==
    /\ pc = Behind(8) /\ Chunky(cpu, regions) /\ begun \in Nat /\ begun < Len(code)
    /\ opcode(last) \in {8, 11} \cup (IF host = "darwin" THEN {9} ELSE {})
Gone ==
    /\ pc = Caller(30) /\ cpu.stack = <<>> /\ left \in [Reg -> U32]
    /\ \A q \in Register \ Volatile : cpu.reg[q] = Caller(q)

Phase ==
    \/ Mapping \/ Unmapping \/ Printing \/ Reading \/ Halting \/ Loading
    \/ Looping \/ Stopping \/ Fetching \/ Resuming \/ Gone

Shapes ==
    /\ host \in {"linux", "darwin"} /\ cpu \in Cpu
    /\ pc \in Nat /\ regions \in 1..MaxRegions /\ code \in Seq(U32)
    /\ begun \in 0..GB4 /\ out \in Seq(0..BYTE - 1)

ArmInv == HeapInv /\ Shapes /\ Phase

-----------------------------------------------------------------------------
\* Places: labels, regions, and chunks in a region.

\* The five labels and the return address in main are different places, below
\* every region.
LEMMA LabelsApart ==
    /\ loop # large_op /\ loop # handle_map /\ loop # handle_x13
    /\ large_op # handle_map /\ large_op # handle_x13 /\ handle_map # handle_x13
    /\ Caller(30) \notin Labels
<1>1. PICK a, b, c, d, e : /\ a = loop /\ b = large_op /\ c = handle_map /\ d = handle_x13
                           /\ e = Caller(30)
  OBVIOUS
<1>2. Cardinality({a, b, c, d, e}) = 5
  <2>1. Labels \cup {Caller(30)} = {a, b, c, d, e}
    BY <1>1 DEF Labels
  <2> QED
    BY <2>1, ArmJitAssumption
<1>3. ASSUME NEW v, NEW x, NEW y, NEW z, {a, b, c, d, e} = {v, x, y, z} PROVE FALSE
  <2>1. IsFiniteSet({}) /\ Cardinality({}) = 0
    BY FS_EmptySet
  <2>2. /\ IsFiniteSet({} \cup {v})
        /\ Cardinality({} \cup {v}) = IF v \in {} THEN Cardinality({}) ELSE Cardinality({}) + 1
    BY <2>1, FS_AddElement
  <2>3. PICK S : S = {} \cup {v}
    OBVIOUS
  <2>4. IsFiniteSet(S) /\ Cardinality(S) = 1
    BY <2>1, <2>2, <2>3
  <2>5. /\ IsFiniteSet(S \cup {x})
        /\ Cardinality(S \cup {x}) = IF x \in S THEN Cardinality(S) ELSE Cardinality(S) + 1
    BY <2>4, FS_AddElement
  <2>6. PICK T : T = S \cup {x}
    OBVIOUS
  <2>7. IsFiniteSet(T) /\ Cardinality(T) \in 1..2
    BY <2>4, <2>5, <2>6
  <2>8. /\ IsFiniteSet(T \cup {y})
        /\ Cardinality(T \cup {y}) = IF y \in T THEN Cardinality(T) ELSE Cardinality(T) + 1
    BY <2>7, FS_AddElement
  <2>9. PICK U : U = T \cup {y}
    OBVIOUS
  <2>10. IsFiniteSet(U) /\ Cardinality(U) \in 1..3
    BY <2>7, <2>8, <2>9
  <2>11. /\ IsFiniteSet(U \cup {z})
         /\ Cardinality(U \cup {z}) = IF z \in U THEN Cardinality(U) ELSE Cardinality(U) + 1
    BY <2>10, FS_AddElement
  <2>12. U \cup {z} = {a, b, c, d, e}
    BY <1>3, <2>3, <2>6, <2>9
  <2> QED
    BY <1>2, <2>10, <2>11, <2>12
<1>4. a # b /\ a # c /\ a # d /\ a # e /\ b # c /\ b # d /\ b # e /\ c # d /\ c # e /\ d # e
  <2>1. a # b
    <3>1. a = b => {a, b, c, d, e} = {b, c, d, e}
      OBVIOUS
    <3> QED
      BY <1>3, <3>1
  <2>2. a # c /\ b # c
    <3>1. a = c \/ b = c => {a, b, c, d, e} = {a, b, d, e}
      OBVIOUS
    <3> QED
      BY <1>3, <3>1
  <2>3. a # d /\ b # d /\ c # d
    <3>1. a = d \/ b = d \/ c = d => {a, b, c, d, e} = {a, b, c, e}
      OBVIOUS
    <3> QED
      BY <1>3, <3>1
  <2>4. a # e /\ b # e /\ c # e /\ d # e
    <3>1. a = e \/ b = e \/ c = e \/ d = e => {a, b, c, d, e} = {a, b, c, d}
      OBVIOUS
    <3> QED
      BY <1>3, <3>1
  <2> QED
    BY <2>1, <2>2, <2>3, <2>4
<1> QED
  BY <1>1, <1>4 DEF Labels

\* Labels are below every region.
LEMMA RegionsAbove ==
    ASSUME NEW n \in 1..MaxRegions
    PROVE  /\ n \in Nat /\ Region(n) \in Nat /\ Region(n) # 0
           /\ \A x \in Labels \cup {Caller(30)} : x \in Nat /\ x # 0 /\ ~(Region(n) <= x)
<1>1. n \in Nat /\ n >= 1 /\ Region(n) \in Nat /\ Region(1) \in Nat
  BY RegionNat, ArmJitAssumption
<1>2. Region(1) <= Region(n)
  <2>1. PICK w \in Nat : w = CHUNK * GB4
    BY Virt32Assumption DEF CHUNK
  <2>2. Region(1) = w /\ Region(n) = n * w
    BY <1>1, <2>1, Virt32Assumption DEF Region, CHUNK
  <2>3. n * w >= 1 * w
    BY <1>1, <2>1
  <2> QED
    BY <2>1, <2>2, <2>3
<1>3. \A x \in Labels \cup {Caller(30)} : x \in Nat /\ x # 0 /\ x < Region(1)
  BY LabelNat
<1>4. loop \in Labels
  BY DEF Labels
<1> QED
  BY <1>1, <1>2, <1>3, <1>4

LEMMA Placed ==
    ASSUME NEW n \in Nat, NEW k \in Nat, NEW j \in 0..11, NEW p, p = n + CHUNK * k + j
    PROVE  p \in Nat /\ n <= p /\ (p - n) \div CHUNK = k /\ (p - n) % CHUNK = j
<1>1. PICK x \in Nat : x = k * 12 + j
  OBVIOUS
<1>2. p - n = x /\ p \in Nat /\ n <= p
  BY <1>1 DEF CHUNK
<1>3. x \div 12 = k /\ x % 12 = j
  BY <1>1
<1> QED
  BY <1>2, <1>3 DEF CHUNK

LEMMA Located ==
    ASSUME NEW n \in Nat, NEW p \in Nat, n <= p
    PROVE  /\ (p - n) \div CHUNK \in Nat /\ (p - n) % CHUNK \in 0..11
           /\ p = n + CHUNK * ((p - n) \div CHUNK) + ((p - n) % CHUNK)
<1>1. PICK x \in Nat : x = p - n
  OBVIOUS
<1>2. x \div 12 \in Nat /\ x % 12 \in 0..12 - 1 /\ x = (x \div 12) * 12 + (x % 12)
  BY DivMod
<1> QED
  BY <1>1, <1>2 DEF CHUNK

LEMMA Numbers ==
    /\ OP_UNMAP = 1 /\ OP_OUT = 2 /\ OP_IN = 3 /\ OP_DUPLICATE = 4 /\ OP_HALT = 6
    /\ Known = {3, 2, 6} \cup (IF host = "linux" THEN {1} ELSE {})
BY DEF OP_UNMAP, OP_OUT, OP_IN, OP_DUPLICATE, OP_HALT, Known

-----------------------------------------------------------------------------
\* What is compiled, and what is ahead of pc in it.

\* An instruction that neither leaves its chunk nor stores.
Inner(o) == o.op \notin {"br", "blr", "str"}
Exits(o) == o.op \in {"br", "blr"}

LEMMA Names ==
    /\ \A d, n : Inner(movimm(d, n))
    /\ \A d, n : Inner(movk(d, n))
    /\ \A d, n : Inner(mov(d, n))
    /\ \A n : Inner(cmp(n))
    /\ \A d, n, m : Inner(csel(d, n, m))
    /\ \A d, n, m : Inner(addx(d, n, m))
    /\ \A d, n, m : Inner(add(d, n, m))
    /\ \A d, n, m : Inner(mul(d, n, m))
    /\ \A d, n, m : Inner(udiv(d, n, m))
    /\ \A d, n, m : Inner(and(d, n, m))
    /\ \A d, m : Inner(mvn(d, m))
    /\ \A d, n, m : Inner(ldr(d, n, m))
    /\ Inner(nop)
    /\ \A d, n, m : str(d, n, m).op = "str"
    /\ \A n : br(n).op = "br"
    /\ \A n : br(n).n = n
    /\ \A n : blr(n).op = "blr"
    /\ \A n : blr(n).n = n
<1>1. ASSUME NEW kind, kind \notin {"br", "blr", "str"}, NEW d, NEW n, NEW m
      PROVE  Inner(Op(kind, d, n, m))
  BY <1>1, Fielded DEF Inner
<1>2. \A d, n : Inner(movimm(d, n))
  <2>1. PICK kind : kind = "mov imm"
    OBVIOUS
  <2>2. kind \notin {"br", "blr", "str"}
    BY <2>1
  <2>3. \A d, n : Inner(Op(kind, d, n, d))
    BY <1>1, <2>2
  <2>4. \A d, n : movimm(d, n) = Op(kind, d, n, d)
    BY <2>1, Zenon DEF movimm
  <2> QED
    BY <2>3, <2>4
<1>3. \A d, n : Inner(movk(d, n))
  <2>1. PICK kind : kind = "movk"
    OBVIOUS
  <2>2. kind \notin {"br", "blr", "str"}
    BY <2>1
  <2>3. \A d, n : Inner(Op(kind, d, n, d))
    BY <1>1, <2>2
  <2>4. \A d, n : movk(d, n) = Op(kind, d, n, d)
    BY <2>1, Zenon DEF movk
  <2> QED
    BY <2>3, <2>4
<1>4. \A d, n : Inner(mov(d, n))
  <2>1. PICK kind : kind = "mov"
    OBVIOUS
  <2>2. kind \notin {"br", "blr", "str"}
    BY <2>1
  <2>3. \A d, n : Inner(Op(kind, d, n, n))
    BY <1>1, <2>2
  <2>4. \A d, n : mov(d, n) = Op(kind, d, n, n)
    BY <2>1, Zenon DEF mov
  <2> QED
    BY <2>3, <2>4
<1>5. \A n : Inner(cmp(n))
  <2>1. PICK kind : kind = "cmp"
    OBVIOUS
  <2>2. kind \notin {"br", "blr", "str"}
    BY <2>1
  <2>3. \A n : Inner(Op(kind, n, n, n))
    BY <1>1, <2>2
  <2>4. \A n : cmp(n) = Op(kind, n, n, n)
    BY <2>1, Zenon DEF cmp
  <2> QED
    BY <2>3, <2>4
<1>6. \A d, n, m : Inner(csel(d, n, m))
  <2>1. PICK kind : kind = "csel ne"
    OBVIOUS
  <2>2. kind \notin {"br", "blr", "str"}
    BY <2>1
  <2>3. \A d, n, m : Inner(Op(kind, d, n, m))
    BY <1>1, <2>2
  <2>4. \A d, n, m : csel(d, n, m) = Op(kind, d, n, m)
    BY <2>1, Zenon DEF csel
  <2> QED
    BY <2>3, <2>4
<1>7. \A d, n, m : Inner(addx(d, n, m))
  <2>1. PICK kind : kind = "add x"
    OBVIOUS
  <2>2. kind \notin {"br", "blr", "str"}
    BY <2>1
  <2>3. \A d, n, m : Inner(Op(kind, d, n, m))
    BY <1>1, <2>2
  <2>4. \A d, n, m : addx(d, n, m) = Op(kind, d, n, m)
    BY <2>1, Zenon DEF addx
  <2> QED
    BY <2>3, <2>4
<1>8. \A d, n, m : Inner(add(d, n, m))
  <2>1. PICK kind : kind = "add"
    OBVIOUS
  <2>2. kind \notin {"br", "blr", "str"}
    BY <2>1
  <2>3. \A d, n, m : Inner(Op(kind, d, n, m))
    BY <1>1, <2>2
  <2>4. \A d, n, m : add(d, n, m) = Op(kind, d, n, m)
    BY <2>1, Zenon DEF add
  <2> QED
    BY <2>3, <2>4
<1>9. \A d, n, m : Inner(mul(d, n, m))
  <2>1. PICK kind : kind = "mul"
    OBVIOUS
  <2>2. kind \notin {"br", "blr", "str"}
    BY <2>1
  <2>3. \A d, n, m : Inner(Op(kind, d, n, m))
    BY <1>1, <2>2
  <2>4. \A d, n, m : mul(d, n, m) = Op(kind, d, n, m)
    BY <2>1, Zenon DEF mul
  <2> QED
    BY <2>3, <2>4
<1>10. \A d, n, m : Inner(udiv(d, n, m))
  <2>1. PICK kind : kind = "udiv"
    OBVIOUS
  <2>2. kind \notin {"br", "blr", "str"}
    BY <2>1
  <2>3. \A d, n, m : Inner(Op(kind, d, n, m))
    BY <1>1, <2>2
  <2>4. \A d, n, m : udiv(d, n, m) = Op(kind, d, n, m)
    BY <2>1, Zenon DEF udiv
  <2> QED
    BY <2>3, <2>4
<1>11. \A d, n, m : Inner(and(d, n, m))
  <2>1. PICK kind : kind = "and"
    OBVIOUS
  <2>2. kind \notin {"br", "blr", "str"}
    BY <2>1
  <2>3. \A d, n, m : Inner(Op(kind, d, n, m))
    BY <1>1, <2>2
  <2>4. \A d, n, m : and(d, n, m) = Op(kind, d, n, m)
    BY <2>1, Zenon DEF and
  <2> QED
    BY <2>3, <2>4
<1>12. \A d, m : Inner(mvn(d, m))
  <2>1. PICK kind : kind = "mvn"
    OBVIOUS
  <2>2. kind \notin {"br", "blr", "str"}
    BY <2>1
  <2>3. \A d, m : Inner(Op(kind, d, m, m))
    BY <1>1, <2>2
  <2>4. \A d, m : mvn(d, m) = Op(kind, d, m, m)
    BY <2>1, Zenon DEF mvn
  <2> QED
    BY <2>3, <2>4
<1>13. \A d, n, m : Inner(ldr(d, n, m))
  <2>1. PICK kind : kind = "ldr"
    OBVIOUS
  <2>2. kind \notin {"br", "blr", "str"}
    BY <2>1
  <2>3. \A d, n, m : Inner(Op(kind, d, n, m))
    BY <1>1, <2>2
  <2>4. \A d, n, m : ldr(d, n, m) = Op(kind, d, n, m)
    BY <2>1, Zenon DEF ldr
  <2> QED
    BY <2>3, <2>4
<1>14. Inner(nop)
  BY <1>1 DEF nop
<1>15. /\ \A d, n, m : str(d, n, m).op = "str"
       /\ \A n : br(n).op = "br"
       /\ \A n : br(n).n = n
       /\ \A n : blr(n).op = "blr"
       /\ \A n : blr(n).n = n
  BY Fielded DEF str, br, blr
<1> QED
  BY <1>2, <1>3, <1>4, <1>5, <1>6, <1>7, <1>8, <1>9, <1>10,
     <1>11, <1>12, <1>13, <1>14, <1>15

\* What is compiled of a word, by its opcode.
LEMMA Chunks ==
    ASSUME NEW w, NEW ops, ops = compile_instruction(w),
           NEW a, NEW b, NEW c, a = reg_a(w), b = reg_b(w), c = reg_c(w)
    PROVE  /\ opcode(w) = 0 => ops = cond_move(a, b, c)
           /\ opcode(w) = 1 => ops = seg_load(a, b, c)
           /\ opcode(w) = 2 => ops = seg_store(a, b, c)
           /\ opcode(w) = 3 => ops = add_regs(a, b, c)
           /\ opcode(w) = 4 => ops = mult_regs(a, b, c)
           /\ opcode(w) = 5 => ops = div_regs(a, b, c)
           /\ opcode(w) = 6 => ops = nand_regs(a, b, c)
           /\ opcode(w) = 7 => ops = handle_halt
           /\ opcode(w) = 8 => ops = inject_map_segment(b, c)
           /\ opcode(w) = 9 => ops = IF host = "linux" THEN inject_unmap_segment(c)
                                     ELSE darwin_inject_unmap_segment(c)
           /\ opcode(w) = 10 => ops = print_reg(c)
           /\ opcode(w) = 11 => ops = read_into_reg(c)
           /\ opcode(w) = 12 => ops = inject_load_program(b, c)
           /\ opcode(w) = 13 => ops = load_reg(lv_reg(w), lv_val(w))
BY DEF compile_instruction

Chunk == compile_instruction(word)

LEMMA AheadOfThree ==
    ASSUME NEW o, NEW p, NEW q, Chunk = <<o, p, q>>
    PROVE  /\ Inside = 0 => Ahead = <<o, p, q>>
           /\ Inside = 8 => Ahead = <<q>>
<1>1. PICK ops : ops = Chunk
  OBVIOUS
<1>2. SubSeq(ops, 1, 3) = <<o, p, q>> /\ SubSeq(ops, 3, 3) = <<q>> /\ Len(ops) = 3
  BY <1>1, SlicesOfThree
<1>3. Ahead = SubSeq(ops, Inside \div 4 + 1, Len(ops))
  BY <1>1 DEF Ahead, Chunk
<1>4. Inside = 0 => Inside \div 4 + 1 = 1
  OBVIOUS
<1>5. Inside = 8 => Inside \div 4 + 1 = 3
  OBVIOUS
<1> QED
  BY <1>2, <1>3, <1>4, <1>5, Zenon

LEMMA AheadOfTwo ==
    ASSUME NEW o, NEW p, Chunk = <<o, p>>
    PROVE  Inside = 0 => Ahead = <<o, p>>
<1>1. PICK ops : ops = Chunk
  OBVIOUS
<1>2. SubSeq(ops, 1, 2) = <<o, p>> /\ Len(ops) = 2
  BY <1>1, SlicesOfTwo
<1>3. Ahead = SubSeq(ops, Inside \div 4 + 1, Len(ops))
  BY <1>1 DEF Ahead, Chunk
<1>4. Inside = 0 => Inside \div 4 + 1 = 1
  OBVIOUS
<1> QED
  BY <1>2, <1>3, <1>4, Zenon

LEMMA ExitsOfThree ==
    ASSUME NEW o, NEW p, NEW q, Ahead = <<o, p, q>>, Inner(o)
    PROVE  /\ Inner(p) /\ Inner(q) => Branches = {} /\ Stores = {}
           /\ p.op = "str" /\ Inner(q) => Branches = {} /\ Stores = {2}
           /\ Exits(p) /\ Inner(q) => Branches = {2}
           /\ Inner(p) /\ Exits(q) => Branches = {3}
<1>1. PICK ops : ops = Ahead
  OBVIOUS
<1>2. DOMAIN ops = 1..3 /\ ops[1] = o /\ ops[2] = p /\ ops[3] = q
  BY <1>1, SlicesOfThree
<1>3. \A k : k \in Branches <=> k \in 1..3 /\ ops[k].op \in {"br", "blr"}
  BY <1>1, <1>2 DEF Branches
<1>4. \A k : k \in Stores <=> k \in 1..3 /\ ops[k].op = "str"
  BY <1>1, <1>2 DEF Stores
<1>5. \A k \in 1..3 : k = 1 \/ k = 2 \/ k = 3
  OBVIOUS
<1>6. 1 \in 1..3 /\ 2 \in 1..3 /\ 3 \in 1..3
  OBVIOUS
<1>7. ~("str" \in {"br", "blr"})
  OBVIOUS
<1>8. ASSUME Inner(p), Inner(q) PROVE Branches = {} /\ Stores = {}
  BY <1>2, <1>3, <1>4, <1>5, <1>8 DEF Inner
<1>9. ASSUME p.op = "str", Inner(q) PROVE Branches = {} /\ Stores = {2}
  BY <1>2, <1>3, <1>4, <1>5, <1>6, <1>7, <1>9 DEF Inner
<1>10. ASSUME Exits(p), Inner(q) PROVE Branches = {2}
  BY <1>2, <1>3, <1>5, <1>6, <1>10 DEF Inner, Exits
<1>11. ASSUME Inner(p), Exits(q) PROVE Branches = {3}
  BY <1>2, <1>3, <1>5, <1>6, <1>11 DEF Inner, Exits
<1> QED
  BY <1>8, <1>9, <1>10, <1>11

LEMMA ExitsOfTwo ==
    ASSUME NEW o, NEW p, Ahead = <<o, p>>, Inner(o), Exits(p)
    PROVE  Branches = {2}
<1>1. PICK ops : ops = Ahead
  OBVIOUS
<1>2. DOMAIN ops = 1..2 /\ ops[1] = o /\ ops[2] = p
  BY <1>1, SlicesOfTwo
<1>3. \A k : k \in Branches <=> k \in 1..2 /\ ops[k].op \in {"br", "blr"}
  BY <1>1, <1>2 DEF Branches
<1>4. \A k \in 1..2 : k = 1 \/ k = 2
  OBVIOUS
<1>5. 1 \in 1..2 /\ 2 \in 1..2
  OBVIOUS
<1> QED
  BY <1>2, <1>3, <1>4, <1>5 DEF Inner, Exits

LEMMA ExitsOfOne ==
    ASSUME NEW o, Ahead = <<o>>, Inner(o)
    PROVE  Branches = {} /\ Stores = {} /\ Ahead # <<>> /\ Len(Ahead) = 1
<1>1. PICK ops : ops = Ahead
  OBVIOUS
<1>2. DOMAIN ops = 1..1 /\ ops[1] = o /\ ops # <<>> /\ Len(ops) = 1
  BY <1>1
<1>3. \A k : k \in Branches <=> k \in 1..1 /\ ops[k].op \in {"br", "blr"}
  BY <1>1, <1>2 DEF Branches
<1>4. \A k : k \in Stores <=> k \in 1..1 /\ ops[k].op = "str"
  BY <1>1, <1>2 DEF Stores
<1>5. \A k \in 1..1 : k = 1
  OBVIOUS
<1> QED
  BY <1>1, <1>2, <1>3, <1>4, <1>5 DEF Inner

-----------------------------------------------------------------------------
\* Control tells the phase.

LEMMA RangeOfRegions == Shapes => regions \in 1..MaxRegions /\ regions \in Nat
BY ArmJitAssumption DEF Shapes

\* Where a chunk goes on behind a handler's return.
LEMMA ResumingInside ==
    ASSUME ArmInv, Resuming
    PROVE  Region(regions) <= pc /\ Index = begun /\ Inside = 8 /\ word = last /\ InCode
<1>1. regions \in Nat /\ Region(regions) \in Nat
  BY RangeOfRegions, RegionNat DEF ArmInv
<1>2. begun \in Nat /\ pc = Region(regions) + CHUNK * begun + 8 /\ begun < Len(code)
  BY DEF Resuming, Behind
<1>3. Region(regions) <= pc /\ Index = begun /\ Inside = 8
  <2>1. PICK n \in Nat, k \in Nat, j \in 0..11 : n = Region(regions) /\ k = begun /\ j = 8
    BY <1>1, <1>2
  <2>2. n <= pc /\ (pc - n) \div CHUNK = k /\ (pc - n) % CHUNK = j
    BY <1>2, <2>1, Placed
  <2> QED
    BY <2>1, <2>2 DEF Index, Inside
<1> QED
  BY <1>2, <1>3 DEF word, last, InCode

\* Above the labels, a chunk begins, or goes on behind a handler's return.
LEMMA AboveLabels ==
    ASSUME ArmInv, Region(regions) <= pc
    PROVE  /\ Chunky(cpu, regions) /\ pc \notin Labels /\ pc # Caller(30)
           /\ Inside = 0 => Fetching
           /\ Inside # 0 => Resuming /\ Inside = 8 /\ Index = begun
<1>1. pc \notin Labels /\ pc # Caller(30)
  BY RangeOfRegions, RegionsAbove DEF ArmInv
<1>2. pc \notin {loop, large_op, handle_map, handle_x13, Caller(30)}
  BY <1>1 DEF Labels
<1>3. Fetching \/ Resuming
  BY <1>2 DEF ArmInv, Phase, Mapping, Unmapping, Printing, Reading, Halting, Loading,
              Looping, Stopping, Gone
<1>4. CASE Fetching
  BY <1>1, <1>4 DEF Fetching
<1>5. CASE Resuming
  <2>1. Inside = 8 /\ Index = begun
    BY <1>5, ResumingInside
  <2> QED
    BY <1>1, <1>5, <2>1 DEF Resuming
<1> QED
  BY <1>3, <1>4, <1>5

LEMMA AtLabel ==
    ASSUME ArmInv
    PROVE  /\ pc = loop => Looping \/ Stopping
           /\ pc = handle_map => Mapping
           /\ pc = handle_x13 => Unmapping /\ host = "darwin"
           /\ pc = large_op => \/ Unmapping /\ host = "linux"
                               \/ Printing \/ Reading \/ Halting \/ Loading
           /\ pc = Caller(30) => Gone
           /\ pc \in Labels \cup {Caller(30)} => ~(Region(regions) <= pc) /\ ~InCode
<1>1. pc \in Labels \cup {Caller(30)} => ~(Region(regions) <= pc)
  BY RangeOfRegions, RegionsAbove DEF ArmInv
<1>2. pc \in Labels \cup {Caller(30)} => ~Fetching /\ ~Resuming /\ ~InCode
  <2>1. Fetching => Region(regions) <= pc
    BY DEF Fetching
  <2>2. Resuming => Region(regions) <= pc
    BY ResumingInside
  <2> QED
    BY <1>1, <2>1, <2>2 DEF InCode
<1>3. /\ loop # large_op /\ loop # handle_map /\ loop # handle_x13
      /\ large_op # handle_map /\ large_op # handle_x13 /\ handle_map # handle_x13
      /\ Caller(30) # loop /\ Caller(30) # large_op /\ Caller(30) # handle_map
      /\ Caller(30) # handle_x13
  BY LabelsApart DEF Labels
<1>4. {loop, large_op, handle_map, handle_x13} = Labels
  BY DEF Labels
<1>5. "linux" # "darwin"
  OBVIOUS
<1>6. Phase
  BY DEF ArmInv
<1>7. pc = loop => Looping \/ Stopping
  BY <1>2, <1>3, <1>4, <1>6
     DEF Phase, Mapping, Unmapping, Printing, Reading, Halting, Loading, Gone
<1>8. pc = handle_map => Mapping
  BY <1>2, <1>3, <1>4, <1>6
     DEF Phase, Looping, Stopping, Unmapping, Printing, Reading, Halting, Loading, Gone
<1>9. pc = handle_x13 => Unmapping /\ host = "darwin"
  BY <1>2, <1>3, <1>4, <1>6
     DEF Phase, Looping, Stopping, Mapping, Unmapping, Printing, Reading, Halting, Loading, Gone
<1>10. pc = large_op => \/ Unmapping /\ host = "linux"
                        \/ Printing \/ Reading \/ Halting \/ Loading
  BY <1>2, <1>3, <1>4, <1>6 DEF Phase, Looping, Stopping, Mapping, Unmapping, Gone
<1>11. pc = Caller(30) => Gone
  BY <1>2, <1>3, <1>4, <1>6
     DEF Phase, Looping, Stopping, Mapping, Unmapping, Printing, Reading, Halting, Loading
<1> QED
  BY <1>1, <1>2, <1>7, <1>8, <1>9, <1>10, <1>11

-----------------------------------------------------------------------------
\* What steps leave of the CPU.

\* The registers by which a CPU is Ready.
Relied == {12, 13, 15, 28, 29} \cup 19..26
Holds(c, d) ==
    d \in Cpu /\ d.stack = c.stack /\ \A q \in Relied : d.reg[q] = c.reg[q]

\* All but the registers in S.
Leaves(c, d, S) ==
    d \in Cpu /\ d.stack = c.stack /\ \A q \in Register \ S : d.reg[q] = c.reg[q]

LEMMA HoldsReady ==
    ASSUME NEW c, Ready(c), NEW d, Holds(c, d)
    PROVE  Ready(d) /\ UMRegisters(d) = UMRegisters(c)
<1>1. \A r \in Reg : R(r) \in Relied
  BY Registers DEF Relied
<1>2. {12, 13, 15, 28, 29} \subseteq Relied
  BY DEF Relied
<1>3. \A r \in Reg : d.reg[R(r)] = c.reg[R(r)]
  BY <1>1 DEF Holds
<1>4. \A q \in {12, 13, 15, 28, 29} : d.reg[q] = c.reg[q]
  BY <1>2 DEF Holds
<1>5. Words(d)
  BY <1>3 DEF Words, Ready
<1>6. d \in Cpu /\ d.stack = c.stack
  BY DEF Holds
<1> QED
  BY <1>3, <1>4, <1>5, <1>6 DEF Ready, UMRegisters

LEMMA LeavesHolds ==
    ASSUME NEW c, NEW d, NEW S, Leaves(c, d, S), S \subseteq {0, 9, 10, 14, 27, 30}
    PROVE  Holds(c, d)
<1>1. Relied \subseteq Register \ S
  BY DEF Relied, Register
<1> QED
  BY <1>1 DEF Leaves, Holds

LEMMA LeavesChunky ==
    ASSUME NEW c, NEW n, Chunky(c, n), NEW d, NEW S, Leaves(c, d, S), S \subseteq {0, 9, 10, 30}
    PROVE  Chunky(d, n) /\ UMRegisters(d) = UMRegisters(c)
<1>1. Ready(c) /\ c.reg[27] = Region(n) /\ c.reg[14] = OP_DUPLICATE
  BY DEF Chunky, InRegion
<1>2. Ready(d) /\ UMRegisters(d) = UMRegisters(c)
  BY <1>1, LeavesHolds, HoldsReady
<1>3. 27 \in Register \ S /\ 14 \in Register \ S
  BY DEF Register
<1> QED
  BY <1>1, <1>2, <1>3 DEF Leaves, Chunky, InRegion

LEMMA LeavesInRegion ==
    ASSUME NEW c, NEW n, InRegion(c, n), NEW d, NEW S, Leaves(c, d, S),
           S \subseteq {0, 9, 10, 14, 30}
    PROVE  InRegion(d, n) /\ UMRegisters(d) = UMRegisters(c)
<1>1. Ready(c) /\ c.reg[27] = Region(n)
  BY DEF InRegion
<1>2. Ready(d) /\ UMRegisters(d) = UMRegisters(c)
  BY <1>1, LeavesHolds, HoldsReady
<1>3. 27 \in Register \ S
  BY DEF Register
<1> QED
  BY <1>1, <1>2, <1>3 DEF Leaves, InRegion

LEMMA NearChunky ==
    ASSUME NEW c, NEW n, Chunky(c, n), NEW d, Near(c, d)
    PROVE  Chunky(d, n) /\ UMRegisters(d) = UMRegisters(c)
<1>1. Leaves(c, d, {9})
  BY DEF Near, Leaves
<1> QED
  BY <1>1, LeavesChunky

\* A word in a UM register.
LEMMA YieldsChunky ==
    ASSUME NEW c, NEW n, Chunky(c, n), NEW d, NEW r \in Reg, NEW v \in U32, Yields(c, d, R(r), v)
    PROVE  Chunky(d, n) /\ UMRegisters(d) = [UMRegisters(c) EXCEPT ![r] = v]
<1>1. /\ R(r) \in 19..26 /\ \A s \in Reg : R(s) \in Register /\ R(s) \in 19..26
      /\ \A s \in Reg : R(s) = R(r) => s = r
  BY Registers
<1>2. /\ d \in Cpu /\ d.stack = c.stack /\ d.reg[R(r)] = v
      /\ \A p \in Register \ {9, R(r)} : d.reg[p] = c.reg[p]
  BY DEF Yields
<1>3. \A s \in Reg : d.reg[R(s)] = IF s = r THEN v ELSE c.reg[R(s)]
  BY <1>1, <1>2
<1>4. UMRegisters(d) = [UMRegisters(c) EXCEPT ![r] = v]
  BY <1>3 DEF UMRegisters
<1>5. {12, 13, 14, 15, 27, 28, 29} \subseteq Register \ {9, R(r)}
  BY <1>1 DEF Register
<1>6. \A q \in {12, 13, 14, 15, 27, 28, 29} : d.reg[q] = c.reg[q]
  BY <1>2, <1>5
<1>7. /\ Words(c) /\ c.reg[28] = USABLE /\ c.reg[15] = large_op
      /\ c.reg[13] = handle_x13 /\ c.reg[12] = handle_map
      /\ c.stack = run_entered(Called).stack /\ c.reg[29] = STACK - 16
      /\ c.reg[27] = Region(n) /\ c.reg[14] = OP_DUPLICATE
  BY DEF Chunky, InRegion, Ready
<1>8. Words(d)
  BY <1>3, <1>7 DEF Words
<1> QED
  BY <1>2, <1>4, <1>6, <1>7, <1>8 DEF Chunky, InRegion, Ready

LEMMA LeavesMore ==
    ASSUME NEW c, NEW d, NEW S, Leaves(c, d, S), NEW q, q \in Register, q \in S, NEW v, v \in Nat,
           NEW t, t = Set(d, q, v)
    PROVE  /\ Leaves(c, t, S) /\ t.reg[q] = v
           /\ \A p \in Register \ {q} : t.reg[p] = d.reg[p]
<1>1. d \in Cpu
  BY DEF Leaves
<1>2. Writes(d, q, v, t)
  BY <1>1, Setting
<1> QED
  BY <1>2 DEF Leaves, Writes

LEMMA LeavesAll == ASSUME NEW c \in Cpu, NEW S PROVE Leaves(c, c, S)
BY DEF Leaves

-----------------------------------------------------------------------------
\* A chunk that is gone into.

LEMMA Decoded ==
    ASSUME NEW w \in U32
    PROVE  /\ reg_a(w) \in Reg /\ reg_b(w) \in Reg /\ reg_c(w) \in Reg
           /\ lv_reg(w) \in Reg /\ lv_val(w) \in U32 /\ lv_val(w) < HALF * HALF
           /\ opcode(w) \in Nat
<1>1. w \in Nat /\ GB4 \in Nat /\ GB4 = 16 * OP_UNIT
  BY Virt32Assumption, ArmJitAssumption DEF U32
<1>2. PICK u \in Nat \ {0}, h \in Nat : u = LV_UNIT /\ h = HALF * HALF /\ u <= h
  BY IsaAssumption, ArmJitAssumption
<1>3. lv_val(w) < HALF * HALF
  BY <1>1, <1>2, DivMod DEF lv_val
<1>4. OP_UNIT \in Nat \ {0}
  <2>1. NREGS \in Nat \ {0} /\ LV_UNIT \in Nat \ {0} /\ OP_UNIT = NREGS * LV_UNIT
    BY IsaAssumption
  <2> QED
    BY <2>1
<1>5. opcode(w) \in Nat
  BY <1>1, <1>4, DivMod DEF opcode
<1> QED
  BY <1>1, <1>3, <1>5, FieldsInRange DEF U32

Meaningful ==
    /\ opcode(word) \in 0..13
    /\ opcode(word) = 1 => InSegment(B, C)
    /\ opcode(word) = 2 => InSegment(A, B)
    /\ opcode(word) = 5 => C # 0
    /\ opcode(word) = 8 => Requested(C) /\ FitsHeap(4 * C)
    /\ opcode(word) = 9 => C \in mapped
    /\ opcode(word) = 10 => C < BYTE
    /\ opcode(word) = 12 => B = 0 \/ (B \in mapped /\ SizeOf(B) # 0)

LEMMA LegalIsMeaningful == ASSUME Legal, opcode(word) \in Nat PROVE Meaningful
<1>1. PICK n \in Nat : n = opcode(word)
  OBVIOUS
<1>2. CASE n \in {1, 2, 5, 8, 9, 10, 12}
  BY <1>1, <1>2 DEF Legal, Meaningful
<1>3. CASE n \notin {1, 2, 5, 8, 9, 10, 12}
  <2>1. n <= 13
    BY <1>1, <1>3 DEF Legal
  <2> QED
    BY <1>1, <1>3, <2>1 DEF Meaningful
<1> QED
  BY <1>2, <1>3

Starts ==
    /\ Chunky(cpu, regions) /\ ~aborted /\ Unchanged /\ Meaningful
    /\ Index \in Nat /\ Index < Len(code) /\ Index \in 0..GB4
    /\ pc \in Nat /\ pc = Region(regions) + CHUNK * Index
    /\ word \in U32 /\ A \in U32 /\ B \in U32 /\ C \in U32 /\ lv_val(word) \in U32
    /\ {reg_a(word), reg_b(word), reg_c(word), lv_reg(word)} \subseteq Reg
    /\ cpu \in Cpu /\ Words(cpu) /\ cpu.reg[28] = USABLE

LEMMA Begun ==
    ASSUME ArmInv, Runs, Inside = 0
    PROVE  Starts
<1>1. /\ Region(regions) <= pc /\ Index < Len(code) /\ ~aborted /\ Unchanged /\ Legal
  BY DEF Runs, InCode, Begins
<1>2. Chunky(cpu, regions)
  BY <1>1, AboveLabels
<1>3. /\ regions \in Nat /\ Region(regions) \in Nat /\ pc \in Nat /\ code \in Seq(U32)
  BY RangeOfRegions, RegionNat DEF ArmInv, Shapes
<1>4. Index \in Nat /\ pc = Region(regions) + CHUNK * Index
  <2>1. PICK n \in Nat : n = Region(regions)
    BY <1>3
  <2>2. /\ (pc - n) \div CHUNK \in Nat
        /\ pc = n + CHUNK * ((pc - n) \div CHUNK) + ((pc - n) % CHUNK)
    BY <1>1, <1>3, <2>1, Located
  <2>3. Index = (pc - n) \div CHUNK /\ (pc - n) % CHUNK = 0
    BY <2>1 DEF Index, Inside
  <2>4. PICK k \in Nat : k = Index
    BY <2>2, <2>3
  <2>5. pc = n + CHUNK * k + 0
    BY <2>2, <2>3, <2>4
  <2>6. pc = n + CHUNK * k
    BY <2>5 DEF CHUNK
  <2> QED
    BY <2>1, <2>4, <2>6
<1>5. word \in U32
  <2>1. Index + 1 \in 1..Len(code)
    BY <1>1, <1>3, <1>4, LenProperties
  <2> QED
    BY <1>3, <2>1, ElementOfSeq DEF word
<1>6. /\ {reg_a(word), reg_b(word), reg_c(word), lv_reg(word)} \subseteq Reg
      /\ lv_val(word) \in U32 /\ opcode(word) \in Nat
  BY <1>5, Decoded
<1>7. cpu \in Cpu /\ Words(cpu) /\ cpu.reg[28] = USABLE
  BY <1>2 DEF Chunky, InRegion, Ready
<1>8. A \in U32 /\ B \in U32 /\ C \in U32
  BY <1>6, <1>7 DEF Words, A, B, C
<1>9. Meaningful
  BY <1>1, <1>6, LegalIsMeaningful
<1>10. Index \in 0..GB4
  <2>1. 0 \in Owned \cup {0} /\ HeapInv
    BY DEF ArmInv
  <2>2. /\ SizeOf(0) \in Nat /\ SizeOf(0) <= CapOf(0) /\ CapOf(0) \in Nat
        /\ 0 + CapOf(0) + 8 <= GB4
    BY <2>1, SegmentFacts
  <2>3. 4 * Index < SizeOf(0)
    BY <1>1 DEF Unchanged
  <2> QED
    BY <1>4, <2>2, <2>3, Virt32Assumption
<1> QED
  BY <1>1, <1>2, <1>3, <1>4, <1>5, <1>6, <1>7, <1>8, <1>9, <1>10 DEF Starts

-----------------------------------------------------------------------------
\* A chunk that leaves for a handler, or for the label `loop'.

\* Its second or its third instruction is the branch.
LEMMA GoesSecond ==
    ASSUME Branch, Inside = 0, NEW o, NEW p, Inner(o), Exits(p),
           \/ Chunk = <<o, p>>
           \/ \E q : Inner(q) /\ Chunk = <<o, p, q>>
    PROVE  LET c == Exec(cpu, o)
           IN  /\ cpu' = IF p.op = "blr" THEN Set(c, 30, pc + 8) ELSE c
               /\ pc' = c.reg[p.n]
<1>1. Branches = {2} /\ SubSeq(Ahead, 1, 1) = <<o>> /\ Ahead[2] = p
  <2>1. CASE Chunk = <<o, p>>
    <3>1. Ahead = <<o, p>>
      BY <2>1, AheadOfTwo
    <3> QED
      BY <3>1, ExitsOfTwo, SlicesOfTwo
  <2>2. CASE \E q : Inner(q) /\ Chunk = <<o, p, q>>
    <3>1. PICK q : Inner(q) /\ Chunk = <<o, p, q>>
      BY <2>2
    <3>2. Ahead = <<o, p, q>>
      BY <3>1, AheadOfThree
    <3>3. Branches = {2}
      BY <3>1, <3>2, ExitsOfThree
    <3> QED
      BY <3>2, <3>3, SlicesOfThree
  <2> QED
    BY <2>1, <2>2
<1>2. PICK k \in Branches :
         LET c == Run(cpu, SubSeq(Ahead, 1, k - 1))
         IN  /\ cpu' = IF Ahead[k].op = "blr" THEN Set(c, 30, pc + 4 * k) ELSE c
             /\ pc' = c.reg[Ahead[k].n]
  BY DEF Branch
<1>3. k = 2
  BY <1>1
<1>4. k - 1 = 1 /\ pc + 4 * k = pc + 8
  BY <1>3
<1>5. Run(cpu, SubSeq(Ahead, 1, k - 1)) = Exec(cpu, o)
  BY <1>1, <1>4, RunOne
<1> QED
  BY <1>1, <1>2, <1>3, <1>4, <1>5

LEMMA GoesThird ==
    ASSUME Branch, Inside = 0, NEW o, NEW p, NEW q, Inner(o), Inner(p), Exits(q),
           Chunk = <<o, p, q>>
    PROVE  LET c == Exec(Exec(cpu, o), p)
           IN  /\ cpu' = IF q.op = "blr" THEN Set(c, 30, pc + 12) ELSE c
               /\ pc' = c.reg[q.n]
<1>1. Branches = {3} /\ SubSeq(Ahead, 1, 2) = <<o, p>> /\ Ahead[3] = q
  <2>1. Ahead = <<o, p, q>>
    BY AheadOfThree
  <2>2. Branches = {3}
    BY <2>1, ExitsOfThree
  <2> QED
    BY <2>1, <2>2, SlicesOfThree
<1>2. PICK k \in Branches :
         LET c == Run(cpu, SubSeq(Ahead, 1, k - 1))
         IN  /\ cpu' = IF Ahead[k].op = "blr" THEN Set(c, 30, pc + 4 * k) ELSE c
             /\ pc' = c.reg[Ahead[k].n]
  BY DEF Branch
<1>3. k = 3
  BY <1>1
<1>4. k - 1 = 2 /\ pc + 4 * k = pc + 12
  BY <1>3
<1>5. Run(cpu, SubSeq(Ahead, 1, k - 1)) = Exec(Exec(cpu, o), p)
  <2>1. SubSeq(Ahead, 1, k - 1) = <<o, p>>
    BY <1>1, <1>4
  <2>2. Run(cpu, <<o, p>>) = Exec(Exec(cpu, o), p)
    BY RunTwo
  <2> QED
    BY <2>1, <2>2, Zenon
<1> QED
  BY <1>1, <1>2, <1>3, <1>4, <1>5

\* Control is at `target', with `number' in x14 and all else but x0, x10 and the
\* return address as it was.
Departs(target, number) ==
    /\ pc' = target /\ cpu'.reg[14] = number
    /\ Leaves(cpu, cpu', {0, 10, 14, 30})

LEMMA Reserving ==
    ASSUME Starts
    PROVE  /\ cpu.reg[12] = handle_map /\ cpu.reg[13] = handle_x13
           /\ cpu.reg[15] = large_op /\ cpu.reg[14] = OP_DUPLICATE
BY DEF Starts, Chunky, InRegion, Ready

\* The argument that a chunk moves to x0 or x10.
LEMMA Moving ==
    ASSUME Starts, NEW r \in Reg, NEW c, Leaves(cpu, c, {0, 10, 14, 30}),
           NEW q, q \in {0, 10}, NEW t, t = Exec(c, mov(q, R(r)))
    PROVE  /\ Leaves(cpu, t, {0, 10, 14, 30}) /\ t.reg[q] = cpu.reg[R(r)]
           /\ \A p \in Register \ {q} : t.reg[p] = c.reg[p]
<1>1. PICK s \in Register \ {0, 10, 14, 30}, v \in Nat :
         s = R(r) /\ v = cpu.reg[R(r)] /\ Wrap(v) = v
  <2>1. Words(cpu)
    BY DEF Starts
  <2>2. R(r) \in Register /\ R(r) \in 19..26
    BY Registers
  <2> QED
    BY <2>1, <2>2, Operands
<1>2. c.reg[s] = v
  BY <1>1 DEF Leaves
<1>3. t = Set(c, q, v)
  BY <1>1, <1>2, Instructions
<1>4. q \in Register /\ q \in {0, 10, 14, 30}
  BY DEF Register
<1> QED
  BY <1>1, <1>3, <1>4, LeavesMore

LEMMA Numbering ==
    ASSUME NEW c, Leaves(cpu, c, {0, 10, 14, 30}), NEW n, n \in Nat,
           NEW o, o = movimm(14, n), NEW t, t = Exec(c, o)
    PROVE  /\ Leaves(cpu, t, {0, 10, 14, 30}) /\ t.reg[14] = n
           /\ \A p \in Register \ {14} : t.reg[p] = c.reg[p]
<1>1. t = Set(c, 14, n)
  BY Instructions
<1>2. 14 \in Register /\ 14 \in {0, 10, 14, 30}
  BY DEF Register
<1> QED
  BY <1>1, <1>2, LeavesMore

\* A call leaves the address behind it in x30.
LEMMA Linking ==
    ASSUME NEW c, Leaves(cpu, c, {0, 10, 14, 30}), NEW v, v \in Nat, NEW t, t = Set(c, 30, v)
    PROVE  /\ Leaves(cpu, t, {0, 10, 14, 30}) /\ t.reg[30] = v
           /\ \A p \in Register \ {30} : t.reg[p] = c.reg[p]
<1>1. 30 \in Register /\ 30 \in {0, 10, 14, 30}
  BY DEF Register
<1> QED
  BY <1>1, LeavesMore

LEMMA Unmoved ==
    ASSUME Starts
    PROVE  /\ Leaves(cpu, cpu, {0, 10, 14, 30}) /\ pc + 8 \in Nat /\ pc + 12 \in Nat
           /\ {0, 10, 14, 30, 12, 13, 15} \subseteq Register
           /\ {12, 13, 15} \subseteq Register \ {0, 10, 14, 30}
BY LeavesAll DEF Starts, Register


LEMMA MapLeaves ==
    ASSUME Starts, Branch, Inside = 0, opcode(word) = 8
    PROVE  /\ Departs(handle_map, OP_DUPLICATE)
           /\ cpu'.reg[0] = C /\ cpu'.reg[30] = pc + 8
<1>1. PICK b \in Reg, e \in Reg : b = reg_b(word) /\ e = reg_c(word)
  BY DEF Starts
<1>2. PICK o, p, q : o = mov(0, R(e)) /\ p = blr(12) /\ q = mov(R(b), 0)
  OBVIOUS
<1>3. Chunk = <<o, p, q>>
  BY <1>1, <1>2, Chunks DEF Chunk, inject_map_segment
<1>4. Inner(o) /\ p.op = "blr" /\ p.n = 12 /\ Inner(q)
  BY <1>2, Names
<1>5. PICK c : c = Exec(cpu, o)
  OBVIOUS
<1>6. cpu' = Set(c, 30, pc + 8) /\ pc' = c.reg[12]
  BY <1>3, <1>4, <1>5, GoesSecond DEF Exits
<1>7. /\ Leaves(cpu, c, {0, 10, 14, 30}) /\ c.reg[0] = C
      /\ \A s \in Register \ {0} : c.reg[s] = cpu.reg[s]
  BY <1>1, <1>2, <1>5, Unmoved, Moving DEF C
<1>8. /\ Leaves(cpu, cpu', {0, 10, 14, 30}) /\ cpu'.reg[30] = pc + 8
      /\ \A s \in Register \ {30} : cpu'.reg[s] = c.reg[s]
  BY <1>6, <1>7, Unmoved, Linking
<1> QED
  BY <1>6, <1>7, <1>8, Unmoved, Reserving DEF Departs

LEMMA UnmapLeaves ==
    ASSUME Starts, Branch, Inside = 0, opcode(word) = 9, host \in {"linux", "darwin"}
    PROVE  /\ cpu'.reg[0] = C
           /\ \/ /\ host = "linux" /\ Departs(large_op, OP_UNMAP) /\ cpu'.reg[30] = pc + 12
              \/ /\ host = "darwin" /\ Departs(handle_x13, OP_DUPLICATE)
                 /\ cpu'.reg[30] = pc + 8
<1>1. PICK e \in Reg : e = reg_c(word)
  BY DEF Starts
<1>2. CASE host = "linux"
  <2>2. PICK o, p, q : o = mov(0, R(e)) /\ p = movimm(14, OP_UNMAP) /\ q = blr(15)
    OBVIOUS
  <2>3. Chunk = <<o, p, q>>
    BY <1>1, <1>2, <2>2, Chunks DEF Chunk, inject_unmap_segment
  <2>4. Inner(o) /\ Inner(p) /\ q.op = "blr" /\ q.n = 15
    BY <2>2, Names
  <2>5. PICK c, d : c = Exec(cpu, o) /\ d = Exec(c, p)
    OBVIOUS
  <2>6. cpu' = Set(d, 30, pc + 12) /\ pc' = d.reg[15]
    BY <2>3, <2>4, <2>5, GoesThird DEF Exits
  <2>7. /\ Leaves(cpu, c, {0, 10, 14, 30}) /\ c.reg[0] = C
        /\ \A s \in Register \ {0} : c.reg[s] = cpu.reg[s]
    BY <1>1, <2>2, <2>5, Unmoved, Moving DEF C
  <2>8. /\ Leaves(cpu, d, {0, 10, 14, 30}) /\ d.reg[14] = OP_UNMAP
        /\ \A s \in Register \ {14} : d.reg[s] = c.reg[s]
    BY <2>2, <2>5, <2>7, Numbering, Numbers
  <2>9. /\ Leaves(cpu, cpu', {0, 10, 14, 30}) /\ cpu'.reg[30] = pc + 12
        /\ \A s \in Register \ {30} : cpu'.reg[s] = d.reg[s]
    BY <2>6, <2>8, Unmoved, Linking
  <2> QED
    BY <1>2, <2>6, <2>7, <2>8, <2>9, Unmoved, Reserving DEF Departs
<1>3. CASE host = "darwin"
  <2>1. host # "linux"
    BY <1>3
  <2>2. PICK o, p, q : o = mov(0, R(e)) /\ p = blr(13) /\ q = nop
    OBVIOUS
  <2>3. Chunk = <<o, p, q>>
    BY <1>1, <2>1, <2>2, Chunks DEF Chunk, darwin_inject_unmap_segment
  <2>4. Inner(o) /\ p.op = "blr" /\ p.n = 13 /\ Inner(q)
    BY <2>2, Names
  <2>5. PICK c : c = Exec(cpu, o)
    OBVIOUS
  <2>6. cpu' = Set(c, 30, pc + 8) /\ pc' = c.reg[13]
    BY <2>3, <2>4, <2>5, GoesSecond DEF Exits
  <2>7. /\ Leaves(cpu, c, {0, 10, 14, 30}) /\ c.reg[0] = C
        /\ \A s \in Register \ {0} : c.reg[s] = cpu.reg[s]
    BY <1>1, <2>2, <2>5, Unmoved, Moving DEF C
  <2>8. /\ Leaves(cpu, cpu', {0, 10, 14, 30}) /\ cpu'.reg[30] = pc + 8
        /\ \A s \in Register \ {30} : cpu'.reg[s] = c.reg[s]
    BY <2>6, <2>7, Unmoved, Linking
  <2> QED
    BY <1>3, <2>6, <2>7, <2>8, Unmoved, Reserving DEF Departs
<1> QED
  BY <1>2, <1>3

LEMMA PrintLeaves ==
    ASSUME Starts, Branch, Inside = 0, opcode(word) = 10
    PROVE  Departs(large_op, OP_OUT) /\ cpu'.reg[0] = C /\ cpu'.reg[30] = pc + 12
<1>1. PICK e \in Reg : e = reg_c(word)
  BY DEF Starts
<1>2. PICK o, p, q : o = mov(0, R(e)) /\ p = movimm(14, OP_OUT) /\ q = blr(15)
  OBVIOUS
<1>3. Chunk = <<o, p, q>>
  BY <1>1, <1>2, Chunks DEF Chunk, print_reg
<1>4. Inner(o) /\ Inner(p) /\ q.op = "blr" /\ q.n = 15
  BY <1>2, Names
<1>5. PICK c, d : c = Exec(cpu, o) /\ d = Exec(c, p)
  OBVIOUS
<1>6. cpu' = Set(d, 30, pc + 12) /\ pc' = d.reg[15]
  BY <1>3, <1>4, <1>5, GoesThird DEF Exits
<1>7. /\ Leaves(cpu, c, {0, 10, 14, 30}) /\ c.reg[0] = C
      /\ \A s \in Register \ {0} : c.reg[s] = cpu.reg[s]
  BY <1>1, <1>2, <1>5, Unmoved, Moving DEF C
<1>8. /\ Leaves(cpu, d, {0, 10, 14, 30}) /\ d.reg[14] = OP_OUT
      /\ \A s \in Register \ {14} : d.reg[s] = c.reg[s]
  BY <1>2, <1>5, <1>7, Numbering, Numbers
<1>9. /\ Leaves(cpu, cpu', {0, 10, 14, 30}) /\ cpu'.reg[30] = pc + 12
      /\ \A s \in Register \ {30} : cpu'.reg[s] = d.reg[s]
  BY <1>6, <1>8, Unmoved, Linking
<1> QED
  BY <1>6, <1>7, <1>8, <1>9, Unmoved, Reserving DEF Departs

LEMMA ReadLeaves ==
    ASSUME Starts, Branch, Inside = 0, opcode(word) = 11
    PROVE  Departs(large_op, OP_IN) /\ cpu'.reg[30] = pc + 8
<1>1. PICK e \in Reg : e = reg_c(word)
  BY DEF Starts
<1>2. PICK o, p, q : o = movimm(14, OP_IN) /\ p = blr(15) /\ q = mov(R(e), 0)
  OBVIOUS
<1>3. Chunk = <<o, p, q>>
  BY <1>1, <1>2, Chunks DEF Chunk, read_into_reg
<1>4. Inner(o) /\ p.op = "blr" /\ p.n = 15 /\ Inner(q)
  BY <1>2, Names
<1>5. PICK c : c = Exec(cpu, o)
  OBVIOUS
<1>6. cpu' = Set(c, 30, pc + 8) /\ pc' = c.reg[15]
  BY <1>3, <1>4, <1>5, GoesSecond DEF Exits
<1>a. OP_IN \in Nat /\ Leaves(cpu, cpu, {0, 10, 14, 30})
  BY Unmoved DEF OP_IN
<1>7. /\ Leaves(cpu, c, {0, 10, 14, 30}) /\ c.reg[14] = OP_IN
      /\ \A s \in Register \ {14} : c.reg[s] = cpu.reg[s]
  BY <1>2, <1>5, <1>a, Numbering
<1>8. /\ Leaves(cpu, cpu', {0, 10, 14, 30}) /\ cpu'.reg[30] = pc + 8
      /\ \A s \in Register \ {30} : cpu'.reg[s] = c.reg[s]
  BY <1>6, <1>7, Unmoved, Linking
<1> QED
  BY <1>6, <1>7, <1>8, Unmoved, Reserving DEF Departs

LEMMA HaltLeaves ==
    ASSUME Starts, Branch, Inside = 0, opcode(word) = 7
    PROVE  Departs(large_op, OP_HALT)
<1>1. PICK o, p : o = movimm(14, OP_HALT) /\ p = br(15)
  OBVIOUS
<1>2. Chunk = <<o, p>>
  BY <1>1, Chunks DEF Chunk, handle_halt
<1>3. Inner(o) /\ p.op = "br" /\ p.n = 15 /\ p.op # "blr"
  BY <1>1, Names
<1>4. PICK c : c = Exec(cpu, o)
  OBVIOUS
<1>5. cpu' = c /\ pc' = c.reg[15]
  BY <1>2, <1>3, <1>4, GoesSecond DEF Exits
<1>a. OP_HALT \in Nat /\ Leaves(cpu, cpu, {0, 10, 14, 30})
  BY Unmoved DEF OP_HALT
<1>6. /\ Leaves(cpu, c, {0, 10, 14, 30}) /\ c.reg[14] = OP_HALT
      /\ \A s \in Register \ {14} : c.reg[s] = cpu.reg[s]
  BY <1>1, <1>4, <1>a, Numbering
<1> QED
  BY <1>5, <1>6, Unmoved, Reserving DEF Departs

LEMMA LoadLeaves ==
    ASSUME Starts, Branch, Inside = 0, opcode(word) = 12
    PROVE  Departs(large_op, OP_DUPLICATE) /\ cpu'.reg[0] = B /\ cpu'.reg[10] = C
<1>1. PICK b \in Reg, e \in Reg : b = reg_b(word) /\ e = reg_c(word)
  BY DEF Starts
<1>2. PICK o, p, q : o = mov(10, R(e)) /\ p = mov(0, R(b)) /\ q = br(15)
  OBVIOUS
<1>3. Chunk = <<o, p, q>>
  BY <1>1, <1>2, Chunks DEF Chunk, inject_load_program
<1>4. Inner(o) /\ Inner(p) /\ q.op = "br" /\ q.n = 15 /\ q.op # "blr"
  BY <1>2, Names
<1>5. PICK c, d : c = Exec(cpu, o) /\ d = Exec(c, p)
  OBVIOUS
<1>6. cpu' = d /\ pc' = d.reg[15]
  BY <1>3, <1>4, <1>5, GoesThird DEF Exits
<1>7. /\ Leaves(cpu, c, {0, 10, 14, 30}) /\ c.reg[10] = C
      /\ \A s \in Register \ {10} : c.reg[s] = cpu.reg[s]
  BY <1>1, <1>2, <1>5, Unmoved, Moving DEF C
<1>8. /\ Leaves(cpu, d, {0, 10, 14, 30}) /\ d.reg[0] = B
      /\ \A s \in Register \ {0} : d.reg[s] = c.reg[s]
  BY <1>1, <1>2, <1>5, <1>7, Moving DEF B
<1> QED
  BY <1>6, <1>7, <1>8, Unmoved, Reserving DEF Departs

\* A chunk without a branch in it does not leave.
LEMMA PlainChunks ==
    ASSUME Inside = 0, opcode(word) \in {0, 1, 2, 3, 4, 5, 6, 13}
    PROVE  /\ Branches = {} /\ Ahead = Chunk /\ Len(Ahead) = 3
           /\ opcode(word) # 2 => Stores = {}
           /\ opcode(word) = 2 => Stores = {2}
<1>1. PICK a, b, c : a = reg_a(word) /\ b = reg_b(word) /\ c = reg_c(word)
  OBVIOUS
<1>2. PICK ops : ops = Chunk
  OBVIOUS
<1>3. ASSUME opcode(word) # 2
      PROVE  \E o, p, q : ops = <<o, p, q>> /\ Inner(o) /\ Inner(p) /\ Inner(q)
  <2>1. CASE opcode(word) = 0
    <3>1. ops = cond_move(a, b, c)
      BY <1>1, <1>2, <2>1, Chunks DEF Chunk
    <3> QED
      BY <3>1, Names DEF cond_move
  <2>2. CASE opcode(word) = 1
    <3>1. ops = seg_load(a, b, c)
      BY <1>1, <1>2, <2>2, Chunks DEF Chunk
    <3> QED
      BY <3>1, Names DEF seg_load
  <2>3. CASE opcode(word) = 3
    <3>1. ops = add_regs(a, b, c)
      BY <1>1, <1>2, <2>3, Chunks DEF Chunk
    <3> QED
      BY <3>1, Names DEF add_regs
  <2>4. CASE opcode(word) = 4
    <3>1. ops = mult_regs(a, b, c)
      BY <1>1, <1>2, <2>4, Chunks DEF Chunk
    <3> QED
      BY <3>1, Names DEF mult_regs
  <2>5. CASE opcode(word) = 5
    <3>1. ops = div_regs(a, b, c)
      BY <1>1, <1>2, <2>5, Chunks DEF Chunk
    <3> QED
      BY <3>1, Names DEF div_regs
  <2>6. CASE opcode(word) = 6
    <3>1. ops = nand_regs(a, b, c)
      BY <1>1, <1>2, <2>6, Chunks DEF Chunk
    <3> QED
      BY <3>1, Names DEF nand_regs
  <2>7. CASE opcode(word) = 13
    <3>1. ops = load_reg(lv_reg(word), lv_val(word))
      BY <1>1, <1>2, <2>7, Chunks DEF Chunk
    <3> QED
      BY <3>1, Names DEF load_reg
  <2> QED
    BY <1>3, <2>1, <2>2, <2>3, <2>4, <2>5, <2>6, <2>7
<1>4. ASSUME opcode(word) = 2
      PROVE  \E o, p, q : ops = <<o, p, q>> /\ Inner(o) /\ p.op = "str" /\ Inner(q)
  <2>1. ops = seg_store(a, b, c)
    BY <1>1, <1>2, <1>4, Chunks DEF Chunk
  <2> QED
    BY <2>1, Names DEF seg_store
<1>5. PICK o, p, q : /\ Chunk = <<o, p, q>> /\ Inner(o) /\ Inner(q)
                     /\ opcode(word) # 2 => Inner(p)
                     /\ opcode(word) = 2 => p.op = "str"
  BY <1>2, <1>3, <1>4
<1>6. Ahead = <<o, p, q>>
  BY <1>5, AheadOfThree
<1> QED
  BY <1>5, <1>6, ExitsOfThree, SlicesOfThree

\* A chunk with a branch in it.
LEMMA LeavingChunks ==
    ASSUME Inside = 0, opcode(word) \in {7, 8, 9, 10, 11, 12}
    PROVE  Branches # {}
<1>1. PICK b, c : b = reg_b(word) /\ c = reg_c(word)
  OBVIOUS
<1>2. CASE opcode(word) = 7
  <2>1. PICK o, p : o = movimm(14, OP_HALT) /\ p = br(15)
    OBVIOUS
  <2>2. Chunk = <<o, p>> /\ Inner(o) /\ Exits(p)
    BY <1>2, <2>1, Chunks, Names DEF Chunk, handle_halt, Exits
  <2>3. Ahead = <<o, p>>
    BY <2>2, AheadOfTwo
  <2> QED
    BY <2>2, <2>3, ExitsOfTwo
<1>3. CASE opcode(word) = 8
  <2>1. PICK o, p, q : o = mov(0, R(c)) /\ p = blr(12) /\ q = mov(R(b), 0)
    OBVIOUS
  <2>2. Chunk = <<o, p, q>> /\ Inner(o) /\ Exits(p) /\ Inner(q)
    BY <1>1, <1>3, <2>1, Chunks, Names DEF Chunk, inject_map_segment, Exits
  <2>3. Ahead = <<o, p, q>>
    BY <2>2, AheadOfThree
  <2> QED
    BY <2>2, <2>3, ExitsOfThree
<1>4. CASE opcode(word) = 9
  <2>1. CASE host = "linux"
    <3>1. PICK o, p, q : o = mov(0, R(c)) /\ p = movimm(14, OP_UNMAP) /\ q = blr(15)
      OBVIOUS
    <3>2. Chunk = <<o, p, q>> /\ Inner(o) /\ Inner(p) /\ Exits(q)
      BY <1>1, <1>4, <2>1, <3>1, Chunks, Names DEF Chunk, inject_unmap_segment, Exits
    <3>3. Ahead = <<o, p, q>>
      BY <3>2, AheadOfThree
    <3> QED
      BY <3>2, <3>3, ExitsOfThree
  <2>2. CASE host # "linux"
    <3>1. PICK o, p, q : o = mov(0, R(c)) /\ p = blr(13) /\ q = nop
      OBVIOUS
    <3>2. Chunk = <<o, p, q>> /\ Inner(o) /\ Exits(p) /\ Inner(q)
      BY <1>1, <1>4, <2>2, <3>1, Chunks, Names DEF Chunk, darwin_inject_unmap_segment, Exits
    <3>3. Ahead = <<o, p, q>>
      BY <3>2, AheadOfThree
    <3> QED
      BY <3>2, <3>3, ExitsOfThree
  <2> QED
    BY <2>1, <2>2
<1>5. CASE opcode(word) = 10
  <2>1. PICK o, p, q : o = mov(0, R(c)) /\ p = movimm(14, OP_OUT) /\ q = blr(15)
    OBVIOUS
  <2>2. Chunk = <<o, p, q>> /\ Inner(o) /\ Inner(p) /\ Exits(q)
    BY <1>1, <1>5, <2>1, Chunks, Names DEF Chunk, print_reg, Exits
  <2>3. Ahead = <<o, p, q>>
    BY <2>2, AheadOfThree
  <2> QED
    BY <2>2, <2>3, ExitsOfThree
<1>6. CASE opcode(word) = 11
  <2>1. PICK o, p, q : o = movimm(14, OP_IN) /\ p = blr(15) /\ q = mov(R(c), 0)
    OBVIOUS
  <2>2. Chunk = <<o, p, q>> /\ Inner(o) /\ Exits(p) /\ Inner(q)
    BY <1>1, <1>6, <2>1, Chunks, Names DEF Chunk, read_into_reg, Exits
  <2>3. Ahead = <<o, p, q>>
    BY <2>2, AheadOfThree
  <2> QED
    BY <2>2, <2>3, ExitsOfThree
<1>7. CASE opcode(word) = 12
  <2>1. PICK o, p, q : o = mov(10, R(c)) /\ p = mov(0, R(b)) /\ q = br(15)
    OBVIOUS
  <2>2. Chunk = <<o, p, q>> /\ Inner(o) /\ Inner(p) /\ Exits(q)
    BY <1>1, <1>7, <2>1, Chunks, Names DEF Chunk, inject_load_program, Exits
  <2>3. Ahead = <<o, p, q>>
    BY <2>2, AheadOfThree
  <2> QED
    BY <2>2, <2>3, ExitsOfThree
<1> QED
  BY <1>2, <1>3, <1>4, <1>5, <1>6, <1>7

\* Behind the call of a handler one instruction is left, that takes the result.
LEMMA LeftOver ==
    ASSUME Inside = 8, host \in {"linux", "darwin"},
           opcode(word) \in {8, 11} \cup (IF host = "darwin" THEN {9} ELSE {})
    PROVE  \E q : /\ Ahead = <<q>> /\ Inner(q)
                  /\ opcode(word) = 8 => q = mov(R(reg_b(word)), 0)
                  /\ opcode(word) = 9 => q = nop
                  /\ opcode(word) = 11 => q = mov(R(reg_c(word)), 0)
<1>1. PICK b, c : b = reg_b(word) /\ c = reg_c(word)
  OBVIOUS
<1>2. CASE opcode(word) = 8
  <2>1. PICK o, p, q : o = mov(0, R(c)) /\ p = blr(12) /\ q = mov(R(b), 0)
    OBVIOUS
  <2>2. Chunk = <<o, p, q>> /\ Inner(q)
    BY <1>1, <1>2, <2>1, Chunks, Names DEF Chunk, inject_map_segment
  <2>3. Ahead = <<q>>
    BY <2>2, AheadOfThree
  <2> QED
    BY <1>1, <1>2, <2>1, <2>2, <2>3
<1>3. CASE opcode(word) = 11
  <2>1. PICK o, p, q : o = movimm(14, OP_IN) /\ p = blr(15) /\ q = mov(R(c), 0)
    OBVIOUS
  <2>2. Chunk = <<o, p, q>> /\ Inner(q)
    BY <1>1, <1>3, <2>1, Chunks, Names DEF Chunk, read_into_reg
  <2>3. Ahead = <<q>>
    BY <2>2, AheadOfThree
  <2> QED
    BY <1>1, <1>3, <2>1, <2>2, <2>3
<1>4. CASE opcode(word) = 9 /\ host = "darwin"
  <2>1. PICK o, p, q : o = mov(0, R(c)) /\ p = blr(13) /\ q = nop
    OBVIOUS
  <2>2. host # "linux"
    BY <1>4
  <2>3. Chunk = <<o, p, q>> /\ Inner(q)
    BY <1>1, <1>4, <2>1, <2>2, Chunks, Names DEF Chunk, darwin_inject_unmap_segment
  <2>4. Ahead = <<q>>
    BY <2>3, AheadOfThree
  <2> QED
    BY <1>4, <2>1, <2>3, <2>4
<1> QED
  BY <1>2, <1>3, <1>4

\* What is left of the chunk, run: the UM register that gets the result.
ResumedRegisters ==
    IF opcode(last) = 8 THEN [UMRegisters(cpu) EXCEPT ![reg_b(last)] = Wrap(cpu.reg[0])]
    ELSE IF opcode(last) = 11 THEN [UMRegisters(cpu) EXCEPT ![reg_c(last)] = Wrap(cpu.reg[0])]
    ELSE UMRegisters(cpu)

LEMMA ResumingDoes ==
    ASSUME ArmInv, Resuming
    PROVE  /\ Chunky(Run(cpu, Ahead), regions)
           /\ UMRegisters(Run(cpu, Ahead)) = ResumedRegisters
           /\ Branches = {} /\ Stores = {} /\ Ahead # <<>> /\ Len(Ahead) = 1
<1>1. /\ Inside = 8 /\ word = last /\ Index = begun /\ host \in {"linux", "darwin"}
      /\ opcode(word) \in {8, 11} \cup (IF host = "darwin" THEN {9} ELSE {})
  BY ResumingInside DEF Resuming, ArmInv, Shapes
<1>2. PICK q : /\ Ahead = <<q>> /\ Inner(q)
               /\ opcode(word) = 8 => q = mov(R(reg_b(word)), 0)
               /\ opcode(word) = 9 => q = nop
               /\ opcode(word) = 11 => q = mov(R(reg_c(word)), 0)
  BY <1>1, LeftOver
<1>3. Run(cpu, Ahead) = Exec(cpu, q)
  BY <1>2, RunOne
<1>4. Chunky(cpu, regions) /\ cpu \in Cpu
  BY DEF Resuming, Chunky, InRegion, Ready
<1>5. word \in U32
  <2>1. begun + 1 \in 1..Len(code) /\ code \in Seq(U32)
    BY LenProperties DEF Resuming, ArmInv, Shapes
  <2> QED
    BY <1>1, <2>1, ElementOfSeq DEF last
<1>6. PICK x \in Nat : x = cpu.reg[0]
  <2>1. 0 \in Register
    BY DEF Register
  <2> QED
    BY <1>4, <2>1 DEF Cpu
<1>7. ASSUME NEW r \in Reg, q = mov(R(r), 0)
      PROVE  /\ Chunky(Run(cpu, Ahead), regions)
             /\ UMRegisters(Run(cpu, Ahead)) = [UMRegisters(cpu) EXCEPT ![r] = Wrap(cpu.reg[0])]
  <2>1. PICK p \in Register, v \in U32 : p = R(r) /\ v = Wrap(x) /\ v \in Nat
    BY Registers, WrapNat
  <2>2. Exec(cpu, q) = Set(cpu, p, v)
    BY <1>6, <1>7, <2>1, Instructions
  <2>3. Near(cpu, cpu)
    BY <1>4, Staying
  <2>4. PICK d : d = Set(cpu, p, v)
    OBVIOUS
  <2>5. Yields(cpu, d, p, v)
    BY <2>1, <2>3, <2>4, Leaving
  <2>6. /\ Chunky(d, regions)
        /\ UMRegisters(d) = [UMRegisters(cpu) EXCEPT ![r] = v]
    BY <1>4, <2>1, <2>5, YieldsChunky
  <2> QED
    BY <1>3, <1>6, <2>1, <2>2, <2>4, <2>6
<1>8. ASSUME q = nop PROVE Run(cpu, Ahead) = cpu
  BY <1>3, <1>8, Instructions
<1>9. reg_b(word) \in Reg /\ reg_c(word) \in Reg
  BY <1>5, Decoded
<1>10. Branches = {} /\ Stores = {} /\ Ahead # <<>> /\ Len(Ahead) = 1
  BY <1>2, ExitsOfOne
<1> QED
  BY <1>1, <1>2, <1>4, <1>7, <1>8, <1>9, <1>10 DEF ResumedRegisters

\* A branch is in a chunk's first run, and takes one of the ways of the lemmas above.
LEMMA BranchStarts ==
    ASSUME ArmInv, Branch
    PROVE  Inside = 0 /\ Starts /\ opcode(word) \in {7, 8, 9, 10, 11, 12}
<1>1. Branches # {} /\ Runs
  BY DEF Branch
<1>2. Inside = 0
  <2>1. SUFFICES ASSUME Inside # 0 PROVE FALSE
    OBVIOUS
  <2>2. Resuming
    BY <1>1, <2>1, AboveLabels DEF Runs, InCode
  <2> QED
    BY <1>1, <2>2, ResumingDoes
<1>3. Starts
  BY <1>1, <1>2, Begun
<1>4. opcode(word) \in 0..13
  BY <1>3 DEF Starts, Meaningful
<1>5. opcode(word) \notin {0, 1, 2, 3, 4, 5, 6, 13}
  BY <1>1, <1>2, PlainChunks
<1> QED
  BY <1>2, <1>3, <1>4, <1>5

LEMMA StraightPlain ==
    ASSUME ArmInv, Straight, Inside = 0
    PROVE  Starts /\ opcode(word) \in {0, 1, 2, 3, 4, 5, 6, 13}
<1>1. Branches = {} /\ Runs
  BY DEF Straight
<1>2. Starts
  BY <1>1, Begun
<1>3. opcode(word) \in 0..13
  BY <1>2 DEF Starts, Meaningful
<1>4. opcode(word) \notin {7, 8, 9, 10, 11, 12}
  BY <1>1, LeavingChunks
<1> QED
  BY <1>2, <1>3, <1>4

-----------------------------------------------------------------------------
\* What the chunks without a branch do.

Continues(f) ==
    /\ Chunky(cpu', regions) /\ UMRegisters(cpu') = f
    /\ pc' = pc + 12 /\ begun' = Index
    /\ UNCHANGED <<host, code, regions, out, left>>

\* The register that such a chunk writes, and the value.
Result(r, v) ==
    \/ opcode(word) = 0 /\ r = reg_a(word) /\ v = IF C # 0 THEN B ELSE A
    \/ opcode(word) = 1 /\ r = reg_a(word) /\ v = get_at(mem, B + 4 * C)
    \/ opcode(word) = 3 /\ r = reg_a(word) /\ v = Wrap(B + C)
    \/ opcode(word) = 4 /\ r = reg_a(word) /\ v = Wrap(B * C)
    \/ opcode(word) = 5 /\ r = reg_a(word) /\ v = B \div C
    \/ opcode(word) = 6 /\ r = reg_a(word) /\ v = GB4 - 1 - And(B, C)
    \/ opcode(word) = 13 /\ r = lv_reg(word) /\ v = lv_val(word)

LEMMA ResultIsWord ==
    ASSUME HeapInv, Starts, NEW r, NEW v, Result(r, v)
    PROVE  r \in Reg /\ v \in U32
<1>1. /\ opcode(word) = 1 => InSegment(B, C)
      /\ opcode(word) = 5 => C # 0
      /\ A \in U32 /\ B \in U32 /\ C \in U32 /\ lv_val(word) \in U32
      /\ {reg_a(word), reg_b(word), reg_c(word), lv_reg(word)} \subseteq Reg
  BY DEF Starts, Meaningful
<1>2. r \in Reg
  BY <1>1 DEF Result
<1>3. CASE opcode(word) = 0
  BY <1>1, <1>2, <1>3 DEF Result
<1>4. CASE opcode(word) = 1
  <2>1. PICK id, k : id = B /\ k = C
    OBVIOUS
  <2>2. id \in Segments /\ k \in Nat /\ 4 * k < SizeOf(id)
    BY <1>1, <1>4, <2>1, WordNat DEF InSegment
  <2>3. get_at(mem, id + 4 * k) \in U32
    BY <2>2, ReadMemory
  <2> QED
    BY <1>2, <1>4, <2>1, <2>3 DEF Result
<1>5. CASE opcode(word) = 3 \/ opcode(word) = 4
  <2>1. B \in Nat /\ C \in Nat
    BY <1>1, WordNat
  <2>2. B + C \in Nat /\ B * C \in Nat
    BY <2>1
  <2> QED
    BY <1>2, <1>5, <2>2, WrapNat DEF Result
<1>6. CASE opcode(word) = 5
  BY <1>1, <1>2, <1>6, QuotientBound DEF Result
<1>7. CASE opcode(word) = 6
  <2>1. And(B, C) \in U32
    BY <1>1, ArmJitAssumption
  <2>2. GB4 - 1 - And(B, C) \in U32
    BY <2>1, Virt32Assumption DEF U32
  <2> QED
    BY <1>2, <1>7, <2>2 DEF Result
<1>8. CASE opcode(word) = 13
  BY <1>1, <1>2, <1>8 DEF Result
<1> QED
  BY <1>3, <1>4, <1>5, <1>6, <1>7, <1>8 DEF Result

LEMMA ChunkYields ==
    ASSUME HeapInv, Starts, NEW r, NEW v, Result(r, v)
    PROVE  Yields(cpu, Run(cpu, Chunk), R(r), v)
<1>1. PICK c, w : c = cpu /\ w = word
  OBVIOUS
<1>2. PICK a \in Reg, b \in Reg, e \in Reg : a = reg_a(w) /\ b = reg_b(w) /\ e = reg_c(w)
  BY <1>1 DEF Starts
<1>3. /\ c \in Cpu /\ Words(c) /\ c.reg[28] = USABLE
      /\ A = c.reg[R(a)] /\ B = c.reg[R(b)] /\ C = c.reg[R(e)]
      /\ opcode(w) = 5 => C # 0
  BY <1>1, <1>2 DEF Starts, Meaningful, A, B, C
<1>4. v \in U32 /\ v \in Nat /\ r \in Reg
  <2>1. v \in U32 /\ r \in Reg
    BY ResultIsWord
  <2> QED
    BY <2>1, WordNat
<1>5. PICK ops : ops = compile_instruction(w) /\ Chunk = ops
  BY <1>1 DEF Chunk
<1>6. CASE opcode(w) = 0
  <2>1. ops = cond_move(a, b, e)
    BY <1>2, <1>5, <1>6, Chunks
  <2>2. r = a /\ v = IF C # 0 THEN B ELSE A
    BY <1>1, <1>2, <1>6 DEF Result
  <2> QED
    BY <1>1, <1>3, <1>5, <2>1, <2>2, CondMoveDoes
<1>7. CASE opcode(w) = 1
  <2>1. ops = seg_load(a, b, e)
    BY <1>2, <1>5, <1>7, Chunks
  <2>2. r = a /\ v = get_at(mem, B + 4 * C)
    BY <1>1, <1>2, <1>7 DEF Result
  <2> QED
    BY <1>1, <1>3, <1>4, <1>5, <2>1, <2>2, SegLoadDoes
<1>8. CASE opcode(w) = 3
  <2>1. ops = add_regs(a, b, e)
    BY <1>2, <1>5, <1>8, Chunks
  <2>2. r = a /\ v = Wrap(B + C)
    BY <1>1, <1>2, <1>8 DEF Result
  <2> QED
    BY <1>1, <1>3, <1>5, <2>1, <2>2, AddDoes
<1>9. CASE opcode(w) = 4
  <2>1. ops = mult_regs(a, b, e)
    BY <1>2, <1>5, <1>9, Chunks
  <2>2. r = a /\ v = Wrap(B * C)
    BY <1>1, <1>2, <1>9 DEF Result
  <2> QED
    BY <1>1, <1>3, <1>5, <2>1, <2>2, MultDoes
<1>10. CASE opcode(w) = 5
  <2>1. ops = div_regs(a, b, e)
    BY <1>2, <1>5, <1>10, Chunks
  <2>2. r = a /\ v = B \div C
    BY <1>1, <1>2, <1>10 DEF Result
  <2> QED
    BY <1>1, <1>3, <1>5, <1>10, <2>1, <2>2, DivDoes
<1>11. CASE opcode(w) = 6
  <2>1. ops = nand_regs(a, b, e)
    BY <1>2, <1>5, <1>11, Chunks
  <2>2. r = a /\ v = GB4 - 1 - And(B, C)
    BY <1>1, <1>2, <1>11 DEF Result
  <2> QED
    BY <1>1, <1>3, <1>5, <2>1, <2>2, NandDoes
<1>12. CASE opcode(w) = 13
  <2>1. r = lv_reg(w) /\ v = lv_val(w)
    BY <1>1, <1>12 DEF Result
  <2>2. ops = load_reg(r, v)
    BY <1>2, <1>5, <1>12, <2>1, Chunks
  <2>3. v < HALF * HALF
    <3>1. w \in U32
      BY <1>1 DEF Starts
    <3> QED
      BY <2>1, <3>1, Decoded
  <2> QED
    BY <1>1, <1>3, <1>4, <1>5, <2>2, <2>3, LoadRegDoes
<1> QED
  BY <1>1, <1>6, <1>7, <1>8, <1>9, <1>10, <1>11, <1>12 DEF Result

\* Whatever the instruction is, there is a result.
LEMMA HasResult ==
    ASSUME opcode(word) \in {0, 1, 3, 4, 5, 6, 13}
    PROVE  \E r, v : Result(r, v)
<1>1. CASE opcode(word) = 13
  BY <1>1 DEF Result
<1>2. CASE opcode(word) # 13
  <2>1. PICK r, v : /\ r = reg_a(word)
                    /\ v = IF opcode(word) = 0 THEN (IF C # 0 THEN B ELSE A)
                           ELSE IF opcode(word) = 1 THEN get_at(mem, B + 4 * C)
                           ELSE IF opcode(word) = 3 THEN Wrap(B + C)
                           ELSE IF opcode(word) = 4 THEN Wrap(B * C)
                           ELSE IF opcode(word) = 5 THEN B \div C
                           ELSE GB4 - 1 - And(B, C)
    OBVIOUS
  <2>2. Result(r, v)
    BY <1>2, <2>1 DEF Result
  <2> QED
    BY <2>2
<1> QED
  BY <1>1, <1>2

LEMMA StraightDoes ==
    ASSUME ArmInv, Straight, Inside = 0, NEW r, NEW v, Result(r, v)
    PROVE  /\ Starts /\ r \in Reg /\ v \in U32
           /\ Continues([UMRegisters(cpu) EXCEPT ![r] = v]) /\ UNCHANGED vars
<1>1. HeapInv /\ Starts /\ opcode(word) \in {0, 1, 2, 3, 4, 5, 6, 13}
  BY StraightPlain DEF ArmInv
<1>2. opcode(word) # 2
  BY DEF Result
<1>3. Stores = {} /\ Ahead = Chunk /\ Len(Ahead) = 3
  BY <1>1, <1>2, PlainChunks
<1>4. cpu' = Run(cpu, Chunk) /\ pc' = pc + 12
  <2>1. cpu' = Run(cpu, Ahead) /\ pc' = pc + 4 * Len(Ahead)
    BY DEF Straight
  <2>2. 4 * Len(Ahead) = 12
    BY <1>3
  <2> QED
    BY <1>3, <2>1, <2>2
<1>5. /\ begun' = Index
      /\ UNCHANGED <<mem, alloc, kernel_virtual_size, aborted, host, code, regions, out, left>>
  BY <1>3 DEF Straight
<1>6. r \in Reg /\ v \in U32 /\ Yields(cpu, cpu', R(r), v)
  BY <1>1, <1>4, ResultIsWord, ChunkYields
<1>7. Chunky(cpu, regions)
  BY <1>1 DEF Starts
<1>8. Chunky(cpu', regions) /\ UMRegisters(cpu') = [UMRegisters(cpu) EXCEPT ![r] = v]
  BY <1>6, <1>7, YieldsChunky
<1> QED
  BY <1>1, <1>4, <1>5, <1>6, <1>8 DEF Continues, vars, alloc

LEMMA StoreDoes ==
    ASSUME ArmInv, Straight, Inside = 0, opcode(word) = 2
    PROVE  /\ Starts /\ Continues(UMRegisters(cpu)) /\ InSegment(A, B)
           /\ mem' = [mem EXCEPT ![Cell(A + 4 * B)] = C]
           /\ UNCHANGED <<alloc, kernel_virtual_size, aborted>>
<1>1. Starts
  BY StraightPlain
<1>2. Stores = {2} /\ Ahead = Chunk /\ Len(Ahead) = 3
  BY PlainChunks
<1>3. PICK c, d, w : c = cpu /\ d = cpu' /\ w = word
  OBVIOUS
<1>4. PICK a \in Reg, b \in Reg, e \in Reg : a = reg_a(w) /\ b = reg_b(w) /\ e = reg_c(w)
  BY <1>1, <1>3 DEF Starts
<1>5. /\ c \in Cpu /\ Words(c) /\ c.reg[28] = USABLE
      /\ A = c.reg[R(a)] /\ B = c.reg[R(b)] /\ C = c.reg[R(e)]
      /\ InSegment(A, B)
  BY <1>1, <1>3, <1>4 DEF Starts, Meaningful, A, B, C
<1>6. PICK ops : ops = Chunk /\ ops = seg_store(a, b, e)
  <2>1. PICK ops : ops = compile_instruction(w)
    OBVIOUS
  <2>2. ops = seg_store(a, b, e)
    BY <1>3, <1>4, <2>1, Chunks
  <2> QED
    BY <1>3, <2>1, <2>2 DEF Chunk
<1>7. d = Run(c, ops) /\ pc' = pc + 12
  <2>1. cpu' = Run(cpu, Ahead) /\ pc' = pc + 4 * Len(Ahead)
    BY DEF Straight
  <2>2. 4 * Len(Ahead) = 12
    BY <1>2
  <2> QED
    BY <1>2, <1>3, <1>6, <2>1, <2>2
<1>8. mem' = [mem EXCEPT ![Target(d, ops[2].n, ops[2].m)] = Wrap(c.reg[ops[2].d])]
  <2>1. \A k \in Stores : k = 2
    BY <1>2
  <2>2. (CHOOSE k \in Stores : TRUE) = 2
    BY <1>2
  <2>3. Stores # {}
    BY <1>2
  <2>4. mem' = LET o == Ahead[2]
               IN  [mem EXCEPT ![Target(cpu', o.n, o.m)] = Wrap(cpu.reg[o.d])]
    BY <2>2, <2>3 DEF Straight
  <2> QED
    BY <1>2, <1>3, <1>6, <2>4
<1>9. /\ Near(c, d)
      /\ Target(d, ops[2].n, ops[2].m) = Cell(c.reg[R(a)] + 4 * c.reg[R(b)])
      /\ Wrap(c.reg[ops[2].d]) = c.reg[R(e)]
  BY <1>5, <1>6, <1>7, SegStoreDoes
<1>10. mem' = [mem EXCEPT ![Cell(A + 4 * B)] = C]
  BY <1>5, <1>8, <1>9
<1>11. Chunky(c, regions)
  BY <1>1, <1>3 DEF Starts
<1>12. Chunky(d, regions) /\ UMRegisters(d) = UMRegisters(c)
  BY <1>9, <1>11, NearChunky
<1>13. /\ begun' = Index
       /\ UNCHANGED <<alloc, kernel_virtual_size, aborted, host, code, regions, out, left>>
  BY DEF Straight
<1> QED
  BY <1>1, <1>3, <1>5, <1>7, <1>10, <1>12, <1>13 DEF Continues

\* Behind a handler's return.
LEMMA ResumesDoes ==
    ASSUME ArmInv, Straight, Inside # 0
    PROVE  /\ Resuming /\ Chunky(cpu', regions) /\ UMRegisters(cpu') = ResumedRegisters
           /\ pc' = pc + 4 /\ begun' = begun
           /\ UNCHANGED <<vars, host, code, regions, out, left>>
<1>1. Resuming /\ Index = begun
  BY AboveLabels DEF Straight, Runs, InCode
<1>2. /\ Chunky(Run(cpu, Ahead), regions)
      /\ UMRegisters(Run(cpu, Ahead)) = ResumedRegisters
      /\ Stores = {} /\ Len(Ahead) = 1
  BY <1>1, ResumingDoes
<1>3. cpu' = Run(cpu, Ahead) /\ pc' = pc + 4 * Len(Ahead) /\ begun' = Index
  BY DEF Straight
<1>4. 4 * Len(Ahead) = 4
  BY <1>2
<1>5. UNCHANGED <<mem, alloc, kernel_virtual_size, aborted, host, code, regions, out, left>>
  BY <1>2 DEF Straight
<1> QED
  BY <1>1, <1>2, <1>3, <1>4, <1>5 DEF vars, alloc

-----------------------------------------------------------------------------
\* What the handlers do.

LEMMA NarrowWraps ==
    ASSUME NEW v \in U32, NEW junk \in Nat
    PROVE  Narrow(v, junk) \in Nat /\ Wrap(Narrow(v, junk)) = v
<1>1. PICK g \in Nat \ {0}, r \in Nat : g = GB4 /\ r = v /\ r \in 0..g - 1
  BY Virt32Assumption DEF U32
<1>2. (junk * g + r) % g = r
  BY <1>1, Positional
<1>3. Narrow(v, junk) = junk * g + r
  BY <1>1 DEF Narrow
<1> QED
  BY <1>1, <1>2, <1>3 DEF Wrap

LEMMA LastFacts ==
    ASSUME ArmInv, Fetched, InRegion(cpu, regions)
    PROVE  /\ last \in U32 /\ reg_a(last) \in Reg /\ reg_b(last) \in Reg /\ reg_c(last) \in Reg
           /\ LastB \in U32 /\ LastC \in U32
<1>1. begun + 1 \in 1..Len(code) /\ code \in Seq(U32)
  BY LenProperties DEF Fetched, ArmInv, Shapes
<1>2. last \in U32
  BY <1>1, ElementOfSeq DEF last
<1>3. reg_a(last) \in Reg /\ reg_b(last) \in Reg /\ reg_c(last) \in Reg
  BY <1>2, Decoded
<1>4. Words(cpu)
  BY DEF InRegion, Ready
<1> QED
  BY <1>2, <1>3, <1>4 DEF Words, LastB, LastC

\* With the mapping for an argument, map_segment and load_program return alike.
LEMMA CallWithUsable ==
    ASSUME Shapes, Ready(cpu), NEW result, NEW junk
    PROVE  /\ returned(given_usable(entered(cpu)), result, junk)
                  = returned(entered(cpu), result, junk)
           /\ returned(given_usable(dup_entered(cpu)), result, junk)
                  = returned(dup_entered(cpu), result, junk)
<1>1. cpu \in Cpu /\ Len(cpu.stack) <= Depth /\ host \in {"linux", "darwin"}
  <2>1. Len(run_entered(Called).stack) = Depth /\ Depth \in Nat
    BY Calling DEF Depth
  <2> QED
    BY <2>1 DEF Ready, Shapes
<1>2. PICK e, d : e = entered(cpu) /\ d = dup_entered(cpu)
  OBVIOUS
<1>3. e \in Cpu /\ d \in Cpu
  BY <1>1, <1>2, EnteredCpu
<1> QED
  BY <1>2, <1>3, ArgumentForgotten

\* A function of C that a handler calls, and the way back from it.
LEMMA Handling ==
    ASSUME Shapes, NEW n, InRegion(cpu, n), NEW result, result \in Nat, NEW junk, junk \in Nat,
           NEW t, t = exited(returned(entered(cpu), result, junk))
    PROVE  /\ InRegion(t, n) /\ UMRegisters(t) = UMRegisters(cpu) /\ t.reg[0] = result
           /\ t.reg[14] = cpu.reg[14] /\ t.reg[30] = cpu.reg[30]
<1>1. Ready(cpu) /\ cpu.reg[27] = Region(n)
  BY DEF InRegion
<1>2. cpu \in Cpu /\ Len(cpu.stack) <= Depth /\ host \in {"linux", "darwin"}
  <2>1. Len(run_entered(Called).stack) = Depth /\ Depth \in Nat
    BY Calling DEF Depth
  <2> QED
    BY <1>1, <2>1 DEF Ready, Shapes
<1>3. Back(cpu, t, Spared, result)
  BY <1>2, HandlerReturns
<1>4. /\ t \in Cpu /\ t.stack = cpu.stack /\ t.reg[0] = result
      /\ \A q \in Spared : t.reg[q] = cpu.reg[q]
  BY <1>3 DEF Back
<1>5. Relied \subseteq Spared /\ 14 \in Spared /\ 27 \in Spared /\ 30 \in Spared
  BY DEF Relied, Spared
<1>6. Holds(cpu, t)
  BY <1>4, <1>5 DEF Holds
<1>7. Ready(t) /\ UMRegisters(t) = UMRegisters(cpu)
  BY <1>1, <1>6, HoldsReady
<1> QED
  BY <1>1, <1>4, <1>5, <1>7 DEF InRegion

LEMMA Defaulting ==
    ASSUME NEW c, NEW n, InRegion(c, n), NEW t, t = restore_default_opcode(c)
    PROVE  /\ Chunky(t, n) /\ UMRegisters(t) = UMRegisters(c)
           /\ t.reg[0] = c.reg[0] /\ t.reg[30] = c.reg[30]
<1>1. 14 \in Register /\ 0 \in Register \ {14} /\ 30 \in Register \ {14}
  BY DEF Register
<1>2. PICK v \in Nat : v = OP_DUPLICATE
  BY Numbers
<1>3. c \in Cpu
  BY DEF InRegion, Ready
<1>4. Leaves(c, c, {14})
  BY <1>3, LeavesAll
<1>5. t = Set(c, 14, v)
  BY <1>2 DEF restore_default_opcode
<1>6. /\ Leaves(c, t, {14}) /\ t.reg[14] = v
      /\ \A p \in Register \ {14} : t.reg[p] = c.reg[p]
  BY <1>1, <1>4, <1>5, LeavesMore
<1>7. InRegion(t, n) /\ UMRegisters(t) = UMRegisters(c)
  BY <1>6, LeavesInRegion
<1> QED
  BY <1>1, <1>2, <1>6, <1>7 DEF Chunky

\* Back in the chunk, or at the end of it.
Reenters(bytes) ==
    /\ Chunky(cpu', regions) /\ UMRegisters(cpu') = UMRegisters(cpu) /\ pc' = Behind(bytes)
    /\ UNCHANGED <<host, code, regions, begun, left>>

LEMMA MapDoes ==
    ASSUME ArmInv, map
    PROVE  /\ Mapping /\ LastC \in U32 /\ Reenters(8) /\ UNCHANGED out
           /\ MapSegment(LastC) /\ Requested(LastC) /\ FitsHeap(4 * LastC)
           /\ served(Wrap(4 * LastC)) \in U32
           /\ Wrap(cpu'.reg[0]) = served(Wrap(4 * LastC))
<1>1. Mapping
  BY AtLabel DEF map
<1>2. /\ InRegion(cpu, regions) /\ cpu.reg[14] = OP_DUPLICATE /\ Fetched
      /\ cpu.reg[0] = LastC /\ cpu.reg[30] = Behind(8)
      /\ Requested(LastC) /\ FitsHeap(4 * LastC) /\ HeapInv /\ Shapes
  BY <1>1 DEF Mapping, Chunky, ArmInv
<1>3. LastC \in U32
  BY <1>2, LastFacts
<1>4. Wrap(cpu.reg[0]) = LastC
  BY <1>2, <1>3, WordNat
<1>5. PICK result : result = served(Wrap(4 * LastC))
  OBVIOUS
<1>6. PICK junk \in Junk :
         Return(exited(returned(given_usable(entered(cpu)), Narrow(result, junk), junk)))
  BY <1>4, <1>5 DEF map
<1>7. MapSegment(LastC) /\ UNCHANGED <<host, code, regions, out, begun, left>>
  BY <1>4 DEF map
<1>8. result \in U32 /\ junk \in Nat
  BY <1>2, <1>3, <1>5, ServedType, ArmJitAssumption
<1>9. PICK x : x = Narrow(result, junk) /\ x \in Nat /\ Wrap(x) = result
  BY <1>8, NarrowWraps
<1>10. cpu' = exited(returned(entered(cpu), x, junk)) /\ pc' = cpu'.reg[30]
  <2>1. Ready(cpu)
    BY <1>2 DEF InRegion
  <2> QED
    BY <1>2, <1>6, <1>9, <2>1, CallWithUsable DEF Return
<1>11. PICK t : t = exited(returned(entered(cpu), x, junk))
  OBVIOUS
<1>12. /\ InRegion(t, regions) /\ UMRegisters(t) = UMRegisters(cpu) /\ t.reg[0] = x
       /\ t.reg[14] = cpu.reg[14] /\ t.reg[30] = cpu.reg[30]
  BY <1>2, <1>8, <1>9, <1>11, Handling
<1>13. cpu' = t
  BY <1>10, <1>11
<1>14. Reenters(8)
  BY <1>2, <1>7, <1>10, <1>12, <1>13 DEF Reenters, Chunky
<1> QED
  BY <1>1, <1>2, <1>3, <1>5, <1>7, <1>8, <1>9, <1>12, <1>13, <1>14

LEMMA UnmapDoes ==
    ASSUME ArmInv, unmap
    PROVE  /\ Unmapping /\ LastC \in mapped /\ UnmapSegment(LastC)
           /\ Reenters(12) /\ UNCHANGED out
<1>1. Unmapping /\ host = "linux"
  <2>1. pc = large_op /\ cpu.reg[14] = OP_UNMAP
    BY DEF unmap, Dispatch
  <2>2. OP_UNMAP \notin {OP_OUT, OP_IN, OP_HALT, OP_DUPLICATE}
    BY Numbers
  <2> QED
    BY <2>1, <2>2, AtLabel DEF Printing, Reading, Halting, Loading, Chunky
<1>2. /\ InRegion(cpu, regions) /\ Fetched /\ cpu.reg[0] = LastC /\ LastC \in mapped
      /\ cpu.reg[30] = Behind(12) /\ Shapes
  <2>1. host # "darwin"
    BY <1>1
  <2> QED
    BY <1>1, <2>1 DEF Unmapping, ArmInv
<1>3. LastC \in U32
  BY <1>2, LastFacts
<1>4. Wrap(cpu.reg[0]) = LastC
  BY <1>2, <1>3, WordNat
<1>5. PICK junk \in Junk :
         Return(restore_default_opcode(exited(returned(entered(cpu), junk, junk))))
  BY DEF unmap
<1>6. UnmapSegment(LastC) /\ UNCHANGED <<host, code, regions, out, begun, left>>
  BY <1>4 DEF unmap
<1>7. junk \in Nat
  BY ArmJitAssumption
<1>8. PICK t, u : t = exited(returned(entered(cpu), junk, junk)) /\ u = restore_default_opcode(t)
  OBVIOUS
<1>9. /\ InRegion(t, regions) /\ UMRegisters(t) = UMRegisters(cpu)
      /\ t.reg[30] = cpu.reg[30]
  BY <1>2, <1>7, <1>8, Handling
<1>10. /\ Chunky(u, regions) /\ UMRegisters(u) = UMRegisters(t) /\ u.reg[30] = t.reg[30]
  BY <1>8, <1>9, Defaulting
<1>11. cpu' = u /\ pc' = cpu'.reg[30]
  BY <1>5, <1>8 DEF Return
<1>12. Reenters(12)
  BY <1>2, <1>6, <1>9, <1>10, <1>11 DEF Reenters
<1> QED
  BY <1>1, <1>2, <1>6, <1>12

LEMMA DarwinUnmapDoes ==
    ASSUME ArmInv, handle_unmap
    PROVE  /\ Unmapping /\ LastC \in mapped /\ UnmapSegment(LastC) /\ host = "darwin"
           /\ Reenters(8) /\ UNCHANGED out
<1>1. Unmapping /\ host = "darwin"
  BY AtLabel DEF handle_unmap
<1>2. /\ InRegion(cpu, regions) /\ Fetched /\ cpu.reg[0] = LastC /\ LastC \in mapped
      /\ cpu.reg[30] = Behind(8) /\ cpu.reg[14] = OP_DUPLICATE /\ Shapes
  <2>1. host # "linux"
    BY <1>1
  <2> QED
    BY <1>1, <2>1 DEF Unmapping, ArmInv
<1>3. LastC \in U32
  BY <1>2, LastFacts
<1>4. Wrap(cpu.reg[0]) = LastC
  BY <1>2, <1>3, WordNat
<1>5. PICK junk \in Junk : Return(exited(returned(entered(cpu), junk, junk)))
  BY DEF handle_unmap
<1>6. UnmapSegment(LastC) /\ UNCHANGED <<host, code, regions, out, begun, left>>
  BY <1>4 DEF handle_unmap
<1>7. junk \in Nat
  BY ArmJitAssumption
<1>8. PICK t : t = exited(returned(entered(cpu), junk, junk))
  OBVIOUS
<1>9. /\ InRegion(t, regions) /\ UMRegisters(t) = UMRegisters(cpu)
      /\ t.reg[14] = cpu.reg[14] /\ t.reg[30] = cpu.reg[30]
  BY <1>2, <1>7, <1>8, Handling
<1>10. cpu' = t /\ pc' = cpu'.reg[30]
  BY <1>5, <1>8 DEF Return
<1>11. Reenters(8)
  BY <1>2, <1>6, <1>9, <1>10 DEF Reenters, Chunky
<1> QED
  BY <1>1, <1>2, <1>6, <1>11

LEMMA PrintDoes ==
    ASSUME ArmInv, print_out
    PROVE  /\ Printing /\ LastC \in U32 /\ LastC < BYTE /\ Reenters(12)
           /\ out' = Append(out, LastC % BYTE) /\ UNCHANGED vars
<1>1. Printing
  <2>1. pc = large_op /\ cpu.reg[14] = OP_OUT
    BY DEF print_out, Dispatch
  <2>2. OP_OUT \notin {OP_UNMAP, OP_IN, OP_HALT, OP_DUPLICATE}
    BY Numbers
  <2> QED
    BY <2>1, <2>2, AtLabel DEF Unmapping, Reading, Halting, Loading, Chunky
<1>2. /\ InRegion(cpu, regions) /\ Fetched /\ cpu.reg[0] = LastC /\ LastC < BYTE
      /\ cpu.reg[30] = Behind(12) /\ Shapes
  BY <1>1 DEF Printing, ArmInv
<1>3. LastC \in U32
  BY <1>2, LastFacts
<1>4. Wrap(cpu.reg[0]) = LastC
  BY <1>2, <1>3, WordNat
<1>5. PICK junk \in Junk :
         Return(restore_default_opcode(exited(returned(entered(cpu), Narrow(LastC, junk), junk))))
  BY <1>4 DEF print_out
<1>6. /\ out' = Append(out, LastC % BYTE)
      /\ UNCHANGED <<vars, host, code, regions, begun, left>>
  BY <1>4 DEF print_out
<1>7. PICK x : x = Narrow(LastC, junk) /\ x \in Nat
  BY <1>3, NarrowWraps, ArmJitAssumption
<1>8. PICK t, u : t = exited(returned(entered(cpu), x, junk)) /\ u = restore_default_opcode(t)
  OBVIOUS
<1>9. junk \in Nat
  BY ArmJitAssumption
<1>10. /\ InRegion(t, regions) /\ UMRegisters(t) = UMRegisters(cpu)
       /\ t.reg[30] = cpu.reg[30]
  BY <1>2, <1>7, <1>8, <1>9, Handling
<1>11. /\ Chunky(u, regions) /\ UMRegisters(u) = UMRegisters(t) /\ u.reg[30] = t.reg[30]
  BY <1>8, <1>10, Defaulting
<1>12. cpu' = u /\ pc' = cpu'.reg[30]
  BY <1>5, <1>7, <1>8 DEF Return
<1>13. Reenters(12)
  BY <1>2, <1>6, <1>10, <1>11, <1>12 DEF Reenters
<1> QED
  BY <1>1, <1>2, <1>3, <1>6, <1>13

LEMMA ReadDoes ==
    ASSUME ArmInv, read_char
    PROVE  /\ Reading /\ Reenters(8) /\ UNCHANGED <<vars, out>>
           /\ Wrap(cpu'.reg[0]) \in Input
<1>1. Reading
  <2>1. pc = large_op /\ cpu.reg[14] = OP_IN
    BY DEF read_char, Dispatch
  <2>2. OP_IN \notin {OP_UNMAP, OP_OUT, OP_HALT, OP_DUPLICATE}
    BY Numbers
  <2> QED
    BY <2>1, <2>2, AtLabel DEF Unmapping, Printing, Halting, Loading, Chunky
<1>2. InRegion(cpu, regions) /\ cpu.reg[30] = Behind(8) /\ Shapes
  BY <1>1 DEF Reading, ArmInv
<1>3. PICK value \in Input, junk \in Junk :
         Return(restore_default_opcode(exited(returned(entered(cpu), Narrow(value, junk), junk))))
  BY DEF read_char
<1>4. UNCHANGED <<vars, host, code, regions, out, begun, left>>
  BY DEF read_char
<1>5. PICK x : x = Narrow(value, junk) /\ x \in Nat /\ Wrap(x) = value
  BY NarrowWraps, ArmJitAssumption
<1>6. PICK t, u : t = exited(returned(entered(cpu), x, junk)) /\ u = restore_default_opcode(t)
  OBVIOUS
<1>7. junk \in Nat
  BY ArmJitAssumption
<1>8. /\ InRegion(t, regions) /\ UMRegisters(t) = UMRegisters(cpu) /\ t.reg[0] = x
      /\ t.reg[30] = cpu.reg[30]
  BY <1>2, <1>5, <1>6, <1>7, Handling
<1>9. /\ Chunky(u, regions) /\ UMRegisters(u) = UMRegisters(t)
      /\ u.reg[0] = t.reg[0] /\ u.reg[30] = t.reg[30]
  BY <1>6, <1>8, Defaulting
<1>10. cpu' = u /\ pc' = cpu'.reg[30]
  BY <1>3, <1>5, <1>6 DEF Return
<1>11. Reenters(8)
  BY <1>2, <1>4, <1>8, <1>9, <1>10 DEF Reenters
<1> QED
  BY <1>1, <1>4, <1>5, <1>8, <1>9, <1>10, <1>11

LEMMA HaltDoes ==
    ASSUME ArmInv, halt
    PROVE  /\ Halting /\ Ready(cpu') /\ cpu'.reg[27] = 0 /\ UMRegisters(cpu') = UMRegisters(cpu)
           /\ pc' = loop /\ UNCHANGED <<vars, host, code, regions, out, begun, left>>
<1>1. Halting
  <2>1. pc = large_op /\ cpu.reg[14] = OP_HALT
    BY DEF halt, Dispatch
  <2>2. OP_HALT \notin {OP_UNMAP, OP_OUT, OP_IN, OP_DUPLICATE}
    BY Numbers
  <2> QED
    BY <2>1, <2>2, AtLabel DEF Unmapping, Printing, Reading, Loading, Chunky
<1>2. Ready(cpu) /\ cpu \in Cpu
  BY <1>1 DEF Halting, InRegion, Ready
<1>3. PICK t : t = Set(cpu, 27, 0)
  OBVIOUS
<1>4. Leaves(cpu, t, {27}) /\ t.reg[27] = 0
  <2>1. Leaves(cpu, cpu, {27})
    BY <1>2, LeavesAll
  <2>2. 27 \in Register /\ 27 \in {27} /\ 0 \in Nat
    BY DEF Register
  <2> QED
    BY <1>3, <2>1, <2>2, LeavesMore
<1>5. Ready(t) /\ UMRegisters(t) = UMRegisters(cpu)
  BY <1>2, <1>4, LeavesHolds, HoldsReady
<1>6. cpu' = t
  BY <1>3 DEF halt, stop
<1> QED
  BY <1>1, <1>4, <1>5, <1>6 DEF halt

\* A number that is not Known is OP_DUPLICATE.
LEMMA DuplicatesLoads ==
    ASSUME ArmInv, Duplicates
    PROVE  /\ Loading /\ Fetched /\ opcode(last) = 12 /\ cpu.reg[0] = LastB
           /\ cpu.reg[10] = LastC /\ Wrap(cpu.reg[0]) = LastB
           /\ LastB \in U32 /\ LastC \in U32 /\ Chunky(cpu, regions)
           /\ LastB # 0 => LastB \in mapped /\ SizeOf(LastB) # 0 /\ regions < MaxRegions
<1>1. Loading
  <2>1. pc = large_op /\ cpu.reg[14] \notin Known
    BY DEF Duplicates
  <2>2. {OP_OUT, OP_IN, OP_HALT} \subseteq Known /\ (host = "linux" => OP_UNMAP \in Known)
    BY DEF Known
  <2> QED
    BY <2>1, <2>2, AtLabel DEF Unmapping, Printing, Reading, Halting
<1>2. /\ Fetched /\ opcode(last) = 12 /\ cpu.reg[0] = LastB /\ cpu.reg[10] = LastC
      /\ Chunky(cpu, regions)
      /\ LastB # 0 => LastB \in mapped /\ SizeOf(LastB) # 0 /\ regions < MaxRegions
  BY <1>1 DEF Duplicates, Loading
<1>3. LastB \in U32 /\ LastC \in U32
  BY <1>2, LastFacts DEF Chunky
<1> QED
  BY <1>1, <1>2, <1>3, WordNat

\* Around vs_load_program: x9 and x10 survive it, and the new region is in x27.
LEMMA Reloading ==
    ASSUME Shapes, NEW n, Chunky(cpu, n), NEW region, region \in Nat, NEW junk, junk \in Nat,
           NEW back, back = returned(dup_entered(cpu), region, junk),
           NEW t, t = dup_exited(Set(back, 27, back.reg[0]))
    PROVE  /\ \A k : region = Region(k) => Chunky(t, k)
           /\ UMRegisters(t) = UMRegisters(cpu) /\ t.reg[10] = cpu.reg[10]
<1>1. Ready(cpu) /\ cpu.reg[14] = OP_DUPLICATE
  BY DEF Chunky, InRegion
<1>2. cpu \in Cpu /\ Len(cpu.stack) <= Depth /\ host \in {"linux", "darwin"}
  <2>1. Len(run_entered(Called).stack) = Depth /\ Depth \in Nat
    BY Calling DEF Depth
  <2> QED
    BY <1>1, <2>1 DEF Ready, Shapes
<1>3. Reloaded(cpu, t, region)
  BY <1>2, LoadReturns
<1>4. /\ t \in Cpu /\ t.stack = cpu.stack /\ t.reg[27] = region
      /\ \A q \in {9, 10} \cup (Spared \ {27}) : t.reg[q] = cpu.reg[q]
  BY <1>3 DEF Reloaded, Back
<1>5. Relied \subseteq {9, 10} \cup (Spared \ {27}) /\ 14 \in Spared \ {27}
  BY DEF Relied, Spared
<1>6. Holds(cpu, t) /\ t.reg[14] = cpu.reg[14] /\ t.reg[10] = cpu.reg[10]
  BY <1>4, <1>5 DEF Holds
<1>7. Ready(t) /\ UMRegisters(t) = UMRegisters(cpu)
  BY <1>1, <1>6, HoldsReady
<1> QED
  BY <1>1, <1>4, <1>6, <1>7 DEF Chunky, InRegion

LEMMA ReloadDoes ==
    ASSUME ArmInv, load_program
    PROVE  /\ Loading /\ Fetched /\ opcode(last) = 12 /\ LastB \in mapped /\ LastB # 0
           /\ LastB \in U32 /\ LastC \in U32 /\ cpu.reg[10] = LastC
           /\ SizeOf(LastB) # 0 /\ LoadSegment(LastB) /\ regions < MaxRegions
           /\ UNCHANGED <<host, out, begun, left>>
           /\ \/ aborted' /\ UNCHANGED <<cpu, pc, code, regions>>
              \/ /\ ~aborted' /\ Chunky(cpu', regions + 1)
                 /\ UMRegisters(cpu') = UMRegisters(cpu) /\ cpu'.reg[10] = LastC
                 /\ pc' = loop /\ code' = Program0(mem') /\ regions' = regions + 1
<1>1. Duplicates /\ Wrap(cpu.reg[0]) # 0 /\ LoadSegment(Wrap(cpu.reg[0]))
  BY DEF load_program
<1>2. /\ Loading /\ Fetched /\ opcode(last) = 12 /\ Wrap(cpu.reg[0]) = LastB
      /\ cpu.reg[10] = LastC /\ LastB \in U32 /\ LastC \in U32 /\ Chunky(cpu, regions)
      /\ LastB # 0 => LastB \in mapped /\ SizeOf(LastB) # 0 /\ regions < MaxRegions
  BY <1>1, DuplicatesLoads
<1>3. PICK k \in Nat : k = regions + 1
  BY RangeOfRegions DEF ArmInv
<1>4. ASSUME ~aborted'
      PROVE  /\ Chunky(cpu', k) /\ UMRegisters(cpu') = UMRegisters(cpu)
             /\ cpu'.reg[10] = cpu.reg[10]
             /\ pc' = loop /\ code' = Program0(mem') /\ regions' = k
  <2>1. /\ \E junk \in Junk :
              LET back == returned(given_usable(dup_entered(cpu)), Region(k), junk)
              IN  cpu' = dup_exited(Set(back, 27, back.reg[0]))
        /\ pc' = loop /\ code' = Program0(mem') /\ regions' = k
    BY <1>3, <1>4 DEF load_program
  <2>2. PICK junk, back, region :
           /\ junk \in Junk /\ region = Region(k)
           /\ back = returned(dup_entered(cpu), region, junk)
           /\ cpu' = dup_exited(Set(back, 27, back.reg[0]))
    <3>1. Ready(cpu) /\ Shapes
      BY <1>2 DEF Chunky, InRegion, ArmInv
    <3> QED
      BY <2>1, <3>1, CallWithUsable
  <2>3. junk \in Nat /\ region \in Nat /\ Shapes
    BY <2>2, RegionNat, ArmJitAssumption DEF ArmInv
  <2>4. PICK t : t = dup_exited(Set(back, 27, back.reg[0]))
    OBVIOUS
  <2>5. /\ \A l : region = Region(l) => Chunky(t, l)
        /\ UMRegisters(t) = UMRegisters(cpu) /\ t.reg[10] = cpu.reg[10]
    BY <1>2, <2>2, <2>3, <2>4, Reloading
  <2> QED
    BY <2>1, <2>2, <2>4, <2>5
<1>5. UNCHANGED <<host, out, begun, left>>
  BY DEF load_program
<1>6. ASSUME ~(~aborted') PROVE aborted' /\ UNCHANGED <<cpu, pc, code, regions>>
  BY <1>6 DEF load_program
<1> QED
  BY <1>1, <1>2, <1>3, <1>4, <1>5, <1>6

-----------------------------------------------------------------------------
\* Steps of the machine are steps of Virt32.

\* Every step of the machine is one of the allocator's, or leaves it alone.
LEMMA StepUsesVirt32 ==
    ASSUME ArmInv, ArmNext
    PROVE  [Next]_vars
<1>1. CASE Enter \/ Finish \/ Branch \/ print_out \/ read_char \/ halt \/ jump
  BY <1>1 DEF Enter, Finish, Branch, print_out, read_char, halt, jump
<1>2. CASE Straight
  <2>1. CASE Inside # 0
    BY <1>2, <2>1, ResumesDoes
  <2>2. CASE Inside = 0 /\ opcode(word) # 2
    <3>1. opcode(word) \in {0, 1, 3, 4, 5, 6, 13}
      BY <1>2, <2>2, StraightPlain
    <3>2. PICK r, v : Result(r, v)
      BY <3>1, HasResult
    <3> QED
      BY <1>2, <2>2, <3>2, StraightDoes
  <2>3. CASE Inside = 0 /\ opcode(word) = 2
    <3>1. PICK id, k, v : id = A /\ k = B /\ v = C
      OBVIOUS
    <3>2. /\ Starts /\ InSegment(id, k) /\ mem' = [mem EXCEPT ![Cell(id + 4 * k)] = v]
          /\ UNCHANGED <<alloc, kernel_virtual_size, aborted>>
      BY <1>2, <2>3, <3>1, StoreDoes
    <3>3. ~aborted /\ k \in U32 /\ v \in U32
      BY <3>1, <3>2 DEF Starts
    <3>4. StoreWord(id, k, v)
      BY <3>2, <3>3 DEF StoreWord, set_at
    <3>5. k \in Offset /\ v \in Value
      BY <3>3, ArmJitAssumption
    <3> QED
      BY <3>2, <3>4, <3>5 DEF Next, Access, InSegment
  <2> QED
    BY <2>1, <2>2, <2>3
<1>3. CASE map
  <2>1. PICK n : n = LastC
    OBVIOUS
  <2>2. n \in U32 /\ Requested(n) /\ FitsHeap(4 * n) /\ MapSegment(n)
    BY <1>3, <2>1, MapDoes
  <2>3. n \in Request
    BY <2>2, ArmJitAssumption
  <2> QED
    BY <2>2, <2>3 DEF Next
<1>4. CASE unmap
  BY <1>4, UnmapDoes DEF Next, Access
<1>5. CASE handle_unmap
  BY <1>5, DarwinUnmapDoes DEF Next, Access
<1>6. CASE load_program
  BY <1>6, ReloadDoes DEF Next, Access
<1> QED
  BY <1>1, <1>2, <1>3, <1>4, <1>5, <1>6 DEF ArmNext

LEMMA HeapKeeps ==
    ASSUME HeapInv, [Next]_vars
    PROVE  HeapInv'
BY NextKeeps, StutterKeeps

\* What is compiled is segment 0.
LEMMA CompiledWords == HeapInv => Program0(mem) = Memory[0] /\ Program0(mem) \in Seq(U32)
<1> SUFFICES ASSUME HeapInv PROVE Program0(mem) = Memory[0] /\ Program0(mem) \in Seq(U32)
  OBVIOUS
<1>1. 0 \in Segments /\ 0 \in Nat
  BY DEF Segments
<1>2. Memory[0] \in Seq(U32)
  BY <1>1, ReadMemory
<1>3. SizeOf(0) \in Nat
  BY SegmentFacts
<1>4. \A i \in 1..SizeOf(0) \div 4 : 0 + 4 * (i - 1) = 4 * (i - 1)
  BY <1>3
<1>5. Memory[0] = [i \in 1..SizeOf(0) \div 4 |-> get_at(mem, 0 + 4 * (i - 1))]
  BY <1>1 DEF Memory, Contents
<1>6. Program0(mem) = Memory[0]
  BY <1>4, <1>5 DEF Program0, SizeOf, get_at
<1> QED
  BY <1>2, <1>6

-----------------------------------------------------------------------------
\* ArmInv is inductive.

LEMMA Placing ==
    ASSUME NEW n, n \in Nat, NEW k, k \in Nat, NEW j, j \in 0..11, regions' = n,
           pc' = Region(n) + CHUNK * k + j
    PROVE  (Region(regions) <= pc)' /\ Index' = k /\ Inside' = j /\ pc' \in Nat
<1>1. PICK b \in Nat, l \in Nat, i \in 0..11 : b = Region(n) /\ l = k /\ i = j
  BY RegionNat
<1>2. PICK p \in Nat : p = b + 12 * l + i
  OBVIOUS
<1>a. p = pc'
  BY <1>1, <1>2 DEF CHUNK
<1>3. p \in Nat /\ b <= p /\ (p - b) \div CHUNK = l /\ (p - b) % CHUNK = i
  <2>1. p - b = l * 12 + i /\ b <= p
    BY <1>2
  <2>2. (l * 12 + i) \div 12 = l /\ (l * 12 + i) % 12 = i
    OBVIOUS
  <2> QED
    BY <2>1, <2>2 DEF CHUNK
<1> QED
  BY <1>1, <1>a, <1>3 DEF Index, Inside

\* At the chunk number k.
Arrives(k) ==
    /\ Chunky(cpu', regions) /\ regions' = regions /\ code' = code /\ host' = host
    /\ k \in Nat /\ pc' = Region(regions) + CHUNK * k + 0

LEMMA Arriving ==
    ASSUME ArmInv, NEW k, Arrives(k), begun' \in 0..GB4, out' \in Seq(0..BYTE - 1)
    PROVE  Shapes' /\ Fetching' /\ Index' = k
<1>1. regions \in Nat /\ regions' = regions
  BY RangeOfRegions DEF ArmInv, Arrives
<1>2. (Region(regions) <= pc)' /\ Index' = k /\ Inside' = 0 /\ pc' \in Nat
  <2>1. PICK n, j : n = regions /\ j = 0 /\ n \in Nat /\ j \in 0..11 /\ regions' = n
    BY <1>1
  <2>2. pc' = Region(n) + CHUNK * k + j /\ k \in Nat
    BY <2>1 DEF Arrives
  <2> QED
    BY <2>1, <2>2, Placing
<1>3. cpu' \in Cpu
  BY DEF Arrives, Chunky, InRegion, Ready
<1>4. Fetching'
  BY <1>1, <1>2 DEF Arrives, Fetching
<1> QED
  BY <1>1, <1>2, <1>3, <1>4 DEF Arrives, ArmInv, Shapes

LEMMA EnterDoes ==
    ASSUME ArmInv, Enter
    PROVE  /\ Looping /\ UMRegisters(cpu') = UMRegisters(cpu) /\ Arrives(cpu.reg[10])
           /\ cpu.reg[10] \in U32
<1>1. Looping
  BY AtLabel DEF Enter, Stopping
<1>2. Chunky(cpu, regions) /\ cpu.reg[10] \in U32
  BY <1>1 DEF Looping
<1>3. regions \in Nat /\ Region(regions) \in Nat
  BY RangeOfRegions, RegionNat DEF ArmInv
<1>4. cpu.reg[10] \in Nat /\ cpu.reg[27] = Region(regions) /\ cpu \in Cpu
  BY <1>2, WordNat DEF Chunky, InRegion, Ready
<1>5. PICK v : v = cpu.reg[10] * CHUNK + cpu.reg[27]
  OBVIOUS
<1>6. v \in Nat /\ v = Region(regions) + CHUNK * cpu.reg[10] + 0
  <2>1. PICK k, b : k = cpu.reg[10] /\ b = Region(regions) /\ k \in Nat /\ b \in Nat
    BY <1>3, <1>4
  <2>2. v = k * 12 + b
    BY <1>4, <1>5, <2>1 DEF CHUNK
  <2> QED
    BY <2>1, <2>2 DEF CHUNK
<1>7. PICK t : t = Jumped(cpu, v)
  OBVIOUS
<1>8. /\ t \in Cpu /\ t.stack = cpu.stack /\ t.reg[0] = v
      /\ \A q \in Register \ {0, 9} : t.reg[q] = cpu.reg[q]
  BY <1>4, <1>6, <1>7, Loops
<1>9. cpu' = t /\ pc' = t.reg[0]
  BY <1>5, <1>7, <1>8 DEF Enter, Jumped
<1>10. Leaves(cpu, t, {0, 9})
  BY <1>8 DEF Leaves
<1>11. Chunky(t, regions) /\ UMRegisters(t) = UMRegisters(cpu)
  BY <1>2, <1>10, LeavesChunky
<1>12. Arrives(cpu.reg[10])
  BY <1>4, <1>6, <1>8, <1>9, <1>11 DEF Arrives, Enter
<1> QED
  BY <1>1, <1>2, <1>9, <1>11, <1>12

LEMMA FinishDoes ==
    ASSUME ArmInv, Finish
    PROVE  Stopping /\ Gone' /\ cpu' \in Cpu /\ left' = UMRegisters(cpu)
<1>1. Stopping
  <2>1. Looping => cpu.reg[27] = Region(regions)
    BY DEF Looping, Chunky, InRegion
  <2>2. Region(regions) # 0
    BY RangeOfRegions, RegionsAbove DEF ArmInv
  <2> QED
    BY <2>1, <2>2, AtLabel DEF Finish
<1>2. Words(cpu) /\ cpu \in Cpu /\ cpu.stack = run_entered(Called).stack
  BY <1>1 DEF Stopping, Ready
<1>3. PICK t : t = done(cpu)
  OBVIOUS
<1>4. /\ t \in Cpu /\ t.stack = <<>> /\ t.reg[30] = Caller(30)
      /\ \A q \in Register \ Volatile : t.reg[q] = Caller(q)
  BY <1>2, <1>3, Restored
<1>5. cpu' = t /\ pc' = t.reg[30] /\ left' = UMRegisters(cpu)
  BY <1>3 DEF Finish
<1>6. UMRegisters(cpu) \in [Reg -> U32]
  BY <1>2 DEF UMRegisters, Words
<1> QED
  BY <1>1, <1>4, <1>5, <1>6 DEF Gone

\* A chunk that has left: what the handler finds.
LEMMA LastAfterBranch ==
    ASSUME ArmInv, Branch, Leaves(cpu, cpu', {0, 10, 14, 30})
    PROVE  /\ Fetched' /\ last' = word /\ Behind(8)' = pc + 8 /\ Behind(12)' = pc + 12
           /\ InRegion(cpu', regions') /\ UMRegisters(cpu') = UMRegisters(cpu)
           /\ LastB' = B /\ LastC' = C /\ B \in U32 /\ C \in U32
           /\ begun' \in 0..GB4 /\ pc \in Nat
<1>1. Starts /\ begun' = Index /\ code' = code /\ regions' = regions /\ mem' = mem
  BY BranchStarts DEF Branch, vars
<1>2. /\ Index \in Nat /\ Index < Len(code) /\ Unchanged /\ Index \in 0..GB4
      /\ Chunky(cpu, regions) /\ pc \in Nat /\ pc = Region(regions) + CHUNK * Index
      /\ reg_b(word) \in Reg /\ reg_c(word) \in Reg /\ B \in U32 /\ C \in U32
  BY <1>1 DEF Starts
<1>3. last' = word
  BY <1>1 DEF last, word
<1>4. Fetched'
  <2>1. SizeOf(0)' = SizeOf(0)
    BY <1>1 DEF SizeOf
  <2>2. get_at(mem, 4 * begun)' = get_at(mem, 4 * Index)
    BY <1>1
  <2> QED
    BY <1>1, <1>2, <1>3, <2>1, <2>2 DEF Fetched, Unchanged
<1>5. Behind(8)' = pc + 8 /\ Behind(12)' = pc + 12
  BY <1>1, <1>2 DEF Behind
<1>6. InRegion(cpu', regions) /\ UMRegisters(cpu') = UMRegisters(cpu)
  BY <1>2, LeavesInRegion DEF Chunky
<1>7. \A r \in Reg : cpu'.reg[R(r)] = cpu.reg[R(r)]
  <2>1. \A r \in Reg : R(r) \in Register \ {0, 10, 14, 30}
    BY Registers
  <2> QED
    BY <2>1 DEF Leaves
<1>8. LastB' = B /\ LastC' = C
  BY <1>2, <1>3, <1>7 DEF LastB, LastC, B, C
<1> QED
  BY <1>1, <1>2, <1>3, <1>4, <1>5, <1>6, <1>8

LEMMA ShapesKept ==
    ASSUME ArmInv, UNCHANGED <<host, code, regions, out>>, cpu' \in Cpu, pc' \in Nat,
           begun' \in 0..GB4
    PROVE  Shapes'
BY DEF ArmInv, Shapes

LEMMA LabelsAreNat ==
    /\ loop \in Nat /\ large_op \in Nat /\ handle_map \in Nat /\ handle_x13 \in Nat
    /\ Caller(30) \in Nat
BY LabelNat DEF Labels

\* A chunk leaves for the handler of its instruction.
LEMMA BranchKeeps ==
    ASSUME ArmInv, Branch
    PROVE  Shapes' /\ Phase'
<1>1. /\ Inside = 0 /\ Starts /\ Meaningful /\ opcode(word) \in {7, 8, 9, 10, 11, 12}
      /\ UNCHANGED <<mem, rec, start_unused, kernel_virtual_size, mapped, aborted>>
      /\ UNCHANGED <<host, code, regions, out, left>>
      /\ host \in {"linux", "darwin"} /\ ~aborted
  BY BranchStarts DEF Branch, vars, ArmInv, Shapes, Starts
<1>2. ASSUME NEW target \in Nat, NEW number, Departs(target, number)
      PROVE  /\ pc' = target /\ cpu'.reg[14] = number /\ Shapes'
             /\ Fetched' /\ last' = word /\ Behind(8)' = pc + 8 /\ Behind(12)' = pc + 12
             /\ InRegion(cpu', regions') /\ LastB' = B /\ LastC' = C
             /\ B \in U32 /\ C \in U32
  <2>1. pc' = target /\ cpu'.reg[14] = number /\ Leaves(cpu, cpu', {0, 10, 14, 30})
    BY <1>2 DEF Departs
  <2>2. /\ Fetched' /\ last' = word /\ Behind(8)' = pc + 8 /\ Behind(12)' = pc + 12
        /\ InRegion(cpu', regions') /\ LastB' = B /\ LastC' = C
        /\ B \in U32 /\ C \in U32 /\ begun' \in 0..GB4
    BY <2>1, LastAfterBranch
  <2>3. cpu' \in Cpu
    BY <2>1 DEF Leaves
  <2>4. Shapes'
    BY <1>1, <1>2, <2>1, <2>2, <2>3, ShapesKept
  <2> QED
    BY <2>1, <2>2, <2>4
<1>3. CASE opcode(word) = 8
  <2>1. Departs(handle_map, OP_DUPLICATE) /\ cpu'.reg[0] = C /\ cpu'.reg[30] = pc + 8
    BY <1>1, <1>3, MapLeaves
  <2>2. /\ pc' = handle_map /\ cpu'.reg[14] = OP_DUPLICATE /\ Shapes'
        /\ Fetched' /\ last' = word /\ Behind(8)' = pc + 8
        /\ InRegion(cpu', regions') /\ LastC' = C
    BY <1>2, <2>1, LabelsAreNat
  <2>3. Requested(C) /\ FitsHeap(4 * C)
    BY <1>1, <1>3 DEF Meaningful
  <2>4. FitsHeap(4 * LastC)'
    BY <1>1, <2>2, <2>3 DEF FitsHeap
  <2>5. Mapping'
    BY <1>3, <2>1, <2>2, <2>3, <2>4 DEF Mapping, Chunky
  <2> QED
    BY <2>2, <2>5 DEF Phase
<1>4. CASE opcode(word) = 9
  <2>1. C \in mapped
    BY <1>1, <1>4 DEF Meaningful
  <2>2. cpu'.reg[0] = C
    BY <1>1, <1>4, UnmapLeaves
  <2>3. CASE host = "linux" /\ Departs(large_op, OP_UNMAP) /\ cpu'.reg[30] = pc + 12
    <3>1. /\ pc' = large_op /\ cpu'.reg[14] = OP_UNMAP /\ Shapes'
          /\ Fetched' /\ last' = word /\ Behind(12)' = pc + 12
          /\ InRegion(cpu', regions') /\ LastC' = C
      BY <1>2, <2>3, LabelsAreNat
    <3>2. Unmapping'
      BY <1>1, <1>4, <2>1, <2>2, <2>3, <3>1 DEF Unmapping
    <3> QED
      BY <3>1, <3>2 DEF Phase
  <2>4. CASE host = "darwin" /\ Departs(handle_x13, OP_DUPLICATE) /\ cpu'.reg[30] = pc + 8
    <3>1. /\ pc' = handle_x13 /\ cpu'.reg[14] = OP_DUPLICATE /\ Shapes'
          /\ Fetched' /\ last' = word /\ Behind(8)' = pc + 8
          /\ InRegion(cpu', regions') /\ LastC' = C
      BY <1>2, <2>4, LabelsAreNat
    <3>2. Unmapping'
      BY <1>1, <1>4, <2>1, <2>2, <2>4, <3>1 DEF Unmapping
    <3> QED
      BY <3>1, <3>2 DEF Phase
  <2> QED
    BY <1>1, <1>4, <2>3, <2>4, UnmapLeaves
<1>5. CASE opcode(word) = 10
  <2>1. Departs(large_op, OP_OUT) /\ cpu'.reg[0] = C /\ cpu'.reg[30] = pc + 12
    BY <1>1, <1>5, PrintLeaves
  <2>2. /\ pc' = large_op /\ cpu'.reg[14] = OP_OUT /\ Shapes'
        /\ Fetched' /\ last' = word /\ Behind(12)' = pc + 12
        /\ InRegion(cpu', regions') /\ LastC' = C
    BY <1>2, <2>1, LabelsAreNat
  <2>3. C < BYTE
    BY <1>1, <1>5 DEF Meaningful
  <2>4. Printing'
    BY <1>5, <2>1, <2>2, <2>3 DEF Printing
  <2> QED
    BY <2>2, <2>4 DEF Phase
<1>6. CASE opcode(word) = 11
  <2>1. Departs(large_op, OP_IN) /\ cpu'.reg[30] = pc + 8
    BY <1>1, <1>6, ReadLeaves
  <2>2. /\ pc' = large_op /\ cpu'.reg[14] = OP_IN /\ Shapes'
        /\ Fetched' /\ last' = word /\ Behind(8)' = pc + 8 /\ InRegion(cpu', regions')
    BY <1>2, <2>1, LabelsAreNat
  <2>3. Reading'
    BY <1>6, <2>1, <2>2 DEF Reading
  <2> QED
    BY <2>2, <2>3 DEF Phase
<1>7. CASE opcode(word) = 7
  <2>1. Departs(large_op, OP_HALT)
    BY <1>1, <1>7, HaltLeaves
  <2>2. /\ pc' = large_op /\ cpu'.reg[14] = OP_HALT /\ Shapes'
        /\ Fetched' /\ last' = word /\ InRegion(cpu', regions')
    BY <1>2, <2>1, LabelsAreNat
  <2>3. Halting'
    BY <1>7, <2>2 DEF Halting
  <2> QED
    BY <2>2, <2>3 DEF Phase
<1>8. CASE opcode(word) = 12
  <2>1. Departs(large_op, OP_DUPLICATE) /\ cpu'.reg[0] = B /\ cpu'.reg[10] = C
    BY <1>1, <1>8, LoadLeaves
  <2>2. /\ pc' = large_op /\ cpu'.reg[14] = OP_DUPLICATE /\ Shapes'
        /\ Fetched' /\ last' = word
        /\ InRegion(cpu', regions') /\ LastB' = B /\ LastC' = C
        /\ B \in U32 /\ C \in U32
    BY <1>2, <2>1, LabelsAreNat
  <2>3. B = 0 \/ (B \in mapped /\ SizeOf(B) # 0)
    BY <1>1, <1>8 DEF Meaningful
  <2>4. B # 0 => regions < MaxRegions
    BY <1>1, <1>8 DEF Branch, Runs, Bounded
  <2>5. SizeOf(LastB)' = SizeOf(B)
    BY <1>1, <2>2 DEF SizeOf
  <2>6. Loading'
    BY <1>1, <1>8, <2>1, <2>2, <2>3, <2>4, <2>5 DEF Loading, Chunky
  <2> QED
    BY <2>2, <2>6 DEF Phase
<1> QED
  BY <1>1, <1>3, <1>4, <1>5, <1>6, <1>7, <1>8

\* A chunk that does not leave, and what is left of one behind a handler's return.
LEMMA StraightKeeps ==
    ASSUME ArmInv, Straight
    PROVE  Shapes' /\ Fetching' /\ ~Returned' /\ Index' = Index + 1
<1>1. regions \in Nat /\ Region(regions) \in Nat /\ begun \in 0..GB4
      /\ out \in Seq(0..BYTE - 1)
  BY RangeOfRegions, RegionNat DEF ArmInv, Shapes
<1>2. \E k : Arrives(k) /\ k = Index + 1 /\ begun' \in 0..GB4 /\ out' = out
  <2>1. CASE Inside = 0
    <3>1. Starts /\ \E f : Continues(f)
      <4>1. CASE opcode(word) = 2
        BY <2>1, <4>1, StoreDoes
      <4>2. CASE opcode(word) # 2
        <5>1. opcode(word) \in {0, 1, 3, 4, 5, 6, 13}
          BY <2>1, <4>2, StraightPlain
        <5>2. PICK r, v : Result(r, v)
          BY <5>1, HasResult
        <5> QED
          BY <2>1, <5>2, StraightDoes
      <4> QED
        BY <4>1, <4>2
    <3>2. /\ Chunky(cpu', regions) /\ pc' = pc + 12 /\ begun' = Index
          /\ UNCHANGED <<host, code, regions, out, left>>
      BY <3>1 DEF Continues
    <3>3. Index \in Nat /\ Index \in 0..GB4 /\ pc = Region(regions) + CHUNK * Index
      BY <3>1 DEF Starts
    <3>4. PICK k \in Nat : k = Index + 1
      BY <3>3
    <3>5. pc' = Region(regions) + CHUNK * k + 0
      BY <1>1, <3>2, <3>3, <3>4 DEF CHUNK
    <3>6. Arrives(k)
      BY <3>2, <3>5 DEF Arrives
    <3> QED
      BY <3>2, <3>3, <3>4, <3>6
  <2>2. CASE Inside # 0
    <3>1. /\ Resuming /\ Chunky(cpu', regions) /\ pc' = pc + 4 /\ begun' = begun
          /\ UNCHANGED <<host, code, regions, out, left>>
      BY <2>2, ResumesDoes
    <3>2. PICK k \in Nat : k = begun + 1
      BY <1>1
    <3>3. pc' = Region(regions) + CHUNK * k + 0
      <4>1. pc = Region(regions) + CHUNK * begun + 8
        BY <3>1 DEF Resuming, Behind
      <4> QED
        BY <1>1, <3>1, <3>2, <4>1 DEF CHUNK
    <3>4. Arrives(k)
      BY <3>1, <3>3 DEF Arrives
    <3>5. Index = begun
      BY <3>1, ResumingInside
    <3> QED
      BY <1>1, <3>1, <3>2, <3>4, <3>5
  <2> QED
    BY <2>1, <2>2
<1>3. PICK k : Arrives(k) /\ k = Index + 1 /\ begun' \in 0..GB4 /\ out' = out
  BY <1>2
<1>4. Shapes' /\ Fetching' /\ Index' = k
  BY <1>1, <1>3, Arriving
<1>5. ~Returned'
  <2>1. (Region(regions) <= pc)'
    BY <1>4 DEF Fetching
  <2>2. regions' = regions /\ regions \in 1..MaxRegions
    BY <1>3 DEF Arrives, ArmInv, Shapes
  <2>3. ~(Region(regions) <= Caller(30))
    BY <2>2, RegionsAbove
  <2> QED
    BY <2>1, <2>2, <2>3 DEF Returned
<1> QED
  BY <1>3, <1>4, <1>5

\* A handler that returns: into the middle of its chunk, or to the end of it.
LEMMA ReentersKeeps ==
    ASSUME ArmInv, Fetched, out' \in Seq(0..BYTE - 1)
    PROVE  /\ Reenters(8) /\ opcode(last) \in {8, 11} \cup (IF host = "darwin" THEN {9} ELSE {})
                => Shapes' /\ Resuming'
           /\ Reenters(12) => Shapes' /\ Fetching' /\ Index' = begun + 1
<1>1. /\ regions \in Nat /\ Region(regions) \in Nat /\ begun \in 0..GB4 /\ begun \in Nat
      /\ begun < Len(code)
  BY RangeOfRegions, RegionNat DEF ArmInv, Shapes, Fetched
<1>2. ASSUME Reenters(8), opcode(last) \in {8, 11} \cup (IF host = "darwin" THEN {9} ELSE {})
      PROVE  Shapes' /\ Resuming'
  <2>1. /\ Chunky(cpu', regions) /\ pc' = Behind(8)
        /\ UNCHANGED <<host, code, regions, begun, left>>
    BY <1>2 DEF Reenters
  <2>2. Behind(8)' = Behind(8) /\ last' = last /\ Behind(8) \in Nat
    BY <1>1, <2>1 DEF Behind, last, CHUNK
  <2>3. Resuming'
    BY <1>1, <1>2, <2>1, <2>2 DEF Resuming
  <2>4. cpu' \in Cpu
    BY <2>1 DEF Chunky, InRegion, Ready
  <2>5. Shapes'
    BY <1>1, <2>1, <2>2, <2>4 DEF ArmInv, Shapes
  <2> QED
    BY <2>3, <2>5
<1>3. ASSUME Reenters(12)
      PROVE  Shapes' /\ Fetching' /\ Index' = begun + 1
  <2>1. /\ Chunky(cpu', regions) /\ pc' = Behind(12)
        /\ UNCHANGED <<host, code, regions, begun, left>>
    BY <1>3 DEF Reenters
  <2>2. PICK k \in Nat : k = begun + 1
    BY <1>1
  <2>3. Behind(12) = Region(regions) + CHUNK * k + 0
    BY <1>1, <2>2 DEF Behind, CHUNK
  <2>4. Arrives(k)
    BY <2>1, <2>3 DEF Arrives
  <2>5. begun' \in 0..GB4
    BY <1>1, <2>1
  <2> QED
    BY <2>2, <2>4, <2>5, Arriving
<1> QED
  BY <1>2, <1>3

-----------------------------------------------------------------------------
\* ArmInv is inductive: the other steps.

LEMMA EnterKeeps ==
    ASSUME ArmInv, Enter
    PROVE  Shapes' /\ Fetching'
<1>1. PICK k : k = cpu.reg[10]
  OBVIOUS
<1>2. Arrives(k)
  BY <1>1, EnterDoes
<1>3. begun' \in 0..GB4 /\ out' \in Seq(0..BYTE - 1)
  BY DEF Enter, ArmInv, Shapes
<1> QED
  BY <1>2, <1>3, Arriving

LEMMA FinishKeeps ==
    ASSUME ArmInv, Finish
    PROVE  Shapes' /\ Gone'
<1>1. Gone' /\ cpu' \in Cpu
  BY FinishDoes
<1>2. pc' \in Nat
  BY <1>1, LabelsAreNat DEF Gone
<1>3. UNCHANGED <<host, code, regions, out, begun>>
  BY DEF Finish
<1>4. begun' \in 0..GB4
  BY <1>3 DEF ArmInv, Shapes
<1> QED
  BY <1>1, <1>2, <1>3, <1>4, ShapesKept

LEMMA HandlersKeep ==
    ASSUME ArmInv
    PROVE  /\ map => Shapes' /\ Resuming'
           /\ unmap => Shapes' /\ Fetching' /\ Index' = begun + 1
           /\ handle_unmap => Shapes' /\ Resuming'
           /\ print_out => Shapes' /\ Fetching' /\ Index' = begun + 1
           /\ read_char => Shapes' /\ Resuming'
<1>1. out \in Seq(0..BYTE - 1)
  BY DEF ArmInv, Shapes
<1>2. ASSUME map PROVE Shapes' /\ Resuming'
  <2>1. Mapping /\ Reenters(8) /\ UNCHANGED out
    BY <1>2, MapDoes
  <2> QED
    BY <1>1, <2>1, ReentersKeeps DEF Mapping
<1>3. ASSUME unmap PROVE Shapes' /\ Fetching' /\ Index' = begun + 1
  <2>1. Unmapping /\ Reenters(12) /\ UNCHANGED out
    BY <1>3, UnmapDoes
  <2> QED
    BY <1>1, <2>1, ReentersKeeps DEF Unmapping
<1>4. ASSUME handle_unmap PROVE Shapes' /\ Resuming'
  <2>1. Unmapping /\ Reenters(8) /\ UNCHANGED out /\ host = "darwin"
    BY <1>4, DarwinUnmapDoes
  <2> QED
    BY <1>1, <2>1, ReentersKeeps DEF Unmapping
<1>5. ASSUME print_out PROVE Shapes' /\ Fetching' /\ Index' = begun + 1
  <2>1. Printing /\ Reenters(12) /\ out' = Append(out, LastC % BYTE) /\ LastC \in U32
    BY <1>5, PrintDoes
  <2>2. PICK v : v = LastC
    OBVIOUS
  <2>3. v \in Nat
    BY <2>1, <2>2, WordNat
  <2>4. v % BYTE \in 0..BYTE - 1
    BY <2>3, IsaAssumption
  <2>5. out' \in Seq(0..BYTE - 1)
    BY <1>1, <2>1, <2>2, <2>4
  <2> QED
    BY <2>1, <2>5, ReentersKeeps DEF Printing
<1>6. ASSUME read_char PROVE Shapes' /\ Resuming'
  <2>1. Reading /\ Reenters(8) /\ UNCHANGED out
    BY <1>6, ReadDoes
  <2> QED
    BY <1>1, <2>1, ReentersKeeps DEF Reading
<1> QED
  BY <1>2, <1>3, <1>4, <1>5, <1>6

LEMMA HaltKeeps ==
    ASSUME ArmInv, halt
    PROVE  Shapes' /\ Stopping'
<1>1. /\ Halting /\ Ready(cpu') /\ cpu'.reg[27] = 0 /\ pc' = loop
      /\ UNCHANGED <<vars, host, code, regions, out, begun, left>>
  BY HaltDoes
<1>2. Fetched /\ opcode(last) = 7
  BY <1>1 DEF Halting
<1>3. Fetched' /\ last' = last
  BY <1>1, <1>2 DEF Fetched, last, SizeOf, vars
<1>4. Stopping'
  BY <1>1, <1>2, <1>3 DEF Stopping
<1>5. Shapes'
  BY <1>1, ShapesKept, LabelsAreNat DEF Ready, ArmInv, Shapes
<1> QED
  BY <1>4, <1>5

LEMMA JumpKeeps ==
    ASSUME ArmInv, jump
    PROVE  Shapes' /\ Looping'
<1>1. Chunky(cpu, regions) /\ cpu.reg[10] \in U32
  BY DuplicatesLoads DEF jump
<1>2. Looping'
  BY <1>1 DEF jump, Looping
<1>3. Shapes'
  BY LabelsAreNat DEF jump, ArmInv, Shapes
<1> QED
  BY <1>2, <1>3

LEMMA ReloadKeeps ==
    ASSUME ArmInv, HeapInv', load_program
    PROVE  Shapes' /\ IF aborted' THEN Loading' ELSE Looping'
<1>1. /\ Loading /\ LastC \in U32 /\ regions < MaxRegions
      /\ UNCHANGED <<host, out, begun, left>>
      /\ \/ aborted' /\ UNCHANGED <<cpu, pc, code, regions>>
         \/ /\ ~aborted' /\ Chunky(cpu', regions + 1) /\ cpu'.reg[10] = LastC
            /\ pc' = loop /\ code' = Program0(mem') /\ regions' = regions + 1
  BY ReloadDoes
<1>2. CASE aborted' /\ UNCHANGED <<cpu, pc, code, regions>>
  <2>1. Shapes'
    BY <1>1, <1>2 DEF ArmInv, Shapes
  <2>2. Loading'
    BY <1>1, <1>2 DEF Loading
  <2> QED
    BY <1>2, <2>1, <2>2
<1>3. CASE /\ ~aborted' /\ Chunky(cpu', regions + 1) /\ cpu'.reg[10] = LastC
           /\ pc' = loop /\ code' = Program0(mem') /\ regions' = regions + 1
  <2>1. Looping'
    BY <1>1, <1>3 DEF Looping
  <2>2. Program0(mem') \in Seq(U32)
    <3>1. (Program0(mem) \in Seq(U32))'
      BY CompiledWords, PTL
    <3> QED
      BY <3>1
  <2>3. regions + 1 \in 1..MaxRegions
    BY <1>1, ArmJitAssumption DEF ArmInv, Shapes
  <2>4. cpu' \in Cpu
    BY <1>3 DEF Chunky, InRegion, Ready
  <2>5. Shapes'
    BY <1>1, <1>3, <2>2, <2>3, <2>4, LabelsAreNat DEF ArmInv, Shapes
  <2> QED
    BY <1>3, <2>1, <2>5
<1> QED
  BY <1>1, <1>2, <1>3

LEMMA StepKeeps ==
    ASSUME ArmInv, ArmNext
    PROVE  ArmInv'
<1>1. HeapInv'
  BY StepUsesVirt32, HeapKeeps DEF ArmInv
<1>2. Shapes' /\ Phase'
  <2>1. CASE Enter
    BY <2>1, EnterKeeps DEF Phase
  <2>2. CASE Finish
    BY <2>2, FinishKeeps DEF Phase
  <2>3. CASE Straight
    BY <2>3, StraightKeeps DEF Phase
  <2>4. CASE Branch
    BY <2>4, BranchKeeps
  <2>5. CASE map \/ unmap \/ handle_unmap \/ print_out \/ read_char
    BY <2>5, HandlersKeep DEF Phase
  <2>6. CASE halt
    BY <2>6, HaltKeeps DEF Phase
  <2>7. CASE jump
    BY <2>7, JumpKeeps DEF Phase
  <2>8. CASE load_program
    BY <1>1, <2>8, ReloadKeeps DEF Phase
  <2> QED
    BY <2>1, <2>2, <2>3, <2>4, <2>5, <2>6, <2>7, <2>8 DEF ArmNext
<1> QED
  BY <1>1, <1>2 DEF ArmInv

LEMMA StillKeeps ==
    ASSUME ArmInv, UNCHANGED <<vars, arm>>
    PROVE  ArmInv'
<1>1. HeapInv'
  BY HeapKeeps DEF ArmInv
<1>2. UNCHANGED <<mem, rec, start_unused, kernel_virtual_size, mapped, aborted>>
  BY DEF vars
<1>3. UNCHANGED <<host, cpu, pc, code, regions, out, begun, left>>
  BY DEF arm
<1>4. Shapes'
  BY <1>3 DEF ArmInv, Shapes
<1>5. last' = last /\ LastB' = LastB /\ LastC' = LastC /\ SizeOf(0)' = SizeOf(0)
      /\ SizeOf(LastB)' = SizeOf(LastB) /\ Behind(8)' = Behind(8) /\ Behind(12)' = Behind(12)
      /\ FitsHeap(4 * LastC)' = FitsHeap(4 * LastC) /\ Inside' = Inside
      /\ Fetched' = Fetched
  BY <1>2, <1>3 DEF last, LastB, LastC, SizeOf, Behind, FitsHeap, Inside, Fetched
<1>6. Phase'
  <2>1. Mapping' = Mapping
    BY <1>2, <1>3, <1>5 DEF Mapping
  <2>2. Unmapping' = Unmapping
    BY <1>2, <1>3, <1>5 DEF Unmapping
  <2>3. Printing' = Printing /\ Reading' = Reading /\ Halting' = Halting
    BY <1>2, <1>3, <1>5 DEF Printing, Reading, Halting
  <2>4. Loading' = Loading
    BY <1>2, <1>3, <1>5 DEF Loading
  <2>5. Looping' = Looping /\ Stopping' = Stopping /\ Fetching' = Fetching
    BY <1>2, <1>3, <1>5 DEF Looping, Stopping, Fetching
  <2>6. Resuming' = Resuming /\ Gone' = Gone
    BY <1>2, <1>3, <1>5 DEF Resuming, Gone
  <2> QED
    BY <2>1, <2>2, <2>3, <2>4, <2>5, <2>6 DEF ArmInv, Phase
<1> QED
  BY <1>1, <1>4, <1>6 DEF ArmInv

LEMMA StartKeeps ==
    ASSUME ArmInit
    PROVE  ArmInv
<1>1. HeapInv
  BY InitHeapInv DEF ArmInit
<1>2. code \in Seq(U32)
  BY <1>1, CompiledWords DEF ArmInit
<1>3. PICK c : c = started
  OBVIOUS
<1>4. /\ c \in Cpu /\ c.stack = run_entered(Called).stack
      /\ c.reg[27] = Region(1) /\ c.reg[28] = USABLE
      /\ c.reg[15] = large_op /\ c.reg[14] = OP_DUPLICATE /\ c.reg[13] = handle_x13
      /\ c.reg[12] = handle_map /\ c.reg[10] = 0 /\ c.reg[29] = STACK - 16
      /\ \A q \in 19..26 : c.reg[q] = 0
  BY <1>3, Starting
<1>a. 0 \in U32
  BY Virt32Assumption, IsaAssumption, ArmJitAssumption DEF U32
<1>5. Words(c)
  BY <1>4, <1>a, Registers DEF Words
<1>6. Chunky(c, 1) /\ c.reg[10] \in U32
  BY <1>4, <1>5, <1>a DEF Chunky, InRegion, Ready
<1>7. cpu = c /\ regions = 1 /\ pc = loop /\ out = <<>> /\ begun = 0
      /\ host \in {"linux", "darwin"}
  BY <1>3 DEF ArmInit
<1>8. Looping
  BY <1>6, <1>7 DEF Looping
<1>9. Shapes
  BY <1>2, <1>4, <1>7, LabelsAreNat, ArmJitAssumption, Virt32Assumption DEF Shapes
<1> QED
  BY <1>1, <1>8, <1>9 DEF ArmInv, Phase

-----------------------------------------------------------------------------
\* What the invariant says of the properties.

LEMMA TypesHold == ArmInv => ArmTypeOK
<1> SUFFICES ASSUME ArmInv PROVE ArmTypeOK
  OBVIOUS
<1>1. ~Gone => Words(cpu)
  BY DEF ArmInv, Phase, Mapping, Unmapping, Printing, Reading, Halting, Loading, Looping,
         Stopping, Fetching, Resuming, Chunky, InRegion, Ready
<1>2. ~Returned => Words(cpu)
  BY <1>1 DEF Gone, Returned
<1> QED
  BY <1>2 DEF ArmInv, Shapes, ArmTypeOK, Cpu, Words

LEMMA ReservedHolds == ArmInv => Reserved
BY AboveLabels DEF InCode, Chunky, InRegion, Ready, Reserved

LEMMA LandsHolds == ArmInv => Lands
<1> SUFFICES ASSUME ArmInv, pc \notin Labels \cup {Caller(30)} PROVE Lands
  BY DEF Lands
<1>1. Region(regions) <= pc
  <2>1. Resuming => Region(regions) <= pc
    BY ResumingInside
  <2> QED
    BY <2>1 DEF ArmInv, Phase, Mapping, Unmapping, Printing, Reading, Halting, Loading,
                Looping, Stopping, Fetching, Gone, Labels
<1>2. ASSUME Inside # 0
      PROVE  InCode /\ Inside % 4 = 0 /\ compile_instruction(word)[Inside \div 4].op = "blr"
  <2>1. Resuming
    BY <1>1, <1>2, AboveLabels
  <2>2. Inside = 8 /\ InCode /\ word = last
    BY <2>1, ResumingInside
  <2>3. /\ opcode(word) \in {8, 9, 11}
        /\ opcode(word) = 9 => host = "darwin"
    BY <2>1, <2>2 DEF Resuming
  <2>4. PICK ops, b, c : ops = compile_instruction(word) /\ b = reg_b(word) /\ c = reg_c(word)
    OBVIOUS
  <2>5. /\ opcode(word) = 8 => ops = inject_map_segment(b, c)
        /\ opcode(word) = 9 => ops = darwin_inject_unmap_segment(c)
        /\ opcode(word) = 11 => ops = read_into_reg(c)
    <3>1. /\ opcode(word) = 8 => ops = inject_map_segment(b, c)
          /\ opcode(word) = 9 => ops = IF host = "linux" THEN inject_unmap_segment(c)
                                       ELSE darwin_inject_unmap_segment(c)
          /\ opcode(word) = 11 => ops = read_into_reg(c)
      BY <2>4, Chunks
    <3>2. "darwin" # "linux"
      OBVIOUS
    <3> QED
      BY <2>3, <3>1, <3>2
  <2>6. \E n : ops[2] = blr(n)
    <3>1. CASE opcode(word) = 8
      <4>1. ops[2] = blr(12)
        BY <2>5, <3>1 DEF inject_map_segment
      <4> QED
        BY <4>1
    <3>2. CASE opcode(word) = 9
      <4>1. ops[2] = blr(13)
        BY <2>5, <3>2 DEF darwin_inject_unmap_segment
      <4> QED
        BY <4>1
    <3>3. CASE opcode(word) = 11
      <4>1. ops[2] = blr(15)
        BY <2>5, <3>3 DEF read_into_reg
      <4> QED
        BY <4>1
    <3> QED
      BY <2>3, <3>1, <3>2, <3>3
  <2>7. ops[2].op = "blr"
    BY <2>6, Names
  <2>8. Inside % 4 = 0 /\ Inside \div 4 = 2
    BY <2>2
  <2> QED
    BY <2>2, <2>4, <2>7, <2>8
<1> QED
  BY <1>1, <1>2 DEF Lands

LEMMA CalleeSavedHolds == ArmInv => CalleeSaved
BY AtLabel DEF CalleeSaved, Returned, Gone

-----------------------------------------------------------------------------
\* The machine keeps ArmInv on either host, whatever the program, its input, the
\* size of the heap and of memory, the machine's And, the addresses of the
\* labels, and what C functions leave in the volatile registers.
THEOREM ArmInvariant == ArmSpec => []ArmInv
<1>1. ArmInit => ArmInv
  BY StartKeeps
<1>2. ArmInv /\ [ArmNext]_<<vars, arm>> => ArmInv'
  BY StepKeeps, StillKeeps
<1> QED
  BY <1>1, <1>2, PTL DEF ArmSpec

\* Machine registers hold naturals, and those of the UM words until run returns;
\* the program counter, the region, the compiled words and the output keep their
\* types.
THEOREM ArmTypeCorrect == ArmSpec => []ArmTypeOK
BY TypesHold, ArmInvariant, PTL

\* No handler, and no C function behind one, disturbs what a chunk relies on:
\* the base of the memory, the region, the three handlers, the default opcode in
\* w14 and what run saved on the stack; not when the handler returns into the
\* middle of a chunk either.
THEOREM ReservedKept == ArmSpec => []Reserved
BY ReservedHolds, ArmInvariant, PTL

\* Control is only ever at a label of utility.S, back in main, at the first byte
\* of a chunk, or right behind a blr of one.
THEOREM LandsOnChunks == ArmSpec => []Lands
BY LandsHolds, ArmInvariant, PTL

\* run gives its caller back its registers and its stack.
THEOREM CallerRestored == ArmSpec => []CalleeSaved
BY CalleeSavedHolds, ArmInvariant, PTL

\* Compiled code uses the allocator as the allocator expects: its behaviours are
\* behaviours of Virt32, and every theorem about Virt32 holds of them.
THEOREM CompiledUsesVirt32 == ArmSpec => Spec
<1>1. ArmInit => Init
  BY DEF ArmInit
<1>2. ArmInv /\ [ArmNext]_<<vars, arm>> => [Next]_vars
  BY StepUsesVirt32
<1> QED
  BY <1>1, <1>2, ArmInvariant, PTL DEF ArmSpec, Spec

-----------------------------------------------------------------------------
\* What a program sees of the machine.

\* The registers as a program sees them.
Seen == IF Returned THEN left ELSE UMRegisters(Resumed)

\* In a chunk.
LEMMA FetchingView ==
    ArmInv /\ Fetching => Finger = Index /\ ~Returned /\ Seen = UMRegisters(cpu)
<1> SUFFICES ASSUME ArmInv, Fetching
             PROVE  Finger = Index /\ ~Returned /\ Seen = UMRegisters(cpu)
  OBVIOUS
<1>1. Region(regions) <= pc /\ Inside = 0
  BY DEF Fetching
<1>2. pc # loop /\ ~Returned
  BY <1>1, AboveLabels DEF Labels, Returned
<1>3. Index \in Nat
  BY <1>1, RangeOfRegions, RegionNat, Located DEF ArmInv, Shapes, Index
<1>4. Finger = Index
  BY <1>1, <1>2, <1>3 DEF Finger
<1>5. Resumed = cpu
  BY <1>1 DEF Resumed
<1> QED
  BY <1>2, <1>4, <1>5 DEF Seen

\* Behind a handler's return: what is left of the chunk has been done.
LEMMA ResumingView ==
    ArmInv /\ Resuming => Finger = begun + 1 /\ ~Returned /\ Seen = ResumedRegisters
<1> SUFFICES ASSUME ArmInv, Resuming
             PROVE  Finger = begun + 1 /\ ~Returned /\ Seen = ResumedRegisters
  OBVIOUS
<1>1. Region(regions) <= pc /\ Index = begun /\ Inside = 8 /\ InCode
  BY ResumingInside
<1>2. pc # loop /\ ~Returned
  BY <1>1, AboveLabels DEF Labels, Returned
<1>3. Finger = begun + 1
  BY <1>1, <1>2 DEF Finger
<1>4. Resumed = Run(cpu, Ahead)
  BY <1>1 DEF Resumed
<1>5. UMRegisters(Run(cpu, Ahead)) = ResumedRegisters
  BY ResumingDoes
<1> QED
  BY <1>2, <1>3, <1>4, <1>5 DEF Seen

\* About to enter a chunk.
LEMMA LoopingView ==
    ArmInv /\ Looping => Finger = cpu.reg[10] /\ ~Returned /\ Seen = UMRegisters(cpu)
<1> SUFFICES ASSUME ArmInv, Looping
             PROVE  Finger = cpu.reg[10] /\ ~Returned /\ Seen = UMRegisters(cpu)
  OBVIOUS
<1>1. pc = loop /\ cpu.reg[27] = Region(regions)
  BY DEF Looping, Chunky, InRegion
<1>2. cpu.reg[27] # 0
  BY <1>1, RangeOfRegions, RegionsAbove DEF ArmInv
<1>3. ~InCode
  BY <1>1, AtLabel DEF Labels
<1>4. ~Returned
  BY <1>1, LabelsApart DEF Returned, Labels
<1>5. Finger = cpu.reg[10] /\ Resumed = cpu
  BY <1>1, <1>2, <1>3 DEF Finger, Resumed
<1> QED
  BY <1>4, <1>5 DEF Seen

\* At a handler, and at the label of run that sees a null x27.
Handles == pc \in Labels /\ (pc = loop => cpu.reg[27] = 0)

LEMMA HandlerView ==
    ArmInv /\ Handles => Finger = begun /\ ~Returned /\ Seen = UMRegisters(cpu)
<1> SUFFICES ASSUME ArmInv, Handles
             PROVE  Finger = begun /\ ~Returned /\ Seen = UMRegisters(cpu)
  OBVIOUS
<1>1. pc \in Labels /\ (pc = loop => cpu.reg[27] = 0)
  BY DEF Handles
<1>2. ~InCode /\ ~(Region(regions) <= pc)
  BY <1>1, AtLabel
<1>3. ~Returned
  BY <1>1, LabelsApart DEF Returned
<1>4. Finger = begun /\ Resumed = cpu
  BY <1>1, <1>2 DEF Finger, Resumed
<1> QED
  BY <1>3, <1>4 DEF Seen

\* Back in main.
LEMMA GoneView == ArmInv /\ Gone => Finger = begun /\ Returned /\ Seen = left
<1> SUFFICES ASSUME ArmInv, Gone PROVE Finger = begun /\ Returned /\ Seen = left
  OBVIOUS
<1>1. pc = Caller(30) /\ Returned
  BY DEF Gone, Returned
<1>2. ~(Region(regions) <= pc) /\ pc # loop
  BY <1>1, AtLabel, LabelsApart DEF Labels
<1>3. Finger = begun
  BY <1>2 DEF Finger
<1> QED
  BY <1>1, <1>3 DEF Seen

-----------------------------------------------------------------------------
\* Compiled code is a UM.

\* Compiling decodes a word as the UM does.
LEMMA SameDecoding ==
    ASSUME NEW w
    PROVE  /\ UM64!opcode(w) = opcode(w)
           /\ UM64!reg_a(w) = reg_a(w) /\ UM64!reg_b(w) = reg_b(w) /\ UM64!reg_c(w) = reg_c(w)
           /\ UM64!lv_reg(w) = lv_reg(w) /\ UM64!lv_val(w) = lv_val(w) /\ UM64!Reg = Reg
BY DEF UM64!opcode, opcode, UM64!reg_a, reg_a, UM64!reg_b, reg_b, UM64!reg_c, reg_c,
       UM64!lv_reg, lv_reg, UM64!lv_val, lv_val, UM64!Reg, Reg

\* The UM is at w, the word number k of segment 0, with the machine's registers.
Sees(k, w) ==
    /\ Finger = k /\ ~Returned /\ Seen = UMRegisters(cpu)
    /\ k \in Nat /\ 4 * k < SizeOf(0) /\ get_at(mem, 4 * k) = w /\ w \in U32

\* No store has changed the word since it was compiled, so that the UM decodes
\* the one that the chunk was compiled from.
LEMMA Decodes ==
    ASSUME HeapInv, NEW k, NEW w, Sees(k, w)
    PROVE  /\ UM64!W = w /\ UM64!Operator(opcode(w))
           /\ UM64!A = cpu.reg[R(reg_a(w))] /\ UM64!B = cpu.reg[R(reg_b(w))]
           /\ UM64!C = cpu.reg[R(reg_c(w))]
<1>1. /\ Finger = k /\ ~Returned /\ Seen = UMRegisters(cpu)
      /\ k \in Nat /\ 4 * k < SizeOf(0) /\ get_at(mem, 4 * k) = w /\ w \in U32
  BY DEF Sees
<1>2. 0 \in Segments /\ 0 + 4 * k = 4 * k
  BY <1>1 DEF Segments
<1>3. k < Len(Memory[0]) /\ Memory[0][k + 1] = w
  BY <1>1, <1>2, ReadMemory
<1>4. UM64!W = w
  BY <1>1, <1>3 DEF UM64!W, Memory
<1>5. UM64!Operator(opcode(w))
  <2>1. UM64!opcode(UM64!W) = opcode(w)
    BY <1>4, SameDecoding
  <2> QED
    BY <1>1, <1>3, <2>1 DEF UM64!Operator, Memory
<1>6. reg_a(w) \in Reg /\ reg_b(w) \in Reg /\ reg_c(w) \in Reg
  BY <1>1, Decoded
<1>7. /\ UM64!reg_a(UM64!W) = reg_a(w) /\ UM64!reg_b(UM64!W) = reg_b(w)
      /\ UM64!reg_c(UM64!W) = reg_c(w)
  BY <1>4, SameDecoding
<1>8. \A r \in Reg : Seen[r] = cpu.reg[R(r)]
  BY <1>1 DEF UMRegisters
<1> QED
  BY <1>4, <1>5, <1>6, <1>7, <1>8 DEF UM64!A, UM64!B, UM64!C, Seen

LEMMA MemoryUnchanged == ASSUME UNCHANGED <<mem, mapped>> PROVE Memory' = Memory
BY DEF Memory, Segments, Contents, SizeOf, get_at

\* The chunk about to run, and the one whose handler is about to run.
LEMMA SeesWord == ASSUME ArmInv, Starts, Inside = 0 PROVE Sees(Index, word)
<1>1. Fetching
  <2>1. PICK n, k : n = Region(regions) /\ k = Index
    OBVIOUS
  <2>2. n \in Nat /\ k \in Nat /\ pc = n + CHUNK * k
    BY <2>1, RangeOfRegions, RegionNat DEF ArmInv, Starts
  <2>3. n <= pc
    BY <2>2 DEF CHUNK
  <2> QED
    BY <2>1, <2>3, AboveLabels
<1>2. Finger = Index /\ ~Returned /\ Seen = UMRegisters(cpu)
  BY <1>1, FetchingView
<1> QED
  BY <1>2 DEF Starts, Sees, Unchanged

LEMMA SeesLast ==
    ASSUME ArmInv, Handles, Fetched, Ready(cpu)
    PROVE  Sees(begun, last) /\ last \in U32
<1>1. Finger = begun /\ ~Returned /\ Seen = UMRegisters(cpu)
  BY HandlerView
<1>2. last \in U32
  BY LenProperties DEF Fetched, ArmInv, Shapes, last
<1> QED
  BY <1>1, <1>2 DEF Fetched, Sees

-----------------------------------------------------------------------------
\* Steps of the UM.

\* The program sees the registers f and is at word number k.
Shows(f, k) == Seen' = f /\ Finger' = k /\ ~Returned'

LEMMA Advances ==
    ASSUME NEW k, NEW w, Sees(k, w), NEW f, Shows(f, k + 1)
    PROVE  UM64!Advance /\ Seen' = f
BY DEF Sees, Shows, UM64!Advance, Returned

LEMMA ShowsSame ==
    ASSUME NEW f, NEW k, Shows(f, k), Seen = f, Finger = k, ~Returned,
           UNCHANGED <<mem, mapped, out>>
    PROVE  UNCHANGED UM64!vars
<1>1. Memory' = Memory
  BY MemoryUnchanged
<1>2. Seen' = Seen /\ Finger' = Finger /\ Returned' = Returned
  BY DEF Shows, Returned
<1> QED
  BY <1>1, <1>2 DEF UM64!vars, Memory, Seen

\* What is seen after a step, by the phase it leads to.
LEMMA ShowsFetching == ASSUME ArmInv', Fetching' PROVE Shows(UMRegisters(cpu'), Index')
<1>1. (Finger = Index /\ ~Returned /\ Seen = UMRegisters(cpu))'
  BY FetchingView, PTL
<1> QED
  BY <1>1 DEF Shows

LEMMA ShowsResuming == ASSUME ArmInv', Resuming' PROVE Shows(ResumedRegisters', begun' + 1)
<1>1. (Finger = begun + 1 /\ ~Returned /\ Seen = ResumedRegisters)'
  BY ResumingView, PTL
<1> QED
  BY <1>1 DEF Shows

LEMMA ShowsLooping == ASSUME ArmInv', Looping' PROVE Shows(UMRegisters(cpu'), cpu'.reg[10])
<1>1. (Finger = cpu.reg[10] /\ ~Returned /\ Seen = UMRegisters(cpu))'
  BY LoopingView, PTL
<1> QED
  BY <1>1 DEF Shows

LEMMA ShowsHandler == ASSUME ArmInv', Handles' PROVE Shows(UMRegisters(cpu'), begun')
<1>1. (Finger = begun /\ ~Returned /\ Seen = UMRegisters(cpu))'
  BY HandlerView, PTL
<1> QED
  BY <1>1 DEF Shows

\* A plain chunk: the register it writes, in the UM's terms.
LEMMA Computed ==
    ASSUME ArmInv, ArmInv', Straight, Inside = 0, NEW r, NEW v, Result(r, v)
    PROVE  /\ Seen' = [Seen EXCEPT ![r] = v] /\ UM64!Advance
           /\ Memory' = Memory /\ out' = out
<1>1. PICK f : f = [UMRegisters(cpu) EXCEPT ![r] = v]
  OBVIOUS
<1>2. Starts /\ Continues(f) /\ UNCHANGED vars
  BY <1>1, StraightDoes
<1>3. Sees(Index, word)
  BY <1>2, SeesWord
<1>4. Shows(f, Index + 1)
  <2>1. Fetching' /\ Index' = Index + 1
    BY StraightKeeps
  <2>2. UMRegisters(cpu') = f
    BY <1>2 DEF Continues
  <2> QED
    BY <2>1, <2>2, ShowsFetching
<1>5. UM64!Advance /\ Seen' = f
  BY <1>3, <1>4, Advances
<1>6. Memory' = Memory
  BY <1>2, MemoryUnchanged DEF vars
<1> QED
  BY <1>1, <1>2, <1>3, <1>5, <1>6 DEF Sees, Continues

LEMMA ComputedA ==
    ASSUME ArmInv, ArmInv', Straight, Inside = 0, NEW v, Result(reg_a(word), v)
    PROVE  UM64!SetA(v) /\ UM64!Advance
<1>1. Sees(Index, word)
  BY StraightPlain, SeesWord
<1>2. UM64!reg_a(UM64!W) = reg_a(word)
  BY <1>1, Decodes, SameDecoding DEF ArmInv
<1>3. PICK r : r = reg_a(word)
  OBVIOUS
<1>4. Result(r, v)
  BY <1>3 DEF Result
<1>5. /\ Seen' = [Seen EXCEPT ![r] = v] /\ UM64!Advance
      /\ Memory' = Memory /\ out' = out
  BY <1>4, Computed
<1> QED
  BY <1>2, <1>3, <1>5 DEF UM64!SetA, Memory, Seen

LEMMA StraightStep ==
    ASSUME ArmInv, ArmInv', Straight, Inside = 0, opcode(word) # 2
    PROVE  UM64!Next
<1>1. Starts /\ opcode(word) \in {0, 1, 3, 4, 5, 6, 13} /\ HeapInv
  BY StraightPlain DEF ArmInv
<1>2. /\ UM64!A = A /\ UM64!B = B /\ UM64!C = C /\ UM64!W = word
      /\ UM64!Operator(opcode(word))
  BY <1>1, SeesWord, Decodes DEF A, B, C
<1>3. /\ A \in U32 /\ B \in U32 /\ C \in U32
      /\ opcode(word) = 1 => InSegment(B, C)
      /\ opcode(word) = 5 => C # 0
  BY <1>1 DEF Starts, Meaningful
<1>4. CASE opcode(word) = 0
  <2>1. PICK v : v = IF C # 0 THEN B ELSE A
    OBVIOUS
  <2>2. Result(reg_a(word), v)
    BY <1>4, <2>1 DEF Result
  <2>3. UM64!SetA(v) /\ UM64!Advance
    BY <2>2, ComputedA
  <2>4. UM64!ConditionalMove
    BY <1>2, <1>4, <2>1, <2>3 DEF UM64!ConditionalMove, UM64!SetA
  <2> QED
    BY <2>3, <2>4 DEF UM64!Next
<1>5. CASE opcode(word) = 1
  <2>1. PICK id, k, v : id = B /\ k = C /\ v = get_at(mem, id + 4 * k)
    OBVIOUS
  <2>2. Result(reg_a(word), v)
    BY <1>5, <2>1 DEF Result
  <2>3. UM64!SetA(v) /\ UM64!Advance
    BY <2>2, ComputedA
  <2>4. id \in Segments /\ k \in Nat /\ 4 * k < SizeOf(id)
    BY <1>3, <1>5, <2>1, WordNat DEF InSegment
  <2>5. Memory[id][k + 1] = v /\ id \in DOMAIN Memory /\ k < Len(Memory[id])
    BY <1>1, <2>1, <2>4, ReadMemory DEF Memory
  <2>6. UM64!B = id /\ UM64!C = k
    BY <1>2, <2>1
  <2>7. UM64!Active(UM64!B, UM64!C)
    BY <2>5, <2>6 DEF UM64!Active, Memory
  <2>8. UM64!ArrayIndex
    BY <1>2, <1>5, <2>3, <2>5, <2>6, <2>7 DEF UM64!ArrayIndex, UM64!SetA, Memory
  <2> QED
    BY <2>3, <2>8 DEF UM64!Next
<1>6. CASE opcode(word) = 3
  <2>1. PICK v : v = (B + C) % (16 * OP_UNIT)
    OBVIOUS
  <2>2. Result(reg_a(word), v)
    BY <1>6, <2>1, ArmJitAssumption DEF Result, Wrap
  <2>3. UM64!SetA(v) /\ UM64!Advance
    BY <2>2, ComputedA
  <2>4. UM64!Addition
    BY <1>2, <1>6, <2>1, <2>3 DEF UM64!Addition, UM64!SetA
  <2> QED
    BY <2>3, <2>4 DEF UM64!Next
<1>7. CASE opcode(word) = 4
  <2>1. PICK v : v = (B * C) % (16 * OP_UNIT)
    OBVIOUS
  <2>2. Result(reg_a(word), v)
    BY <1>7, <2>1, ArmJitAssumption DEF Result, Wrap
  <2>3. UM64!SetA(v) /\ UM64!Advance
    BY <2>2, ComputedA
  <2>4. UM64!Multiplication
    BY <1>2, <1>7, <2>1, <2>3 DEF UM64!Multiplication, UM64!SetA
  <2> QED
    BY <2>3, <2>4 DEF UM64!Next
<1>8. CASE opcode(word) = 5
  <2>1. PICK v : v = B \div C
    OBVIOUS
  <2>2. Result(reg_a(word), v)
    BY <1>8, <2>1 DEF Result
  <2>3. UM64!SetA(v) /\ UM64!Advance
    BY <2>2, ComputedA
  <2>4. UM64!Division
    BY <1>2, <1>3, <1>8, <2>1, <2>3 DEF UM64!Division, UM64!SetA
  <2> QED
    BY <2>3, <2>4 DEF UM64!Next
<1>9. CASE opcode(word) = 6
  <2>1. PICK v : v = GB4 - 1 - And(B, C)
    OBVIOUS
  <2>2. Result(reg_a(word), v)
    BY <1>9, <2>1 DEF Result
  <2>3. UM64!SetA(v) /\ UM64!Advance
    BY <2>2, ComputedA
  <2>4. UM64!NotAnd
    BY <1>2, <1>9, <2>1, <2>3 DEF UM64!NotAnd, UM64!SetA
  <2> QED
    BY <2>3, <2>4 DEF UM64!Next
<1>10. CASE opcode(word) = 13
  <2>1. PICK r, v : r = lv_reg(word) /\ v = lv_val(word)
    OBVIOUS
  <2>2. Result(r, v)
    BY <1>10, <2>1 DEF Result
  <2>3. /\ Seen' = [Seen EXCEPT ![r] = v] /\ UM64!Advance
        /\ Memory' = Memory /\ out' = out
    BY <2>2, Computed
  <2>4. UM64!lv_reg(UM64!W) = r /\ UM64!lv_val(UM64!W) = v
    BY <1>2, <2>1, SameDecoding
  <2>5. UM64!Orthography
    BY <1>2, <1>10, <2>3, <2>4 DEF UM64!Orthography, Memory, Seen
  <2> QED
    BY <2>3, <2>5 DEF UM64!Next
<1> QED
  BY <1>1, <1>4, <1>5, <1>6, <1>7, <1>8, <1>9, <1>10

LEMMA StoreStep ==
    ASSUME ArmInv, ArmInv', Unwritten, Straight, Inside = 0, opcode(word) = 2
    PROVE  UM64!Next
<1>1. PICK id, k, v, f : id = A /\ k = B /\ v = C /\ f = UMRegisters(cpu)
  OBVIOUS
<1>2. /\ Starts /\ Continues(f) /\ InSegment(id, k)
      /\ mem' = [mem EXCEPT ![Cell(id + 4 * k)] = v]
      /\ UNCHANGED <<alloc, kernel_virtual_size, aborted>> /\ HeapInv
  BY <1>1, StoreDoes DEF ArmInv
<1>3. Sees(Index, word)
  BY <1>2, SeesWord
<1>4. UM64!A = A /\ UM64!B = B /\ UM64!C = C /\ UM64!Operator(2)
  BY <1>2, <1>3, Decodes DEF A, B, C
<1>5. /\ id \in Segments /\ k \in U32 /\ v \in U32 /\ k \in Nat /\ 4 * k < SizeOf(id)
      /\ ~aborted
  BY <1>1, <1>2, WordNat DEF Starts, InSegment
<1>6. StoreWord(id, k, v)
  BY <1>2, <1>5 DEF StoreWord, set_at
<1>7. /\ UM!Store(id, k + 1, v) /\ k < Len(Memory[id]) /\ id \in DOMAIN Memory
  <2>1. UM!Store(id, k + 1, v) /\ id \in DOMAIN Memory
    BY <1>2, <1>5, <1>6, StoreMemory
  <2>2. k < Len(Memory[id])
    BY <1>2, <1>5, ReadMemory
  <2> QED
    BY <2>1, <2>2
<1>8. UM64!Memory!Store(UM64!A, UM64!B + 1, UM64!C)
  BY <1>1, <1>4, <1>7 DEF UM!Store, UM64!Memory!Store
<1>9. UM64!Active(UM64!A, UM64!B)
  BY <1>1, <1>4, <1>7 DEF UM64!Active, Memory
<1>10. Shows(f, Index + 1)
  <2>1. Fetching' /\ Index' = Index + 1
    BY StraightKeeps
  <2>2. UMRegisters(cpu') = f
    BY <1>2 DEF Continues
  <2> QED
    BY <2>1, <2>2, ShowsFetching
<1>11. UM64!Advance /\ Seen' = f
  BY <1>3, <1>10, Advances
<1>12. Seen' = Seen /\ out' = out
  BY <1>1, <1>2, <1>3, <1>11 DEF Sees, Continues
<1>13. UM64!ArrayAmendment
  BY <1>4, <1>8, <1>9, <1>12 DEF UM64!ArrayAmendment, Seen
<1> QED
  BY <1>11, <1>13 DEF UM64!Next

-----------------------------------------------------------------------------
\* Handlers.

\* A handler runs for the word that the UM is at.
LEMMA Serving ==
    ASSUME ArmInv, Handles, Fetched, Ready(cpu)
    PROVE  /\ Sees(begun, last) /\ UM64!W = last /\ UM64!Operator(opcode(last))
           /\ UM64!B = LastB /\ UM64!C = LastC
           /\ Seen = UMRegisters(cpu) /\ Finger = begun /\ ~Returned
<1>1. Sees(begun, last) /\ HeapInv
  BY SeesLast DEF ArmInv
<1> QED
  BY <1>1, Decodes DEF LastB, LastC, Sees

LEMMA PhaseHandles ==
    /\ Mapping => Handles /\ Fetched /\ Ready(cpu)
    /\ Unmapping => Handles /\ Fetched /\ Ready(cpu)
    /\ Printing => Handles /\ Fetched /\ Ready(cpu)
    /\ Reading => Handles /\ Fetched /\ Ready(cpu)
    /\ Halting => Handles /\ Fetched /\ Ready(cpu)
    /\ Stopping => Handles /\ Fetched /\ Ready(cpu)
    /\ Loading => Handles /\ Ready(cpu)
<1>1. loop # large_op /\ loop # handle_map /\ loop # handle_x13
  BY LabelsApart
<1> QED
  BY <1>1 DEF Mapping, Unmapping, Printing, Reading, Halting, Stopping, Loading, Handles,
              Labels, Chunky, InRegion

\* What is left of the chunk a handler returns into.
LEMMA ResumesWith ==
    ASSUME Reenters(8)
    PROVE  /\ opcode(last) = 8 => ResumedRegisters'
                                    = [UMRegisters(cpu) EXCEPT ![reg_b(last)] = Wrap(cpu'.reg[0])]
           /\ opcode(last) = 11 => ResumedRegisters'
                                    = [UMRegisters(cpu) EXCEPT ![reg_c(last)] = Wrap(cpu'.reg[0])]
           /\ opcode(last) = 9 => ResumedRegisters' = UMRegisters(cpu)
           /\ begun' = begun
<1>1. UMRegisters(cpu') = UMRegisters(cpu) /\ code' = code /\ begun' = begun
  BY DEF Reenters
<1>2. last' = last
  BY <1>1 DEF last
<1>3. ResumedRegisters' =
         IF opcode(last) = 8 THEN [UMRegisters(cpu) EXCEPT ![reg_b(last)] = Wrap(cpu'.reg[0])]
         ELSE IF opcode(last) = 11
              THEN [UMRegisters(cpu) EXCEPT ![reg_c(last)] = Wrap(cpu'.reg[0])]
              ELSE UMRegisters(cpu)
  BY <1>1, <1>2 DEF ResumedRegisters
<1> QED
  BY <1>1, <1>3

\* The address that vs_calloc serves is one the UM may choose for a name.
LEMMA MapStep ==
    ASSUME ArmInv, ArmInv', Unwritten, map
    PROVE  UM64!Next
<1>1. PICK n, r : n = LastC /\ r = reg_b(last)
  OBVIOUS
<1>2. /\ Mapping /\ n \in U32 /\ Reenters(8) /\ UNCHANGED out
      /\ MapSegment(n) /\ Requested(n) /\ FitsHeap(4 * n)
      /\ Wrap(cpu'.reg[0]) = served(Wrap(4 * n)) /\ HeapInv /\ opcode(last) = 8
  BY <1>1, MapDoes DEF Mapping, ArmInv
<1>3. /\ Sees(begun, last) /\ UM64!W = last /\ UM64!Operator(8) /\ UM64!C = n
      /\ Seen = UMRegisters(cpu)
  BY <1>1, <1>2, PhaseHandles, Serving
<1>4. n \in Request /\ n \in Nat
  BY <1>2, ArmJitAssumption, WordNat
<1>5. /\ 4 * n < MAX_ALLOC
      /\ Recycle(4 * n) \/ Carve(4 * n)
      /\ UNCHANGED <<kernel_virtual_size, aborted>>
  BY <1>2, <1>4, MapCases
<1>6. PICK id \in SegmentId \ {0} : id = served(4 * n) /\ UM!Map(id, n)
  <2>1. CASE Recycle(4 * n)
    BY <1>2, <1>4, <1>5, <2>1, RecycleMemory
  <2>2. CASE Carve(4 * n)
    BY <1>2, <1>4, <1>5, <2>2, CarveMemory
  <2> QED
    BY <1>5, <2>1, <2>2
<1>7. Wrap(4 * n) = 4 * n
  BY <1>2, ServedType
<1>8. PICK f : f = [UMRegisters(cpu) EXCEPT ![r] = id]
  OBVIOUS
<1>9. Shows(f, begun + 1)
  <2>1. Resuming'
    BY HandlersKeep
  <2>2. Shows(ResumedRegisters', begun' + 1)
    BY <2>1, ShowsResuming
  <2>3. ResumedRegisters' = f /\ begun' = begun
    BY <1>1, <1>2, <1>6, <1>7, <1>8, ResumesWith
  <2> QED
    BY <2>2, <2>3
<1>10. UM64!Advance /\ Seen' = f
  BY <1>3, <1>9, Advances
<1>11. UM64!Memory!Map(id, UM64!C)
  BY <1>3, <1>6 DEF UM!Map, UM!Zeros, UM64!Memory!Map, UM64!Memory!Zeros
<1>12. UM64!reg_b(UM64!W) = r
  BY <1>1, <1>3, SameDecoding
<1>13. Seen' = [Seen EXCEPT ![UM64!reg_b(UM64!W)] = id]
  BY <1>3, <1>8, <1>10, <1>12
<1>14. UM64!Allocation
  BY <1>2, <1>3, <1>11, <1>13 DEF UM64!Allocation, Seen
<1> QED
  BY <1>10, <1>14 DEF UM64!Next

\* On Linux by large_op, to the end of the chunk; on Darwin by a handler of its
\* own, to the nop that is left of it.
LEMMA UnmapStep ==
    ASSUME ArmInv, ArmInv', Unwritten, unmap \/ handle_unmap
    PROVE  UM64!Next
<1>1. PICK id, f : id = LastC /\ f = UMRegisters(cpu)
  OBVIOUS
<1>2. /\ Unmapping /\ id \in mapped /\ UnmapSegment(id) /\ out' = out
  <2>1. CASE unmap
    BY <1>1, <2>1, UnmapDoes
  <2>2. CASE handle_unmap
    BY <1>1, <2>2, DarwinUnmapDoes
  <2> QED
    BY <2>1, <2>2
<1>3. opcode(last) = 9 /\ HeapInv /\ vs_free(id)
  BY <1>2 DEF Unmapping, ArmInv, UnmapSegment
<1>4. /\ Sees(begun, last) /\ UM64!Operator(9) /\ UM64!C = id /\ Seen = f
  BY <1>1, <1>2, <1>3, PhaseHandles, Serving
<1>5. Shows(f, begun + 1)
  <2>1. CASE unmap
    <3>1. Fetching' /\ Index' = begun + 1
      BY <2>1, HandlersKeep
    <3>2. UMRegisters(cpu') = f
      BY <1>1, <2>1, UnmapDoes DEF Reenters
    <3> QED
      BY <3>1, <3>2, ShowsFetching
  <2>2. CASE handle_unmap
    <3>1. Resuming' /\ Reenters(8)
      BY <2>2, HandlersKeep, DarwinUnmapDoes
    <3>2. Shows(ResumedRegisters', begun' + 1)
      BY <3>1, ShowsResuming
    <3>3. ResumedRegisters' = f /\ begun' = begun
      BY <1>1, <1>3, <3>1, ResumesWith
    <3> QED
      BY <3>2, <3>3
  <2> QED
    BY <2>1, <2>2
<1>6. UM!Unmap(id) /\ id \in DOMAIN Memory
  BY <1>2, <1>3, FreeMemory
<1>7. UM64!Memory!Unmap(UM64!C)
  BY <1>4, <1>6 DEF UM!Unmap, UM64!Memory!Unmap
<1>8. UM64!Advance /\ Seen' = f
  BY <1>4, <1>5, Advances
<1>9. UM64!Abandonment
  BY <1>2, <1>4, <1>6, <1>7, <1>8 DEF UM64!Abandonment, Memory, Seen
<1> QED
  BY <1>8, <1>9 DEF UM64!Next

LEMMA PrintStep ==
    ASSUME ArmInv, ArmInv', print_out
    PROVE  UM64!Next
<1>1. PICK v, f : v = LastC /\ f = UMRegisters(cpu)
  OBVIOUS
<1>2. /\ Printing /\ v \in U32 /\ v < BYTE /\ Reenters(12)
      /\ out' = Append(out, v % BYTE) /\ UNCHANGED vars
  BY <1>1, PrintDoes
<1>3. opcode(last) = 10
  BY <1>2 DEF Printing
<1>4. Sees(begun, last) /\ UM64!Operator(10) /\ UM64!C = v /\ Seen = f
  BY <1>1, <1>2, <1>3, PhaseHandles, Serving
<1>5. v % BYTE = v
  <2>1. v \in Nat
    BY <1>2, WordNat
  <2> QED
    BY <1>2, <2>1, IsaAssumption
<1>6. Shows(f, begun + 1)
  <2>1. Fetching' /\ Index' = begun + 1
    BY HandlersKeep
  <2>2. UMRegisters(cpu') = f
    BY <1>1, <1>2 DEF Reenters
  <2> QED
    BY <2>1, <2>2, ShowsFetching
<1>7. UM64!Advance /\ Seen' = f
  BY <1>4, <1>6, Advances
<1>8. Memory' = Memory
  BY <1>2, MemoryUnchanged DEF vars
<1>9. UM64!Output
  BY <1>2, <1>4, <1>5, <1>7, <1>8 DEF UM64!Output, Memory, Seen
<1> QED
  BY <1>7, <1>9 DEF UM64!Next

LEMMA ReadStep ==
    ASSUME ArmInv, ArmInv', read_char
    PROVE  UM64!Next
<1>1. PICK r, value : r = reg_c(last) /\ value = Wrap(cpu'.reg[0])
  OBVIOUS
<1>2. Reading /\ Reenters(8) /\ UNCHANGED <<vars, out>> /\ value \in Input
  BY <1>1, ReadDoes
<1>3. opcode(last) = 11
  BY <1>2 DEF Reading
<1>4. Sees(begun, last) /\ UM64!W = last /\ UM64!Operator(11) /\ Seen = UMRegisters(cpu)
  BY <1>2, <1>3, PhaseHandles, Serving
<1>5. PICK f : f = [UMRegisters(cpu) EXCEPT ![r] = value]
  OBVIOUS
<1>6. Shows(f, begun + 1)
  <2>1. Resuming'
    BY HandlersKeep
  <2>2. Shows(ResumedRegisters', begun' + 1)
    BY <2>1, ShowsResuming
  <2>3. ResumedRegisters' = f /\ begun' = begun
    BY <1>1, <1>2, <1>3, <1>5, ResumesWith
  <2> QED
    BY <2>2, <2>3
<1>7. UM64!Advance /\ Seen' = f
  BY <1>4, <1>6, Advances
<1>8. Memory' = Memory
  BY <1>2, MemoryUnchanged DEF vars
<1>9. UM64!reg_c(UM64!W) = r
  BY <1>1, <1>4, SameDecoding
<1>10. UM64!ReadInput
  BY <1>2, <1>4, <1>5, <1>7, <1>8, <1>9 DEF UM64!ReadInput, Memory, Seen
<1> QED
  BY <1>7, <1>10 DEF UM64!Next

LEMMA JumpStep ==
    ASSUME ArmInv, ArmInv', jump
    PROVE  UM64!Next
<1>1. PICK k, f : k = LastC /\ f = UMRegisters(cpu)
  OBVIOUS
<1>2. /\ Loading /\ Fetched /\ opcode(last) = 12 /\ cpu.reg[10] = k /\ LastB = 0
      /\ UNCHANGED <<vars, host, cpu, code, regions, out, begun, left>>
  BY <1>1, DuplicatesLoads DEF jump
<1>3. /\ UM64!B = 0 /\ UM64!C = k /\ UM64!Operator(12) /\ Seen = f /\ ~Returned
  BY <1>1, <1>2, PhaseHandles, Serving
<1>4. Shows(f, k)
  <2>1. Looping' /\ UMRegisters(cpu') = f /\ cpu'.reg[10] = k
    BY <1>1, <1>2, JumpKeeps
  <2> QED
    BY <2>1, ShowsLooping
<1>5. Memory' = Memory
  BY <1>2, MemoryUnchanged DEF vars
<1>6. Memory' = [Memory EXCEPT ![0] = Memory[0]] /\ 0 \in DOMAIN Memory
  BY <1>5 DEF Memory, Segments
<1>7. UM64!Memory!LoadSegment(UM64!B)
  BY <1>3, <1>6 DEF UM64!Memory!LoadSegment, Memory
<1>8. Seen' = Seen /\ Finger' = k /\ Returned' = Returned
  BY <1>3, <1>4 DEF Shows, Returned
<1>9. UM64!LoadProgram
  BY <1>2, <1>3, <1>6, <1>7, <1>8 DEF UM64!LoadProgram, Memory, Seen
<1> QED
  BY <1>9 DEF UM64!Next

\* A load that does not fit ends the process, and the program sees nothing of it.
LEMMA ReloadStep ==
    ASSUME ArmInv, ArmInv', Unwritten, load_program
    PROVE  UM64!Next \/ UNCHANGED UM64!vars
<1>1. PICK id, k, f : id = LastB /\ k = LastC /\ f = UMRegisters(cpu)
  OBVIOUS
<1>2. /\ Loading /\ Fetched /\ opcode(last) = 12 /\ id \in mapped /\ LoadSegment(id)
      /\ UNCHANGED <<host, out, begun, left>> /\ HeapInv
      /\ \/ aborted' /\ UNCHANGED <<cpu, pc, code, regions>>
         \/ /\ ~aborted' /\ UMRegisters(cpu') = f /\ cpu'.reg[10] = k
  BY <1>1, ReloadDoes DEF ArmInv
<1>3. /\ UM64!B = id /\ UM64!C = k /\ UM64!Operator(12) /\ Seen = f /\ ~Returned
      /\ Finger = begun
  BY <1>1, <1>2, PhaseHandles, Serving
<1>4. id \in DOMAIN Memory /\ IF aborted' THEN UNCHANGED Memory ELSE UM!LoadSegment(id)
  BY <1>2, LoadMemory
<1>5. CASE aborted'
  <2>1. UNCHANGED <<cpu, begun>>
    BY <1>2, <1>5
  <2>2. Loading'
    BY <1>5, ReloadKeeps DEF ArmInv
  <2>3. Handles'
    BY <2>2, PhaseHandles, PTL
  <2>4. Shows(UMRegisters(cpu'), begun')
    BY <2>3, ShowsHandler
  <2>5. Shows(f, begun)
    BY <1>1, <2>1, <2>4
  <2>6. Seen' = Seen /\ Finger' = Finger /\ Returned' = Returned
    BY <1>3, <2>5 DEF Shows, Returned
  <2> QED
    BY <1>2, <1>4, <1>5, <2>6 DEF UM64!vars, Memory, Seen
<1>6. CASE ~aborted'
  <2>1. Looping' /\ UMRegisters(cpu') = f /\ cpu'.reg[10] = k
    BY <1>2, <1>6, ReloadKeeps DEF ArmInv
  <2>2. Shows(f, k)
    BY <2>1, ShowsLooping
  <2>3. UM64!Memory!LoadSegment(UM64!B)
    BY <1>3, <1>4, <1>6 DEF UM!LoadSegment, UM64!Memory!LoadSegment
  <2>4. Seen' = Seen /\ Finger' = k /\ Returned' = Returned
    BY <1>3, <2>2 DEF Shows, Returned
  <2>5. UM64!LoadProgram
    BY <1>2, <1>3, <1>4, <2>3, <2>4 DEF UM64!LoadProgram, Memory, Seen
  <2> QED
    BY <2>5 DEF UM64!Next
<1> QED
  BY <1>5, <1>6

\* run returns: the UM halts.
LEMMA FinishStep ==
    ASSUME ArmInv, ArmInv', Finish
    PROVE  UM64!Next
<1>1. /\ Stopping /\ Gone' /\ left' = UMRegisters(cpu) /\ UNCHANGED <<vars, out, begun>>
  BY FinishDoes DEF Finish
<1>2. opcode(last) = 7
  BY <1>1 DEF Stopping
<1>3. UM64!Operator(7) /\ Seen = UMRegisters(cpu) /\ Finger = begun
  BY <1>1, <1>2, PhaseHandles, Serving
<1>4. (Finger = begun /\ Returned /\ Seen = left)'
  BY <1>1, GoneView, PTL
<1>5. Memory' = Memory
  BY <1>1, MemoryUnchanged DEF vars
<1>6. Seen' = Seen /\ Finger' = Finger /\ Returned' = TRUE
  BY <1>1, <1>3, <1>4 DEF Returned
<1>7. UM64!Halt
  BY <1>1, <1>3, <1>5, <1>6 DEF UM64!Halt, Memory, Seen
<1> QED
  BY <1>7 DEF UM64!Next

-----------------------------------------------------------------------------
\* Steps of the glue code, of which a program sees nothing.

LEMMA EnterStep ==
    ASSUME ArmInv, ArmInv', Enter
    PROVE  UNCHANGED UM64!vars
<1>1. PICK k, f : k = cpu.reg[10] /\ f = UMRegisters(cpu)
  OBVIOUS
<1>2. /\ Looping /\ UMRegisters(cpu') = f /\ Arrives(k)
      /\ UNCHANGED <<mem, mapped, out, begun>>
  BY <1>1, EnterDoes DEF Enter, vars
<1>3. Fetching' /\ Index' = k
  <2>1. begun' \in 0..GB4 /\ out' \in Seq(0..BYTE - 1)
    BY <1>2 DEF ArmInv, Shapes
  <2> QED
    BY <1>2, <2>1, Arriving
<1>4. Shows(f, k)
  BY <1>2, <1>3, ShowsFetching
<1>5. Seen = f /\ Finger = k /\ ~Returned
  BY <1>1, <1>2, LoopingView
<1> QED
  BY <1>2, <1>4, <1>5, ShowsSame

\* Every chunk that branches goes to a handler.
LEMMA BranchGoes ==
    ASSUME ArmInv, Branch
    PROVE  Handles' /\ Leaves(cpu, cpu', {0, 10, 14, 30})
<1>1. /\ Inside = 0 /\ Starts /\ opcode(word) \in {7, 8, 9, 10, 11, 12}
      /\ host \in {"linux", "darwin"}
  BY BranchStarts DEF ArmInv, Shapes
<1>2. \E target \in {handle_map, large_op, handle_x13} : \E number : Departs(target, number)
  <2>1. CASE opcode(word) = 7
    BY <1>1, <2>1, HaltLeaves
  <2>2. CASE opcode(word) = 8
    BY <1>1, <2>2, MapLeaves
  <2>3. CASE opcode(word) = 9
    BY <1>1, <2>3, UnmapLeaves
  <2>4. CASE opcode(word) = 10
    BY <1>1, <2>4, PrintLeaves
  <2>5. CASE opcode(word) = 11
    BY <1>1, <2>5, ReadLeaves
  <2>6. CASE opcode(word) = 12
    BY <1>1, <2>6, LoadLeaves
  <2> QED
    BY <1>1, <2>1, <2>2, <2>3, <2>4, <2>5, <2>6
<1>3. PICK target, number : target \in {handle_map, large_op, handle_x13} /\ Departs(target, number)
  BY <1>2
<1>4. pc' = target /\ Leaves(cpu, cpu', {0, 10, 14, 30})
  BY <1>3 DEF Departs
<1>5. loop # target /\ target \in Labels
  BY <1>3, LabelsApart DEF Labels
<1> QED
  BY <1>4, <1>5 DEF Handles, Labels

LEMMA BranchStep ==
    ASSUME ArmInv, ArmInv', Branch
    PROVE  UNCHANGED UM64!vars
<1>1. PICK k, f : k = Index /\ f = UMRegisters(cpu)
  OBVIOUS
<1>2. /\ Starts /\ Inside = 0 /\ UNCHANGED <<mem, mapped, out>> /\ begun' = k
  BY <1>1, BranchStarts DEF Branch, vars
<1>3. Handles' /\ UMRegisters(cpu') = f
  BY <1>1, BranchGoes, LastAfterBranch
<1>4. Shows(f, k)
  BY <1>2, <1>3, ShowsHandler
<1>5. Seen = f /\ Finger = k /\ ~Returned
  BY <1>1, <1>2, SeesWord DEF Sees
<1> QED
  BY <1>2, <1>4, <1>5, ShowsSame

\* The instruction after a call has been counted as done when the call was.
LEMMA ResumeStep ==
    ASSUME ArmInv, ArmInv', Straight, Inside # 0
    PROVE  UNCHANGED UM64!vars
<1>1. PICK k, f : k = begun + 1 /\ f = ResumedRegisters
  OBVIOUS
<1>2. /\ Resuming /\ UMRegisters(cpu') = f /\ UNCHANGED <<mem, mapped, out>>
  BY <1>1, ResumesDoes DEF vars
<1>3. Fetching' /\ Index' = k
  BY <1>1, <1>2, StraightKeeps, ResumingInside
<1>4. Shows(f, k)
  BY <1>2, <1>3, ShowsFetching
<1>5. Seen = f /\ Finger = k /\ ~Returned
  BY <1>1, <1>2, ResumingView
<1> QED
  BY <1>2, <1>4, <1>5, ShowsSame

\* .halt zeroes x27; the UM halts when run returns.
LEMMA HaltStep ==
    ASSUME ArmInv, ArmInv', halt
    PROVE  UNCHANGED UM64!vars
<1>1. PICK k, f : k = begun /\ f = UMRegisters(cpu)
  OBVIOUS
<1>2. /\ Halting /\ UMRegisters(cpu') = f /\ UNCHANGED <<mem, mapped, out>> /\ begun' = k
  BY <1>1, HaltDoes DEF vars
<1>3. Stopping'
  BY HaltKeeps
<1>4. Handles'
  BY <1>3, PhaseHandles, PTL
<1>5. Shows(f, k)
  BY <1>2, <1>4, ShowsHandler
<1>6. Seen = f /\ Finger = k /\ ~Returned
  BY <1>1, <1>2, PhaseHandles, HandlerView
<1> QED
  BY <1>2, <1>5, <1>6, ShowsSame

-----------------------------------------------------------------------------
LEMMA StepIsUM ==
    ASSUME ArmInv, ArmInv', Unwritten, ArmNext
    PROVE  UM64!Next \/ UNCHANGED UM64!vars
<1>1. CASE Straight
  <2>1. CASE Inside # 0
    BY <1>1, <2>1, ResumeStep
  <2>2. CASE Inside = 0 /\ opcode(word) = 2
    BY <1>1, <2>2, StoreStep
  <2>3. CASE Inside = 0 /\ opcode(word) # 2
    BY <1>1, <2>3, StraightStep
  <2> QED
    BY <2>1, <2>2, <2>3
<1>2. CASE Enter \/ Branch \/ halt
  BY <1>2, EnterStep, BranchStep, HaltStep
<1>3. CASE Finish \/ map \/ unmap \/ handle_unmap \/ print_out \/ read_char \/ jump
  BY <1>3, FinishStep, MapStep, UnmapStep, PrintStep, ReadStep, JumpStep
<1>4. CASE load_program
  BY <1>4, ReloadStep
<1> QED
  BY <1>1, <1>2, <1>3, <1>4 DEF ArmNext

\* Compiled code is a UM on either host, as long as it runs no word that it has
\* stored itself: what the chunks, the handlers behind a call and the loop of
\* utility.S do to its registers, its segments, its finger and the console is
\* what the UM would have done by decoding each word afresh.
THEOREM CompiledIsUM == ArmSpec => ImplementsUMachine
<1>1. ArmInit => UM64!Init
  <2> SUFFICES ASSUME ArmInit PROVE UM64!Init
    OBVIOUS
  <2>1. UM!Init
    BY InitMemory DEF ArmInit
  <2>2. Value \cup {0} = U32
    <3>1. 0 \in U32
      BY Virt32Assumption, IsaAssumption, ArmJitAssumption DEF U32
    <3> QED
      BY <3>1, ArmJitAssumption
  <2>3. UM64!Memory!Init
    BY <2>1, <2>2 DEF UM!Init, UM64!Memory!Init
  <2>4. ArmInv /\ Looping
    <3>1. ArmInv /\ pc = loop /\ cpu = started /\ regions = 1
      BY StartKeeps DEF ArmInit
    <3>2. cpu.reg[27] # 0
      <4>1. cpu.reg[27] = Region(1) /\ regions \in 1..MaxRegions
        BY <3>1, Starting DEF ArmInv, Shapes
      <4> QED
        BY <3>1, <4>1, RegionsAbove
    <3> QED
      BY <3>1, <3>2, AtLabel DEF Stopping
  <2>5. Finger = cpu.reg[10] /\ ~Returned /\ Seen = UMRegisters(cpu)
    BY <2>4, LoopingView
  <2>6. cpu.reg[10] = 0 /\ \A q \in 19..26 : cpu.reg[q] = 0
    BY Starting DEF ArmInit
  <2>7. Seen = [r \in Reg |-> 0]
    BY <2>5, <2>6, Registers DEF UMRegisters
  <2>8. out = <<>>
    BY DEF ArmInit
  <2> QED
    BY <2>3, <2>5, <2>6, <2>7, <2>8, SameDecoding DEF UM64!Init, Seen, Returned
<1>2. ASSUME ArmInv, Unwritten, ArmNext PROVE UM64!Next \/ UNCHANGED UM64!vars
  <2>1. ArmInv'
    BY <1>2, StepKeeps
  <2> QED
    BY <1>2, <2>1, StepIsUM
<1>3. ASSUME ArmInv, UNCHANGED <<vars, arm>> PROVE UNCHANGED UM64!vars
  <2>1. UNCHANGED <<mem, mapped, host, cpu, pc, code, regions, out, begun, left>>
    BY <1>3 DEF vars, arm, alloc
  <2>2. Memory' = Memory
    BY <2>1, MemoryUnchanged
  <2>3. UNCHANGED <<Index, Inside>>
    BY <2>1 DEF Index, Inside
  <2>4. InCode' = InCode /\ Finger' = Finger /\ Returned' = Returned
    BY <2>1, <2>3 DEF InCode, Finger, Returned
  <2>5. Seen' = Seen
    <3>1. CASE InCode /\ Inside # 0
      <4>1. Resuming
        BY <1>3, <3>1, AboveLabels DEF InCode
      <4>2. last' = last
        BY <2>1 DEF last
      <4>3. Resuming'
        BY <2>1, <4>1, <4>2 DEF Resuming, Behind
      <4>4. Seen' = ResumedRegisters'
        BY <1>3, <4>3, StillKeeps, ShowsResuming DEF Shows
      <4>5. ResumedRegisters' = ResumedRegisters
        BY <2>1, <4>2 DEF ResumedRegisters, UMRegisters
      <4> QED
        BY <1>3, <4>1, <4>4, <4>5, ResumingView
    <3>2. CASE ~(InCode /\ Inside # 0)
      <4>1. Resumed = cpu /\ Resumed' = cpu'
        BY <2>3, <2>4, <3>2 DEF Resumed
      <4> QED
        BY <2>1, <2>4, <4>1 DEF Seen, UMRegisters
    <3> QED
      BY <3>1, <3>2
  <2> QED
    BY <2>1, <2>2, <2>4, <2>5 DEF UM64!vars, Memory, Seen
<1>4. ArmInv /\ Unwritten /\ [ArmNext]_<<vars, arm>> => [UM64!Next]_UM64!vars
  BY <1>2, <1>3
<1>5. ArmSpec => []Unwritten
  BY CompiledUsesVirt32, UncarvedIsZero, PTL
<1> QED
  BY <1>1, <1>4, <1>5, ArmInvariant, PTL DEF ArmSpec, UM64!Spec, ImplementsUMachine
=============================================================================
