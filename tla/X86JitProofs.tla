---------------------------- MODULE X86JitProofs ----------------------------
(***************************************************************************)
(* What the chunks and the hand-written handler of the x86-64 JIT keep: the *)
(* reserved registers and the stack, the place where control lands, the     *)
(* caller's registers, and the heap of Virt32; and that compiled code is a  *)
(* UM until it reaches a word that it has changed.                          *)
(***************************************************************************)
EXTENDS X86Jit, Virt32Proofs, IsaProofs

-----------------------------------------------------------------------------
\* Machine instructions.

Cpu == [reg : [Register -> Nat], zf : BOOLEAN, stack : Seq(Nat)]

\* What the instructions of a chunk do when they leave v in register q: they
\* use rax and rdx freely, and keep everything else.
Yields(c, s, q, v) ==
    /\ s \in Cpu /\ s.stack = c.stack /\ s.reg[q] = v
    /\ \A p \in Register \ {rax, rdx, q} : s.reg[p] = c.reg[p]

Flagged(c, zero_result) == [c EXCEPT !.zf = zero_result]

\* Two registers written at once.
SetBoth(c, p, v, q, w) == [c EXCEPT !.reg[p] = v, !.reg[q] = w]

LEMMA Setting ==
    ASSUME NEW c \in Cpu, NEW d \in Register, NEW v \in Nat
    PROVE  /\ Set(c, d, v) \in Cpu /\ Set(c, d, v).stack = c.stack /\ Set(c, d, v).zf = c.zf
           /\ c.reg \in [Register -> Nat] /\ Set(c, d, v).reg = [c.reg EXCEPT ![d] = v]
BY DEF Cpu, Set

\* A chunk computes in rax and rdx before it writes the register it is about.
Near(c, s) ==
    /\ s \in Cpu /\ s.stack = c.stack
    /\ \A r \in Register \ {rax, rdx} : s.reg[r] = c.reg[r]

NearWith(c, s, d, v) == Near(c, s) /\ s.reg[d] = v

LEMMA Scratch ==
    ASSUME NEW c, NEW s, Near(c, s), NEW d \in {rax, rdx}, NEW v \in Nat
    PROVE  NearWith(c, Set(s, d, v), d, v)
<1>1. s \in Cpu /\ d \in Register
  BY DEF Near, Register, rax, rdx
<1>2. /\ Set(s, d, v) \in Cpu /\ Set(s, d, v).stack = s.stack
      /\ s.reg \in [Register -> Nat] /\ Set(s, d, v).reg = [s.reg EXCEPT ![d] = v]
  BY <1>1, Setting
<1> QED
  BY <1>1, <1>2 DEF Near, NearWith

LEMMA Leaving ==
    ASSUME NEW c, NEW s, Near(c, s), NEW p \in Register, NEW v \in Nat
    PROVE  Yields(c, Set(s, p, v), p, v)
<1>1. s \in Cpu
  BY DEF Near
<1>2. /\ Set(s, p, v) \in Cpu /\ Set(s, p, v).stack = s.stack
      /\ s.reg \in [Register -> Nat] /\ Set(s, p, v).reg = [s.reg EXCEPT ![p] = v]
  BY <1>1, Setting
<1> QED
  BY <1>1, <1>2 DEF Near, Yields

\* UM registers live in machine registers 8 and up.
LEMMA Registers ==
    /\ \A r \in Reg : R(r) \in Register /\ R(r) \in 8..15
    /\ {rax, rcx, rdx, rbx, rbp, rsi, rdi} \subseteq Register
    /\ \A r, s \in Reg : R(r) = R(s) => r = s
<1>1. NREGS \in Nat /\ NREGS <= 8
  BY IsaAssumption, X86JitAssumption
<1> QED
  BY <1>1 DEF R, Reg, Register, rax, rcx, rdx, rbx, rbp, rsi, rdi

LEMMA Fielded ==
    ASSUME NEW name, NEW length, NEW s, NEW d
    PROVE  /\ Op(name, length, s, d).op = name /\ Op(name, length, s, d).src = s
           /\ Op(name, length, s, d).dst = d /\ Op(name, length, s, d).len = length
BY DEF Op

\* What each kind of instruction does.
LEMMA Exec_movimm ==
    ASSUME NEW c, NEW o, o.op = "mov imm32"
    PROVE  Exec(c, o) = Set(c, o.dst, o.src)
BY Zenon DEF Exec

LEMMA Exec_moval ==
    ASSUME NEW c, NEW o, o.op = "mov imm8, al"
    PROVE  Exec(c, o) = Set(c, rax, c.reg[o.dst] - (c.reg[o.dst] % BYTE) + o.src)
BY Zenon DEF Exec

LEMMA Exec_mov ==
    ASSUME NEW c, NEW o, o.op = "mov"
    PROVE  Exec(c, o) = Set(c, o.dst, Wrap(c.reg[o.src]))
BY Zenon DEF Exec

LEMMA Exec_add ==
    ASSUME NEW c, NEW o, o.op = "add"
    PROVE  Exec(c, o) = Set(c, o.dst, Wrap(c.reg[o.dst] + c.reg[o.src]))
BY Zenon DEF Exec

LEMMA Exec_and ==
    ASSUME NEW c, NEW o, o.op = "and"
    PROVE  Exec(c, o) = Set(c, o.dst, And(Wrap(c.reg[o.dst]), Wrap(c.reg[o.src])))
BY Zenon DEF Exec

LEMMA Exec_not ==
    ASSUME NEW c, NEW o, o.op = "not"
    PROVE  Exec(c, o) = Set(c, o.dst, GB4 - 1 - Wrap(c.reg[o.dst]))
BY Zenon DEF Exec

LEMMA Exec_zero ==
    ASSUME NEW c, NEW o, o.op = "xor"
    PROVE  Exec(c, o) = Set(c, o.dst, 0)
BY Zenon DEF Exec

LEMMA Exec_test ==
    ASSUME NEW c, NEW o, o.op = "test"
    PROVE  Exec(c, o) = Flagged(c, Wrap(c.reg[o.src]) = 0)
BY Zenon DEF Exec, Flagged

LEMMA Exec_cmovne ==
    ASSUME NEW c, NEW o, o.op = "cmovne"
    PROVE  /\ c.zf => Exec(c, o) = Set(c, o.dst, Wrap(c.reg[o.dst]))
           /\ ~c.zf => Exec(c, o) = Set(c, o.dst, Wrap(c.reg[o.src]))
BY Zenon DEF Exec

LEMMA Exec_lea ==
    ASSUME NEW c, NEW o, o.op = "lea"
    PROVE  Exec(c, o) = Set(c, rax, c.reg[rcx] + c.reg[o.src])
BY Zenon DEF Exec

LEMMA Exec_load ==
    ASSUME NEW c, NEW o, o.op = "load"
    PROVE  Exec(c, o) = Set(c, o.dst, mem[Target(c, o.src)])
BY Zenon DEF Exec

LEMMA Exec_mul ==
    ASSUME NEW c, NEW o, o.op = "mul"
    PROVE  Exec(c, o) = SetBoth(c, rax, Wrap(Wrap(c.reg[rax]) * Wrap(c.reg[o.src])),
                           rdx, (Wrap(c.reg[rax]) * Wrap(c.reg[o.src])) \div GB4)
BY Zenon DEF Exec, SetBoth

LEMMA Exec_div ==
    ASSUME NEW c, NEW o, o.op = "div"
    PROVE  Exec(c, o) = SetBoth(c, rax, (c.reg[rdx] * GB4 * GB4 + c.reg[rax]) \div c.reg[o.src],
                           rdx, (c.reg[rdx] * GB4 * GB4 + c.reg[rax]) % c.reg[o.src])
BY Zenon DEF Exec, SetBoth

LEMMA Exec_xchg ==
    ASSUME NEW c, NEW o, o.op = "xchg"
    PROVE  Exec(c, o) = SetBoth(c, rax, Wrap(c.reg[o.dst]), o.dst, Wrap(c.reg[o.src]))
BY Zenon DEF Exec, SetBoth

LEMMA Exec_nothing ==
    ASSUME NEW c, NEW o, o.op \in {"store", "nop", "call", "jmp"}
    PROVE  Exec(c, o) = c
BY Zenon DEF Exec

\* A run of up to four instructions is one after the other.
LEMMA Counting ==
    ASSUME NEW o, NEW p, NEW q, NEW s
    PROVE  /\ Len(<<>>) = 0 /\ Len(<<o>>) = 1 /\ Len(<<o, p>>) = 2
           /\ Len(<<o, p, q>>) = 3 /\ Len(<<o, p, q, s>>) = 4
OBVIOUS

LEMMA ThenDoes ==
    ASSUME NEW c, NEW ops, NEW k
    PROVE  /\ k <= Len(ops) => Then(c, ops, k) = Exec(c, ops[k])
           /\ ~(k <= Len(ops)) => Then(c, ops, k) = c
BY DEF Then

LEMMA RunFour ==
    ASSUME NEW c, NEW o, NEW p, NEW q, NEW s
    PROVE  Run(c, <<o, p, q, s>>) = Exec(Exec(Exec(Exec(c, o), p), q), s)
<1> DEFINE ops == <<o, p, q, s>>
<1>1. Len(ops) = 4 /\ ops[1] = o /\ ops[2] = p /\ ops[3] = q /\ ops[4] = s
  BY Counting
<1> HIDE DEF ops
<1>2. \A d : /\ Then(d, ops, 1) = Exec(d, o) /\ Then(d, ops, 2) = Exec(d, p)
             /\ Then(d, ops, 3) = Exec(d, q) /\ Then(d, ops, 4) = Exec(d, s)
  BY <1>1, ThenDoes
<1>3. Run(c, ops) = Exec(Exec(Exec(Exec(c, o), p), q), s)
  BY <1>2 DEF Run
<1> QED
  BY <1>3 DEF ops

LEMMA RunThree ==
    ASSUME NEW c, NEW o, NEW p, NEW q
    PROVE  Run(c, <<o, p, q>>) = Exec(Exec(Exec(c, o), p), q)
<1> DEFINE ops == <<o, p, q>>
<1>1. Len(ops) = 3 /\ ops[1] = o /\ ops[2] = p /\ ops[3] = q
  BY Counting
<1> HIDE DEF ops
<1>2. \A d : /\ Then(d, ops, 1) = Exec(d, o) /\ Then(d, ops, 2) = Exec(d, p)
             /\ Then(d, ops, 3) = Exec(d, q) /\ Then(d, ops, 4) = d
  BY <1>1, ThenDoes
<1>3. Run(c, ops) = Exec(Exec(Exec(c, o), p), q)
  BY <1>2 DEF Run
<1> QED
  BY <1>3 DEF ops

LEMMA RunTwo ==
    ASSUME NEW c, NEW o, NEW p
    PROVE  Run(c, <<o, p>>) = Exec(Exec(c, o), p)
<1> DEFINE ops == <<o, p>>
<1>1. Len(ops) = 2 /\ ops[1] = o /\ ops[2] = p
  BY Counting
<1> HIDE DEF ops
<1>2. \A d : /\ Then(d, ops, 1) = Exec(d, o) /\ Then(d, ops, 2) = Exec(d, p)
             /\ Then(d, ops, 3) = d /\ Then(d, ops, 4) = d
  BY <1>1, ThenDoes
<1>3. Run(c, ops) = Exec(Exec(c, o), p)
  BY <1>2 DEF Run
<1> QED
  BY <1>3 DEF ops

LEMMA RunOne ==
    ASSUME NEW c, NEW o
    PROVE  Run(c, <<o>>) = Exec(c, o)
<1> DEFINE ops == <<o>>
<1>1. Len(ops) = 1 /\ ops[1] = o
  BY Counting
<1> HIDE DEF ops
<1>2. \A d : /\ Then(d, ops, 1) = Exec(d, o) /\ Then(d, ops, 2) = d
             /\ Then(d, ops, 3) = d /\ Then(d, ops, 4) = d
  BY <1>1, ThenDoes
<1>3. Run(c, ops) = Exec(c, o)
  BY <1>2 DEF Run
<1> QED
  BY <1>3 DEF ops

\* A value that fits a register's low byte, put there.
LEMMA LowByte ==
    ASSUME NEW x \in Nat, NEW v \in 0..BYTE - 1
    PROVE  /\ x - (x % BYTE) + v \in Nat
           /\ (x - (x % BYTE) + v) % BYTE = v
<1>1. BYTE \in Nat \ {0}
  BY IsaAssumption
<1>2. PICK n \in Nat \ {0} : n = BYTE
  BY <1>1
<1>b. x \div n \in Nat /\ x % n \in Nat /\ x = (x \div n) * n + (x % n)
  BY <1>2, DivMod
<1>3. PICK q \in Nat, r \in Nat : x = q * n + r /\ r = x % n
  BY <1>b, Zenon
<1>4. PICK m \in Nat : m = q * n
  BY <1>2
<1>a. v \in Nat /\ x = m + r /\ x - r + v = m + v /\ m + v \in Nat
  BY <1>2, <1>3, <1>4
<1>5. (q * n + v) % n = v
  BY <1>2, Positional
<1> QED
  BY <1>2, <1>3, <1>4, <1>a, <1>5

LEMMA Instructions ==
    /\ \A c, s, d : Exec(c, movimm(s, d)) = Set(c, d, s)
    /\ \A c, s : Exec(c, moval(s)) = Set(c, rax, c.reg[rax] - (c.reg[rax] % BYTE) + s)
    /\ \A c, s, d : Exec(c, mov(s, d)) = Set(c, d, Wrap(c.reg[s]))
    /\ \A c, s, d : Exec(c, add(s, d)) = Set(c, d, Wrap(c.reg[d] + c.reg[s]))
    /\ \A c, s, d : Exec(c, and(s, d)) = Set(c, d, And(Wrap(c.reg[d]), Wrap(c.reg[s])))
    /\ \A c, d : Exec(c, not(d)) = Set(c, d, GB4 - 1 - Wrap(c.reg[d]))
    /\ \A c, d : Exec(c, zero(d)) = Set(c, d, 0)
    /\ \A c, s : Exec(c, test(s)) = Flagged(c, Wrap(c.reg[s]) = 0)
    /\ \A c, s, d : /\ c.zf => Exec(c, cmovne(s, d)) = Set(c, d, Wrap(c.reg[d]))
                    /\ ~c.zf => Exec(c, cmovne(s, d)) = Set(c, d, Wrap(c.reg[s]))
    /\ \A c, s : Exec(c, lea(s)) = Set(c, rax, c.reg[rcx] + c.reg[s])
    /\ \A c, s, d : Exec(c, load(s, d)) = Set(c, d, mem[Target(c, s)])
    /\ \A c, s, d : Exec(c, store(s, d)) = c
    /\ \A c, n : Exec(c, nop(n)) = c
    /\ \A c : Exec(c, call) = c /\ Exec(c, jmp) = c
<1>1. ASSUME NEW c, NEW s, NEW d
      PROVE  Exec(c, movimm(s, d)) = Set(c, d, s)
  <2>1. PICK kind : kind = "mov imm32"
    OBVIOUS
  <2>2. PICK o : o = Op(kind, 7, s, d)
    OBVIOUS
  <2>3. o.op = kind /\ o.src = s /\ o.dst = d
    BY <2>2, Fielded
  <2>4. o = movimm(s, d)
    BY <2>1, <2>2, Zenon DEF movimm
  <2> QED
    BY <2>1, <2>3, <2>4, Exec_movimm, Zenon
<1>2. ASSUME NEW c, NEW s
      PROVE  Exec(c, moval(s)) = Set(c, rax, c.reg[rax] - (c.reg[rax] % BYTE) + s)
  <2>1. PICK kind : kind = "mov imm8, al"
    OBVIOUS
  <2>2. PICK o : o = Op(kind, 2, s, rax)
    OBVIOUS
  <2>3. o.op = kind /\ o.src = s /\ o.dst = rax
    BY <2>2, Fielded
  <2>4. o = moval(s)
    BY <2>1, <2>2, Zenon DEF moval
  <2> QED
    BY <2>1, <2>3, <2>4, Exec_moval, Zenon
<1>3. ASSUME NEW c, NEW s, NEW d
      PROVE  Exec(c, mov(s, d)) = Set(c, d, Wrap(c.reg[s]))
  BY Fielded, Exec_mov DEF mov
<1>4. ASSUME NEW c, NEW s, NEW d
      PROVE  Exec(c, add(s, d)) = Set(c, d, Wrap(c.reg[d] + c.reg[s]))
  BY Fielded, Exec_add DEF add
<1>5. ASSUME NEW c, NEW s, NEW d
      PROVE  Exec(c, and(s, d)) = Set(c, d, And(Wrap(c.reg[d]), Wrap(c.reg[s])))
  BY Fielded, Exec_and DEF and
<1>6. ASSUME NEW c, NEW d
      PROVE  Exec(c, not(d)) = Set(c, d, GB4 - 1 - Wrap(c.reg[d]))
  BY Fielded, Exec_not DEF not
<1>7. ASSUME NEW c, NEW d
      PROVE  Exec(c, zero(d)) = Set(c, d, 0)
  BY Fielded, Exec_zero DEF zero
<1>8. ASSUME NEW c, NEW s
      PROVE  Exec(c, test(s)) = Flagged(c, Wrap(c.reg[s]) = 0)
  BY Fielded, Exec_test DEF test
<1>9. ASSUME NEW c, NEW s, NEW d
      PROVE  /\ c.zf => Exec(c, cmovne(s, d)) = Set(c, d, Wrap(c.reg[d]))
             /\ ~c.zf => Exec(c, cmovne(s, d)) = Set(c, d, Wrap(c.reg[s]))
  BY Fielded, Exec_cmovne DEF cmovne
<1>10. ASSUME NEW c, NEW s
      PROVE  Exec(c, lea(s)) = Set(c, rax, c.reg[rcx] + c.reg[s])
  BY Fielded, Exec_lea DEF lea
<1>11. ASSUME NEW c, NEW s, NEW d
      PROVE  Exec(c, load(s, d)) = Set(c, d, mem[Target(c, s)])
  BY Fielded, Exec_load DEF load
<1>12. ASSUME NEW c, NEW s, NEW d
      PROVE  Exec(c, store(s, d)) = c
  BY Fielded, Exec_nothing DEF store
<1>13. ASSUME NEW c, NEW n
      PROVE  Exec(c, nop(n)) = c
  BY Fielded, Exec_nothing DEF nop
<1>14. ASSUME NEW c
      PROVE  Exec(c, call) = c /\ Exec(c, jmp) = c
  BY Fielded, Exec_nothing DEF call, jmp
<1> QED
  BY <1>1, <1>2, <1>3, <1>4, <1>5, <1>6, <1>7, <1>8, <1>9, <1>10, <1>11, <1>12, <1>13, <1>14

\* The three instructions that write two registers.
WritesBoth(c, p, v, q, w, s) ==
    /\ s \in Cpu /\ s.stack = c.stack /\ s.reg[p] = v /\ s.reg[q] = w
    /\ \A r \in Register \ {p, q} : s.reg[r] = c.reg[r]

LEMMA Pairs ==
    ASSUME NEW c \in Cpu, NEW p \in Register, NEW q \in Register, p # q,
           NEW v \in Nat, NEW w \in Nat
    PROVE  WritesBoth(c, p, v, q, w, SetBoth(c, p, v, q, w))
BY DEF Cpu, SetBoth, WritesBoth

LEMMA MulDivXchg ==
    ASSUME NEW c, NEW s
    PROVE  /\ Exec(c, mul(s)) =
                SetBoth(c, rax, Wrap(Wrap(c.reg[rax]) * Wrap(c.reg[s])),
                           rdx, (Wrap(c.reg[rax]) * Wrap(c.reg[s])) \div GB4)
           /\ Exec(c, div(s)) =
                SetBoth(c, rax, (c.reg[rdx] * GB4 * GB4 + c.reg[rax]) \div c.reg[s],
                           rdx, (c.reg[rdx] * GB4 * GB4 + c.reg[rax]) % c.reg[s])
           /\ Exec(c, xchg(s)) =
                SetBoth(c, rax, Wrap(c.reg[s]), s, Wrap(c.reg[rax]))
<1>1. Exec(c, mul(s)) =
         SetBoth(c, rax, Wrap(Wrap(c.reg[rax]) * Wrap(c.reg[s])),
                           rdx, (Wrap(c.reg[rax]) * Wrap(c.reg[s])) \div GB4)
  BY Fielded, Exec_mul DEF mul
<1>2. Exec(c, div(s)) =
         SetBoth(c, rax, (c.reg[rdx] * GB4 * GB4 + c.reg[rax]) \div c.reg[s],
                           rdx, (c.reg[rdx] * GB4 * GB4 + c.reg[rax]) % c.reg[s])
  BY Fielded, Exec_div DEF div
<1>3. Exec(c, xchg(s)) =
         SetBoth(c, rax, Wrap(c.reg[s]), s, Wrap(c.reg[rax]))
  BY Fielded, Exec_xchg DEF xchg
<1> QED
  BY <1>1, <1>2, <1>3

-----------------------------------------------------------------------------
\* What the chunk of each instruction without a call does.

\* The UM registers hold words.
Words(c) == \A r \in Reg : c.reg[R(r)] \in U32

LEMMA WordNat == ASSUME NEW x \in U32 PROVE x \in Nat /\ Wrap(x) = x
<1>1. x \in Nat
  BY Virt32Assumption DEF U32
<1> QED
  BY <1>1, WrapFits

LEMMA WrapNat == ASSUME NEW x \in Nat PROVE Wrap(x) \in U32 /\ Wrap(x) \in Nat
<1>1. Wrap(x) \in U32
  BY WrapRange
<1> QED
  BY <1>1, WordNat

LEMMA LoadRegDoes ==
    ASSUME NEW c \in Cpu, NEW a \in Reg, NEW v \in U32
    PROVE  Yields(c, Run(c, load_reg(a, v)), R(a), v)
<1>1. R(a) \in Register /\ v \in Nat
  BY Registers, WordNat
<1>2. Run(c, load_reg(a, v)) = Exec(Exec(c, movimm(v, R(a))), nop(3))
  BY RunTwo DEF load_reg
<1>3. Run(c, load_reg(a, v)) = Set(c, R(a), v)
  BY <1>2, Instructions
<1> QED
  BY <1>1, <1>3, Leaving DEF Near

LEMMA CondMoveDoes ==
    ASSUME NEW c \in Cpu, Words(c), NEW a \in Reg, NEW b \in Reg, NEW e \in Reg
    PROVE  Yields(c, Run(c, cond_move(a, b, e)), R(a),
                  IF c.reg[R(e)] # 0 THEN c.reg[R(b)] ELSE c.reg[R(a)])
<1>1. PICK p \in Register, q \in Register, s \in Register : p = R(a) /\ q = R(b) /\ s = R(e)
  BY Registers
<1>2. /\ c.reg[p] \in Nat /\ c.reg[q] \in Nat /\ c.reg[s] \in Nat
      /\ Wrap(c.reg[p]) = c.reg[p] /\ Wrap(c.reg[q]) = c.reg[q] /\ Wrap(c.reg[s]) = c.reg[s]
  BY <1>1, WordNat DEF Words
<1>3. PICK d : d = Flagged(c, Wrap(c.reg[s]) = 0)
  OBVIOUS
<1>4. /\ d \in Cpu /\ d.reg = c.reg /\ d.stack = c.stack
      /\ d.zf <=> c.reg[s] = 0
  BY <1>2, <1>3 DEF Cpu, Flagged
<1>5. Run(c, cond_move(a, b, e))
        = Exec(Exec(Exec(c, test(s)), cmovne(q, p)), nop(3))
  BY <1>1, RunThree DEF cond_move
<1>6. Exec(c, test(s)) = d
  BY <1>3, Instructions, Zenon
<1>7. Run(c, cond_move(a, b, e)) = Exec(d, cmovne(q, p))
  BY <1>5, <1>6, Instructions
<1>8. Near(c, d)
  BY <1>4 DEF Near
<1>9. CASE c.reg[s] = 0
  <2>1. Exec(d, cmovne(q, p)) = Set(d, p, c.reg[p])
    BY <1>2, <1>4, <1>9, Instructions
  <2>2. Yields(c, Set(d, p, c.reg[p]), p, c.reg[p])
    BY <1>2, <1>8, Leaving
  <2> QED
    BY <1>1, <1>7, <1>9, <2>1, <2>2
<1>10. CASE c.reg[s] # 0
  <2>1. Exec(d, cmovne(q, p)) = Set(d, p, c.reg[q])
    BY <1>2, <1>4, <1>10, Instructions
  <2>2. Yields(c, Set(d, p, c.reg[q]), p, c.reg[q])
    BY <1>2, <1>8, Leaving
  <2> QED
    BY <1>1, <1>7, <1>10, <2>1, <2>2
<1> QED
  BY <1>9, <1>10

LEMMA AddDoes ==
    ASSUME NEW c \in Cpu, Words(c), NEW a \in Reg, NEW b \in Reg, NEW e \in Reg
    PROVE  Yields(c, Run(c, add_regs(a, b, e)), R(a), Wrap(c.reg[R(b)] + c.reg[R(e)]))
<1>1. PICK p \in Register, q \in Register, s \in Register :
         p = R(a) /\ q = R(b) /\ s = R(e) /\ s \notin {rax, rdx}
  BY Registers DEF rax, rdx
<1>2. PICK x \in Nat, y \in Nat : x = c.reg[q] /\ y = c.reg[s] /\ Wrap(x) = x
  BY <1>1, WordNat DEF Words
<1>3. PICK z \in Nat : z = Wrap(x + y) /\ Wrap(z) = z
  BY WrapNat, WrapFits
<1>4. rax \in Register
  BY Registers
<1>5. PICK c1 : c1 = Set(c, rax, x)
  OBVIOUS
<1>c. Near(c, c1) /\ c1.reg[rax] = x
  <2>1. Near(c, c)
    BY DEF Near
  <2>2. NearWith(c, c1, rax, x)
    BY <1>5, <2>1, Scratch
  <2> QED
    BY <2>2 DEF NearWith
<1>6. PICK c2 : c2 = Set(c1, rax, z)
  OBVIOUS
<1>d. Near(c, c2) /\ c2.reg[rax] = z
  <2>1. NearWith(c, c2, rax, z)
    BY <1>c, <1>6, Scratch
  <2> QED
    BY <2>1 DEF NearWith
<1>b. c1.reg[s] = y
  BY <1>1, <1>2, <1>4, <1>c DEF Near
<1>7. Run(c, add_regs(a, b, e))
        = Exec(Exec(Exec(Exec(c, mov(q, rax)), add(s, rax)), mov(rax, p)), nop(1))
  BY <1>1, RunFour DEF add_regs
<1>8. Exec(c, mov(q, rax)) = c1 /\ Exec(c1, add(s, rax)) = c2 /\ Exec(c2, mov(rax, p)) = Set(c2, p, z)
  BY <1>1, <1>2, <1>3, <1>b, <1>c, <1>d, <1>5, <1>6, Instructions
<1>9. Run(c, add_regs(a, b, e)) = Set(c2, p, z)
  BY <1>7, <1>8, Instructions
<1>10. Yields(c, Set(c2, p, z), p, z)
  BY <1>d, Leaving
<1> QED
  BY <1>1, <1>2, <1>3, <1>9, <1>10

LEMMA ScratchBoth ==
    ASSUME NEW c, NEW s, NEW v \in Nat, NEW w \in Nat, NEW t,
           Near(c, s), t = SetBoth(s, rax, v, rdx, w)
    PROVE  NearWith(c, t, rax, v)
<1>1. s \in Cpu /\ rax \in Register /\ rdx \in Register /\ rax # rdx
  BY DEF Near, Register, rax, rdx
<1>2. WritesBoth(s, rax, v, rdx, w, t)
  BY <1>1, Pairs
<1>3. /\ t \in Cpu /\ t.stack = s.stack /\ t.reg[rax] = v
      /\ \A r \in Register \ {rax, rdx} : t.reg[r] = s.reg[r]
  BY <1>2 DEF WritesBoth
<1> QED
  BY <1>1, <1>3 DEF Near, NearWith

LEMMA MultDoes ==
    ASSUME NEW c \in Cpu, Words(c), NEW a \in Reg, NEW b \in Reg, NEW e \in Reg
    PROVE  Yields(c, Run(c, mult_regs(a, b, e)), R(a), Wrap(c.reg[R(b)] * c.reg[R(e)]))
<1>1. PICK p \in Register, q \in Register, s \in Register :
         p = R(a) /\ q = R(b) /\ s = R(e) /\ s \notin {rax, rdx}
  BY Registers DEF rax, rdx
<1>2. PICK x \in Nat, y \in Nat : /\ x = c.reg[q] /\ y = c.reg[s]
                                  /\ Wrap(x) = x /\ Wrap(y) = y
  BY <1>1, WordNat DEF Words
<1>3. PICK m \in Nat : m = x * y
  OBVIOUS
<1>4. PICK z \in Nat : z = Wrap(m) /\ Wrap(z) = z
  BY WrapNat, WrapFits
<1>5. PICK h \in Nat : h = m \div GB4
  <2>1. GB4 \in Nat \ {0}
    BY Virt32Assumption DEF BOOK_SIZE
  <2> QED
    BY <2>1, DivMod
<1>6. PICK c1 : c1 = Set(c, rax, x)
  OBVIOUS
<1>a. NearWith(c, c1, rax, x)
  <2>1. Near(c, c)
    BY DEF Near
  <2> QED
    BY <1>6, <2>1, Scratch
<1>7. Near(c, c1) /\ c1.reg[rax] = x
  BY <1>a DEF NearWith
<1>8. c1.reg[s] = y
  BY <1>1, <1>2, <1>7 DEF Near
<1>9. PICK c2 : c2 = SetBoth(c1, rax, z, rdx, h)
  OBVIOUS
<1>b. NearWith(c, c2, rax, z)
  BY <1>7, <1>9, ScratchBoth
<1>10. Near(c, c2) /\ c2.reg[rax] = z
  BY <1>b DEF NearWith
<1>11. Run(c, mult_regs(a, b, e))
        = Exec(Exec(Exec(Exec(c, mov(q, rax)), mul(s)), mov(rax, p)), nop(1))
  BY <1>1, RunFour DEF mult_regs
<1>12. Exec(c, mov(q, rax)) = c1
  BY <1>2, <1>6, Instructions
<1>13. Exec(c1, mul(s)) = c2
  <2>1. Exec(c1, mul(s)) =
          SetBoth(c1, rax, Wrap(Wrap(c1.reg[rax]) * Wrap(c1.reg[s])),
                      rdx, (Wrap(c1.reg[rax]) * Wrap(c1.reg[s])) \div GB4)
    BY MulDivXchg, Zenon
  <2>2. Wrap(c1.reg[rax]) * Wrap(c1.reg[s]) = m
    BY <1>2, <1>3, <1>7, <1>8
  <2> QED
    BY <1>4, <1>5, <1>9, <2>1, <2>2, Zenon
<1>14. Exec(c2, mov(rax, p)) = Set(c2, p, z)
  BY <1>4, <1>10, Instructions
<1>15. Run(c, mult_regs(a, b, e)) = Set(c2, p, z)
  BY <1>11, <1>12, <1>13, <1>14, Instructions
<1>16. Yields(c, Set(c2, p, z), p, z)
  BY <1>10, Leaving
<1> QED
  BY <1>1, <1>2, <1>3, <1>4, <1>15, <1>16

LEMMA DivDoes ==
    ASSUME NEW c \in Cpu, Words(c), NEW a \in Reg, NEW b \in Reg, NEW e \in Reg,
           c.reg[R(e)] # 0
    PROVE  Yields(c, Run(c, div_regs(a, b, e)), R(a), c.reg[R(b)] \div c.reg[R(e)])
<1>1. PICK p \in Register, q \in Register, s \in Register :
         /\ p = R(a) /\ q = R(b) /\ s = R(e) /\ s \notin {rax, rdx}
         /\ q \notin {rax, rdx} /\ p \notin {rax, rdx}
  BY Registers DEF rax, rdx
<1>2. PICK x \in Nat, y \in Nat \ {0} :
         x = c.reg[q] /\ y = c.reg[s] /\ Wrap(x) = x /\ x \in U32 /\ y \in U32
  BY <1>1, WordNat DEF Words
<1>3. PICK z \in Nat : z = x \div y /\ Wrap(z) = z
  BY <1>2, QuotientBound, WordNat
<1>4. PICK h \in Nat : h = x % y
  BY DivMod
<1>5. PICK c1 : c1 = Set(c, rdx, 0)
  OBVIOUS
<1>a. NearWith(c, c1, rdx, 0)
  <2>1. Near(c, c)
    BY DEF Near
  <2> QED
    BY <1>5, <2>1, Scratch
<1>6. Near(c, c1) /\ c1.reg[rdx] = 0
  BY <1>a DEF NearWith
<1>7. PICK c2 : c2 = Set(c1, rax, x)
  OBVIOUS
<1>b. NearWith(c, c2, rax, x)
  BY <1>6, <1>7, Scratch
<1>8. Near(c, c2) /\ c2.reg[rax] = x
  BY <1>b DEF NearWith
<1>9. c2.reg[rdx] = 0
  <2>1. c1 \in Cpu /\ rax \in Register /\ rdx \in Register /\ rax # rdx
    BY <1>6 DEF Near, Register, rax, rdx
  <2>2. c1.reg \in [Register -> Nat] /\ c2.reg = [c1.reg EXCEPT ![rax] = x]
    BY <1>7, <2>1, Setting
  <2> QED
    BY <1>6, <2>1, <2>2
<1>10. c2.reg[s] = y /\ c1.reg[q] = x
  BY <1>1, <1>2, <1>6, <1>8 DEF Near
<1>11. PICK c3 : c3 = SetBoth(c2, rax, z, rdx, h)
  OBVIOUS
<1>c. NearWith(c, c3, rax, z)
  BY <1>8, <1>11, ScratchBoth
<1>12. Near(c, c3) /\ c3.reg[rax] = z
  BY <1>c DEF NearWith
<1>13. Run(c, div_regs(a, b, e))
        = Exec(Exec(Exec(Exec(c, zero(rdx)), mov(q, rax)), div(s)), xchg(p))
  BY <1>1, RunFour DEF div_regs
<1>14. Exec(c, zero(rdx)) = c1 /\ Exec(c1, mov(q, rax)) = c2
  BY <1>2, <1>5, <1>7, <1>10, Instructions
<1>15. Exec(c2, div(s)) = c3
  <2>1. Exec(c2, div(s)) =
          SetBoth(c2, rax, (c2.reg[rdx] * GB4 * GB4 + c2.reg[rax]) \div c2.reg[s],
                      rdx, (c2.reg[rdx] * GB4 * GB4 + c2.reg[rax]) % c2.reg[s])
    BY MulDivXchg, Zenon
  <2>2. c2.reg[rdx] * GB4 * GB4 + c2.reg[rax] = x
    BY <1>8, <1>9, Virt32Assumption
  <2> QED
    BY <1>3, <1>4, <1>10, <1>11, <2>1, <2>2, Zenon
<1>16. PICK w \in Nat : w = Wrap(c3.reg[p])
  BY <1>1, <1>12, WrapNat DEF Near, Cpu
<1>17. Exec(c3, xchg(p)) = SetBoth(c3, rax, w, p, z)
  BY <1>3, <1>12, <1>16, MulDivXchg, Zenon
<1>18. Run(c, div_regs(a, b, e)) = SetBoth(c3, rax, w, p, z)
  BY <1>13, <1>14, <1>15, <1>17
<1>19. c3 \in Cpu /\ rax \in Register /\ rax # p
  BY <1>1, <1>12 DEF Near, Register, rax
<1>22. PICK t : t = SetBoth(c3, rax, w, p, z)
  OBVIOUS
<1>20. /\ t \in Cpu /\ t.stack = c3.stack /\ t.reg[p] = z
       /\ \A r \in Register \ {rax, p} : t.reg[r] = c3.reg[r]
  <2>1. WritesBoth(c3, rax, w, p, z, t)
    BY <1>19, <1>22, Pairs
  <2> QED
    BY <2>1 DEF WritesBoth
<1>21. Yields(c, t, p, z)
  BY <1>12, <1>20 DEF Near, Yields
<1> QED
  BY <1>1, <1>2, <1>3, <1>18, <1>21, <1>22

\* A register written again.
LEMMA Rewriting ==
    ASSUME NEW c, NEW s, NEW p \in Register, NEW u, NEW v \in Nat, NEW t,
           Yields(c, s, p, u), t = Set(s, p, v)
    PROVE  Yields(c, t, p, v)
<1>1. s \in Cpu
  BY DEF Yields
<1>2. /\ t \in Cpu /\ t.stack = s.stack
      /\ s.reg \in [Register -> Nat] /\ t.reg = [s.reg EXCEPT ![p] = v]
  BY <1>1, Setting
<1> QED
  BY <1>1, <1>2 DEF Yields

\* The chunk of nand moves the source that is the destination as well, if one
\* is, so that the other is still there for `and'.
LEMMA NandDoes ==
    ASSUME NEW c \in Cpu, Words(c), NEW a \in Reg, NEW b \in Reg, NEW e \in Reg
    PROVE  Yields(c, Run(c, nand_regs(a, b, e)), R(a),
                  GB4 - 1 - And(c.reg[R(b)], c.reg[R(e)]))
<1>1. PICK m \in Reg, k \in Reg :
         /\ m = IF a = e THEN e ELSE b
         /\ k = IF a = e THEN b ELSE e
  OBVIOUS
<1>2. PICK p \in Register, q \in Register, s \in Register :
         /\ p = R(a) /\ q = R(m) /\ s = R(k) /\ {p, q, s} \cap {rax, rdx} = {}
         /\ s # p \/ p = q
  <2>1. R(k) # R(a) \/ R(a) = R(m)
    BY <1>1, Registers
  <2>2. \A r \in Reg : R(r) \in Register /\ R(r) \notin {rax, rdx}
    BY Registers DEF rax, rdx
  <2> QED
    BY <2>1, <2>2
<1>3. PICK x \in U32, y \in U32 : x = c.reg[q] /\ y = c.reg[s]
  BY <1>2 DEF Words
<1>4. x \in Nat /\ y \in Nat /\ Wrap(x) = x /\ Wrap(y) = y
  BY WordNat
<1>5. PICK z \in U32 : z = And(x, y)
  BY X86JitAssumption
<1>6. z \in Nat /\ Wrap(z) = z
  BY WordNat
<1>7. PICK v \in Nat : v = GB4 - 1 - z
  BY Virt32Assumption DEF U32
<1>8. PICK c1 : c1 = Set(c, p, x)
  OBVIOUS
<1>9. Yields(c, c1, p, x)
  BY <1>2, <1>4, <1>8, Leaving DEF Near
<1>10. c1.reg[p] = x /\ c1.reg[s] = y
  BY <1>2, <1>3, <1>9 DEF Yields
<1>11. PICK c2 : c2 = Set(c1, p, z)
  OBVIOUS
<1>12. Yields(c, c2, p, z)
  BY <1>6, <1>9, <1>11, Rewriting
<1>13. PICK c3 : c3 = Set(c2, p, v)
  OBVIOUS
<1>14. Yields(c, c3, p, v)
  BY <1>7, <1>12, <1>13, Rewriting
<1>15. c2.reg[p] = z
  BY <1>12 DEF Yields
<1>16. Exec(c, mov(q, p)) = c1
  BY <1>3, <1>4, <1>8, Instructions
<1>17. Exec(c1, and(s, p)) = c2
  BY <1>4, <1>5, <1>10, <1>11, Instructions
<1>18. Exec(c2, not(p)) = c3
  BY <1>6, <1>7, <1>13, <1>15, Instructions
<1>19. Run(c, nand_regs(a, b, e))
        = Exec(Exec(Exec(Exec(c, mov(q, p)), and(s, p)), not(p)), nop(1))
  BY <1>1, <1>2, RunFour DEF nand_regs
<1>20. Run(c, nand_regs(a, b, e)) = c3
  BY <1>16, <1>17, <1>18, <1>19, Instructions
<1>21. z = And(c.reg[R(b)], c.reg[R(e)])
  <2>1. And(x, y) = And(y, x)
    BY X86JitAssumption
  <2>2. CASE a = e
    BY <1>1, <1>2, <1>3, <1>5, <2>1, <2>2
  <2>3. CASE a # e
    BY <1>1, <1>2, <1>3, <1>5, <2>3
  <2> QED
    BY <2>2, <2>3
<1> QED
  BY <1>2, <1>7, <1>14, <1>20, <1>21

\* The address that lea leaves in rax, with the index, names a UM word.
LEMMA Addressing ==
    ASSUME NEW c \in Cpu, c.reg[rcx] = USABLE, NEW q \in 8..15, NEW s \in 8..15,
           c.reg[q] \in Nat, c.reg[s] \in Nat
    PROVE  /\ Near(c, Exec(c, lea(q)))
           /\ Target(Exec(c, lea(q)), s) = Cell(c.reg[q] + 4 * c.reg[s])
<1>0. PICK d : d = Exec(c, lea(q))
  OBVIOUS
<1>1. PICK x \in Nat, y \in Nat : x = c.reg[q] /\ y = c.reg[s]
  OBVIOUS
<1>2. USABLE \in Nat
  BY X86JitAssumption DEF USABLE, BOOK_SIZE
<1>3. PICK u \in Nat : u = USABLE + x
  BY <1>2
<1>4. d = Set(c, rax, u)
  BY <1>0, <1>1, <1>3, Instructions
<1>5. Near(c, d) /\ d.reg[rax] = u
  <2>1. Near(c, c)
    BY DEF Near
  <2>2. NearWith(c, d, rax, u)
    BY <1>4, <2>1, Scratch
  <2> QED
    BY <2>2 DEF NearWith
<1>6. s \in Register /\ s \notin {rax, rdx}
  BY DEF Register, rax, rdx
<1>7. d.reg[s] = y
  BY <1>1, <1>5, <1>6 DEF Near
<1>8. u + 4 * y - USABLE = x + 4 * y
  BY <1>2, <1>3
<1> QED
  BY <1>0, <1>1, <1>5, <1>7, <1>8 DEF Target

LEMMA SegLoadDoes ==
    ASSUME NEW c \in Cpu, Words(c), c.reg[rcx] = USABLE,
           NEW a \in Reg, NEW b \in Reg, NEW e \in Reg,
           NEW v \in Nat, v = get_at(mem, c.reg[R(b)] + 4 * c.reg[R(e)])
    PROVE  Yields(c, Run(c, seg_load(a, b, e)), R(a), v)
<1>1. PICK p \in Register, q \in 8..15, s \in 8..15 : p = R(a) /\ q = R(b) /\ s = R(e)
  BY Registers
<1>2. PICK x \in Nat, y \in Nat : x = c.reg[q] /\ y = c.reg[s]
  BY <1>1, WordNat DEF Words
<1>3. PICK d : d = Exec(c, lea(q))
  OBVIOUS
<1>4. Near(c, d) /\ Target(d, s) = Cell(x + 4 * y)
  BY <1>2, <1>3, Addressing
<1>5. Run(c, seg_load(a, b, e)) = Exec(Exec(Exec(c, lea(q)), load(s, p)), nop(2))
  BY <1>1, RunThree DEF seg_load
<1>6. Exec(d, load(s, p)) = Set(d, p, mem[Target(d, s)])
  BY Instructions
<1>7. mem[Target(d, s)] = v
  BY <1>1, <1>2, <1>4 DEF get_at
<1>8. Run(c, seg_load(a, b, e)) = Set(d, p, v)
  BY <1>3, <1>5, <1>6, <1>7, Instructions
<1> QED
  BY <1>1, <1>4, <1>8, Leaving

LEMMA SegStoreDoes ==
    ASSUME NEW c \in Cpu, Words(c), c.reg[rcx] = USABLE,
           NEW a \in Reg, NEW b \in Reg, NEW e \in Reg
    PROVE  LET ops == seg_store(a, b, e)
               d == Run(c, ops)
           IN  /\ Near(c, d)
               /\ Target(d, ops[2].src) = Cell(c.reg[R(a)] + 4 * c.reg[R(b)])
               /\ Wrap(d.reg[ops[2].dst]) = c.reg[R(e)]
<1>1. PICK q \in 8..15, s \in 8..15, p \in 8..15 : q = R(a) /\ s = R(b) /\ p = R(e)
  BY Registers
<1>2. PICK x \in Nat, y \in Nat : x = c.reg[q] /\ y = c.reg[s]
  BY <1>1, WordNat DEF Words
<1>3. PICK d : d = Exec(c, lea(q))
  OBVIOUS
<1>4. Near(c, d) /\ Target(d, s) = Cell(x + 4 * y)
  BY <1>2, <1>3, Addressing
<1>5. Run(c, seg_store(a, b, e)) = Exec(Exec(Exec(c, lea(q)), store(s, p)), nop(2))
  BY <1>1, RunThree DEF seg_store
<1>6. Run(c, seg_store(a, b, e)) = d
  BY <1>3, <1>5, Instructions
<1>7. seg_store(a, b, e)[2].src = s /\ seg_store(a, b, e)[2].dst = p
  <2>1. seg_store(a, b, e)[2] = store(s, p)
    BY <1>1 DEF seg_store
  <2> QED
    BY <2>1, Fielded DEF store
<1>8. d.reg[p] = c.reg[p] /\ Wrap(c.reg[p]) = c.reg[p]
  <2>1. p \in Register /\ p \notin {rax, rdx}
    BY DEF Register, rax, rdx
  <2> QED
    BY <1>1, <1>4, <2>1, WordNat DEF Near, Words
<1> QED
  BY <1>1, <1>2, <1>4, <1>6, <1>7, <1>8

-----------------------------------------------------------------------------
\* The stack: what pushing registers onto it and popping them off it yields.

Pushing(c, names, s) ==
    /\ s \in Cpu /\ s.reg = c.reg /\ s.zf = c.zf
    /\ Len(s.stack) = Len(c.stack) + Len(names)
    /\ \A i \in 1..Len(c.stack) : s.stack[i] = c.stack[i]
    /\ \A i \in 1..Len(names) : s.stack[Len(c.stack) + i] = c.reg[names[i]]

Popping(c, names, s) ==
    /\ s \in Cpu /\ s.zf = c.zf
    /\ s.stack = SubSeq(c.stack, 1, Len(c.stack) - Len(names))
    /\ \A i \in 1..Len(names) : s.reg[names[i]] = c.stack[Len(c.stack) + 1 - i]
    /\ \A q \in Register :
          (\A i \in 1..Len(names) : names[i] # q) => s.reg[q] = c.reg[q]

Distinct(names) == \A i, j \in 1..Len(names) : names[i] = names[j] => i = j

LEMMA Pushes ==
    ASSUME NEW c \in Cpu, NEW names \in Seq(Register), NEW s, s = Pushed(c, names)
    PROVE  Pushing(c, names, s)
<1> DEFINE f == [i \in DOMAIN names |-> c.reg[names[i]]]
<1>1. c.stack \in Seq(Nat) /\ c.reg \in [Register -> Nat]
  BY DEF Cpu
<1>2. /\ DOMAIN names = 1..Len(names) /\ Len(names) \in Nat
      /\ \A i \in 1..Len(names) : names[i] \in Register
  BY LenProperties, ElementOfSeq
<1>3. f \in Seq(Nat) /\ Len(f) = Len(names)
  BY <1>1, <1>2
<1>4. \A i \in 1..Len(names) : f[i] = c.reg[names[i]]
  BY <1>2
<1> HIDE DEF f
<1>5. /\ c.stack \o f \in Seq(Nat) /\ Len(c.stack \o f) = Len(c.stack) + Len(f)
      /\ \A i \in 1..Len(c.stack) + Len(f) :
            (c.stack \o f)[i] = IF i <= Len(c.stack) THEN c.stack[i] ELSE f[i - Len(c.stack)]
  BY <1>1, <1>3, ConcatProperties
<1>6. s = [c EXCEPT !.stack = c.stack \o f]
  BY DEF Pushed, f
<1>7. s \in Cpu /\ s.reg = c.reg /\ s.zf = c.zf /\ s.stack = c.stack \o f
  BY <1>5, <1>6 DEF Cpu
<1>8. Len(c.stack) \in Nat
  BY <1>1, LenProperties
<1>9. \A i \in 1..Len(c.stack) : s.stack[i] = c.stack[i]
  BY <1>2, <1>3, <1>5, <1>7, <1>8
<1>10. ASSUME NEW i \in 1..Len(names)
       PROVE  s.stack[Len(c.stack) + i] = c.reg[names[i]]
  <2>1. /\ Len(c.stack) + i \in 1..Len(c.stack) + Len(f) /\ ~(Len(c.stack) + i <= Len(c.stack))
        /\ (Len(c.stack) + i) - Len(c.stack) = i
    BY <1>2, <1>3, <1>8
  <2> QED
    BY <1>4, <1>5, <1>7, <2>1
<1> QED
  BY <1>3, <1>5, <1>7, <1>9, <1>10 DEF Pushing

LEMMA Pops ==
    ASSUME NEW c \in Cpu, NEW names \in Seq(Register), Len(names) <= Len(c.stack),
           Distinct(names), NEW s, s = Popped(c, names)
    PROVE  Popping(c, names, s)
<1>1. PICK n \in Nat, m \in Nat : n = Len(c.stack) /\ m = Len(names) /\ m <= n
  BY LenProperties DEF Cpu
<1>2. DOMAIN names = 1..m /\ \A i \in 1..m : names[i] \in Register
  BY <1>1, LenProperties, ElementOfSeq
<1>3. c.stack \in Seq(Nat) /\ c.reg \in [Register -> Nat] /\ \A i \in 1..n : c.stack[i] \in Nat
  BY <1>1, ElementOfSeq DEF Cpu
<1> DEFINE place(q) == CHOOSE i \in DOMAIN names : names[i] = q
           regs == [q \in Register |-> IF \E i \in DOMAIN names : names[i] = q
                                       THEN c.stack[n + 1 - place(q)] ELSE c.reg[q]]
           rest == SubSeq(c.stack, 1, n - m)
<1>4. s = [c EXCEPT !.reg = regs, !.stack = rest]
  BY <1>1 DEF Popped
<1>5. ASSUME NEW i \in 1..m
      PROVE  place(names[i]) = i
  BY <1>1, <1>2 DEF Distinct
<1>6. \A q \in Register : regs[q] \in Nat
  <2> SUFFICES ASSUME NEW q \in Register PROVE regs[q] \in Nat
    OBVIOUS
  <2>1. CASE \E i \in DOMAIN names : names[i] = q
    <3>1. PICK i \in 1..m : names[i] = q
      BY <1>2, <2>1
    <3>2. place(q) = i /\ n + 1 - i \in 1..n
      BY <1>1, <1>5, <3>1
    <3>3. regs[q] = c.stack[n + 1 - i]
      BY <2>1, <3>2
    <3> QED
      BY <1>3, <3>2, <3>3
  <2>2. CASE ~\E i \in DOMAIN names : names[i] = q
    BY <1>3, <2>2
  <2> QED
    BY <2>1, <2>2
<1>7. \A i \in 1..m : regs[names[i]] = c.stack[n + 1 - i]
  BY <1>2, <1>5
<1>8. \A q \in Register : (\A i \in 1..m : names[i] # q) => regs[q] = c.reg[q]
  BY <1>2
<1>9. regs \in [Register -> Nat]
  BY <1>6
<1>10. rest \in Seq(Nat)
  <2>1. \A i \in 1..n - m : c.stack[i] \in Nat
    BY <1>1, <1>3
  <2> QED
    BY <1>1, <1>3, <2>1, SubSeqProperties
<1> HIDE DEF regs, rest
<1>11. s \in Cpu /\ s.zf = c.zf /\ s.reg = regs /\ s.stack = rest
  BY <1>4, <1>9, <1>10 DEF Cpu
<1> QED
  BY <1>1, <1>7, <1>8, <1>11 DEF rest, Popping

\* Registers pushed in one order and popped in the other.
Reverses(rev, names) ==
    Len(rev) = Len(names) /\ \A i \in 1..Len(names) : rev[i] = names[Len(names) + 1 - i]

Restoring(h, s, names, t) ==
    /\ t \in Cpu /\ t.zf = s.zf /\ t.stack = h.stack
    /\ \A i \in 1..Len(names) : t.reg[names[i]] = h.reg[names[i]]
    /\ \A q \in Register :
          (\A i \in 1..Len(names) : names[i] # q) => t.reg[q] = s.reg[q]

LEMMA PushPop ==
    ASSUME NEW h \in Cpu, NEW names \in Seq(Register), NEW rev \in Seq(Register),
           Reverses(rev, names), Distinct(names),
           NEW s \in Cpu, s.stack = Pushed(h, names).stack,
           NEW t, t = Popped(s, rev)
    PROVE  Restoring(h, s, names, t)
<1>1. PICK p : p = Pushed(h, names)
  OBVIOUS
<1>2. PICK n \in Nat, m \in Nat : n = Len(h.stack) /\ m = Len(names)
  BY LenProperties DEF Cpu
<1>3. /\ p \in Cpu /\ Len(p.stack) = n + m
      /\ \A i \in 1..n : p.stack[i] = h.stack[i]
      /\ \A i \in 1..m : p.stack[n + i] = h.reg[names[i]]
  <2>1. Pushing(h, names, p)
    BY <1>1, Pushes
  <2> QED
    BY <1>2, <2>1 DEF Pushing
<1>4. s.stack = p.stack /\ Len(s.stack) = n + m /\ Len(rev) = m /\ Len(rev) <= Len(s.stack)
  BY <1>1, <1>2, <1>3 DEF Reverses
<1>a. \A i \in 1..m : rev[i] = names[m + 1 - i]
  BY <1>2 DEF Reverses
<1>5. Distinct(rev)
  <2> SUFFICES ASSUME NEW i \in 1..m, NEW j \in 1..m, rev[i] = rev[j]
               PROVE  i = j
    BY <1>4 DEF Distinct
  <2>1. m + 1 - i \in 1..m /\ m + 1 - j \in 1..m
    BY <1>2
  <2>2. names[m + 1 - i] = names[m + 1 - j]
    BY <1>a
  <2>3. m + 1 - i = m + 1 - j
    BY <1>2, <2>1, <2>2 DEF Distinct
  <2> QED
    BY <1>2, <2>3
<1>6. /\ t \in Cpu /\ t.zf = s.zf
      /\ t.stack = SubSeq(s.stack, 1, Len(s.stack) - Len(rev))
      /\ \A i \in 1..Len(rev) : t.reg[rev[i]] = s.stack[Len(s.stack) + 1 - i]
      /\ \A q \in Register :
            (\A i \in 1..Len(rev) : rev[i] # q) => t.reg[q] = s.reg[q]
  <2>1. Popping(s, rev, t)
    BY <1>4, <1>5, Pops
  <2> QED
    BY <2>1 DEF Popping
<1>7. t.stack = h.stack
  <2>1. (n + m) - m = n /\ n <= n + m /\ 1 \in 1..n + 1
    BY <1>2
  <2>2. t.stack = SubSeq(p.stack, 1, n)
    BY <1>4, <1>6, <2>1
  <2>3. p.stack \in Seq(Nat) /\ h.stack \in Seq(Nat)
    BY <1>3 DEF Cpu
  <2>4. \A i \in 1..n : p.stack[i] \in Nat
    BY <1>2, <1>3, <2>3, ElementOfSeq
  <2>5. /\ SubSeq(p.stack, 1, n) \in Seq(Nat)
        /\ Len(SubSeq(p.stack, 1, n)) = n
        /\ \A i \in 1..n : SubSeq(p.stack, 1, n)[i] = p.stack[i]
    BY <1>2, <1>3, <2>3, <2>4
  <2> QED
    BY <1>2, <1>3, <2>2, <2>3, <2>5, SeqEqual
<1>8. ASSUME NEW i \in 1..m
      PROVE  t.reg[names[i]] = h.reg[names[i]]
  <2>1. PICK j \in 1..m : j = m + 1 - i
    OBVIOUS
  <2>2. m + 1 - j = i
    BY <2>1
  <2>5. (n + m) + 1 - j = n + i
    BY <2>1
  <2>3. rev[j] = names[i]
    BY <1>a, <2>2
  <2>4. t.reg[rev[j]] = s.stack[(n + m) + 1 - j]
    BY <1>4, <1>6
  <2> QED
    BY <1>3, <1>4, <2>3, <2>4, <2>5
<1>9. ASSUME NEW q \in Register, \A i \in 1..m : names[i] # q
      PROVE  t.reg[q] = s.reg[q]
  <2>1. ASSUME NEW i \in 1..m
        PROVE  rev[i] # q
    <3>1. m + 1 - i \in 1..m
      BY <1>2
    <3> QED
      BY <1>a, <1>9, <3>1
  <2> QED
    BY <1>4, <1>6, <2>1
<1> QED
  BY <1>2, <1>6, <1>7, <1>8, <1>9 DEF Restoring

\* What push_regs and pop_regs keep across a C function, which leaves what it
\* likes in the volatile registers: all that a chunk relies on.
Spared == Register \ {rax, rdx, rsi, rdi}

LEMMA SavedRegisters ==
    LET names == << R(0), R(1), R(2), R(3), rcx >>
        rev == << rcx, R(3), R(2), R(1), R(0) >>
    IN  /\ names \in Seq(Register) /\ rev \in Seq(Register)
        /\ Reverses(rev, names) /\ Distinct(names)
        /\ \A q \in Volatile \cap Spared : \E i \in 1..Len(names) : names[i] = q
        /\ \A i \in 1..Len(names) : names[i] \in Spared
BY DEF R, Register, Volatile, Spared, rax, rcx, rdx, rsi, rdi, Reverses, Distinct

\* The C function is entered with the handler's registers saved.
Entering(h, s) ==
    /\ s \in Cpu /\ s.stack = push_regs(h).stack
    /\ \A q \in Register \ Volatile : s.reg[q] = h.reg[q]

\* A call has returned, and has left a result in rax.
Back(c, d, result) ==
    /\ d \in Cpu /\ d.stack = c.stack /\ d.reg[rax] = result
    /\ \A q \in Spared : d.reg[q] = c.reg[q]

LEMMA RoundTrip ==
    ASSUME NEW h \in Cpu, NEW s, Entering(h, s), NEW result \in Nat, NEW junk \in Nat,
           NEW t, t = pop_regs(returned(s, result, junk))
    PROVE  Back(h, t, result)
<1>e. /\ s \in Cpu /\ s.stack = push_regs(h).stack
      /\ \A q \in Register \ Volatile : s.reg[q] = h.reg[q]
  BY DEF Entering
<1>1. PICK names, rev :
         /\ names = << R(0), R(1), R(2), R(3), rcx >>
         /\ rev = << rcx, R(3), R(2), R(1), R(0) >>
  OBVIOUS
<1>2. PICK u : u = returned(s, result, junk)
  OBVIOUS
<1>3. /\ u \in Cpu /\ u.stack = s.stack /\ u.reg[rax] = result
      /\ \A q \in Register \ Volatile : u.reg[q] = h.reg[q]
  <2>1. s.reg \in [Register -> Nat]
    BY <1>e DEF Cpu
  <2> DEFINE regs == [q \in Register |-> IF q = rax THEN result
                                          ELSE IF q \in Volatile THEN junk ELSE s.reg[q]]
  <2>2. /\ regs \in [Register -> Nat] /\ regs[rax] = result
        /\ \A q \in Register \ Volatile : regs[q] = s.reg[q]
    BY <2>1, Registers DEF Volatile
  <2>3. u = [s EXCEPT !.reg = regs]
    BY <1>2 DEF returned
  <2> HIDE DEF regs
  <2>4. u \in Cpu /\ u.stack = s.stack /\ u.reg = regs
    BY <1>e, <2>2, <2>3 DEF Cpu
  <2> QED
    BY <1>e, <2>2, <2>4
<1>4. /\ names \in Seq(Register) /\ rev \in Seq(Register)
      /\ Reverses(rev, names) /\ Distinct(names)
      /\ \A q \in Volatile \cap Spared : \E i \in 1..Len(names) : names[i] = q
      /\ \A i \in 1..Len(names) : names[i] \in Spared
  BY <1>1, SavedRegisters
<1>5. u.stack = Pushed(h, names).stack /\ t = Popped(u, rev)
  BY <1>1, <1>2, <1>3, <1>e DEF push_regs, pop_regs
<1>6. /\ t \in Cpu /\ t.stack = h.stack
      /\ \A i \in 1..Len(names) : t.reg[names[i]] = h.reg[names[i]]
      /\ \A q \in Register :
            (\A i \in 1..Len(names) : names[i] # q) => t.reg[q] = u.reg[q]
  <2>1. Restoring(h, u, names, t)
    BY <1>3, <1>4, <1>5, PushPop
  <2> QED
    BY <2>1 DEF Restoring
<1>7. t.reg[rax] = result
  <2>1. rax \in Register /\ rax \notin Spared
    BY Registers DEF Spared
  <2>2. \A i \in 1..Len(names) : names[i] # rax
    BY <1>4, <2>1
  <2> QED
    BY <1>3, <1>6, <2>1, <2>2
<1>8. ASSUME NEW q \in Spared
      PROVE  t.reg[q] = h.reg[q]
  <2>1. q \in Register
    BY DEF Spared
  <2>2. CASE \E i \in 1..Len(names) : names[i] = q
    BY <1>6, <2>2
  <2>3. CASE \A i \in 1..Len(names) : names[i] # q
    <3>1. q \notin Volatile
      BY <1>4, <2>3
    <3> QED
      BY <1>3, <1>6, <2>1, <2>3, <3>1
  <2> QED
    BY <2>2, <2>3
<1> QED
  BY <1>6, <1>7, <1>8 DEF Back

\* The end of `run' undoes its beginning.
LEMMA KeptRegisters ==
    LET rev == << R(7), R(6), R(5), R(4), rbp, rbx >>
    IN  /\ Kept \in Seq(Register) /\ rev \in Seq(Register) /\ Len(Kept) = 6
        /\ Reverses(rev, Kept) /\ Distinct(Kept)
        /\ \A i \in 1..6 : Kept[i] \in Register
BY DEF Kept, R, Register, Reverses, Distinct, rbx, rbp

CallerCpu == [reg |-> [q \in Register |-> Caller(q)], zf |-> TRUE, stack |-> <<>>]
CallerStack == [i \in 1..6 |-> Caller(Kept[i])]

LEMMA Calling ==
    /\ CallerCpu \in Cpu
    /\ Pushed(CallerCpu, Kept) \in Cpu
    /\ Pushed(CallerCpu, Kept).reg = [q \in Register |-> Caller(q)]
    /\ Pushed(CallerCpu, Kept).stack = CallerStack
<1>1. CallerCpu \in Cpu
  BY X86JitAssumption DEF CallerCpu, Cpu
<1>2. /\ CallerCpu.reg = [q \in Register |-> Caller(q)]
      /\ CallerCpu.stack = <<>> /\ Len(CallerCpu.stack) = 0
  BY DEF CallerCpu
<1>3. PICK s : s = Pushed(CallerCpu, Kept)
  OBVIOUS
<1>4. Kept \in Seq(Register) /\ Len(Kept) = 6 /\ \A i \in 1..6 : Kept[i] \in Register
  BY KeptRegisters
<1>5. Pushing(CallerCpu, Kept, s)
  BY <1>1, <1>3, <1>4, Pushes
<1>6. /\ s \in Cpu /\ s.reg = [q \in Register |-> Caller(q)] /\ Len(s.stack) = 6
      /\ \A i \in 1..6 : s.stack[i] = Caller(Kept[i])
  <2>1. 0 + 6 = 6 /\ \A i \in 1..6 : 0 + i = i
    OBVIOUS
  <2> QED
    BY <1>2, <1>4, <1>5, <2>1 DEF Pushing
<1>7. s.stack = CallerStack
  <2>1. s.stack \in Seq(Nat)
    BY <1>6 DEF Cpu
  <2>2. \A i \in 1..6 : Caller(Kept[i]) \in Nat
    BY <1>4, X86JitAssumption
  <2>3. CallerStack \in Seq(Nat) /\ Len(CallerStack) = 6
    BY <2>2 DEF CallerStack
  <2>4. \A i \in 1..6 : CallerStack[i] = s.stack[i]
    BY <1>6 DEF CallerStack
  <2> QED
    BY <1>6, <2>1, <2>3, <2>4, SeqEqual
<1> QED
  BY <1>1, <1>3, <1>6, <1>7

LEMMA Restored ==
    ASSUME NEW c \in Cpu, c.stack = CallerStack, NEW t, t = restored(c)
    PROVE  /\ t \in Cpu /\ t.stack = <<>>
           /\ \A i \in 1..6 : t.reg[Kept[i]] = Caller(Kept[i])
<1>1. PICK rev : rev = << R(7), R(6), R(5), R(4), rbp, rbx >>
  OBVIOUS
<1>2. /\ Kept \in Seq(Register) /\ rev \in Seq(Register) /\ Len(Kept) = 6
      /\ Reverses(rev, Kept) /\ Distinct(Kept)
      /\ \A i \in 1..6 : Kept[i] \in Register
  BY <1>1, KeptRegisters
<1>3. t = Popped(c, rev)
  BY <1>1 DEF restored
<1>4. CallerCpu \in Cpu /\ c.stack = Pushed(CallerCpu, Kept).stack
  BY Calling
<1>5. Restoring(CallerCpu, c, Kept, t)
  BY <1>2, <1>3, <1>4, PushPop
<1>6. CallerCpu.stack = <<>> /\ \A q \in Register : CallerCpu.reg[q] = Caller(q)
  BY DEF CallerCpu
<1> QED
  BY <1>2, <1>5, <1>6 DEF Restoring

\* The label `loop' computes the address of a chunk.
LEMMA Loops ==
    ASSUME NEW c \in Cpu, NEW t, t = looped(c)
    PROVE  /\ t \in Cpu /\ t.stack = c.stack
           /\ t.reg[rax] = c.reg[rbp] + CHUNK * Wrap(c.reg[rsi]) /\ t.reg[rax] \in Nat
           /\ \A q \in Register \ {rax, rdi} : t.reg[q] = c.reg[q]
<1>1. PICK p \in Register, q \in Register : p = rdi /\ q = rax /\ p # q
  BY Registers DEF rdi, rax
<1>2. rbp \in Register /\ rsi \in Register /\ c.reg \in [Register -> Nat]
  BY Registers DEF Cpu
<1>3. PICK v \in Nat, x \in Nat : v = c.reg[rbp] /\ x = Wrap(c.reg[rsi])
  BY <1>2, WrapNat
<1>4. PICK w \in Nat : w = v + CHUNK * x
  BY <1>3 DEF CHUNK
<1>5. t = SetBoth(c, p, v, q, w)
  BY <1>1, <1>3, <1>4 DEF looped, SetBoth
<1>6. /\ t \in Cpu /\ t.stack = c.stack /\ t.reg[q] = w
      /\ \A r \in Register \ {p, q} : t.reg[r] = c.reg[r]
  <2>1. p # q
    BY <1>1
  <2>2. WritesBoth(c, p, v, q, w, t)
    BY <1>5, <2>1, Pairs
  <2> QED
    BY <2>2 DEF WritesBoth
<1> QED
  BY <1>1, <1>3, <1>4, <1>6

LEMMA Starting ==
    /\ started \in Cpu /\ started.stack = CallerStack
    /\ started.reg[rcx] = USABLE /\ started.reg[rbx] = FUNCTION
    /\ started.reg[rbp] = Region(1) /\ started.reg[rax] = Region(1)
    /\ \A r \in Reg : started.reg[R(r)] = 0
<1>1. PICK c : c = Pushed(CallerCpu, Kept)
  OBVIOUS
<1>2. c \in Cpu /\ c.reg = [q \in Register |-> Caller(q)] /\ c.stack = CallerStack
  BY <1>1, Calling
<1> DEFINE regs == [q \in Register |-> CASE q \in 8..15 -> 0
                                         [] q = rbx -> FUNCTION
                                         [] q = rbp -> Region(1)
                                         [] q = rcx -> USABLE
                                         [] q = rsi -> 0
                                         [] OTHER -> c.reg[q]]
<1>3. PICK d : d = [c EXCEPT !.reg = regs]
  OBVIOUS
<1>4. started = looped(d)
  BY <1>1, <1>3 DEF started, CallerCpu
<1>5. FUNCTION \in Nat /\ Region(1) \in Nat /\ USABLE \in Nat
  BY X86JitAssumption, Virt32Assumption DEF Region, CHUNK, USABLE, BOOK_SIZE
<1>6. \A q \in Register : c.reg[q] \in Nat
  BY <1>2 DEF Cpu
<1>7. regs \in [Register -> Nat]
  BY <1>5, <1>6
<1>8. /\ regs[rbx] = FUNCTION /\ regs[rbp] = Region(1) /\ regs[rcx] = USABLE /\ regs[rsi] = 0
      /\ \A q \in 8..15 : regs[q] = 0
  BY DEF Register, rbx, rbp, rcx, rsi
<1> HIDE DEF regs
<1>9. d \in Cpu /\ d.reg = regs /\ d.stack = CallerStack
  BY <1>2, <1>3, <1>7 DEF Cpu
<1>10. PICK s : s = started
  OBVIOUS
<1>11. /\ s \in Cpu /\ s.stack = CallerStack
       /\ s.reg[rax] = Region(1) + CHUNK * Wrap(0)
       /\ \A q \in Register \ {rax, rdi} : s.reg[q] = regs[q]
  BY <1>4, <1>8, <1>9, <1>10, Loops
<1>12. Wrap(0) = 0
  <2>1. 0 \in U32
    BY Virt32Assumption DEF U32, BOOK_SIZE
  <2> QED
    BY <2>1, WordNat
<1>13. {rcx, rbx, rbp} \subseteq Register \ {rax, rdi}
  BY DEF Register, rcx, rbx, rbp, rax, rdi
<1>14. \A r \in Reg : R(r) \in 8..15 /\ R(r) \in Register \ {rax, rdi}
  BY Registers DEF rax, rdi
<1>15. s.reg[rax] = Region(1)
  BY <1>5, <1>11, <1>12 DEF CHUNK
<1> QED
  BY <1>8, <1>10, <1>11, <1>13, <1>14, <1>15

-----------------------------------------------------------------------------
\* Every chunk is CHUNK bytes long.

LEMMA InstructionLengths ==
    /\ \A s, d : /\ mov(s, d).len = 3 /\ add(s, d).len = 3 /\ and(s, d).len = 3
                 /\ cmovne(s, d).len = 4 /\ load(s, d).len = 4 /\ store(s, d).len = 4
                 /\ movimm(s, d).len = 7
    /\ \A d : /\ not(d).len = 3 /\ mul(d).len = 3 /\ zero(d).len = 2 /\ div(d).len = 3
              /\ xchg(d).len = 2 /\ test(d).len = 3 /\ lea(d).len = 4 /\ moval(d).len = 2
    /\ \A n : nop(n).len = n
    /\ call.len = 2 /\ jmp.len = 2
<1>1. \A s : moval(s).len = 2
  <2>1. PICK kind : kind = "mov imm8, al"
    OBVIOUS
  <2>2. \A s : moval(s) = Op(kind, 2, s, rax)
    BY <2>1, Zenon DEF moval
  <2> QED
    BY <2>2, Fielded
<1>2. \A s, d : movimm(s, d).len = 7
  <2>1. PICK kind : kind = "mov imm32"
    OBVIOUS
  <2>2. \A s, d : movimm(s, d) = Op(kind, 7, s, d)
    BY <2>1, Zenon DEF movimm
  <2> QED
    BY <2>2, Fielded
<1>3. \A s, d : /\ mov(s, d).len = 3 /\ add(s, d).len = 3 /\ and(s, d).len = 3
                /\ cmovne(s, d).len = 4 /\ load(s, d).len = 4 /\ store(s, d).len = 4
  BY Fielded DEF mov, add, and, cmovne, load, store
<1>4. \A d : /\ not(d).len = 3 /\ mul(d).len = 3 /\ zero(d).len = 2 /\ div(d).len = 3
             /\ xchg(d).len = 2 /\ test(d).len = 3 /\ lea(d).len = 4
  BY Fielded DEF not, mul, zero, div, xchg, test, lea
<1>5. (\A n : nop(n).len = n) /\ call.len = 2 /\ jmp.len = 2
  BY Fielded DEF nop, call, jmp
<1> QED
  BY <1>1, <1>2, <1>3, <1>4, <1>5

LEMMA ByteCounts ==
    ASSUME NEW ops, NEW i \in Nat, NEW j \in Nat, ops[1].len = i, ops[2].len = j
    PROVE  /\ Len(ops) = 2 => Bytes_of(ops) = i + j
           /\ \A k \in Nat : Len(ops) = 3 /\ ops[3].len = k => Bytes_of(ops) = i + j + k
           /\ \A k, l \in Nat : Len(ops) = 4 /\ ops[3].len = k /\ ops[4].len = l
                                  => Bytes_of(ops) = i + j + k + l
<1>1. CASE Len(ops) = 2
  <2>1. /\ Length(ops, 1) = i /\ Length(ops, 2) = j
        /\ Length(ops, 3) = 0 /\ Length(ops, 4) = 0
    BY <1>1 DEF Length
  <2> QED
    BY <1>1, <2>1 DEF Bytes_of
<1>2. ASSUME NEW k \in Nat, Len(ops) = 3, ops[3].len = k
      PROVE  Bytes_of(ops) = i + j + k
  <2>1. /\ Length(ops, 1) = i /\ Length(ops, 2) = j
        /\ Length(ops, 3) = k /\ Length(ops, 4) = 0
    BY <1>2 DEF Length
  <2> QED
    BY <2>1 DEF Bytes_of
<1>3. ASSUME NEW k \in Nat, NEW l \in Nat, Len(ops) = 4, ops[3].len = k, ops[4].len = l
      PROVE  Bytes_of(ops) = i + j + k + l
  <2>1. /\ Length(ops, 1) = i /\ Length(ops, 2) = j
        /\ Length(ops, 3) = k /\ Length(ops, 4) = l
    BY <1>3 DEF Length
  <2> QED
    BY <2>1 DEF Bytes_of
<1> QED
  BY <1>1, <1>2, <1>3

LEMMA BytesOfOne ==
    ASSUME NEW o, NEW i \in Nat, o.len = i
    PROVE  Bytes_of(<<o>>) = i
<1>1. PICK ops : ops = <<o>>
  OBVIOUS
<1>2. Len(ops) = 1 /\ ops[1] = o
  BY <1>1
<1>3. /\ Length(ops, 1) = i /\ Length(ops, 2) = 0
      /\ Length(ops, 3) = 0 /\ Length(ops, 4) = 0
  BY <1>2 DEF Length
<1> QED
  BY <1>1, <1>3 DEF Bytes_of

LEMMA BytesOfTwo ==
    ASSUME NEW o, NEW p, NEW i \in Nat, NEW j \in Nat, o.len = i, p.len = j
    PROVE  Bytes_of(<<o, p>>) = i + j
<1>1. PICK ops : ops = <<o, p>>
  OBVIOUS
<1>2. Len(ops) = 2 /\ ops[1] = o /\ ops[2] = p
  BY <1>1
<1> QED
  BY <1>1, <1>2, ByteCounts

LEMMA BytesOfThree ==
    ASSUME NEW o, NEW p, NEW q, NEW i \in Nat, NEW j \in Nat, NEW k \in Nat,
           o.len = i, p.len = j, q.len = k
    PROVE  Bytes_of(<<o, p, q>>) = i + j + k
<1>1. PICK ops : ops = <<o, p, q>>
  OBVIOUS
<1>2. Len(ops) = 3 /\ ops[1] = o /\ ops[2] = p /\ ops[3] = q
  BY <1>1
<1> QED
  BY <1>1, <1>2, ByteCounts

LEMMA BytesOfFour ==
    ASSUME NEW o, NEW p, NEW q, NEW s,
           NEW i \in Nat, NEW j \in Nat, NEW k \in Nat, NEW l \in Nat,
           o.len = i, p.len = j, q.len = k, s.len = l
    PROVE  Bytes_of(<<o, p, q, s>>) = i + j + k + l
<1>1. PICK ops : ops = <<o, p, q, s>>
  OBVIOUS
<1>2. Len(ops) = 4 /\ ops[1] = o /\ ops[2] = p /\ ops[3] = q /\ ops[4] = s
  BY <1>1
<1> QED
  BY <1>1, <1>2, ByteCounts

LEMMA ChunkLengths ==
    ASSUME NEW a, NEW b, NEW c
    PROVE  /\ Bytes_of(load_reg(a, b)) = 10 /\ Bytes_of(cond_move(a, b, c)) = 10
           /\ Bytes_of(seg_load(a, b, c)) = 10 /\ Bytes_of(seg_store(a, b, c)) = 10
           /\ Bytes_of(add_regs(a, b, c)) = 10 /\ Bytes_of(mult_regs(a, b, c)) = 10
           /\ Bytes_of(div_regs(a, b, c)) = 10 /\ Bytes_of(nand_regs(a, b, c)) = 10
<1>1. Bytes_of(load_reg(a, b)) = 7 + 3
  BY InstructionLengths, BytesOfTwo DEF load_reg
<1>2. Bytes_of(cond_move(a, b, c)) = 3 + 4 + 3
  BY InstructionLengths, BytesOfThree DEF cond_move
<1>3. Bytes_of(seg_load(a, b, c)) = 4 + 4 + 2 /\ Bytes_of(seg_store(a, b, c)) = 4 + 4 + 2
  BY InstructionLengths, BytesOfThree DEF seg_load, seg_store
<1>4. Bytes_of(add_regs(a, b, c)) = 3 + 3 + 3 + 1 /\ Bytes_of(mult_regs(a, b, c)) = 3 + 3 + 3 + 1
  BY InstructionLengths, BytesOfFour DEF add_regs, mult_regs
<1>5. Bytes_of(div_regs(a, b, c)) = 2 + 3 + 3 + 2
  BY InstructionLengths, BytesOfFour DEF div_regs
<1>6. PICK m, k : /\ m = IF a = c THEN c ELSE b
                  /\ k = IF a = c THEN b ELSE c
  OBVIOUS
<1>7. nand_regs(a, b, c) = << mov(R(m), R(a)), and(R(k), R(a)), not(R(a)), nop(1) >>
  BY <1>6 DEF nand_regs
<1>8. Bytes_of(nand_regs(a, b, c)) = 3 + 3 + 3 + 1
  BY <1>7, InstructionLengths, BytesOfFour
<1> QED
  BY <1>1, <1>2, <1>3, <1>4, <1>5, <1>8

-----------------------------------------------------------------------------
\* Where a chunk leaves for the handler, and what it does before and after.

LEMMA NotLeaving ==
    /\ \A s, d : mov(s, d) \notin {call, jmp}
    /\ \A s : moval(s) \notin {call, jmp}
    /\ \A n : nop(n) \notin {call, jmp}
    /\ call # jmp
<1>1. call.op = "call" /\ jmp.op = "jmp"
  BY Fielded DEF call, jmp
<1>2. \A s, d : mov(s, d).op = "mov"
  BY Fielded DEF mov
<1>3. \A n : nop(n).op = "nop"
  BY Fielded DEF nop
<1>4. PICK kind : kind = "mov imm8, al"
  OBVIOUS
<1>5. kind # "call" /\ kind # "jmp"
  BY <1>4, Zenon
<1>6. \A s : moval(s).op = kind
  <2>1. \A s : moval(s) = Op(kind, 2, s, rax)
    BY <1>4, Zenon DEF moval
  <2> QED
    BY <2>1, Fielded
<1> QED
  BY <1>1, <1>2, <1>3, <1>5, <1>6

LEMMA LeavesAt ==
    ASSUME NEW ops, NEW k \in DOMAIN ops, ops[k] \in {call, jmp},
           \A j \in DOMAIN ops : j # k => ops[j] \notin {call, jmp}
    PROVE  Leaves(ops) = k
BY DEF Leaves

LEMMA Slice ==
    ASSUME NEW S, NEW s \in Seq(S), NEW m \in Nat, NEW n \in Nat,
           1 <= m, m <= n, n <= Len(s),
           NEW t \in Seq(S), Len(t) = n - m + 1,
           \A i \in 1..n - m + 1 : t[i] = s[m + i - 1]
    PROVE  SubSeq(s, m, n) = t
<1>1. Len(s) \in Nat
  BY LenProperties
<1>2. m \in 1..Len(s) + 1 /\ n \in m - 1..Len(s) /\ n - m + 1 \in Nat
  BY <1>1
<1>3. /\ SubSeq(s, m, n) \in Seq(S)
      /\ Len(SubSeq(s, m, n)) = IF m <= n THEN n - m + 1 ELSE 0
      /\ \A i \in 1..n - m + 1 : SubSeq(s, m, n)[i] = s[m + i - 1]
  BY <1>2, SubSeqProperties
<1>4. Len(SubSeq(s, m, n)) = n - m + 1
  BY <1>3
<1> QED
  BY <1>3, <1>4, SeqEqual

LEMMA Slices ==
    ASSUME NEW ops, ops = << ops[1], ops[2], ops[3], ops[4] >>
    PROVE  /\ SubSeq(ops, 1, 4) = ops
           /\ SubSeq(ops, 1, 3) = << ops[1], ops[2], ops[3] >>
           /\ SubSeq(ops, 1, 2) = << ops[1], ops[2] >>
           /\ SubSeq(ops, 4, 4) = << ops[4] >>
           /\ SubSeq(ops, 3, 4) = << ops[3], ops[4] >>
<1>o. PICK o, p, q, s : o = ops[1] /\ p = ops[2] /\ q = ops[3] /\ s = ops[4]
  OBVIOUS
<1>0. ops = <<o, p, q, s>>
  BY <1>o
<1>1. PICK S : S = {o, p, q, s}
  OBVIOUS
<1>2. /\ <<o, p, q, s>> \in Seq(S) /\ <<o, p, q>> \in Seq(S) /\ <<o, p>> \in Seq(S)
      /\ <<s>> \in Seq(S) /\ <<q, s>> \in Seq(S)
  BY <1>1
<1>a. /\ ops \in Seq(S) /\ Len(ops) = 4
      /\ ops[1] = o /\ ops[2] = p /\ ops[3] = q /\ ops[4] = s
  BY <1>0, <1>2
<1>c. ops \in Seq(S)
  BY <1>a
<1>b. 1 \in Nat /\ 2 \in Nat /\ 3 \in Nat /\ 4 \in Nat
  OBVIOUS
<1>4. SubSeq(ops, 1, 4) = <<o, p, q, s>>
  <2>1. PICK t : t = <<o, p, q, s>>
    OBVIOUS
  <2>2. t \in Seq(S)
    BY <1>2, <2>1
  <2>3. 1 <= 4 /\ 1 <= 1 /\ 4 <= Len(ops) /\ Len(t) = 4 - 1 + 1
    BY <1>a, <2>1
  <2>4. \A i \in 1..4 - 1 + 1 : t[i] = ops[1 + i - 1]
    BY <1>a, <2>1
  <2>5. SubSeq(ops, 1, 4) = t
    BY <1>b, <1>c, <2>2, <2>3, <2>4, Slice, Zenon
  <2> QED
    BY <2>1, <2>5
<1>5. SubSeq(ops, 1, 3) = <<o, p, q>>
  <2>1. PICK t : t = <<o, p, q>>
    OBVIOUS
  <2>2. t \in Seq(S)
    BY <1>2, <2>1
  <2>3. 1 <= 3 /\ 1 <= 1 /\ 3 <= Len(ops) /\ Len(t) = 3 - 1 + 1
    BY <1>a, <2>1
  <2>4. \A i \in 1..3 - 1 + 1 : t[i] = ops[1 + i - 1]
    BY <1>a, <2>1
  <2>5. SubSeq(ops, 1, 3) = t
    BY <1>b, <1>c, <2>2, <2>3, <2>4, Slice, Zenon
  <2> QED
    BY <2>1, <2>5
<1>6. SubSeq(ops, 1, 2) = <<o, p>>
  <2>1. PICK t : t = <<o, p>>
    OBVIOUS
  <2>2. t \in Seq(S)
    BY <1>2, <2>1
  <2>3. 1 <= 2 /\ 1 <= 1 /\ 2 <= Len(ops) /\ Len(t) = 2 - 1 + 1
    BY <1>a, <2>1
  <2>4. \A i \in 1..2 - 1 + 1 : t[i] = ops[1 + i - 1]
    BY <1>a, <2>1
  <2>5. SubSeq(ops, 1, 2) = t
    BY <1>b, <1>c, <2>2, <2>3, <2>4, Slice, Zenon
  <2> QED
    BY <2>1, <2>5
<1>7. SubSeq(ops, 4, 4) = <<s>>
  <2>1. PICK t : t = <<s>>
    OBVIOUS
  <2>2. t \in Seq(S)
    BY <1>2, <2>1
  <2>3. 4 <= 4 /\ 1 <= 4 /\ 4 <= Len(ops) /\ Len(t) = 4 - 4 + 1
    BY <1>a, <2>1
  <2>4. \A i \in 1..4 - 4 + 1 : t[i] = ops[4 + i - 1]
    BY <1>a, <2>1
  <2>5. SubSeq(ops, 4, 4) = t
    BY <1>b, <1>c, <2>2, <2>3, <2>4, Slice, Zenon
  <2> QED
    BY <2>1, <2>5
<1>8. SubSeq(ops, 3, 4) = <<q, s>>
  <2>1. PICK t : t = <<q, s>>
    OBVIOUS
  <2>2. t \in Seq(S)
    BY <1>2, <2>1
  <2>3. 3 <= 4 /\ 1 <= 3 /\ 4 <= Len(ops) /\ Len(t) = 4 - 3 + 1
    BY <1>a, <2>1
  <2>4. \A i \in 1..4 - 3 + 1 : t[i] = ops[3 + i - 1]
    BY <1>a, <2>1
  <2>5. SubSeq(ops, 3, 4) = t
    BY <1>b, <1>c, <2>2, <2>3, <2>4, Slice, Zenon
  <2> QED
    BY <2>1, <2>5
<1> QED
  BY <1>0, <1>o, <1>4, <1>5, <1>6, <1>7, <1>8

LEMMA Whole ==
    ASSUME NEW o, NEW p
    PROVE  SubSeq(<<o, p>>, 1, 2) = <<o, p>>
<1>1. PICK S : S = {o, p}
  OBVIOUS
<1>2. <<o, p>> \in Seq(S) /\ 1 \in Nat /\ 2 \in Nat
  BY <1>1
<1>3. PICK t : t = <<o, p>>
  OBVIOUS
<1>4. t \in Seq(S)
  BY <1>2, <1>3
<1>5. 1 <= 2 /\ 1 <= 1 /\ 2 <= Len(t) /\ Len(t) = 2 - 1 + 1
  BY <1>3
<1>6. \A i \in 1..2 - 1 + 1 : t[i] = t[1 + i - 1]
  OBVIOUS
<1>7. SubSeq(t, 1, 2) = t
  BY <1>2, <1>4, <1>5, <1>6, Slice, Zenon
<1> QED
  BY <1>3, <1>7

SplitsAt(ops, k, upto, rest) ==
    /\ Leaves(ops) = k
    /\ SubSeq(ops, 1, Leaves(ops)) = upto
    /\ SubSeq(ops, Leaves(ops) + 1, Len(ops)) = rest

LEMMA SplitThird ==
    ASSUME NEW o, NEW p, NEW q, NEW ops, ops = <<o, p, call, q>>,
           o \notin {call, jmp}, p \notin {call, jmp}, q \notin {call, jmp}
    PROVE  SplitsAt(ops, 3, <<o, p, call>>, <<q>>)
<1>1. /\ DOMAIN ops = 1..4 /\ Len(ops) = 4
      /\ ops[1] = o /\ ops[2] = p /\ ops[3] = call /\ ops[4] = q
  OBVIOUS
<1>2. \A j \in 1..4 : j # 3 => ops[j] \notin {call, jmp}
  BY <1>1
<1>3. Leaves(ops) = 3
  BY <1>1, <1>2, LeavesAt
<1>4. Leaves(ops) + 1 = 4
  BY <1>3
<1>5. /\ SubSeq(ops, 1, 3) = <<o, p, call>>
      /\ SubSeq(ops, 4, 4) = <<q>>
  BY <1>1, Slices
<1> QED
  BY <1>1, <1>3, <1>4, <1>5 DEF SplitsAt

LEMMA SplitSecond ==
    ASSUME NEW o, NEW p, NEW q, NEW ops, ops = <<o, call, p, q>>,
           o \notin {call, jmp}, p \notin {call, jmp}, q \notin {call, jmp}
    PROVE  SplitsAt(ops, 2, <<o, call>>, <<p, q>>)
<1>1. /\ DOMAIN ops = 1..4 /\ Len(ops) = 4
      /\ ops[1] = o /\ ops[2] = call /\ ops[3] = p /\ ops[4] = q
  OBVIOUS
<1>2. \A j \in 1..4 : j # 2 => ops[j] \notin {call, jmp}
  BY <1>1
<1>3. Leaves(ops) = 2
  BY <1>1, <1>2, LeavesAt
<1>4. Leaves(ops) + 1 = 3
  BY <1>3
<1>5. /\ SubSeq(ops, 1, 2) = <<o, call>>
      /\ SubSeq(ops, 3, 4) = <<p, q>>
  BY <1>1, Slices
<1> QED
  BY <1>1, <1>3, <1>4, <1>5 DEF SplitsAt

LEMMA SplitLast ==
    ASSUME NEW o, NEW p, NEW q,
           o \notin {call, jmp}, p \notin {call, jmp}, q \notin {call, jmp}
    PROVE  /\ Leaves(<<o, p, q, jmp>>) = 4
           /\ SubSeq(<<o, p, q, jmp>>, 1, 4) = <<o, p, q, jmp>>
           /\ Leaves(<<o, jmp>>) = 2
           /\ SubSeq(<<o, jmp>>, 1, 2) = <<o, jmp>>
<1>1. PICK ops : ops = <<o, p, q, jmp>>
  OBVIOUS
<1>2. /\ DOMAIN ops = 1..4
      /\ ops[1] = o /\ ops[2] = p /\ ops[3] = q /\ ops[4] = jmp
  BY <1>1
<1>3. \A j \in 1..4 : j # 4 => ops[j] \notin {call, jmp}
  BY <1>2
<1>4. Leaves(ops) = 4
  BY <1>2, <1>3, LeavesAt
<1>5. PICK two : two = <<o, jmp>>
  OBVIOUS
<1>6. DOMAIN two = 1..2 /\ two[1] = o /\ two[2] = jmp
  BY <1>5
<1>7. \A j \in 1..2 : j # 2 => two[j] \notin {call, jmp}
  BY <1>6
<1>8. Leaves(two) = 2
  BY <1>6, <1>7, LeavesAt
<1>9. SubSeq(ops, 1, 4) = ops
  BY <1>1, <1>2, Slices
<1> QED
  BY <1>1, <1>4, <1>5, <1>8, <1>9, Whole

\* Loading a function's number and argument, and the call or the jump.
Writes(s, d, v, t) ==
    /\ t \in Cpu /\ t.stack = s.stack
    /\ \A q \in Register : t.reg[q] = IF q = d THEN v ELSE s.reg[q]

Keeping(c, t, written) ==
    /\ t \in Cpu /\ t.stack = c.stack
    /\ \A q \in Register \ written : t.reg[q] = c.reg[q]

LEMMA Writing ==
    ASSUME NEW s \in Cpu, NEW d \in Register, NEW v \in Nat, NEW t, t = Set(s, d, v)
    PROVE  Writes(s, d, v, t)
<1>1. /\ t \in Cpu /\ t.stack = s.stack
      /\ s.reg \in [Register -> Nat] /\ t.reg = [s.reg EXCEPT ![d] = v]
  BY Setting
<1> QED
  BY <1>1 DEF Writes

LEMMA MovalDoes ==
    ASSUME NEW s \in Cpu, NEW v \in 0..BYTE - 1, NEW t, t = Exec(s, moval(v))
    PROVE  \E w \in Nat : w % BYTE = v /\ Writes(s, rax, w, t)
<1>1. rax \in Register /\ s.reg[rax] \in Nat
  BY Registers DEF Cpu
<1>2. PICK w \in Nat : w = s.reg[rax] - (s.reg[rax] % BYTE) + v /\ w % BYTE = v
  BY <1>1, LowByte
<1>3. t = Set(s, rax, w)
  BY <1>2, Instructions
<1>4. Writes(s, rax, w, t)
  BY <1>1, <1>3, Writing
<1> QED
  BY <1>2, <1>4

LEMMA MovDoes ==
    ASSUME NEW s \in Cpu, NEW p \in Register, NEW d \in Register,
           NEW t, t = Exec(s, mov(p, d))
    PROVE  Writes(s, d, Wrap(s.reg[p]), t)
<1>1. s.reg[p] \in Nat
  BY DEF Cpu
<1>2. PICK w \in Nat : w = Wrap(s.reg[p])
  BY <1>1, WrapNat
<1>3. t = Set(s, d, w)
  BY <1>2, Instructions
<1>4. Writes(s, d, w, t)
  BY <1>3, Writing
<1> QED
  BY <1>2, <1>4

LEMMA CallsWithArgument ==
    ASSUME NEW c \in Cpu, NEW p \in Register, NEW v \in 0..BYTE - 1,
           NEW t, t = Run(c, << mov(p, rdi), moval(v), call >>)
    PROVE  /\ Keeping(c, t, {rdi, rax}) /\ t.reg[rax] % BYTE = v
           /\ t.reg[rdi] = Wrap(c.reg[p])
<1>1. PICK s : s = Exec(c, mov(p, rdi))
  OBVIOUS
<1>2. t = Exec(s, moval(v))
  BY <1>1, RunThree, Instructions
<1>3. rdi \in Register /\ rax \in Register /\ rdi # rax
  BY Registers DEF rdi, rax
<1>4. Writes(c, rdi, Wrap(c.reg[p]), s)
  BY <1>1, <1>3, MovDoes
<1>5. s \in Cpu
  BY <1>4 DEF Writes
<1>6. PICK w \in Nat : w % BYTE = v /\ Writes(s, rax, w, t)
  BY <1>2, <1>5, MovalDoes
<1> QED
  BY <1>3, <1>4, <1>6 DEF Writes, Keeping

LEMMA LeavesWithNumber ==
    ASSUME NEW c \in Cpu, NEW v \in 0..BYTE - 1,
           NEW t, t = Run(c, << moval(v), call >>) \/ t = Run(c, << moval(v), jmp >>)
    PROVE  Keeping(c, t, {rax}) /\ t.reg[rax] % BYTE = v
<1>1. t = Exec(c, moval(v))
  BY RunTwo, Instructions
<1>2. PICK w \in Nat : w % BYTE = v /\ Writes(c, rax, w, t)
  BY <1>1, MovalDoes
<1>3. rax \in Register
  BY Registers
<1> QED
  BY <1>2, <1>3 DEF Writes, Keeping

Passing(c, p, r, v, t) ==
    /\ Keeping(c, t, {rsi, rdi, rax}) /\ t.reg[rax] % BYTE = v
    /\ t.reg[rsi] = Wrap(c.reg[p]) /\ t.reg[rdi] = Wrap(c.reg[r])

LEMMA JumpsWithArguments ==
    ASSUME NEW c \in Cpu, NEW p \in 8..15, NEW r \in 8..15, NEW v \in 0..BYTE - 1,
           NEW t, t = Run(c, << mov(p, rsi), mov(r, rdi), moval(v), jmp >>)
    PROVE  Passing(c, p, r, v, t)
<1>1. PICK s : s = Exec(c, mov(p, rsi))
  OBVIOUS
<1>2. PICK u : u = Exec(s, mov(r, rdi))
  OBVIOUS
<1>3. t = Exec(u, moval(v))
  BY <1>1, <1>2, RunFour, Instructions
<1>4. /\ {rdi, rsi, rax, p, r} \subseteq Register
      /\ rdi # rax /\ rsi # rax /\ rsi # rdi /\ r # rsi
  BY Registers DEF rdi, rsi, rax, Register
<1>5. Writes(c, rsi, Wrap(c.reg[p]), s)
  BY <1>1, <1>4, MovDoes
<1>6. s \in Cpu
  BY <1>5 DEF Writes
<1>7. Writes(s, rdi, Wrap(s.reg[r]), u)
  BY <1>2, <1>4, <1>6, MovDoes
<1>8. u \in Cpu
  BY <1>7 DEF Writes
<1>9. PICK w \in Nat : w % BYTE = v /\ Writes(u, rax, w, t)
  BY <1>3, <1>8, MovalDoes
<1>10. Keeping(c, t, {rsi, rdi, rax})
  BY <1>4, <1>5, <1>7, <1>9 DEF Writes, Keeping
<1>11. t.reg[rsi] = Wrap(c.reg[p]) /\ t.reg[rdi] = Wrap(c.reg[r])
  BY <1>4, <1>5, <1>7, <1>9 DEF Writes
<1> QED
  BY <1>4, <1>9, <1>10, <1>11 DEF Writes, Passing

\* The CPU as the handler finds it.
Ready == cpu \in Cpu /\ Words(cpu) /\ rip \in Nat /\ word \in U32

Handed(stack, op) ==
    /\ handler \in Cpu /\ handler.stack = stack /\ handler.reg[rax] % BYTE = op
    /\ \A q \in Register \ {rax, rdi, rsi} : handler.reg[q] = cpu.reg[q]

LEMMA Decoded ==
    ASSUME NEW w \in U32
    PROVE  /\ reg_a(w) \in Reg /\ reg_b(w) \in Reg /\ reg_c(w) \in Reg
           /\ lv_reg(w) \in Reg /\ lv_val(w) \in U32
<1>1. w \in Nat /\ GB4 \in Nat /\ GB4 = 16 * OP_UNIT
  BY Virt32Assumption, X86JitAssumption DEF U32
<1> QED
  BY <1>1, FieldsInRange DEF U32

LEMMA Numbers == {OP_MAP, OP_UNMAP, OP_OUT, OP_IN, OP_DUPLICATE, OP_HALT} \subseteq 0..BYTE - 1
BY X86JitAssumption, IsaAssumption DEF OP_MAP, OP_UNMAP, OP_OUT, OP_IN, OP_DUPLICATE, OP_HALT

LEMMA Argument ==
    ASSUME Ready, NEW r \in Reg
    PROVE  /\ R(r) \in Register /\ R(r) \in 8..15
           /\ cpu.reg[R(r)] \in U32 /\ Wrap(cpu.reg[R(r)]) = cpu.reg[R(r)]
BY Registers, WordNat DEF Ready, Words

LEMMA CalledChunks ==
    /\ opcode(word) = 8 => Chunk = inject_map_segment(reg_b(word), reg_c(word))
    /\ opcode(word) = 9 => Chunk = inject_unmap_segment(reg_c(word))
    /\ opcode(word) = 10 => Chunk = print_reg(reg_c(word))
    /\ opcode(word) = 11 => Chunk = read_into_reg(reg_c(word))
    /\ opcode(word) = 7 => Chunk = handle_halt
    /\ opcode(word) = 12 => Chunk = inject_load_program(reg_b(word), reg_c(word))
BY DEF Chunk, compile_instruction

\* Map, unmap and output pass register C in rdi.
LEMMA ArgumentCall ==
    ASSUME Ready, NEW v \in 0..BYTE - 1, NEW last, last \notin {call, jmp},
           Chunk = << mov(R(reg_c(word)), rdi), moval(v), call, last >>
    PROVE  Handed(Append(cpu.stack, rip + 7), v) /\ handler.reg[rdi] = C /\ Rest = <<last>>
<1>1. PICK c, ops, p : c = cpu /\ ops = Chunk /\ p = R(reg_c(word))
  OBVIOUS
<1>a. PICK x, y : x = mov(p, rdi) /\ y = moval(v)
  OBVIOUS
<1>b. /\ ops = <<x, y, call, last>> /\ ops[3] = call
      /\ x \notin {call, jmp} /\ y \notin {call, jmp}
  BY <1>1, <1>a, NotLeaving
<1>c. SplitsAt(ops, 3, <<x, y, call>>, <<last>>)
  BY <1>b, SplitThird
<1>2. /\ Leaves(ops) = 3 /\ ops[3] = call
      /\ SubSeq(ops, 1, Leaves(ops)) = << mov(p, rdi), moval(v), call >>
      /\ SubSeq(ops, Leaves(ops) + 1, Len(ops)) = <<last>>
  BY <1>a, <1>b, <1>c DEF SplitsAt
<1>3. PICK upto : upto = << mov(p, rdi), moval(v), call >>
  OBVIOUS
<1>4. Upto = upto /\ Rest = <<last>>
  BY <1>1, <1>2, <1>3 DEF Upto, Rest
<1>5. Bytes_of(upto) = 3 + 2 + 2
  BY <1>3, InstructionLengths, BytesOfThree
<1>6. PICK t : t = Run(c, upto)
  OBVIOUS
<1>7. p \in Register /\ Wrap(c.reg[p]) = C /\ c \in Cpu /\ rip \in Nat
  <2>1. reg_c(word) \in Reg
    BY Decoded DEF Ready
  <2> QED
    BY <1>1, <2>1, Argument DEF C, Ready
<1>8. Keeping(c, t, {rdi, rax}) /\ t.reg[rax] % BYTE = v /\ t.reg[rdi] = C
  BY <1>3, <1>6, <1>7, CallsWithArgument
<1>9. rip + Bytes_of(upto) = rip + 7
  BY <1>5, <1>7
<1>10. handler = [t EXCEPT !.stack = Append(t.stack, rip + 7)]
  BY <1>1, <1>2, <1>4, <1>6, <1>9 DEF handler
<1>11. t \in Cpu /\ t.stack = c.stack /\ \A q \in Register \ {rdi, rax} : t.reg[q] = c.reg[q]
  BY <1>8 DEF Keeping
<1>12. Append(t.stack, rip + 7) \in Seq(Nat)
  BY <1>7, <1>11 DEF Cpu
<1>13. handler \in Cpu /\ handler.reg = t.reg /\ handler.stack = Append(c.stack, rip + 7)
  BY <1>10, <1>11, <1>12 DEF Cpu
<1> QED
  BY <1>1, <1>4, <1>8, <1>11, <1>13 DEF Handed

LEMMA InputCall ==
    ASSUME Ready, opcode(word) = 11
    PROVE  /\ Handed(Append(cpu.stack, rip + 4), OP_IN)
           /\ Rest = << mov(rax, R(reg_c(word))), nop(3) >>
<1>1. PICK c, ops, p : c = cpu /\ ops = Chunk /\ p = R(reg_c(word))
  OBVIOUS
<1>2. ops = << moval(OP_IN), call, mov(rax, p), nop(3) >>
  BY <1>1, CalledChunks DEF read_into_reg
<1>3. /\ Leaves(ops) = 2 /\ ops[2] = call
      /\ SubSeq(ops, 1, Leaves(ops)) = << moval(OP_IN), call >>
      /\ SubSeq(ops, Leaves(ops) + 1, Len(ops)) = << mov(rax, p), nop(3) >>
  <2>a. PICK x, y, z : x = mov(rax, p) /\ y = moval(OP_IN) /\ z = nop(3)
    OBVIOUS
  <2>b. /\ ops = <<y, call, x, z>> /\ ops[2] = call
        /\ x \notin {call, jmp} /\ y \notin {call, jmp} /\ z \notin {call, jmp}
    BY <1>2, <2>a, NotLeaving
  <2>c. SplitsAt(ops, 2, <<y, call>>, <<x, z>>)
    BY <2>b, SplitSecond
  <2> QED
    BY <2>a, <2>b, <2>c DEF SplitsAt
<1>4. PICK upto : upto = << moval(OP_IN), call >>
  OBVIOUS
<1>5. Upto = upto /\ Rest = << mov(rax, p), nop(3) >>
  BY <1>1, <1>3, <1>4 DEF Upto, Rest
<1>6. Bytes_of(upto) = 2 + 2
  BY <1>4, InstructionLengths, BytesOfTwo
<1>7. PICK t : t = Run(c, upto)
  OBVIOUS
<1>8. OP_IN \in 0..BYTE - 1 /\ c \in Cpu /\ rip \in Nat
  BY <1>1, Numbers DEF Ready
<1>9. Keeping(c, t, {rax}) /\ t.reg[rax] % BYTE = OP_IN
  BY <1>4, <1>7, <1>8, LeavesWithNumber
<1>10. rip + Bytes_of(upto) = rip + 4
  BY <1>6, <1>8
<1>11. handler = [t EXCEPT !.stack = Append(t.stack, rip + 4)]
  BY <1>1, <1>3, <1>5, <1>7, <1>10 DEF handler
<1>12. t \in Cpu /\ t.stack = c.stack /\ \A q \in Register \ {rax} : t.reg[q] = c.reg[q]
  BY <1>9 DEF Keeping
<1>13. Append(t.stack, rip + 4) \in Seq(Nat)
  BY <1>8, <1>12 DEF Cpu
<1>14. handler \in Cpu /\ handler.reg = t.reg /\ handler.stack = Append(c.stack, rip + 4)
  BY <1>11, <1>12, <1>13 DEF Cpu
<1> QED
  BY <1>1, <1>5, <1>9, <1>12, <1>14 DEF Handed

\* Halt and load program leave for good.
LEMMA HaltJump ==
    ASSUME Ready, opcode(word) = 7
    PROVE  Handed(cpu.stack, OP_HALT)
<1>1. PICK c, ops : c = cpu /\ ops = Chunk
  OBVIOUS
<1>2. ops = << moval(OP_HALT), jmp >>
  BY <1>1, CalledChunks DEF handle_halt
<1>3. Leaves(ops) = 2 /\ SubSeq(ops, 1, 2) = ops
  BY <1>2, NotLeaving, SplitLast
<1>4. ops[2] = jmp
  BY <1>2
<1>5. PICK t : t = Run(c, ops)
  OBVIOUS
<1>6. OP_HALT \in 0..BYTE - 1 /\ c \in Cpu
  BY <1>1, Numbers DEF Ready
<1>7. Keeping(c, t, {rax}) /\ t.reg[rax] % BYTE = OP_HALT
  BY <1>2, <1>5, <1>6, LeavesWithNumber
<1>8. handler = t
  BY <1>1, <1>3, <1>4, <1>5, NotLeaving DEF handler, Upto
<1> QED
  BY <1>1, <1>7, <1>8 DEF Handed, Keeping

LEMMA LoadJump ==
    ASSUME Ready, opcode(word) = 12
    PROVE  /\ Handed(cpu.stack, OP_DUPLICATE)
           /\ handler.reg[rsi] = C /\ handler.reg[rdi] = B
<1>1. PICK c, ops, p, r : c = cpu /\ ops = Chunk /\ p = R(reg_c(word)) /\ r = R(reg_b(word))
  OBVIOUS
<1>2. ops = << mov(p, rsi), mov(r, rdi), moval(OP_DUPLICATE), jmp >>
  BY <1>1, CalledChunks DEF inject_load_program
<1>3. Leaves(ops) = 4 /\ SubSeq(ops, 1, 4) = ops
  BY <1>2, NotLeaving, SplitLast
<1>4. ops[4] = jmp
  BY <1>2
<1>5. PICK t : t = Run(c, ops)
  OBVIOUS
<1>6. /\ OP_DUPLICATE \in 0..BYTE - 1 /\ c \in Cpu /\ p \in 8..15 /\ r \in 8..15
      /\ Wrap(c.reg[p]) = C /\ Wrap(c.reg[r]) = B
  <2>1. reg_c(word) \in Reg /\ reg_b(word) \in Reg
    BY Decoded DEF Ready
  <2> QED
    BY <1>1, <2>1, Argument, Numbers DEF C, B, Ready
<1>a. PICK v \in 0..BYTE - 1 : v = OP_DUPLICATE
  BY <1>6
<1>b. t = Run(c, << mov(p, rsi), mov(r, rdi), moval(v), jmp >>)
  BY <1>2, <1>5, <1>a
<1>c. c \in Cpu /\ p \in 8..15 /\ r \in 8..15
  BY <1>6
<1>d. Passing(c, p, r, v, t)
  BY <1>b, <1>c, JumpsWithArguments
<1>7. /\ Keeping(c, t, {rsi, rdi, rax}) /\ t.reg[rax] % BYTE = OP_DUPLICATE
      /\ t.reg[rsi] = C /\ t.reg[rdi] = B
  BY <1>6, <1>a, <1>d DEF Passing
<1>8. handler = t
  BY <1>1, <1>3, <1>4, <1>5, NotLeaving DEF handler, Upto
<1> QED
  BY <1>1, <1>7, <1>8 DEF Handed, Keeping

-----------------------------------------------------------------------------
\* What a chunk and what a call leave the UM with.

\* d is a CPU that may run the next chunk, with UM registers f.
Carries(c, d, f) ==
    /\ d \in Cpu /\ d.stack = c.stack
    /\ d.reg[rcx] = c.reg[rcx] /\ d.reg[rbx] = c.reg[rbx] /\ d.reg[rbp] = c.reg[rbp]
    /\ UMRegisters(d) = f

LEMMA YieldsCarries ==
    ASSUME NEW c \in Cpu, NEW d, NEW r \in Reg, NEW v, Yields(c, d, R(r), v)
    PROVE  Carries(c, d, [UMRegisters(c) EXCEPT ![r] = v])
<1>1. /\ R(r) \in 8..15 /\ \A s \in Reg : R(s) \in Register /\ R(s) \in 8..15
      /\ \A s \in Reg : R(s) = R(r) => s = r
  BY Registers
<1>2. /\ d \in Cpu /\ d.stack = c.stack /\ d.reg[R(r)] = v
      /\ \A p \in Register \ {rax, rdx, R(r)} : d.reg[p] = c.reg[p]
  BY DEF Yields
<1>3. \A s \in Reg : d.reg[R(s)] = IF s = r THEN v ELSE c.reg[R(s)]
  BY <1>1, <1>2 DEF rax, rdx
<1>4. UMRegisters(d) = [UMRegisters(c) EXCEPT ![r] = v]
  BY <1>3 DEF UMRegisters
<1>5. {rcx, rbx, rbp} \subseteq Register \ {rax, rdx, R(r)}
  BY <1>1 DEF Register, rax, rcx, rdx, rbx, rbp
<1> QED
  BY <1>2, <1>4, <1>5 DEF Carries

LEMMA NearCarries ==
    ASSUME NEW c \in Cpu, NEW d, Near(c, d)
    PROVE  Carries(c, d, UMRegisters(c))
<1>1. \A s \in Reg : R(s) \in Register \ {rax, rdx}
  BY Registers DEF rax, rdx
<1>2. {rcx, rbx, rbp} \subseteq Register \ {rax, rdx}
  BY DEF Register, rax, rcx, rdx, rbx, rbp
<1> QED
  BY <1>1, <1>2 DEF Near, Carries, UMRegisters

LEMMA Sparing ==
    /\ \A s \in Reg : R(s) \in Spared
    /\ {rcx, rbx, rbp} \subseteq Spared /\ Spared \subseteq Register
<1>1. \A s \in Reg : R(s) \in Register /\ R(s) \in 8..15
  BY Registers
<1> QED
  BY <1>1 DEF Spared, Register, rax, rcx, rdx, rbx, rbp, rsi, rdi

LEMMA BackCarries ==
    ASSUME NEW c \in Cpu, NEW result \in Nat, NEW d, Back(c, d, result)
    PROVE  /\ Carries(c, d, UMRegisters(c))
           /\ \A r \in Reg :
                 Carries(c, Set(d, R(r), Wrap(result)),
                         [UMRegisters(c) EXCEPT ![r] = Wrap(result)])
<1>1. Carries(c, d, UMRegisters(c))
  BY Sparing DEF Back, Carries, UMRegisters
<1>2. ASSUME NEW r \in Reg
      PROVE  Carries(c, Set(d, R(r), Wrap(result)),
                     [UMRegisters(c) EXCEPT ![r] = Wrap(result)])
  <2>1. PICK w, e : w \in Nat /\ w = Wrap(result) /\ e = Set(d, R(r), w)
    BY WrapNat
  <2>2. d \in Cpu /\ R(r) \in Register
    BY Registers DEF Back
  <2>3. Writes(d, R(r), w, e)
    BY <2>1, <2>2, Writing
  <2>4. R(r) \in 8..15 /\ \A s \in Reg : R(s) = R(r) => s = r
    BY Registers
  <2>5. \A s \in Reg : e.reg[R(s)] = IF s = r THEN w ELSE c.reg[R(s)]
    BY <2>3, <2>4, Sparing DEF Writes, Back
  <2>6. UMRegisters(e) = [UMRegisters(c) EXCEPT ![r] = w]
    BY <2>5 DEF UMRegisters
  <2>7. \A q \in {rcx, rbx, rbp} : e.reg[q] = c.reg[q]
    <3>1. {rcx, rbx, rbp} \cap {R(r)} = {}
      BY <2>4 DEF rcx, rbx, rbp
    <3> QED
      BY <2>3, <3>1, Sparing DEF Writes, Back
  <2> QED
    BY <2>1, <2>3, <2>6, <2>7 DEF Writes, Carries, Back
<1> QED
  BY <1>1, <1>2

LEMMA PushesVolatile ==
    ASSUME NEW h \in Cpu
    PROVE  /\ Entering(h, push_regs(h)) /\ push_regs(h).reg = h.reg
           /\ Entering(h, entered(h)) /\ entered(h).reg[rdi] = h.reg[rdi]
<1>1. PICK names : names = << R(0), R(1), R(2), R(3), rcx >>
  OBVIOUS
<1>2. names \in Seq(Register)
  BY <1>1, SavedRegisters
<1>3. PICK p : p = push_regs(h)
  OBVIOUS
<1>4. Pushing(h, names, p)
  BY <1>1, <1>2, <1>3, Pushes DEF push_regs
<1>5. p \in Cpu /\ p.reg = h.reg
  BY <1>4 DEF Pushing
<1>6. Entering(h, p)
  BY <1>3, <1>5 DEF Entering
<1>7. /\ rcx \in Register /\ rsi \in Register /\ rdi \in Register
      /\ rsi \in Volatile /\ rdi # rsi
  BY Registers DEF Volatile, rdi, rsi
<1>8. PICK v, e : v \in Nat /\ v = h.reg[rcx] /\ e = Set(p, rsi, v)
  BY <1>7 DEF Cpu
<1>9. Writes(p, rsi, v, e)
  BY <1>5, <1>7, <1>8, Writing
<1>10. e = entered(h)
  BY <1>3, <1>8 DEF entered
<1>11. Entering(h, e) /\ e.reg[rdi] = h.reg[rdi]
  BY <1>3, <1>5, <1>7, <1>9 DEF Entering, Writes
<1> QED
  BY <1>3, <1>5, <1>6, <1>10, <1>11

\* A call leaves a return address above the stack and passes arguments; the
\* CPU t, at the return, has that address on top and is back otherwise.
Called(c, h, ret) ==
    /\ h \in Cpu /\ h.stack = Append(c.stack, ret)
    /\ \A q \in Register \ {rax, rdi, rsi} : h.reg[q] = c.reg[q]
ReturnsTo(c, t, ret, result) ==
    /\ t.stack[Len(t.stack)] = ret
    /\ Back(c, [t EXCEPT !.stack = SubSeq(t.stack, 1, Len(t.stack) - 1)], result)

LEMMA CallReturns ==
    ASSUME NEW c \in Cpu, NEW h, NEW ret \in Nat, Called(c, h, ret),
           NEW s, Entering(h, s), NEW result \in Nat, NEW junk \in Nat
    PROVE  ReturnsTo(c, pop_regs(returned(s, result, junk)), ret, result)
<1>0. PICK t : t = pop_regs(returned(s, result, junk))
  OBVIOUS
<1>h. /\ h \in Cpu /\ h.stack = Append(c.stack, ret)
      /\ \A q \in Register \ {rax, rdi, rsi} : h.reg[q] = c.reg[q]
  BY DEF Called
<1>1. /\ t \in Cpu /\ t.stack = h.stack /\ t.reg[rax] = result
      /\ \A q \in Spared : t.reg[q] = h.reg[q]
  <2>1. Back(h, t, result)
    BY <1>0, <1>h, RoundTrip
  <2> QED
    BY <2>1 DEF Back
<1>2. PICK st \in Seq(Nat), n \in Nat : st = c.stack /\ n = Len(st)
  BY LenProperties DEF Cpu
<1>3. t.stack = Append(st, ret)
  BY <1>1, <1>2, <1>h
<1>a. Append(st, ret) \in Seq(Nat)
  OBVIOUS
<1>4. PICK u \in Seq(Nat) : u = Append(st, ret)
  BY <1>a
<1>5. /\ Len(u) = n + 1 /\ u[n + 1] = ret
      /\ \A i \in 1..n : u[i] = st[i] /\ u[i] \in Nat
  BY <1>2, <1>4
<1>6. SubSeq(u, 1, n) = st
  <2>1. /\ SubSeq(u, 1, n) \in Seq(Nat)
        /\ Len(SubSeq(u, 1, n)) = IF 1 <= n THEN n - 1 + 1 ELSE 0
        /\ \A i \in 1..n - 1 + 1 : SubSeq(u, 1, n)[i] = u[1 + i - 1]
    BY <1>5, SubSeqProperties
  <2>2. n - 1 + 1 = n /\ (~(1 <= n) => n = 0)
    OBVIOUS
  <2>3. Len(SubSeq(u, 1, n)) = Len(st)
    BY <1>2, <2>1, <2>2
  <2>4. \A i \in 1..Len(SubSeq(u, 1, n)) : SubSeq(u, 1, n)[i] = st[i]
    BY <1>2, <1>5, <2>1, <2>2, <2>3
  <2> QED
    BY <2>1, <2>3, <2>4, SeqEqual
<1>7. /\ t.stack[Len(t.stack)] = ret
      /\ SubSeq(t.stack, 1, Len(t.stack) - 1) = st
  BY <1>3, <1>4, <1>5, <1>6
<1>8. PICK d : d = [t EXCEPT !.stack = st]
  OBVIOUS
<1>9. d \in Cpu /\ d.stack = st /\ d.reg = t.reg
  BY <1>1, <1>8 DEF Cpu
<1>10. \A q \in Spared : d.reg[q] = c.reg[q]
  <2>1. Spared \subseteq Register \ {rax, rdi, rsi}
    BY DEF Spared
  <2> QED
    BY <1>1, <1>9, <1>h, <2>1
<1>11. Back(c, d, result)
  BY <1>1, <1>2, <1>9, <1>10 DEF Back
<1> QED
  BY <1>0, <1>7, <1>8, <1>11 DEF ReturnsTo

-----------------------------------------------------------------------------
\* What every chunk and every call keeps: the heap of Virt32; words in the UM
\* registers; the reserved registers and the caller's ones on the stack, by
\* which the next chunk and the return from run go right; a place to go to that
\* is the first byte of a chunk.
JitInv ==
    /\ HeapInv /\ JitTypeOK /\ Reserved /\ Lands /\ CalleeSaved
    /\ cpu \in Cpu
    /\ halted => left \in [Reg -> U32]

Continues(f) ==
    /\ Carries(cpu, cpu', f) /\ rip' = rip + CHUNK
    /\ UNCHANGED <<code, regions, halted, left>>

LEMMA FetchedChunk ==
    ASSUME JitInv, NEW ops, Runs(ops)
    PROVE  /\ Ready /\ ~halted /\ ~aborted /\ opcode(word) \in ops
           /\ pc \in Nat /\ pc < Len(code)
           /\ cpu.reg[rcx] = USABLE /\ cpu.stack = CallerStack
           /\ A \in U32 /\ B \in U32 /\ C \in U32 /\ lv_val(word) \in U32
           /\ {reg_a(word), reg_b(word), reg_c(word), lv_reg(word)} \subseteq Reg
<1>1. /\ ~halted /\ ~aborted /\ pc < Len(code) /\ opcode(word) \in ops
      /\ code \in Seq(U32) /\ rip \in Nat /\ regions \in Nat /\ Region(regions) <= rip
  BY X86JitAssumption DEF JitInv, JitTypeOK, Lands, Runs
<1>2. Region(regions) \in Nat
  <2>1. GB4 \in Nat
    BY Virt32Assumption
  <2> QED
    BY <1>1, <2>1 DEF Region, CHUNK
<1>3. pc \in Nat
  <2>1. rip - Region(regions) \in Nat /\ CHUNK \in Nat \ {0}
    BY <1>1, <1>2 DEF CHUNK
  <2> QED
    BY <2>1, DivMod DEF pc
<1>4. word \in U32
  <2>1. pc + 1 \in 1..Len(code)
    BY <1>1, <1>3, LenProperties
  <2> QED
    BY <1>1, <2>1, ElementOfSeq DEF word
<1>5. Ready
  BY <1>1, <1>4 DEF Ready, JitInv, JitTypeOK, Words
<1>6. cpu.reg[rcx] = USABLE /\ cpu.stack = CallerStack
  BY <1>1 DEF JitInv, Reserved, CallerStack
<1>7. /\ {reg_a(word), reg_b(word), reg_c(word), lv_reg(word)} \subseteq Reg
      /\ lv_val(word) \in U32
  BY <1>4, Decoded
<1>8. A \in U32 /\ B \in U32 /\ C \in U32
  BY <1>5, <1>7, Argument DEF A, B, C
<1> QED
  BY <1>1, <1>3, <1>5, <1>6, <1>7, <1>8

\* The register that a chunk without a call writes, and the value.
Result(r, v) ==
    \/ opcode(word) = 0 /\ r = reg_a(word) /\ v = IF C # 0 THEN B ELSE A
    \/ opcode(word) = 1 /\ r = reg_a(word) /\ v = get_at(mem, B + 4 * C)
    \/ opcode(word) = 3 /\ r = reg_a(word) /\ v = Wrap(B + C)
    \/ opcode(word) = 4 /\ r = reg_a(word) /\ v = Wrap(B * C)
    \/ opcode(word) = 5 /\ r = reg_a(word) /\ v = B \div C
    \/ opcode(word) = 6 /\ r = reg_a(word) /\ v = GB4 - 1 - And(B, C)
    \/ opcode(word) = 13 /\ r = lv_reg(word) /\ v = lv_val(word)

LEMMA ResultIsWord ==
    ASSUME JitInv, Straight, NEW r, NEW v, Result(r, v)
    PROVE  r \in Reg /\ v \in U32
<1>1. /\ opcode(word) \in {0, 1, 3, 4, 5, 6, 13}
      /\ opcode(word) = 1 => InSegment(B, C)
      /\ opcode(word) = 5 => C # 0
      /\ A \in U32 /\ B \in U32 /\ C \in U32 /\ lv_val(word) \in U32
      /\ {reg_a(word), reg_b(word), reg_c(word), lv_reg(word)} \subseteq Reg
  BY FetchedChunk DEF Straight
<1>2. r \in Reg
  BY <1>1 DEF Result
<1>3. CASE opcode(word) = 0
  BY <1>1, <1>3 DEF Result
<1>4. CASE opcode(word) = 1
  <2>1. PICK id, k : id = B /\ k = C
    OBVIOUS
  <2>2. id \in Segments /\ k \in Nat /\ 4 * k < SizeOf(id) /\ HeapInv
    BY <1>1, <1>4, <2>1, WordNat DEF InSegment, JitInv
  <2>3. get_at(mem, id + 4 * k) \in U32
    BY <2>2, ReadMemory
  <2> QED
    BY <1>2, <1>4, <2>1, <2>3 DEF Result
<1>5. CASE opcode(word) = 3 \/ opcode(word) = 4
  <2>1. B \in Nat /\ C \in Nat
    BY <1>1, WordNat
  <2>2. B + C \in Nat /\ B * C \in Nat
    BY <2>1
  <2> QED
    BY <1>2, <1>5, <2>2, WrapNat DEF Result
<1>6. CASE opcode(word) = 5
  BY <1>1, <1>2, <1>6, QuotientBound DEF Result
<1>7. CASE opcode(word) = 6
  <2>1. And(B, C) \in U32
    BY <1>1, X86JitAssumption
  <2>2. GB4 - 1 - And(B, C) \in U32
    BY <2>1, Virt32Assumption DEF U32
  <2> QED
    BY <1>2, <1>7, <2>2 DEF Result
<1>8. CASE opcode(word) = 13
  BY <1>1, <1>2, <1>8 DEF Result
<1> QED
  BY <1>1, <1>3, <1>4, <1>5, <1>6, <1>7, <1>8

\* The chunk of each of them, and what it computes.
LEMMA ChunkYields ==
    ASSUME JitInv, Straight, NEW r, NEW v, Result(r, v)
    PROVE  Yields(cpu, Run(cpu, Chunk), R(r), v) /\ Bytes_of(Chunk) = CHUNK
<1>1. PICK c, w : c = cpu /\ w = word
  OBVIOUS
<1>2. PICK a \in Reg, b \in Reg, e \in Reg : a = reg_a(w) /\ b = reg_b(w) /\ e = reg_c(w)
  BY <1>1, FetchedChunk DEF Straight
<1>3. /\ c \in Cpu /\ Words(c) /\ c.reg[rcx] = USABLE
      /\ A = c.reg[R(a)] /\ B = c.reg[R(b)] /\ C = c.reg[R(e)]
      /\ opcode(w) \in {0, 1, 3, 4, 5, 6, 13}
      /\ opcode(w) = 5 => C # 0
  BY <1>1, <1>2, FetchedChunk DEF Straight, Ready, A, B, C
<1>4. v \in U32 /\ v \in Nat /\ r \in Reg
  <2>1. v \in U32 /\ r \in Reg
    BY ResultIsWord
  <2> QED
    BY <2>1, WordNat
<1>5. CHUNK = 10
  BY DEF CHUNK
<1>6. CASE opcode(w) = 0
  <2>1. Chunk = cond_move(a, b, e) /\ r = a /\ v = IF C # 0 THEN B ELSE A
    BY <1>1, <1>2, <1>6 DEF Chunk, compile_instruction, Result
  <2> QED
    BY <1>1, <1>3, <1>5, <2>1, CondMoveDoes, ChunkLengths
<1>7. CASE opcode(w) = 1
  <2>1. Chunk = seg_load(a, b, e) /\ r = a /\ v = get_at(mem, B + 4 * C)
    BY <1>1, <1>2, <1>7 DEF Chunk, compile_instruction, Result
  <2> QED
    BY <1>1, <1>3, <1>4, <1>5, <2>1, SegLoadDoes, ChunkLengths
<1>8. CASE opcode(w) = 3
  <2>1. Chunk = add_regs(a, b, e) /\ r = a /\ v = Wrap(B + C)
    BY <1>1, <1>2, <1>8 DEF Chunk, compile_instruction, Result
  <2> QED
    BY <1>1, <1>3, <1>5, <2>1, AddDoes, ChunkLengths
<1>9. CASE opcode(w) = 4
  <2>1. Chunk = mult_regs(a, b, e) /\ r = a /\ v = Wrap(B * C)
    BY <1>1, <1>2, <1>9 DEF Chunk, compile_instruction, Result
  <2> QED
    BY <1>1, <1>3, <1>5, <2>1, MultDoes, ChunkLengths
<1>10. CASE opcode(w) = 5
  <2>1. Chunk = div_regs(a, b, e) /\ r = a /\ v = B \div C
    BY <1>1, <1>2, <1>10 DEF Chunk, compile_instruction, Result
  <2> QED
    BY <1>1, <1>3, <1>5, <1>10, <2>1, DivDoes, ChunkLengths
<1>11. CASE opcode(w) = 6
  <2>1. Chunk = nand_regs(a, b, e) /\ r = a /\ v = GB4 - 1 - And(B, C)
    BY <1>1, <1>2, <1>11 DEF Chunk, compile_instruction, Result
  <2> QED
    BY <1>1, <1>3, <1>5, <2>1, NandDoes, ChunkLengths
<1>12. CASE opcode(w) = 13
  <2>1. Chunk = load_reg(r, v)
    BY <1>1, <1>2, <1>12 DEF Chunk, compile_instruction, Result
  <2> QED
    BY <1>1, <1>3, <1>4, <1>5, <2>1, LoadRegDoes, ChunkLengths
<1> QED
  BY <1>3, <1>6, <1>7, <1>8, <1>9, <1>10, <1>11, <1>12

LEMMA StraightDoes ==
    ASSUME JitInv, Straight, NEW r, NEW v, Result(r, v)
    PROVE  /\ r \in Reg /\ v \in U32
           /\ Continues([UMRegisters(cpu) EXCEPT ![r] = v]) /\ UNCHANGED <<vars, out>>
<1>1. PICK c, d : c = cpu /\ d = cpu'
  OBVIOUS
<1>2. r \in Reg /\ v \in U32 /\ Yields(c, d, R(r), v) /\ rip' = rip + CHUNK
  BY <1>1, ResultIsWord, ChunkYields DEF Straight
<1>3. c \in Cpu
  BY <1>1 DEF JitInv
<1>4. Carries(c, d, [UMRegisters(c) EXCEPT ![r] = v])
  BY <1>2, <1>3, YieldsCarries
<1>5. UNCHANGED <<vars, code, regions, out, halted, left>>
  BY DEF Straight
<1> QED
  BY <1>1, <1>2, <1>4, <1>5 DEF Continues

LEMMA StoreDoes ==
    ASSUME JitInv, Store
    PROVE  /\ Continues(UMRegisters(cpu)) /\ UNCHANGED out
           /\ opcode(word) = 2 /\ InSegment(A, B)
           /\ A \in U32 /\ B \in U32 /\ C \in U32
           /\ mem' = [mem EXCEPT ![Cell(A + 4 * B)] = C]
           /\ UNCHANGED <<alloc, kernel_virtual_size, aborted>> /\ ~aborted
<1>1. PICK c, d, w : c = cpu /\ d = cpu' /\ w = word
  OBVIOUS
<1>2. /\ Runs({2}) /\ InSegment(A, B) /\ d = Run(c, Chunk) /\ rip' = rip + Bytes_of(Chunk)
      /\ mem' = [mem EXCEPT ![Target(d, Chunk[2].src)] = Wrap(d.reg[Chunk[2].dst])]
      /\ UNCHANGED <<alloc, kernel_virtual_size, aborted, code, regions, out, halted, left>>
  BY <1>1 DEF Store
<1>3. PICK a \in Reg, b \in Reg, e \in Reg : a = reg_a(w) /\ b = reg_b(w) /\ e = reg_c(w)
  BY <1>1, <1>2, FetchedChunk
<1>4. /\ c \in Cpu /\ Words(c) /\ c.reg[rcx] = USABLE /\ ~aborted
      /\ A = c.reg[R(a)] /\ B = c.reg[R(b)] /\ C = c.reg[R(e)] /\ opcode(w) = 2
      /\ A \in U32 /\ B \in U32 /\ C \in U32
  BY <1>1, <1>2, <1>3, FetchedChunk DEF Ready, A, B, C
<1>5. Chunk = seg_store(a, b, e)
  BY <1>1, <1>3, <1>4 DEF Chunk, compile_instruction
<1>6. PICK ops : ops = seg_store(a, b, e)
  OBVIOUS
<1>7. /\ Near(c, d)
      /\ Target(d, ops[2].src) = Cell(c.reg[R(a)] + 4 * c.reg[R(b)])
      /\ Wrap(d.reg[ops[2].dst]) = c.reg[R(e)]
  BY <1>2, <1>4, <1>5, <1>6, SegStoreDoes
<1>8. mem' = [mem EXCEPT ![Cell(A + 4 * B)] = C]
  BY <1>2, <1>4, <1>5, <1>6, <1>7
<1>9. Carries(c, d, UMRegisters(c))
  BY <1>4, <1>7, NearCarries
<1>10. Bytes_of(Chunk) = CHUNK
  BY <1>5, ChunkLengths DEF CHUNK
<1> QED
  BY <1>1, <1>2, <1>4, <1>8, <1>9, <1>10 DEF Continues

\* The number in al names the function that the chunk's opcode stands for.
Dispatch(op) ==
    \/ /\ op = OP_MAP /\ opcode(word) = 8 /\ Handed(Append(cpu.stack, rip + 7), op)
       /\ handler.reg[rdi] = C /\ Rest = << mov(rax, R(reg_b(word))) >>
    \/ /\ op = OP_UNMAP /\ opcode(word) = 9 /\ Handed(Append(cpu.stack, rip + 7), op)
       /\ handler.reg[rdi] = C /\ Rest = << nop(3) >>
    \/ /\ op = OP_OUT /\ opcode(word) = 10 /\ Handed(Append(cpu.stack, rip + 7), op)
       /\ handler.reg[rdi] = C /\ Rest = << nop(3) >>
    \/ /\ op = OP_IN /\ opcode(word) = 11 /\ Handed(Append(cpu.stack, rip + 4), op)
       /\ Rest = << mov(rax, R(reg_c(word))), nop(3) >>
    \/ op = OP_HALT /\ opcode(word) = 7 /\ Handed(cpu.stack, op)
    \/ /\ op = OP_DUPLICATE /\ opcode(word) = 12 /\ Handed(cpu.stack, op)
       /\ handler.reg[rsi] = C /\ handler.reg[rdi] = B

LEMMA Dispatching ==
    ASSUME JitInv, NEW op, function(op)
    PROVE  Dispatch(op)
<1>1. Ready /\ opcode(word) \in 7..12 /\ handler.reg[rax] % BYTE = op
  BY FetchedChunk DEF function
<1>2. \A stack, n : Handed(stack, n) => op = n
  BY <1>1 DEF Handed
<1>3. {OP_MAP, OP_UNMAP, OP_OUT} \subseteq 0..BYTE - 1
  BY Numbers
<1>4. CASE opcode(word) = 8
  <2>1. PICK last : last = mov(rax, R(reg_b(word)))
    OBVIOUS
  <2>2. last \notin {call, jmp}
    BY <2>1, NotLeaving
  <2>3. Chunk = << mov(R(reg_c(word)), rdi), moval(OP_MAP), call, last >>
    BY <1>4, <2>1, CalledChunks DEF inject_map_segment
  <2>4. /\ Handed(Append(cpu.stack, rip + 7), OP_MAP)
        /\ handler.reg[rdi] = C /\ Rest = <<last>>
    BY <1>1, <1>3, <2>2, <2>3, ArgumentCall
  <2> QED
    BY <1>2, <1>4, <2>1, <2>4 DEF Dispatch
<1>5. CASE opcode(word) = 9
  <2>1. PICK last : last = nop(3)
    OBVIOUS
  <2>2. last \notin {call, jmp}
    BY <2>1, NotLeaving
  <2>3. Chunk = << mov(R(reg_c(word)), rdi), moval(OP_UNMAP), call, last >>
    BY <1>5, <2>1, CalledChunks DEF inject_unmap_segment
  <2>4. /\ Handed(Append(cpu.stack, rip + 7), OP_UNMAP)
        /\ handler.reg[rdi] = C /\ Rest = <<last>>
    BY <1>1, <1>3, <2>2, <2>3, ArgumentCall
  <2> QED
    BY <1>2, <1>5, <2>1, <2>4 DEF Dispatch
<1>6. CASE opcode(word) = 10
  <2>1. PICK last : last = nop(3)
    OBVIOUS
  <2>2. last \notin {call, jmp}
    BY <2>1, NotLeaving
  <2>3. Chunk = << mov(R(reg_c(word)), rdi), moval(OP_OUT), call, last >>
    BY <1>6, <2>1, CalledChunks DEF print_reg
  <2>4. /\ Handed(Append(cpu.stack, rip + 7), OP_OUT)
        /\ handler.reg[rdi] = C /\ Rest = <<last>>
    BY <1>1, <1>3, <2>2, <2>3, ArgumentCall
  <2> QED
    BY <1>2, <1>6, <2>1, <2>4 DEF Dispatch
<1>7. CASE opcode(word) = 11
  BY <1>1, <1>2, <1>7, InputCall DEF Dispatch
<1>8. CASE opcode(word) = 7
  BY <1>1, <1>2, <1>8, HaltJump DEF Dispatch
<1>9. CASE opcode(word) = 12
  BY <1>1, <1>2, <1>9, LoadJump DEF Dispatch
<1> QED
  BY <1>1, <1>4, <1>5, <1>6, <1>7, <1>8, <1>9

\* The six numbers are different, so that the dispatch is right both ways.
LEMMA Dispatches ==
    /\ OP_MAP = 1 /\ OP_UNMAP = 2 /\ OP_OUT = 3 /\ OP_IN = 4
    /\ OP_DUPLICATE = 5 /\ OP_HALT = 6
BY DEF OP_MAP, OP_UNMAP, OP_OUT, OP_IN, OP_DUPLICATE, OP_HALT

\* Back in the chunk, behind its call.
LEMMA Returning ==
    ASSUME JitInv, NEW ret \in Nat, NEW op, Handed(Append(cpu.stack, ret), op),
           NEW s, Entering(handler, s), NEW result \in Nat, NEW junk \in Nat,
           Return(pop_regs(returned(s, result, junk)))
    PROVE  \E d : /\ Back(cpu, d, result)
                  /\ cpu' = Run(d, Rest) /\ rip' = ret + Bytes_of(Rest)
<1>1. PICK c, h, t : c = cpu /\ h = handler /\ t = pop_regs(returned(s, result, junk))
  OBVIOUS
<1>2. c \in Cpu /\ Called(c, h, ret) /\ Entering(h, s)
  BY <1>1 DEF JitInv, Handed, Called
<1>3. PICK d : d = [t EXCEPT !.stack = SubSeq(t.stack, 1, Len(t.stack) - 1)]
  OBVIOUS
<1>a. ReturnsTo(c, pop_regs(returned(s, result, junk)), ret, result)
  BY <1>2, CallReturns
<1>4. t.stack[Len(t.stack)] = ret /\ Back(c, d, result)
  BY <1>1, <1>3, <1>a DEF ReturnsTo
<1>5. cpu' = Run(d, Rest) /\ rip' = t.stack[Len(t.stack)] + Bytes_of(Rest)
  BY <1>1, <1>3 DEF Return
<1> QED
  BY <1>1, <1>4, <1>5

\* The rest of a chunk takes the result, if any, to a register.
LEMMA Resuming ==
    ASSUME NEW c \in Cpu, NEW d, NEW result \in Nat, Back(c, d, result), NEW r \in Reg
    PROVE  /\ Carries(c, Run(d, << nop(3) >>), UMRegisters(c))
           /\ Carries(c, Run(d, << mov(rax, R(r)) >>), [UMRegisters(c) EXCEPT ![r] = Wrap(result)])
           /\ Carries(c, Run(d, << mov(rax, R(r)), nop(3) >>),
                      [UMRegisters(c) EXCEPT ![r] = Wrap(result)])
           /\ Bytes_of(<< nop(3) >>) = 3 /\ Bytes_of(<< mov(rax, R(r)) >>) = 3
           /\ Bytes_of(<< mov(rax, R(r)), nop(3) >>) = 6
<1>1. d.reg[rax] = result
  BY DEF Back
<1>2. Run(d, << nop(3) >>) = d
  BY RunOne, Instructions
<1>3. PICK e : e = Set(d, R(r), Wrap(result))
  OBVIOUS
<1>4. Exec(d, mov(rax, R(r))) = e
  BY <1>1, <1>3, Instructions
<1>5. Run(d, << mov(rax, R(r)) >>) = e
  BY <1>4, RunOne
<1>6. Run(d, << mov(rax, R(r)), nop(3) >>) = e
  BY <1>4, RunTwo, Instructions
<1>7. Carries(c, d, UMRegisters(c)) /\ Carries(c, e, [UMRegisters(c) EXCEPT ![r] = Wrap(result)])
  BY <1>3, BackCarries
<1>8. Bytes_of(<< mov(rax, R(r)), nop(3) >>) = 3 + 3
  BY InstructionLengths, BytesOfTwo
<1>9. Bytes_of(<< nop(3) >>) = 3 /\ Bytes_of(<< mov(rax, R(r)) >>) = 3
  BY InstructionLengths, BytesOfOne
<1> QED
  BY <1>2, <1>5, <1>6, <1>7, <1>8, <1>9

-----------------------------------------------------------------------------
\* What each call, and each jump, does.

LEMMA MapDoes ==
    ASSUME JitInv, map
    PROVE  /\ Continues([UMRegisters(cpu) EXCEPT ![reg_b(word)] = served(Wrap(4 * C))])
           /\ served(Wrap(4 * C)) \in U32 /\ UNCHANGED out
           /\ opcode(word) = 8 /\ C \in U32 /\ ~aborted
           /\ Requested(C) /\ FitsHeap(4 * C) /\ vs_calloc(Wrap(4 * C))
<1>1. PICK h, c, n : h = handler /\ c = entered(h) /\ n = Wrap(c.reg[rdi])
  OBVIOUS
<1>2. /\ function(OP_MAP) /\ Requested(n) /\ FitsHeap(4 * n) /\ ~aborted
      /\ vs_calloc(Wrap(4 * n))
      /\ \E junk \in Junk : Return(pop_regs(returned(c, served(Wrap(4 * n)), junk)))
      /\ UNCHANGED <<code, regions, out, halted, left>>
  BY <1>1 DEF map, MapSegment
<1>3. /\ C \in U32 /\ Ready /\ HeapInv /\ reg_b(word) \in Reg
  BY <1>2, FetchedChunk DEF function, JitInv
<1>4. Dispatch(OP_MAP)
  BY <1>2, Dispatching
<1>5. /\ opcode(word) = 8 /\ Handed(Append(cpu.stack, rip + 7), OP_MAP)
      /\ handler.reg[rdi] = C /\ Rest = << mov(rax, R(reg_b(word))) >>
  BY <1>4, Dispatches DEF Dispatch
<1>6. h \in Cpu
  BY <1>1, <1>5 DEF Handed
<1>7. Entering(h, c) /\ c.reg[rdi] = h.reg[rdi]
  BY <1>1, <1>6, PushesVolatile
<1>8. n = C /\ n \in U32
  BY <1>1, <1>3, <1>5, <1>7, WordNat
<1>9. PICK result : result = served(Wrap(4 * n))
  OBVIOUS
<1>10. result \in U32
  BY <1>2, <1>3, <1>8, <1>9, ServedType
<1>11. result \in Nat /\ Wrap(result) = result
  BY <1>10, WordNat
<1>12. PICK junk \in Nat : Return(pop_regs(returned(c, result, junk)))
  BY <1>2, <1>9, X86JitAssumption
<1>13. PICK ret \in Nat, r \in Reg : ret = rip + 7 /\ r = reg_b(word)
  BY <1>3 DEF Ready
<1>14. Handed(Append(cpu.stack, ret), OP_MAP) /\ Entering(handler, c)
  BY <1>1, <1>5, <1>7, <1>13
<1>15. PICK d : /\ Back(cpu, d, result)
                /\ cpu' = Run(d, Rest) /\ rip' = ret + Bytes_of(Rest)
  BY <1>11, <1>12, <1>14, Returning
<1>16. cpu \in Cpu
  BY <1>3 DEF Ready
<1>17. /\ Carries(cpu, Run(d, << mov(rax, R(r)) >>), [UMRegisters(cpu) EXCEPT ![r] = Wrap(result)])
       /\ Bytes_of(<< mov(rax, R(r)) >>) = 3
  BY <1>11, <1>15, <1>16, Resuming
<1>18. Carries(cpu, cpu', [UMRegisters(cpu) EXCEPT ![r] = result]) /\ rip' = ret + 3
  BY <1>5, <1>11, <1>13, <1>15, <1>17
<1>19. rip' = rip + CHUNK
  BY <1>3, <1>13, <1>18 DEF CHUNK, Ready
<1>20. Continues([UMRegisters(cpu) EXCEPT ![reg_b(word)] = served(Wrap(4 * C))])
  BY <1>2, <1>8, <1>9, <1>13, <1>18, <1>19 DEF Continues
<1>21. Requested(C) /\ FitsHeap(4 * C) /\ vs_calloc(Wrap(4 * C))
  BY <1>2, <1>8
<1> QED
  BY <1>2, <1>3, <1>5, <1>8, <1>9, <1>10, <1>20, <1>21

LEMMA UnmapDoes ==
    ASSUME JitInv, unmap
    PROVE  /\ Continues(UMRegisters(cpu)) /\ UNCHANGED out
           /\ opcode(word) = 9 /\ C \in mapped /\ vs_free(C)
<1>1. PICK h, c, id : h = handler /\ c = push_regs(h) /\ id = Wrap(c.reg[rdi])
  OBVIOUS
<1>2. /\ function(OP_UNMAP) /\ id \in mapped /\ vs_free(id)
      /\ \E junk \in Junk : Return(pop_regs(returned(c, junk, junk)))
      /\ UNCHANGED <<code, regions, out, halted, left>>
  BY <1>1 DEF unmap, UnmapSegment
<1>3. C \in U32 /\ Ready
  BY <1>2, FetchedChunk DEF function
<1>4. Dispatch(OP_UNMAP)
  BY <1>2, Dispatching
<1>5. /\ opcode(word) = 9 /\ Handed(Append(cpu.stack, rip + 7), OP_UNMAP)
      /\ handler.reg[rdi] = C /\ Rest = << nop(3) >>
  BY <1>4, Dispatches DEF Dispatch
<1>6. h \in Cpu
  BY <1>1, <1>5 DEF Handed
<1>7. Entering(h, c) /\ c.reg = h.reg
  BY <1>1, <1>6, PushesVolatile
<1>8. id = C
  BY <1>1, <1>3, <1>5, <1>7, WordNat
<1>9. PICK junk \in Nat : Return(pop_regs(returned(c, junk, junk)))
  BY <1>2, X86JitAssumption
<1>10. PICK ret \in Nat : ret = rip + 7
  BY <1>3 DEF Ready
<1>11. Handed(Append(cpu.stack, ret), OP_UNMAP) /\ Entering(handler, c)
  BY <1>1, <1>5, <1>7, <1>10
<1>12. PICK d : /\ Back(cpu, d, junk)
                /\ cpu' = Run(d, Rest) /\ rip' = ret + Bytes_of(Rest)
  BY <1>9, <1>11, Returning
<1>13. PICK r \in Reg : r = reg_c(word)
  BY <1>2, FetchedChunk DEF function
<1>14. cpu \in Cpu
  BY <1>3 DEF Ready
<1>15. Carries(cpu, Run(d, << nop(3) >>), UMRegisters(cpu)) /\ Bytes_of(<< nop(3) >>) = 3
  BY <1>12, <1>13, <1>14, Resuming
<1>16. rip' = rip + CHUNK
  BY <1>3, <1>5, <1>10, <1>12, <1>15 DEF CHUNK, Ready
<1>17. Continues(UMRegisters(cpu))
  BY <1>2, <1>5, <1>12, <1>15, <1>16 DEF Continues
<1> QED
  BY <1>2, <1>5, <1>8, <1>17

LEMMA PrintDoes ==
    ASSUME JitInv, print_out
    PROVE  /\ Continues(UMRegisters(cpu)) /\ UNCHANGED vars
           /\ opcode(word) = 10 /\ C < BYTE /\ C \in Nat /\ out' = Append(out, C % BYTE)
<1>1. PICK h, c, value : h = handler /\ c = push_regs(h) /\ value = Wrap(c.reg[rdi])
  OBVIOUS
<1>2. /\ function(OP_OUT) /\ value < BYTE /\ out' = Append(out, value % BYTE)
      /\ \E junk \in Junk : Return(pop_regs(returned(c, value, junk)))
      /\ UNCHANGED <<vars, code, regions, halted, left>>
  BY <1>1 DEF print_out
<1>3. C \in U32 /\ Ready
  BY <1>2, FetchedChunk DEF function
<1>4. Dispatch(OP_OUT)
  BY <1>2, Dispatching
<1>5. /\ opcode(word) = 10 /\ Handed(Append(cpu.stack, rip + 7), OP_OUT)
      /\ handler.reg[rdi] = C /\ Rest = << nop(3) >>
  BY <1>4, Dispatches DEF Dispatch
<1>6. h \in Cpu
  BY <1>1, <1>5 DEF Handed
<1>7. Entering(h, c) /\ c.reg = h.reg
  BY <1>1, <1>6, PushesVolatile
<1>8. value = C /\ value \in Nat
  BY <1>1, <1>3, <1>5, <1>7, WordNat
<1>9. PICK junk \in Nat : Return(pop_regs(returned(c, value, junk)))
  BY <1>2, X86JitAssumption
<1>10. PICK ret \in Nat : ret = rip + 7
  BY <1>3 DEF Ready
<1>11. Handed(Append(cpu.stack, ret), OP_OUT) /\ Entering(handler, c)
  BY <1>1, <1>5, <1>7, <1>10
<1>12. PICK d : /\ Back(cpu, d, value)
                /\ cpu' = Run(d, Rest) /\ rip' = ret + Bytes_of(Rest)
  BY <1>8, <1>9, <1>11, Returning
<1>13. PICK r \in Reg : r = reg_c(word)
  BY <1>2, FetchedChunk DEF function
<1>14. cpu \in Cpu
  BY <1>3 DEF Ready
<1>15. Carries(cpu, Run(d, << nop(3) >>), UMRegisters(cpu)) /\ Bytes_of(<< nop(3) >>) = 3
  BY <1>8, <1>12, <1>13, <1>14, Resuming
<1>16. rip' = rip + CHUNK
  BY <1>3, <1>5, <1>10, <1>12, <1>15 DEF CHUNK, Ready
<1>17. Continues(UMRegisters(cpu))
  BY <1>2, <1>5, <1>12, <1>15, <1>16 DEF Continues
<1> QED
  BY <1>2, <1>5, <1>8, <1>17

LEMMA ReadDoes ==
    ASSUME JitInv, read_char
    PROVE  \E value \in Input : /\ Continues([UMRegisters(cpu) EXCEPT ![reg_c(word)] = value])
                                /\ UNCHANGED <<vars, out>> /\ opcode(word) = 11
<1>1. PICK h, c : h = handler /\ c = push_regs(h)
  OBVIOUS
<1>2. /\ function(OP_IN) /\ UNCHANGED <<vars, code, regions, out, halted, left>>
      /\ \E value \in Input, junk \in Junk : Return(pop_regs(returned(c, value, junk)))
  BY <1>1 DEF read_char
<1>3. Ready
  BY <1>2, FetchedChunk DEF function
<1>4. Dispatch(OP_IN)
  BY <1>2, Dispatching
<1>5. /\ opcode(word) = 11 /\ Handed(Append(cpu.stack, rip + 4), OP_IN)
      /\ Rest = << mov(rax, R(reg_c(word))), nop(3) >>
  BY <1>4, Dispatches DEF Dispatch
<1>6. h \in Cpu
  BY <1>1, <1>5 DEF Handed
<1>7. Entering(h, c)
  BY <1>1, <1>6, PushesVolatile
<1>8. PICK value \in Input, junk \in Nat : Return(pop_regs(returned(c, value, junk)))
  BY <1>2, X86JitAssumption
<1>9. value \in Nat /\ Wrap(value) = value
  BY X86JitAssumption, WordNat
<1>10. PICK ret \in Nat, r \in Reg : ret = rip + 4 /\ r = reg_c(word)
  BY <1>2, <1>3, FetchedChunk DEF function, Ready
<1>11. Handed(Append(cpu.stack, ret), OP_IN) /\ Entering(handler, c)
  BY <1>1, <1>5, <1>7, <1>10
<1>12. PICK d : /\ Back(cpu, d, value)
                /\ cpu' = Run(d, Rest) /\ rip' = ret + Bytes_of(Rest)
  BY <1>8, <1>9, <1>11, Returning
<1>13. cpu \in Cpu
  BY <1>3 DEF Ready
<1>14. /\ Carries(cpu, Run(d, << mov(rax, R(r)), nop(3) >>),
                  [UMRegisters(cpu) EXCEPT ![r] = Wrap(value)])
       /\ Bytes_of(<< mov(rax, R(r)), nop(3) >>) = 6
  BY <1>9, <1>12, <1>13, Resuming
<1>15. Carries(cpu, cpu', [UMRegisters(cpu) EXCEPT ![r] = value]) /\ rip' = ret + 6
  BY <1>5, <1>9, <1>10, <1>12, <1>14
<1>16. rip' = rip + CHUNK
  BY <1>3, <1>10, <1>15 DEF CHUNK, Ready
<1>17. Continues([UMRegisters(cpu) EXCEPT ![reg_c(word)] = value])
  BY <1>2, <1>10, <1>15, <1>16 DEF Continues
<1> QED
  BY <1>2, <1>5, <1>17

LEMMA JumpDoes ==
    ASSUME JitInv, jump
    PROVE  /\ Carries(cpu, cpu', UMRegisters(cpu))
           /\ rip' = Region(regions) + CHUNK * C
           /\ opcode(word) = 12 /\ B = 0 /\ C \in U32 /\ ~aborted
           /\ UNCHANGED <<vars, code, regions, out, halted, left>>
<1>1. PICK c, h, t : c = cpu /\ h = handler /\ t = cpu'
  OBVIOUS
<1>2. /\ function(OP_DUPLICATE) /\ Wrap(h.reg[rdi]) = 0
      /\ t = looped(h) /\ rip' = t.reg[rax]
      /\ UNCHANGED <<vars, code, regions, out, halted, left>>
  BY <1>1 DEF jump
<1>3. B \in U32 /\ C \in U32 /\ Ready /\ ~halted /\ ~aborted
  BY <1>2, FetchedChunk DEF function
<1>4. Dispatch(OP_DUPLICATE)
  BY <1>2, Dispatching
<1>5. /\ opcode(word) = 12 /\ Handed(cpu.stack, OP_DUPLICATE)
      /\ handler.reg[rsi] = C /\ handler.reg[rdi] = B
  BY <1>4, Dispatches DEF Dispatch
<1>6. /\ h \in Cpu /\ h.stack = c.stack
      /\ \A q \in Register \ {rax, rdi, rsi} : h.reg[q] = c.reg[q]
  BY <1>1, <1>5 DEF Handed
<1>7. /\ t \in Cpu /\ t.stack = h.stack /\ t.reg[rax] = h.reg[rbp] + CHUNK * Wrap(h.reg[rsi])
      /\ \A q \in Register \ {rax, rdi} : t.reg[q] = h.reg[q]
  BY <1>2, <1>6, Loops
<1>8. Wrap(h.reg[rsi]) = C /\ B = 0
  BY <1>1, <1>2, <1>3, <1>5, WordNat
<1>9. /\ Spared \subseteq Register \ {rax, rdi} /\ Spared \subseteq Register \ {rax, rdi, rsi}
      /\ \A s \in Reg : R(s) \in Spared /\ {rcx, rbx, rbp} \subseteq Spared
  BY Sparing DEF Spared
<1>10. \A q \in Spared : t.reg[q] = c.reg[q]
  BY <1>6, <1>7, <1>9
<1>11. rbp \in Register \ {rax, rdi, rsi} /\ c.reg[rbp] = Region(regions)
  BY <1>1, <1>3, Registers DEF JitInv, Reserved, rax, rdi, rsi, rbp, Register
<1>12. h.reg[rbp] = Region(regions)
  BY <1>6, <1>11
<1>13. Carries(c, t, UMRegisters(c))
  <2>1. /\ t.reg[rcx] = c.reg[rcx] /\ t.reg[rbx] = c.reg[rbx] /\ t.reg[rbp] = c.reg[rbp]
        /\ \A s \in Reg : t.reg[R(s)] = c.reg[R(s)]
    BY <1>9, <1>10, Sparing
  <2> QED
    BY <1>6, <1>7, <2>1 DEF Carries, UMRegisters
<1> QED
  BY <1>1, <1>2, <1>3, <1>5, <1>7, <1>8, <1>12, <1>13

\* A CPU that runs the first chunk of a new region, where the jump will go.
Enters(c, d, n, k) ==
    /\ d \in Cpu /\ d.stack = c.stack
    /\ d.reg[rcx] = c.reg[rcx] /\ d.reg[rbx] = c.reg[rbx] /\ d.reg[rbp] = Region(n)
    /\ d.reg[rax] = Region(n) + CHUNK * k
    /\ UMRegisters(d) = UMRegisters(c)

\* Around load_zero_segment and its compilation, the handler saves C as well.
LEMMA ReloadReturns ==
    ASSUME NEW c \in Cpu, Handed(c.stack, OP_DUPLICATE), c = cpu, NEW k \in U32,
           NEW n \in Nat, handler.reg[rsi] = k,
           NEW s, s = entered(Pushed(handler, <<rsi>>)), NEW junk \in Nat, NEW u,
           u = Popped(pop_regs(returned(s, Region(n), junk)), <<rsi>>)
    PROVE  s.reg[rdi] = handler.reg[rdi] /\ Enters(c, looped(Set(u, rbp, u.reg[rax])), n, k)
<1>1. PICK h, p, names : h = handler /\ p = Pushed(h, names) /\ names = <<rsi>>
  OBVIOUS
<1>2. /\ h \in Cpu /\ h.stack = c.stack /\ h.reg[rsi] = k
      /\ \A q \in Register \ {rax, rdi, rsi} : h.reg[q] = c.reg[q]
  BY <1>1 DEF Handed
<1>3. /\ rsi \in Register /\ rax \in Register /\ rbp \in Register /\ rdi \in Register
      /\ rax # rsi /\ rbp # rsi /\ rbp # rax /\ rax # rdi /\ rbp # rdi
  BY DEF Register, rsi, rax, rbp, rdi
<1>4. /\ names \in Seq(Register) /\ Len(names) = 1 /\ names[1] = rsi
      /\ Reverses(names, names) /\ Distinct(names)
  BY <1>1, <1>3 DEF Reverses, Distinct
<1>5. Pushing(h, names, p)
  BY <1>1, <1>2, <1>4, Pushes
<1>6. p \in Cpu /\ p.reg = h.reg
  BY <1>5 DEF Pushing
<1>7. Entering(p, s) /\ s.reg[rdi] = h.reg[rdi]
  BY <1>1, <1>6, PushesVolatile
<1>8. PICK result \in Nat : result = Region(n)
  BY Virt32Assumption DEF Region, CHUNK
<1>9. PICK t : t = pop_regs(returned(s, result, junk))
  OBVIOUS
<1>10. Back(p, t, result)
  BY <1>6, <1>7, <1>9, RoundTrip
<1>11. /\ t \in Cpu /\ t.stack = p.stack /\ t.reg[rax] = result
       /\ \A q \in Spared : t.reg[q] = p.reg[q]
  BY <1>10 DEF Back
<1>12. u = Popped(t, names)
  BY <1>1, <1>8, <1>9
<1>13. Restoring(h, t, names, u)
  BY <1>1, <1>2, <1>4, <1>11, <1>12, PushPop
<1>14. /\ u \in Cpu /\ u.stack = h.stack /\ u.reg[rsi] = h.reg[rsi]
       /\ \A q \in Register \ {rsi} : u.reg[q] = t.reg[q]
  BY <1>4, <1>13 DEF Restoring
<1>15. PICK v : v = Set(u, rbp, result)
  OBVIOUS
<1>16. Writes(u, rbp, result, v)
  BY <1>3, <1>14, <1>15, Writing
<1>17. /\ v \in Cpu /\ v.stack = u.stack /\ v.reg[rbp] = result
       /\ \A q \in Register \ {rbp} : v.reg[q] = u.reg[q]
  BY <1>3, <1>16 DEF Writes
<1>18. u.reg[rax] = result
  BY <1>3, <1>11, <1>14
<1>19. PICK w : w = looped(v)
  OBVIOUS
<1>20. /\ w \in Cpu /\ w.stack = v.stack /\ w.reg[rax] = v.reg[rbp] + CHUNK * Wrap(v.reg[rsi])
       /\ \A q \in Register \ {rax, rdi} : w.reg[q] = v.reg[q]
  BY <1>17, <1>19, Loops
<1>21. v.reg[rsi] = k /\ Wrap(k) = k
  BY <1>2, <1>3, <1>14, <1>17, WordNat
<1>22. w.reg[rbp] = Region(n) /\ w.reg[rax] = Region(n) + CHUNK * k
  BY <1>3, <1>8, <1>17, <1>20, <1>21
<1>23. \A q \in Spared \ {rbp} : w.reg[q] = c.reg[q]
  <2>1. ASSUME NEW q \in Spared \ {rbp} PROVE w.reg[q] = c.reg[q]
    <3>1. q \in Register \ {rax, rdi, rsi} /\ q # rbp /\ q \in Spared
      BY <2>1 DEF Spared
    <3> QED
      BY <1>2, <1>6, <1>11, <1>14, <1>17, <1>20, <3>1
  <2> QED
    BY <2>1
<1>24. \A r \in Reg : R(r) \in Spared \ {rbp}
  BY Sparing, Registers DEF rbp
<1>25. rcx \in Spared \ {rbp} /\ rbx \in Spared \ {rbp}
  BY Sparing DEF rcx, rbx, rbp
<1>26. Enters(c, w, n, k)
  BY <1>2, <1>14, <1>17, <1>20, <1>22, <1>23, <1>24, <1>25 DEF Enters, UMRegisters
<1> QED
  BY <1>1, <1>7, <1>15, <1>18, <1>19, <1>26

LEMMA ReloadDoes ==
    ASSUME JitInv, load_program
    PROVE  /\ opcode(word) = 12 /\ C \in U32 /\ UNCHANGED <<out, halted, left>>
           /\ B \in mapped /\ B # 0 /\ SizeOf(B) # 0 /\ LoadSegment(B) /\ ~aborted
           /\ regions < MaxRegions /\ aborted' \in BOOLEAN
           /\ aborted' => UNCHANGED <<cpu, rip, code, regions>>
           /\ ~aborted' => /\ Enters(cpu, cpu', regions + 1, C) /\ rip' = cpu'.reg[rax]
                           /\ code' = Program0(mem') /\ regions' = regions + 1
<1>1. PICK h, s, id, n : /\ h = handler /\ s = entered(Pushed(h, <<rsi>>))
                         /\ id = Wrap(s.reg[rdi]) /\ n = regions + 1
  OBVIOUS
<1>2. /\ function(OP_DUPLICATE) /\ id # 0 /\ regions < MaxRegions
      /\ id \in mapped /\ SizeOf(id) # 0 /\ LoadSegment(id)
      /\ UNCHANGED <<out, halted, left>>
      /\ \/ /\ ~aborted'
            /\ \E junk \in Junk :
                  LET u == Popped(pop_regs(returned(s, Region(n), junk)), <<rsi>>)
                  IN  cpu' = looped(Set(u, rbp, u.reg[rax]))
            /\ rip' = cpu'.reg[rax]
            /\ code' = Program0(mem') /\ regions' = n
         \/ aborted' /\ UNCHANGED <<cpu, rip, code, regions>>
  BY <1>1 DEF load_program
<1>3. B \in U32 /\ C \in U32 /\ Ready /\ ~aborted
  BY <1>2, FetchedChunk DEF function
<1>4. Dispatch(OP_DUPLICATE)
  BY <1>2, Dispatching
<1>5. /\ opcode(word) = 12 /\ Handed(cpu.stack, OP_DUPLICATE)
      /\ handler.reg[rsi] = C /\ handler.reg[rdi] = B
  BY <1>4, Dispatches DEF Dispatch
<1>6. PICK c \in Cpu, k \in U32 : c = cpu /\ k = C
  BY <1>3 DEF Ready
<1>7. n \in Nat
  BY <1>1 DEF JitInv, JitTypeOK
<1>8. ASSUME NEW junk \in Nat, NEW u, u = Popped(pop_regs(returned(s, Region(n), junk)), <<rsi>>)
      PROVE  s.reg[rdi] = handler.reg[rdi] /\ Enters(c, looped(Set(u, rbp, u.reg[rax])), n, k)
  BY <1>1, <1>5, <1>6, <1>7, <1>8, ReloadReturns
<1>9. s.reg[rdi] = B
  BY <1>5, <1>8
<1>10. id = B
  BY <1>1, <1>3, <1>9, WordNat
<1>11. ~aborted' => Enters(cpu, cpu', regions + 1, C)
  <2>1. SUFFICES ASSUME ~aborted' PROVE Enters(cpu, cpu', regions + 1, C)
    OBVIOUS
  <2>2. PICK junk, u : /\ junk \in Nat
                       /\ u = Popped(pop_regs(returned(s, Region(n), junk)), <<rsi>>)
                       /\ cpu' = looped(Set(u, rbp, u.reg[rax]))
    BY <1>2, <2>1, X86JitAssumption
  <2> QED
    BY <1>1, <1>6, <1>8, <2>2
<1>12. B \in mapped /\ B # 0 /\ SizeOf(B) # 0 /\ LoadSegment(B)
  BY <1>2, <1>10 DEF LoadSegment, SizeOf
<1>13. aborted' \in BOOLEAN
  BY <1>2 DEF JitInv, HeapInv, TypeOK, LoadSegment
<1> QED
  BY <1>1, <1>2, <1>3, <1>5, <1>11, <1>12, <1>13

LEMMA HaltDoes ==
    ASSUME JitInv, halt
    PROVE  /\ opcode(word) = 7 /\ halted' = TRUE /\ left' = UMRegisters(cpu)
           /\ cpu' \in Cpu /\ cpu'.stack = <<>>
           /\ \A i \in 1..6 : cpu'.reg[Kept[i]] = Caller(Kept[i])
           /\ UNCHANGED <<vars, rip, code, regions, out>>
<1>1. PICK c, h, t : c = cpu /\ h = handler /\ t = cpu'
  OBVIOUS
<1>2. /\ function(OP_HALT) /\ t = restored(h) /\ left' = UMRegisters(h) /\ halted' = TRUE
      /\ UNCHANGED <<vars, rip, code, regions, out>>
  BY <1>1 DEF halt
<1>3. Dispatch(OP_HALT)
  BY <1>2, Dispatching
<1>4. opcode(word) = 7 /\ Handed(cpu.stack, OP_HALT)
  BY <1>3, Dispatches DEF Dispatch
<1>5. /\ h \in Cpu /\ h.stack = c.stack
      /\ \A q \in Register \ {rax, rdi, rsi} : h.reg[q] = c.reg[q]
  BY <1>1, <1>4 DEF Handed
<1>6. c.stack = CallerStack
  BY <1>1, <1>2, FetchedChunk DEF function
<1>7. /\ t \in Cpu /\ t.stack = <<>>
      /\ \A i \in 1..6 : t.reg[Kept[i]] = Caller(Kept[i])
  BY <1>2, <1>5, <1>6, Restored
<1>8. \A r \in Reg : R(r) \in Register \ {rax, rdi, rsi}
  BY Registers DEF rax, rdi, rsi
<1>9. UMRegisters(h) = UMRegisters(c)
  BY <1>5, <1>8 DEF UMRegisters
<1> QED
  BY <1>1, <1>2, <1>4, <1>7, <1>9

-----------------------------------------------------------------------------
\* JitInv is inductive.

\* What is compiled is segment 0.
LEMMA CompiledWords == HeapInv => Program0(mem) = Memory[0] /\ Program0(mem) \in Seq(U32)
<1> SUFFICES ASSUME HeapInv PROVE Program0(mem) = Memory[0] /\ Program0(mem) \in Seq(U32)
  OBVIOUS
<1>1. 0 \in Segments /\ 0 \in Nat
  BY DEF Segments
<1>2. Memory[0] \in Seq(U32)
  BY <1>1, ReadMemory
<1>3. SizeOf(0) \in Nat
  BY SegmentFacts
<1>4. \A i \in 1..SizeOf(0) \div 4 : 0 + 4 * (i - 1) = 4 * (i - 1)
  BY <1>3
<1>5. Memory[0] = [i \in 1..SizeOf(0) \div 4 |-> get_at(mem, 0 + 4 * (i - 1))]
  BY <1>1 DEF Memory, Contents
<1>6. Program0(mem) = Memory[0]
  BY <1>4, <1>5 DEF Program0, SizeOf, get_at
<1> QED
  BY <1>2, <1>6

LEMMA RegionNat == ASSUME NEW n \in Nat PROVE Region(n) \in Nat
BY Virt32Assumption DEF Region, CHUNK

\* Every chunk but a jump arrives at the chunk behind it.
LEMMA Arriving ==
    ASSUME JitInv, ~halted, NEW f \in [Reg -> U32], Continues(f),
           HeapInv', out' \in Seq(0..BYTE - 1)
    PROVE  JitInv'
<1>1. /\ cpu' \in Cpu /\ UMRegisters(cpu') = f
      /\ rip' = rip + CHUNK /\ code' = code /\ regions' = regions /\ halted' = halted
  BY DEF Continues, Carries
<1>2. /\ cpu'.stack = cpu.stack /\ cpu'.reg[rcx] = cpu.reg[rcx]
      /\ cpu'.reg[rbx] = cpu.reg[rbx] /\ cpu'.reg[rbp] = cpu.reg[rbp]
  BY DEF Continues, Carries
<1>3. \A r \in Reg : cpu'.reg[R(r)] \in U32
  BY <1>1 DEF UMRegisters
<1>4. /\ rip \in Nat /\ regions \in 1..MaxRegions /\ code \in Seq(U32)
      /\ halted \in BOOLEAN
  BY DEF JitInv, JitTypeOK
<1>5. PICK n \in Nat : n = regions /\ Region(n) \in Nat
  <2>1. regions \in Nat
    BY <1>4, X86JitAssumption
  <2> QED
    BY <2>1, RegionNat
<1>6. rip >= Region(n) /\ (rip - Region(n)) % CHUNK = 0
  BY <1>5 DEF JitInv, Lands
<1>7. /\ rip' \in Nat /\ rip' >= Region(n) /\ (rip' - Region(n)) % CHUNK = 0
      /\ regions' = n
  BY <1>1, <1>4, <1>5, <1>6 DEF CHUNK
<1>8. JitTypeOK'
  BY <1>1, <1>3, <1>4, <1>7 DEF JitTypeOK, Cpu
<1>9. Reserved'
  BY <1>1, <1>2 DEF JitInv, Reserved
<1>10. Lands'
  BY <1>7 DEF Lands
<1>11. CalleeSaved' /\ (halted => left \in [Reg -> U32])'
  BY <1>1 DEF CalleeSaved
<1> QED
  BY <1>1, <1>8, <1>9, <1>10, <1>11 DEF JitInv

\* A jump arrives at the chunk of the word it names, wherever the region is.
LEMMA JumpKeeps ==
    ASSUME JitInv, ~halted, NEW n \in 1..MaxRegions, NEW k \in U32, regions' = n,
           cpu' \in Cpu, cpu'.stack = cpu.stack, cpu'.reg[rcx] = cpu.reg[rcx],
           cpu'.reg[rbx] = cpu.reg[rbx], cpu'.reg[rbp] = Region(n),
           UMRegisters(cpu') = UMRegisters(cpu), rip' = Region(n) + CHUNK * k,
           code' \in Seq(U32), UNCHANGED <<out, halted, left>>, HeapInv'
    PROVE  JitInv'
<1>1. /\ \A r \in Reg : cpu.reg[R(r)] \in U32
      /\ out \in Seq(0..BYTE - 1) /\ halted \in BOOLEAN
  BY DEF JitInv, JitTypeOK
<1>2. \A r \in Reg : cpu'.reg[R(r)] = UMRegisters(cpu)[r]
  BY DEF UMRegisters
<1>3. \A r \in Reg : cpu'.reg[R(r)] \in U32
  BY <1>1, <1>2 DEF UMRegisters
<1>4. Region(n) \in Nat /\ k \in Nat /\ n \in Nat
  BY RegionNat, WordNat, X86JitAssumption
<1>5. /\ rip' \in Nat /\ rip' >= Region(n) /\ (rip' - Region(n)) % CHUNK = 0
  BY <1>4 DEF CHUNK
<1>6. JitTypeOK'
  BY <1>1, <1>3, <1>5 DEF JitTypeOK, Cpu
<1>7. Reserved'
  BY DEF JitInv, Reserved
<1>8. Lands'
  BY <1>5 DEF Lands
<1>9. CalleeSaved' /\ (halted => left \in [Reg -> U32])'
  BY DEF CalleeSaved
<1> QED
  BY <1>6, <1>7, <1>8, <1>9 DEF JitInv

\* Every step of compiled code is a step of Virt32, or leaves the allocator alone.
LEMMA ChunkUsesVirt32 ==
    ASSUME JitInv, JitStep
    PROVE  [Next]_vars
<1>1. CASE Straight \/ print_out \/ read_char \/ jump \/ halt
  BY <1>1 DEF Straight, print_out, read_char, jump, halt
<1>2. CASE Store
  <2>1. PICK id, k, v : id = A /\ k = B /\ v = C
    OBVIOUS
  <2>2. /\ id \in Segments /\ 4 * k < SizeOf(id) /\ k \in U32 /\ v \in U32
        /\ mem' = [mem EXCEPT ![Cell(id + 4 * k)] = v] /\ ~aborted
        /\ UNCHANGED <<alloc, kernel_virtual_size, aborted>>
    BY <1>2, <2>1, StoreDoes DEF InSegment
  <2>3. StoreWord(id, k, v)
    BY <2>2 DEF StoreWord, set_at
  <2>4. k \in Offset /\ v \in Value
    BY <2>2, X86JitAssumption
  <2> QED
    BY <2>2, <2>3, <2>4 DEF Next, Access
<1>3. CASE map
  <2>1. PICK n : n = C
    OBVIOUS
  <2>2. /\ n \in U32 /\ ~aborted /\ Requested(n) /\ FitsHeap(4 * n)
        /\ vs_calloc(Wrap(4 * n))
    BY <1>3, <2>1, MapDoes
  <2>3. n \in Request /\ MapSegment(n)
    BY <2>2, X86JitAssumption DEF MapSegment
  <2> QED
    BY <2>2, <2>3 DEF Next
<1>4. CASE unmap
  <2>1. PICK id : id = C
    OBVIOUS
  <2>2. id \in mapped /\ vs_free(id) /\ ~aborted
    BY <1>4, <2>1, UnmapDoes DEF unmap, UnmapSegment
  <2> QED
    BY <2>2 DEF Next, Access, UnmapSegment
<1>5. CASE load_program
  BY <1>5, ReloadDoes DEF Next, Access
<1> QED
  BY <1>1, <1>2, <1>3, <1>4, <1>5 DEF JitStep

LEMMA StepKeeps ==
    ASSUME JitInv, JitStep
    PROVE  JitInv'
<1>1. HeapInv'
  BY ChunkUsesVirt32, NextKeeps, StutterKeeps DEF JitInv
<1>2. ~halted
  BY DEF JitStep, Straight, Store, map, unmap, print_out, read_char, jump,
         load_program, halt, function, Runs
<1>3. PICK regs \in [Reg -> U32] : regs = UMRegisters(cpu)
  BY <1>2 DEF JitInv, JitTypeOK, UMRegisters
<1>4. out \in Seq(0..BYTE - 1) /\ regions \in 1..MaxRegions /\ code \in Seq(U32)
  BY DEF JitInv, JitTypeOK
<1>5. CASE Straight
  <2>1. PICK r, v : Result(r, v)
    BY <1>5 DEF Result, Straight, Runs
  <2>2. /\ r \in Reg /\ v \in U32 /\ Continues([UMRegisters(cpu) EXCEPT ![r] = v])
        /\ out' = out
    BY <1>5, <2>1, StraightDoes
  <2>3. PICK f \in [Reg -> U32] : f = [regs EXCEPT ![r] = v]
    BY <2>2
  <2> QED
    BY <1>1, <1>2, <1>3, <1>4, <2>2, <2>3, Arriving
<1>6. CASE Store
  <2>1. Continues(regs) /\ out' = out
    BY <1>3, <1>6, StoreDoes
  <2> QED
    BY <1>1, <1>2, <1>4, <2>1, Arriving
<1>7. CASE map
  <2>1. PICK r \in Reg, v \in U32 : /\ Continues([UMRegisters(cpu) EXCEPT ![r] = v])
                                     /\ out' = out
    BY <1>7, MapDoes, FetchedChunk DEF map, function
  <2>2. PICK f \in [Reg -> U32] : f = [regs EXCEPT ![r] = v]
    OBVIOUS
  <2> QED
    BY <1>1, <1>2, <1>3, <1>4, <2>1, <2>2, Arriving
<1>8. CASE unmap
  <2>1. Continues(regs) /\ out' = out
    BY <1>3, <1>8, UnmapDoes
  <2> QED
    BY <1>1, <1>2, <1>4, <2>1, Arriving
<1>9. CASE print_out
  <2>1. Continues(regs) /\ C \in Nat /\ out' = Append(out, C % BYTE)
    BY <1>3, <1>9, PrintDoes
  <2>2. C % BYTE \in 0..BYTE - 1
    BY <2>1, DivMod, IsaAssumption
  <2>3. out' \in Seq(0..BYTE - 1)
    BY <1>4, <2>1, <2>2
  <2> QED
    BY <1>1, <1>2, <2>1, <2>3, Arriving
<1>10. CASE read_char
  <2>1. PICK value \in Input : /\ Continues([UMRegisters(cpu) EXCEPT ![reg_c(word)] = value])
                               /\ out' = out
    BY <1>10, ReadDoes
  <2>2. value \in U32
    BY X86JitAssumption
  <2>3. PICK f \in [Reg -> U32] : f = [regs EXCEPT ![reg_c(word)] = value]
    BY <2>2
  <2> QED
    BY <1>1, <1>2, <1>3, <1>4, <2>1, <2>3, Arriving
<1>11. CASE jump
  <2>1. PICK n \in 1..MaxRegions, k \in U32 : n = regions /\ k = C
    BY <1>4, <1>11, JumpDoes
  <2>2. /\ cpu' \in Cpu /\ cpu'.stack = cpu.stack /\ cpu'.reg[rcx] = cpu.reg[rcx]
        /\ cpu'.reg[rbx] = cpu.reg[rbx] /\ cpu'.reg[rbp] = cpu.reg[rbp]
        /\ UMRegisters(cpu') = UMRegisters(cpu) /\ rip' = Region(n) + CHUNK * k
        /\ UNCHANGED <<code, regions, out, halted, left>>
    BY <1>11, <2>1, JumpDoes DEF Carries
  <2>3. cpu.reg[rbp] = Region(n)
    BY <1>2, <2>1 DEF JitInv, Reserved
  <2>4. regions' = n /\ cpu'.reg[rbp] = Region(n) /\ code' \in Seq(U32)
    BY <1>4, <2>1, <2>2, <2>3
  <2> QED
    BY <1>1, <1>2, <2>2, <2>4, JumpKeeps
<1>12. CASE load_program
  <2>1. /\ aborted' \in BOOLEAN /\ C \in U32 /\ UNCHANGED <<out, halted, left>>
        /\ aborted' => UNCHANGED <<cpu, rip, code, regions>>
        /\ ~aborted' => /\ Enters(cpu, cpu', regions + 1, C) /\ rip' = cpu'.reg[rax]
                        /\ code' = Program0(mem') /\ regions' = regions + 1
        /\ regions < MaxRegions
    BY <1>12, ReloadDoes
  <2>2. CASE aborted'
    BY <1>1, <2>1, <2>2
       DEF JitInv, JitTypeOK, Reserved, Lands, CalleeSaved
  <2>3. CASE ~aborted'
    <3>1. PICK n \in 1..MaxRegions, k \in U32 : n = regions + 1 /\ k = C
      BY <1>4, <2>1, X86JitAssumption
    <3>2. /\ cpu' \in Cpu /\ cpu'.stack = cpu.stack /\ cpu'.reg[rcx] = cpu.reg[rcx]
          /\ cpu'.reg[rbx] = cpu.reg[rbx] /\ cpu'.reg[rbp] = Region(n)
          /\ UMRegisters(cpu') = UMRegisters(cpu) /\ rip' = Region(n) + CHUNK * k
          /\ regions' = n
      BY <2>1, <2>3, <3>1 DEF Enters
    <3>3. (Program0(mem) \in Seq(U32))'
      BY <1>1, CompiledWords, PTL
    <3>4. code' \in Seq(U32)
      BY <2>1, <2>3, <3>3
    <3> QED
      BY <1>1, <1>2, <2>1, <3>2, <3>4, JumpKeeps
  <2> QED
    BY <2>1, <2>2, <2>3
<1>13. CASE halt
  <2>1. /\ halted' = TRUE /\ left' = regs /\ cpu' \in Cpu /\ cpu'.stack = <<>>
        /\ \A i \in 1..6 : cpu'.reg[Kept[i]] = Caller(Kept[i])
        /\ UNCHANGED <<vars, rip, code, regions, out>>
    BY <1>3, <1>13, HaltDoes
  <2>2. JitTypeOK'
    BY <2>1 DEF JitInv, JitTypeOK, Cpu
  <2>3. Reserved' /\ Lands' /\ CalleeSaved' /\ (halted => left \in [Reg -> U32])'
    BY <2>1 DEF Reserved, Lands, CalleeSaved
  <2> QED
    BY <1>1, <2>1, <2>2, <2>3 DEF JitInv
<1> QED
  BY <1>5, <1>6, <1>7, <1>8, <1>9, <1>10, <1>11, <1>12, <1>13 DEF JitStep

LEMMA StartKeeps ==
    ASSUME JitInit
    PROVE  JitInv
<1>1. /\ Init /\ cpu = started /\ rip = started.reg[rax]
      /\ code = Program0(mem) /\ regions = 1
      /\ out = <<>> /\ halted = FALSE
  BY DEF JitInit
<1>2. HeapInv
  BY <1>1, InitHeapInv
<1>3. code \in Seq(U32)
  BY <1>1, <1>2, CompiledWords
<1>4. /\ cpu \in Cpu /\ cpu.stack = CallerStack
      /\ cpu.reg[rcx] = USABLE /\ cpu.reg[rbx] = FUNCTION
      /\ cpu.reg[rbp] = Region(1) /\ rip = Region(1)
      /\ \A r \in Reg : cpu.reg[R(r)] = 0
  BY <1>1, Starting
<1>5. 0 \in U32
  BY Virt32Assumption DEF U32, BOOK_SIZE
<1>6. Region(1) \in Nat /\ 1 \in 1..MaxRegions
  BY RegionNat, X86JitAssumption
<1>7. out \in Seq(0..BYTE - 1)
  BY <1>1
<1>8. JitTypeOK
  BY <1>1, <1>3, <1>4, <1>5, <1>6, <1>7 DEF JitTypeOK, Cpu
<1>9. Reserved
  BY <1>1, <1>4 DEF Reserved, CallerStack
<1>10. Lands
  BY <1>1, <1>4, <1>6 DEF Lands, CHUNK
<1> QED
  BY <1>1, <1>2, <1>4, <1>8, <1>9, <1>10 DEF JitInv, CalleeSaved

-----------------------------------------------------------------------------
\* Compiled code keeps JitInv, whatever the program, its input, the size of the
\* heap and of memory, the machine's And, and what C functions leave in the
\* volatile registers.
THEOREM JitInvariant == JitSpec => []JitInv
<1>1. JitInit => JitInv
  BY StartKeeps
<1>2. JitInv /\ [JitNext]_<<vars, jit>> => JitInv'
  <2>1. JitInv /\ JitNext => JitInv'
    BY StepKeeps DEF JitNext
  <2>2. JitInv /\ UNCHANGED <<vars, jit>> => JitInv'
    <3> SUFFICES ASSUME JitInv, UNCHANGED <<vars, jit>> PROVE JitInv'
      OBVIOUS
    <3>1. HeapInv'
      BY StutterKeeps DEF JitInv
    <3> QED
      BY <3>1 DEF JitInv, JitTypeOK, Reserved, Lands, CalleeSaved, jit
  <2> QED
    BY <2>1, <2>2
<1> QED
  BY <1>1, <1>2, PTL DEF JitSpec

\* Machine registers hold naturals, and those of the UM words; the region, the
\* compiled words and the output keep their types.
THEOREM JitTypeCorrect == JitSpec => []JitTypeOK
<1>1. JitInv => JitTypeOK
  BY DEF JitInv
<1> QED
  BY <1>1, JitInvariant, PTL

\* No chunk, and no C function it calls, disturbs what every chunk relies on:
\* the base of the memory, the handler's address, the region and the stack.
THEOREM ReservedKept == JitSpec => []Reserved
<1>1. JitInv => Reserved
  BY DEF JitInv
<1> QED
  BY <1>1, JitInvariant, PTL

\* Control always arrives at the first byte of a chunk of the current region.
THEOREM LandsOnChunks == JitSpec => []Lands
<1>1. JitInv => Lands
  BY DEF JitInv
<1> QED
  BY <1>1, JitInvariant, PTL

\* run gives its caller back its registers and its stack.
THEOREM CallerRestored == JitSpec => []CalleeSaved
<1>1. JitInv => CalleeSaved
  BY DEF JitInv
<1> QED
  BY <1>1, JitInvariant, PTL

\* Compiled code uses the allocator as the allocator expects: its behaviours
\* are behaviours of Virt32, and every theorem about Virt32 holds of them.
THEOREM CompiledUsesVirt32 == JitSpec => Spec
<1>1. JitInit => Init
  BY DEF JitInit
<1>2. JitInv /\ [JitNext]_<<vars, jit>> => [Next]_vars
  BY ChunkUsesVirt32 DEF JitNext
<1> QED
  BY <1>1, <1>2, JitInvariant, PTL DEF JitSpec, Spec

-----------------------------------------------------------------------------
\* Compiled code is a UM.

\* The registers as a program sees them.
Regs64 == IF halted THEN left ELSE UMRegisters(cpu)

\* Compiling decodes a word as the UM does.
LEMMA SameDecoding ==
    ASSUME NEW w
    PROVE  /\ UM64!opcode(w) = opcode(w)
           /\ UM64!reg_a(w) = reg_a(w) /\ UM64!reg_b(w) = reg_b(w) /\ UM64!reg_c(w) = reg_c(w)
           /\ UM64!lv_reg(w) = lv_reg(w) /\ UM64!lv_val(w) = lv_val(w) /\ UM64!Reg = Reg
BY DEF UM64!opcode, opcode, UM64!reg_a, reg_a, UM64!reg_b, reg_b, UM64!reg_c, reg_c,
       UM64!lv_reg, lv_reg, UM64!lv_val, lv_val, UM64!Reg, Reg

\* A chunk is that of the word the UM would fetch, because no store has changed
\* the word since it was compiled.
LEMMA SameFetch ==
    ASSUME JitInv, Unchanged, NEW ops, Runs(ops)
    PROVE  /\ UM64!W = word /\ UM64!A = A /\ UM64!B = B /\ UM64!C = C
           /\ UM64!Operator(opcode(word)) /\ Regs64 = UMRegisters(cpu)
<1>1. /\ ~halted /\ pc \in Nat /\ HeapInv
      /\ {reg_a(word), reg_b(word), reg_c(word)} \subseteq Reg
  BY FetchedChunk DEF JitInv
<1>2. 4 * pc < SizeOf(0) /\ get_at(mem, 4 * pc) = word
  BY DEF Unchanged
<1>3. 0 \in Segments /\ 0 + 4 * pc = 4 * pc
  BY <1>1 DEF Segments
<1>4. pc < Len(Memory[0]) /\ Memory[0][pc + 1] = word
  BY <1>1, <1>2, <1>3, ReadMemory
<1>5. UM64!W = word
  BY <1>4 DEF UM64!W, Memory
<1>6. UM64!Operator(opcode(word))
  <2>1. UM64!opcode(UM64!W) = opcode(word)
    BY <1>5, SameDecoding
  <2> QED
    BY <1>1, <1>4, <2>1 DEF UM64!Operator, Memory
<1>7. /\ UM64!reg_a(UM64!W) = reg_a(word) /\ UM64!reg_b(UM64!W) = reg_b(word)
      /\ UM64!reg_c(UM64!W) = reg_c(word)
  BY <1>5, SameDecoding
<1> QED
  BY <1>1, <1>5, <1>6, <1>7 DEF UM64!A, UM64!B, UM64!C, A, B, C, Regs64, UMRegisters

LEMMA MemoryUnchanged == ASSUME UNCHANGED <<mem, mapped>> PROVE Memory' = Memory
BY DEF Memory, Segments, Contents, SizeOf, get_at

\* The finger moves by a word as control moves by a chunk.
LEMMA Advances ==
    ASSUME JitInv, ~halted, NEW f, Continues(f)
    PROVE  UM64!Advance /\ Regs64' = f
<1>1. /\ UMRegisters(cpu') = f /\ rip' = rip + CHUNK /\ regions' = regions
      /\ halted' = halted
  BY DEF Continues, Carries
<1>2. Regs64' = f
  BY <1>1 DEF Regs64
<1>3. rip \in Nat /\ regions \in Nat /\ rip >= Region(regions)
  BY X86JitAssumption DEF JitInv, JitTypeOK, Lands
<1>4. PICK n \in Nat, x \in Nat : n = regions /\ x = rip - Region(n)
  BY <1>3, RegionNat
<1>5. /\ pc = x \div CHUNK /\ pc' = (x + CHUNK) \div CHUNK
  <2>1. Region(n) \in Nat /\ regions' = n
    BY <1>1, <1>4, RegionNat
  <2>2. rip' - Region(n) = x + CHUNK
    BY <1>1, <1>3, <1>4, <2>1 DEF CHUNK
  <2> QED
    BY <1>4, <2>1, <2>2 DEF pc
<1>6. pc' = pc + 1
  BY <1>5 DEF CHUNK
<1> QED
  BY <1>1, <1>2, <1>6 DEF UM64!Advance

\* A chunk without a call: the result it leaves, in the UM's terms.
LEMMA Computed ==
    ASSUME JitInv, Unchanged, Straight, NEW r, NEW v, Result(r, v)
    PROVE  /\ Regs64' = [Regs64 EXCEPT ![r] = v] /\ UM64!Advance
           /\ Memory' = Memory /\ out' = out
<1>1. PICK f : f = [UMRegisters(cpu) EXCEPT ![r] = v]
  OBVIOUS
<1>2. Continues(f) /\ UNCHANGED <<vars, out>>
  BY <1>1, StraightDoes
<1>3. ~halted /\ Regs64 = UMRegisters(cpu)
  BY SameFetch DEF Straight, Runs
<1>4. UM64!Advance /\ Regs64' = f
  BY <1>2, <1>3, Advances
<1> QED
  BY <1>1, <1>2, <1>3, <1>4, MemoryUnchanged DEF vars

LEMMA ComputedA ==
    ASSUME JitInv, Unchanged, Straight, NEW v, Result(reg_a(word), v)
    PROVE  UM64!SetA(v) /\ UM64!Advance
<1>1. UM64!reg_a(UM64!W) = reg_a(word)
  BY SameFetch, SameDecoding DEF Straight
<1>2. PICK r : r = reg_a(word)
  OBVIOUS
<1>3. Result(r, v)
  BY <1>2 DEF Result
<1>4. /\ Regs64' = [Regs64 EXCEPT ![r] = v] /\ UM64!Advance
      /\ Memory' = Memory /\ out' = out
  BY <1>3, Computed
<1> QED
  BY <1>1, <1>2, <1>4 DEF UM64!SetA, Memory, Regs64

LEMMA StraightStep ==
    ASSUME JitInv, Unchanged, Straight
    PROVE  UM64!Next
<1>1. /\ UM64!A = A /\ UM64!B = B /\ UM64!C = C /\ UM64!W = word
      /\ UM64!Operator(opcode(word))
      /\ opcode(word) \in {0, 1, 3, 4, 5, 6, 13}
      /\ opcode(word) = 1 => InSegment(B, C)
      /\ opcode(word) = 5 => C # 0
  BY SameFetch DEF Straight, Runs
<1>2. A \in U32 /\ B \in U32 /\ C \in U32
  BY FetchedChunk DEF Straight
<1>3. CASE opcode(word) = 0
  <2>1. PICK v : v = IF C # 0 THEN B ELSE A
    OBVIOUS
  <2>2. Result(reg_a(word), v)
    BY <1>3, <2>1 DEF Result
  <2>3. UM64!SetA(v) /\ UM64!Advance
    BY <2>2, ComputedA
  <2>4. UM64!ConditionalMove
    BY <1>1, <1>3, <2>1, <2>3 DEF UM64!ConditionalMove, UM64!SetA
  <2> QED
    BY <2>3, <2>4 DEF UM64!Next
<1>4. CASE opcode(word) = 1
  <2>1. PICK id, k, v : id = B /\ k = C /\ v = get_at(mem, id + 4 * k)
    OBVIOUS
  <2>2. Result(reg_a(word), v)
    BY <1>4, <2>1 DEF Result
  <2>3. UM64!SetA(v) /\ UM64!Advance
    BY <2>2, ComputedA
  <2>4. id \in Segments /\ k \in Nat /\ 4 * k < SizeOf(id) /\ HeapInv
    BY <1>1, <1>2, <1>4, <2>1, WordNat DEF InSegment, JitInv
  <2>5. Memory[id][k + 1] = v /\ id \in DOMAIN Memory /\ k < Len(Memory[id])
    BY <2>1, <2>4, ReadMemory DEF Memory
  <2>6. UM64!B = id /\ UM64!C = k
    BY <1>1, <2>1
  <2>7. UM64!Active(UM64!B, UM64!C)
    BY <2>5, <2>6 DEF UM64!Active, Memory
  <2>8. UM64!ArrayIndex
    BY <1>1, <1>4, <2>3, <2>5, <2>6, <2>7 DEF UM64!ArrayIndex, UM64!SetA, Memory
  <2> QED
    BY <2>3, <2>8 DEF UM64!Next
<1>5. CASE opcode(word) = 3
  <2>1. PICK v : v = (B + C) % (16 * OP_UNIT)
    OBVIOUS
  <2>2. Result(reg_a(word), v)
    BY <1>5, <2>1, X86JitAssumption DEF Result, Wrap
  <2>3. UM64!SetA(v) /\ UM64!Advance
    BY <2>2, ComputedA
  <2>4. UM64!Addition
    BY <1>1, <1>5, <2>1, <2>3 DEF UM64!Addition, UM64!SetA
  <2> QED
    BY <2>3, <2>4 DEF UM64!Next
<1>6. CASE opcode(word) = 4
  <2>1. PICK v : v = (B * C) % (16 * OP_UNIT)
    OBVIOUS
  <2>2. Result(reg_a(word), v)
    BY <1>6, <2>1, X86JitAssumption DEF Result, Wrap
  <2>3. UM64!SetA(v) /\ UM64!Advance
    BY <2>2, ComputedA
  <2>4. UM64!Multiplication
    BY <1>1, <1>6, <2>1, <2>3 DEF UM64!Multiplication, UM64!SetA
  <2> QED
    BY <2>3, <2>4 DEF UM64!Next
<1>7. CASE opcode(word) = 5
  <2>1. PICK v : v = B \div C
    OBVIOUS
  <2>2. Result(reg_a(word), v)
    BY <1>7, <2>1 DEF Result
  <2>3. UM64!SetA(v) /\ UM64!Advance
    BY <2>2, ComputedA
  <2>4. UM64!Division
    BY <1>1, <1>7, <2>1, <2>3 DEF UM64!Division, UM64!SetA
  <2> QED
    BY <2>3, <2>4 DEF UM64!Next
<1>8. CASE opcode(word) = 6
  <2>1. PICK v : v = GB4 - 1 - And(B, C)
    OBVIOUS
  <2>2. Result(reg_a(word), v)
    BY <1>8, <2>1 DEF Result
  <2>3. UM64!SetA(v) /\ UM64!Advance
    BY <2>2, ComputedA
  <2>4. UM64!NotAnd
    BY <1>1, <1>8, <2>1, <2>3 DEF UM64!NotAnd, UM64!SetA
  <2> QED
    BY <2>3, <2>4 DEF UM64!Next
<1>9. CASE opcode(word) = 13
  <2>1. PICK r, v : r = lv_reg(word) /\ v = lv_val(word)
    OBVIOUS
  <2>2. Result(r, v)
    BY <1>9, <2>1 DEF Result
  <2>3. /\ Regs64' = [Regs64 EXCEPT ![r] = v] /\ UM64!Advance
        /\ Memory' = Memory /\ out' = out
    BY <2>2, Computed
  <2>4. UM64!lv_reg(UM64!W) = r /\ UM64!lv_val(UM64!W) = v
    BY <1>1, <2>1, SameDecoding
  <2>5. UM64!Orthography
    BY <1>1, <1>9, <2>3, <2>4 DEF UM64!Orthography, Memory, Regs64
  <2> QED
    BY <2>3, <2>5 DEF UM64!Next
<1> QED
  BY <1>1, <1>3, <1>4, <1>5, <1>6, <1>7, <1>8, <1>9

LEMMA StoreStep ==
    ASSUME JitInv, Unwritten, Unchanged, Store
    PROVE  UM64!Next
<1>1. /\ UM64!A = A /\ UM64!B = B /\ UM64!C = C /\ UM64!Operator(opcode(word))
      /\ Regs64 = UMRegisters(cpu) /\ ~halted
  BY SameFetch DEF Store, Runs
<1>2. PICK id, k, v : id = A /\ k = B /\ v = C
  OBVIOUS
<1>3. /\ id \in Segments /\ k \in U32 /\ v \in U32 /\ 4 * k < SizeOf(id)
      /\ mem' = [mem EXCEPT ![Cell(id + 4 * k)] = v] /\ ~aborted
      /\ UNCHANGED <<alloc, kernel_virtual_size, aborted, out>>
      /\ opcode(word) = 2
  BY <1>2, StoreDoes DEF InSegment
<1>4. k \in Nat
  BY <1>3, WordNat
<1>5. StoreWord(id, k, v)
  BY <1>3 DEF StoreWord, set_at
<1>6. HeapInv
  BY DEF JitInv
<1>7. /\ UM!Store(id, k + 1, v) /\ k < Len(Memory[id]) /\ id \in DOMAIN Memory
  <2>1. UM!Store(id, k + 1, v) /\ id \in DOMAIN Memory
    BY <1>3, <1>4, <1>5, <1>6, StoreMemory
  <2>2. k < Len(Memory[id])
    BY <1>3, <1>4, <1>6, ReadMemory
  <2> QED
    BY <2>1, <2>2
<1>8. UM64!Memory!Store(UM64!A, UM64!B + 1, UM64!C)
  BY <1>1, <1>2, <1>7 DEF UM!Store, UM64!Memory!Store
<1>9. UM64!Active(UM64!A, UM64!B)
  BY <1>1, <1>2, <1>7 DEF UM64!Active, Memory
<1>10. PICK f : f = UMRegisters(cpu)
  OBVIOUS
<1>11. UM64!Advance /\ Regs64' = f
  <2>1. Continues(f)
    BY <1>10, StoreDoes
  <2> QED
    BY <1>1, <2>1, Advances
<1>12. UM64!ArrayAmendment
  BY <1>1, <1>3, <1>8, <1>9, <1>10, <1>11 DEF UM64!ArrayAmendment, Regs64
<1> QED
  BY <1>11, <1>12 DEF UM64!Next

\* The address that vs_calloc serves is one the UM may choose for a name.
LEMMA MapStep ==
    ASSUME JitInv, Unwritten, Unchanged, map
    PROVE  UM64!Next
<1>1. /\ UM64!C = C /\ UM64!W = word /\ UM64!Operator(opcode(word))
      /\ Regs64 = UMRegisters(cpu) /\ ~halted
  BY SameFetch DEF map, function, Runs
<1>2. PICK n, r : n = C /\ r = reg_b(word)
  OBVIOUS
<1>3. /\ Continues([UMRegisters(cpu) EXCEPT ![r] = served(Wrap(4 * n))])
      /\ n \in U32 /\ out' = out /\ opcode(word) = 8 /\ ~aborted
      /\ Requested(n) /\ FitsHeap(4 * n) /\ vs_calloc(Wrap(4 * n))
  BY <1>2, MapDoes
<1>4. n \in Request /\ n \in Nat /\ MapSegment(n) /\ HeapInv
  BY <1>3, X86JitAssumption, WordNat DEF MapSegment, JitInv
<1>5. /\ 4 * n < MAX_ALLOC
      /\ Recycle(4 * n) \/ Carve(4 * n)
      /\ UNCHANGED <<kernel_virtual_size, aborted>>
  BY <1>3, <1>4, MapCases
<1>6. PICK id \in SegmentId \ {0} : id = served(4 * n) /\ UM!Map(id, n)
  <2>1. CASE Recycle(4 * n)
    BY <1>4, <1>5, <2>1, RecycleMemory
  <2>2. CASE Carve(4 * n)
    BY <1>3, <1>4, <1>5, <2>2, CarveMemory
  <2> QED
    BY <1>5, <2>1, <2>2
<1>7. Wrap(4 * n) = 4 * n
  BY <1>3, <1>4, ServedType
<1>8. PICK f : f = [UMRegisters(cpu) EXCEPT ![r] = id]
  OBVIOUS
<1>9. Continues(f)
  BY <1>3, <1>6, <1>7, <1>8
<1>10. UM64!Advance /\ Regs64' = f
  BY <1>1, <1>9, Advances
<1>11. UM64!Memory!Map(id, UM64!C)
  BY <1>1, <1>2, <1>6 DEF UM!Map, UM!Zeros, UM64!Memory!Map, UM64!Memory!Zeros
<1>12. UM64!reg_b(UM64!W) = r
  BY <1>1, <1>2, SameDecoding
<1>13. Regs64' = [Regs64 EXCEPT ![UM64!reg_b(UM64!W)] = id]
  BY <1>1, <1>8, <1>10, <1>12
<1>14. UM64!Allocation
  BY <1>1, <1>3, <1>11, <1>13 DEF UM64!Allocation, Regs64
<1> QED
  BY <1>10, <1>14 DEF UM64!Next

LEMMA UnmapStep ==
    ASSUME JitInv, Unwritten, Unchanged, unmap
    PROVE  UM64!Next
<1>1. /\ UM64!C = C /\ UM64!Operator(opcode(word))
      /\ Regs64 = UMRegisters(cpu) /\ ~halted
  BY SameFetch DEF unmap, function, Runs
<1>2. PICK id, f : id = C /\ f = UMRegisters(cpu)
  OBVIOUS
<1>3. /\ Continues(f) /\ out' = out /\ opcode(word) = 9 /\ id \in mapped /\ vs_free(id)
  BY <1>2, UnmapDoes
<1>4. UM!Unmap(id) /\ id \in DOMAIN Memory
  <2>1. HeapInv
    BY DEF JitInv
  <2> QED
    BY <1>3, <2>1, FreeMemory
<1>5. UM64!Memory!Unmap(UM64!C)
  BY <1>1, <1>2, <1>4 DEF UM!Unmap, UM64!Memory!Unmap
<1>6. UM64!Advance /\ Regs64' = f
  BY <1>1, <1>3, Advances
<1>7. UM64!Abandonment
  BY <1>1, <1>2, <1>3, <1>4, <1>5, <1>6 DEF UM64!Abandonment, Memory, Regs64
<1> QED
  BY <1>6, <1>7 DEF UM64!Next

LEMMA ConsoleStep ==
    ASSUME JitInv, Unchanged, print_out \/ read_char
    PROVE  UM64!Next
<1>1. /\ UM64!C = C /\ UM64!W = word /\ UM64!Operator(opcode(word))
      /\ Regs64 = UMRegisters(cpu) /\ ~halted
  BY SameFetch DEF print_out, read_char, function, Runs
<1>2. CASE print_out
  <2>1. PICK f : f = UMRegisters(cpu)
    OBVIOUS
  <2>2. /\ Continues(f) /\ UNCHANGED vars /\ opcode(word) = 10
        /\ C < BYTE /\ C \in Nat /\ out' = Append(out, C % BYTE)
    BY <1>2, <2>1, PrintDoes
  <2>3. C % BYTE = C
    BY <2>2, IsaAssumption
  <2>4. UM64!Advance /\ Regs64' = f
    BY <1>1, <2>2, Advances
  <2>5. Memory' = Memory
    BY <2>2, MemoryUnchanged DEF vars
  <2>6. UM64!Output
    BY <1>1, <2>1, <2>2, <2>3, <2>4, <2>5 DEF UM64!Output, Memory, Regs64
  <2> QED
    BY <2>4, <2>6 DEF UM64!Next
<1>3. CASE read_char
  <2>1. PICK r : r = reg_c(word)
    OBVIOUS
  <2>2. PICK value \in Input : /\ Continues([UMRegisters(cpu) EXCEPT ![r] = value])
                               /\ UNCHANGED <<vars, out>> /\ opcode(word) = 11
    BY <1>3, <2>1, ReadDoes
  <2>3. PICK f : f = [UMRegisters(cpu) EXCEPT ![r] = value]
    OBVIOUS
  <2>4. UM64!Advance /\ Regs64' = f
    BY <1>1, <2>2, <2>3, Advances
  <2>5. Memory' = Memory
    BY <2>2, MemoryUnchanged DEF vars
  <2>6. UM64!reg_c(UM64!W) = r
    BY <1>1, <2>1, SameDecoding
  <2>7. UM64!ReadInput
    BY <1>1, <2>2, <2>3, <2>4, <2>5, <2>6 DEF UM64!ReadInput, Memory, Regs64
  <2> QED
    BY <2>4, <2>7 DEF UM64!Next
<1> QED
  BY <1>2, <1>3

\* The finger follows a jump, to wherever the region is.
LEMMA FingerJumps ==
    ASSUME NEW n \in Nat, NEW k \in U32, regions' = n, rip' = Region(n) + CHUNK * k
    PROVE  pc' = k
<1>1. Region(n) \in Nat /\ k \in Nat
  BY RegionNat, WordNat
<1>2. rip' - Region(n) = CHUNK * k
  BY <1>1 DEF CHUNK
<1>3. (CHUNK * k) \div CHUNK = k
  BY <1>1 DEF CHUNK
<1> QED
  BY <1>2, <1>3 DEF pc

LEMMA JumpStep ==
    ASSUME JitInv, Unchanged, jump
    PROVE  UM64!Next
<1>1. /\ UM64!B = B /\ UM64!C = C /\ UM64!Operator(opcode(word))
      /\ Regs64 = UMRegisters(cpu) /\ ~halted
  BY SameFetch DEF jump, function, Runs
<1>2. PICK n, k : n = regions /\ k = C
  OBVIOUS
<1>3. /\ UMRegisters(cpu') = UMRegisters(cpu) /\ rip' = Region(n) + CHUNK * k
      /\ opcode(word) = 12 /\ B = 0 /\ k \in U32
      /\ UNCHANGED <<vars, code, regions, out, halted, left>>
  BY <1>2, JumpDoes DEF Carries
<1>4. n \in Nat
  BY <1>2, X86JitAssumption DEF JitInv, JitTypeOK
<1>5. pc' = k
  BY <1>2, <1>3, <1>4, FingerJumps
<1>6. Memory' = Memory
  BY <1>3, MemoryUnchanged DEF vars
<1>7. Memory' = [Memory EXCEPT ![0] = Memory[0]] /\ 0 \in DOMAIN Memory
  BY <1>6 DEF Memory, Segments
<1>8. UM64!Memory!LoadSegment(UM64!B)
  BY <1>1, <1>3, <1>7 DEF UM64!Memory!LoadSegment, Memory
<1>9. Regs64' = Regs64
  BY <1>1, <1>3 DEF Regs64
<1>10. UM64!LoadProgram
  BY <1>1, <1>2, <1>3, <1>5, <1>7, <1>8, <1>9 DEF UM64!LoadProgram, Memory, Regs64
<1> QED
  BY <1>10 DEF UM64!Next

\* A load that does not fit ends the process, and the program sees nothing of it.
LEMMA ReloadStep ==
    ASSUME JitInv, Unwritten, Unchanged, load_program
    PROVE  UM64!Next \/ UNCHANGED UM64!vars
<1>1. /\ UM64!B = B /\ UM64!C = C /\ UM64!Operator(opcode(word))
      /\ Regs64 = UMRegisters(cpu) /\ ~halted
  BY SameFetch DEF load_program, function, Runs
<1>2. PICK id, n, k : id = B /\ n = regions + 1 /\ k = C
  OBVIOUS
<1>3. /\ opcode(word) = 12 /\ k \in U32 /\ UNCHANGED <<out, halted, left>>
      /\ id \in mapped /\ LoadSegment(id) /\ aborted' \in BOOLEAN
      /\ aborted' => UNCHANGED <<cpu, rip, code, regions>>
      /\ ~aborted' => /\ Enters(cpu, cpu', n, k) /\ rip' = cpu'.reg[rax]
                      /\ regions' = n
  BY <1>2, ReloadDoes DEF LoadSegment, SizeOf
<1>4. HeapInv
  BY DEF JitInv
<1>5. id \in DOMAIN Memory /\ IF aborted' THEN UNCHANGED Memory ELSE UM!LoadSegment(id)
  BY <1>3, <1>4, LoadMemory
<1>6. CASE aborted'
  BY <1>3, <1>5, <1>6 DEF UM64!vars, Memory, pc
<1>7. CASE ~aborted'
  <2>1. /\ UMRegisters(cpu') = UMRegisters(cpu) /\ rip' = Region(n) + CHUNK * k
        /\ regions' = n
    BY <1>3, <1>7 DEF Enters
  <2>2. n \in Nat
    <3>1. regions \in Nat
      BY X86JitAssumption DEF JitInv, JitTypeOK
    <3> QED
      BY <1>2, <3>1
  <2>3. pc' = k
    BY <1>3, <2>1, <2>2, FingerJumps
  <2>4. UM64!Memory!LoadSegment(UM64!B)
    BY <1>1, <1>2, <1>5, <1>7 DEF UM!LoadSegment, UM64!Memory!LoadSegment
  <2>5. Regs64' = Regs64
    BY <1>1, <1>3, <2>1 DEF Regs64
  <2>6. UM64!LoadProgram
    BY <1>1, <1>2, <1>3, <1>5, <2>3, <2>4, <2>5 DEF UM64!LoadProgram, Memory, Regs64
  <2> QED
    BY <2>6 DEF UM64!Next
<1> QED
  BY <1>6, <1>7

LEMMA HaltStep ==
    ASSUME JitInv, Unchanged, halt
    PROVE  UM64!Next
<1>1. UM64!Operator(opcode(word)) /\ Regs64 = UMRegisters(cpu)
  BY SameFetch DEF halt, function
<1>2. /\ opcode(word) = 7 /\ halted' = TRUE /\ left' = UMRegisters(cpu)
      /\ UNCHANGED <<vars, rip, code, regions, out>>
  BY HaltDoes
<1>3. Memory' = Memory
  BY <1>2, MemoryUnchanged DEF vars
<1>4. Regs64' = Regs64 /\ pc' = pc
  BY <1>1, <1>2 DEF Regs64, pc
<1>5. UM64!Halt
  BY <1>1, <1>2, <1>3, <1>4 DEF UM64!Halt, Memory, Regs64
<1> QED
  BY <1>5 DEF UM64!Next

\* Compiled code is a UM, as long as it runs no word that it has stored itself:
\* what the chunks and the handler do to its registers, its segments, its finger
\* and the console is what the UM would have done by decoding each word afresh.
THEOREM CompiledIsUM == JitSpec => ImplementsUMachine
<1>1. JitInit => UM64!Init
  <2> SUFFICES ASSUME JitInit PROVE UM64!Init
    OBVIOUS
  <2>1. UM!Init
    BY InitMemory DEF JitInit
  <2>2. Value \cup {0} = U32
    <3>1. 0 \in U32
      BY Virt32Assumption DEF U32, BOOK_SIZE
    <3> QED
      BY <3>1, X86JitAssumption
  <2>3. UM64!Memory!Init
    BY <2>1, <2>2 DEF UM!Init, UM64!Memory!Init
  <2>4. cpu = started /\ rip = started.reg[rax] /\ regions = 1 /\ out = <<>> /\ halted = FALSE
    BY DEF JitInit
  <2>5. \A r \in Reg : started.reg[R(r)] = 0
    BY Starting
  <2>6. Regs64 = [r \in Reg |-> 0]
    BY <2>4, <2>5 DEF Regs64, UMRegisters
  <2>7. pc = 0
    <3>1. rip = Region(1) /\ Region(1) \in Nat
      BY <2>4, Starting, RegionNat
    <3> QED
      BY <2>4, <3>1 DEF pc, CHUNK
  <2> QED
    BY <2>3, <2>4, <2>6, <2>7, SameDecoding DEF UM64!Init, Regs64
<1>2. ASSUME JitInv, Unwritten, JitNext PROVE UM64!Next \/ UNCHANGED UM64!vars
  BY <1>2, StraightStep, StoreStep, MapStep, UnmapStep, ConsoleStep, JumpStep, ReloadStep,
     HaltStep DEF JitNext, JitStep
<1>3. UNCHANGED <<vars, jit>> => UNCHANGED UM64!vars
  BY MemoryUnchanged DEF vars, jit, UM64!vars, Memory, pc
<1>4. JitInv /\ Unwritten /\ [JitNext]_<<vars, jit>> => [UM64!Next]_UM64!vars
  BY <1>2, <1>3
<1>5. JitSpec => []Unwritten
  BY CompiledUsesVirt32, UncarvedIsZero, PTL
<1> QED
  BY <1>1, <1>4, <1>5, JitInvariant, PTL DEF JitSpec, UM64!Spec, ImplementsUMachine
=============================================================================
