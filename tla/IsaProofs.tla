------------------------------ MODULE IsaProofs ------------------------------
(***************************************************************************)
(* Decoding undoes encoding, whatever the widths of the fields.             *)
(***************************************************************************)
EXTENDS Isa, TLAPS

\* A quotient and a remainder are unique.
LEMMA Positional ==
    ASSUME NEW q \in Nat, NEW d \in Nat \ {0}, NEW r \in 0..d - 1
    PROVE  (q * d + r) \div d = q /\ (q * d + r) % d = r
OBVIOUS

LEMMA DivMod ==
    ASSUME NEW x \in Nat, NEW d \in Nat \ {0}
    PROVE  /\ x \div d \in Nat /\ x % d \in 0..d - 1
           /\ x = (x \div d) * d + (x % d)
OBVIOUS

LEMMA DivDiv ==
    ASSUME NEW x \in Nat, NEW d \in Nat \ {0}, NEW e \in Nat \ {0}
    PROVE  x \div (d * e) = (x \div d) \div e
OBVIOUS

\* Whatever the word, its fields name registers, and the value it can load is
\* below the weight of an opcode.
LEMMA FieldsInRange ==
    ASSUME NEW w \in Nat
    PROVE  /\ reg_a(w) \in Reg /\ reg_b(w) \in Reg /\ reg_c(w) \in Reg
           /\ lv_reg(w) \in Reg /\ lv_val(w) \in 0..OP_UNIT - 1 /\ OP_UNIT \in Nat
<1>1. PICK n \in Nat \ {0}, v \in Nat \ {0} : n = NREGS /\ v = LV_UNIT
  BY IsaAssumption
<1>2. n * n \in Nat \ {0} /\ v <= n * v /\ n * v \in Nat
  BY <1>1
<1>3. /\ w \div n \in Nat /\ w \div v \in Nat
      /\ w % n \in 0..n - 1 /\ (w \div n) % n \in 0..n - 1 /\ (w \div v) % n \in 0..n - 1
      /\ w % v \in 0..v - 1
  BY <1>1, DivMod
<1>4. w \div (n * n) \in Nat
  BY <1>2, DivMod
<1>5. (w \div (n * n)) % n \in 0..n - 1
  BY <1>1, <1>4, DivMod
<1>6. OP_UNIT = n * v
  BY <1>1, IsaAssumption
<1>7. lv_val(w) \in 0..OP_UNIT - 1
  BY <1>1, <1>2, <1>3, <1>6 DEF lv_val
<1> QED
  BY <1>1, <1>2, <1>3, <1>5, <1>6, <1>7 DEF reg_a, reg_b, reg_c, lv_reg, Reg

\* The fields that the runtimes extract from a word of three_reg are the ones it
\* was made of, whatever they are within the assembler's assertions.
THEOREM ThreeRegDecodes ==
    ASSUME NEW op \in 0..15, NEW a \in Reg, NEW b \in Reg, NEW c \in Reg
    PROVE  LET w == three_reg(op, a, b, c)
           IN  /\ w \in 0..16 * OP_UNIT - 1 /\ opcode(w) = op
               /\ reg_a(w) = a /\ reg_b(w) = b /\ reg_c(w) = c
<1> DEFINE w == three_reg(op, a, b, c)
           N == NREGS
<1>1. /\ N \in Nat \ {0} /\ LV_UNIT \in Nat \ {0} /\ N * N \in Nat \ {0}
      /\ op \in Nat /\ a \in 0..N - 1 /\ b \in 0..N - 1 /\ c \in 0..N - 1
  BY IsaAssumption DEF Reg
<1>2. PICK m \in Nat \ {0} : LV_UNIT = m * (N * N)
  <2>1. PICK d \in Nat \ {0} : d = N * N
    BY <1>1
  <2>2. LV_UNIT % d = 0
    BY <2>1, IsaAssumption
  <2>3. PICK q \in Nat : q = LV_UNIT \div d /\ LV_UNIT = q * d + (LV_UNIT % d)
    BY <1>1, DivMod
  <2>4. LV_UNIT = q * d
    BY <2>2, <2>3
  <2>5. q # 0
    BY <1>1, <2>4
  <2> QED
    BY <2>1, <2>4, <2>5
<1> HIDE DEF N
<1> DEFINE hi == op * m * N + a
           mid == hi * N + b
<1>3. hi \in Nat /\ mid \in Nat /\ op * m \in Nat
  BY <1>1, <1>2
<1>4. w = mid * N + c
  <2>1. OP_UNIT = N * (m * (N * N))
    BY <1>2, IsaAssumption DEF N
  <2>2. w = op * (N * (m * (N * N))) + a * N * N + b * N + c
    BY <2>1 DEF three_reg, N
  <2> QED
    BY <1>1, <1>2, <2>2
<1> HIDE DEF w
<1>5. w \in Nat
  BY <1>1, <1>3, <1>4
<1> HIDE DEF mid
<1>6. w \div N = mid /\ w % N = c
  BY <1>1, <1>3, <1>4, Positional
<1>7. mid \div N = hi /\ mid % N = b
  <2> HIDE DEF hi
  <2> QED
    BY <1>1, <1>3, Positional DEF mid
<1>8. hi \div N = op * m /\ hi % N = a
  BY <1>1, <1>3, Positional DEF hi
<1>9. w \div (N * N) = hi
  BY <1>1, <1>5, <1>6, <1>7, DivDiv
<1>10. opcode(w) = op
  <2>1. w \div (N * (N * N)) = (w \div N) \div (N * N)
    BY <1>1, <1>5, DivDiv
  <2>2. mid \div (N * N) = (mid \div N) \div N
    <3>1. N \in Nat \ {0} /\ mid \in Nat
      BY <1>1, <1>3
    <3> QED
      BY <3>1, DivDiv, Zenon
  <2>3. w \div (N * (N * N)) = op * m
    BY <1>6, <1>7, <1>8, <2>1, <2>2
  <2>4. PICK d \in Nat \ {0} : d = N * (N * N)
    BY <1>1
  <2>a. w \div (d * m) = (w \div d) \div m
    BY <1>2, <1>5, <2>4, DivDiv
  <2>5. w \div (d * m) = (op * m) \div m
    BY <2>3, <2>4, <2>a
  <2>6. (op * m + 0) \div m = op
    BY <1>1, <1>2, Positional
  <2>7. op * m + 0 = op * m
    BY <1>3
  <2>8. OP_UNIT = N * (m * (N * N)) /\ N * (m * (N * N)) = d * m
    BY <1>1, <1>2, <2>4, IsaAssumption DEF N
  <2> QED
    BY <2>5, <2>6, <2>7, <2>8 DEF opcode
<1>11. w < 16 * OP_UNIT
  <2>1. PICK u \in Nat \ {0} : u = OP_UNIT
    BY <1>1, IsaAssumption DEF N
  <2>a. w % u \in 0..u - 1 /\ w = (w \div u) * u + (w % u)
    BY <1>5, DivMod
  <2>2. PICK r \in 0..u - 1 : w = (w \div u) * u + r
    BY <2>a
  <2>3. w = op * u + r
    BY <1>10, <2>1, <2>2 DEF opcode
  <2>4. op * u <= 15 * u
    BY <1>1
  <2> QED
    BY <1>1, <2>1, <2>2, <2>3, <2>4
<1>12. w \in 0..16 * OP_UNIT - 1
  <2>1. 16 * OP_UNIT \in Int
    BY <1>1, IsaAssumption DEF N
  <2> QED
    BY <1>5, <1>11, <2>1
<1> QED
  BY <1>6, <1>7, <1>8, <1>9, <1>10, <1>12 DEF reg_a, reg_b, reg_c, N, w

\* A load-value word gives back its register and its value, as long as the value
\* fits its field (load_val asserts nothing about it).
THEOREM LoadValDecodes ==
    ASSUME NEW val \in 0..LV_UNIT - 1, NEW a \in Reg
    PROVE  LET w == load_val(val, a)
           IN  opcode(w) = 13 /\ lv_reg(w) = a /\ lv_val(w) = val
<1> DEFINE w == load_val(val, a)
           hi == 13 * NREGS + a
<1>1. NREGS \in Nat \ {0} /\ LV_UNIT \in Nat \ {0} /\ a \in 0..NREGS - 1
      /\ hi \in Nat /\ OP_UNIT = LV_UNIT * NREGS
  BY IsaAssumption DEF Reg
<1>2. w = hi * LV_UNIT + val
  BY <1>1 DEF load_val
<1>3. hi \div NREGS = 13 /\ hi % NREGS = a
  BY <1>1, Positional
<1> HIDE DEF hi, w
<1>4. w \div LV_UNIT = hi /\ w % LV_UNIT = val /\ w \in Nat
  BY <1>1, <1>2, Positional
<1>5. w \div OP_UNIT = 13
  BY <1>1, <1>3, <1>4, DivDiv
<1> QED
  BY <1>3, <1>4, <1>5 DEF opcode, lv_reg, lv_val, w

\* The loaders read back from a file the word that was written to it.
THEOREM BytesAssemble ==
    ASSUME NEW w \in Nat
    PROVE  assemble(Bytes(w)) = w
<1>1. BYTE \in Nat \ {0} /\ BYTE * BYTE \in Nat \ {0} /\ w \div BYTE \in Nat
      /\ (w \div BYTE) \div BYTE \in Nat
  BY IsaAssumption, DivMod
<1>2. w \div (BYTE * BYTE) = (w \div BYTE) \div BYTE
  BY <1>1, DivDiv
<1>3. w \div (BYTE * BYTE * BYTE) = ((w \div BYTE) \div BYTE) \div BYTE
  <2>1. PICK d \in Nat \ {0} : d = BYTE * BYTE
    BY <1>1
  <2>2. w \div (d * BYTE) = (w \div d) \div BYTE
    BY <1>1, DivDiv
  <2> QED
    BY <1>2, <2>1, <2>2
<1>4. /\ w = (w \div BYTE) * BYTE + (w % BYTE)
      /\ w \div BYTE = ((w \div BYTE) \div BYTE) * BYTE + ((w \div BYTE) % BYTE)
      /\ (w \div BYTE) \div BYTE
           = (((w \div BYTE) \div BYTE) \div BYTE) * BYTE + (((w \div BYTE) \div BYTE) % BYTE)
  BY <1>1, DivMod
<1>5. /\ w % BYTE \in Nat /\ (w \div BYTE) % BYTE \in Nat
      /\ ((w \div BYTE) \div BYTE) % BYTE \in Nat /\ ((w \div BYTE) \div BYTE) \div BYTE \in Nat
  BY <1>1, DivMod
<1>6. ASSUME NEW q3 \in Nat, NEW r2 \in Nat, NEW r1 \in Nat, NEW r0 \in Nat
      PROVE  q3 * BYTE * BYTE * BYTE + r2 * BYTE * BYTE + r1 * BYTE + r0
               = ((q3 * BYTE + r2) * BYTE + r1) * BYTE + r0
  BY <1>1
<1> QED
  BY <1>2, <1>3, <1>4, <1>5, <1>6 DEF Bytes, assemble
=============================================================================
