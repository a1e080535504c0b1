---------------------------- MODULE OptJitProofs ----------------------------
(***************************************************************************)
(* The LLVM JIT: the function that the Compiler builds verifies, whatever   *)
(* the program, the compiled function never leaves its blocks, and it is a  *)
(* UM for what the compiler has finished.                                   *)
(*                                                                          *)
(* The proof says what the compiler has written in every block after each   *)
(* word (Compiling) and in the end (Complete).  The entry block is treated  *)
(* as that of word number -1 throughout, for Entry = -1 and its text ends   *)
(* with a branch to the word behind.  Once the function runs, Place tells   *)
(* an instruction from where it stands, and the heap consists of empty      *)
(* segments (EmptyHeap).                                                    *)
(***************************************************************************)
EXTENDS OptJit, Virt32Proofs, IsaProofs

-----------------------------------------------------------------------------
\* What the compiler writes.

Fn(g, h) == [blocks |-> g, here |-> h]

Prologue == [i \in 1..NREGS |-> setRegisterValues(i - 1, 0)] \o <<Ir("first", 0, 0, 0)>>

\* The IR of word i without its end, and the block that follows it.
Text(p, i) == IF i = Entry THEN Prologue ELSE Straight(p[i + 1])
Behind(p, i) == IF i + 1 < Len(p) THEN i + 1 ELSE Halt

Operates(p, i, op) == i \in 0..Len(p) - 1 /\ opcode(p[i + 1]) = op
Leaps(p, i) == Operates(p, i, 7) \/ Operates(p, i, 12)

Body(p, i) ==
    CASE Operates(p, i, 7) -> <<Br(Halt)>>
      [] Operates(p, i, 12) -> <<targetIndex(reg_c(p[i + 1])), Br(Dispatch)>>
      [] OTHER -> Text(p, i) \o <<Br(Behind(p, i))>>

\* The block of word i when k words are compiled.
Part(p, k, i) ==
    IF k <= i THEN <<>>
    ELSE IF i = Len(p) - 1 /\ ~Leaps(p, i) THEN Text(p, i) ELSE Body(p, i)

Blocks(p) == -1..Len(p) - 1
Others(g, p) ==
    /\ DOMAIN g \subseteq Blocks(p) \cup {Halt, Dispatch}
    /\ Halt \in DOMAIN g => g[Halt] = <<Ret>>
    /\ Dispatch \in DOMAIN g => g[Dispatch] = <<Switch>> /\ Len(p) > 0
Compiling(g, p, k) ==
    /\ Blocks(p) \subseteq DOMAIN g /\ Others(g, p)
    /\ \A i \in Blocks(p) : g[i] = Part(p, k, i)
    /\ \A i \in 0..k - 1 : /\ Operates(p, i, 7) => Halt \in DOMAIN g
                           /\ Operates(p, i, 12) => Dispatch \in DOMAIN g
Complete(g, p) ==
    /\ Blocks(p) \cup {Halt} \subseteq DOMAIN g /\ Others(g, p)
    /\ \A i \in Blocks(p) : g[i] = Body(p, i)
    /\ \A i \in 0..Len(p) - 1 : Operates(p, i, 12) => Dispatch \in DOMAIN g

-----------------------------------------------------------------------------
\* IR instructions and sequences of them.

LEMMA IrFields ==
    ASSUME NEW name, NEW a, NEW b, NEW c
    PROVE  /\ Ir(name, a, b, c).op = name /\ Ir(name, a, b, c).a = a
           /\ Ir(name, a, b, c).b = b /\ Ir(name, a, b, c).c = c
BY DEF Ir

LEMMA Terminators ==
    /\ \A x : IsTerminator(Br(x)) /\ Br(x).op = "br" /\ Br(x).a = x
    /\ IsTerminator(Switch) /\ Switch.op = "switch"
    /\ IsTerminator(Ret) /\ Ret.op = "ret"
    /\ \A name, a, b, c : name \notin {"br", "switch", "ret"} => ~IsTerminator(Ir(name, a, b, c))
BY IrFields DEF IsTerminator, Br, Switch, Ret

LEMMA SameSequence ==
    ASSUME NEW S, NEW s \in Seq(S), NEW T, NEW t \in Seq(T), Len(s) = Len(t),
           \A i \in 1..Len(s) : s[i] = t[i]
    PROVE  s = t
OBVIOUS

\* One instruction more at the end.
LEMMA AtEnd ==
    ASSUME NEW S, NEW t \in Seq(S), NEW o \in S
    PROVE  /\ t \o <<o>> \in Seq(S) /\ DOMAIN (t \o <<o>>) = 1..Len(t) + 1
           /\ Len(t \o <<o>>) = Len(t) + 1 /\ Len(t) \in Nat
           /\ \A i \in 1..Len(t) : (t \o <<o>>)[i] = t[i]
           /\ (t \o <<o>>)[Len(t) + 1] = o
OBVIOUS

LEMMA Empties ==
    ASSUME NEW S, NEW t \in Seq(S)
    PROVE  <<>> \o t = t /\ t \o <<>> = t
<1>1. /\ <<>> \in Seq(S) /\ Len(<<>>) = 0 /\ Len(t) \in Nat
      /\ <<>> \o t \in Seq(S) /\ t \o <<>> \in Seq(S)
  OBVIOUS
<1>2. Len(<<>> \o t) = Len(t) /\ \A i \in 1..Len(t) : (<<>> \o t)[i] = t[i]
  BY <1>1
<1>3. Len(t \o <<>>) = Len(t) /\ \A i \in 1..Len(t) : (t \o <<>>)[i] = t[i]
  BY <1>1
<1> QED
  BY <1>1, <1>2, <1>3, SameSequence

LEMMA Joins ==
    ASSUME NEW o, NEW q
    PROVE  <<o>> \o <<q>> = <<o, q>>
<1>1. PICK S : o \in S /\ q \in S
  <2> WITNESS {o, q}
  <2> QED
    OBVIOUS
<1>2. <<o>> \in Seq(S) /\ <<o, q>> \in Seq(S) /\ Len(<<o>>) = 1 /\ Len(<<o, q>>) = 2
  BY <1>1
<1>3. /\ <<o>> \o <<q>> \in Seq(S) /\ Len(<<o>> \o <<q>>) = 2
      /\ (<<o>> \o <<q>>)[1] = o /\ (<<o>> \o <<q>>)[2] = q
  BY <1>1, <1>2, AtEnd
<1>4. \A i \in 1..2 : (<<o>> \o <<q>>)[i] = <<o, q>>[i]
  BY <1>3
<1> QED
  BY <1>2, <1>3, <1>4, SameSequence

PrologueCode(i) == IF i <= NREGS THEN setRegisterValues(i - 1, 0) ELSE Ir("first", 0, 0, 0)

LEMMA PrologueIs ==
    \E S : /\ Prologue \in Seq(S) /\ Len(Prologue) = NREGS + 1 /\ NREGS \in Nat
          /\ \A i \in 1..NREGS + 1 : Prologue[i] = PrologueCode(i)
<1> DEFINE S == {PrologueCode(i) : i \in 1..NREGS + 1}
<1>1. NREGS \in Nat
  BY IsaAssumption
<1>2. PICK z : z = [i \in 1..NREGS |-> setRegisterValues(i - 1, 0)]
  OBVIOUS
<1>3. \A i \in 1..NREGS : z[i] = PrologueCode(i) /\ z[i] \in S
  BY <1>1, <1>2 DEF PrologueCode
<1>4. z \in Seq(S) /\ Len(z) = NREGS
  BY <1>1, <1>2, <1>3
<1>5. PICK o : o = PrologueCode(NREGS + 1)
  OBVIOUS
<1>6. o \in S /\ o = Ir("first", 0, 0, 0)
  BY <1>1, <1>5 DEF PrologueCode
<1>7. PICK t : t = z \o <<o>>
  OBVIOUS
<1>8. t = Prologue
  BY <1>2, <1>6, <1>7 DEF Prologue
<1> HIDE DEF S
<1>9. /\ t \in Seq(S) /\ Len(t) = NREGS + 1
      /\ \A i \in 1..NREGS : t[i] = z[i]
      /\ t[NREGS + 1] = o
  BY <1>4, <1>6, <1>7, AtEnd
<1> QED
  BY <1>1, <1>3, <1>5, <1>8, <1>9

\* What a word without a jump emits.
LEMMA StraightIs ==
    ASSUME NEW w
    PROVE  \/ Straight(w) = <<>>
           \/ \E o : Straight(w) = <<o>> /\ ~IsTerminator(o)
BY Terminators, SMTT(20) DEF Straight, setRegisterValues, conditionalMove, compileLoad, compileStore,
   compileAddition, compileMul, compileDiv, compileNand, compileMap, compileUnmap,
   printRegister, readIntoRegister

\* The block of word i ends in a branch, to a place that word allows, and has no
\* other terminator.
Target(p, i, x) ==
    \/ x = Behind(p, i)
    \/ Operates(p, i, 7) /\ x = Halt
    \/ Operates(p, i, 12) /\ x = Dispatch
Closed(s, x) ==
    \E n \in Nat : /\ DOMAIN s = 1..n + 1 /\ Len(s) = n + 1 /\ s[n + 1] = Br(x)
                   /\ \A i \in 1..n : ~IsTerminator(s[i])

\* Code without a terminator.
Open(s) == \E S : s \in Seq(S) /\ \A i \in 1..Len(s) : ~IsTerminator(s[i])

LEMMA CloseOpen ==
    ASSUME NEW s, Open(s), NEW x
    PROVE  Closed(s \o <<Br(x)>>, x)
<1>1. PICK S : s \in Seq(S) /\ \A i \in 1..Len(s) : ~IsTerminator(s[i])
  BY DEF Open
<1>2. PICK T : S \subseteq T /\ Br(x) \in T
  <2> WITNESS S \cup {Br(x)}
  <2> QED
    OBVIOUS
<1>3. s \in Seq(T)
  BY <1>1, <1>2
<1>4. PICK o : o = Br(x)
  OBVIOUS
<1>5. /\ DOMAIN (s \o <<o>>) = 1..Len(s) + 1
      /\ Len(s \o <<o>>) = Len(s) + 1 /\ Len(s) \in Nat
      /\ \A i \in 1..Len(s) : (s \o <<o>>)[i] = s[i]
      /\ (s \o <<o>>)[Len(s) + 1] = o
  BY <1>2, <1>3, <1>4, AtEnd
<1>6. \A i \in 1..Len(s) : ~IsTerminator((s \o <<o>>)[i])
  BY <1>1, <1>5
<1>7. Closed(s \o <<o>>, x)
  BY <1>4, <1>5, <1>6 DEF Closed
<1> QED
  BY <1>4, <1>7

LEMMA SingleOpen == ASSUME NEW o, ~IsTerminator(o) PROVE Open(<<o>>)
<1>1. PICK t : t = <<o>>
  OBVIOUS
<1>2. t \in Seq({o}) /\ Len(t) = 1 /\ t[1] = o
  BY <1>1
<1>3. \A i \in 1..Len(t) : ~IsTerminator(t[i])
  BY <1>2
<1>4. Open(t)
  BY <1>2, <1>3 DEF Open
<1> QED
  BY <1>1, <1>4

LEMMA EmptyOpen == Open(<<>>)
<1>1. <<>> \in Seq({}) /\ Len(<<>>) = 0
  OBVIOUS
<1> QED
  BY <1>1 DEF Open

LEMMA TextOpen == ASSUME NEW p, NEW i PROVE Open(Text(p, i))
<1>1. CASE i = Entry
  <2>1. PICK S : /\ Prologue \in Seq(S) /\ Len(Prologue) = NREGS + 1 /\ NREGS \in Nat
                 /\ \A j \in 1..NREGS + 1 : Prologue[j] = PrologueCode(j)
    BY PrologueIs
  <2>2. \A j : ~IsTerminator(PrologueCode(j))
    BY Terminators DEF PrologueCode, setRegisterValues
  <2>3. Open(Prologue)
    BY <2>1, <2>2 DEF Open
  <2> QED
    BY <1>1, <2>3 DEF Text
<1>2. CASE i # Entry
  <2>1. Open(Straight(p[i + 1]))
    BY StraightIs, SingleOpen, EmptyOpen
  <2> QED
    BY <1>2, <2>1 DEF Text
<1> QED
  BY <1>1, <1>2

LEMMA BodyCloses ==
    ASSUME NEW p, NEW i \in Blocks(p)
    PROVE  \E x : Closed(Body(p, i), x) /\ Target(p, i, x)
<1>1. CASE Operates(p, i, 7)
  <2>1. DOMAIN <<Br(Halt)>> = 1..0 + 1 /\ Len(<<Br(Halt)>>) = 0 + 1 /\ <<Br(Halt)>>[0 + 1] = Br(Halt)
    OBVIOUS
  <2>2. Closed(<<Br(Halt)>>, Halt)
    BY <2>1 DEF Closed
  <2>3. ~Operates(p, i, 12)
    BY <1>1 DEF Operates
  <2> QED
    BY <1>1, <2>2, <2>3 DEF Body, Target
<1>2. CASE Operates(p, i, 12) /\ ~Operates(p, i, 7)
  <2>1. PICK o, q : o = targetIndex(reg_c(p[i + 1])) /\ q = Br(Dispatch)
    OBVIOUS
  <2>2. ~IsTerminator(o)
    BY <2>1, Terminators DEF targetIndex
  <2>3. DOMAIN <<o, q>> = 1..1 + 1 /\ Len(<<o, q>>) = 1 + 1 /\ <<o, q>>[1 + 1] = q /\ <<o, q>>[1] = o
    OBVIOUS
  <2>4. Closed(<<o, q>>, Dispatch)
    BY <2>1, <2>2, <2>3 DEF Closed
  <2> QED
    BY <1>2, <2>1, <2>4 DEF Body, Target
<1>3. CASE ~Leaps(p, i)
  <2>1. Closed(Text(p, i) \o <<Br(Behind(p, i))>>, Behind(p, i))
    BY TextOpen, CloseOpen
  <2> QED
    BY <1>3, <2>1 DEF Body, Target, Leaps
<1> QED
  BY <1>1, <1>2, <1>3 DEF Leaps

\* A complete function verifies.
LEMMA CompleteVerifies ==
    ASSUME NEW p, Len(p) \in Nat, NEW g, NEW h, Complete(g, p)
    PROVE  WellFormed(Fn(g, h))
<1>1. Fn(g, h).blocks = g
  BY DEF Fn
<1>2. ASSUME NEW l \in DOMAIN g
      PROVE  /\ Ended(g[l])
             /\ \A j \in DOMAIN g[l] :
                   /\ IsTerminator(g[l][j]) => j = Len(g[l])
                   /\ g[l][j].op = "br" => g[l][j].a \in DOMAIN g
  <2>1. CASE l \in Blocks(p)
    <3>1. PICK x : Closed(g[l], x) /\ Target(p, l, x)
      BY <2>1, BodyCloses DEF Complete
    <3>2. PICK n \in Nat : /\ DOMAIN g[l] = 1..n + 1 /\ Len(g[l]) = n + 1 /\ g[l][n + 1] = Br(x)
                           /\ \A j \in 1..n : ~IsTerminator(g[l][j])
      BY <3>1 DEF Closed
    <3>3. x \in DOMAIN g
      BY <2>1, <3>1 DEF Target, Behind, Operates, Complete, Blocks
    <3>4. Ended(g[l])
      BY <3>2, Terminators DEF Ended
    <3>5. \A o : o.op = "br" => IsTerminator(o)
      BY DEF IsTerminator
    <3> QED
      BY <3>2, <3>3, <3>4, <3>5, Terminators
  <2>2. CASE l = Halt
    <3>1. PICK o : o = Ret
      OBVIOUS
    <3>2. g[l] = <<o>> /\ IsTerminator(o) /\ o.op = "ret"
      BY <1>2, <2>2, <3>1, Terminators DEF Complete, Others
    <3>3. DOMAIN <<o>> = 1..1 /\ Len(<<o>>) = 1 /\ <<o>>[1] = o /\ <<o>> # <<>>
      OBVIOUS
    <3> QED
      BY <3>2, <3>3 DEF Ended
  <2>3. CASE l = Dispatch
    <3>1. PICK o : o = Switch
      OBVIOUS
    <3>2. g[l] = <<o>> /\ IsTerminator(o) /\ o.op = "switch"
      BY <1>2, <2>3, <3>1, Terminators DEF Complete, Others
    <3>3. DOMAIN <<o>> = 1..1 /\ Len(<<o>>) = 1 /\ <<o>>[1] = o /\ <<o>> # <<>>
      OBVIOUS
    <3> QED
      BY <3>2, <3>3 DEF Ended
  <2> QED
    BY <1>2, <2>1, <2>2, <2>3 DEF Complete, Others
<1> QED
  BY <1>1, <1>2 DEF WellFormed, Has

-----------------------------------------------------------------------------
\* The emitters, on a function of blocks g with h inserted into.

Written(g, h, code) == [g EXCEPT ![h] = g[h] \o code]
Adding(g, l, o) ==
    IF l \in DOMAIN g THEN g
    ELSE [m \in DOMAIN g \cup {l} |-> IF m = l THEN <<o>> ELSE g[m]]

LEMMA InsertFn ==
    ASSUME NEW g, NEW h, NEW code
    PROVE  Insert(Fn(g, h), code) = Fn(Written(g, h, code), h)
<1>1. PICK f : f = [blocks |-> g, here |-> h]
  OBVIOUS
<1>2. f.blocks = g /\ f.here = h
  BY <1>1
<1>3. PICK w : w = [g EXCEPT ![h] = g[h] \o code]
  OBVIOUS
<1>4. Insert(f, code) = [f EXCEPT !.blocks = w]
  BY <1>2, <1>3 DEF Insert
<1>5. [f EXCEPT !.blocks = w] = [blocks |-> w, here |-> h]
  BY <1>1
<1> QED
  BY <1>1, <1>3, <1>4, <1>5 DEF Fn, Written

LEMMA HasFn == ASSUME NEW g, NEW h, NEW l PROVE Has(Fn(g, h), l) <=> l \in DOMAIN g
BY DEF Has, Fn

LEMMA WithHalt ==
    ASSUME NEW g, NEW h
    PROVE  (IF Has(Fn(g, h), Halt) THEN Fn(g, h) ELSE createHaltBlock(Fn(g, h)))
               = Fn(Adding(g, Halt, Ret), h)
BY HasFn DEF createHaltBlock, WithBlock, Fn, Adding

LEMMA WithDispatch ==
    ASSUME NEW g, NEW h
    PROVE  (IF Has(Fn(g, h), Dispatch) THEN Fn(g, h) ELSE createDispatchBlock(Fn(g, h)))
               = Fn(Adding(g, Dispatch, Switch), h)
BY HasFn DEF createDispatchBlock, WithBlock, Fn, Adding

LEMMA AddingKeeps ==
    ASSUME NEW p, Len(p) \in Nat, NEW k \in 0..Len(p), NEW g, Compiling(g, p, k)
    PROVE  /\ Compiling(Adding(g, Halt, Ret), p, k) /\ Halt \in DOMAIN Adding(g, Halt, Ret)
           /\ Len(p) > 0 => /\ Compiling(Adding(g, Dispatch, Switch), p, k)
                            /\ Dispatch \in DOMAIN Adding(g, Dispatch, Switch)
<1>1. Halt \notin Blocks(p) /\ Dispatch \notin Blocks(p) /\ Halt # Dispatch
  BY DEF Halt, Dispatch, Blocks
<1>2. ASSUME NEW l \in {Halt, Dispatch}, NEW o, l \notin DOMAIN g
      PROVE  /\ DOMAIN Adding(g, l, o) = DOMAIN g \cup {l} /\ Adding(g, l, o)[l] = <<o>>
             /\ \A m \in DOMAIN g : m # l => Adding(g, l, o)[m] = g[m]
  BY <1>2 DEF Adding
<1>3. ASSUME Halt \notin DOMAIN g
      PROVE  Compiling(Adding(g, Halt, Ret), p, k) /\ Halt \in DOMAIN Adding(g, Halt, Ret)
  <2>1. /\ DOMAIN Adding(g, Halt, Ret) = DOMAIN g \cup {Halt}
        /\ Adding(g, Halt, Ret)[Halt] = <<Ret>>
        /\ \A m \in DOMAIN g : m # Halt => Adding(g, Halt, Ret)[m] = g[m]
    BY <1>2, <1>3
  <2> QED
    BY <1>1, <2>1 DEF Compiling, Others
<1>4. ASSUME Dispatch \notin DOMAIN g, Len(p) > 0
      PROVE  /\ Compiling(Adding(g, Dispatch, Switch), p, k)
             /\ Dispatch \in DOMAIN Adding(g, Dispatch, Switch)
  <2>1. /\ DOMAIN Adding(g, Dispatch, Switch) = DOMAIN g \cup {Dispatch}
        /\ Adding(g, Dispatch, Switch)[Dispatch] = <<Switch>>
        /\ \A m \in DOMAIN g : m # Dispatch => Adding(g, Dispatch, Switch)[m] = g[m]
    BY <1>2, <1>4
  <2> QED
    BY <1>1, <1>4, <2>1 DEF Compiling, Others
<1>5. Halt \in DOMAIN g => Adding(g, Halt, Ret) = g
  BY DEF Adding
<1>6. Dispatch \in DOMAIN g => Adding(g, Dispatch, Switch) = g
  BY DEF Adding
<1> QED
  BY <1>3, <1>4, <1>5, <1>6

LEMMA Overwrite ==
    ASSUME NEW g, NEW k, NEW c, NEW d
    PROVE  [[g EXCEPT ![k] = c] EXCEPT ![k] = d] = [g EXCEPT ![k] = d]
OBVIOUS

Put(g, k, c) == [g EXCEPT ![k] = c]

LEMMA AddingBehind ==
    ASSUME NEW g, NEW k \in DOMAIN g, NEW l, l # k, NEW o, NEW c
    PROVE  Adding(Put(g, k, c), l, o) = Put(Adding(g, l, o), k, c)
<1>1. PICK e : e = Put(g, k, c) /\ e = [g EXCEPT ![k] = c]
  BY DEF Put
<1>2. CASE l \in DOMAIN g
  <2>1. Adding(e, l, o) = e /\ Adding(g, l, o) = g
    BY <1>1, <1>2 DEF Adding
  <2> QED
    BY <1>1, <2>1
<1>3. CASE l \notin DOMAIN g
  <2>1. PICK a : a = [m \in DOMAIN g \cup {l} |-> IF m = l THEN <<o>> ELSE g[m]]
    OBVIOUS
  <2>2. Adding(g, l, o) = a /\ k \in DOMAIN a /\ a[k] = g[k]
    BY <1>3, <2>1 DEF Adding
  <2>4. Adding(e, l, o) = [m \in DOMAIN g \cup {l} |-> IF m = l THEN <<o>> ELSE e[m]]
    BY <1>1, <1>3 DEF Adding
  <2>5. [a EXCEPT ![k] = c] = [m \in DOMAIN g \cup {l} |-> IF m = l THEN <<o>> ELSE e[m]]
    BY <1>1, <2>1
  <2> QED
    BY <1>1, <2>2, <2>4, <2>5 DEF Put
<1> QED
  BY <1>2, <1>3

\* The block of word k is written, and nothing else.
LEMMA BlockWritten ==
    ASSUME NEW p, Len(p) \in Nat, NEW k \in 0..Len(p) - 1, NEW g, Compiling(g, p, k),
           Operates(p, k, 7) => Halt \in DOMAIN g,
           Operates(p, k, 12) => Dispatch \in DOMAIN g
    PROVE  Compiling([g EXCEPT ![k] = Part(p, k + 1, k)], p, k + 1)
<1>1. PICK e, c : e = [g EXCEPT ![k] = c] /\ c = Part(p, k + 1, k)
  OBVIOUS
<1>2. k \in Blocks(p) /\ k # Halt /\ k # Dispatch
  BY DEF Blocks, Halt, Dispatch
<1>3. DOMAIN e = DOMAIN g /\ e[k] = c /\ \A i \in DOMAIN g : i # k => e[i] = g[i]
  BY <1>1, <1>2 DEF Compiling
<1>4. Others(e, p)
  BY <1>2, <1>3 DEF Compiling, Others
<1>5. \A i \in Blocks(p) : i # k => Part(p, k + 1, i) = Part(p, k, i)
  BY DEF Part, Blocks
<1>6. \A i \in Blocks(p) : e[i] = Part(p, k + 1, i)
  BY <1>1, <1>3, <1>5 DEF Compiling
<1>7. \A i \in 0..(k + 1) - 1 : /\ Operates(p, i, 7) => Halt \in DOMAIN e
                                /\ Operates(p, i, 12) => Dispatch \in DOMAIN e
  BY <1>3 DEF Compiling
<1>8. Compiling(e, p, k + 1)
  BY <1>3, <1>4, <1>6, <1>7 DEF Compiling
<1> QED
  BY <1>1, <1>8

\* What follows the code of a word: the builder f has k words behind it.
Advanced(f, p, k) == \E g : f = Fn(g, k - 1) /\ Compiling(g, p, k)

\* The block of a word is empty until its turn.
LEMMA BlockAhead ==
    ASSUME NEW p, Len(p) \in Nat, NEW k \in 0..Len(p) - 1, NEW g, Compiling(g, p, k)
    PROVE  /\ k \in DOMAIN g /\ g[k] = <<>> /\ k # Halt /\ k # Dispatch /\ k \in Blocks(p)
           /\ k + 1 \in DOMAIN g <=> k < Len(p) - 1
BY DEF Compiling, Others, Part, Blocks, Halt, Dispatch

LEMMA HaltWritten ==
    ASSUME NEW p, Len(p) \in Nat, NEW k \in 0..Len(p) - 1, NEW g, Compiling(g, p, k),
           Operates(p, k, 7)
    PROVE  Advanced(jumpToHalt(Fn(g, k)), p, k + 1)
<1>1. PICK a : a = Adding(g, Halt, Ret)
  OBVIOUS
<1>2. Compiling(a, p, k) /\ Halt \in DOMAIN a
  BY <1>1, AddingKeeps
<1>3. a[k] = <<>> /\ k \in Blocks(p)
  BY <1>2, BlockAhead
<1>4. PICK code : code = <<Br(Halt)>>
  OBVIOUS
<1>5. jumpToHalt(Fn(g, k)) = Fn(Written(a, k, code), k)
  BY <1>1, <1>4, WithHalt, InsertFn DEF jumpToHalt
<1>6. code \in Seq({Br(Halt)})
  BY <1>4
<1>7. Written(a, k, code) = [a EXCEPT ![k] = code]
  BY <1>3, <1>6, Empties DEF Written
<1>8. Part(p, k + 1, k) = code
  BY <1>3, <1>4 DEF Part, Body, Leaps, Operates
<1>9. ~Operates(p, k, 12)
  BY DEF Operates
<1>10. Compiling([a EXCEPT ![k] = code], p, k + 1)
  BY <1>2, <1>8, <1>9, BlockWritten
<1> QED
  BY <1>5, <1>7, <1>10 DEF Advanced

LEMMA LoadWritten ==
    ASSUME NEW p, Len(p) \in Nat, NEW k \in 0..Len(p) - 1, NEW g, Compiling(g, p, k),
           Operates(p, k, 12)
    PROVE  Advanced(compileLoadProgram(Fn(g, k), reg_c(p[k + 1])), p, k + 1)
<1>1. PICK a : a = Adding(g, Dispatch, Switch)
  OBVIOUS
<1>2. Compiling(a, p, k) /\ Dispatch \in DOMAIN a
  BY <1>1, AddingKeeps
<1>3. k \in DOMAIN g /\ g[k] = <<>> /\ k # Dispatch
  BY BlockAhead
<1>4. PICK o, q : o = targetIndex(reg_c(p[k + 1])) /\ q = Br(Dispatch)
  OBVIOUS
<1>5. <<o>> \in Seq({o})
  OBVIOUS
<1>6. Written(g, k, <<o>>) = [g EXCEPT ![k] = <<o>>]
  BY <1>3, <1>5, Empties DEF Written
<1>7. PICK e, c : e = [g EXCEPT ![k] = c] /\ c = <<o>>
  OBVIOUS
<1>8. Adding(e, Dispatch, Switch) = [a EXCEPT ![k] = c] /\ k \in DOMAIN a
  <2>1. k \in DOMAIN a
    BY <1>1, <1>3 DEF Adding
  <2>2. PICK l, i : l = Dispatch /\ i = Switch
    OBVIOUS
  <2>3. k \in DOMAIN g /\ l # k
    BY <1>3, <2>2
  <2>4. Adding(Put(g, k, c), l, i) = Put(Adding(g, l, i), k, c)
    BY <2>3, AddingBehind
  <2> QED
    BY <1>1, <1>7, <2>1, <2>2, <2>4 DEF Put
<1>9. PICK d : d = [a EXCEPT ![k] = c]
  OBVIOUS
<1>10. d[k] = <<o>>
  BY <1>7, <1>8, <1>9
<1>11. Written(d, k, <<q>>) = [a EXCEPT ![k] = <<o, q>>]
  <2>1. Written(d, k, <<q>>) = [d EXCEPT ![k] = <<o, q>>]
    BY <1>10, Joins DEF Written
  <2> QED
    BY <1>3, <1>8, <1>9, <2>1, Overwrite
<1>12. compileLoadProgram(Fn(g, k), reg_c(p[k + 1])) = Fn(Written(d, k, <<q>>), k)
  <2>1. Insert(Fn(g, k), <<o>>) = Fn(e, k)
    BY <1>6, <1>7, InsertFn
  <2>2. jumpToDispatch(Fn(e, k)) = Insert(Fn(d, k), <<q>>)
    BY <1>4, <1>8, <1>9, WithDispatch DEF jumpToDispatch
  <2> QED
    BY <1>4, <2>1, <2>2, InsertFn DEF compileLoadProgram
<1>13. Part(p, k + 1, k) = <<o, q>>
  BY <1>4 DEF Part, Body, Leaps, Operates
<1>14. ~Operates(p, k, 7)
  BY DEF Operates
<1>15. Compiling([a EXCEPT ![k] = <<o, q>>], p, k + 1)
  BY <1>2, <1>13, <1>14, BlockWritten
<1> QED
  BY <1>11, <1>12, <1>15 DEF Advanced

LEMMA OpenSeq == ASSUME NEW s, Open(s) PROVE <<>> \o s = s /\ s \o <<>> = s
BY Empties DEF Open

Emitted(g, w, k) == Straight(w) \o IF k + 1 \in DOMAIN g THEN <<Br(k + 1)>> ELSE <<>>

LEMMA StraightWritten ==
    ASSUME NEW p, Len(p) \in Nat, NEW k \in 0..Len(p) - 1, NEW g, Compiling(g, p, k),
           ~Leaps(p, k)
    PROVE  Advanced(Insert(Fn(g, k), Emitted(g, p[k + 1], k)), p, k + 1)
<1>0. PICK code : code = Emitted(g, p[k + 1], k)
  OBVIOUS
<1>1. /\ k \in DOMAIN g /\ g[k] = <<>> /\ k \in Blocks(p)
      /\ k + 1 \in DOMAIN g <=> k < Len(p) - 1
  BY BlockAhead
<1>2. PICK t : t = Text(p, k)
  OBVIOUS
<1>3. Open(t) /\ t = Straight(p[k + 1])
  <2>1. k # Entry
    BY DEF Entry
  <2> QED
    BY <1>2, <2>1, TextOpen DEF Text
<1>8. code = t \o IF k + 1 \in DOMAIN g THEN <<Br(k + 1)>> ELSE <<>>
  BY <1>0, <1>3 DEF Emitted
<1>4. code = Part(p, k + 1, k)
  <2>1. CASE k < Len(p) - 1
    <3>1. Behind(p, k) = k + 1
      <4>1. PICK n \in Nat : n = Len(p)
        OBVIOUS
      <4>2. k \in Int /\ k < n - 1
        BY <2>1, <4>1
      <4>3. k + 1 < n
        BY <4>1, <4>2
      <4> QED
        BY <4>1, <4>3 DEF Behind
    <3>2. Part(p, k + 1, k) = t \o <<Br(k + 1)>>
      BY <1>2, <2>1, <3>1 DEF Part, Body, Leaps
    <3> QED
      BY <1>1, <1>8, <2>1, <3>2
  <2>2. CASE k = Len(p) - 1
    <3>1. Part(p, k + 1, k) = t
      BY <1>2, <2>2 DEF Part
    <3>0. k + 1 \notin DOMAIN g
      BY <1>1, <2>2
    <3>2. code = t \o <<>>
      BY <1>8, <3>0
    <3> QED
      BY <1>3, <3>1, <3>2, OpenSeq
  <2> QED
    BY <2>1, <2>2
<1>5. <<>> \o code = code
  <2>1. CASE k + 1 \in DOMAIN g
    <3>1. PICK S : t \in Seq(S) /\ Br(k + 1) \in S
      <4>1. PICK T : t \in Seq(T)
        BY <1>3 DEF Open
      <4>2. t \in Seq(T \cup {Br(k + 1)})
        BY <4>1
      <4> QED
        BY <4>2
    <3>2. code \in Seq(S)
      BY <1>8, <2>1, <3>1
    <3> QED
      BY <3>2, Empties
  <2>2. CASE k + 1 \notin DOMAIN g
    <3>1. code = t \o <<>>
      BY <1>8, <2>2
    <3> QED
      BY <1>3, <3>1, OpenSeq
  <2> QED
    BY <2>1, <2>2
<1>6. Written(g, k, code) = [g EXCEPT ![k] = code]
  BY <1>1, <1>5 DEF Written
<1>7. Compiling([g EXCEPT ![k] = code], p, k + 1)
  BY <1>4, BlockWritten DEF Leaps
<1> QED
  BY <1>0, <1>6, <1>7, InsertFn DEF Advanced

\* One turn of the loop.
LEMMA WordCompiled ==
    ASSUME NEW p, Len(p) \in Nat, NEW k \in 0..Len(p) - 1, NEW g, NEW h, Compiling(g, p, k)
    PROVE  Advanced(instruction(Fn(g, h), p[k + 1], k), p, k + 1)
<1>1. [Fn(g, h) EXCEPT !.here = k] = Fn(g, k)
  BY DEF Fn
<1>2. PICK w : w = p[k + 1]
  OBVIOUS
<1>3. CASE opcode(w) = 7
  <2>1. instruction(Fn(g, h), w, k) = jumpToHalt(Fn(g, k))
    BY <1>1, <1>3 DEF instruction
  <2> QED
    BY <1>2, <1>3, <2>1, HaltWritten DEF Operates
<1>4. CASE opcode(w) = 12
  <2>1. instruction(Fn(g, h), w, k) = compileLoadProgram(Fn(g, k), reg_c(w))
    BY <1>1, <1>4 DEF instruction
  <2> QED
    BY <1>2, <1>4, <2>1, LoadWritten DEF Operates
<1>5. CASE opcode(w) \notin {7, 12}
  <2>2. instruction(Fn(g, h), w, k) = Insert(Fn(g, k), Emitted(g, w, k))
    BY <1>1, <1>5, HasFn DEF instruction, Emitted
  <2>3. ~Leaps(p, k)
    BY <1>2, <1>5 DEF Leaps, Operates
  <2> QED
    BY <1>2, <2>2, <2>3, StraightWritten
<1> QED
  BY <1>2, <1>3, <1>4, <1>5

\* The blocks as createInstructionLabels makes them, with the entry's branch.
LEMMA LabelsCreated ==
    ASSUME NEW S, NEW p \in Seq(S), NEW f,
           f = [Constructed EXCEPT !.blocks =
                   [l \in {Entry} \cup 0..Len(p) - 1 |->
                       IF l = Entry THEN Constructed.blocks[Entry] ELSE <<>>]]
    PROVE  Advanced(IF p = <<>> THEN f ELSE Insert(f, <<Br(0)>>), p, 0)
<1>0. Len(p) \in Nat /\ (p = <<>> <=> Len(p) = 0)
  BY EmptySeq
<1>1. PICK t : t = Prologue
  OBVIOUS
<1>2. Constructed = [blocks |-> [l \in {Entry} |-> t], here |-> Entry]
  BY <1>1 DEF Constructed, Prologue
<1>3. PICK g : g = [l \in {Entry} \cup 0..Len(p) - 1 |-> IF l = Entry THEN t ELSE <<>>]
  OBVIOUS
<1>4. f = Fn(g, Entry)
  <2>1. Constructed.blocks[Entry] = t
    BY <1>2
  <2>2. f = [Constructed EXCEPT !.blocks = g]
    BY <1>3, <2>1
  <2> QED
    BY <1>2, <2>2 DEF Fn
<1>5. {Entry} \cup 0..Len(p) - 1 = Blocks(p) /\ Entry = 0 - 1 /\ Entry \in Blocks(p)
  BY <1>0 DEF Entry, Blocks
<1>6. /\ DOMAIN g = Blocks(p) /\ g[Entry] = t
      /\ \A i \in Blocks(p) : i # Entry => g[i] = <<>>
  BY <1>3, <1>5
<1>7. Halt \notin Blocks(p) /\ Dispatch \notin Blocks(p)
  BY DEF Halt, Dispatch, Blocks
<1>8. \A i \in Blocks(p) : i # Entry => Part(p, 0, i) = <<>>
  BY DEF Part, Blocks, Entry
<1>9. Text(p, Entry) = t /\ ~Leaps(p, Entry)
  BY <1>1 DEF Text, Leaps, Operates, Entry
<1>10. CASE p = <<>>
  <2>1. Part(p, 0, Entry) = t
    BY <1>0, <1>9, <1>10 DEF Part, Entry
  <2>2. Compiling(g, p, 0)
    BY <1>5, <1>6, <1>7, <1>8, <2>1 DEF Compiling, Others
  <2> QED
    BY <1>4, <1>5, <1>10, <2>2 DEF Advanced
<1>11. CASE p # <<>>
  <2>1. Behind(p, Entry) = 0
    BY <1>0, <1>11 DEF Behind, Entry
  <2>2. PICK c : c = t \o <<Br(0)>>
    OBVIOUS
  <2>3. Part(p, 0, Entry) = c
    <3>1. Part(p, 0, Entry) = Body(p, Entry)
      BY <1>0, <1>11 DEF Part, Entry
    <3> QED
      BY <1>9, <2>1, <2>2, <3>1 DEF Body, Leaps
  <2>4. PICK e : e = [g EXCEPT ![Entry] = c]
    OBVIOUS
  <2>5. /\ DOMAIN e = Blocks(p) /\ e[Entry] = c
        /\ \A i \in Blocks(p) : i # Entry => e[i] = <<>>
    BY <1>5, <1>6, <2>4
  <2>6. Compiling(e, p, 0)
    BY <1>5, <1>7, <1>8, <2>3, <2>5 DEF Compiling, Others
  <2>7. Insert(f, <<Br(0)>>) = Fn(e, Entry)
    <3>1. PICK d : d = <<Br(0)>>
      OBVIOUS
    <3>2. Insert(Fn(g, Entry), d) = Fn(Written(g, Entry, d), Entry)
      BY InsertFn
    <3>3. Written(g, Entry, d) = e
      BY <1>6, <2>2, <2>4, <3>1 DEF Written
    <3> QED
      BY <1>4, <3>1, <3>2, <3>3
  <2> QED
    BY <1>5, <1>11, <2>6, <2>7 DEF Advanced
<1> QED
  BY <1>10, <1>11

\* What finishProgram leaves.
Done(f, p) == \E g, h : f = Fn(g, h) /\ Complete(g, p)

LEMMA EndedOrOpen ==
    /\ \A s : Open(s) => ~Ended(s)
    /\ \A s, x : Closed(s, x) => Ended(s)
<1>1. ASSUME NEW s, Open(s) PROVE ~Ended(s)
  <2>1. PICK S : s \in Seq(S) /\ \A i \in 1..Len(s) : ~IsTerminator(s[i])
    BY <1>1 DEF Open
  <2>2. s # <<>> => Len(s) \in 1..Len(s)
    BY <2>1, EmptySeq
  <2> QED
    BY <2>1, <2>2 DEF Ended
<1>2. ASSUME NEW s, NEW x, Closed(s, x) PROVE Ended(s)
  <2>1. PICK n \in Nat : DOMAIN s = 1..n + 1 /\ Len(s) = n + 1 /\ s[n + 1] = Br(x)
    BY <1>2 DEF Closed
  <2>2. s # <<>>
    BY <2>1
  <2> QED
    BY <2>1, <2>2, Terminators DEF Ended
<1> QED
  BY <1>1, <1>2

LEMMA ProgramFinished ==
    ASSUME NEW p, Len(p) \in Nat, NEW g, Compiling(g, p, Len(p))
    PROVE  Done(finished(Fn(g, Len(p) - 1)), p)
<1>1. PICK n \in Nat, h \in Int : n = Len(p) /\ h = n - 1
  OBVIOUS
<1>2. PICK a : a = Adding(g, Halt, Ret)
  OBVIOUS
<1>3. Compiling(a, p, n) /\ Halt \in DOMAIN a
  BY <1>1, <1>2, AddingKeeps
<1>4. /\ h \in Blocks(p) /\ h # Halt /\ h # Dispatch /\ h \in DOMAIN a
      /\ a[h] = IF Leaps(p, h) THEN Body(p, h) ELSE Text(p, h)
  BY <1>1, <1>3 DEF Compiling, Part, Blocks, Halt, Dispatch
<1>5. Fn(a, h).blocks = a /\ Fn(a, h).here = h
  BY DEF Fn
<1>6. finished(Fn(g, h)) = IF Ended(a[h]) THEN Fn(a, h) ELSE Insert(Fn(a, h), <<Br(Halt)>>)
  <2>1. Fn(g, h).here # Halt
    BY <1>4 DEF Fn
  <2> QED
    BY <1>2, <1>5, <2>1, WithHalt DEF finished
<1>7. \A i \in Blocks(p) : i # h => a[i] = Body(p, i)
  BY <1>1, <1>3 DEF Compiling, Part, Blocks
<1>8. CASE Leaps(p, h)
  <2>1. \A i \in Blocks(p) : a[i] = Body(p, i)
    BY <1>4, <1>7, <1>8
  <2>2. Complete(a, p)
    BY <1>1, <1>3, <2>1 DEF Compiling, Complete
  <2>3. Ended(a[h])
    BY <1>4, <1>8, BodyCloses, EndedOrOpen
  <2> QED
    BY <1>1, <1>6, <2>2, <2>3 DEF Done
<1>9. CASE ~Leaps(p, h)
  <2>1. ~Ended(a[h])
    BY <1>4, <1>9, TextOpen, EndedOrOpen
  <2>2. Behind(p, h) = Halt
    BY <1>1 DEF Behind
  <2>3. PICK c : c = a[h] \o <<Br(Halt)>>
    OBVIOUS
  <2>4. Body(p, h) = c
    BY <1>4, <1>9, <2>2, <2>3 DEF Body, Leaps
  <2>5. PICK e : e = [a EXCEPT ![h] = c]
    OBVIOUS
  <2>6. /\ DOMAIN e = DOMAIN a /\ e[h] = c
        /\ \A i \in DOMAIN a : i # h => e[i] = a[i]
    BY <1>4, <2>5
  <2>7. Complete(e, p)
    BY <1>1, <1>3, <1>4, <1>7, <2>4, <2>6 DEF Compiling, Complete, Others
  <2>8. finished(Fn(g, h)) = Fn(e, h)
    BY <1>6, <2>1, <2>3, <2>5, InsertFn DEF Written
  <2> QED
    BY <1>1, <2>7, <2>8 DEF Done
<1> QED
  BY <1>8, <1>9

-----------------------------------------------------------------------------
\* The invariant.

\* A heap of empty segments: compileMap is only followed for arrays of length 0,
\* so every segment is one block, with a capacity of 24 bytes and a size of 0.
Slots == {rec[0].stack[i] : i \in 1..Len(rec[0].stack)}
Carved == mapped \cup Slots
OneBlock(a) ==
    /\ a \in U32 /\ a % 4 = 0 /\ 8 <= a /\ a + 24 <= start_unused
    /\ mem[a \div 4] = 24 /\ mem[a \div 4 + 1] = 0

EmptyHeap ==
    /\ mem \in [0..GB4 \div 4 - 1 -> U32]
    /\ rec \in [0..REC_BUCKETS - 1 -> StackType]
    /\ start_unused \in Nat /\ start_unused % 4 = 0 /\ start_unused <= GB4 - 8
    /\ \A a \in Carved : OneBlock(a)
    /\ \A i \in 1..Len(rec[0].stack) :
          /\ rec[0].stack[i] \notin mapped
          /\ \A j \in 1..Len(rec[0].stack) : rec[0].stack[i] = rec[0].stack[j] => i = j

Machine ==
    /\ program \in Seq(U32) /\ 4 * Len(program) <= GB4 - 16
    /\ regs \in [Reg -> U32] /\ jump \in U32
    /\ out \in Seq(0..BYTE - 1) /\ next \in 0..Len(program)

\* How far the compiler is.
Building ==
    /\ phase \in {"constructed", "compiling", "compiled", "running", "returned"}
    /\ phase = "constructed" => builder = Constructed /\ next = 0
    /\ phase = "compiling" => Advanced(builder, program, next)
    /\ phase \in {"compiled", "running", "returned"} => Done(builder, program)
    /\ phase \in {"constructed", "compiling", "compiled"} => at = <<Entry, 1>> /\ Carved = {}

\* Where the function is: in one of its blocks, with the registers that the
\* entry block has passed at 0, and behind a jump only with a target to go to.
Standing(l, j) == Has(builder, l) /\ j \in DOMAIN builder.blocks[l]
Zeroed(l, j) == l = Entry => \A r \in Reg : r + 1 < j => regs[r] = 0
Aimed(l, j) == (l = Dispatch \/ (Operates(program, l, 12) /\ j # 1)) => jump < Len(program)
Executing ==
    phase \in {"running", "returned"} =>
        Standing(at[1], at[2]) /\ Zeroed(at[1], at[2]) /\ Aimed(at[1], at[2])

OptInv == EmptyHeap /\ Machine /\ Building /\ Executing

-----------------------------------------------------------------------------
\* Where the function is.

\* What may stand at place j of block l.
Begins(p, l, j, o) == l = Entry /\ j \in 1..NREGS + 1 /\ o = PrologueCode(j)
Works(p, l, j, o) ==
    l \in 0..Len(p) - 1 /\ ~Leaps(p, l) /\ j = 1 /\ Straight(p[l + 1]) = <<o>>
Aims(p, l, j, o) == Operates(p, l, 12) /\ j = 1 /\ o = targetIndex(reg_c(p[l + 1]))
Follows(p, l, j, o) ==
    /\ o = Br(Behind(p, l))
    /\ \/ l = Entry /\ j = NREGS + 2
       \/ /\ l \in 0..Len(p) - 1 /\ ~Leaps(p, l)
          /\ \/ j = 1 /\ Straight(p[l + 1]) = <<>>
             \/ j = 2 /\ Straight(p[l + 1]) # <<>>
Halts(p, l, j, o) == Operates(p, l, 7) /\ j = 1 /\ o = Br(Halt)
Leaves(p, l, j, o) == Operates(p, l, 12) /\ j = 2 /\ o = Br(Dispatch)
Switches(p, l, j, o) == l = Dispatch /\ j = 1 /\ o = Switch /\ Len(p) > 0
Returns(p, l, j, o) == l = Halt /\ j = 1 /\ o = Ret

Place(p, l, j, o) ==
    \/ Begins(p, l, j, o) \/ Works(p, l, j, o) \/ Aims(p, l, j, o) \/ Follows(p, l, j, o)
    \/ Halts(p, l, j, o) \/ Leaves(p, l, j, o) \/ Switches(p, l, j, o) \/ Returns(p, l, j, o)

LEMMA EntryCode ==
    ASSUME NEW p, Len(p) \in Nat, NEW j \in DOMAIN Body(p, Entry)
    PROVE  Place(p, Entry, j, Body(p, Entry)[j])
<1>1. PICK S : /\ Prologue \in Seq(S) /\ Len(Prologue) = NREGS + 1 /\ NREGS \in Nat
               /\ \A i \in 1..NREGS + 1 : Prologue[i] = PrologueCode(i)
  BY PrologueIs
<1>2. PICK t, o, T : t = Prologue /\ o = Br(Behind(p, Entry)) /\ T = S \cup {o}
  OBVIOUS
<1>3. t \in Seq(T) /\ o \in T /\ Len(t) = NREGS + 1
  BY <1>1, <1>2
<1>4. Body(p, Entry) = t \o <<o>>
  BY <1>2 DEF Body, Operates, Entry, Text
<1>5. /\ DOMAIN (t \o <<o>>) = 1..Len(t) + 1
      /\ \A i \in 1..Len(t) : (t \o <<o>>)[i] = t[i]
      /\ (t \o <<o>>)[Len(t) + 1] = o
  BY <1>3, AtEnd
<1>6. PICK b : b = Body(p, Entry)
  OBVIOUS
<1>7. /\ DOMAIN b = 1..NREGS + 2 /\ b[NREGS + 2] = o
      /\ \A i \in 1..NREGS + 1 : b[i] = PrologueCode(i)
  BY <1>1, <1>2, <1>3, <1>4, <1>5, <1>6
<1>8. CASE j \in 1..NREGS + 1
  BY <1>6, <1>7, <1>8 DEF Place, Begins
<1>9. CASE j = NREGS + 2
  BY <1>2, <1>6, <1>7, <1>9 DEF Place, Follows
<1> QED
  BY <1>1, <1>6, <1>7, <1>8, <1>9

LEMMA WordCode ==
    ASSUME NEW p, Len(p) \in Nat, NEW l \in 0..Len(p) - 1, NEW j \in DOMAIN Body(p, l)
    PROVE  Place(p, l, j, Body(p, l)[j])
<1>0. PICK b : b = Body(p, l)
  OBVIOUS
<1>1. CASE Operates(p, l, 7)
  <2>1. ~Operates(p, l, 12)
    BY <1>1 DEF Operates
  <2>2. PICK q : q = Br(Halt)
    OBVIOUS
  <2>3. b = <<q>>
    BY <1>0, <1>1, <2>1, <2>2 DEF Body
  <2>4. DOMAIN b = {1} /\ b[1] = q
    BY <2>3
  <2> QED
    BY <1>0, <1>1, <2>2, <2>4 DEF Place, Halts
<1>2. CASE Operates(p, l, 12)
  <2>1. ~Operates(p, l, 7)
    BY <1>2 DEF Operates
  <2>2. PICK o, q : q = Br(Dispatch) /\ o = targetIndex(reg_c(p[l + 1]))
    OBVIOUS
  <2>3. b = <<o, q>>
    BY <1>0, <1>2, <2>1, <2>2 DEF Body
  <2>4. DOMAIN b = {1, 2} /\ b[1] = o /\ b[2] = q
    BY <2>3
  <2> QED
    BY <1>0, <1>2, <2>2, <2>4 DEF Place, Aims, Leaves
<1>3. CASE ~Leaps(p, l)
  <2>0. l # Entry
    BY DEF Entry
  <2>1. PICK t, q : t = Straight(p[l + 1]) /\ q = Br(Behind(p, l))
    OBVIOUS
  <2>2. b = t \o <<q>>
    BY <1>0, <1>3, <2>0, <2>1 DEF Body, Leaps, Text
  <2>3. CASE t = <<>>
    <3>1. <<q>> \in Seq({q})
      OBVIOUS
    <3>2. b = <<q>>
      BY <2>2, <2>3, <3>1, Empties
    <3>3. DOMAIN b = {1} /\ b[1] = q
      BY <3>2
    <3> QED
      BY <1>0, <1>3, <2>1, <2>3, <3>3 DEF Place, Follows
  <2>4. ASSUME NEW o, t = <<o>> PROVE Place(p, l, j, b[j])
    <3>1. b = <<o, q>>
      BY <2>2, <2>4, Joins
    <3>2. DOMAIN b = {1, 2} /\ b[1] = o /\ b[2] = q /\ <<o>> # <<>>
      BY <3>1
    <3>3. Works(p, l, 1, o) /\ Follows(p, l, 2, q)
      BY <1>3, <2>1, <2>4, <3>2 DEF Works, Follows
    <3> QED
      BY <1>0, <3>2, <3>3 DEF Place
  <2> QED
    BY <1>0, <2>1, <2>3, <2>4, StraightIs
<1> QED
  BY <1>1, <1>2, <1>3 DEF Leaps

LEMMA BlockCode ==
    ASSUME NEW p, Len(p) \in Nat, NEW g, Complete(g, p), NEW l \in DOMAIN g, NEW j \in DOMAIN g[l]
    PROVE  Place(p, l, j, g[l][j])
<1>1. CASE l = Entry
  <2>1. l \in Blocks(p) /\ g[l] = Body(p, Entry)
    BY <1>1 DEF Complete, Blocks, Entry
  <2> QED
    BY <1>1, <2>1, EntryCode
<1>2. CASE l \in 0..Len(p) - 1
  <2>1. g[l] = Body(p, l)
    BY <1>2 DEF Complete, Blocks
  <2> QED
    BY <1>2, <2>1, WordCode
<1>3. CASE l = Halt
  <2>1. PICK o : o = Ret
    OBVIOUS
  <2>2. g[l] = <<o>>
    BY <1>3, <2>1 DEF Complete, Others
  <2>3. DOMAIN g[l] = {1} /\ g[l][1] = o
    BY <2>2
  <2> QED
    BY <1>3, <2>1, <2>3 DEF Place, Returns
<1>4. CASE l = Dispatch
  <2>1. PICK o : o = Switch
    OBVIOUS
  <2>2. g[l] = <<o>> /\ Len(p) > 0
    BY <1>4, <2>1 DEF Complete, Others
  <2>3. DOMAIN g[l] = {1} /\ g[l][1] = o
    BY <2>2
  <2> QED
    BY <1>4, <2>1, <2>2, <2>3 DEF Place, Switches
<1> QED
  BY <1>1, <1>2, <1>3, <1>4 DEF Complete, Others, Blocks, Entry

\* No block is empty, none is left but by its end, and branches go to blocks.
LEMMA BlockEnd ==
    ASSUME NEW p, Len(p) \in Nat, NEW g, Complete(g, p), NEW l \in DOMAIN g
    PROVE  /\ 1 \in DOMAIN g[l]
           /\ \A j \in DOMAIN g[l] :
                 /\ j \in Nat \ {0}
                 /\ ~IsTerminator(g[l][j]) => j + 1 \in DOMAIN g[l]
                 /\ g[l][j].op = "br" => g[l][j].a \in DOMAIN g
<1>0. \A j \in DOMAIN g[l] : g[l][j].op = "br" => g[l][j].a \in DOMAIN g
  <2>1. WellFormed(Fn(g, 0)) /\ Fn(g, 0).blocks = g
    BY CompleteVerifies DEF Fn
  <2> QED
    BY <2>1 DEF WellFormed, Has
<1>1. CASE l \in Blocks(p)
  <2>1. PICK x : Closed(g[l], x)
    BY <1>1, BodyCloses DEF Complete
  <2>2. PICK n \in Nat : /\ DOMAIN g[l] = 1..n + 1 /\ g[l][n + 1] = Br(x)
    BY <2>1 DEF Closed
  <2> QED
    BY <1>0, <2>2, Terminators
<1>2. CASE l = Halt
  <2>1. PICK o : o = Ret
    OBVIOUS
  <2>2. g[l] = <<o>> /\ IsTerminator(o)
    BY <1>2, <2>1, Terminators DEF Complete, Others
  <2>3. DOMAIN g[l] = {1} /\ g[l][1] = o
    BY <2>2
  <2> QED
    BY <1>0, <2>2, <2>3
<1>3. CASE l = Dispatch
  <2>1. PICK o : o = Switch
    OBVIOUS
  <2>2. g[l] = <<o>> /\ IsTerminator(o)
    BY <1>3, <2>1, Terminators DEF Complete, Others
  <2>3. DOMAIN g[l] = {1} /\ g[l][1] = o
    BY <2>2
  <2> QED
    BY <1>0, <2>2, <2>3
<1> QED
  BY <1>1, <1>2, <1>3 DEF Complete, Others

-----------------------------------------------------------------------------
\* The heap of empty segments.

LEMMA Sizes ==
    /\ GB4 \in Nat /\ GB4 > 32 /\ GB4 % 4 = 0 /\ REC_BUCKETS \in Nat \ {0}
    /\ get_idx_from_alloc_size(0) = 0 /\ user_cap(0) = 24 /\ bucket_of_cap(24) = 0
<1>1. /\ GB4 \in Nat /\ GB4 % 32 = 0 /\ REC_BUCKETS \in Nat /\ MAX_ALLOC \in Nat
      /\ MAX_ALLOC = 32 * REC_BUCKETS - 8 /\ MAX_ALLOC + 8 < GB4
  BY Virt32Assumption DEF BLOCK_SIZE, BOOK_SIZE
<1>2. REC_BUCKETS \in Nat \ {0} /\ GB4 > 32 /\ GB4 % 4 = 0
  BY <1>1
<1>3. 7 \in U32 /\ 32 \in U32
  BY <1>1, <1>2 DEF U32
<1>4. Wrap(7) = 7 /\ Wrap(32) = 32
  BY <1>3, WrapFits
<1>5. get_idx_from_alloc_size(0) = 0
  BY <1>4 DEF get_idx_from_alloc_size, BOOK_SIZE
<1> QED
  BY <1>1, <1>2, <1>4, <1>5 DEF user_cap, bucket_of_cap, BOOK_SIZE, BLOCK_SIZE

LEMMA FirstStack ==
    ASSUME EmptyHeap
    PROVE  /\ rec[0] \in StackType /\ 0 \in 0..REC_BUCKETS - 1 /\ DOMAIN rec = 0..REC_BUCKETS - 1
           /\ Len(rec[0].stack) \in Nat /\ rec[0].stack \in Seq(U32)
BY Sizes, SlotType DEF EmptyHeap, StackType

\* An empty segment is carved in front of all others, or was freed before.
ServedEmpty(id) ==
    /\ id \in U32 \ {0} /\ id \notin mapped /\ id = served(0) /\ mapped' = mapped \cup {id}

LEMMA CarveEmpty ==
    ASSUME EmptyHeap, FitsHeap(0), Carve(0)
    PROVE  EmptyHeap' /\ \E id : ServedEmpty(id)
<1>1. /\ rec[0] \in StackType /\ 0 \in 0..REC_BUCKETS - 1 /\ DOMAIN rec = 0..REC_BUCKETS - 1
      /\ Len(rec[0].stack) \in Nat /\ rec[0].stack \in Seq(U32)
  BY FirstStack
<1>2. stack_is_empty(rec[0])
  <2>1. stack_top(rec[0]) # 1 \/ stack_is_empty(rec[0])
    <3>1. CASE ~stack_is_empty(rec[0])
      <4>1. Len(rec[0].stack) \in 1..Len(rec[0].stack)
        BY <1>1, <3>1, EmptySeq DEF stack_is_empty
      <4>2. stack_top(rec[0]) \in Carved
        BY <4>1 DEF stack_top, Carved, Slots
      <4> QED
        BY <4>2 DEF EmptyHeap, OneBlock
    <3> QED
      BY <3>1
  <2> QED
    BY <2>1, Sizes DEF Carve, find_freed_segment, SEG_NOT_FOUND
<1>3. PICK u : u = start_unused + 8
  OBVIOUS
<1>4. /\ u \in Nat /\ u % 4 = 0 /\ 8 <= u /\ u + 32 <= GB4 /\ u = start_unused + 8
      /\ GB4 \in Nat /\ GB4 % 4 = 0 /\ start_unused \in Nat
  BY <1>2, <1>3, Sizes DEF FitsHeap, EmptyHeap, BOOK_SIZE
<1>5. u \in U32 /\ u + 24 \in U32
  BY <1>4 DEF U32
<1>6. Wrap(start_unused + BOOK_SIZE) = u /\ Wrap(u + user_cap(0)) = u + 24
  BY <1>4, <1>5, Sizes, WrapFits DEF BOOK_SIZE
<1>7. /\ start_unused' = u + 24 /\ mapped' = mapped \cup {u}
      /\ mem' = [mem EXCEPT ![CapCell(u)] = 24, ![SizeCell(u)] = 0]
      /\ rec' = rec
  BY <1>2, <1>6, Sizes DEF Carve, rec_after_find
<1>8. CapCell(u) = u \div 4 /\ SizeCell(u) = u \div 4 + 1
  BY <1>4 DEF CapCell, SizeCell, Cell, BOOK_SIZE
<1>9. /\ u \div 4 \in 0..GB4 \div 4 - 1 /\ u \div 4 + 1 \in 0..GB4 \div 4 - 1
      /\ 24 \in U32 /\ 0 \in U32
  BY <1>4, Sizes DEF U32
<1>10. PICK m : m = mem'
  OBVIOUS
<1>11. /\ m \in [0..GB4 \div 4 - 1 -> U32] /\ m[u \div 4] = 24 /\ m[u \div 4 + 1] = 0
       /\ \A c \in 0..GB4 \div 4 - 1 : c # u \div 4 /\ c # u \div 4 + 1 => m[c] = mem[c]
  BY <1>4, <1>7, <1>8, <1>9, <1>10 DEF EmptyHeap
<1>12. u \notin Carved
  BY <1>4 DEF EmptyHeap, OneBlock, U32
<1>13. Slots' = Slots
  BY <1>7 DEF Slots
<1>14. Carved' = Carved \cup {u}
  BY <1>7, <1>13 DEF Carved
<1>15. ASSUME NEW a \in Carved PROVE OneBlock(a)'
  <2>1. /\ a \in U32 /\ a \in Nat /\ a % 4 = 0 /\ 8 <= a /\ a + 24 <= start_unused
        /\ mem[a \div 4] = 24 /\ mem[a \div 4 + 1] = 0
    BY <1>15 DEF EmptyHeap, OneBlock, U32
  <2>2. a \div 4 \in 0..GB4 \div 4 - 1 /\ a \div 4 + 1 \in 0..GB4 \div 4 - 1 /\ a \div 4 + 1 < u \div 4
    BY <1>4, <2>1
  <2>3. m[a \div 4] = 24 /\ m[a \div 4 + 1] = 0
    BY <1>4, <1>11, <2>1, <2>2
  <2> QED
    BY <1>4, <1>7, <1>10, <2>1, <2>3 DEF OneBlock
<1>16. OneBlock(u)'
  BY <1>4, <1>5, <1>7, <1>10, <1>11 DEF OneBlock
<1>17. EmptyHeap'
  <2>1. /\ mem' \in [0..GB4 \div 4 - 1 -> U32] /\ rec' \in [0..REC_BUCKETS - 1 -> StackType]
        /\ start_unused' \in Nat /\ start_unused' % 4 = 0 /\ start_unused' <= GB4 - 8
    <3>1. mem' \in [0..GB4 \div 4 - 1 -> U32]
      BY <1>10, <1>11
    <3>2. rec' \in [0..REC_BUCKETS - 1 -> StackType]
      BY <1>7 DEF EmptyHeap
    <3>3. start_unused' \in Nat /\ start_unused' % 4 = 0 /\ start_unused' <= GB4 - 8
      BY <1>4, <1>7
    <3> QED
      BY <3>1, <3>2, <3>3
  <2>2. \A a \in Carved' : OneBlock(a)'
    BY <1>14, <1>15, <1>16
  <2>3. \A i \in 1..Len(rec'[0].stack) :
          /\ rec'[0].stack[i] \notin mapped'
          /\ \A j \in 1..Len(rec'[0].stack) : rec'[0].stack[i] = rec'[0].stack[j] => i = j
    BY <1>7, <1>12 DEF EmptyHeap, Carved, Slots
  <2> QED
    BY <2>1, <2>2, <2>3 DEF EmptyHeap
<1>18. served(0) = u
  BY <1>2, <1>6, Sizes DEF served, find_freed_segment
<1>19. ServedEmpty(u)
  BY <1>4, <1>5, <1>7, <1>12, <1>18 DEF ServedEmpty, Carved
<1> QED
  BY <1>17, <1>19

LEMMA RecycleEmpty ==
    ASSUME EmptyHeap, Recycle(0)
    PROVE  EmptyHeap' /\ \E id : ServedEmpty(id)
<1>1. /\ rec[0] \in StackType /\ 0 \in 0..REC_BUCKETS - 1 /\ DOMAIN rec = 0..REC_BUCKETS - 1
      /\ Len(rec[0].stack) \in Nat /\ rec[0].stack \in Seq(U32)
  BY FirstStack
<1>2. ~stack_is_empty(rec[0])
  BY Sizes DEF Recycle, find_freed_segment
<1>3. PICK s, n, t : s = rec[0] /\ n = Len(rec[0].stack) /\ t = s.stack[n]
  OBVIOUS
<1>4. /\ s \in StackType /\ n \in Nat \ {0} /\ stack_pop(s) \in StackType
      /\ Len(stack_pop(s).stack) = n - 1
      /\ \A i \in 1..n - 1 : stack_pop(s).stack[i] = s.stack[i]
  BY <1>1, <1>2, <1>3, PopStack
<1>5. /\ find_freed_segment(0) = t /\ rec' = [rec EXCEPT ![0] = stack_pop(s)]
      /\ t \in Slots /\ t \in Carved /\ t \notin mapped
  <2>1. n \in 1..n
    BY <1>4
  <2>2. t \in Slots /\ t \notin mapped
    BY <1>3, <2>1 DEF Slots, EmptyHeap
  <2>3. find_freed_segment(0) = t
    BY <1>2, <1>3, Sizes DEF find_freed_segment, stack_top
  <2>4. rec' = [rec EXCEPT ![0] = stack_pop(s)]
    BY <1>2, <1>3, Sizes DEF Recycle, rec_after_find
  <2> QED
    BY <2>2, <2>3, <2>4 DEF Carved
<1>6. /\ t \in U32 /\ t \in Nat /\ t % 4 = 0 /\ 8 <= t /\ t + 24 <= start_unused
      /\ mem[t \div 4] = 24 /\ mem[t \div 4 + 1] = 0 /\ start_unused <= GB4 - 8
      /\ mem \in [0..GB4 \div 4 - 1 -> U32] /\ GB4 \in Nat /\ GB4 % 4 = 0
  BY <1>5, Sizes DEF EmptyHeap, OneBlock, U32
<1>7. /\ mapped' = mapped \cup {t} /\ start_unused' = start_unused
      /\ mem' = memset0([mem EXCEPT ![SizeCell(t)] = 0], t, 0)
  BY <1>5 DEF Recycle
<1>8. SizeCell(t) = t \div 4 + 1 /\ CellsOf(t, 0) = {}
  BY <1>6 DEF SizeCell, CellsOf, Cell, BOOK_SIZE
<1>9. mem' = mem
  BY <1>6, <1>7, <1>8 DEF memset0
<1>10. PICK r : r = rec'
  OBVIOUS
<1>11. /\ r \in [0..REC_BUCKETS - 1 -> StackType] /\ Len(r[0].stack) = n - 1
       /\ \A i \in 1..n - 1 : r[0].stack[i] = s.stack[i]
  <2>1. r[0] = stack_pop(s)
    BY <1>1, <1>5, <1>10
  <2>2. r \in [0..REC_BUCKETS - 1 -> StackType]
    BY <1>4, <1>5, <1>10 DEF EmptyHeap
  <2> QED
    BY <1>4, <2>1, <2>2
<1>12. Carved' \subseteq Carved
  <2>1. Slots' \subseteq Slots
    <3>1. Slots' = {r[0].stack[i] : i \in 1..n - 1}
      BY <1>10, <1>11 DEF Slots
    <3>2. Slots = {s.stack[i] : i \in 1..n}
      BY <1>3 DEF Slots
    <3>3. \A i \in 1..n - 1 : i \in 1..n /\ r[0].stack[i] = s.stack[i]
      BY <1>4, <1>11
    <3> QED
      BY <3>1, <3>2, <3>3
  <2> QED
    BY <1>5, <1>7, <2>1 DEF Carved
<1>13. \A a \in Carved : OneBlock(a) => OneBlock(a)'
  BY <1>7, <1>9 DEF OneBlock
<1>14. ASSUME NEW i \in 1..n - 1
       PROVE  /\ r[0].stack[i] \notin mapped'
              /\ \A j \in 1..n - 1 : r[0].stack[i] = r[0].stack[j] => i = j
  <2>1. i \in 1..n /\ i # n /\ n \in 1..n
    BY <1>4
  <2>2. s.stack[i] \notin mapped /\ s.stack[i] # s.stack[n]
        /\ \A j \in 1..n : s.stack[i] = s.stack[j] => i = j
    <3>1. \A k \in 1..n : /\ s.stack[k] \notin mapped
                           /\ \A j \in 1..n : s.stack[k] = s.stack[j] => k = j
      BY <1>3 DEF EmptyHeap
    <3> QED
      BY <2>1, <3>1
  <2>3. /\ r[0].stack[i] = s.stack[i]
        /\ \A j \in 1..n - 1 : r[0].stack[j] = s.stack[j] /\ j \in 1..n
    BY <1>4, <1>11
  <2>4. s.stack[i] \notin mapped'
    BY <1>3, <1>7, <2>2
  <2> QED
    BY <2>2, <2>3, <2>4
<1>15. EmptyHeap'
  <2>1. /\ mem' \in [0..GB4 \div 4 - 1 -> U32] /\ rec' \in [0..REC_BUCKETS - 1 -> StackType]
        /\ start_unused' \in Nat /\ start_unused' % 4 = 0 /\ start_unused' <= GB4 - 8
    BY <1>7, <1>9, <1>10, <1>11 DEF EmptyHeap
  <2>2. \A a \in Carved' : OneBlock(a)'
    BY <1>12, <1>13 DEF EmptyHeap
  <2>3. \A i \in 1..Len(rec'[0].stack) :
          /\ rec'[0].stack[i] \notin mapped'
          /\ \A j \in 1..Len(rec'[0].stack) : rec'[0].stack[i] = rec'[0].stack[j] => i = j
    BY <1>10, <1>11, <1>14
  <2> QED
    BY <2>1, <2>2, <2>3 DEF EmptyHeap
<1>16. served(0) = t
  BY <1>5 DEF served, Recycle
<1>17. ServedEmpty(t)
  BY <1>5, <1>6, <1>7, <1>16 DEF ServedEmpty
<1> QED
  BY <1>15, <1>17

LEMMA FreeEmpty ==
    ASSUME EmptyHeap, NEW id \in mapped, vs_free(id)
    PROVE  EmptyHeap' /\ mapped' = mapped \ {id}
<1>1. /\ rec[0] \in StackType /\ 0 \in 0..REC_BUCKETS - 1 /\ DOMAIN rec = 0..REC_BUCKETS - 1
      /\ Len(rec[0].stack) \in Nat /\ rec[0].stack \in Seq(U32)
  BY FirstStack
<1>2. id \in U32 /\ id \in Nat /\ id % 4 = 0 /\ mem[id \div 4] = 24 /\ id \in Carved
  BY DEF EmptyHeap, OneBlock, Carved, U32
<1>3. CapCell(id) = id \div 4
  BY <1>2 DEF CapCell, Cell, BOOK_SIZE
<1>4. /\ rec' = [rec EXCEPT ![0] = stack_push(rec[0], id)] /\ mapped' = mapped \ {id}
      /\ UNCHANGED <<mem, start_unused>>
  BY <1>2, <1>3, Sizes DEF vs_free
<1>5. PICK s, n, r : s = rec[0] /\ n = Len(rec[0].stack) /\ r = rec'
  OBVIOUS
<1>6. /\ stack_push(s, id) \in StackType /\ Len(stack_push(s, id).stack) = n + 1 /\ n \in Nat
      /\ \A i \in 1..n : stack_push(s, id).stack[i] = s.stack[i]
      /\ stack_push(s, id).stack[n + 1] = id
  <2>1. s \in StackType /\ id \in U32 /\ n = Len(s.stack)
    BY <1>1, <1>2, <1>5
  <2>2. PICK q : q = stack_push(s, id)
    OBVIOUS
  <2>3. /\ q \in StackType /\ Len(q.stack) = n + 1 /\ n \in Nat
        /\ \A i \in 1..n : q.stack[i] = s.stack[i]
        /\ q.stack[n + 1] = id
    BY <2>1, <2>2, PushStack
  <2> QED
    BY <2>2, <2>3
<1>7. /\ r \in [0..REC_BUCKETS - 1 -> StackType] /\ Len(r[0].stack) = n + 1
      /\ \A i \in 1..n : r[0].stack[i] = s.stack[i]
      /\ r[0].stack[n + 1] = id
  <2>1. r[0] = stack_push(s, id)
    BY <1>1, <1>4, <1>5
  <2>2. r \in [0..REC_BUCKETS - 1 -> StackType]
    BY <1>4, <1>5, <1>6 DEF EmptyHeap
  <2> QED
    BY <1>6, <2>1, <2>2
<1>8. \A i \in 1..n : s.stack[i] \in Slots /\ s.stack[i] \notin mapped
                      /\ \A j \in 1..n : s.stack[i] = s.stack[j] => i = j
  BY <1>5 DEF Slots, EmptyHeap
<1>9. \A i \in 1..n + 1 : i \in 1..n \/ i = n + 1
  BY <1>6
<1>10. Carved' \subseteq Carved
  <2>1. Slots' = {r[0].stack[i] : i \in 1..n + 1}
    BY <1>5, <1>7 DEF Slots
  <2>2. \A i \in 1..n + 1 : r[0].stack[i] \in Slots \cup {id}
    BY <1>7, <1>8, <1>9
  <2> QED
    BY <1>2, <1>4, <2>1, <2>2 DEF Carved
<1>11. \A a \in Carved : OneBlock(a) => OneBlock(a)'
  BY <1>4 DEF OneBlock
<1>12. ASSUME NEW i \in 1..n + 1
       PROVE  /\ r[0].stack[i] \notin mapped'
              /\ \A j \in 1..n + 1 : r[0].stack[i] = r[0].stack[j] => i = j
  BY <1>4, <1>7, <1>8, <1>9
<1>13. EmptyHeap'
  <2>1. /\ mem' \in [0..GB4 \div 4 - 1 -> U32] /\ rec' \in [0..REC_BUCKETS - 1 -> StackType]
        /\ start_unused' \in Nat /\ start_unused' % 4 = 0 /\ start_unused' <= GB4 - 8
    BY <1>4, <1>5, <1>7 DEF EmptyHeap
  <2>2. \A a \in Carved' : OneBlock(a)'
    BY <1>10, <1>11 DEF EmptyHeap
  <2>3. \A i \in 1..Len(rec'[0].stack) :
          /\ rec'[0].stack[i] \notin mapped'
          /\ \A j \in 1..Len(rec'[0].stack) : rec'[0].stack[i] = rec'[0].stack[j] => i = j
    BY <1>5, <1>7, <1>12
  <2> QED
    BY <2>1, <2>2, <2>3 DEF EmptyHeap
<1> QED
  BY <1>4, <1>13

-----------------------------------------------------------------------------
\* Which instruction stands where.

\* A word that computes, and the instruction it is compiled to.
Computes(w, o) ==
    LET a == reg_a(w)
        b == reg_b(w)
        c == reg_c(w)
    IN  \/ opcode(w) = 13 /\ o = setRegisterValues(lv_reg(w), lv_val(w))
        \/ opcode(w) = 0 /\ o = conditionalMove(a, b, c)
        \/ opcode(w) = 3 /\ o = compileAddition(a, b, c)
        \/ opcode(w) = 4 /\ o = compileMul(a, b, c)
        \/ opcode(w) = 5 /\ o = compileDiv(a, b, c)
        \/ opcode(w) = 6 /\ o = compileNand(a, b, c)

Calculates == {"set", "select", "add", "mul", "udiv", "nand"}

\* What Straight has written, told from the instruction's name.
Emits(w, o) ==
    /\ o.op \in Calculates => Computes(w, o)
    /\ o.op = "vs_calloc" => opcode(w) = 8 /\ o = compileMap(reg_b(w), reg_c(w))
    /\ o.op = "vs_free" => opcode(w) = 9 /\ o = compileUnmap(reg_c(w))
    /\ o.op = "putchar" => opcode(w) = 10 /\ o = printRegister(reg_c(w))
    /\ o.op = "getchar" => opcode(w) = 11 /\ o = readIntoRegister(reg_c(w))
    /\ o.op \notin {"first", "target", "br", "switch", "ret"}

LEMMA StraightEmits ==
    ASSUME NEW w, NEW o, Straight(w) = <<o>>
    PROVE  Emits(w, o)
<1>1. \/ Computes(w, o)
      \/ opcode(w) = 1 /\ o = compileLoad(reg_a(w), reg_b(w), reg_c(w))
      \/ opcode(w) = 2 /\ o = compileStore(reg_a(w), reg_b(w), reg_c(w))
      \/ opcode(w) = 8 /\ o = compileMap(reg_b(w), reg_c(w))
      \/ opcode(w) = 9 /\ o = compileUnmap(reg_c(w))
      \/ opcode(w) = 10 /\ o = printRegister(reg_c(w))
      \/ opcode(w) = 11 /\ o = readIntoRegister(reg_c(w))
  BY DEF Straight, Computes
<1>2. Computes(w, o) => o.op \in Calculates
  BY IrFields DEF Computes, Calculates, setRegisterValues, conditionalMove, compileAddition,
     compileMul, compileDiv, compileNand
<1>3. CASE Computes(w, o)
  BY <1>2, <1>3 DEF Emits, Calculates
<1> QED
  BY <1>1, <1>3, IrFields DEF Emits, Calculates, compileLoad, compileStore, compileMap,
     compileUnmap, printRegister, readIntoRegister

LEMMA PlaceOps ==
    ASSUME NEW p, NEW l, NEW j, NEW o, Place(p, l, j, o)
    PROVE  /\ \/ l = Entry /\ j \in 1..NREGS /\ o = setRegisterValues(j - 1, 0) /\ o.op = "set"
              \/ l = Entry /\ j = NREGS + 1 /\ o = Ir("first", 0, 0, 0) /\ o.op = "first"
              \/ Works(p, l, j, o) /\ Emits(p[l + 1], o)
              \/ Aims(p, l, j, o) /\ o.op = "target"
              \/ Follows(p, l, j, o) /\ o.op = "br"
              \/ Halts(p, l, j, o) /\ o.op = "br"
              \/ Leaves(p, l, j, o) /\ o.op = "br"
              \/ Switches(p, l, j, o) /\ o.op = "switch"
              \/ Returns(p, l, j, o) /\ o.op = "ret"
<1>0. NREGS \in Nat
  BY IsaAssumption
<1>1. CASE Begins(p, l, j, o)
  <2>1. \/ j \in 1..NREGS /\ o = setRegisterValues(j - 1, 0)
        \/ j = NREGS + 1 /\ o = Ir("first", 0, 0, 0)
    BY <1>0, <1>1 DEF Begins, PrologueCode
  <2> QED
    BY <1>1, <2>1, IrFields DEF Begins, setRegisterValues
<1>2. CASE Works(p, l, j, o)
  BY <1>2, StraightEmits DEF Works
<1>3. CASE Aims(p, l, j, o)
  BY <1>3, IrFields DEF Aims, targetIndex
<1>4. CASE Follows(p, l, j, o) \/ Halts(p, l, j, o) \/ Leaves(p, l, j, o)
  BY <1>4, Terminators DEF Follows, Halts, Leaves
<1>5. CASE Switches(p, l, j, o) \/ Returns(p, l, j, o)
  BY <1>5, Terminators DEF Switches, Returns
<1> QED
  BY <1>1, <1>2, <1>3, <1>4, <1>5 DEF Place

\* The place of a running function, in constants.
Where(g, h, p, l, j, o) ==
    /\ builder = Fn(g, h) /\ builder.blocks = g /\ program = p /\ at[1] = l /\ at[2] = j
    /\ Complete(g, p) /\ l \in DOMAIN g /\ j \in DOMAIN g[l] /\ j \in Nat /\ l \in Int
    /\ o = g[l][j] /\ o = Ahead /\ Place(p, l, j, o)
    /\ p \in Seq(U32) /\ Len(p) \in Nat

LEMMA Somewhere ==
    ASSUME OptInv, phase = "running"
    PROVE  \E g, h, p, l, j, o : Where(g, h, p, l, j, o)
<1>1. PICK p, l, j : p = program /\ l = at[1] /\ j = at[2]
  OBVIOUS
<1>2. p \in Seq(U32) /\ Len(p) \in Nat
  BY <1>1 DEF OptInv, Machine
<1>3. PICK g, h : builder = Fn(g, h) /\ Complete(g, p)
  BY <1>1 DEF OptInv, Building, Done
<1>4. builder.blocks = g
  BY <1>3 DEF Fn
<1>5. l \in DOMAIN g /\ j \in DOMAIN g[l]
  BY <1>1, <1>4 DEF OptInv, Executing, Standing, Has
<1>6. PICK o : o = g[l][j]
  OBVIOUS
<1>7. Place(p, l, j, o) /\ j \in Nat
  BY <1>2, <1>3, <1>5, <1>6, BlockCode, BlockEnd
<1>8. l \in Int
  BY <1>2, <1>3, <1>5 DEF Complete, Others, Blocks, Halt, Dispatch
<1>9. o = Ahead
  BY <1>1, <1>4, <1>6 DEF Ahead
<1>10. Where(g, h, p, l, j, o)
  BY <1>1, <1>2, <1>3, <1>4, <1>5, <1>6, <1>7, <1>8, <1>9 DEF Where
<1> QED
  BY <1>10

\* The word of a block, and the registers that its instruction names.
LEMMA WordFields ==
    ASSUME NEW p \in Seq(U32), NEW l \in 0..Len(p) - 1
    PROVE  /\ p[l + 1] \in U32 /\ p[l + 1] \in Nat
           /\ reg_a(p[l + 1]) \in Reg /\ reg_b(p[l + 1]) \in Reg /\ reg_c(p[l + 1]) \in Reg
           /\ lv_reg(p[l + 1]) \in Reg /\ lv_val(p[l + 1]) \in U32
<1>1. p[l + 1] \in U32 /\ p[l + 1] \in Nat
  <2>1. l + 1 \in 1..Len(p)
    OBVIOUS
  <2> QED
    BY <2>1, ElementOfSeq, Virt32Assumption DEF U32
<1>2. OP_UNIT \in Nat /\ GB4 \in Nat /\ OP_UNIT <= GB4
  <2>1. OP_UNIT \in Nat
    BY <1>1, FieldsInRange
  <2>2. GB4 = 16 * OP_UNIT
    BY OptJitAssumption
  <2> QED
    BY <2>1, <2>2
<1>3. PICK w : w = p[l + 1]
  OBVIOUS
<1>4. /\ reg_a(w) \in Reg /\ reg_b(w) \in Reg /\ reg_c(w) \in Reg
      /\ lv_reg(w) \in Reg /\ lv_val(w) \in 0..OP_UNIT - 1
  BY <1>1, <1>3, FieldsInRange
<1>5. \A v \in 0..OP_UNIT - 1 : v \in U32
  BY <1>2 DEF U32
<1> QED
  BY <1>1, <1>3, <1>4, <1>5

-----------------------------------------------------------------------------
\* The steps of the function keep the invariant.

LEMMA HeapStays == ASSUME EmptyHeap, UNCHANGED vars PROVE EmptyHeap'
BY DEF vars, EmptyHeap, OneBlock, Carved, Slots

\* A step to the next instruction of a block.
LEMMA GoesOn ==
    ASSUME OptInv, phase = "running", NEW g, NEW h, NEW p, NEW l, NEW j, NEW o,
           Where(g, h, p, l, j, o), ~IsTerminator(o), GoOn, UNCHANGED compiled, EmptyHeap',
           regs' \in [Reg -> U32], jump' \in U32, out' \in Seq(0..BYTE - 1),
           l = Entry => \A r \in Reg : r < j => regs'[r] = 0,
           Operates(p, l, 12) => jump' < Len(p)
    PROVE  OptInv'
<1>1. /\ builder = Fn(g, h) /\ builder.blocks = g /\ program = p /\ at[1] = l /\ at[2] = j
      /\ Complete(g, p) /\ l \in DOMAIN g /\ j \in DOMAIN g[l] /\ o = g[l][j]
      /\ Len(p) \in Nat /\ l \in Int /\ j \in Nat /\ Place(p, l, j, o)
  BY DEF Where
<1>2. /\ program' = p /\ phase' = "running" /\ builder' = builder /\ next' = next
      /\ at' = <<l, j + 1>>
  BY <1>1 DEF compiled, GoOn
<1>3. j + 1 \in DOMAIN g[l]
  BY <1>1, BlockEnd
<1>4. l # Dispatch
  <2>1. l = Dispatch => Switches(p, l, j, o)
    BY <1>1, PlaceOps DEF Works, Aims, Follows, Halts, Leaves, Returns, Operates, Dispatch,
       Entry, Halt
  <2>2. Switches(p, l, j, o) => IsTerminator(o)
    BY Terminators DEF Switches
  <2> QED
    BY <2>1, <2>2
<1>5. at'[1] = l /\ at'[2] = j + 1
  BY <1>2
<1>6. Standing(l, j + 1)'
  BY <1>1, <1>2, <1>3 DEF Standing, Has
<1>7. Zeroed(l, j + 1)'
  <2>1. \A r \in Reg : r \in Int
    BY IsaAssumption DEF Reg
  <2> QED
    BY <1>1, <2>1 DEF Zeroed
<1>8. Aimed(l, j + 1)'
  BY <1>2, <1>4 DEF Aimed
<1>9. Executing'
  BY <1>5, <1>6, <1>7, <1>8 DEF Executing, Standing, Zeroed, Aimed, Has
<1>10. Machine'
  BY <1>1, <1>2 DEF OptInv, Machine
<1>11. Building'
  BY <1>1, <1>2 DEF OptInv, Building, Done
<1> QED
  BY <1>9, <1>10, <1>11 DEF OptInv

\* A step to the beginning of a block.
LEMMA Branches ==
    ASSUME OptInv, phase = "running", NEW g, NEW h, NEW p, NEW l, NEW j, NEW o, NEW x,
           Where(g, h, p, l, j, o), x \in DOMAIN g, at' = <<x, 1>>,
           UNCHANGED <<vars, compiled, regs, jump, out>>, x = Dispatch => jump < Len(p)
    PROVE  OptInv'
<1>1. /\ builder = Fn(g, h) /\ builder.blocks = g /\ program = p
      /\ Complete(g, p) /\ Len(p) \in Nat
  BY DEF Where
<1>2. /\ program' = p /\ phase' = "running" /\ builder' = builder /\ next' = next
      /\ regs' = regs /\ jump' = jump /\ out' = out /\ UNCHANGED vars
  BY <1>1 DEF compiled
<1>3. 1 \in DOMAIN g[x]
  BY <1>1, BlockEnd
<1>4. at'[1] = x /\ at'[2] = 1
  OBVIOUS
<1>5. Standing(x, 1)'
  BY <1>1, <1>2, <1>3 DEF Standing, Has
<1>6. Zeroed(x, 1)'
  <2>1. \A r \in Reg : ~(r + 1 < 1)
    BY IsaAssumption DEF Reg
  <2> QED
    BY <2>1 DEF Zeroed
<1>7. Aimed(x, 1)'
  BY <1>2 DEF Aimed
<1>8. Executing'
  BY <1>4, <1>5, <1>6, <1>7 DEF Executing, Standing, Zeroed, Aimed, Has
<1>9. Machine'
  BY <1>1, <1>2 DEF OptInv, Machine
<1>10. Building'
  BY <1>1, <1>2 DEF OptInv, Building, Done
<1>11. EmptyHeap'
  BY <1>2, HeapStays DEF OptInv
<1> QED
  BY <1>8, <1>9, <1>10, <1>11 DEF OptInv

\* What a step that runs an instruction named in ops knows.
LEMMA Running ==
    ASSUME OptInv, NEW ops, Runs(ops)
    PROVE  \E g, h, p, l, j, o :
              Where(g, h, p, l, j, o) /\ o.op \in ops /\ phase = "running" /\ Finished
<1>1. phase = "running" /\ Finished /\ Ahead.op \in ops
  BY DEF Runs
<1>2. PICK g, h, p, l, j, o : Where(g, h, p, l, j, o)
  BY <1>1, Somewhere
<1>3. o = Ahead
  BY <1>2 DEF Where
<1> QED
  BY <1>1, <1>2, <1>3

\* The word that a block is for, and what the compiler has finished of it.
LEMMA FinishedWord ==
    ASSUME NEW g, NEW h, NEW p, NEW l, NEW j, NEW o, Where(g, h, p, l, j, o), Finished,
           l \in 0..Len(p) - 1, j = 1
    PROVE  LET w == p[l + 1]
           IN  /\ opcode(w) = 5 => regs[reg_c(w)] # 0
               /\ opcode(w) = 8 => regs[reg_c(w)] = 0 /\ FitsHeap(0)
               /\ opcode(w) = 9 => regs[reg_c(w)] \in mapped
               /\ opcode(w) = 10 => regs[reg_c(w)] < BYTE
               /\ opcode(w) = 12 => regs[reg_b(w)] = 0 /\ regs[reg_c(w)] < Len(p)
               /\ opcode(w) \notin {1, 2, 14, 15}
<1>1. program = p /\ at[1] = l /\ at[2] = j
  BY DEF Where
<1>2. InProgram
  BY <1>1 DEF InProgram
<1> QED
  BY <1>1, <1>2 DEF Finished

\* The value that a computing word stores is a word.
LEMMA ResultIsWord ==
    ASSUME OptInv, NEW g, NEW h, NEW p, NEW l, NEW j, NEW o, Where(g, h, p, l, j, o),
           l \in 0..Len(p) - 1, Computes(p[l + 1], o), opcode(p[l + 1]) = 5 => C # 0
    PROVE  Result \in U32
<1>1. PICK w : w = p[l + 1]
  OBVIOUS
<1>2. /\ w \in U32 /\ reg_a(w) \in Reg /\ reg_b(w) \in Reg /\ reg_c(w) \in Reg
      /\ lv_val(w) \in U32
  BY <1>1, WordFields DEF Where
<1>3. o = Ahead /\ regs \in [Reg -> U32]
  BY DEF Where, OptInv, Machine
<1>4. CASE o = setRegisterValues(lv_reg(w), lv_val(w))
  <2>1. Ahead.op = "set" /\ Ahead.b = lv_val(w)
    BY <1>3, <1>4, IrFields DEF setRegisterValues
  <2> QED
    BY <1>2, <2>1 DEF Result
<1>5. ASSUME NEW name, o = Ir(name, reg_a(w), reg_b(w), reg_c(w))
      PROVE  /\ Ahead.op = name /\ regs[Ahead.a] \in U32 /\ B \in U32 /\ C \in U32
             /\ B \in Nat /\ C \in Nat
  <2>1. /\ Ahead.op = name /\ Ahead.a = reg_a(w) /\ Ahead.b = reg_b(w) /\ Ahead.c = reg_c(w)
    BY <1>3, <1>5, IrFields
  <2> QED
    BY <1>2, <1>3, <2>1, Virt32Assumption DEF B, C, U32
<1>6. CASE o = conditionalMove(reg_a(w), reg_b(w), reg_c(w))
  <2>1. Ahead.op = "select" /\ regs[Ahead.a] \in U32 /\ B \in U32
    BY <1>5, <1>6 DEF conditionalMove
  <2>2. Result = IF C # 0 THEN B ELSE regs[Ahead.a]
    BY <2>1 DEF Result
  <2> QED
    BY <2>1, <2>2
<1>7. CASE o = compileAddition(reg_a(w), reg_b(w), reg_c(w))
  <2>1. Ahead.op = "add" /\ B \in Nat /\ C \in Nat
    BY <1>5, <1>7 DEF compileAddition
  <2>2. Result = Wrap(B + C)
    BY <2>1 DEF Result, CreateAdd
  <2> QED
    BY <2>1, <2>2, WrapRange
<1>8. CASE o = compileMul(reg_a(w), reg_b(w), reg_c(w))
  <2>1. Ahead.op = "mul" /\ B \in Nat /\ C \in Nat
    BY <1>5, <1>8 DEF compileMul
  <2>2. Result = Wrap(B * C)
    BY <2>1 DEF Result
  <2>3. B * C \in Int
    BY <2>1
  <2> QED
    BY <2>2, <2>3, WrapRange
<1>9. CASE o = compileDiv(reg_a(w), reg_b(w), reg_c(w)) /\ opcode(w) = 5
  <2>1. Ahead.op = "udiv" /\ B \in U32 /\ C \in U32
    BY <1>5, <1>9 DEF compileDiv
  <2>2. Result = B \div C
    BY <2>1 DEF Result
  <2> QED
    BY <1>1, <1>9, <2>1, <2>2, QuotientBound
<1>10. CASE o = compileNand(reg_a(w), reg_b(w), reg_c(w))
  <2>1. Ahead.op = "nand" /\ B \in U32 /\ C \in U32
    BY <1>5, <1>10 DEF compileNand
  <2>2. Result = GB4 - 1 - And(B, C)
    BY <2>1 DEF Result
  <2>3. And(B, C) \in U32 /\ GB4 \in Nat
    BY <2>1, OptJitAssumption, Virt32Assumption
  <2> QED
    BY <2>2, <2>3 DEF U32
<1> QED
  BY <1>1, <1>4, <1>6, <1>7, <1>8, <1>9, <1>10 DEF Computes

\* What a step of an instruction within a block leaves alone.
LEMMA SmallFacts ==
    ASSUME OptInv, phase = "running", NEW g, NEW h, NEW p, NEW l, NEW j, NEW o, Where(g, h, p, l, j, o)
    PROVE  /\ regs \in [Reg -> U32] /\ jump \in U32 /\ out \in Seq(0..BYTE - 1) /\ EmptyHeap
           /\ l = Entry => \A r \in Reg : r + 1 < j => regs[r] = 0
           /\ l \in Int /\ j \in Nat /\ Len(p) \in Nat /\ Place(p, l, j, o)
           /\ program = p /\ o = Ahead /\ 0 \in U32 /\ at[1] = l /\ at[2] = j /\ p \in Seq(U32)
<1>1. /\ regs \in [Reg -> U32] /\ jump \in U32 /\ out \in Seq(0..BYTE - 1) /\ EmptyHeap
  BY DEF OptInv, Machine
<1>2. /\ l \in Int /\ j \in Nat /\ Len(p) \in Nat /\ Place(p, l, j, o)
      /\ program = p /\ o = Ahead /\ at[1] = l /\ at[2] = j /\ p \in Seq(U32)
  BY DEF Where
<1>3. l = Entry => \A r \in Reg : r + 1 < j => regs[r] = 0
  BY <1>2 DEF OptInv, Executing, Zeroed
<1>4. 0 \in U32
  BY Virt32Assumption DEF U32, BOOK_SIZE
<1> QED
  BY <1>1, <1>2, <1>3, <1>4

LEMMA ComputeKeeps == ASSUME OptInv, Compute PROVE OptInv'
<1>1. Runs(Calculates) /\ regs' = [regs EXCEPT ![Ahead.a] = Result] /\ GoOn
      /\ UNCHANGED <<vars, compiled, jump, out>>
  BY DEF Compute, Calculates
<1>2. PICK g, h, p, l, j, o :
         Where(g, h, p, l, j, o) /\ o.op \in Calculates /\ phase = "running" /\ Finished
  BY <1>1, Running
<1>3. /\ regs \in [Reg -> U32] /\ jump \in U32 /\ out \in Seq(0..BYTE - 1) /\ EmptyHeap
      /\ l = Entry => \A r \in Reg : r + 1 < j => regs[r] = 0
      /\ l \in Int /\ j \in Nat /\ Len(p) \in Nat /\ Place(p, l, j, o) /\ o = Ahead /\ 0 \in U32
  BY <1>2, SmallFacts
<1>4. /\ EmptyHeap' /\ jump' = jump /\ out' = out /\ UNCHANGED compiled
  BY <1>1, <1>3, HeapStays
<1>5. ~IsTerminator(o)
  BY <1>2 DEF Calculates, IsTerminator
<1>6. CASE l = Entry /\ j \in 1..NREGS /\ o = setRegisterValues(j - 1, 0)
  <2>1. Ahead.op = "set" /\ Ahead.a = j - 1 /\ Ahead.b = 0
    BY <1>3, <1>6, IrFields DEF setRegisterValues
  <2>2. regs' = [regs EXCEPT ![j - 1] = 0]
    BY <1>1, <2>1 DEF Result
  <2>3. regs' \in [Reg -> U32]
    BY <1>3, <2>2
  <2>4. \A r \in Reg : r < j => regs'[r] = 0
    <3>1. \A r \in Reg : r \in Int
      BY IsaAssumption DEF Reg
    <3> QED
      BY <1>3, <1>6, <2>2, <3>1
  <2>5. ~Operates(p, l, 12)
    BY <1>6 DEF Operates, Entry
  <2> QED
    BY <1>1, <1>2, <1>3, <1>4, <1>5, <2>3, <2>4, <2>5, GoesOn
<1>7. CASE Works(p, l, j, o) /\ Computes(p[l + 1], o)
  <2>1. l \in 0..Len(p) - 1 /\ j = 1 /\ l # Entry /\ ~Operates(p, l, 12)
    BY <1>7 DEF Works, Leaps, Entry
  <2>2. opcode(p[l + 1]) = 5 => C # 0
    <3>1. opcode(p[l + 1]) = 5 => regs[reg_c(p[l + 1])] # 0
      BY <1>2, <2>1, FinishedWord
    <3>2. opcode(p[l + 1]) = 5 => Ahead.c = reg_c(p[l + 1])
      BY <1>3, <1>7, IrFields DEF Computes, compileDiv
    <3> QED
      BY <3>1, <3>2 DEF C
  <2>3. Result \in U32
    BY <1>2, <1>7, <2>1, <2>2, ResultIsWord
  <2>4. regs' \in [Reg -> U32]
    BY <1>1, <1>3, <2>3
  <2> QED
    BY <1>1, <1>2, <1>3, <1>4, <1>5, <2>1, <2>4, GoesOn
<1> QED
  BY <1>2, <1>3, <1>6, <1>7, PlaceOps DEF Emits, Calculates

\* The step of an instruction that a word is compiled to.
LEMMA WordGoesOn ==
    ASSUME OptInv, phase = "running", NEW g, NEW h, NEW p, NEW l, NEW j, NEW o,
           Where(g, h, p, l, j, o), Works(p, l, j, o), ~IsTerminator(o), GoOn,
           UNCHANGED compiled, EmptyHeap', regs' \in [Reg -> U32], jump' = jump,
           out' \in Seq(0..BYTE - 1)
    PROVE  OptInv'
<1>1. l \in 0..Len(p) - 1 /\ l # Entry /\ ~Operates(p, l, 12)
  BY DEF Works, Leaps, Entry
<1>2. jump' \in U32
  BY SmallFacts
<1> QED
  BY <1>1, <1>2, GoesOn

LEMMA MapKeeps == ASSUME OptInv, map PROVE OptInv' /\ \E id : ServedEmpty(id)
<1>1. /\ Runs({"vs_calloc"}) /\ vs_calloc(C) /\ regs' = [regs EXCEPT ![Ahead.b] = served(C)]
      /\ GoOn /\ UNCHANGED <<compiled, jump, out>>
  BY DEF map
<1>2. PICK g, h, p, l, j, o :
         Where(g, h, p, l, j, o) /\ o.op = "vs_calloc" /\ phase = "running" /\ Finished
  BY <1>1, Running
<1>3. /\ regs \in [Reg -> U32] /\ out \in Seq(0..BYTE - 1) /\ EmptyHeap
      /\ Place(p, l, j, o) /\ o = Ahead
  BY <1>2, SmallFacts
<1>4. Works(p, l, j, o) /\ opcode(p[l + 1]) = 8 /\ o = compileMap(reg_b(p[l + 1]), reg_c(p[l + 1]))
  BY <1>2, <1>3, PlaceOps DEF Emits
<1>5. regs[reg_c(p[l + 1])] = 0 /\ FitsHeap(0)
  BY <1>2, <1>4, FinishedWord DEF Works
<1>6. C = 0
  BY <1>3, <1>4, <1>5, IrFields DEF C, compileMap
<1>7. EmptyHeap' /\ \E id : ServedEmpty(id)
  BY <1>1, <1>3, <1>5, <1>6, CarveEmpty, RecycleEmpty DEF vs_calloc
<1>8. regs' \in [Reg -> U32]
  BY <1>1, <1>3, <1>6, <1>7 DEF ServedEmpty
<1>9. ~IsTerminator(o)
  BY <1>2 DEF IsTerminator
<1> QED
  BY <1>1, <1>2, <1>3, <1>4, <1>7, <1>8, <1>9, WordGoesOn

LEMMA UnmapKeeps ==
    ASSUME OptInv, unmap PROVE OptInv' /\ C \in mapped /\ mapped' = mapped \ {C}
<1>1. Runs({"vs_free"}) /\ vs_free(C) /\ GoOn /\ UNCHANGED <<compiled, regs, jump, out>>
  BY DEF unmap
<1>2. PICK g, h, p, l, j, o :
         Where(g, h, p, l, j, o) /\ o.op = "vs_free" /\ phase = "running" /\ Finished
  BY <1>1, Running
<1>3. /\ regs \in [Reg -> U32] /\ out \in Seq(0..BYTE - 1) /\ EmptyHeap
      /\ Place(p, l, j, o) /\ o = Ahead
  BY <1>2, SmallFacts
<1>4. Works(p, l, j, o) /\ opcode(p[l + 1]) = 9 /\ o = compileUnmap(reg_c(p[l + 1]))
  BY <1>2, <1>3, PlaceOps DEF Emits
<1>5. PICK id : id = C
  OBVIOUS
<1>6. id \in mapped
  <2>1. regs[reg_c(p[l + 1])] \in mapped
    BY <1>2, <1>4, FinishedWord DEF Works
  <2>2. Ahead.c = reg_c(p[l + 1])
    BY <1>3, <1>4, IrFields DEF compileUnmap
  <2> QED
    BY <1>5, <2>1, <2>2 DEF C
<1>7. vs_free(id)
  BY <1>1, <1>5 DEF vs_free
<1>8. EmptyHeap' /\ mapped' = mapped \ {id}
  BY <1>3, <1>6, <1>7, FreeEmpty
<1>9. ~IsTerminator(o)
  BY <1>2 DEF IsTerminator
<1>10. OptInv'
  BY <1>1, <1>2, <1>3, <1>4, <1>8, <1>9, WordGoesOn
<1> QED
  BY <1>5, <1>6, <1>8, <1>10

LEMMA PrintKeeps == ASSUME OptInv, print PROVE OptInv'
<1>1. /\ Runs({"putchar"}) /\ out' = Append(out, C % BYTE)
      /\ GoOn /\ UNCHANGED <<vars, compiled, regs, jump>>
  BY DEF print
<1>2. PICK g, h, p, l, j, o :
         Where(g, h, p, l, j, o) /\ o.op = "putchar" /\ phase = "running" /\ Finished
  BY <1>1, Running
<1>3. /\ regs \in [Reg -> U32] /\ out \in Seq(0..BYTE - 1) /\ EmptyHeap
      /\ Place(p, l, j, o) /\ o = Ahead /\ p \in Seq(U32)
  BY <1>2, SmallFacts
<1>4. Works(p, l, j, o) /\ o = printRegister(reg_c(p[l + 1]))
  BY <1>2, <1>3, PlaceOps DEF Emits
<1>5. reg_c(p[l + 1]) \in Reg
  BY <1>3, <1>4, WordFields DEF Works
<1>6. Ahead.c = reg_c(p[l + 1])
  BY <1>3, <1>4, IrFields DEF printRegister
<1>7. C \in Nat /\ BYTE \in Nat \ {0}
  BY <1>3, <1>5, <1>6, Virt32Assumption, IsaAssumption DEF C, U32
<1>8. C % BYTE \in 0..BYTE - 1
  BY <1>7
<1>9. out' \in Seq(0..BYTE - 1)
  BY <1>1, <1>3, <1>8, AppendProperties
<1>10. ~IsTerminator(o)
  BY <1>2 DEF IsTerminator
<1>11. EmptyHeap' /\ UNCHANGED compiled /\ regs' = regs /\ jump' = jump
  BY <1>1, <1>3, HeapStays
<1> QED
  BY <1>1, <1>2, <1>3, <1>4, <1>9, <1>10, <1>11, WordGoesOn

LEMMA ReadKeeps == ASSUME OptInv, read PROVE OptInv'
<1>1. /\ Runs({"getchar"}) /\ GoOn /\ UNCHANGED <<vars, compiled, jump, out>>
  BY DEF read
<1>2. PICK value \in Input : regs' = [regs EXCEPT ![Ahead.c] = value]
  BY DEF read
<1>3. PICK g, h, p, l, j, o :
         Where(g, h, p, l, j, o) /\ o.op = "getchar" /\ phase = "running" /\ Finished
  BY <1>1, Running
<1>4. /\ regs \in [Reg -> U32] /\ out \in Seq(0..BYTE - 1) /\ EmptyHeap
      /\ Place(p, l, j, o) /\ o = Ahead
  BY <1>3, SmallFacts
<1>5. Works(p, l, j, o)
  BY <1>3, <1>4, PlaceOps
<1>6. regs' \in [Reg -> U32]
  BY <1>2, <1>4, OptJitAssumption
<1>7. ~IsTerminator(o)
  BY <1>3 DEF IsTerminator
<1>8. EmptyHeap' /\ UNCHANGED compiled /\ out' = out /\ jump' = jump
  BY <1>1, <1>4, HeapStays
<1> QED
  BY <1>1, <1>3, <1>4, <1>5, <1>6, <1>7, <1>8, WordGoesOn

LEMMA TargetKeeps == ASSUME OptInv, target PROVE OptInv'
<1>1. /\ Runs({"first", "target"}) /\ jump' = IF Ahead.op = "first" THEN 0 ELSE C
      /\ GoOn /\ UNCHANGED <<vars, compiled, regs, out>>
  BY DEF target
<1>2. PICK g, h, p, l, j, o : /\ Where(g, h, p, l, j, o) /\ o.op \in {"first", "target"}
                              /\ phase = "running" /\ Finished
  BY <1>1, Running
<1>3. /\ regs \in [Reg -> U32] /\ out \in Seq(0..BYTE - 1) /\ EmptyHeap
      /\ l = Entry => \A r \in Reg : r + 1 < j => regs[r] = 0
      /\ l \in Int /\ j \in Nat /\ Place(p, l, j, o) /\ o = Ahead /\ 0 \in U32 /\ p \in Seq(U32)
  BY <1>2, SmallFacts
<1>4. ~IsTerminator(o)
  BY <1>2 DEF IsTerminator
<1>5. EmptyHeap' /\ UNCHANGED compiled /\ out' = out /\ regs' = regs
  BY <1>1, <1>3, HeapStays
<1>6. CASE l = Entry /\ j = NREGS + 1 /\ o.op = "first"
  <2>1. jump' \in U32
    BY <1>1, <1>3, <1>6
  <2>2. \A r \in Reg : regs'[r] = 0
    BY <1>3, <1>5, <1>6, IsaAssumption DEF Reg
  <2>3. ~Operates(p, l, 12)
    BY <1>6 DEF Operates, Entry
  <2> QED
    BY <1>1, <1>2, <1>3, <1>4, <1>5, <2>1, <2>2, <2>3, GoesOn
<1>7. CASE Aims(p, l, j, o) /\ o.op = "target"
  <2>1. /\ l \in 0..Len(p) - 1 /\ l # Entry /\ j = 1 /\ opcode(p[l + 1]) = 12
        /\ o = targetIndex(reg_c(p[l + 1]))
    BY <1>7 DEF Aims, Operates, Entry
  <2>2. regs[reg_c(p[l + 1])] < Len(p) /\ reg_c(p[l + 1]) \in Reg
    BY <1>2, <1>3, <2>1, FinishedWord, WordFields
  <2>3. Ahead.c = reg_c(p[l + 1])
    BY <1>3, <2>1, IrFields DEF targetIndex
  <2>4. C \in U32 /\ C < Len(p)
    BY <1>3, <2>2, <2>3 DEF C
  <2>5. jump' \in U32 /\ jump' < Len(p)
    BY <1>1, <1>3, <1>7, <2>4
  <2> QED
    BY <1>1, <1>2, <1>3, <1>4, <1>5, <2>1, <2>5, GoesOn
<1> QED
  BY <1>2, <1>3, <1>6, <1>7, PlaceOps DEF Emits

\* The three branches of the compiled code, and the switch.
BranchTo(p, l, j, o, x) ==
    \/ Follows(p, l, j, o) /\ x = Behind(p, l)
    \/ Halts(p, l, j, o) /\ x = Halt
    \/ Leaves(p, l, j, o) /\ x = Dispatch /\ jump < Len(p)
    \/ Switches(p, l, j, o) /\ x = jump /\ jump < Len(p) /\ Len(p) > 0

LEMMA BranchGoes ==
    ASSUME OptInv, branch
    PROVE  \E g, h, p, l, j, o, x :
              /\ Where(g, h, p, l, j, o) /\ BranchTo(p, l, j, o, x) /\ at' = <<x, 1>>
              /\ x \in DOMAIN g /\ phase = "running" /\ Finished
<1>1. /\ Runs({"br", "switch"})
      /\ at' = <<IF Ahead.op = "br" THEN Ahead.a ELSE Case(jump), 1>>
  BY DEF branch
<1>2. PICK g, h, p, l, j, o : /\ Where(g, h, p, l, j, o) /\ o.op \in {"br", "switch"}
                              /\ phase = "running" /\ Finished
  BY <1>1, Running
<1>3. /\ Place(p, l, j, o) /\ o = Ahead /\ Complete(g, p) /\ l \in DOMAIN g /\ j \in DOMAIN g[l]
      /\ o = g[l][j] /\ program = p /\ at[1] = l /\ at[2] = j /\ Len(p) \in Nat
  BY <1>2 DEF Where
<1>4. PICK x : x = IF Ahead.op = "br" THEN Ahead.a ELSE Case(jump)
  OBVIOUS
<1>5. jump \in Nat
  BY Virt32Assumption DEF OptInv, Machine, U32
<1>6. CASE o.op = "br"
  <2>1. x = o.a
    BY <1>3, <1>4, <1>6
  <2>2. x \in DOMAIN g
    BY <1>3, <1>6, <2>1, BlockEnd
  <2>3. Follows(p, l, j, o) \/ Halts(p, l, j, o) \/ Leaves(p, l, j, o)
    BY <1>3, <1>6, PlaceOps DEF Emits
  <2>4. Leaves(p, l, j, o) => jump < Len(p)
    <3>1. Leaves(p, l, j, o) => Operates(p, l, 12) /\ j # 1
      BY DEF Leaves
    <3>2. Aimed(l, j)
      BY <1>2, <1>3 DEF OptInv, Executing
    <3> QED
      BY <1>3, <3>1, <3>2 DEF Aimed
  <2>5. BranchTo(p, l, j, o, x)
    BY <2>1, <2>3, <2>4, Terminators DEF BranchTo, Follows, Halts, Leaves
  <2> QED
    BY <1>1, <1>2, <1>4, <2>2, <2>5
<1>7. CASE o.op = "switch"
  <2>1. x = Case(jump)
    BY <1>3, <1>4, <1>7
  <2>2. Switches(p, l, j, o)
    BY <1>3, <1>7, PlaceOps DEF Emits
  <2>3. l = Dispatch /\ Len(p) > 0
    BY <2>2 DEF Switches
  <2>4. jump < Len(p)
    BY <1>2, <1>3, <2>3 DEF OptInv, Executing, Aimed
  <2>5. x = jump
    BY <1>3, <2>1, <2>4 DEF Case
  <2>6. x \in DOMAIN g
    BY <1>3, <1>5, <2>4, <2>5 DEF Complete, Blocks
  <2>7. BranchTo(p, l, j, o, x)
    BY <2>2, <2>3, <2>4, <2>5 DEF BranchTo
  <2> QED
    BY <1>1, <1>2, <1>4, <2>6, <2>7
<1> QED
  BY <1>2, <1>6, <1>7

LEMMA BranchKeeps == ASSUME OptInv, branch PROVE OptInv'
<1>1. PICK g, h, p, l, j, o, x :
         /\ Where(g, h, p, l, j, o) /\ BranchTo(p, l, j, o, x) /\ at' = <<x, 1>>
         /\ x \in DOMAIN g /\ phase = "running"
  BY BranchGoes
<1>2. UNCHANGED <<vars, compiled, regs, jump, out>>
  BY DEF branch
<1>3. jump \in Nat /\ Len(p) \in Nat
  BY <1>1, Virt32Assumption DEF OptInv, Machine, U32, Where
<1>4. x = Dispatch => jump < Len(p)
  <2>1. CASE Follows(p, l, j, o) /\ x = Behind(p, l)
    <3>1. l \in Int /\ l + 1 # Dispatch
      BY <2>1 DEF Follows, Entry, Dispatch
    <3>2. x # Dispatch
      BY <2>1, <3>1 DEF Behind, Halt, Dispatch
    <3> QED
      BY <3>2
  <2>2. CASE Halts(p, l, j, o) /\ x = Halt
    BY <2>2 DEF Halt, Dispatch
  <2> QED
    BY <1>1, <2>1, <2>2 DEF BranchTo
<1> QED
  BY <1>1, <1>2, <1>4, Branches

LEMMA ReturnKeeps == ASSUME OptInv, return PROVE OptInv'
<1>1. /\ phase = "running" /\ phase' = "returned"
      /\ UNCHANGED <<vars, program, builder, next, regs, jump, at, out, last>>
  BY DEF return, Runs
<1>2. EmptyHeap'
  BY <1>1, HeapStays DEF OptInv
<1>3. Machine'
  BY <1>1 DEF OptInv, Machine
<1>4. Building'
  BY <1>1 DEF OptInv, Building, Done
<1>5. Executing'
  BY <1>1 DEF OptInv, Executing, Standing, Zeroed, Aimed, Has
<1> QED
  BY <1>2, <1>3, <1>4, <1>5 DEF OptInv

-----------------------------------------------------------------------------
\* The steps of main keep the invariant.

LEMMA InitOptInv == ASSUME OptInit PROVE OptInv
<1>1. /\ program \in Seq(U32) /\ 4 * Len(program) <= GB4 - 16
  <2>1. /\ program \in Seq(Value) /\ 4 * Len(program) + Spare <= KERN_SIZE - 8
        /\ KERN_SIZE + 8 <= GB4 /\ KERN_SIZE \in Nat /\ GB4 \in Nat /\ Spare \in {0, 4}
    BY Virt32Assumption DEF OptInit, BOOK_SIZE
  <2>2. program \in Seq(U32) /\ Len(program) \in Nat
    BY <2>1, OptJitAssumption
  <2> QED
    BY <2>1, <2>2
<1>2. Len(program) \in Nat /\ 0 \in U32 /\ INIT_STACK_SIZE \in Nat \ {0} /\ GB4 \in Nat
  BY <1>1, Virt32Assumption DEF U32, BOOK_SIZE
<1>3. EmptyStack \in StackType /\ EmptyStack.stack = <<>>
  BY <1>2 DEF EmptyStack, StackType
<1>4. rec \in [0..REC_BUCKETS - 1 -> StackType] /\ rec[0].stack = <<>>
  BY <1>3, Sizes DEF OptInit
<1>5. Carved = {} /\ 1..Len(rec[0].stack) = {}
  <2>1. PICK n : n = Len(<<>>)
    OBVIOUS
  <2>2. n = 0 /\ 1..n = {}
    BY <2>1
  <2>3. 1..Len(rec[0].stack) = {}
    BY <1>4, <2>1, <2>2
  <2>4. mapped = {}
    BY DEF OptInit
  <2>5. Slots = {}
    BY <2>3 DEF Slots
  <2> QED
    BY <2>3, <2>4, <2>5 DEF Carved
<1>6. EmptyHeap
  <2>1. mem \in [0..GB4 \div 4 - 1 -> U32]
    BY <1>2 DEF OptInit
  <2>2. start_unused \in Nat /\ start_unused % 4 = 0 /\ start_unused <= GB4 - 8
    BY <1>1, <1>2 DEF OptInit
  <2> QED
    BY <1>4, <1>5, <2>1, <2>2 DEF EmptyHeap
<1>7. Machine
  <2>1. regs \in [Reg -> U32] /\ jump \in U32
    BY OptJitAssumption DEF OptInit
  <2>2. out \in Seq(0..BYTE - 1) /\ next \in 0..Len(program)
    BY <1>2 DEF OptInit
  <2> QED
    BY <1>1, <2>1, <2>2 DEF Machine
<1>8. Building
  BY <1>5 DEF Building, OptInit
<1>9. Executing
  BY DEF Executing, OptInit
<1> QED
  BY <1>6, <1>7, <1>8, <1>9 DEF OptInv

LEMMA LabelsKeep == ASSUME OptInv, createInstructionLabels PROVE OptInv'
<1>1. /\ phase = "constructed" /\ phase' = "compiling"
      /\ UNCHANGED <<vars, program, next, regs, jump, at, out, last>>
  BY DEF createInstructionLabels
<1>2. builder = Constructed /\ next = 0 /\ program \in Seq(U32) /\ at = <<Entry, 1>> /\ Carved = {}
  BY <1>1 DEF OptInv, Building, Machine
<1>3. PICK p, f : /\ p = program
                  /\ f = [Constructed EXCEPT !.blocks =
                             [l \in {Entry} \cup 0..Len(p) - 1 |->
                                 IF l = Entry THEN Constructed.blocks[Entry] ELSE <<>>]]
  OBVIOUS
<1>4. builder' = IF p = <<>> THEN f ELSE Insert(f, <<Br(0)>>)
  BY <1>2, <1>3 DEF createInstructionLabels
<1>5. Advanced(builder', p, 0)
  BY <1>2, <1>3, <1>4, LabelsCreated
<1>6. Carved' = {}
  BY <1>1, <1>2 DEF Carved, Slots, vars
<1>7. Building'
  BY <1>1, <1>2, <1>3, <1>5, <1>6 DEF Building, Advanced
<1>8. EmptyHeap' /\ Machine' /\ Executing'
  BY <1>1, HeapStays DEF OptInv, Machine, Executing
<1> QED
  BY <1>7, <1>8 DEF OptInv

LEMMA CompileKeeps == ASSUME OptInv, compileInstruction PROVE OptInv'
<1>1. /\ phase = "compiling" /\ next < Len(program) /\ next' = next + 1
      /\ builder' = instruction(builder, program[next + 1], next)
      /\ mem' = set_at(mem, 4 * (next \div 4), program[next + 1])
      /\ UNCHANGED <<alloc, program, phase, regs, jump, at, out>>
  BY DEF compileInstruction
<1>2. PICK p, k : p = program /\ k = next
  OBVIOUS
<1>3. /\ p \in Seq(U32) /\ Len(p) \in Nat /\ k \in 0..Len(p) - 1
      /\ Advanced(builder, p, k) /\ at = <<Entry, 1>> /\ Carved = {}
  BY <1>1, <1>2 DEF OptInv, Building, Machine
<1>4. PICK g, h : builder = Fn(g, h) /\ Compiling(g, p, k)
  BY <1>3 DEF Advanced
<1>5. Advanced(builder', p, k + 1)
  BY <1>1, <1>2, <1>3, <1>4, WordCompiled
<1>6. Carved' = {} /\ Slots' = {} /\ mapped' = {} /\ rec' = rec /\ start_unused' = start_unused
  BY <1>1, <1>3 DEF Carved, Slots, alloc
<1>7. Building'
  BY <1>1, <1>2, <1>3, <1>5, <1>6 DEF Building, Advanced
<1>8. EmptyHeap'
  <2>1. p[k + 1] \in U32
    BY <1>3, WordFields
  <2>2. mem' \in [0..GB4 \div 4 - 1 -> U32]
    BY <1>1, <1>2, <2>1 DEF OptInv, EmptyHeap, set_at
  <2> QED
    BY <1>6, <2>2 DEF OptInv, EmptyHeap
<1>9. Machine'
  BY <1>1, <1>2, <1>3 DEF OptInv, Machine
<1>10. Executing'
  BY <1>1 DEF Executing
<1> QED
  BY <1>7, <1>8, <1>9, <1>10 DEF OptInv

LEMMA FinishKeeps == ASSUME OptInv, finishProgram PROVE OptInv'
<1>1. /\ phase = "compiling" /\ next = Len(program) /\ builder' = finished(builder)
      /\ phase' = "compiled" /\ UNCHANGED <<vars, program, next, regs, jump, at, out, last>>
  BY DEF finishProgram
<1>2. PICK p : p = program
  OBVIOUS
<1>3. /\ Len(p) \in Nat /\ Advanced(builder, p, Len(p)) /\ at = <<Entry, 1>> /\ Carved = {}
  BY <1>1, <1>2 DEF OptInv, Building, Machine
<1>4. PICK g : builder = Fn(g, Len(p) - 1) /\ Compiling(g, p, Len(p))
  BY <1>3 DEF Advanced
<1>5. Done(builder', p)
  BY <1>1, <1>3, <1>4, ProgramFinished
<1>6. Carved' = {}
  BY <1>1, <1>3 DEF Carved, Slots, vars
<1>7. Building'
  BY <1>1, <1>2, <1>3, <1>5, <1>6 DEF Building, Done
<1>8. EmptyHeap' /\ Machine' /\ Executing'
  BY <1>1, HeapStays DEF OptInv, Machine, Executing
<1> QED
  BY <1>7, <1>8 DEF OptInv

LEMMA ExecuteKeeps == ASSUME OptInv, executeJIT PROVE OptInv'
<1>1. /\ phase = "compiled" /\ phase' = IF WellFormed(builder) THEN "running" ELSE "refused"
      /\ UNCHANGED <<vars, program, builder, next, regs, jump, at, out, last>>
  BY DEF executeJIT
<1>2. PICK p : p = program
  OBVIOUS
<1>3. Len(p) \in Nat /\ Done(builder, p) /\ at = <<Entry, 1>>
  BY <1>1, <1>2 DEF OptInv, Building, Machine
<1>4. PICK g, h : builder = Fn(g, h) /\ Complete(g, p)
  BY <1>3 DEF Done
<1>5. phase' = "running"
  BY <1>1, <1>3, <1>4, CompleteVerifies
<1>6. builder.blocks = g /\ Entry \in DOMAIN g /\ 1 \in DOMAIN g[Entry]
  <2>1. Entry \in DOMAIN g
    BY <1>3, <1>4 DEF Complete, Blocks, Entry
  <2> QED
    BY <1>3, <1>4, <2>1, BlockEnd DEF Fn
<1>7. Standing(Entry, 1)' /\ at'[1] = Entry /\ at'[2] = 1
  BY <1>1, <1>3, <1>6 DEF Standing, Has
<1>8. Zeroed(Entry, 1)' /\ Aimed(Entry, 1)'
  <2>1. \A r \in Reg : ~(r + 1 < 1)
    BY IsaAssumption DEF Reg
  <2>2. Entry # Dispatch
    BY DEF Entry, Dispatch
  <2> QED
    BY <2>1, <2>2 DEF Zeroed, Aimed
<1>9. Executing'
  BY <1>7, <1>8 DEF Executing, Standing, Zeroed, Aimed, Has
<1>10. Building'
  BY <1>1, <1>2, <1>3, <1>5 DEF Building, Done
<1>11. EmptyHeap' /\ Machine'
  BY <1>1, HeapStays DEF OptInv, Machine
<1> QED
  BY <1>9, <1>10, <1>11 DEF OptInv

LEMMA StutterKeeps64 == ASSUME OptInv, UNCHANGED <<vars, opt>> PROVE OptInv'
<1>1. UNCHANGED <<vars, program, phase, builder, next, regs, jump, at, out>>
  BY DEF opt
<1>2. Carved' = Carved
  BY <1>1 DEF Carved, Slots, vars
<1>3. EmptyHeap' /\ Machine'
  BY <1>1, HeapStays DEF OptInv, Machine
<1>4. Building'
  BY <1>1, <1>2 DEF OptInv, Building, Advanced, Done
<1>5. Executing'
  BY <1>1 DEF OptInv, Executing, Standing, Zeroed, Aimed, Has
<1> QED
  BY <1>3, <1>4, <1>5 DEF OptInv

-----------------------------------------------------------------------------
\* The compiler and the compiled function keep OptInv, whatever the program and
\* its input.
THEOREM OptInvariant == OptSpec => []OptInv
<1>1. OptInit => OptInv
  BY InitOptInv
<1>2. OptInv /\ [OptNext]_<<vars, opt>> => OptInv'
  <2>1. ASSUME OptInv, OptNext PROVE OptInv'
    BY <2>1, LabelsKeep, CompileKeeps, FinishKeeps, ExecuteKeeps, ComputeKeeps, MapKeeps,
       UnmapKeeps, PrintKeeps, ReadKeeps, TargetKeeps, BranchKeeps, ReturnKeeps DEF OptNext
  <2> QED
    BY <2>1, StutterKeeps64
<1> QED
  BY <1>1, <1>2, PTL DEF OptSpec

\* Whatever the program, executeJIT finds a function that verifies.
THEOREM AlwaysVerifies == OptSpec => []NeverRefused
<1>1. OptInv => NeverRefused
  BY DEF OptInv, Building, NeverRefused
<1> QED
  BY <1>1, OptInvariant, PTL

\* Registers, jump target and output keep their types, and the function runs
\* nowhere but in its blocks.
THEOREM OptTypeCorrect == OptSpec => []OptTypeOK
<1>1. OptInv => OptTypeOK
  BY DEF OptInv, Machine, Executing, Standing, Has, OptTypeOK
<1> QED
  BY <1>1, OptInvariant, PTL

-----------------------------------------------------------------------------
\* The compiled function is a UM.

\* The memory as the UM sees it, and what the invariant makes of it.
Shown == [id \in Segments |-> IF id = 0 THEN program ELSE Contents(id)]
Nothing == [i \in 1..0 |-> 0]
Heap == [id \in mapped \cup {0} |-> IF id = 0 THEN program ELSE Nothing]

LEMMA HeapShown == EmptyHeap => Shown = Heap /\ 0 \notin mapped
<1> SUFFICES ASSUME EmptyHeap PROVE Shown = Heap /\ 0 \notin mapped
  OBVIOUS
<1>1. \A id \in mapped : OneBlock(id)
  BY DEF EmptyHeap, Carved
<1>2. 0 \notin mapped
  BY <1>1 DEF OneBlock
<1>3. ASSUME NEW id \in mapped PROVE Contents(id) = Nothing
  <2>1. mem[id \div 4 + 1] = 0 /\ id \in Nat /\ id % 4 = 0
    BY <1>1, <1>3, Virt32Assumption DEF OneBlock, U32
  <2>2. SizeOf(id) = 0
    <3>1. SizeCell(id) = id \div 4 + 1
      BY <2>1 DEF SizeCell, Cell, BOOK_SIZE
    <3> QED
      BY <2>1, <3>1 DEF SizeOf
  <2>3. PICK n : n = SizeOf(id) \div 4
    OBVIOUS
  <2>4. n = 0
    BY <2>2, <2>3
  <2> QED
    BY <2>3, <2>4 DEF Contents, Nothing
<1>4. Segments = mapped \cup {0}
  BY DEF Segments
<1> QED
  BY <1>2, <1>3, <1>4 DEF Shown, Heap

\* The UM decodes a word as the compiler does.
LEMMA SameDecoding64 ==
    ASSUME NEW w
    PROVE  /\ UM64!opcode(w) = opcode(w)
           /\ UM64!reg_a(w) = reg_a(w) /\ UM64!reg_b(w) = reg_b(w) /\ UM64!reg_c(w) = reg_c(w)
           /\ UM64!lv_reg(w) = lv_reg(w) /\ UM64!lv_val(w) = lv_val(w) /\ UM64!Reg = Reg
BY DEF UM64!opcode, opcode, UM64!reg_a, reg_a, UM64!reg_b, reg_b, UM64!reg_c, reg_c,
       UM64!lv_reg, lv_reg, UM64!lv_val, lv_val, UM64!Reg, Reg

\* At the beginning of a word's block the finger is on that word, and the UM
\* finds in the registers what the block will load from its allocas.
Fetched(w) ==
    /\ UM64!W = w /\ UM64!Operator(opcode(w)) /\ Registers = regs /\ 0 \in Segments
    /\ UM64!A = regs[reg_a(w)] /\ UM64!B = regs[reg_b(w)] /\ UM64!C = regs[reg_c(w)]

LEMMA SameWord ==
    ASSUME NEW g, NEW h, NEW p, NEW l, NEW j, NEW o, Where(g, h, p, l, j, o),
           l \in 0..Len(p) - 1, j = 1
    PROVE  Fetched(p[l + 1]) /\ Finger = l /\ at[1] # Halt
<1>1. program = p /\ at[1] = l /\ at[2] = 1
  BY DEF Where
<1>2. l # Entry /\ l # Dispatch /\ l # Halt
  BY DEF Entry, Dispatch, Halt
<1>3. Finger = l /\ Registers = regs
  BY <1>1, <1>2 DEF Finger, Registers
<1>4. Shown[0] = p /\ 0 \in Segments
  BY <1>1 DEF Shown, Segments
<1>5. PICK w : w = p[l + 1]
  OBVIOUS
<1>6. UM64!W = w
  BY <1>3, <1>4, <1>5 DEF UM64!W, Shown
<1>7. UM64!Operator(opcode(w))
  <2>1. UM64!opcode(UM64!W) = opcode(w)
    BY <1>6, SameDecoding64
  <2> QED
    BY <1>1, <1>2, <1>3, <1>4, <2>1 DEF UM64!Operator, Shown
<1>8. /\ UM64!A = regs[reg_a(w)] /\ UM64!B = regs[reg_b(w)] /\ UM64!C = regs[reg_c(w)]
  BY <1>3, <1>6, SameDecoding64 DEF UM64!A, UM64!B, UM64!C
<1> QED
  BY <1>1, <1>2, <1>3, <1>4, <1>5, <1>6, <1>7, <1>8 DEF Fetched

\* Behind the instruction of a word that does not jump the finger is on the next.
LEMMA FingerMoves ==
    ASSUME NEW g, NEW h, NEW p, NEW l, NEW j, NEW o, Where(g, h, p, l, j, o),
           Works(p, l, j, o), GoOn, program' = program
    PROVE  UM64!Advance /\ Registers' = regs'
<1>1. program' = p /\ at[1] = l /\ at' = <<l, j + 1>> /\ l \in 0..Len(p) - 1 /\ j = 1
  BY DEF Where, GoOn, Works
<1>2. l # Entry /\ l # Dispatch /\ l # Halt /\ opcode(p[l + 1]) # 12
  BY DEF Entry, Dispatch, Halt, Works, Leaps, Operates
<1>3. at'[1] = l /\ at'[2] = 2
  BY <1>1
<1>4. Finger = l
  BY <1>1, SameWord
<1>5. Finger' = l + 1 /\ Registers' = regs'
  BY <1>1, <1>2, <1>3 DEF Finger, Registers
<1> QED
  BY <1>1, <1>2, <1>3, <1>4, <1>5 DEF UM64!Advance

\* A step that the UM does not see.
LEMMA SameHeap == ASSUME UNCHANGED <<vars, program>> PROVE Shown' = Shown
BY DEF Shown, Segments, Contents, SizeOf, get_at, vars

-----------------------------------------------------------------------------
\* The steps of the function, in the UM's terms.

\* What every step of a word's instruction comes to.
OneStep(w) ==
    /\ Fetched(w) /\ UM64!Advance /\ Registers' = regs' /\ Registers = regs
    /\ UM64!reg_a(w) = reg_a(w) /\ UM64!reg_b(w) = reg_b(w) /\ UM64!reg_c(w) = reg_c(w)
    /\ UM64!lv_reg(w) = lv_reg(w) /\ UM64!lv_val(w) = lv_val(w)

LEMMA WordSteps ==
    ASSUME NEW g, NEW h, NEW p, NEW l, NEW j, NEW o, Where(g, h, p, l, j, o),
           Works(p, l, j, o), GoOn, program' = program
    PROVE  OneStep(p[l + 1])
<1>1. l \in 0..Len(p) - 1 /\ j = 1
  BY DEF Works
<1>2. Fetched(p[l + 1])
  BY <1>1, SameWord
<1>3. UM64!Advance /\ Registers' = regs'
  BY FingerMoves
<1> QED
  BY <1>2, <1>3, SameDecoding64 DEF OneStep, Fetched

\* A result that a computing word stores is the one the UM computes.
LEMMA ComputedA64 ==
    ASSUME NEW w, OneStep(w), UNCHANGED <<vars, program, out>>, NEW v,
           regs' = [regs EXCEPT ![reg_a(w)] = v]
    PROVE  UM64!SetA(v)
<1>1. Shown' = Shown
  BY SameHeap
<1>2. UM64!reg_a(UM64!W) = reg_a(w)
  BY DEF OneStep, Fetched
<1>3. PICK r : r = reg_a(w)
  OBVIOUS
<1>4. Registers' = [Registers EXCEPT ![r] = v]
  BY <1>3 DEF OneStep
<1> QED
  BY <1>1, <1>2, <1>3, <1>4 DEF UM64!SetA, Shown

LEMMA ComputeSteps ==
    ASSUME OptInv, Compute
    PROVE  UM64!Next \/ UNCHANGED UM64!vars
<1>1. Runs(Calculates) /\ regs' = [regs EXCEPT ![Ahead.a] = Result] /\ GoOn
      /\ UNCHANGED <<vars, compiled, jump, out>>
  BY DEF Compute, Calculates
<1>2. PICK g, h, p, l, j, o :
         Where(g, h, p, l, j, o) /\ o.op \in Calculates /\ phase = "running" /\ Finished
  BY <1>1, Running
<1>3. Place(p, l, j, o) /\ o = Ahead /\ program' = program /\ p \in Seq(U32)
      /\ at[1] = l /\ at' = <<l, j + 1>>
  BY <1>1, <1>2 DEF Where, GoOn, compiled
<1>4. CASE l = Entry
  <2>1. at'[1] = Entry /\ at[1] = Entry
    BY <1>3, <1>4
  <2>2. Shown' = Shown
    BY <1>1, <1>3, SameHeap
  <2>3. Registers' = Registers
    BY <2>1 DEF Registers
  <2>4. Finger' = 0 /\ Finger = 0
    BY <2>1 DEF Finger, Entry, Dispatch, Halt
  <2> QED
    BY <1>1, <2>1, <2>2, <2>3, <2>4 DEF UM64!vars, Shown, Halt, Entry
<1>5. CASE Works(p, l, j, o) /\ Computes(p[l + 1], o)
  <2>1. PICK w : w = p[l + 1]
    OBVIOUS
  <2>2. OneStep(w)
    BY <1>1, <1>2, <1>3, <1>5, <2>1, WordSteps
  <2>3. Computes(w, Ahead)
    BY <1>3, <1>5, <2>1
  <2>4. /\ UM64!W = w /\ UM64!Operator(opcode(w)) /\ UM64!Advance
        /\ UM64!A = regs[reg_a(w)] /\ UM64!B = regs[reg_b(w)] /\ UM64!C = regs[reg_c(w)]
        /\ UM64!lv_reg(w) = lv_reg(w) /\ UM64!lv_val(w) = lv_val(w)
    BY <2>2 DEF OneStep, Fetched
  <2>5. UNCHANGED <<vars, program, out>>
    BY <1>1, <1>3
  <2>6. CASE opcode(w) = 13 /\ Ahead = setRegisterValues(lv_reg(w), lv_val(w))
    <3>1. Ahead.op = "set" /\ Ahead.a = lv_reg(w) /\ Ahead.b = lv_val(w)
      BY <2>6, IrFields DEF setRegisterValues
    <3>2. PICK r, v : r = lv_reg(w) /\ v = lv_val(w)
      OBVIOUS
    <3>3. regs' = [regs EXCEPT ![r] = v]
      BY <1>1, <3>1, <3>2 DEF Result
    <3>4. Shown' = Shown
      BY <2>5, SameHeap
    <3>5. Registers' = [Registers EXCEPT ![r] = v]
      BY <2>2, <3>3 DEF OneStep
    <3>6. UM64!Orthography
      BY <2>4, <2>5, <2>6, <3>2, <3>4, <3>5 DEF UM64!Orthography, Shown
    <3> QED
      BY <2>4, <3>6 DEF UM64!Next
  <2>7. ASSUME NEW name, Ahead = Ir(name, reg_a(w), reg_b(w), reg_c(w))
        PROVE  /\ Ahead.op = name /\ B = regs[reg_b(w)] /\ C = regs[reg_c(w)]
               /\ regs[Ahead.a] = regs[reg_a(w)] /\ Ahead.a = reg_a(w)
    BY <2>7, IrFields DEF B, C
  <2>8. ASSUME Ahead.a = reg_a(w), NEW v, Result = v PROVE UM64!SetA(v)
    BY <1>1, <2>2, <2>5, <2>8, ComputedA64
  <2>9. CASE opcode(w) = 0 /\ Ahead = conditionalMove(reg_a(w), reg_b(w), reg_c(w))
    <3>1. /\ Ahead.op = "select" /\ B = UM64!B /\ C = UM64!C /\ regs[Ahead.a] = UM64!A
          /\ Ahead.a = reg_a(w)
      BY <2>4, <2>7, <2>9 DEF conditionalMove
    <3>2. Result = IF UM64!C # 0 THEN UM64!B ELSE UM64!A
      BY <3>1 DEF Result
    <3>3. UM64!ConditionalMove
      BY <2>4, <2>8, <2>9, <3>1, <3>2 DEF UM64!ConditionalMove
    <3> QED
      BY <2>4, <3>3 DEF UM64!Next
  <2>10. CASE opcode(w) = 3 /\ Ahead = compileAddition(reg_a(w), reg_b(w), reg_c(w))
    <3>1. Ahead.op = "add" /\ B = UM64!B /\ C = UM64!C /\ Ahead.a = reg_a(w)
      BY <2>4, <2>7, <2>10 DEF compileAddition
    <3>2. Result = (UM64!B + UM64!C) % (16 * OP_UNIT)
      BY <3>1, OptJitAssumption DEF Result, CreateAdd, Wrap
    <3>3. UM64!Addition
      BY <2>4, <2>8, <2>10, <3>1, <3>2 DEF UM64!Addition
    <3> QED
      BY <2>4, <3>3 DEF UM64!Next
  <2>11. CASE opcode(w) = 4 /\ Ahead = compileMul(reg_a(w), reg_b(w), reg_c(w))
    <3>1. Ahead.op = "mul" /\ B = UM64!B /\ C = UM64!C /\ Ahead.a = reg_a(w)
      BY <2>4, <2>7, <2>11 DEF compileMul
    <3>2. Result = (UM64!B * UM64!C) % (16 * OP_UNIT)
      BY <3>1, OptJitAssumption DEF Result, Wrap
    <3>3. UM64!Multiplication
      BY <2>4, <2>8, <2>11, <3>1, <3>2 DEF UM64!Multiplication
    <3> QED
      BY <2>4, <3>3 DEF UM64!Next
  <2>12. CASE opcode(w) = 5 /\ Ahead = compileDiv(reg_a(w), reg_b(w), reg_c(w))
    <3>1. Ahead.op = "udiv" /\ B = UM64!B /\ C = UM64!C /\ Ahead.a = reg_a(w)
      BY <2>4, <2>7, <2>12 DEF compileDiv
    <3>2. Result = UM64!B \div UM64!C
      BY <3>1 DEF Result
    <3>3. UM64!C # 0
      <4>1. l \in 0..Len(p) - 1 /\ j = 1
        BY <1>5 DEF Works
      <4>2. opcode(p[l + 1]) = 5 => regs[reg_c(p[l + 1])] # 0
        BY <1>2, <4>1, FinishedWord
      <4> QED
        BY <2>1, <2>4, <2>12, <4>2
    <3>4. UM64!Division
      BY <2>4, <2>8, <2>12, <3>1, <3>2, <3>3 DEF UM64!Division
    <3> QED
      BY <2>4, <3>4 DEF UM64!Next
  <2>13. CASE opcode(w) = 6 /\ Ahead = compileNand(reg_a(w), reg_b(w), reg_c(w))
    <3>1. Ahead.op = "nand" /\ B = UM64!B /\ C = UM64!C /\ Ahead.a = reg_a(w)
      BY <2>4, <2>7, <2>13 DEF compileNand
    <3>2. Result = GB4 - 1 - And(UM64!B, UM64!C)
      BY <3>1 DEF Result
    <3>3. UM64!NotAnd
      BY <2>4, <2>8, <2>13, <3>1, <3>2 DEF UM64!NotAnd
    <3> QED
      BY <2>4, <3>3 DEF UM64!Next
  <2> QED
    BY <2>3, <2>6, <2>9, <2>10, <2>11, <2>12, <2>13 DEF Computes
<1> QED
  BY <1>2, <1>3, <1>4, <1>5, PlaceOps DEF Emits, Calculates

LEMMA MapSteps == ASSUME OptInv, map PROVE UM64!Next
<1>1. /\ Runs({"vs_calloc"}) /\ regs' = [regs EXCEPT ![Ahead.b] = served(C)]
      /\ GoOn /\ UNCHANGED <<compiled, jump, out>>
  BY DEF map
<1>2. PICK g, h, p, l, j, o :
         Where(g, h, p, l, j, o) /\ o.op = "vs_calloc" /\ phase = "running" /\ Finished
  BY <1>1, Running
<1>3. Place(p, l, j, o) /\ o = Ahead /\ program = p /\ program' = program /\ p \in Seq(U32)
  BY <1>1, <1>2 DEF Where, compiled
<1>4. PICK w : w = p[l + 1]
  OBVIOUS
<1>5. Works(p, l, j, o) /\ opcode(w) = 8 /\ o = compileMap(reg_b(w), reg_c(w))
  BY <1>2, <1>3, <1>4, PlaceOps DEF Emits
<1>6. OneStep(w)
  BY <1>1, <1>2, <1>3, <1>4, <1>5, WordSteps
<1>7. Ahead.b = reg_b(w) /\ C = regs[reg_c(w)] /\ C = 0
  <2>1. Ahead.b = reg_b(w) /\ Ahead.c = reg_c(w)
    BY <1>3, <1>5, IrFields DEF compileMap
  <2>2. regs[reg_c(w)] = 0
    BY <1>2, <1>4, <1>5, FinishedWord DEF Works
  <2> QED
    BY <2>1, <2>2 DEF C
<1>8. OptInv' /\ \E id : ServedEmpty(id)
  BY MapKeeps
<1>9. PICK id : ServedEmpty(id)
  BY <1>8
<1>10. id \in U32 \ {0} /\ id \notin mapped /\ id = served(0) /\ mapped' = mapped \cup {id}
  BY <1>9 DEF ServedEmpty
<1>11. Shown = Heap /\ 0 \notin mapped
  BY HeapShown DEF OptInv
<1>12. Shown' = Heap'
  <2>1. EmptyHeap'
    BY <1>8 DEF OptInv
  <2>2. EmptyHeap' => (Shown = Heap)'
    BY HeapShown, PTL
  <2> QED
    BY <2>1, <2>2
<1>13. PICK r : r = reg_b(w)
  OBVIOUS
<1>14. Registers' = [Registers EXCEPT ![r] = id]
  BY <1>1, <1>6, <1>7, <1>10, <1>13 DEF OneStep
<1>15. /\ UM64!W = w /\ UM64!Operator(opcode(w)) /\ UM64!Advance
       /\ UM64!C = 0 /\ UM64!reg_b(w) = r
  BY <1>6, <1>7, <1>13 DEF OneStep, Fetched
<1>16. UM64!Memory!Map(id, UM64!C)
  <2>1. DOMAIN Heap = mapped \cup {0} /\ id \notin DOMAIN Heap
    BY <1>10 DEF Heap
  <2>2. Heap' = [i \in mapped \cup {id} \cup {0} |-> IF i = 0 THEN p ELSE Nothing]
    BY <1>3, <1>10 DEF Heap
  <2>3. Heap' = [i \in DOMAIN Heap \cup {id} |-> IF i = id THEN Nothing ELSE Heap[i]]
    BY <1>3, <1>10, <2>1, <2>2 DEF Heap
  <2>4. UM64!Memory!Zeros(0) = Nothing
    BY DEF UM64!Memory!Zeros, Nothing
  <2> QED
    BY <1>11, <1>12, <1>15, <2>1, <2>3, <2>4 DEF UM64!Memory!Map, Shown
<1>17. UM64!Allocation
  BY <1>1, <1>5, <1>10, <1>14, <1>15, <1>16 DEF UM64!Allocation
<1> QED
  BY <1>15, <1>17 DEF UM64!Next

LEMMA UnmapSteps == ASSUME OptInv, unmap PROVE UM64!Next
<1>1. Runs({"vs_free"}) /\ vs_free(C) /\ GoOn /\ UNCHANGED <<compiled, regs, jump, out>>
  BY DEF unmap
<1>2. PICK g, h, p, l, j, o :
         Where(g, h, p, l, j, o) /\ o.op = "vs_free" /\ phase = "running" /\ Finished
  BY <1>1, Running
<1>3. Place(p, l, j, o) /\ o = Ahead /\ program = p /\ program' = program
  BY <1>1, <1>2 DEF Where, compiled
<1>4. PICK w : w = p[l + 1]
  OBVIOUS
<1>5. Works(p, l, j, o) /\ opcode(w) = 9 /\ o = compileUnmap(reg_c(w))
  BY <1>2, <1>3, <1>4, PlaceOps DEF Emits
<1>6. OneStep(w)
  BY <1>1, <1>2, <1>3, <1>4, <1>5, WordSteps
<1>7. OptInv' /\ C \in mapped /\ mapped' = mapped \ {C}
  BY UnmapKeeps
<1>8. PICK id : id = C
  OBVIOUS
<1>9. id = regs[reg_c(w)] /\ id \in mapped /\ mapped' = mapped \ {id}
  <2>1. Ahead.c = reg_c(w)
    BY <1>3, <1>5, IrFields DEF compileUnmap
  <2> QED
    BY <1>7, <1>8, <2>1 DEF C
<1>10. Shown = Heap /\ 0 \notin mapped
  BY HeapShown DEF OptInv
<1>11. Shown' = Heap'
  <2>1. EmptyHeap'
    BY <1>7 DEF OptInv
  <2>2. EmptyHeap' => (Shown = Heap)'
    BY HeapShown, PTL
  <2> QED
    BY <2>1, <2>2
<1>12. /\ UM64!W = w /\ UM64!Operator(opcode(w)) /\ UM64!Advance /\ UM64!C = id
       /\ Registers' = Registers
  BY <1>1, <1>6, <1>9 DEF OneStep, Fetched
<1>13. UM64!C \in DOMAIN Heap /\ UM64!Memory!Unmap(UM64!C)
  <2>1. DOMAIN Heap = mapped \cup {0} /\ id \in DOMAIN Heap /\ id # 0
    BY <1>9, <1>10 DEF Heap
  <2>2. Heap' = [i \in (mapped \ {id}) \cup {0} |-> IF i = 0 THEN p ELSE Nothing]
    BY <1>3, <1>9 DEF Heap
  <2>3. (mapped \ {id}) \cup {0} = DOMAIN Heap \ {id}
    BY <2>1
  <2>4. Heap' = [i \in DOMAIN Heap \ {id} |-> Heap[i]]
    BY <1>3, <2>1, <2>2, <2>3 DEF Heap
  <2> QED
    BY <1>10, <1>11, <1>12, <2>1, <2>4 DEF UM64!Memory!Unmap, Shown
<1>14. UM64!Abandonment
  BY <1>1, <1>5, <1>10, <1>12, <1>13 DEF UM64!Abandonment, Shown
<1> QED
  BY <1>12, <1>14 DEF UM64!Next

LEMMA PrintSteps == ASSUME OptInv, print PROVE UM64!Next
<1>1. /\ Runs({"putchar"}) /\ out' = Append(out, C % BYTE)
      /\ GoOn /\ UNCHANGED <<vars, compiled, regs, jump>>
  BY DEF print
<1>2. PICK g, h, p, l, j, o :
         Where(g, h, p, l, j, o) /\ o.op = "putchar" /\ phase = "running" /\ Finished
  BY <1>1, Running
<1>3. /\ Place(p, l, j, o) /\ o = Ahead /\ program = p /\ program' = program
      /\ p \in Seq(U32) /\ regs \in [Reg -> U32]
  BY <1>1, <1>2 DEF Where, compiled, OptInv, Machine
<1>4. PICK w : w = p[l + 1]
  OBVIOUS
<1>5. Works(p, l, j, o) /\ opcode(w) = 10 /\ o = printRegister(reg_c(w))
  BY <1>2, <1>3, <1>4, PlaceOps DEF Emits
<1>6. OneStep(w)
  BY <1>1, <1>2, <1>3, <1>4, <1>5, WordSteps
<1>7. C = regs[reg_c(w)] /\ C < BYTE /\ C \in Nat
  <2>1. Ahead.c = reg_c(w)
    BY <1>3, <1>5, IrFields DEF printRegister
  <2>2. regs[reg_c(w)] < BYTE /\ reg_c(w) \in Reg
    BY <1>2, <1>3, <1>4, <1>5, FinishedWord, WordFields DEF Works
  <2> QED
    BY <1>3, <2>1, <2>2, Virt32Assumption DEF C, U32
<1>8. C % BYTE = C
  BY <1>7, IsaAssumption
<1>9. /\ UM64!W = w /\ UM64!Operator(opcode(w)) /\ UM64!Advance /\ UM64!C = C
      /\ Registers' = Registers
  BY <1>1, <1>6, <1>7 DEF OneStep, Fetched
<1>10. Shown' = Shown
  BY <1>1, <1>3, SameHeap
<1>11. UM64!Output
  BY <1>1, <1>5, <1>7, <1>8, <1>9, <1>10 DEF UM64!Output, Shown
<1> QED
  BY <1>9, <1>11 DEF UM64!Next

LEMMA ReadSteps == ASSUME OptInv, read PROVE UM64!Next
<1>1. /\ Runs({"getchar"}) /\ GoOn /\ UNCHANGED <<vars, compiled, jump, out>>
  BY DEF read
<1>2. PICK value \in Input : regs' = [regs EXCEPT ![Ahead.c] = value]
  BY DEF read
<1>3. PICK g, h, p, l, j, o :
         Where(g, h, p, l, j, o) /\ o.op = "getchar" /\ phase = "running" /\ Finished
  BY <1>1, Running
<1>4. Place(p, l, j, o) /\ o = Ahead /\ program = p /\ program' = program
  BY <1>1, <1>3 DEF Where, compiled
<1>5. PICK w : w = p[l + 1]
  OBVIOUS
<1>6. Works(p, l, j, o) /\ opcode(w) = 11 /\ o = readIntoRegister(reg_c(w))
  BY <1>3, <1>4, <1>5, PlaceOps DEF Emits
<1>7. OneStep(w)
  BY <1>1, <1>3, <1>4, <1>5, <1>6, WordSteps
<1>8. Ahead.c = reg_c(w)
  BY <1>4, <1>6, IrFields DEF readIntoRegister
<1>9. PICK r : r = reg_c(w)
  OBVIOUS
<1>10. Registers' = [Registers EXCEPT ![r] = value]
  BY <1>2, <1>7, <1>8, <1>9 DEF OneStep
<1>11. UM64!W = w /\ UM64!Operator(opcode(w)) /\ UM64!Advance /\ UM64!reg_c(w) = r
  BY <1>7, <1>9 DEF OneStep, Fetched
<1>12. Shown' = Shown
  BY <1>1, <1>4, SameHeap
<1>13. UM64!ReadInput
  BY <1>1, <1>6, <1>10, <1>11, <1>12 DEF UM64!ReadInput, Shown
<1> QED
  BY <1>11, <1>13 DEF UM64!Next

\* Every operator number but those without a meaning and the two that jump has
\* an instruction of its own.
LEMMA WordOpcode ==
    ASSUME NEW p \in Seq(U32), NEW l \in 0..Len(p) - 1
    PROVE  opcode(p[l + 1]) \in 0..15
<1>1. PICK w : w = p[l + 1]
  OBVIOUS
<1>2. w \in U32 /\ w \in Nat
  BY <1>1, WordFields
<1>3. OP_UNIT \in Nat \ {0} /\ w < 16 * OP_UNIT
  BY <1>2, OptJitAssumption, IsaAssumption DEF U32
<1>4. PICK u \in Nat \ {0}, q \in Nat : u = OP_UNIT /\ q = w \div u
  <2>1. PICK u \in Nat \ {0} : u = OP_UNIT
    BY <1>3
  <2>2. w \div u \in Nat
    BY <1>2
  <2> QED
    BY <2>1, <2>2
<1>5. u * q <= w /\ w < 16 * u
  BY <1>2, <1>3, <1>4
<1>6. q < 16
  <2>1. SUFFICES ASSUME q >= 16 PROVE FALSE
    OBVIOUS
  <2>2. PICK d \in Nat : q = 16 + d
    BY <2>1
  <2>3. u * q = 16 * u + u * d /\ u * d >= 0
    BY <2>2
  <2> QED
    BY <1>2, <1>5, <2>3
<1> QED
  <2>1. q \in 0..15
    BY <1>6
  <2> QED
    BY <1>1, <1>4, <2>1 DEF opcode

LEMMA StraightSome ==
    ASSUME NEW w, opcode(w) \in 0..15, opcode(w) \notin {7, 12, 14, 15}
    PROVE  Straight(w) # <<>>
<1>1. \A o : <<o>> # <<>>
  OBVIOUS
<1> QED
  BY <1>1 DEF Straight

\* The target of a load program is set at the beginning of its word's block; in
\* the UM that is the jump, and the duplicate of segment 0 is segment 0.
LEMMA TargetSteps ==
    ASSUME OptInv, target
    PROVE  UM64!Next \/ UNCHANGED UM64!vars
<1>1. /\ Runs({"first", "target"}) /\ jump' = IF Ahead.op = "first" THEN 0 ELSE C
      /\ GoOn /\ UNCHANGED <<vars, compiled, regs, out>>
  BY DEF target
<1>2. PICK g, h, p, l, j, o : /\ Where(g, h, p, l, j, o) /\ o.op \in {"first", "target"}
                              /\ phase = "running" /\ Finished
  BY <1>1, Running
<1>3. /\ Place(p, l, j, o) /\ o = Ahead /\ program = p /\ program' = p
      /\ at[1] = l /\ at' = <<l, j + 1>>
  BY <1>1, <1>2 DEF Where, compiled, GoOn
<1>4. Shown' = Shown
  BY <1>1, <1>3, SameHeap
<1>5. CASE l = Entry
  <2>1. at'[1] = Entry /\ at[1] = Entry
    BY <1>3, <1>5
  <2>2. Registers' = Registers
    BY <2>1 DEF Registers
  <2>3. Finger' = 0 /\ Finger = 0
    BY <2>1 DEF Finger, Entry, Dispatch, Halt
  <2> QED
    BY <1>1, <1>4, <2>1, <2>2, <2>3 DEF UM64!vars, Shown, Halt, Entry
<1>6. CASE Aims(p, l, j, o) /\ o.op = "target"
  <2>1. PICK w : w = p[l + 1]
    OBVIOUS
  <2>2. l \in 0..Len(p) - 1 /\ j = 1 /\ opcode(w) = 12 /\ o = targetIndex(reg_c(w))
    BY <1>6, <2>1 DEF Aims, Operates
  <2>3. l # Entry /\ l # Dispatch /\ l # Halt /\ at'[1] = l /\ at'[2] = 2
    BY <1>3, <2>2 DEF Entry, Dispatch, Halt
  <2>4. Fetched(w)
    BY <1>2, <2>1, <2>2, SameWord
  <2>5. /\ UM64!W = w /\ UM64!Operator(12) /\ Registers = regs /\ 0 \in Segments
        /\ UM64!B = regs[reg_b(w)] /\ UM64!C = regs[reg_c(w)]
    BY <2>2, <2>4 DEF Fetched
  <2>6. UM64!B = 0
    BY <1>2, <2>1, <2>2, <2>5, FinishedWord
  <2>7. C = UM64!C
    <3>1. Ahead.c = reg_c(w)
      BY <1>3, <2>2, IrFields DEF targetIndex
    <3> QED
      BY <2>5, <3>1 DEF C
  <2>8. Finger' = jump' /\ jump' = UM64!C
    <3>1. Finger' = jump'
      BY <1>3, <2>1, <2>2, <2>3 DEF Finger
    <3> QED
      BY <1>1, <1>3, <1>6, <2>7, <3>1
  <2>9. Registers' = Registers
    BY <1>1, <2>3, <2>5 DEF Registers
  <2>10. UM64!Memory!LoadSegment(UM64!B)
    <3>1. PICK s : s = Shown
      OBVIOUS
    <3>2. s = [s EXCEPT ![0] = s[0]]
      BY <3>1 DEF Shown
    <3> QED
      BY <1>4, <2>6, <3>1, <3>2 DEF UM64!Memory!LoadSegment, Shown
  <2>11. UM64!B \in DOMAIN Shown
    BY <2>5, <2>6 DEF Shown
  <2>12. UM64!LoadProgram
    BY <1>1, <1>3, <2>3, <2>5, <2>8, <2>9, <2>10, <2>11 DEF UM64!LoadProgram, Shown
  <2> QED
    BY <2>12 DEF UM64!Next
<1> QED
  BY <1>2, <1>3, <1>5, <1>6, PlaceOps DEF Emits

\* A branch is where the finger has been since the instruction before it, but
\* for that of a halt.
LEMMA BranchSteps ==
    ASSUME OptInv, branch
    PROVE  UM64!Next \/ UNCHANGED UM64!vars
<1>1. PICK g, h, p, l, j, o, x :
         /\ Where(g, h, p, l, j, o) /\ BranchTo(p, l, j, o, x) /\ at' = <<x, 1>>
         /\ x \in DOMAIN g /\ phase = "running" /\ Finished
  BY BranchGoes
<1>2. /\ UNCHANGED <<vars, compiled, regs, jump, out>> /\ ~Falls
      /\ last' = IF InProgram THEN at[1] ELSE last
  BY DEF branch
<1>3. /\ program = p /\ program' = p /\ at[1] = l /\ at[2] = j /\ at'[1] = x /\ at'[2] = 1
      /\ o = Ahead /\ Len(p) \in Nat /\ p \in Seq(U32)
  BY <1>1, <1>2 DEF Where, compiled
<1>4. Shown' = Shown /\ out' = out
  BY <1>2, <1>3, SameHeap
<1>5. Entry # Dispatch /\ Entry # Halt /\ Dispatch # Halt
      /\ \A i \in Nat : i # Entry /\ i # Dispatch /\ i # Halt
  BY DEF Entry, Dispatch, Halt
<1>6. CASE Follows(p, l, j, o) /\ x = Behind(p, l)
  <2>1. /\ o = Br(x) /\ Ahead.op = "br" /\ Ahead.a = x
    BY <1>3, <1>6, Terminators DEF Follows
  <2>2. x # Halt /\ x = l + 1
    <3>1. InProgram => opcode(program[at[1] + 1]) # 7
      BY <1>3, <1>6 DEF Follows, Leaps, Operates, InProgram, Entry
    <3>2. x # Halt
      BY <1>2, <2>1, <3>1 DEF Falls
    <3> QED
      BY <1>6, <3>2 DEF Behind
  <2>3. CASE l = Entry /\ j = NREGS + 2
    <3>1. x = 0
      BY <2>2, <2>3 DEF Entry
    <3>2. regs = [r \in Reg |-> 0]
      <4>1. \A r \in Reg : r + 1 < j
        BY <2>3, IsaAssumption DEF Reg
      <4>2. regs \in [Reg -> U32] /\ \A r \in Reg : regs[r] = 0
        BY <1>1, <1>3, <2>3, <4>1 DEF OptInv, Machine, Executing, Zeroed
      <4> QED
        BY <4>2
    <3>3. Registers' = Registers /\ Finger' = 0 /\ Finger = 0
      BY <1>2, <1>3, <1>5, <2>3, <3>1, <3>2 DEF Registers, Finger
    <3> QED
      BY <1>3, <1>4, <1>5, <2>2, <2>3, <3>3 DEF UM64!vars, Shown
  <2>4. CASE l \in 0..Len(p) - 1 /\ ~Leaps(p, l)
    <3>1. j = 2
      <4>1. Straight(p[l + 1]) # <<>>
        <5>1. PICK w : w = p[l + 1]
          OBVIOUS
        <5>2. opcode(w) \in 0..15
          BY <1>3, <2>4, <5>1, WordOpcode
        <5>3. opcode(w) # 7 /\ opcode(w) # 12
          BY <2>4, <5>1 DEF Leaps, Operates
        <5>4. j = 1 => opcode(w) \notin {14, 15}
          BY <1>1, <2>4, <5>1, FinishedWord
        <5>5. opcode(w) \notin {14, 15} => Straight(w) # <<>>
          BY <5>2, <5>3, StraightSome
        <5> QED
          BY <1>6, <2>4, <1>5, <5>1, <5>4, <5>5 DEF Follows
      <4> QED
        BY <1>5, <1>6, <2>4, <4>1 DEF Follows
    <3>2. opcode(p[l + 1]) # 12 /\ l \in Nat /\ l + 1 \in Nat
      BY <2>4 DEF Leaps, Operates
    <3>3. Finger = l + 1 /\ Registers = regs
      BY <1>3, <1>5, <3>1, <3>2 DEF Finger, Registers
    <3>4. Finger' = l + 1 /\ Registers' = regs
      BY <1>2, <1>3, <1>5, <2>2, <3>2 DEF Finger, Registers
    <3> QED
      BY <1>3, <1>4, <1>5, <2>2, <3>2, <3>3, <3>4 DEF UM64!vars, Shown
  <2> QED
    BY <1>6, <2>3, <2>4 DEF Follows
<1>7. CASE Halts(p, l, j, o) /\ x = Halt
  <2>1. l \in 0..Len(p) - 1 /\ j = 1 /\ opcode(p[l + 1]) = 7
    BY <1>7 DEF Halts, Operates
  <2>2. Fetched(p[l + 1]) /\ Finger = l /\ at[1] # Halt
    BY <1>1, <2>1, SameWord
  <2>3. Finger' = l /\ Registers' = Registers
    <3>1. last' = l
      BY <1>2, <1>3, <2>1 DEF InProgram
    <3>2. Registers = regs /\ Registers' = regs
      BY <1>2, <1>3, <1>5, <1>7, <2>2 DEF Fetched, Registers
    <3> QED
      BY <1>3, <1>5, <1>7, <3>1, <3>2 DEF Finger
  <2>4. UM64!Operator(7)
    BY <2>1, <2>2 DEF Fetched
  <2>5. UM64!Halt
    BY <1>3, <1>4, <1>7, <2>2, <2>3, <2>4 DEF UM64!Halt, Shown
  <2> QED
    BY <2>5 DEF UM64!Next
<1>8. CASE Leaves(p, l, j, o) /\ x = Dispatch
  <2>1. l \in 0..Len(p) - 1 /\ j = 2 /\ opcode(p[l + 1]) = 12
    BY <1>8 DEF Leaves, Operates
  <2>2. Finger = jump /\ Registers = regs /\ l # Halt
    BY <1>3, <1>5, <2>1 DEF Finger, Registers
  <2>3. Finger' = jump /\ Registers' = regs
    BY <1>2, <1>3, <1>5, <1>8 DEF Finger, Registers
  <2> QED
    BY <1>3, <1>4, <1>5, <1>8, <2>2, <2>3 DEF UM64!vars, Shown
<1>9. CASE Switches(p, l, j, o) /\ x = jump
  <2>1. l = Dispatch /\ jump \in Nat
    BY <1>9, Virt32Assumption DEF Switches, OptInv, Machine, U32
  <2>2. Finger = jump /\ Registers = regs
    BY <1>3, <1>5, <2>1 DEF Finger, Registers
  <2>3. Finger' = jump /\ Registers' = regs
    BY <1>2, <1>3, <1>5, <1>9, <2>1 DEF Finger, Registers
  <2> QED
    BY <1>3, <1>4, <1>5, <1>9, <2>1, <2>2, <2>3 DEF UM64!vars, Shown
<1> QED
  BY <1>1, <1>6, <1>7, <1>8, <1>9 DEF BranchTo

\* Compiling is not seen, even though it stores words in the kernel: no segment
\* is there yet to be seen but the program.
LEMMA Unseen ==
    ASSUME EmptyHeap, EmptyHeap', UNCHANGED <<mapped, program, regs, jump, at, out, last>>
    PROVE  UNCHANGED UM64!vars
<1>1. Shown = Heap
  BY HeapShown
<1>2. Shown' = Heap'
  <2>1. EmptyHeap' => (Shown = Heap)'
    BY HeapShown, PTL
  <2> QED
    BY <2>1
<1>3. Shown' = Shown
  BY <1>1, <1>2 DEF Heap
<1>4. Registers' = Registers /\ Finger' = Finger
  BY DEF Registers, Finger
<1> QED
  BY <1>3, <1>4 DEF UM64!vars, Shown

LEMMA MainSteps ==
    ASSUME OptInv, OptInv',
           createInstructionLabels \/ compileInstruction \/ finishProgram \/ executeJIT \/ return
    PROVE  UNCHANGED UM64!vars
<1>1. EmptyHeap /\ EmptyHeap'
  BY DEF OptInv
<1>2. UNCHANGED <<mapped, program, regs, jump, at, out>>
  BY DEF createInstructionLabels, compileInstruction, finishProgram, executeJIT, return, vars, alloc
<1>3. UNCHANGED last
  BY DEF createInstructionLabels, compileInstruction, finishProgram, executeJIT, return
<1> QED
  BY <1>1, <1>2, <1>3, Unseen

\* The compiled function is a UM for what the compiler has finished of it, for
\* any number of registers, width of a word and program: what its blocks do with
\* their allocas, the segments, the jumps by way of the dispatch block and the
\* console is what the UM would have done word by word.
THEOREM CompiledFunctionIsUM == OptSpec => ImplementsUMachine
<1>1. OptInit => UM64!Init
  <2> SUFFICES ASSUME OptInit PROVE UM64!Init
    OBVIOUS
  <2>1. program \in Seq(U32) /\ mapped = {} /\ out = <<>> /\ at[1] = Entry
    BY InitOptInv DEF OptInit, OptInv, Machine
  <2>2. Registers = [r \in Reg |-> 0] /\ Finger = 0
    BY <2>1 DEF Registers, Finger, Entry, Dispatch, Halt
  <2>3. Segments = {0}
    BY <2>1 DEF Segments
  <2>4. UM64!Memory!Init
    BY <2>1, <2>3 DEF UM64!Memory!Init
  <2> QED
    BY <2>1, <2>2, <2>4, SameDecoding64 DEF UM64!Init, Entry, Halt
<1>2. ASSUME OptInv, OptInv', OptNext PROVE UM64!Next \/ UNCHANGED UM64!vars
  BY <1>2, MainSteps, ComputeSteps, MapSteps, UnmapSteps, PrintSteps, ReadSteps, TargetSteps,
     BranchSteps DEF OptNext
<1>3. ASSUME UNCHANGED <<vars, opt>> PROVE UNCHANGED UM64!vars
  <2>1. Shown' = Shown
    BY <1>3, SameHeap DEF opt
  <2>2. Registers' = Registers /\ Finger' = Finger /\ out' = out /\ at' = at
    BY <1>3 DEF opt, Registers, Finger
  <2> QED
    BY <2>1, <2>2 DEF UM64!vars, Shown
<1>4. OptInv /\ OptInv' /\ [OptNext]_<<vars, opt>> => [UM64!Next]_UM64!vars
  BY <1>2, <1>3
<1> QED
  BY <1>1, <1>4, OptInvariant, PTL DEF OptSpec, UM64!Spec, ImplementsUMachine
=============================================================================
