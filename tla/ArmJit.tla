------------------------------- MODULE ArmJit -------------------------------
(***************************************************************************)
(* The JIT compiler for arm64 (runtimes/jit/linux-arm64, darwin-arm64):     *)
(* every word of a loaded program becomes a chunk of CHUNK bytes, UM        *)
(* register r lives in machine register BR + r, and utility.S is the glue   *)
(* between the chunks and C.                                                *)
(*                                                                          *)
(* A step runs from one branch to the next: a chunk to its end or its       *)
(* branch, a handler of utility.S with the C function it calls, the part of *)
(* a chunk behind a handler's return, the label `loop'.  pc is where the    *)
(* next one starts.  The two ports differ in what `host' selects.           *)
(*                                                                          *)
(* What a program does that the UM leaves undefined has no step.            *)
(***************************************************************************)
EXTENDS Virt32, Isa

CONSTANTS And(_, _),      \* bitwise and of two words (the processor's)
          HALF,           \* weight of the upper immediate of a word (2^16)
          VIRT,           \* the address of the allocator's mapping
          STACK,          \* the stack pointer as main calls run
          loop, large_op, handle_map, handle_x13,  \* addresses of labels
          Caller(_),      \* what main has in each machine register as it calls run
          Junk,           \* what a C function may leave in a volatile register
          Input,          \* what getchar returns: bytes, and (uint32_t)EOF
          MaxOut,         \* bound: the most bytes a behaviour puts out
          MaxRegions      \* bound: the most regions of code a behaviour maps

CHUNK == 12
BR == 19
OP_UNMAP == 1
OP_OUT == 2
OP_IN == 3
OP_DUPLICATE == 4
OP_HALT == 6

\* Machine registers 0 to 30; those a C function may change, bl's x30 included.
R(r) == BR + r
Register == 0..30
Volatile == 0..18 \cup {30}

\* Regions of code, one for each program loaded; none is ever unmapped.
Region(n) == n * CHUNK * GB4
USABLE == VIRT + BOOK_SIZE
Labels == {loop, large_op, handle_map, handle_x13}

ASSUME ArmJitAssumption ==
    /\ GB4 = 16 * OP_UNIT /\ Spare = 0 /\ NREGS <= 8
    /\ HALF \in Nat \ {0} /\ LV_UNIT <= HALF * HALF /\ GB4 % (HALF * HALF) = 0
    /\ U32 \subseteq Request /\ U32 \subseteq Offset /\ Value = U32
    /\ \A x, y \in U32 : And(x, y) \in U32
    /\ VIRT \in Nat /\ VIRT % BLOCK_SIZE = 0 /\ STACK \in Nat /\ STACK > 16 * 12
    /\ Labels \cup {Caller(30)} \subseteq 1..Region(1) - 1
    /\ Cardinality(Labels \cup {Caller(30)}) = 5
    /\ \A q \in Register : Caller(q) \in Nat
    /\ Junk \subseteq Nat /\ Input \subseteq U32
    /\ MaxOut \in Nat /\ MaxRegions \in Nat \ {0}

VARIABLES host,     \* "linux" or "darwin"
          cpu,      \* registers, the zero flag, and the stack, in pairs
          pc,       \* address of the next machine instruction
          code,     \* the words that the current region was compiled from
          regions,  \* number of regions mapped
          out,      \* what putchar has written
          begun,    \* history: the index of the chunk entered last
          left      \* history: the UM registers as run returned

arm == <<host, cpu, pc, code, regions, out, begun, left>>

-----------------------------------------------------------------------------
\* Machine instructions, four bytes each: an operation, its destination and its
\* sources (registers, but for the immediates of mov and movk).

Op(name, d, n, m) == [op |-> name, d |-> d, n |-> n, m |-> m]

movimm(d, imm) == Op("mov imm", d, imm, d)
movk(d, imm) == Op("movk", d, imm, d)
mov(d, n) == Op("mov", d, n, n)
cmp(n) == Op("cmp", n, n, n)
csel(d, n, m) == Op("csel ne", d, n, m)
addx(d, n, m) == Op("add x", d, n, m)
add(d, n, m) == Op("add", d, n, m)
mul(d, n, m) == Op("mul", d, n, m)
udiv(d, n, m) == Op("udiv", d, n, m)
and(d, n, m) == Op("and", d, n, m)
mvn(d, m) == Op("mvn", d, m, m)
ldr(d, n, m) == Op("ldr", d, n, m)
str(d, n, m) == Op("str", d, n, m)
br(n) == Op("br", n, n, n)
blr(n) == Op("blr", 30, n, n)
nop == Op("nop", 0, 0, 0)

Set(c, d, value) == [c EXCEPT !.reg[d] = value]

\* The word of the mapping that [xN, wM, uxtw #2] addresses.
Target(c, n, m) == Cell(c.reg[n] + 4 * Wrap(c.reg[m]) - USABLE)

\* w registers are the lower halves of x registers; writing one clears the
\* upper half.
Exec(c, o) ==
    LET n == Wrap(c.reg[o.n])
        m == Wrap(c.reg[o.m])
    IN  CASE o.op = "mov imm" -> Set(c, o.d, o.n)
          [] o.op = "movk" -> Set(c, o.d, (m - (m % (HALF * HALF)))
                                            + o.n * HALF + (m % HALF))
          [] o.op = "mov" -> Set(c, o.d, n)
          [] o.op = "cmp" -> [c EXCEPT !.zero = (n = 0)]
          [] o.op = "csel ne" -> Set(c, o.d, IF c.zero THEN m ELSE n)
          [] o.op = "add x" -> Set(c, o.d, c.reg[o.n] + c.reg[o.m])
          [] o.op = "add" -> Set(c, o.d, Wrap(n + m))
          [] o.op = "mul" -> Set(c, o.d, Wrap(n * m))
          [] o.op = "udiv" -> Set(c, o.d, IF m = 0 THEN 0 ELSE n \div m)
          [] o.op = "and" -> Set(c, o.d, And(n, m))
          [] o.op = "mvn" -> Set(c, o.d, GB4 - 1 - m)
          [] o.op = "ldr" -> Set(c, o.d, mem[Target(c, o.n, o.m)])
          [] OTHER -> c

\* The effect of a few instructions in a row: at most three.
Then(c, ops, k) == IF k <= Len(ops) THEN Exec(c, ops[k]) ELSE c
Run(c, ops) == Then(Then(Then(c, ops, 1), ops, 2), ops, 3)

-----------------------------------------------------------------------------
\* The chunk of each UM instruction.

load_reg(a, value) ==
    << movimm(R(a), value % HALF), movk(R(a), (value \div HALF) % HALF), nop >>
cond_move(a, b, c) == << cmp(R(c)), csel(R(a), R(b), R(a)), nop >>
seg_load(a, b, c) == << addx(9, 28, R(b)), ldr(R(a), 9, R(c)), nop >>
seg_store(a, b, c) == << addx(9, 28, R(a)), str(R(c), 9, R(b)), nop >>
add_regs_in_64_bits(a, b, c) == << addx(R(a), R(b), R(c)), nop, nop >>
add_regs(a, b, c) == << add(R(a), R(b), R(c)), nop, nop >>
mult_regs_of_two(a, b, c) == << mul(R(a), R(b), R(c)), nop >>
mult_regs(a, b, c) == << mul(R(a), R(b), R(c)), nop, nop >>
div_regs(a, b, c) == << udiv(R(a), R(b), R(c)), nop, nop >>
nand_regs(a, b, c) == << and(9, R(b), R(c)), mvn(R(a), 9), nop >>
handle_halt == << movimm(14, OP_HALT), br(15) >>
inject_map_segment(b, c) == << mov(0, R(c)), blr(12), mov(R(b), 0) >>
inject_unmap_segment(c) == << mov(0, R(c)), movimm(14, OP_UNMAP), blr(15) >>
darwin_inject_unmap_segment(c) == << mov(0, R(c)), blr(13), nop >>
print_reg(c) == << mov(0, R(c)), movimm(14, OP_OUT), blr(15) >>
read_into_reg(c) == << movimm(14, OP_IN), blr(15), mov(R(c), 0) >>
inject_load_program(b, c) == << mov(10, R(c)), mov(0, R(b)), br(15) >>

compile_instruction(word) ==
    LET a == reg_a(word)
        b == reg_b(word)
        c == reg_c(word)
    IN  CASE opcode(word) = 13 -> load_reg(lv_reg(word), lv_val(word))
          [] opcode(word) = 10 -> print_reg(c)
          [] opcode(word) = 3 -> add_regs(a, b, c)
          [] opcode(word) = 7 -> handle_halt
          [] opcode(word) = 6 -> nand_regs(a, b, c)
          [] opcode(word) = 4 -> mult_regs(a, b, c)
          [] opcode(word) = 5 -> div_regs(a, b, c)
          [] opcode(word) = 0 -> cond_move(a, b, c)
          [] opcode(word) = 11 -> read_into_reg(c)
          [] opcode(word) = 1 -> seg_load(a, b, c)
          [] opcode(word) = 2 -> seg_store(a, b, c)
          [] opcode(word) = 12 -> inject_load_program(b, c)
          [] opcode(word) = 8 -> inject_map_segment(b, c)
          [] opcode(word) = 9 -> IF host = "linux" THEN inject_unmap_segment(c)
                                 ELSE darwin_inject_unmap_segment(c)
          [] OTHER -> <<>>

-----------------------------------------------------------------------------
\* The macros of utility.S, as the pairs of registers they push or pop, in that
\* order; the stack grows to the right.

Pushed(c, pairs) ==
    [c EXCEPT !.stack = @ \o [i \in DOMAIN pairs |->
                                 << c.reg[pairs[i][1]], c.reg[pairs[i][2]] >>]]
Popped(c, pairs) ==
    LET n == Len(c.stack)
        from(q) == {i \in DOMAIN pairs : q \in {pairs[i][1], pairs[i][2]}}
    IN  [c EXCEPT !.reg = [q \in Register |->
                              IF from(q) = {} THEN @[q]
                              ELSE LET i == CHOOSE i \in from(q) : TRUE
                                   IN  c.stack[n + 1 - i][IF pairs[i][1] = q THEN 1 ELSE 2]],
                  !.stack = SubSeq(@, 1, n - Len(pairs))]

linux_push_regs == << <<12, 13>>, <<14, 15>> >>
linux_pop_regs == << <<14, 15>>, <<12, 13>> >>
darwin_push_regs == << <<14, 15>>, <<12, 13>> >>
darwin_pop_regs == << <<12, 13>>, <<14, 15>> >>
push_regs == IF host = "linux" THEN linux_push_regs ELSE darwin_push_regs
pop_regs == IF host = "linux" THEN linux_pop_regs ELSE darwin_pop_regs
function_start == << <<29, 30>> >>
function_end_swapped == << <<30, 29>> >>
function_end == << <<29, 30>> >>

\* What function_start leaves in x29: the stack pointer behind its push.
Frame(c) == STACK - 16 * (Len(c.stack) + 1)

restore_forgotten(c) == c
restore_default_opcode(c) == Set(c, 14, OP_DUPLICATE)

\* A handler's way into C and back: the volatile registers as the function
\* leaves them, its result in x0.
entered(c) == Set(Pushed(c, function_start \o push_regs), 29, Frame(c))
returned(c, result, junk) ==
    [c EXCEPT !.reg = [q \in Register |-> IF q = 0 THEN result
                                          ELSE IF q \in Volatile THEN junk ELSE @[q]]]
exited(c) == Popped(c, pop_regs \o function_end)

\* The C functions that need the mapping get it from x28.
given_usable(c) == Set(c, 1, c.reg[28])

\* A result of 32 bits: the rest of x0 is anything.
Narrow(value, junk) == value + GB4 * junk

\* .dup's, which keeps x9 and x10 as well.
dup_entered(c) ==
    Set(Pushed(c, function_start \o << <<9, 10>> >> \o push_regs), 29, Frame(c))
dup_exited_swapped(c) == Popped(c, pop_regs \o << <<10, 9>> >> \o function_end)
dup_exited(c) == Popped(c, pop_regs \o << <<9, 10>> >> \o function_end)

-----------------------------------------------------------------------------
\* run: from its first instruction to `loop', and from `done' to its return.

run_entered(c) ==
    Set(Pushed(c, function_start \o
                    << <<19, 20>>, <<21, 22>>, <<23, 24>>, <<25, 26>>, <<27, 28>> >>),
        29, Frame(c))
done_in_push_order(c) ==
    Popped(c, << <<19, 20>>, <<21, 22>>, <<23, 24>>, <<25, 26>>, <<27, 28>> >>
                \o function_end)
done(c) ==
    Popped(c, << <<27, 28>>, <<25, 26>>, <<23, 24>>, <<21, 22>>, <<19, 20>> >>
                \o function_end)

Called == [reg |-> [q \in Register |-> CASE q = 0 -> Region(1)
                                         [] q = 1 -> USABLE
                                         [] OTHER -> Caller(q)],
           zero |-> FALSE, stack |-> <<>>]
started ==
    LET c == run_entered(Called)
    IN  [c EXCEPT !.reg = [q \in Register |-> CASE q \in 19..26 -> 0
                                                [] q = 27 -> @[0]
                                                [] q = 28 -> @[1]
                                                [] q = 15 -> large_op
                                                [] q = 14 -> OP_DUPLICATE
                                                [] q = 13 -> handle_x13
                                                [] q = 12 -> handle_map
                                                [] q = 10 -> 0
                                                [] OTHER -> @[q]]]

\* The words of segment 0, which load_zero_segment and load_program compile.
Program0(m) == [i \in 1..m[SizeCell(0)] \div 4 |-> m[Cell(4 * (i - 1))]]

ArmInit ==
    /\ Init
    /\ host \in {"linux", "darwin"}
    /\ cpu = started /\ pc = loop
    /\ code = Program0(mem) /\ regions = 1
    /\ out = <<>> /\ begun = 0 /\ left = <<>>

UMRegisters(c) == [r \in Reg |-> c.reg[R(r)]]

\* A null x27 ends run; otherwise chunk number x10 of its region is next.
Enter ==
    /\ pc = loop /\ cpu.reg[27] # 0
    /\ cpu' = [cpu EXCEPT !.reg[9] = CHUNK, !.reg[0] = cpu.reg[10] * CHUNK + cpu.reg[27]]
    /\ pc' = cpu'.reg[0]
    /\ UNCHANGED <<vars, host, code, regions, out, begun, left>>

Finish ==
    /\ pc = loop /\ cpu.reg[27] = 0
    /\ cpu' = done(cpu) /\ pc' = cpu'.reg[30] /\ left' = UMRegisters(cpu)
    /\ UNCHANGED <<vars, host, code, regions, out, begun>>

-----------------------------------------------------------------------------
\* Chunks.

Index == (pc - Region(regions)) \div CHUNK
Inside == (pc - Region(regions)) % CHUNK
InCode == Region(regions) <= pc /\ Index < Len(code)
AtChunk == InCode /\ Inside = 0

\* The word of the chunk, what is ahead of pc in it, and the UM registers.
word == code[Index + 1]
Ahead == LET ops == compile_instruction(word) IN SubSeq(ops, Inside \div 4 + 1, Len(ops))
A == cpu.reg[R(reg_a(word))]
B == cpu.reg[R(reg_b(word))]
C == cpu.reg[R(reg_c(word))]

\* legal: the UM gives the instruction a meaning, and no store has changed it
\* since it was compiled; the heap can serve it.
InSegment(id, offset) == id \in Segments /\ 4 * offset < SizeOf(id)
Unchanged == 4 * Index < SizeOf(0) /\ get_at(mem, 4 * Index) = word
Legal ==
    CASE opcode(word) = 1 -> InSegment(B, C)
      [] opcode(word) = 2 -> InSegment(A, B)
      [] opcode(word) = 5 -> C # 0
      [] opcode(word) = 8 -> Requested(C) /\ FitsHeap(4 * C)
      [] opcode(word) = 9 -> C \in mapped
      [] opcode(word) = 10 -> C < BYTE
      [] opcode(word) = 12 -> B = 0 \/ (B \in mapped /\ SizeOf(B) # 0)
      [] OTHER -> opcode(word) <= 13

Bounded ==
    /\ opcode(word) = 10 => Len(out) < MaxOut
    /\ opcode(word) = 12 /\ B # 0 => regions < MaxRegions

\* The chunk may be gone into; behind a handler's return it goes on.
Begins == AtChunk /\ ~aborted /\ Unchanged /\ Legal
Runs == InCode /\ (Inside = 0 => Begins /\ Bounded)
Branches == {k \in DOMAIN Ahead : Ahead[k].op \in {"br", "blr"}}
Stores == {k \in DOMAIN Ahead : Ahead[k].op = "str"}

Straight ==
    /\ Runs /\ Ahead # <<>> /\ Branches = {}
    /\ cpu' = Run(cpu, Ahead) /\ pc' = pc + 4 * Len(Ahead) /\ begun' = Index
    /\ IF Stores = {} THEN UNCHANGED mem
       ELSE LET o == Ahead[CHOOSE k \in Stores : TRUE]
            IN  mem' = [mem EXCEPT ![Target(cpu', o.n, o.m)] = Wrap(cpu.reg[o.d])]
    /\ UNCHANGED <<alloc, kernel_virtual_size, aborted, host, code, regions, out, left>>

Branch ==
    /\ Runs
    /\ \E k \in Branches :
          LET c == Run(cpu, SubSeq(Ahead, 1, k - 1))
          IN  /\ cpu' = IF Ahead[k].op = "blr" THEN Set(c, 30, pc + 4 * k) ELSE c
              /\ pc' = c.reg[Ahead[k].n]
    /\ begun' = Index
    /\ UNCHANGED <<vars, host, code, regions, out, left>>

-----------------------------------------------------------------------------
\* Handlers.

Return(c) == cpu' = c /\ pc' = cpu'.reg[30]

\* large_op goes by x14, and takes what it does not know for OP_DUPLICATE.
Known == {OP_IN, OP_OUT, OP_HALT} \cup (IF host = "linux" THEN {OP_UNMAP} ELSE {})
Dispatch(op) == pc = large_op /\ ~aborted /\ op \in Known /\ cpu.reg[14] = op

map ==
    LET size == Wrap(cpu.reg[0])
    IN  /\ pc = handle_map
        /\ MapSegment(size)
        /\ \E junk \in Junk :
              Return(exited(returned(given_usable(entered(cpu)),
                                      Narrow(served(Wrap(4 * size)), junk), junk)))
        /\ UNCHANGED <<host, code, regions, out, begun, left>>

unmap ==
    /\ Dispatch(OP_UNMAP)
    /\ UnmapSegment(Wrap(cpu.reg[0]))
    /\ \E junk \in Junk :
          Return(restore_default_opcode(exited(returned(entered(cpu), junk, junk))))
    /\ UNCHANGED <<host, code, regions, out, begun, left>>

\* On Darwin x13 is the address of a handler for unmap alone.
handle_unmap ==
    /\ host = "darwin" /\ pc = handle_x13
    /\ UnmapSegment(Wrap(cpu.reg[0]))
    /\ \E junk \in Junk : Return(exited(returned(entered(cpu), junk, junk)))
    /\ UNCHANGED <<host, code, regions, out, begun, left>>

print_out ==
    LET value == Wrap(cpu.reg[0])
    IN  /\ Dispatch(OP_OUT)
        /\ out' = Append(out, value % BYTE)
        /\ \E junk \in Junk :
              Return(restore_default_opcode(
                        exited(returned(entered(cpu), Narrow(value, junk), junk))))
        /\ UNCHANGED <<vars, host, code, regions, begun, left>>

read_char ==
    /\ Dispatch(OP_IN)
    /\ \E value \in Input, junk \in Junk :
          Return(restore_default_opcode(
                    exited(returned(entered(cpu), Narrow(value, junk), junk))))
    /\ UNCHANGED <<vars, host, code, regions, out, begun, left>>

stop_without_zeroing(c) == c
stop(c) == Set(c, 27, 0)

halt ==
    /\ Dispatch(OP_HALT)
    /\ cpu' = stop(cpu) /\ pc' = loop
    /\ UNCHANGED <<vars, host, code, regions, out, begun, left>>

Duplicates == pc = large_op /\ ~aborted /\ cpu.reg[14] \notin Known

\* A load from segment 0 goes on in the same region.
jump ==
    /\ Duplicates /\ Wrap(cpu.reg[0]) = 0
    /\ pc' = loop
    /\ UNCHANGED <<vars, host, cpu, code, regions, out, begun, left>>

\* Another segment is copied, and compiled into a new region.
load_program ==
    LET b_val == Wrap(cpu.reg[0])
        back(junk) == returned(given_usable(dup_entered(cpu)), Region(regions + 1), junk)
    IN  /\ Duplicates /\ b_val # 0
        /\ LoadSegment(b_val)
        /\ \/ /\ ~aborted'
              /\ \E junk \in Junk :
                    cpu' = dup_exited(Set(back(junk), 27, back(junk).reg[0]))
              /\ pc' = loop
              /\ code' = Program0(mem') /\ regions' = regions + 1
           \/ aborted' /\ UNCHANGED <<cpu, pc, code, regions>>
        /\ UNCHANGED <<host, out, begun, left>>

ArmNext ==
    \/ Enter \/ Finish \/ Straight \/ Branch
    \/ map \/ unmap \/ handle_unmap \/ print_out \/ read_char \/ halt \/ jump \/ load_program

\* One thread runs, and waits for nothing but getchar.
ArmSpec == ArmInit /\ [][ArmNext]_<<vars, arm>> /\ WF_<<vars, arm>>(ArmNext)

-----------------------------------------------------------------------------
\* Properties.

Returned == pc = Caller(30)

\* The machine's state is what the code's types say; a UM register is a word.
ArmTypeOK ==
    /\ cpu.reg \in [Register -> Nat] /\ cpu.zero \in BOOLEAN
    /\ ~Returned => \A r \in Reg : cpu.reg[R(r)] \in U32
    /\ pc \in Nat /\ regions \in 1..MaxRegions
    /\ code \in Seq(U32) /\ begun \in 0..GB4
    /\ out \in Seq(0..BYTE - 1)

\* What every chunk relies on, whatever handler and C function ran before, also
\* when a handler returns into the middle of one: the base of the memory, the
\* region, the handlers, OP_DUPLICATE in w14 (inject_load_program does not set
\* it) and, on the stack, what run saved.
Reserved ==
    InCode => /\ cpu.reg[28] = USABLE /\ cpu.reg[27] = Region(regions)
              /\ cpu.reg[15] = large_op /\ cpu.reg[14] = OP_DUPLICATE
              /\ cpu.reg[13] = handle_x13 /\ cpu.reg[12] = handle_map
              /\ cpu.stack = run_entered(Called).stack /\ cpu.reg[29] = STACK - 16

\* Control is only ever at a label of utility.S, back in main, at the first byte
\* of a chunk of the current region, or behind the call in one.
Lands ==
    \/ pc \in Labels \cup {Caller(30)}
    \/ /\ Region(regions) <= pc
       /\ Inside # 0 => /\ InCode /\ Inside % 4 = 0
                        /\ compile_instruction(word)[Inside \div 4].op = "blr"

\* run returns with its caller's registers and stack.
CalleeSaved ==
    Returned => cpu.stack = <<>> /\ \A q \in Register \ Volatile : cpu.reg[q] = Caller(q)

\* Glue code ends: every chunk that is begun is followed by another, or by the
\* return to main, unless an assertion fails.
Finishes == (~AtChunk) ~> ((Region(regions) <= pc /\ Inside = 0) \/ Returned \/ aborted)

\* A halt instruction ends run: the chunk's opcode reaches .halt, x27 is zeroed
\* and loop sees it.
HaltReturns == (Begins /\ opcode(word) = 7) ~> Returned

\* Compiled code is a UM, as long as the program runs no word of segment 0 that
\* it has stored itself.  An instruction with a handler happens as the handler
\* runs: what its chunk does behind the handler's return has then been done.
Resumed == IF InCode /\ Inside # 0 THEN Run(cpu, Ahead) ELSE cpu
Finger ==
    IF pc = loop /\ cpu.reg[27] # 0 THEN cpu.reg[10]
    ELSE IF Region(regions) <= pc THEN Index + (IF Inside = 0 THEN 0 ELSE 1)
    ELSE begun

UM64 == INSTANCE UMachine
            WITH segs <- [id \in Segments |-> Contents(id)], finger <- Finger,
                 regs <- IF Returned THEN left ELSE UMRegisters(Resumed),
                 halted <- Returned,
                 Word <- U32, Id <- SegmentId,
                 Nand <- LAMBDA x, y : GB4 - 1 - And(x, y)
ImplementsUMachine == UM64!Spec
=============================================================================
