------------------------------- MODULE X86Jit -------------------------------
(***************************************************************************)
(* The JIT compiler for x86-64 (runtimes/jit/linux-x86_64): every word of a *)
(* loaded program becomes a chunk of CHUNK bytes, UM register r lives in    *)
(* machine register 8 + r, and a chunk reaches C through the hand-written   *)
(* handler `function' of utility.S.                                         *)
(*                                                                          *)
(* One step is one chunk, with the handler and the C function it calls: the *)
(* program has one thread.  The code of a region is represented by the      *)
(* words it was compiled from; compile_instruction gives their machine      *)
(* instructions, which Exec interprets.                                     *)
(*                                                                          *)
(* What a program does that the UM leaves undefined has no step.            *)
(***************************************************************************)
EXTENDS Virt32, Isa

CONSTANTS And(_, _),  \* bitwise and of two words (the processor's)
          VIRT,       \* the address of the allocator's mapping
          FUNCTION,   \* the address of `function'
          Caller(_),  \* what main has in each machine register as it calls run
          Junk,       \* what a C function may leave in a volatile register
          Input,      \* what getchar returns: bytes, and (uint32_t)EOF
          MaxOut,     \* bound: the most bytes a behaviour puts out
          MaxRegions  \* bound: the most regions of code a behaviour maps

CHUNK == 10
OP_MAP == 1
OP_UNMAP == 2
OP_OUT == 3
OP_IN == 4
OP_DUPLICATE == 5
OP_HALT == 6

\* The registers, by the numbers that instructions encode them with.
rax == 0
rcx == 1
rdx == 2
rbx == 3
rbp == 5
rsi == 6
rdi == 7
R(r) == 8 + r
Register == 0..15
Volatile == {rax, rcx, rdx, rsi, rdi} \cup {R(r) : r \in 0..3}

ASSUME X86JitAssumption ==
    /\ GB4 = 16 * OP_UNIT /\ Spare = 0 /\ NREGS <= 8 /\ OP_HALT < BYTE
    /\ U32 \subseteq Request /\ U32 \subseteq Offset /\ Value = U32
    /\ \A x, y \in U32 : And(x, y) \in U32 /\ And(x, y) = And(y, x)
    /\ VIRT \in Nat /\ VIRT % BLOCK_SIZE = 0
    /\ FUNCTION \in Nat /\ \A q \in Register : Caller(q) \in Nat
    /\ Junk \subseteq Nat /\ Input \subseteq U32
    /\ MaxOut \in Nat /\ MaxRegions \in Nat \ {0}

\* Regions of code, one for each program loaded; none is ever unmapped.
Region(n) == n * CHUNK * GB4
USABLE == VIRT + BOOK_SIZE

VARIABLES cpu,      \* registers, the zero flag, and the stack above run's caller
          rip,      \* address of the next chunk
          code,     \* the words that the current region was compiled from
          regions,  \* number of regions mapped
          out,      \* what fputc has written
          halted,   \* run has returned
          left      \* history: the UM registers as run returned

jit == <<cpu, rip, code, regions, out, halted, left>>

-----------------------------------------------------------------------------
\* Machine instructions: the ones a chunk is made of, and their lengths.

Op(name, length, src, dst) == [op |-> name, len |-> length, src |-> src, dst |-> dst]

movimm(value, d) == Op("mov imm32", 7, value, d)
moval(value) == Op("mov imm8, al", 2, value, rax)
mov(s, d) == Op("mov", 3, s, d)
add(s, d) == Op("add", 3, s, d)
and(s, d) == Op("and", 3, s, d)
not(d) == Op("not", 3, d, d)
mul(s) == Op("mul", 3, s, rax)
zero(d) == Op("xor", 2, d, d)
div(s) == Op("div", 3, s, rax)
xchg(d) == Op("xchg", 2, rax, d)
test(s) == Op("test", 3, s, s)
cmovne(s, d) == Op("cmovne", 4, s, d)
lea(s) == Op("lea", 4, s, rax)
load(s, d) == Op("load", 4, s, d)
store(s, d) == Op("store", 4, s, d)
nop(length) == Op("nop", length, rax, rax)
call == Op("call", 2, rbx, rbx)
jmp == Op("jmp", 2, rbx, rbx)

Set(c, d, value) == [c EXCEPT !.reg[d] = value]

\* The word of the mapping that (rax, q, 4) addresses.
Target(c, q) == Cell(c.reg[rax] + 4 * c.reg[q] - USABLE)

\* 32-bit instructions clear the upper half of their destination; lea and div
\* are 64-bit ones.
Exec(c, o) ==
    LET src == c.reg[o.src]
        dst == c.reg[o.dst]
    IN  CASE o.op = "mov imm32" -> Set(c, o.dst, o.src)
          [] o.op = "mov imm8, al" -> Set(c, rax, dst - (dst % BYTE) + o.src)
          [] o.op = "mov" -> Set(c, o.dst, Wrap(src))
          [] o.op = "add" -> Set(c, o.dst, Wrap(dst + src))
          [] o.op = "and" -> Set(c, o.dst, And(Wrap(dst), Wrap(src)))
          [] o.op = "not" -> Set(c, o.dst, GB4 - 1 - Wrap(dst))
          [] o.op = "xor" -> Set(c, o.dst, 0)
          [] o.op = "mul" ->
                LET product == Wrap(c.reg[rax]) * Wrap(src)
                IN  [c EXCEPT !.reg[rax] = Wrap(product), !.reg[rdx] = product \div GB4]
          [] o.op = "div" ->
                LET dividend == c.reg[rdx] * GB4 * GB4 + c.reg[rax]
                IN  [c EXCEPT !.reg[rax] = dividend \div src, !.reg[rdx] = dividend % src]
          [] o.op = "xchg" ->
                [c EXCEPT !.reg[rax] = Wrap(dst), !.reg[o.dst] = Wrap(src)]
          [] o.op = "test" -> [c EXCEPT !.zf = (Wrap(src) = 0)]
          [] o.op = "cmovne" -> Set(c, o.dst, IF c.zf THEN Wrap(dst) ELSE Wrap(src))
          [] o.op = "lea" -> Set(c, rax, c.reg[rcx] + src)
          [] o.op = "load" -> Set(c, o.dst, mem[Target(c, o.src)])
          [] OTHER -> c

\* The effect and the length of a few instructions in a row: at most four.
Then(c, ops, k) == IF k <= Len(ops) THEN Exec(c, ops[k]) ELSE c
Run(c, ops) == Then(Then(Then(Then(c, ops, 1), ops, 2), ops, 3), ops, 4)

Length(ops, k) == IF k <= Len(ops) THEN ops[k].len ELSE 0
Bytes_of(ops) == Length(ops, 1) + Length(ops, 2) + Length(ops, 3) + Length(ops, 4)

-----------------------------------------------------------------------------
\* The chunk of each UM instruction.

load_reg(a, value) == << movimm(value, R(a)), nop(3) >>
cond_move(a, b, c) == << test(R(c)), cmovne(R(b), R(a)), nop(3) >>
seg_load(a, b, c) == << lea(R(b)), load(R(c), R(a)), nop(2) >>
seg_store_too_long(a, b, c) == << lea(R(a)), store(R(b), R(c)), nop(2), nop(2) >>
seg_store(a, b, c) == << lea(R(a)), store(R(b), R(c)), nop(2) >>
add_regs(a, b, c) == << mov(R(b), rax), add(R(c), rax), mov(rax, R(a)), nop(1) >>
mult_regs(a, b, c) == << mov(R(b), rax), mul(R(c)), mov(rax, R(a)), nop(1) >>
div_regs(a, b, c) == << zero(rdx), mov(R(b), rax), div(R(c)), xchg(R(a)) >>

\* The source that is the destination as well is the one to keep for `and'.
nand_regs_moving_b(a, b, c) ==
    << mov(R(b), R(a)), and(R(c), R(a)), not(R(a)), nop(1) >>
nand_regs(a, b, c) ==
    LET move == IF a = c THEN c ELSE b
        keep == IF a = c THEN b ELSE c
    IN  << mov(R(move), R(a)), and(R(keep), R(a)), not(R(a)), nop(1) >>

handle_halt == << moval(OP_HALT), jmp >>
inject_map_segment(b, c) == << mov(R(c), rdi), moval(OP_MAP), call, mov(rax, R(b)) >>
inject_unmap_segment(c) == << mov(R(c), rdi), moval(OP_UNMAP), call, nop(3) >>
print_reg(c) == << mov(R(c), rdi), moval(OP_OUT), call, nop(3) >>
read_into_reg(c) == << moval(OP_IN), call, mov(rax, R(c)), nop(3) >>
inject_load_program(b, c) == << mov(R(c), rsi), mov(R(b), rdi), moval(OP_DUPLICATE), jmp >>

compile_instruction(word) ==
    LET a == reg_a(word)
        b == reg_b(word)
        c == reg_c(word)
    IN  CASE opcode(word) = 13 -> load_reg(lv_reg(word), lv_val(word))
          [] opcode(word) = 10 -> print_reg(c)
          [] opcode(word) = 3 -> add_regs(a, b, c)
          [] opcode(word) = 7 -> handle_halt
          [] opcode(word) = 6 -> nand_regs(a, b, c)
          [] opcode(word) = 4 -> mult_regs(a, b, c)
          [] opcode(word) = 5 -> div_regs(a, b, c)
          [] opcode(word) = 0 -> cond_move(a, b, c)
          [] opcode(word) = 11 -> read_into_reg(c)
          [] opcode(word) = 1 -> seg_load(a, b, c)
          [] opcode(word) = 2 -> seg_store(a, b, c)
          [] opcode(word) = 12 -> inject_load_program(b, c)
          [] opcode(word) = 8 -> inject_map_segment(b, c)
          [] opcode(word) = 9 -> inject_unmap_segment(c)
          [] OTHER -> <<>>

-----------------------------------------------------------------------------
\* utility.S.

Pushed(c, names) ==
    [c EXCEPT !.stack = @ \o [i \in DOMAIN names |-> c.reg[names[i]]]]
Popped(c, names) ==
    LET n == Len(c.stack)
        place(q) == CHOOSE i \in DOMAIN names : names[i] = q
    IN  [c EXCEPT !.reg = [q \in Register |-> IF \E i \in DOMAIN names : names[i] = q
                                              THEN c.stack[n + 1 - place(q)] ELSE @[q]],
                  !.stack = SubSeq(@, 1, n - Len(names))]

push_regs(c) == Pushed(c, << R(0), R(1), R(2), R(3), rcx >>)
pop_regs_in_push_order(c) == Popped(c, << R(0), R(1), R(2), R(3), rcx >>)
pop_regs(c) == Popped(c, << rcx, R(3), R(2), R(1), R(0) >>)
Kept == << rbx, rbp, R(4), R(5), R(6), R(7) >>
restored_in_push_order(c) == Popped(c, << rbx, rbp, R(4), R(5), R(6), R(7) >>)
restored(c) == Popped(c, << R(7), R(6), R(5), R(4), rbp, rbx >>)

\* The label `loop', up to its jump: where it goes.
looped(c) == [c EXCEPT !.reg[rdi] = c.reg[rbp],
                       !.reg[rax] = c.reg[rbp] + CHUNK * Wrap(c.reg[rsi])]

\* The handler's way into C and back: arguments in rdi and rsi, a result in rax,
\* and the volatile registers as the function leaves them.
entered(c) == Set(push_regs(c), rsi, c.reg[rcx])
returned(c, result, junk) ==
    [c EXCEPT !.reg = [q \in Register |-> IF q = rax THEN result
                                          ELSE IF q \in Volatile THEN junk ELSE @[q]]]

\* run, up to its first jump; rdi and rsi are its arguments.
started_without_zeroing ==
    LET c == Pushed([reg |-> [q \in Register |-> Caller(q)], zf |-> TRUE, stack |-> <<>>],
                    Kept)
    IN  looped([c EXCEPT !.reg = [q \in Register |-> CASE q = rbx -> FUNCTION
                                                       [] q = rbp -> Region(1)
                                                       [] q = rcx -> USABLE
                                                       [] q = rsi -> 0
                                                       [] OTHER -> @[q]]])
started ==
    LET c == Pushed([reg |-> [q \in Register |-> Caller(q)], zf |-> TRUE, stack |-> <<>>],
                    Kept)
    IN  looped([c EXCEPT !.reg = [q \in Register |-> CASE q \in 8..15 -> 0
                                                       [] q = rbx -> FUNCTION
                                                       [] q = rbp -> Region(1)
                                                       [] q = rcx -> USABLE
                                                       [] q = rsi -> 0
                                                       [] OTHER -> @[q]]])

\* The words of segment 0, which load_zero_segment and load_program compile.
Program0(m) == [i \in 1..m[SizeCell(0)] \div 4 |-> m[Cell(4 * (i - 1))]]

JitInit ==
    /\ Init
    /\ cpu = started /\ rip = started.reg[rax]
    /\ code = Program0(mem) /\ regions = 1
    /\ out = <<>> /\ halted = FALSE /\ left = <<>>

-----------------------------------------------------------------------------
\* Running a chunk.

pc == (rip - Region(regions)) \div CHUNK
word == code[pc + 1]
Chunk == compile_instruction(word)
A == cpu.reg[R(reg_a(word))]
B == cpu.reg[R(reg_b(word))]
C == cpu.reg[R(reg_c(word))]

\* The next chunk is one of these instructions.
Runs(ops) == ~halted /\ ~aborted /\ pc < Len(code) /\ opcode(word) \in ops

\* legal: no store has changed the word since it was compiled.
Unchanged == 4 * pc < SizeOf(0) /\ get_at(mem, 4 * pc) = word

\* legal: the segment is mapped and the offset within it.
InSegment(id, offset) == id \in Segments /\ 4 * offset < SizeOf(id)

Straight ==
    /\ Runs({0, 1, 3, 4, 5, 6, 13})
    /\ opcode(word) = 1 => InSegment(B, C)
    /\ opcode(word) = 5 => C # 0
    /\ cpu' = Run(cpu, Chunk) /\ rip' = rip + Bytes_of(Chunk)
    /\ UNCHANGED <<vars, code, regions, out, halted, left>>

Store ==
    /\ Runs({2}) /\ InSegment(A, B)
    /\ cpu' = Run(cpu, Chunk) /\ rip' = rip + Bytes_of(Chunk)
    /\ mem' = [mem EXCEPT ![Target(cpu', Chunk[2].src)] = Wrap(cpu'.reg[Chunk[2].dst])]
    /\ UNCHANGED <<alloc, kernel_virtual_size, aborted, code, regions, out, halted, left>>

\* The jump, or the call, of a chunk into the handler: the CPU there, what the
\* chunk does after a return, and the dispatch on al.
Leaves(ops) == CHOOSE k \in DOMAIN ops : ops[k] \in {call, jmp}
Upto == SubSeq(Chunk, 1, Leaves(Chunk))
Rest == SubSeq(Chunk, Leaves(Chunk) + 1, Len(Chunk))
handler ==
    LET c == Run(cpu, Upto)
    IN  IF Chunk[Leaves(Chunk)] = call
        THEN [c EXCEPT !.stack = Append(@, rip + Bytes_of(Upto))] ELSE c
function(op) == Runs(7..12) /\ handler.reg[rax] % BYTE = op

Return(c) ==
    LET n == Len(c.stack)
    IN  /\ cpu' = Run([c EXCEPT !.stack = SubSeq(@, 1, n - 1)], Rest)
        /\ rip' = c.stack[n] + Bytes_of(Rest)

\* legal: a length, and a heap, that vs_calloc can serve.
map ==
    LET c == entered(handler)
        words == Wrap(c.reg[rdi])
    IN  /\ function(OP_MAP)
        /\ Requested(words) /\ FitsHeap(4 * words)
        /\ MapSegment(words)
        /\ \E junk \in Junk : Return(pop_regs(returned(c, served(Wrap(4 * words)), junk)))
        /\ UNCHANGED <<code, regions, out, halted, left>>

\* legal: a segment that is mapped, and is not segment 0.
unmap ==
    LET c == push_regs(handler)
    IN  /\ function(OP_UNMAP)
        /\ Wrap(c.reg[rdi]) \in mapped
        /\ UnmapSegment(Wrap(c.reg[rdi]))
        /\ \E junk \in Junk : Return(pop_regs(returned(c, junk, junk)))
        /\ UNCHANGED <<code, regions, out, halted, left>>

\* legal: a value of one byte, which fputc's cast to unsigned char keeps.
print_out ==
    LET c == push_regs(handler)
        value == Wrap(c.reg[rdi])
    IN  /\ function(OP_OUT)
        /\ value < BYTE /\ Len(out) < MaxOut
        /\ out' = Append(out, value % BYTE)
        /\ \E junk \in Junk : Return(pop_regs(returned(c, value, junk)))
        /\ UNCHANGED <<vars, code, regions, halted, left>>

read_char ==
    /\ function(OP_IN)
    /\ \E value \in Input, junk \in Junk :
          Return(pop_regs(returned(push_regs(handler), value, junk)))
    /\ UNCHANGED <<vars, code, regions, out, halted, left>>

\* A load from segment 0 jumps within the region.
jump ==
    /\ function(OP_DUPLICATE) /\ Wrap(handler.reg[rdi]) = 0
    /\ cpu' = looped(handler) /\ rip' = cpu'.reg[rax]
    /\ UNCHANGED <<vars, code, regions, out, halted, left>>

\* Another segment is copied and compiled into a new region.  legal: it is not
\* empty, for it leaves no instruction to go to (and mmap of no bytes fails).
load_program ==
    LET c == entered(Pushed(handler, <<rsi>>))
        b_val == Wrap(c.reg[rdi])
        back(junk) == Popped(pop_regs(returned(c, Region(regions + 1), junk)), <<rsi>>)
    IN  /\ function(OP_DUPLICATE) /\ b_val # 0 /\ regions < MaxRegions
        /\ b_val \in mapped /\ SizeOf(b_val) # 0
        /\ LoadSegment(b_val)
        /\ \/ /\ ~aborted'
              /\ \E junk \in Junk : cpu' = looped(Set(back(junk), rbp, back(junk).reg[rax]))
              /\ rip' = cpu'.reg[rax]
              /\ code' = Program0(mem') /\ regions' = regions + 1
           \/ aborted' /\ UNCHANGED <<cpu, rip, code, regions>>
        /\ UNCHANGED <<out, halted, left>>

UMRegisters(c) == [r \in Reg |-> c.reg[R(r)]]

halt ==
    /\ function(OP_HALT)
    /\ cpu' = restored(handler) /\ left' = UMRegisters(handler) /\ halted' = TRUE
    /\ UNCHANGED <<vars, rip, code, regions, out>>

JitStep ==
    \/ Straight \/ Store \/ map \/ unmap \/ print_out \/ read_char
    \/ jump \/ load_program \/ halt
JitNext == Unchanged /\ JitStep

JitSpec == JitInit /\ [][JitNext]_<<vars, jit>>

-----------------------------------------------------------------------------
\* Properties.

JitTypeOK ==
    /\ cpu.reg \in [Register -> Nat] /\ cpu.zf \in BOOLEAN
    /\ ~halted => \A r \in Reg : cpu.reg[R(r)] \in U32
    /\ rip \in Nat /\ regions \in 1..MaxRegions
    /\ code \in Seq(U32)
    /\ out \in Seq(0..BYTE - 1) /\ halted \in BOOLEAN

\* What every chunk relies on, and every chunk and every C function it calls
\* must leave in place: the base of the memory, the handler, the region and, on
\* the stack, what run saved.
Reserved ==
    ~halted => /\ cpu.reg[rcx] = USABLE
               /\ cpu.reg[rbx] = FUNCTION
               /\ cpu.reg[rbp] = Region(regions)
               /\ cpu.stack = [i \in 1..6 |-> Caller(Kept[i])]

\* Control only ever arrives at the first byte of a chunk of the current region.
Lands == ~halted => rip >= Region(regions) /\ (rip - Region(regions)) % CHUNK = 0

\* run returns with its caller's registers and stack.
CalleeSaved ==
    halted => /\ cpu.stack = <<>>
              /\ \A i \in 1..6 : cpu.reg[Kept[i]] = Caller(Kept[i])

\* Compiled code is a UM, as long as the program runs no word of segment 0 that
\* it has stored itself: registers, segments, finger and output are those of
\* the UM that decodes each word afresh.
UM64 == INSTANCE UMachine
            WITH segs <- [id \in Segments |-> Contents(id)], finger <- pc,
                 regs <- IF halted THEN left ELSE UMRegisters(cpu),
                 Word <- U32, Id <- SegmentId,
                 Nand <- LAMBDA x, y : GB4 - 1 - And(x, y)
ImplementsUMachine == UM64!Spec

-----------------------------------------------------------------------------
\* A statement of the repository that the code does not keep.

\* The comment in seg_store: the allocator serves 32-byte boundaries, so that
\* the low five bits of the address a store leaves in rax, and of the al a
\* recompiling store would call the handler with, are 0.
StoresLeaveLowBitsZero == [][Store => cpu'.reg[rax] % 32 = 0]_<<vars, jit>>
=============================================================================
