------------------------------- MODULE OptJit -------------------------------
(***************************************************************************)
(* The LLVM JIT (runtimes/optimized-jit): main hands the words of a program *)
(* one by one to the Compiler, which builds one function out of basic       *)
(* blocks, a block for each word; executeJIT verifies it and calls it.      *)
(*                                                                          *)
(* `builder' is the function under construction and the block into which    *)
(* IRBuilder inserts; `at' is the place of the next IR instruction once the *)
(* function runs.  What an emitter writes in one go, loads of registers,    *)
(* a result and its store, is one IR instruction here.                      *)
(*                                                                          *)
(* The compiler is unfinished; Finished says what of the UM it compiles.    *)
(***************************************************************************)
EXTENDS Virt32, Isa

CONSTANTS And(_, _),   \* bitwise and of two words
          Junk,        \* what an alloca may hold before it is written
          Input,       \* what getchar returns: bytes, and (uint32_t)EOF
          MaxOut       \* bound: the most bytes a behaviour puts out

\* Blocks: those of the instructions are 0, 1, ... (instructionLabels).
Entry == -1
Dispatch == -2
Halt == -3

ASSUME OptJitAssumption ==
    /\ GB4 = 16 * OP_UNIT
    /\ U32 \subseteq Request /\ U32 \subseteq Offset /\ Value = U32
    /\ \A x, y \in U32 : And(x, y) \in U32
    /\ Junk \subseteq U32 /\ Junk # {} /\ Input \subseteq U32 /\ MaxOut \in Nat

VARIABLES program,   \* loader.program
          phase,     \* how far main is
          builder,   \* the function's blocks, and the one inserted into
          next,      \* currentInstructionIndex
          regs,      \* the registers' allocas
          jump,      \* the alloca that nextInstructionPtr points to
          at,        \* the block, and the place in it, to run next
          out,       \* what putchar has written
          last       \* history: the instruction's block entered last

opt == <<program, phase, builder, next, regs, jump, at, out, last>>
compiled == <<program, phase, builder, next>>

-----------------------------------------------------------------------------
\* IR instructions, and the emitter of each.

Ir(name, a, b, c) == [op |-> name, a |-> a, b |-> b, c |-> c]

setRegisterValues(reg, value) == Ir("set", reg, value, 0)
conditionalMove(a, b, c) == Ir("select", a, b, c)
compileLoad(a, b, c) == Ir("load", a, b, c)
compileStore(a, b, c) == Ir("store", a, b, c)
compileAddition(a, b, c) == Ir("add", a, b, c)
compileMul(a, b, c) == Ir("mul", a, b, c)
compileDiv(a, b, c) == Ir("udiv", a, b, c)
compileNand(a, b, c) == Ir("nand", a, b, c)
compileMap(b, c) == Ir("vs_calloc", b, b, c)
compileUnmap(c) == Ir("vs_free", c, c, c)
printRegister(c) == Ir("putchar", c, c, c)
readIntoRegister(c) == Ir("getchar", c, c, c)
targetIndex(c) == Ir("target", c, c, c)

Br(block) == Ir("br", block, block, block)
Switch == Ir("switch", 0, 0, 0)
Ret == Ir("ret", 0, 0, 0)
IsTerminator(o) == o.op \in {"br", "switch", "ret"}

-----------------------------------------------------------------------------
\* The Compiler.

Insert(f, code) == [f EXCEPT !.blocks[f.here] = @ \o code]
Has(f, block) == block \in DOMAIN f.blocks

\* A block of one instruction; the point of insertion is saved and restored.
WithBlock_left_there(f, block, o) ==
    [blocks |-> [l \in DOMAIN f.blocks \cup {block} |->
                    IF l = block THEN <<o>> ELSE f.blocks[l]],
     here |-> block]
WithBlock(f, block, o) ==
    [blocks |-> [l \in DOMAIN f.blocks \cup {block} |->
                    IF l = block THEN <<o>> ELSE f.blocks[l]],
     here |-> f.here]
createHaltBlock(f) == WithBlock(f, Halt, Ret)
createDispatchBlock(f) == WithBlock(f, Dispatch, Switch)

jumpToHalt(f) == Insert(IF Has(f, Halt) THEN f ELSE createHaltBlock(f), <<Br(Halt)>>)
jumpToDispatch(f) ==
    Insert(IF Has(f, Dispatch) THEN f ELSE createDispatchBlock(f), <<Br(Dispatch)>>)
compileLoadProgram(f, c) == jumpToDispatch(Insert(f, <<targetIndex(c)>>))

\* What the constructor leaves: an entry block that zeroes the allocas.
Constructed ==
    [blocks |-> [l \in {Entry} |->
                    [i \in 1..NREGS |-> setRegisterValues(i - 1, 0)]
                        \o <<Ir("first", 0, 0, 0)>>],
     here |-> Entry]

\* Instructions other than 7 and 12: those that do not jump, and the two
\* operators for which nothing is emitted.
Straight(word) ==
    LET a == reg_a(word)
        b == reg_b(word)
        c == reg_c(word)
    IN  CASE opcode(word) = 13 -> <<setRegisterValues(lv_reg(word), lv_val(word))>>
          [] opcode(word) = 0 -> <<conditionalMove(a, b, c)>>
          [] opcode(word) = 1 -> <<compileLoad(a, b, c)>>
          [] opcode(word) = 2 -> <<compileStore(a, b, c)>>
          [] opcode(word) = 3 -> <<compileAddition(a, b, c)>>
          [] opcode(word) = 4 -> <<compileMul(a, b, c)>>
          [] opcode(word) = 5 -> <<compileDiv(a, b, c)>>
          [] opcode(word) = 6 -> <<compileNand(a, b, c)>>
          [] opcode(word) = 8 -> <<compileMap(b, c)>>
          [] opcode(word) = 9 -> <<compileUnmap(c)>>
          [] opcode(word) = 10 -> <<printRegister(c)>>
          [] opcode(word) = 11 -> <<readIntoRegister(c)>>
          [] OTHER -> <<>>

\* The block of word number i; only the last one may be left without an end.
instruction(f, word, i) ==
    LET g == [f EXCEPT !.here = i]
    IN  CASE opcode(word) = 7 -> jumpToHalt(g)
          [] opcode(word) = 12 -> compileLoadProgram(g, reg_c(word))
          [] OTHER -> Insert(g, Straight(word) \o
                                IF Has(f, i + 1) THEN <<Br(i + 1)>> ELSE <<>>)

Ended(code) == code # <<>> /\ IsTerminator(code[Len(code)])
finished(f) ==
    LET g == IF Has(f, Halt) THEN f ELSE createHaltBlock(f)
    IN  IF f.here = Halt THEN f
        ELSE IF Ended(g.blocks[g.here]) THEN g ELSE Insert(g, <<Br(Halt)>>)

\* What verifyModule asks of a function's blocks: each ends with a terminator
\* and has no other, and branches stay within the function.
WellFormed(f) ==
    \A l \in DOMAIN f.blocks :
        /\ Ended(f.blocks[l])
        /\ \A i \in DOMAIN f.blocks[l] :
              /\ IsTerminator(f.blocks[l][i]) => i = Len(f.blocks[l])
              /\ f.blocks[l][i].op = "br" => Has(f, f.blocks[l][i].a)

-----------------------------------------------------------------------------
\* main.

OptInit ==
    /\ program \in Program
    /\ mem = [c \in 0..GB4 \div 4 - 1 |-> 0]
    /\ rec = [b \in 0..REC_BUCKETS - 1 |-> EmptyStack]
    /\ start_unused = 4 * Len(program)
    /\ kernel_virtual_size = Wrap(4 * Len(program) - BOOK_SIZE)
    /\ mapped = {} /\ aborted = FALSE
    /\ phase = "constructed" /\ builder = Constructed /\ next = 0
    /\ \E junk \in Junk : regs = [r \in Reg |-> junk] /\ jump = junk
    /\ at = <<Entry, 1>> /\ out = <<>> /\ last = 0

createInstructionLabels ==
    /\ phase = "constructed" /\ phase' = "compiling"
    /\ LET f == [builder EXCEPT !.blocks =
                    [l \in {Entry} \cup 0..Len(program) - 1 |->
                        IF l = Entry THEN builder.blocks[Entry] ELSE <<>>]]
       IN  builder' = IF program = <<>> THEN f ELSE Insert(f, <<Br(0)>>)
    /\ UNCHANGED <<vars, program, next, regs, jump, at, out, last>>

\* One turn of main's loop: the word is compiled, and stored in segment 0.
compileInstruction ==
    /\ phase = "compiling" /\ next < Len(program)
    /\ builder' = instruction(builder, program[next + 1], next)
    /\ next' = next + 1
    /\ mem' = set_at(mem, 4 * (next \div 4), program[next + 1])
    /\ UNCHANGED <<alloc, kernel_virtual_size, aborted, program, phase, regs, jump, at, out, last>>

finishProgram ==
    /\ phase = "compiling" /\ next = Len(program)
    /\ builder' = finished(builder) /\ phase' = "compiled"
    /\ UNCHANGED <<vars, program, next, regs, jump, at, out, last>>

executeJIT ==
    /\ phase = "compiled"
    /\ phase' = IF WellFormed(builder) THEN "running" ELSE "refused"
    /\ UNCHANGED <<vars, program, builder, next, regs, jump, at, out, last>>

-----------------------------------------------------------------------------
\* The compiled function.

Ahead == builder.blocks[at[1]][at[2]]
InProgram == at[1] \in 0..Len(program) - 1
B == regs[Ahead.b]
C == regs[Ahead.c]

\* legal: the UM gives the instruction a meaning, and the compiler one of its
\* own that can agree with it.  compileMap asks for bytes where the UM counts
\* words, loads and stores go by a null base, compileLoadProgram takes no notice
\* of register B, and a jump out of the program goes to its first instruction.
Finished ==
    InProgram /\ at[2] = 1 =>
        LET word == program[at[1] + 1]
            b == regs[reg_b(word)]
            c == regs[reg_c(word)]
        IN  /\ opcode(word) \notin {1, 2, 14, 15}
            /\ opcode(word) = 5 => c # 0
            /\ opcode(word) = 8 => c = 0 /\ FitsHeap(0)
            /\ opcode(word) = 9 => c \in mapped
            /\ opcode(word) = 10 => c < BYTE
            /\ opcode(word) = 12 => b = 0 /\ c < Len(program)

Runs(ops) == phase = "running" /\ Finished /\ Ahead.op \in ops
Falls == Ahead.op = "br" /\ Ahead.a = Halt /\ (InProgram => opcode(program[at[1] + 1]) # 7)

GoOn ==
    /\ at' = <<at[1], at[2] + 1>>
    /\ last' = IF InProgram THEN at[1] ELSE last

CreateAdd_of_64_bits(x, y) == x + y
CreateAdd(x, y) == Wrap(x + y)

Result ==
    CASE Ahead.op = "set" -> Ahead.b
      [] Ahead.op = "select" -> IF C # 0 THEN B ELSE regs[Ahead.a]
      [] Ahead.op = "add" -> CreateAdd(B, C)
      [] Ahead.op = "mul" -> Wrap(B * C)
      [] Ahead.op = "udiv" -> B \div C
      [] Ahead.op = "nand" -> GB4 - 1 - And(B, C)

Compute ==
    /\ Runs({"set", "select", "add", "mul", "udiv", "nand"})
    /\ regs' = [regs EXCEPT ![Ahead.a] = Result]
    /\ GoOn /\ UNCHANGED <<vars, compiled, jump, out>>

map ==
    /\ Runs({"vs_calloc"})
    /\ vs_calloc(C)
    /\ regs' = [regs EXCEPT ![Ahead.b] = served(C)]
    /\ GoOn /\ UNCHANGED <<compiled, jump, out>>

unmap ==
    /\ Runs({"vs_free"})
    /\ vs_free(C)
    /\ GoOn /\ UNCHANGED <<compiled, regs, jump, out>>

print ==
    /\ Runs({"putchar"}) /\ Len(out) < MaxOut
    /\ out' = Append(out, C % BYTE)
    /\ GoOn /\ UNCHANGED <<vars, compiled, regs, jump>>

read ==
    /\ Runs({"getchar"})
    /\ \E value \in Input : regs' = [regs EXCEPT ![Ahead.c] = value]
    /\ GoOn /\ UNCHANGED <<vars, compiled, jump, out>>

\* The store that nextInstructionPtr is for: 0 at entry, then the target.
target ==
    /\ Runs({"first", "target"})
    /\ jump' = IF Ahead.op = "first" THEN 0 ELSE C
    /\ GoOn /\ UNCHANGED <<vars, compiled, regs, out>>

\* One case for each instruction; the default is the first.
Case_but_the_last(index) == IF index < Len(program) - 1 THEN index ELSE 0
Case(index) == IF index < Len(program) THEN index ELSE 0

branch ==
    /\ Runs({"br", "switch"}) /\ ~Falls
    /\ at' = <<IF Ahead.op = "br" THEN Ahead.a ELSE Case(jump), 1>>
    /\ last' = IF InProgram THEN at[1] ELSE last
    /\ UNCHANGED <<vars, compiled, regs, jump, out>>

return ==
    /\ Runs({"ret"}) /\ phase' = "returned"
    /\ UNCHANGED <<vars, program, builder, next, regs, jump, at, out, last>>

OptNext ==
    \/ createInstructionLabels \/ compileInstruction \/ finishProgram \/ executeJIT
    \/ Compute \/ map \/ unmap \/ print \/ read \/ target \/ branch \/ return

OptSpec == OptInit /\ [][OptNext]_<<vars, opt>>

-----------------------------------------------------------------------------
\* Properties.

\* Registers and the jump target are words; the function only runs where it has
\* instructions.
OptTypeOK ==
    /\ regs \in [Reg -> U32] /\ jump \in U32
    /\ out \in Seq(0..BYTE - 1) /\ next \in 0..Len(program)
    /\ phase = "running" => Has(builder, at[1]) /\ at[2] \in DOMAIN builder.blocks[at[1]]

\* Whatever the program, executeJIT finds a function that verifies: no block is
\* left without an end, and none goes on behind one, although the halt block and
\* the dispatch block are made in the middle of another.
NeverRefused == phase # "refused"

\* The compiled function is a UM for what the compiler has finished: programs
\* that jump within themselves, compute, and read and write the console.
Registers == IF at[1] = Entry THEN [r \in Reg |-> 0] ELSE regs
Finger ==
    CASE at[1] = Entry -> 0
      [] at[1] = Dispatch -> jump
      [] at[1] = Halt -> last
      [] OTHER -> IF at[2] = 1 THEN at[1]
                  ELSE IF opcode(program[at[1] + 1]) = 12 THEN jump ELSE at[1] + 1

UM64 == INSTANCE UMachine
            WITH segs <- [id \in Segments |-> IF id = 0 THEN program ELSE Contents(id)],
                 regs <- Registers, finger <- Finger, halted <- at[1] = Halt,
                 Word <- U32, Id <- U32,
                 Nand <- LAMBDA x, y : GB4 - 1 - And(x, y)
ImplementsUMachine == UM64!Spec
=============================================================================
