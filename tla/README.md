# Verification of the UM runtimes

TLA+ models of the runtimes in this repository for the Universal Machine (UM),
the TLC runs that check them on small instances, and theorems that TLAPS proves
for every size. `PROJECT.json` lists the runs, the properties, the hazards at
their source lines and, for every definition, the lines it models.

Paths below are relative to `src/`.

## 1. Inventory of the system

A UM program is a file of 32-bit words. It becomes segment 0; the program maps
and unmaps further segments, stores words into any segment, segment 0 included,
and may replace segment 0 by a copy of another segment ("load program").
Several runtimes execute the same programs.

| Component | Where | State it keeps | Operations |
|---|---|---|---|
| Virt32 allocator | `runtimes/virt/virt.h`, `virt.c` | a 4 GB mapping with 8-byte headers (capacity, size) in it; one LIFO stack of freed segments per capacity (2^19); the carving frontier `start_unused`; the capacity of segment 0 | `init_memory_system`, `vs_calloc`, `vs_free`, `get_at`, `set_at`, `kern_realloc`, `kern_memcpy` |
| Interpreter over Virt32 | `runtimes/interpreter/mod_emulator.c` | 8 registers, program counter | fetch, decode, 14 instructions, load segment |
| First emulator | `runtimes/original-interpreter/emulator.c` | array of malloc'ed buffers, their lengths, stack of freed identifiers; 8 registers, instruction pointer | the same 14 instructions over its own table |
| JIT, x86-64 | `runtimes/jit/linux-x86_64/` | machine registers, stack, regions of machine code, Virt32 | one 10-byte chunk per UM word; the handler `function` in `utility.S`; `load_program` |
| JIT, arm64 (Linux, macOS) | `runtimes/jit/linux-arm64/`, `darwin-arm64/` | the same; UM registers in w19 to w26, the opcode of the next call in w14 | one 12-byte chunk per word; `run`, `large_op`, `handle_map` (on Darwin also `handle_unmap`) in `utility.S`; `load_program` |
| LLVM JIT | `runtimes/optimized-jit/` | one LLVM function with a basic block per word, the point at which the builder inserts; then allocas for registers and jump target, Virt32 | compile a word, finish, verify, run; unfinished, see section 8 |
| Instruction words, program files | `assembler/crude_asm/main.c` and every loader | none | encode, print and assemble words |
| Test runner | `tests/` | none | starts the runtimes and compares outputs |
| Experiments, binaries, documents | `experiments/`, `umasm/`, `docs/` | none | |

**How they interact.** Everything is one thread and direct calls. The
interpreters call the allocator; a JIT's chunk calls, or jumps to, a hand-written
assembly handler, which saves the UM registers that C may destroy, calls a C
function (which calls the allocator), restores them and returns into the chunk,
or jumps to the chunk of another word. The shared state that makes this hard is
*data living where something else can write it*: headers lie four bytes from
program data, segment 0 is both data and code, UM registers live in machine
registers that belong to the callee.

**What is hard here**, and which property catches it (the full list, with source
lines, is `hazards` in `PROJECT.json`):

- Two computations of one size class: `vs_calloc` from the size asked for,
  `vs_free` from the capacity found in memory (`RecyclerExact`, `HeapShape`).
- A header damaged by an access next to it files a later free wrongly
  (`CapacityIsForEver`, `HeapInv`).
- A reused segment or buffer keeps its old words beyond the size in force
  (`ImplementsUMMemory`, `LengthsTrue`).
- Limits: the full heap, the full recycler stack, the arrays that grow with an
  identifier in hand (`ServedWithinHeap`, `StacksFit`, `TypeOK` of `SegTable`).
- 32-bit wrap in addresses, sizes and arithmetic (`ImplementsUMachine`,
  `ServedWithinHeap`).
- Replacing the program while it runs; jumping into a program that was changed
  (`ImplementsUMachine`, `Lands`, `Reserved`); a pointer that stays in the old
  program (`FetchesProgram`).
- Register protocol between chunks, handler and C (`Reserved`, `CalleeSaved`).
- Glue code that could go round for ever: a link register that is not put back, a
  halt that does not reach its label (`Finishes`, `HaltReturns`).
- Blocks created in the middle of another block (`NeverRefused`).

There is no concurrency, no message passing and no persistence: no hazard of
those kinds is listed, because the code cannot meet one.

## 2. The modules

```
 UMMemory                 the memory a program may rely on (abstract)
 UMachine = Isa+UMMemory  registers, finger, memory, console  (abstract)

 Virt32  ............ implements UMMemory
   ModEmulator  = Virt32 + Isa ..... implements UMachine, uses Virt32
   X86Jit       = Virt32 + Isa ..... implements UMachine
   ArmJit       = Virt32 + Isa ..... implements UMachine
   OptJit       = Virt32 + Isa ..... implements UMachine, where it is finished
 SegTable ........... implements UMMemory
   Emulator     = SegTable + Isa ... implements UMachine

 Virt32Proofs, SegTableProofs, IsaProofs      theorems about the memories and words
 ModEmulatorProofs, EmulatorProofs            ... about the interpreters
 X86JitProofs, ArmJitProofs, OptJitProofs     ... about the compilers
 Virt32Peak, SegTablePeak          the memories, with a program's peak demand
 MCVirt32, MCSegTable, MCModEmulator, MCEmulator, MCX86Jit, MCArmJit, MCOptJit
                                              instances for TLC
```

Each `...Proofs` module extends the module it is about, and those of the
machines extend the proofs about their memory and about `Isa` as well (the variable
`peak` that comes with the former is in none of their formulas).

**Isa** has the fields of a word (`opcode`, `reg_a`, `lv_val`...), the assembler's
encoders and the byte order of program files. The field widths are constants, so
that TLC can run with 10-bit words; in the repository `NREGS = 8`,
`OP_UNIT = 2^28`, `LV_UNIT = 2^25`, `BYTE = 256`.

**UMMemory** has segments as sequences of words under identifiers: map (a fresh
identifier, zero words), unmap, store, load segment (a copy replaces segment 0).
**UMachine** adds registers, the execution finger, input and output. It is taken
from the contract all runtimes share; where the UM leaves a program undefined it
has no step.

**Virt32** models the allocator at the level of the *words of the mapping*: `mem`
is one array, headers and data in it side by side, so that a store, a `memset` or
a copy that goes astray damages what the C program would have damaged.
`start_unused`, `rec` and `kernel_virtual_size` are the C variables; addresses
are offsets from `usable` and wrap like `uint32_t`. `mapped`, the identifiers in
the program's hands, is the one history variable. `Recycle` and `Carve` are the
two branches of `vs_calloc`; `LoadSegment` is the body that every runtime over
Virt32 shares (`kern_realloc` with its assertion, then `kern_memcpy`);
`aborted` is a failed assertion.

**SegTable** models the tables of the first emulator: both arrays, the stack of
identifiers with its own capacity, and buffers that may be longer than the
segment they serve. `held`, the lengths asked for, is kept nowhere in the code
and is a history variable.

**ModEmulator** and **Emulator** have one action per instruction (a branch of
`exec_instr`), with the fetch and the increment that precede it. What
`exec_instr` does not check is not guarded either: the conjuncts marked `legal`
end a behaviour where the *UM* gives the program no meaning, because the runtime
promises nothing after that. The finger of the first emulator is a pointer into a
buffer that a load replaces without freeing it. Emulator keeps its index, `pp`, and in
`text` the buffer that it has been left in, should segment 0 have another by then.

**X86Jit** models the compiler, the emitted code and the assembly glue. Each
`compile_instruction` emitter is the sequence of machine instructions it writes,
with their lengths in bytes; `Exec` gives what the processor does with each
(32-bit results clear the upper half, `mul` and `div` destroy `rdx`, and so on).
`cpu` has sixteen 64-bit registers, the zero flag and the stack above `run`'s
caller; `code` is the snapshot of segment 0 that the current region was compiled
from, so that a store into segment 0 changes the memory and *not* the code. A
step is one chunk with the handler and C function it calls: nothing else runs in
between. C functions leave `Junk` in every register that the calling convention
lets them destroy. The guard `Unchanged` ends a behaviour at the first word that
the program has changed since it was compiled: `README.md:192` documents that
the JIT is not made for it.

**ArmJit** models both arm64 ports; `host` is the port, and selects what they
differ in: the order of pushes, `handle_unmap`, and the opcodes that `large_op`
knows. Definitions the ports share are mapped to the lines of one of them. It is
finer than X86Jit: a step runs *from one branch to the next*, so that `pc` visits
the labels of `utility.S`, the middle of a chunk behind a handler's return, and
`loop`. The link register, `cmp` and `csel`, 64-bit sums of 32-bit registers and
the pairs on the stack are explicit; `Exec` is the processor, `returned` is C. A
UM instruction with a handler happens as the handler runs, so the refinement
mapping looks at what the rest of the chunk will do (`Resumed`), and at which
chunk was begun (`begun`) while `pc` is at a label. `left` keeps the UM registers
as `run` returns, when they no longer exist.

**OptJit** has two halves. While compiling, `builder` is the function under
construction and the block IRBuilder inserts into; `instruction`,
`jumpToDispatch`, `createHaltBlock`, `finished` move both as `compiler.cpp` does.
`executeJIT` verifies; then `at` walks the blocks, one IR instruction a step.
Allocas hold `Junk` until the entry block has written them.

Differences between the runtimes that the models keep: the interpreters load the
program with one spare zero word (`Spare = 4`), the JITs with none; the first
emulator allocates as many *words* as the file has bytes; operators 14 and 15
stop an interpreter, while the JIT emits nothing for them (no step in the model).

## 3. Runs

| Run | Question | Result |
|---|---|---|
| `virt32_memory` | Does the allocator serve UM memory, with stores at the edges of every segment, and are headers ever damaged? | `TypeOK`, `CapacityIsForEver`, `ImplementsUMMemory` hold |
| `virt32_heap` | Over all orders of mapping and unmapping, is the heap tiled exactly and the recycler exact? | `HeapShape`, `NoOverlap`, `RecyclerExact`, `NothingLost`, `StacksFit`, `HeapIsPeakDemand` hold |
| `segtable` | Does the first emulator's table serve UM memory, with no identifier lost or served twice? | `TypeOK`, `IdsExact`, `LengthsTrue`, `TableIsPeakDemand`, `BuffersGrow`, `ImplementsUMMemory` hold |
| `interpreter` | Does `mod_emulator.c` do what the UM does? | `MachineTypeOK`, `HeapInv`, `ImplementsUMachine` hold |
| `emulator` | Does `emulator.c`, its buffers reused, and does its finger follow segment 0? | `EmulatorTypeOK`, `FetchesProgram`, `ImplementsUMachine` hold |
| `x86_jit` | Does the compiled code, and does it keep its registers, stack and landing places? | `JitTypeOK`, `Reserved`, `Lands`, `CalleeSaved`, `ImplementsUMachine` hold |
| `arm_jit` | Does the compiled code of both arm64 ports, with its glue, and does the glue always end? | `ArmTypeOK`, `Reserved`, `Lands`, `CalleeSaved`, `ImplementsUMachine`, `Finishes`, `HaltReturns` hold |
| `opt_jit` | Does the LLVM JIT build functions that verify, and that do what the UM does where it is finished? | `OptTypeOK`, `NeverRefused`, `ImplementsUMachine` hold |
| `virt32_exhausted` | Is a full heap refused, as `README.md:205` says? | violated |
| `virt32_realloc` | Does `kern_realloc` zero segment 0, as its comment says? | violated |
| `virt32_regardless` | Is a load served "regardless of size", as `um-spec.txt:191-193` says? | violated |
| `x86_low_bits` | Are the low five bits of a store's address 0, as the comment at `jit.cpp:366` says? | violated |

The four violations are disagreements between the code and a text of the
repository, each described under `findings`. One of them is about what happens
to a program that exhausts 4 GB; one is about one size at the very limit; one
leaves words that a legal program cannot read; one is about a build that is
switched off. None is reached by the benchmark programs of the repository.

Run `tlc -config <cfg> <module>` in this directory with the module and
configuration of the table in `PROJECT.json`.

### Bounds, and why they are enough

- **Sizes of Virt32.** Block and header sizes (32, 8) are the real ones. `GB4`
  (160 or 256 bytes: three or five heap blocks; 1024 under the machines, eighteen),
  `KERN_SIZE` and `REC_BUCKETS` (two or three capacities) shrink; they keep the
  relations of the `#define`s, stated in `Virt32Assumption`. Requests lie on
  both sides of each class boundary (0, 6, 7, 21 words; 12 and 13 at
  the top), and offsets are the first and last word of each size. What does not
  show with three capacities, five blocks and recycler stacks that start at
  capacity 1 does not show with more: the proofs in section 5 cover every size.
- **SegTable.** `ICAP = 1` and `MaxIds = 3` (4 under the emulator) make both
  arrays grow (1, 4) and the recycled stack grow; the requests 0, 1 and 2 make
  reused buffers shorter, equal and longer than needed.
- **Machines.** 10-bit words, four registers, `BYTE = 8`, and about 3,000
  programs: a fixed opening, then every sequence of three out of some fifteen
  memory and control instructions (stores into segment 0 and into the next
  instruction, loads of the program itself, reuse after unmapping, jumps), or of
  two arithmetic instructions on three inputs each (0, 3, all ones, which is end
  of file), the destination among the sources or not. `MaxOut` and `MaxRegions`
  stop output and load-program loops. In the x86 JIT the four registers are
  r8 to r11, the ones a C call may destroy. Over Virt32 `MAX_ALLOC = KERN_SIZE`, as in
  `virt.h`, which makes segment 0's room (432 bytes) a header less than the longest
  segment: some programs load the longest that fits, others one that does not and
  ends them by the assertion in `kern_realloc`. The opening of the rest maps the
  former as well, and so leaves a heap of four blocks to run full.
- **ArmJit** runs some 760 programs on each port: every sequence of three out of
  nine instructions, one for each handler plus load, store and the store into the
  program, and single arithmetic instructions on inputs. The four registers are
  w19 to w22; all eight are alike to C and to the glue. `HALF = 8` splits values
  between `mov` and `movk`, as 2^16 does.
- **OptJit** runs the empty program and every sequence of one to three of all
  kinds of instruction behind two loads, so that halts, jumps and operators that
  emit nothing come first, in the middle, last, twice, and not at all.
- **`CHECK_DEADLOCK FALSE`** everywhere: a program halts, aborts on an assertion, is
  left at an undefined instruction, or fills the bounded heap; the systems
  really stop there.

### Fairness and liveness

`ArmSpec` assumes `WF_<<vars, arm>>(ArmNext)`: a step that can be taken is not put off
for ever. The runtime is one thread, which runs whenever the operating system
lets it, and the only thing it ever waits for is `getchar` (end of file is an
answer too). Under it, `Finishes` says that the glue ends: whatever a chunk
calls, control comes to the next chunk, to `main`, or to a failed assertion.
`HaltReturns` says that a halt ends `run`. Neither is about the UM program, whose
own loops may be endless: fairness of single instructions is not needed,
since each state has one kind of step.

The other specifications have no fairness condition. Their steps are whole
instructions, and whether a UM program ends is the program's affair. That every
legal instruction *has* a step shows there through coverage only (every action and
every disjunct fires).

## 4. Mutants

Each property of a passing run has a mutant: a plausible slip in one definition
(a header forgotten in a size, a push that does not copy, registers popped in the
order they were pushed, a chunk a byte too long, a destination overwritten before
it is read, an opcode not restored, an insertion point left in another block) under which TLC finds the property violated. They stand before the
definition they vary and are used nowhere.

## 5. Theorems

Proved by TLAPS for every value of the constants that satisfies the named
assumptions. `Virt32Assumption` says what the `#define`s of `virt.h` satisfy:
the mapping and the kernel's memory end on block boundaries, `MAX_ALLOC` is the
capacity of the last bucket, an initial program fits in segment 0.
`SegTableAssumption`: arrays start with room for an identifier, and no buffer is at the
null pointer. The machines add that a word has sixteen opcode units, that words
are those of the memory, and that the processor's `and` of two words is a word (in
the x86-64 JIT also that it is commutative, for the operands change places
there). `EmulatorAssumption` says `MaxIds <= 2^32`: an identifier is a word.
`MaxIds`, `MaxOut` and `MaxRegions` are the bounds that TLC needs; the proofs
hold for every value of them that the assumptions allow.

### The memories

**Virt32Proofs**, `Spec => []...`: `TypeCorrect`, `ShapeCorrect`, `OverlapFree`,
`RecyclerCorrect`, `NoByteLost`, `PushesInBounds` and the action property
`CapacityStable`. The argument: none of the first four is inductive. That a
freed segment goes back to the right stack needs its *header* to be right;
that headers stay right needs stores, `memset` and copies to stay inside
capacities, which needs sizes within capacities and segments disjoint; and that
new segments are disjoint needs the frontier to be block-aligned and in front of
everything. `HeapInv` is the conjunction of all of these (with `CapsWhole`,
`KernelFits`, `WordSizes`, alignment of the frontier), and `HeapInvariant` proves
it inductive, one lemma per way of changing the state:
`RecycleKeeps`, `CarveKeeps`, `FreeKeeps`, `StoreKeeps`, `LoadKeeps`. The recycler's own part is
`PopRecycler`/`PushRecycler`; the arithmetic of size classes is `SizeClass` and
`BucketOfCap`. The guard `FitsHeap` is assumed by `Spec`: without it
`ServedWithinHeap` fails (run `virt32_exhausted`).

`ServesUMMemory` is the refinement: every behaviour of the allocator, its headers
and recycler hidden, is one that UMMemory allows. `HeapInv` is not enough for it,
because `vs_calloc` clears a segment that it takes from the recycler and not one
that it carves. `UncarvedIsZero` supplies the rest: no write has reached the
mapping beyond the first carved header's place (`Unwritten`), so that a carved
segment is zero as it lies.

`HeapMeetsDemand` is about the allocator's economy, and about the specification
`PeakSpec` of Virt32Peak, which adds the history variable `peak`: of each capacity the
heap holds exactly as many segments as the program has had in use at once. A step
leaves a bucket what it owns, or carves into it when nothing of it waits
(`BucketStep`); by `RecyclerExact` all of the bucket is then in use
(`EmptyBucketInUse`), so that heap and peak grow together.

**SegTableProofs.** `TypeCorrect`, `IdsCorrect`, `LengthsCorrect`, the action
property `BuffersNeverShrink` and the refinement `ServesUMMemory`. `TableInv` adds
what makes them inductive: an entry of the arrays that no identifier has reached is
null (`map_segment` knows by that whether an identifier has a buffer yet), and
`segment_lengths` of an identifier other than 0 is the length of its *buffer*, not
that of the segment asked for, which may be shorter. `TableMeetsDemand` is the
counterpart of `HeapMeetsDemand`, over the `PeakSpec` of SegTablePeak.

### The machines

**ModEmulatorProofs.** `InterpreterUsesVirt32`: every instruction is a step of
the allocator's `Next` or leaves the allocator alone, so that everything proved
of Virt32 holds under the interpreter. From it `InterpreterKeepsHeap`
(`HeapInv` in every state of every legal program) and `MachineTypeCorrect`.
The step that needs care is `LegalAccess`: the address `regs[b] + regs[c] * 4`,
cut to 32 bits, is the word the UM means. `InterpreterIsUM` is the refinement of
UMachine: its steps on memory come from the lemmas behind `ServesUMMemory`, and
`SameFetch` shows that both fetch the same word and find the same registers in it.

**EmulatorProofs.** The same for the first emulator over SegTable:
`EmulatorUsesTable`, from it `EmulatorLengths` (no access leaves its buffer),
`EmulatorTypeCorrect`, `FingerCurrent` and `EmulatorIsUM`. `FetchesProgram` is not
inductive, since a finger left in the old buffer may find the same word there and
another one after it: `EmulatorInv` says `FingerInZero`, that it is in no old buffer. That
needs the invariant of the table, by which 0 is never among the identifiers that a map
hands out (it would move that segment's buffer), and a load that takes the finger along.

**X86JitProofs.** `ReservedKept`, `LandsOnChunks`, `CallerRestored`, `JitTypeCorrect`.
They hold together or not at all: that control lands on a chunk needs the address
of the code in the reserved register, that one needs what the handler pushed to be on the
stack when it pops, and a call into C may change the rest. `JitInv` is their
conjunction with `HeapInv`. For each kind of chunk one lemma computes what its
machine instructions leave, for any choice of UM registers (`Yields`: the
result in the destination, `rax` and `rdx` free, everything else untouched); the
lemmas about the handler do the same for its pushes, the C call and its pops.
`CompiledUsesVirt32` puts the allocator's theorems under the compiled code, and
`CompiledIsUM` is the refinement: until the program reaches a word that it has changed
since it was compiled, compiled code is a UM.

**ArmJitProofs.** The same four properties, `ArmTypeCorrect`, `ReservedKept`,
`LandsOnChunks` and `CallerRestored`, and the refinement `CompiledIsUM`, for both ports
at once: `host` is a variable that no step changes. Here a chunk may be cut in two: it
calls a handler and goes on behind the return, so that what is true between two steps
depends on where control is. `ArmInv` says it for each of eleven places
(`Phase`): before a chunk (`Fetching`), at the handler its word stands for
(`Mapping`, `Unmapping`, `Printing`, `Reading`, `Halting`, `Loading`), behind the
return into its middle (`Resuming`), at `loop` (`Looping`, `Stopping`) and back in main
(`Gone`). None of the four is inductive by itself: `Reserved` after a return needs the
opcode in `x14` that the *chunk* left there and the handler takes back, the return
address needs the chunk the history variable `begun` names, and `CalleeSaved` needs
the stack of `run` to be as `run_entered` left it at every one of these places. What each macro of
`utility.S` does to registers and stack is proved for any sequence of pairs
(`Pushes`, `Pops`, `PushPop`): popping the reverse of what was pushed restores it,
which the two ports do in different orders. `PhaseHandles` and the `...View` lemmas
say what a program sees in each place, that is where the UM takes its step: a plain chunk as
it runs, an instruction with a handler as the handler runs (what is left of its
chunk then moves a result and is a stutter), a halt as `run` returns. `Enter`, `Branch`,
`.halt`, the instruction behind a call and a load that does not fit are stutters.

**OptJitProofs.** `AlwaysVerifies`: whatever the program, `verifyModule` accepts
the function. The invariant says what *every* block holds after k words (`Compiling`),
the block of the last word being the one that may still be open, and that
the halt and the dispatch block exist once something branches to them; the entry block is
treated as that of word number -1. When compiling is over `Complete` follows, and
with it `OptTypeCorrect` (the function never runs out of a block) and
`CompiledFunctionIsUM`, the refinement for what the compiler has finished. For that part
the heap holds empty segments only (`EmptyHeap`), which is why it has an
invariant of its own here instead of `HeapInv`.

**IsaProofs.** `ThreeRegDecodes`, `LoadValDecodes`: decoding inverts encoding,
for every width. `BytesAssemble`: reading four bytes as the loaders do
gives the word that was written.

## 6. What is only model-checked

- Out of the prover's reach: liveness (`Finishes`, `HaltReturns`), and induction over
  data, which no theorem here needs. Every other property of the passing runs, each
  invariant, action property and refinement, is the subject of a theorem.

## 7. Plan

Done in this order, the most important first: Virt32 against UMMemory, its
invariant and proofs; SegTable; Isa and ModEmulator against UMachine with proofs;
Emulator; X86Jit; ArmJit with both ports and liveness; OptJit; then the proofs
of both memories' refinements, of the two interpreters, and of the x86-64,
arm64 and LLVM compilers, and of the memories' peak demand. What is left is more of
the system: the stack's alignment at calls into C (`linux-x86_64/utility.S:115`), and
the rest of optimized-jit once it is written.

## 8. What is not modelled, and why

- **Failures of the host**: `mmap` and `malloc` results that are not tested
  (`virt.c:17`, `virt.h:85`, `jit.cpp:673`), `mprotect` (asserted). The models
  assume they succeed; the hazards name the lines.
- **Programs the UM leaves undefined**: accesses outside a segment, division by
  zero, unmapping segment 0, output above a byte. No runtime checks them, and no
  property speaks of them.
- **Requests above `MAX_ALLOC`**, whose assertion is compiled out
  (`virt.h:172-174`), lie outside `Requested`.
- **`terminate_memory_system`, `handle_stop`**: they free everything and the
  process ends. Usage messages and files that cannot be opened: no state.
- **SELF_MODIFYING** is 0 in the x86 and the Linux arm64 JIT and their handlers are
  empty; only the comment about its dispatch is examined (`x86_low_bits`).
- **The flags of mappings** (`MAP_JIT` on Darwin, `PROT_EXEC` after compiling): code is
  never written once it may run, in either port, and no action could tell.
- **Building the pieces together**: `mod_emulator.c` and the two Linux JITs call
  `vs_calloc(umem, size)`, while `virt.h` declares one parameter and only
  the darwin-arm64 JIT and optimized-jit follow it. The models are of what the
  calls mean in both versions.
- **optimized-jit** is unfinished, and OptJit stops (`Finished`) where it is: loads
  and stores go by `usableMemPtr`, which is null (`compiler.cpp:219`, `:771`); `compileMap`
  passes words as bytes (`:676`), so that only an empty array is as long as asked;
  `compileLoadProgram` ignores register b (`:639`); operators 14 and 15 go on to the
  next word. `main.cpp:70` stores word i at index i / 4 of segment 0, which nothing
  reads: the refinement takes the program for segment 0. `--print-ir` and the
  optimization pass, which is commented out, are not modelled.
- **Test runner, experiments, UM binaries, documents**: no state of their own.
  The demonstration `main` of the assembler is a fixed list of words; its
  encoders are in Isa.
