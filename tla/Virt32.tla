------------------------------- MODULE Virt32 -------------------------------
(***************************************************************************)
(* Virt32 (runtimes/virt/virt.h, virt.c): one 4 GB mapping from which UM    *)
(* segments are carved in 32-byte blocks and into which unmapped segments   *)
(* are recycled, one LIFO stack of freed segments per capacity.             *)
(*                                                                          *)
(* Addresses are the allocator's own: byte offsets from `usable`, which is  *)
(* the mapping's base + BOOK_SIZE.  `mem' is the mapping, one entry per     *)
(* 4-byte word, so that the two header words of a segment a are the words   *)
(* at a-8 (capacity) and a-4 (size), next to the words of its neighbours.   *)
(***************************************************************************)
EXTENDS Integers, Sequences, FiniteSets

CONSTANTS GB4,              \* bytes of the mapping (2^32), and the modulus of uint32_t
          KERN_SIZE,        \* bytes reserved for segment 0 and its header
          MAX_ALLOC,        \* bound on the byte size of a request
          REC_BUCKETS,      \* number of recycler stacks
          INIT_STACK_SIZE,  \* initial capacity of a recycler stack
          Spare,            \* bytes the loader keeps behind the program: 4 in the
                            \* interpreters, 0 in the JITs
          Program,          \* the program texts that may be loaded at start
          Request,          \* the lengths, in words, the program asks for
          Offset,           \* the word offsets the program stores at
          Value             \* the words programs are made of, and store

BOOK_SIZE == 8
BLOCK_SIZE == 32
SEG_NOT_FOUND == 1

U32 == 0..GB4-1
Wrap(x) == x % GB4

\* The relations between the #defines that the allocator needs: the heap
\* starts, and ends, where a block boundary leaves room for a header.
ASSUME Virt32Assumption ==
    /\ GB4 \in Nat /\ KERN_SIZE \in Nat /\ REC_BUCKETS \in Nat /\ MAX_ALLOC \in Nat
    /\ GB4 % BLOCK_SIZE = 0
    /\ KERN_SIZE % BLOCK_SIZE = BLOCK_SIZE - BOOK_SIZE
    /\ KERN_SIZE + BOOK_SIZE <= GB4
    /\ MAX_ALLOC = BLOCK_SIZE * REC_BUCKETS - BOOK_SIZE
    /\ MAX_ALLOC + BOOK_SIZE < GB4
    /\ INIT_STACK_SIZE \in Nat \ {0}
    /\ Spare \in {0, 4}
    /\ Request \subseteq Nat /\ Offset \subseteq Nat
    /\ Value \subseteq U32
    /\ \A p \in Program : p \in Seq(Value) /\ 4 * Len(p) + Spare <= KERN_SIZE - BOOK_SIZE

VARIABLES mem,                  \* the words of the mapping
          rec,                  \* the recycler: one stack per capacity
          start_unused,         \* first byte of the mapping not carved yet
          kernel_virtual_size,  \* capacity of segment 0
          mapped,               \* the identifiers the program holds
          aborted               \* an assertion that is compiled in has failed

alloc == <<rec, start_unused, mapped>>
vars == <<mem, rec, start_unused, kernel_virtual_size, mapped, aborted>>

-----------------------------------------------------------------------------
\* Words of the mapping.

Cell(addr) == (addr + BOOK_SIZE) \div 4
CapCell(addr) == Cell(addr - BOOK_SIZE)
SizeCell(addr) == Cell(addr - 4)
CellsOf(addr, size) == Cell(addr)..Cell(addr + size) - 1

memset0_one_too_far(m, addr, size) ==
    [c \in DOMAIN m |-> IF c \in Cell(addr)..Cell(addr + size) THEN 0 ELSE m[c]]
memset0_skipped(m, addr, size) == m
memset0(m, addr, size) ==
    [c \in DOMAIN m |-> IF c \in CellsOf(addr, size) THEN 0 ELSE m[c]]

memcpy(m, dest, src, size) ==
    [c \in DOMAIN m |-> IF c \in CellsOf(dest, size)
                        THEN m[Cell(src) + (c - Cell(dest))] ELSE m[c]]

get_at(m, addr) == m[Cell(addr)]
set_at(m, addr, value) == [m EXCEPT ![Cell(addr)] = value]

-----------------------------------------------------------------------------
\* The recycler's stacks: `stack' is the live prefix of the C buffer, so that
\* its length is the C field `size'.

EmptyStack == [stack |-> <<>>, capacity |-> INIT_STACK_SIZE]

stack_is_empty(s) == s.stack = <<>>
stack_top(s) == s.stack[Len(s.stack)]
stack_pop(s) == [s EXCEPT !.stack = SubSeq(@, 1, Len(@) - 1)]
stack_push_without_growing(s, elem) == [s EXCEPT !.stack = Append(@, elem)]
stack_push_without_copying(s, elem) ==
    IF Len(s.stack) = s.capacity
    THEN [stack |-> <<elem>>, capacity |-> 2 * s.capacity]
    ELSE [s EXCEPT !.stack = Append(@, elem)]
stack_push(s, elem) ==
    [stack    |-> Append(s.stack, elem),
     capacity |-> IF Len(s.stack) = s.capacity THEN 2 * s.capacity ELSE s.capacity]

-----------------------------------------------------------------------------
\* Size classes.

get_idx_without_header(size) == size \div 32
get_idx_from_alloc_size(size) == Wrap(size + BOOK_SIZE - 1) \div 32
user_cap(size) == (get_idx_from_alloc_size(size) + 1) * BLOCK_SIZE - BOOK_SIZE
bucket_of_cap_off_by_one(cap) == Wrap(cap + 8) \div 32
bucket_of_cap(cap) == Wrap(cap + 8) \div 32 - 1

-----------------------------------------------------------------------------
\* find_freed_segment: its result, and what it leaves in the recycler.

find_freed_segment(size) ==
    LET s == rec[get_idx_from_alloc_size(size)]
    IN  IF stack_is_empty(s) THEN SEG_NOT_FOUND ELSE stack_top(s)

rec_after_find(size) ==
    LET index == get_idx_from_alloc_size(size)
    IN  IF stack_is_empty(rec[index]) THEN rec
        ELSE [rec EXCEPT ![index] = stack_pop(@)]

\* The two ways vs_calloc serves a request of `size' bytes.

Recycle(size) ==
    LET freed_seg == find_freed_segment(size)
    IN  /\ freed_seg # SEG_NOT_FOUND
        /\ mem' = memset0([mem EXCEPT ![SizeCell(freed_seg)] = size], freed_seg, size)
        /\ mapped' = mapped \cup {freed_seg}
        /\ rec' = rec_after_find(size)
        /\ UNCHANGED start_unused

Carve_without_header(size) ==
    LET user_start == Wrap(start_unused + BOOK_SIZE)
    IN  /\ find_freed_segment(size) = SEG_NOT_FOUND
        /\ start_unused' = Wrap(start_unused + user_cap(size))
        /\ mem' = [mem EXCEPT ![CapCell(user_start)] = user_cap(size),
                              ![SizeCell(user_start)] = size]
        /\ mapped' = mapped \cup {user_start}
        /\ rec' = rec_after_find(size)

Carve_without_looking(size) ==
    LET user_start == Wrap(start_unused + BOOK_SIZE)
    IN  /\ start_unused' = Wrap(user_start + user_cap(size))
        /\ mem' = [mem EXCEPT ![CapCell(user_start)] = user_cap(size),
                              ![SizeCell(user_start)] = size]
        /\ mapped' = mapped \cup {user_start}
        /\ UNCHANGED rec

Carve(size) ==
    LET user_start == Wrap(start_unused + BOOK_SIZE)
    IN  /\ find_freed_segment(size) = SEG_NOT_FOUND
        /\ start_unused' = Wrap(user_start + user_cap(size))
        /\ mem' = [mem EXCEPT ![CapCell(user_start)] = user_cap(size),
                              ![SizeCell(user_start)] = size]
        /\ mapped' = mapped \cup {user_start}
        /\ rec' = rec_after_find(size)

\* What vs_calloc returns.
served(size) ==
    IF find_freed_segment(size) # SEG_NOT_FOUND THEN find_freed_segment(size)
    ELSE Wrap(start_unused + BOOK_SIZE)

vs_calloc(size) ==
    /\ Recycle(size) \/ Carve(size)
    /\ UNCHANGED <<kernel_virtual_size, aborted>>

vs_free(addr) ==
    LET index == bucket_of_cap(mem[CapCell(addr)])
    IN  /\ rec' = [rec EXCEPT ![index] = stack_push(@, addr)]
        /\ mapped' = mapped \ {addr}
        /\ UNCHANGED <<mem, start_unused, kernel_virtual_size, aborted>>

-----------------------------------------------------------------------------
\* Segment 0.

kern_realloc(m, size) == [m EXCEPT ![0] = kernel_virtual_size, ![1] = size]
kern_memcpy(m, src, size) == memcpy(m, 0, src, size)

-----------------------------------------------------------------------------
\* What the machines of the repository do with the allocator: the body of
\* initialize_memory, and the four instructions that touch memory.

Segments == mapped \cup {0}
SizeOf(id) == mem[SizeCell(id)]
CapOf(id) == mem[CapCell(id)]

Init ==
    /\ \E p \in Program :
          mem = [c \in 0..GB4 \div 4 - 1 |->
                    CASE c = 0 -> KERN_SIZE - BOOK_SIZE
                      [] c = 1 -> 4 * Len(p) + Spare
                      [] c \in 2..Len(p) + 1 -> p[c - 1]
                      [] OTHER -> 0]
    /\ rec = [b \in 0..REC_BUCKETS - 1 |-> EmptyStack]
    /\ start_unused = KERN_SIZE
    /\ kernel_virtual_size = KERN_SIZE - BOOK_SIZE
    /\ mapped = {}
    /\ aborted = FALSE

MapSegment(words) == ~aborted /\ vs_calloc(Wrap(4 * words))

UnmapSegment(id) == ~aborted /\ vs_free(id)

StoreWord(id, k, v) ==
    /\ ~aborted
    /\ mem' = set_at(mem, id + 4 * k, v)
    /\ UNCHANGED <<alloc, kernel_virtual_size, aborted>>

\* The branch of load_segment that is taken for index # 0; for index = 0 it
\* returns at once.
LoadSegment(index) ==
    LET copy_size == SizeOf(index)
    IN  /\ ~aborted
        /\ \/ /\ kernel_virtual_size >= copy_size
              /\ mem' = kern_memcpy(kern_realloc(mem, copy_size), index, copy_size)
              /\ UNCHANGED aborted
           \/ /\ kernel_virtual_size < copy_size
              /\ aborted' = TRUE
              /\ UNCHANGED mem
        /\ UNCHANGED <<alloc, kernel_virtual_size>>

-----------------------------------------------------------------------------
\* Two readings of "the user must use our module correctly".

\* What the allocator needs: a size it has a bucket for, and a freed segment
\* of that capacity or room for one more.
FitsHeap(size) ==
    \/ ~stack_is_empty(rec[get_idx_from_alloc_size(size)])
    \/ start_unused + BOOK_SIZE + user_cap(size) + BOOK_SIZE <= GB4

Requested(words) == 4 * words < MAX_ALLOC

Access ==
    \/ \E id \in mapped : UnmapSegment(id)
    \/ \E id \in Segments, k \in Offset, v \in Value :
          4 * k < SizeOf(id) /\ StoreWord(id, k, v)
    \/ \E id \in mapped : LoadSegment(id)

Next ==
    \/ \E words \in Request :
          Requested(words) /\ FitsHeap(4 * words) /\ MapSegment(words)
    \/ Access

NextUnchecked ==
    \/ \E words \in Request : Requested(words) /\ MapSegment(words)
    \/ Access

Spec == Init /\ [][Next]_vars
SpecUnchecked == Init /\ [][NextUnchecked]_vars

-----------------------------------------------------------------------------
\* Properties.

SlotsOf(r) == UNION {{r[b].stack[i] : i \in DOMAIN r[b].stack} : b \in DOMAIN r}
Recycled == SlotsOf(rec)
Owned == mapped \cup Recycled

StackType == [stack : Seq(U32), capacity : Nat \ {0}]

TypeOK ==
    /\ mem \in [0..GB4 \div 4 - 1 -> U32]
    /\ rec \in [0..REC_BUCKETS - 1 -> StackType]
    /\ start_unused \in KERN_SIZE..GB4 - BOOK_SIZE
    /\ kernel_virtual_size = KERN_SIZE - BOOK_SIZE
    /\ mapped \in SUBSET U32
    /\ aborted \in BOOLEAN

\* Every segment ever carved lies, with its header, between the kernel's
\* memory and the carving frontier, on a 32-byte boundary (the JIT relies on
\* the alignment, jit.cpp), and holds at least the size its program asked for.
\* No identifier can then be taken for SEG_NOT_FOUND or for segment 0.
HeapShape ==
    \A a \in Owned :
        /\ a % BLOCK_SIZE = 0
        /\ KERN_SIZE + BOOK_SIZE <= a
        /\ SizeOf(a) <= CapOf(a)
        /\ a + CapOf(a) <= start_unused

\* No two segments, live or freed, share a byte, headers included; nor does
\* any of them with segment 0.
NoOverlap ==
    \A a, b \in Owned \cup {0} :
        a < b => a + CapOf(a) <= b - BOOK_SIZE

\* A freed segment waits in exactly one place, the stack of its capacity, and
\* is not in the program's hands: no double service of one identifier.
RecyclerExact ==
    \A b \in 0..REC_BUCKETS - 1 : \A i \in 1..Len(rec[b].stack) :
        /\ rec[b].stack[i] \notin mapped
        /\ CapOf(rec[b].stack[i]) = (b + 1) * BLOCK_SIZE - BOOK_SIZE
        /\ \A c \in 0..REC_BUCKETS - 1 : \A j \in 1..Len(rec[c].stack) :
               rec[b].stack[i] = rec[c].stack[j] => b = c /\ i = j

\* What every step keeps, and the properties above follow from: the shape of
\* the heap, headers of whole blocks, and a segment 0 that fits its memory.
CapsWhole == \A a \in Owned : CapOf(a) % BLOCK_SIZE = BLOCK_SIZE - BOOK_SIZE
                               /\ CapOf(a) <= MAX_ALLOC
KernelFits == CapOf(0) = KERN_SIZE - BOOK_SIZE /\ SizeOf(0) <= CapOf(0)
WordSizes == \A a \in Segments : SizeOf(a) % 4 = 0

HeapInv ==
    /\ TypeOK
    /\ start_unused % BLOCK_SIZE = BLOCK_SIZE - BOOK_SIZE
    /\ HeapShape
    /\ CapsWhole
    /\ KernelFits
    /\ WordSizes
    /\ NoOverlap
    /\ RecyclerExact

\* No carved byte is lost: each belongs to a segment that is live or waits to
\* be recycled.
NothingLost ==
    \A x \in KERN_SIZE..start_unused - 1 :
        \E a \in Owned : a - BOOK_SIZE <= x /\ x < a + CapOf(a)

\* A push never writes past the buffer of a recycler stack.
StacksFit == \A b \in DOMAIN rec : Len(rec[b].stack) <= rec[b].capacity

\* A segment keeps its capacity for ever, whatever the program stores and
\* whoever recycles it.
CapacityIsForEver == [][\A a \in Owned : a \in Owned' /\ CapOf(a)' = CapOf(a)]_vars

\* The allocator serves the UM's memory: fresh segments are zero-filled and
\* named by no live identifier, a store changes one word of one segment, a
\* load replaces segment 0 by a copy, and nothing else changes a segment.
Contents(id) == [i \in 1..SizeOf(id) \div 4 |-> get_at(mem, id + 4 * (i - 1))]

SegmentId == {a \in U32 : a % BLOCK_SIZE = 0}

UM == INSTANCE UMMemory WITH segs <- [id \in Segments |-> Contents(id)],
                             Id <- SegmentId, Word <- Value \cup {0}, Length <- Request
ImplementsUMMemory == UM!Spec

-----------------------------------------------------------------------------
\* Statements of the repository's documents that the code does not keep.

\* README: an exhausted heap refuses what it cannot serve from a freed segment;
\* a segment in the program's hands therefore never leaves the heap.
ServedWithinHeap ==
    \A a \in mapped :
        KERN_SIZE + BOOK_SIZE <= a /\ a + CapOf(a) + BOOK_SIZE <= GB4

\* The comment on kern_realloc: it initialises all of the zero segment's memory
\* to zero; after a load, nothing of the previous program is then left.
ReallocZeroesKernel ==
    [][(\E id \in mapped : LoadSegment(id)) /\ ~aborted' =>
          \A c \in CellsOf(SizeOf(0)', KERN_SIZE - BOOK_SIZE - SizeOf(0)') : mem'[c] = 0]_vars

\* The UM specification: the duplicate replaces the '0' array regardless of size.
LoadsRegardlessOfSize == ~aborted

=============================================================================
