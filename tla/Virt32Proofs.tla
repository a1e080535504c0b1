---------------------------- MODULE Virt32Proofs ----------------------------
(***************************************************************************)
(* Proofs about Virt32 for every size of the mapping, of the kernel's       *)
(* memory and of the recycler, and every program: HeapInv is inductive, and *)
(* the allocator's safety properties follow.                                *)
(***************************************************************************)
EXTENDS Virt32Peak, SequenceTheorems, FiniteSetTheorems, TLAPS

-----------------------------------------------------------------------------
\* Arithmetic of addresses and size classes.

\* The header and the words of a word-aligned segment are neighbours.
LEMMA CellAt ==
    ASSUME NEW a \in Nat, a % 4 = 0, NEW k \in Nat
    PROVE  /\ CapCell(a) = a \div 4
           /\ SizeCell(a) = a \div 4 + 1
           /\ Cell(a + 4 * k) = a \div 4 + 2 + k
           /\ Cell(a) = a \div 4 + 2
BY DEF CapCell, SizeCell, Cell, BOOK_SIZE

\* Wrapping a value that fits leaves it alone.
LEMMA WrapFits == ASSUME NEW x \in U32 PROVE Wrap(x) = x
BY Virt32Assumption DEF U32, Wrap

LEMMA WrapRange == ASSUME NEW x \in Int PROVE Wrap(x) \in U32
<1>1. GB4 \in Nat \ {0}
  BY Virt32Assumption DEF BOOK_SIZE
<1> QED
  BY <1>1 DEF Wrap, U32

LEMMA QuotientBound ==
    ASSUME NEW x \in U32, NEW y \in U32, y # 0
    PROVE  x \div y \in U32
<1>1. x \in Nat /\ y \in Nat \ {0} /\ GB4 \in Nat /\ x <= GB4 - 1
  BY Virt32Assumption DEF U32
<1>2. x \div y \in Nat
  BY <1>1
<1>3. x \div y <= x
  BY <1>1
<1> QED
  BY <1>1, <1>2, <1>3 DEF U32

\* A request below MAX_ALLOC has a bucket, and a capacity that holds it.
LEMMA SizeClass ==
    ASSUME NEW size \in Nat, size < MAX_ALLOC
    PROVE  LET i == get_idx_from_alloc_size(size)
               cap == user_cap(size)
           IN  /\ i \in 0..REC_BUCKETS - 1
               /\ cap = (i + 1) * BLOCK_SIZE - BOOK_SIZE
               /\ cap \in Nat
               /\ cap % BLOCK_SIZE = BLOCK_SIZE - BOOK_SIZE
               /\ size <= cap
               /\ cap <= MAX_ALLOC
<1>1. size + 7 \in U32
  BY Virt32Assumption DEF U32, BOOK_SIZE, BLOCK_SIZE
<1>2. get_idx_from_alloc_size(size) = (size + 7) \div 32
  BY <1>1, WrapFits DEF get_idx_from_alloc_size, BOOK_SIZE
<1>3. (size + 7) \div 32 \in 0..REC_BUCKETS - 1
  BY Virt32Assumption DEF BOOK_SIZE, BLOCK_SIZE
<1> QED
  BY <1>2, <1>3, Virt32Assumption DEF user_cap, BOOK_SIZE, BLOCK_SIZE

\* Freeing finds the bucket that allocation looks into.
LEMMA BucketOfCap ==
    ASSUME NEW b \in 0..REC_BUCKETS - 1
    PROVE  bucket_of_cap((b + 1) * BLOCK_SIZE - BOOK_SIZE) = b
<1>1. (b + 1) * 32 \in U32
  BY Virt32Assumption DEF U32, BOOK_SIZE, BLOCK_SIZE
<1> QED
  BY <1>1, WrapFits DEF bucket_of_cap, BOOK_SIZE, BLOCK_SIZE

\* A capacity of whole blocks that a request can have belongs to one bucket.
LEMMA CapHasBucket ==
    ASSUME NEW cap \in Nat, cap % BLOCK_SIZE = BLOCK_SIZE - BOOK_SIZE, cap <= MAX_ALLOC
    PROVE  \E b \in 0..REC_BUCKETS - 1 : cap = (b + 1) * BLOCK_SIZE - BOOK_SIZE
<1>1. (cap + 8) \div 32 - 1 \in 0..REC_BUCKETS - 1
  BY Virt32Assumption DEF BOOK_SIZE, BLOCK_SIZE
<1> WITNESS (cap + 8) \div 32 - 1 \in 0..REC_BUCKETS - 1
<1> QED
  BY Virt32Assumption DEF BOOK_SIZE, BLOCK_SIZE

-----------------------------------------------------------------------------
\* The recycler.

\* The freed segments, slot by slot.
LEMMA RecycledSlots ==
    ASSUME NEW r \in [0..REC_BUCKETS - 1 -> StackType], NEW x
    PROVE  x \in SlotsOf(r) <=> \E b \in 0..REC_BUCKETS - 1 :
                                  \E i \in 1..Len(r[b].stack) : x = r[b].stack[i]
<1>1. \A b \in 0..REC_BUCKETS - 1 : DOMAIN r[b].stack = 1..Len(r[b].stack)
  BY DEF StackType
<1> QED
  BY <1>1 DEF SlotsOf

LEMMA SlotType ==
    ASSUME NEW r \in [0..REC_BUCKETS - 1 -> StackType], NEW b \in 0..REC_BUCKETS - 1
    PROVE  /\ r[b] \in StackType /\ DOMAIN r = 0..REC_BUCKETS - 1
           /\ DOMAIN r[b].stack = 1..Len(r[b].stack) /\ Len(r[b].stack) \in Nat
           /\ \A i \in 1..Len(r[b].stack) : r[b].stack[i] \in U32
BY DEF StackType

LEMMA OwnedTypes ==
    ASSUME TypeOK, NEW a \in Owned
    PROVE  a \in U32 /\ a \in Nat
<1>1. Recycled \subseteq U32
  BY RecycledSlots, SlotType DEF TypeOK, Recycled
<1> QED
  BY <1>1 DEF Owned, TypeOK, U32

LEMMA FrontOfStack ==
    ASSUME NEW S, NEW t \in Seq(S), t # <<>>
    PROVE  /\ SubSeq(t, 1, Len(t) - 1) \in Seq(S)
           /\ Len(SubSeq(t, 1, Len(t) - 1)) = Len(t) - 1
           /\ \A i \in 1..Len(t) - 1 : SubSeq(t, 1, Len(t) - 1)[i] = t[i]
           /\ Len(t) \in Nat \ {0}
<1>1. Len(t) \in Nat \ {0}
  BY EmptySeq
<1>2. \A i \in 1..Len(t) - 1 : t[i] \in S
  BY <1>1, ElementOfSeq
<1> DEFINE n == Len(t) - 1
<1>3. n \in Nat /\ 1 \in Int /\ n \in Int
  BY <1>1
<1>4. \A i \in 1..n : t[i] \in S
  BY <1>2
<1> HIDE DEF n
<1>5. /\ SubSeq(t, 1, n) \in Seq(S)
      /\ Len(SubSeq(t, 1, n)) = IF 1 <= n THEN n - 1 + 1 ELSE 0
      /\ \A i \in 1..n - 1 + 1 : SubSeq(t, 1, n)[i] = t[1 + i - 1]
  BY <1>3, <1>4, SubSeqProperties
<1>6. /\ SubSeq(t, 1, n) \in Seq(S)
      /\ Len(SubSeq(t, 1, n)) = n
      /\ \A i \in 1..n : SubSeq(t, 1, n)[i] = t[i]
  BY <1>3, <1>5
<1> QED
  BY <1>1, <1>6 DEF n

\* Popping a stack hands out its top and keeps the other slots.
LEMMA PopStack ==
    ASSUME NEW s \in StackType, ~stack_is_empty(s)
    PROVE  /\ stack_pop(s) \in StackType
           /\ Len(stack_pop(s).stack) = Len(s.stack) - 1
           /\ \A i \in 1..Len(s.stack) - 1 : stack_pop(s).stack[i] = s.stack[i]
           /\ Len(s.stack) \in Nat \ {0}
           /\ stack_pop(s).capacity = s.capacity
<1>1. s.stack \in Seq(U32) /\ s.stack # <<>>
  BY DEF stack_is_empty, StackType
<1>2. /\ SubSeq(s.stack, 1, Len(s.stack) - 1) \in Seq(U32)
      /\ Len(SubSeq(s.stack, 1, Len(s.stack) - 1)) = Len(s.stack) - 1
      /\ \A i \in 1..Len(s.stack) - 1 : SubSeq(s.stack, 1, Len(s.stack) - 1)[i] = s.stack[i]
      /\ Len(s.stack) \in Nat \ {0}
  BY <1>1, FrontOfStack
<1> QED
  BY <1>2 DEF stack_pop, StackType

\* Pushing keeps every slot and adds one.
LEMMA PushStack ==
    ASSUME NEW s \in StackType, NEW e \in U32
    PROVE  /\ stack_push(s, e) \in StackType
           /\ Len(stack_push(s, e).stack) = Len(s.stack) + 1
           /\ \A i \in 1..Len(s.stack) : stack_push(s, e).stack[i] = s.stack[i]
           /\ stack_push(s, e).stack[Len(s.stack) + 1] = e
           /\ Len(s.stack) \in Nat
<1>0. s.stack \in Seq(U32) /\ s.capacity \in Nat \ {0}
  BY DEF StackType
<1>1. Append(s.stack, e) \in Seq(U32) /\ Len(Append(s.stack, e)) = Len(s.stack) + 1
  BY <1>0, AppendProperties
<1>2. /\ \A i \in 1..Len(s.stack) : Append(s.stack, e)[i] = s.stack[i]
      /\ Append(s.stack, e)[Len(s.stack) + 1] = e
  BY <1>0, AppendProperties
<1>3. 2 * s.capacity \in Nat \ {0}
  BY <1>0
<1> QED
  BY <1>0, <1>1, <1>2, <1>3 DEF stack_push, StackType

-----------------------------------------------------------------------------
\* Where the segments lie.

LEMMA SegmentFacts ==
    ASSUME HeapInv, NEW a \in Owned \cup {0}
    PROVE  /\ a \in Nat /\ a % 32 = 0 /\ a % 4 = 0
           /\ CapOf(a) = mem[a \div 4] /\ SizeOf(a) = mem[a \div 4 + 1]
           /\ CapOf(a) \in Nat /\ CapOf(a) % 8 = 0
           /\ SizeOf(a) \in Nat /\ SizeOf(a) <= CapOf(a)
           /\ a # 0 => a + CapOf(a) <= start_unused /\ KERN_SIZE + 8 <= a
           /\ a + CapOf(a) + 8 <= GB4
           /\ start_unused \in Nat /\ start_unused + 8 <= GB4 /\ KERN_SIZE <= start_unused
           /\ a \div 4 \in DOMAIN mem /\ a \div 4 + 1 \in DOMAIN mem
<1>1. a \in Nat /\ a % 32 = 0
  BY OwnedTypes DEF HeapInv, HeapShape, BLOCK_SIZE
<1>2. a % 4 = 0
  BY <1>1
<1>3. CapOf(a) = mem[a \div 4] /\ SizeOf(a) = mem[a \div 4 + 1]
  BY <1>1, <1>2, CellAt DEF CapOf, SizeOf
<1>4. start_unused \in Nat /\ start_unused + 8 <= GB4 /\ KERN_SIZE <= start_unused
  BY Virt32Assumption DEF HeapInv, TypeOK, BOOK_SIZE
<1> DEFINE w == GB4 \div 4
<1>8. DOMAIN mem = 0..w - 1 /\ \A c \in DOMAIN mem : mem[c] \in Nat
  BY DEF HeapInv, TypeOK, U32
<1>9. w \in Nat /\ 4 * w = GB4
  BY Virt32Assumption DEF BLOCK_SIZE
<1> HIDE DEF w
<1>0. DOMAIN mem = 0..w - 1 /\ w \in Nat /\ 4 * w = GB4
  BY <1>8, <1>9
<1>5. CASE a = 0
  <2>1. a \div 4 \in DOMAIN mem /\ a \div 4 + 1 \in DOMAIN mem
    BY <1>5, <1>0, Virt32Assumption DEF BOOK_SIZE, BLOCK_SIZE
  <2>2. CapOf(a) \in Nat /\ SizeOf(a) \in Nat
    BY <2>1, <1>3, <1>8
  <2>3. CapOf(a) = KERN_SIZE - 8 /\ SizeOf(a) <= CapOf(a)
    BY <1>5 DEF HeapInv, KernelFits, BOOK_SIZE
  <2> QED
    BY <1>1, <1>2, <1>3, <1>4, <1>5, <2>1, <2>2, <2>3, Virt32Assumption
    DEF BOOK_SIZE, BLOCK_SIZE
<1>6. CASE a # 0
  <2>1. a \in Owned
    BY <1>6
  <2>2. a \in U32
    BY <2>1, OwnedTypes DEF HeapInv
  <2>3. a \div 4 \in DOMAIN mem /\ a \div 4 + 1 \in DOMAIN mem
    BY <1>0, <1>1, <2>2, Virt32Assumption DEF U32, BLOCK_SIZE
  <2>4. CapOf(a) \in Nat /\ SizeOf(a) \in Nat
    BY <2>3, <1>3, <1>8
  <2>5. /\ SizeOf(a) <= CapOf(a) /\ a + CapOf(a) <= start_unused
        /\ KERN_SIZE + 8 <= a
    BY <2>1 DEF HeapInv, HeapShape, BOOK_SIZE
  <2>7. CapOf(a) % 32 = 24
    BY <2>1 DEF HeapInv, CapsWhole, BOOK_SIZE, BLOCK_SIZE
  <2>6. CapOf(a) % 8 = 0
    BY <2>4, <2>7
  <2>8. a + CapOf(a) + 8 <= GB4
    BY <1>1, <1>4, <2>4, <2>5, Virt32Assumption
  <2> QED
    BY <1>1, <1>2, <1>3, <1>4, <2>3, <2>4, <2>5, <2>6, <2>8
<1> QED
  BY <1>5, <1>6

\* The words of two segments, headers included, are apart.
LEMMA CellsApart ==
    ASSUME HeapInv, NEW a \in Owned \cup {0}, NEW b \in Owned \cup {0}, a # b
    PROVE  \/ (a + CapOf(a) + 8) \div 4 <= b \div 4
           \/ (b + CapOf(b) + 8) \div 4 <= a \div 4
<1>1. a \in Nat /\ b \in Nat /\ CapOf(a) \in Nat /\ CapOf(b) \in Nat
  BY SegmentFacts
<1>2. a + CapOf(a) <= b - 8 \/ b + CapOf(b) <= a - 8
  BY <1>1 DEF HeapInv, NoOverlap, BOOK_SIZE
<1> QED
  BY <1>1, <1>2

\* What fits a segment's capacity lies in its own words, past the header.
LEMMA CellsInside ==
    ASSUME HeapInv, NEW a \in Owned \cup {0}, NEW size \in Nat, size <= CapOf(a)
    PROVE  CellsOf(a, size) \subseteq a \div 4 + 2 .. (a + CapOf(a) + 8) \div 4 - 1
<1>1. a \in Nat /\ a % 4 = 0 /\ CapOf(a) \in Nat /\ CapOf(a) % 8 = 0
  BY SegmentFacts
<1> QED
  BY <1>1 DEF CellsOf, Cell, BOOK_SIZE

\* A write confined to one segment's size and words leaves every capacity, and
\* the size of every other segment, as it was.
LEMMA HeadersKept ==
    ASSUME HeapInv, NEW a \in Owned \cup {0},
           \A c \in DOMAIN mem :
              c \notin a \div 4 + 1 .. (a + CapOf(a) + 8) \div 4 - 1 => mem'[c] = mem[c]
    PROVE  \A b \in Owned \cup {0} : /\ CapOf(b)' = CapOf(b)
                                     /\ b # a => SizeOf(b)' = SizeOf(b)
<1> SUFFICES ASSUME NEW b \in Owned \cup {0}
             PROVE  CapOf(b)' = CapOf(b) /\ (b # a => SizeOf(b)' = SizeOf(b))
  OBVIOUS
<1>1. /\ b \in Nat /\ b % 4 = 0 /\ CapOf(b) \in Nat /\ CapOf(b) % 8 = 0
      /\ a \in Nat /\ a % 4 = 0 /\ CapOf(a) \in Nat /\ CapOf(a) % 8 = 0
      /\ b \div 4 \in DOMAIN mem /\ b \div 4 + 1 \in DOMAIN mem
      /\ CapOf(b) = mem[b \div 4] /\ SizeOf(b) = mem[b \div 4 + 1]
  BY SegmentFacts
<1>2. CapOf(b)' = mem'[b \div 4] /\ SizeOf(b)' = mem'[b \div 4 + 1]
  BY <1>1, CellAt DEF CapOf, SizeOf
<1>3. CASE b = a
  BY <1>1, <1>2, <1>3
<1>4. CASE b # a
  <2>1. \/ (a + CapOf(a) + 8) \div 4 <= b \div 4
        \/ (b + CapOf(b) + 8) \div 4 <= a \div 4
    BY <1>4, CellsApart
  <2>2. /\ b \div 4 \notin a \div 4 + 1 .. (a + CapOf(a) + 8) \div 4 - 1
        /\ b \div 4 + 1 \notin a \div 4 + 1 .. (a + CapOf(a) + 8) \div 4 - 1
    BY <1>1, <2>1
  <2> QED
    BY <1>1, <1>2, <2>2
<1> QED
  BY <1>3, <1>4

\* The heap keeps its shape when no segment is carved.
LEMMA ShapeKept ==
    ASSUME HeapInv, start_unused' = start_unused, Owned' = Owned,
           \A b \in Owned \cup {0} : CapOf(b)' = CapOf(b) /\ SizeOf(b)' <= CapOf(b)
    PROVE  /\ (start_unused % BLOCK_SIZE = BLOCK_SIZE - BOOK_SIZE)'
           /\ HeapShape' /\ CapsWhole' /\ KernelFits' /\ NoOverlap'
<1>1. (start_unused % BLOCK_SIZE = BLOCK_SIZE - BOOK_SIZE)'
  BY DEF HeapInv
<1>2. HeapShape'
  BY DEF HeapInv, HeapShape
<1>3. CapsWhole'
  BY DEF HeapInv, CapsWhole
<1>4. KernelFits'
  BY DEF HeapInv, KernelFits
<1>5. NoOverlap'
  BY DEF HeapInv, NoOverlap
<1> QED
  BY <1>1, <1>2, <1>3, <1>4, <1>5

-----------------------------------------------------------------------------
\* What a recycled and a freed segment do to the recycler.

\* What RecyclerExact says of the next state, in terms of the variables.
LEMMA ExactAfter ==
    ASSUME \A b \in 0..REC_BUCKETS - 1 : \A i \in 1..Len(rec'[b].stack) :
              /\ rec'[b].stack[i] \notin mapped'
              /\ mem'[CapCell(rec'[b].stack[i])] = (b + 1) * BLOCK_SIZE - BOOK_SIZE,
           \A b \in 0..REC_BUCKETS - 1 : \A i \in 1..Len(rec'[b].stack) :
              \A c \in 0..REC_BUCKETS - 1 : \A j \in 1..Len(rec'[c].stack) :
                 rec'[b].stack[i] = rec'[c].stack[j] => b = c /\ i = j
    PROVE  RecyclerExact'
<1>1. ASSUME NEW b \in 0..REC_BUCKETS - 1, NEW i \in 1..Len(rec'[b].stack)
      PROVE  /\ rec'[b].stack[i] \notin mapped'
             /\ mem'[CapCell(rec'[b].stack[i])] = (b + 1) * BLOCK_SIZE - BOOK_SIZE
             /\ \A c \in 0..REC_BUCKETS - 1 : \A j \in 1..Len(rec'[c].stack) :
                    rec'[b].stack[i] = rec'[c].stack[j] => b = c /\ i = j
  BY <1>1
<1> QED
  BY <1>1, Zenon DEF RecyclerExact, CapOf

LEMMA PopRecycler ==
    ASSUME HeapInv, NEW k \in 0..REC_BUCKETS - 1, ~stack_is_empty(rec[k]),
           rec' = [rec EXCEPT ![k] = stack_pop(rec[k])],
           mapped' = mapped \cup {stack_top(rec[k])},
           \A a \in Owned : CapOf(a)' = CapOf(a)
    PROVE  /\ rec' \in [0..REC_BUCKETS - 1 -> StackType]
           /\ stack_top(rec[k]) \in Recycled /\ stack_top(rec[k]) \notin mapped
           /\ CapOf(stack_top(rec[k])) = (k + 1) * BLOCK_SIZE - BOOK_SIZE
           /\ Owned' = Owned
           /\ mapped' \in SUBSET U32
           /\ RecyclerExact'
<1> DEFINE n == Len(rec[k].stack)
           t == stack_top(rec[k])
<1>1. rec \in [0..REC_BUCKETS - 1 -> StackType]
  BY DEF HeapInv, TypeOK
<1>2. /\ stack_pop(rec[k]) \in StackType
      /\ Len(stack_pop(rec[k]).stack) = n - 1
      /\ \A i \in 1..n - 1 : stack_pop(rec[k]).stack[i] = rec[k].stack[i]
      /\ n \in Nat \ {0}
  BY <1>1, PopStack
<1>3. t = rec[k].stack[n]
  BY DEF stack_top
<1>4. rec' \in [0..REC_BUCKETS - 1 -> StackType]
  BY <1>1, <1>2
<1> HIDE DEF n, t
<1>20. \A x : x \in Recycled <=> \E b \in 0..REC_BUCKETS - 1 :
                                  \E i \in 1..Len(rec[b].stack) : x = rec[b].stack[i]
  BY <1>1, RecycledSlots DEF Recycled
<1>21. \A x : x \in Recycled' <=> \E b \in 0..REC_BUCKETS - 1 :
                                  \E i \in 1..Len(rec'[b].stack) : x = rec'[b].stack[i]
  BY <1>4, RecycledSlots DEF Recycled
<1>5. \A b \in 0..REC_BUCKETS - 1 : b # k => rec'[b] = rec[b]
  BY <1>1
<1>6. /\ Len(rec'[k].stack) = n - 1 /\ Len(rec[k].stack) = n
      /\ \A i \in 1..n - 1 : rec'[k].stack[i] = rec[k].stack[i]
  BY <1>1, <1>2 DEF n
<1>7. t \in Recycled
  BY <1>2, <1>3, <1>6, <1>20
<1>8. /\ t \notin mapped
      /\ CapOf(t) = (k + 1) * BLOCK_SIZE - BOOK_SIZE
      /\ \A b \in 0..REC_BUCKETS - 1 : \A i \in 1..Len(rec[b].stack) :
            rec[b].stack[i] = t => b = k /\ i = n
  BY <1>2, <1>3, <1>6 DEF HeapInv, RecyclerExact
<1>9. Recycled = Recycled' \cup {t}
  <2>1. ASSUME NEW x \in Recycled PROVE x \in Recycled' \/ x = t
    <3>0. PICK b \in 0..REC_BUCKETS - 1 :
             \E i \in 1..Len(rec[b].stack) : x = rec[b].stack[i]
      BY <2>1, <1>20
    <3>1. PICK i \in 1..Len(rec[b].stack) : x = rec[b].stack[i]
      BY <3>0
    <3>2. CASE b # k
      BY <1>5, <3>1, <3>2, <1>21
    <3>3. CASE b = k /\ i # n
      <4>1. i \in 1..n - 1
        BY <1>2, <1>6, <3>3
      <4>2. i \in 1..Len(rec'[k].stack) /\ x = rec'[k].stack[i]
        BY <1>6, <3>1, <3>3, <4>1
      <4> QED
        BY <4>2, <1>21
    <3>4. CASE b = k /\ i = n
      BY <1>3, <3>1, <3>4
    <3> QED
      BY <3>2, <3>3, <3>4
  <2>2. ASSUME NEW x \in Recycled' PROVE x \in Recycled
    <3>0. PICK b \in 0..REC_BUCKETS - 1 :
             \E i \in 1..Len(rec'[b].stack) : x = rec'[b].stack[i]
      BY <2>2, <1>21
    <3>1. PICK i \in 1..Len(rec'[b].stack) : x = rec'[b].stack[i]
      BY <3>0
    <3>2. i \in 1..Len(rec[b].stack) /\ x = rec[b].stack[i]
      BY <1>2, <1>5, <1>6, <3>1
    <3> QED
      BY <3>2, <1>20
  <2> QED
    BY <1>7, <2>1, <2>2
<1>10. Owned' = Owned
  BY <1>7, <1>9, mapped' = mapped \cup {t} DEF Owned, t
<1>11. mapped' \in SUBSET U32
  BY <1>7, OwnedTypes DEF HeapInv, TypeOK, Owned, t
<1>12. RecyclerExact'
  <2>1. \A b \in 0..REC_BUCKETS - 1 : \A i \in 1..Len(rec'[b].stack) :
           /\ i \in 1..Len(rec[b].stack) /\ rec'[b].stack[i] = rec[b].stack[i]
           /\ rec'[b].stack[i] # t
    BY <1>2, <1>5, <1>6, <1>8
  <2>2. \A b \in 0..REC_BUCKETS - 1 : \A i \in 1..Len(rec[b].stack) :
           /\ rec[b].stack[i] \notin mapped
           /\ CapOf(rec[b].stack[i]) = (b + 1) * BLOCK_SIZE - BOOK_SIZE
           /\ \A c \in 0..REC_BUCKETS - 1 : \A j \in 1..Len(rec[c].stack) :
                 rec[b].stack[i] = rec[c].stack[j] => b = c /\ i = j
    BY DEF HeapInv, RecyclerExact
  <2>3. \A b \in 0..REC_BUCKETS - 1 : \A i \in 1..Len(rec[b].stack) :
           rec[b].stack[i] \in Owned
    BY <1>20 DEF Owned
  <2>4. mapped' = mapped \cup {t}
    BY DEF t
  <2>8. \A a \in Owned : mem'[CapCell(a)] = CapOf(a)
    BY DEF CapOf
  <2>5. \A b \in 0..REC_BUCKETS - 1 : \A i \in 1..Len(rec'[b].stack) :
           /\ rec'[b].stack[i] \notin mapped'
           /\ mem'[CapCell(rec'[b].stack[i])] = (b + 1) * BLOCK_SIZE - BOOK_SIZE
    BY <2>1, <2>2, <2>3, <2>4, <2>8
  <2>6. \A b \in 0..REC_BUCKETS - 1 : \A i \in 1..Len(rec'[b].stack) :
           \A c \in 0..REC_BUCKETS - 1 : \A j \in 1..Len(rec'[c].stack) :
              rec'[b].stack[i] = rec'[c].stack[j] => b = c /\ i = j
    <3> TAKE b \in 0..REC_BUCKETS - 1
    <3> TAKE i \in 1..Len(rec'[b].stack)
    <3> TAKE c \in 0..REC_BUCKETS - 1
    <3> TAKE j \in 1..Len(rec'[c].stack)
    <3>0. HAVE rec'[b].stack[i] = rec'[c].stack[j]
    <3>1. i \in 1..Len(rec[b].stack) /\ rec'[b].stack[i] = rec[b].stack[i]
      BY <2>1
    <3>2. j \in 1..Len(rec[c].stack) /\ rec'[c].stack[j] = rec[c].stack[j]
      BY <2>1
    <3>3. rec[b].stack[i] = rec[c].stack[j]
      BY <3>0, <3>1, <3>2
    <3> QED
      BY <2>2, <3>1, <3>2, <3>3
  <2> QED
    BY <2>5, <2>6, ExactAfter, Zenon
<1> QED
  BY <1>4, <1>7, <1>8, <1>10, <1>11, <1>12 DEF t

LEMMA PushRecycler ==
    ASSUME HeapInv, NEW k \in 0..REC_BUCKETS - 1, NEW e \in mapped,
           CapOf(e) = (k + 1) * BLOCK_SIZE - BOOK_SIZE,
           rec' = [rec EXCEPT ![k] = stack_push(rec[k], e)],
           mapped' = mapped \ {e},
           \A a \in Owned : CapOf(a)' = CapOf(a)
    PROVE  /\ rec' \in [0..REC_BUCKETS - 1 -> StackType]
           /\ Owned' = Owned
           /\ RecyclerExact'
<1> DEFINE n == Len(rec[k].stack)
<1>1. rec \in [0..REC_BUCKETS - 1 -> StackType] /\ e \in U32
  BY DEF HeapInv, TypeOK
<1>2. /\ stack_push(rec[k], e) \in StackType
      /\ Len(stack_push(rec[k], e).stack) = n + 1
      /\ \A i \in 1..n : stack_push(rec[k], e).stack[i] = rec[k].stack[i]
      /\ stack_push(rec[k], e).stack[n + 1] = e
      /\ n \in Nat
  BY <1>1, PushStack
<1>4. rec' \in [0..REC_BUCKETS - 1 -> StackType]
  BY <1>1, <1>2
<1> HIDE DEF n
<1>20. \A x : x \in Recycled <=> \E b \in 0..REC_BUCKETS - 1 :
                                  \E i \in 1..Len(rec[b].stack) : x = rec[b].stack[i]
  BY <1>1, RecycledSlots DEF Recycled
<1>21. \A x : x \in Recycled' <=> \E b \in 0..REC_BUCKETS - 1 :
                                  \E i \in 1..Len(rec'[b].stack) : x = rec'[b].stack[i]
  BY <1>4, RecycledSlots DEF Recycled
<1>5. \A b \in 0..REC_BUCKETS - 1 : b # k => rec'[b] = rec[b]
  BY <1>1
<1>6. /\ Len(rec'[k].stack) = n + 1 /\ Len(rec[k].stack) = n
      /\ \A i \in 1..n : rec'[k].stack[i] = rec[k].stack[i]
      /\ rec'[k].stack[n + 1] = e
  BY <1>1, <1>2 DEF n
<1>7. \A b \in 0..REC_BUCKETS - 1 : \A i \in 1..Len(rec'[b].stack) :
         \/ i \in 1..Len(rec[b].stack) /\ rec'[b].stack[i] = rec[b].stack[i]
         \/ b = k /\ i = n + 1 /\ rec'[b].stack[i] = e
  BY <1>2, <1>5, <1>6
<1>8. \A b \in 0..REC_BUCKETS - 1 : \A i \in 1..Len(rec[b].stack) :
         i \in 1..Len(rec'[b].stack) /\ rec'[b].stack[i] = rec[b].stack[i]
  BY <1>2, <1>5, <1>6
<1>9. Recycled' = Recycled \cup {e}
  <2>1. ASSUME NEW x \in Recycled' PROVE x \in Recycled \/ x = e
    <3>0. PICK b \in 0..REC_BUCKETS - 1 :
             \E i \in 1..Len(rec'[b].stack) : x = rec'[b].stack[i]
      BY <2>1, <1>21
    <3>1. PICK i \in 1..Len(rec'[b].stack) : x = rec'[b].stack[i]
      BY <3>0
    <3> QED
      BY <1>7, <3>1, <1>20
  <2>2. ASSUME NEW x \in Recycled PROVE x \in Recycled'
    <3>0. PICK b \in 0..REC_BUCKETS - 1 :
             \E i \in 1..Len(rec[b].stack) : x = rec[b].stack[i]
      BY <2>2, <1>20
    <3>1. PICK i \in 1..Len(rec[b].stack) : x = rec[b].stack[i]
      BY <3>0
    <3> QED
      BY <1>8, <3>1, <1>21
  <2>3. e \in Recycled'
    <3>1. n + 1 \in 1..Len(rec'[k].stack) /\ e = rec'[k].stack[n + 1]
      BY <1>2, <1>6
    <3> QED
      BY <3>1, <1>21
  <2> QED
    BY <2>1, <2>2, <2>3
<1>10. Owned' = Owned
  BY <1>9 DEF Owned
<1>11. RecyclerExact'
  <2>2. \A b \in 0..REC_BUCKETS - 1 : \A i \in 1..Len(rec[b].stack) :
           /\ rec[b].stack[i] \notin mapped
           /\ CapOf(rec[b].stack[i]) = (b + 1) * BLOCK_SIZE - BOOK_SIZE
           /\ \A c \in 0..REC_BUCKETS - 1 : \A j \in 1..Len(rec[c].stack) :
                 rec[b].stack[i] = rec[c].stack[j] => b = c /\ i = j
    BY DEF HeapInv, RecyclerExact
  <2>3. \A b \in 0..REC_BUCKETS - 1 : \A i \in 1..Len(rec[b].stack) :
           rec[b].stack[i] \in Owned /\ rec[b].stack[i] # e
    BY <2>2, <1>20 DEF Owned
  <2>4. e \in Owned
    BY DEF Owned
  <2>8. \A a \in Owned : mem'[CapCell(a)] = CapOf(a)
    BY DEF CapOf
  <2>5. \A b \in 0..REC_BUCKETS - 1 : \A i \in 1..Len(rec'[b].stack) :
           /\ rec'[b].stack[i] \notin mapped'
           /\ mem'[CapCell(rec'[b].stack[i])] = (b + 1) * BLOCK_SIZE - BOOK_SIZE
    BY <1>7, <2>2, <2>3, <2>4, <2>8
  <2>6. \A b \in 0..REC_BUCKETS - 1 : \A i \in 1..Len(rec'[b].stack) :
           \A c \in 0..REC_BUCKETS - 1 : \A j \in 1..Len(rec'[c].stack) :
              rec'[b].stack[i] = rec'[c].stack[j] => b = c /\ i = j
    <3> TAKE b \in 0..REC_BUCKETS - 1
    <3> TAKE i \in 1..Len(rec'[b].stack)
    <3> TAKE c \in 0..REC_BUCKETS - 1
    <3> TAKE j \in 1..Len(rec'[c].stack)
    <3>0. HAVE rec'[b].stack[i] = rec'[c].stack[j]
    <3>1. \/ i \in 1..Len(rec[b].stack) /\ rec'[b].stack[i] = rec[b].stack[i]
          \/ b = k /\ i = n + 1 /\ rec'[b].stack[i] = e
      BY <1>7
    <3>2. \/ j \in 1..Len(rec[c].stack) /\ rec'[c].stack[j] = rec[c].stack[j]
          \/ c = k /\ j = n + 1 /\ rec'[c].stack[j] = e
      BY <1>7
    <3>3. CASE /\ i \in 1..Len(rec[b].stack) /\ rec'[b].stack[i] = rec[b].stack[i]
               /\ j \in 1..Len(rec[c].stack) /\ rec'[c].stack[j] = rec[c].stack[j]
      <4>1. rec[b].stack[i] = rec[c].stack[j]
        BY <3>0, <3>3
      <4> QED
        BY <2>2, <3>3, <4>1
    <3> QED
      BY <2>3, <3>0, <3>1, <3>2, <3>3
  <2> QED
    BY <2>5, <2>6, ExactAfter, Zenon
<1> QED
  BY <1>4, <1>10, <1>11

-----------------------------------------------------------------------------
\* Every operation keeps HeapInv.

\* What waits on top of a bucket's stack has that bucket's capacity.
LEMMA TopOfBucket ==
    ASSUME HeapInv, NEW k \in 0..REC_BUCKETS - 1, ~stack_is_empty(rec[k])
    PROVE  /\ stack_top(rec[k]) \in Owned
           /\ CapOf(stack_top(rec[k])) = (k + 1) * BLOCK_SIZE - BOOK_SIZE
<1>1. rec \in [0..REC_BUCKETS - 1 -> StackType]
  BY DEF HeapInv, TypeOK
<1>2. rec[k] \in StackType
  BY <1>1
<1>3. Len(rec[k].stack) \in 1..Len(rec[k].stack)
  BY <1>2, PopStack
<1>4. stack_top(rec[k]) \in Recycled
  BY <1>1, <1>3, RecycledSlots DEF Recycled, stack_top
<1> QED
  BY <1>3, <1>4 DEF HeapInv, RecyclerExact, Owned, stack_top

\* No segment is named SEG_NOT_FOUND, so the sentinel means an empty bucket.
LEMMA FindFreed ==
    ASSUME HeapInv, NEW size \in Nat, size < MAX_ALLOC
    PROVE  LET k == get_idx_from_alloc_size(size)
           IN  /\ find_freed_segment(size) = SEG_NOT_FOUND
                  <=> stack_is_empty(rec[k])
               /\ find_freed_segment(size) # SEG_NOT_FOUND
                  => find_freed_segment(size) = stack_top(rec[k])
<1> DEFINE k == get_idx_from_alloc_size(size)
<1>1. k \in 0..REC_BUCKETS - 1
  BY SizeClass
<1>2. ~stack_is_empty(rec[k]) => stack_top(rec[k]) \in Owned
  BY <1>1, TopOfBucket
<1>3. 1 \notin Owned
  BY DEF HeapInv, HeapShape, BLOCK_SIZE
<1> QED
  BY <1>2, <1>3 DEF find_freed_segment, SEG_NOT_FOUND

\* What vs_calloc returns is a word.
LEMMA ServedType ==
    ASSUME HeapInv, NEW n \in U32, Requested(n)
    PROVE  Wrap(4 * n) = 4 * n /\ served(Wrap(4 * n)) \in U32
<1>1. n \in Nat /\ 4 * n \in Nat /\ 4 * n < MAX_ALLOC /\ 4 * n \in U32
  BY Virt32Assumption DEF Requested, U32, BOOK_SIZE
<1>2. Wrap(4 * n) = 4 * n
  BY <1>1, WrapFits
<1>3. CASE find_freed_segment(4 * n) = SEG_NOT_FOUND
  <2>1. Wrap(start_unused + BOOK_SIZE) \in U32
    BY WrapRange, Virt32Assumption DEF HeapInv, TypeOK, BOOK_SIZE
  <2> QED
    BY <1>2, <1>3, <2>1 DEF served
<1>4. CASE find_freed_segment(4 * n) # SEG_NOT_FOUND
  <2>1. PICK k \in 0..REC_BUCKETS - 1 : k = get_idx_from_alloc_size(4 * n)
    BY <1>1, SizeClass
  <2>2. /\ find_freed_segment(4 * n) = stack_top(rec[k])
        /\ ~stack_is_empty(rec[k])
    BY <1>1, <1>4, <2>1, FindFreed
  <2>3. stack_top(rec[k]) \in U32
    BY <2>2, TopOfBucket, OwnedTypes DEF HeapInv
  <2> QED
    BY <1>2, <1>4, <2>2, <2>3 DEF served
<1> QED
  BY <1>2, <1>3, <1>4

\* A recycled segment is the top of its bucket, has room for the request, and
\* only its size and the words of the request are written.
LEMMA RecycleFacts ==
    ASSUME HeapInv, NEW size \in Nat, size % 4 = 0, size < MAX_ALLOC, Recycle(size)
    PROVE  \E t \in Owned : LET k == get_idx_from_alloc_size(size)
           IN  /\ k \in 0..REC_BUCKETS - 1 /\ ~stack_is_empty(rec[k])
               /\ t = stack_top(rec[k]) /\ t = find_freed_segment(size)
               /\ rec' = [rec EXCEPT ![k] = stack_pop(rec[k])]
               /\ mapped' = mapped \cup {t} /\ start_unused' = start_unused
               /\ t \in Nat /\ t % 4 = 0 /\ t \div 4 + 1 \in DOMAIN mem
               /\ size <= CapOf(t) /\ CapOf(t) \in Nat /\ size \in U32
               /\ CellsOf(t, size) \subseteq t \div 4 + 2 .. (t + CapOf(t) + 8) \div 4 - 1
               /\ mem' = [c \in DOMAIN mem |-> IF c \in CellsOf(t, size) THEN 0
                                               ELSE IF c = t \div 4 + 1 THEN size ELSE mem[c]]
               /\ \A c \in DOMAIN mem :
                     c \notin t \div 4 + 1 .. (t + CapOf(t) + 8) \div 4 - 1 => mem'[c] = mem[c]
<1> DEFINE k == get_idx_from_alloc_size(size)
<1>0. PICK t : t = stack_top(rec[k])
  OBVIOUS
<1>1. k \in 0..REC_BUCKETS - 1 /\ user_cap(size) = (k + 1) * BLOCK_SIZE - BOOK_SIZE
      /\ size <= user_cap(size) /\ size \in U32
  BY SizeClass, Virt32Assumption DEF U32, BOOK_SIZE
<1>2. ~stack_is_empty(rec[k]) /\ find_freed_segment(size) = t
  BY <1>0, FindFreed DEF Recycle
<1>3. /\ rec' = [rec EXCEPT ![k] = stack_pop(rec[k])]
      /\ mem' = memset0([mem EXCEPT ![SizeCell(t)] = size], t, size)
      /\ mapped' = mapped \cup {t} /\ start_unused' = start_unused
  BY <1>0, <1>2 DEF Recycle, rec_after_find
<1>4. t \in Owned /\ t \in Owned \cup {0} /\ CapOf(t) = user_cap(size)
  BY <1>0, <1>1, <1>2, TopOfBucket
<1> HIDE DEF k
<1>5. /\ t \in Nat /\ t % 4 = 0 /\ t \div 4 + 1 \in DOMAIN mem
      /\ size <= CapOf(t) /\ CapOf(t) \in Nat
  BY <1>1, <1>4, SegmentFacts
<1>6. CellsOf(t, size) \subseteq t \div 4 + 2 .. (t + CapOf(t) + 8) \div 4 - 1
  BY <1>4, <1>5, CellsInside
<1>7. SizeCell(t) = t \div 4 + 1
  BY <1>5, CellAt
<1>8. mem' = [c \in DOMAIN mem |-> IF c \in CellsOf(t, size) THEN 0
                                    ELSE IF c = t \div 4 + 1 THEN size ELSE mem[c]]
  BY <1>3, <1>5, <1>7 DEF memset0, HeapInv, TypeOK
<1>9. \A c \in DOMAIN mem :
         c \notin t \div 4 + 1 .. (t + CapOf(t) + 8) \div 4 - 1 => mem'[c] = mem[c]
  <2>1. ASSUME NEW c \in DOMAIN mem, c \notin t \div 4 + 1 .. (t + CapOf(t) + 8) \div 4 - 1
        PROVE  c \notin CellsOf(t, size) /\ c # t \div 4 + 1
    BY <1>5, <1>6, <2>1
  <2> QED
    BY <1>8, <2>1
<1> QED
  BY <1>0, <1>1, <1>2, <1>3, <1>4, <1>5, <1>6, <1>8, <1>9 DEF k

LEMMA RecycleKeeps ==
    ASSUME HeapInv, NEW size \in Nat, size % 4 = 0, size < MAX_ALLOC,
           Recycle(size), UNCHANGED <<kernel_virtual_size, aborted>>
    PROVE  /\ HeapInv' /\ Owned' = Owned
           /\ \A a \in Owned : CapOf(a)' = CapOf(a)
<1> DEFINE k == get_idx_from_alloc_size(size)
<1>0. PICK t \in Owned :
        /\ k \in 0..REC_BUCKETS - 1 /\ ~stack_is_empty(rec[k])
        /\ t = stack_top(rec[k])
        /\ rec' = [rec EXCEPT ![k] = stack_pop(rec[k])]
        /\ mapped' = mapped \cup {t} /\ start_unused' = start_unused
        /\ t \in Nat /\ t % 4 = 0 /\ t \div 4 + 1 \in DOMAIN mem
        /\ size <= CapOf(t) /\ CapOf(t) \in Nat /\ size \in U32
        /\ CellsOf(t, size) \subseteq t \div 4 + 2 .. (t + CapOf(t) + 8) \div 4 - 1
        /\ mem' = [c \in DOMAIN mem |-> IF c \in CellsOf(t, size) THEN 0
                                        ELSE IF c = t \div 4 + 1 THEN size ELSE mem[c]]
        /\ \A c \in DOMAIN mem :
              c \notin t \div 4 + 1 .. (t + CapOf(t) + 8) \div 4 - 1 => mem'[c] = mem[c]
  BY RecycleFacts
<1> HIDE DEF k
<1>4. t \in Owned \cup {0} /\ SizeCell(t) = t \div 4 + 1
  BY <1>0, CellAt
<1>17. t \div 4 + 1 \notin CellsOf(t, size)
  BY <1>0
<1>18. mem'[t \div 4 + 1] = size
  BY <1>0, <1>17
<1>19. mem' \in [0..GB4 \div 4 - 1 -> U32]
  <2>1. DOMAIN mem = 0..GB4 \div 4 - 1 /\ \A c \in DOMAIN mem : mem[c] \in U32
    BY DEF HeapInv, TypeOK
  <2>2. 0 \in U32
    BY Virt32Assumption DEF U32, BOOK_SIZE
  <2> QED
    BY <1>0, <2>1, <2>2
<1>9. \A b \in Owned \cup {0} : /\ CapOf(b)' = CapOf(b)
                                /\ b # t => SizeOf(b)' = SizeOf(b)
  BY <1>0, <1>4, HeadersKept
<1>10. SizeOf(t)' = size
  BY <1>4, <1>18 DEF SizeOf
<1>11. /\ rec' \in [0..REC_BUCKETS - 1 -> StackType] /\ Owned' = Owned
       /\ mapped' \in SUBSET U32 /\ RecyclerExact'
  BY <1>0, <1>9, PopRecycler
<1>12. TypeOK'
  BY <1>0, <1>19, <1>11 DEF HeapInv, TypeOK
<1>13. \A b \in Owned \cup {0} : CapOf(b)' = CapOf(b) /\ SizeOf(b)' <= CapOf(b)
  BY <1>0, <1>9, <1>10, SegmentFacts
<1>14. /\ (start_unused % BLOCK_SIZE = BLOCK_SIZE - BOOK_SIZE)'
       /\ HeapShape' /\ CapsWhole' /\ KernelFits' /\ NoOverlap'
  BY <1>0, <1>11, <1>13, ShapeKept
<1>15. WordSizes'
  BY <1>0, <1>9, <1>10 DEF HeapInv, WordSizes, Segments, Owned
<1> QED
  BY <1>9, <1>11, <1>12, <1>14, <1>15 DEF HeapInv

LEMMA CarveFacts ==
    ASSUME HeapInv, NEW size \in Nat, size % 4 = 0, size < MAX_ALLOC, FitsHeap(size),
           Carve(size)
    PROVE  \E u \in Nat :
             /\ u = start_unused + 8 /\ u \in U32 /\ u % 32 = 0
             /\ start_unused' = u + user_cap(size)
             /\ start_unused' + 8 <= GB4
             /\ rec' = rec /\ mapped' = mapped \cup {u}
             /\ mem' \in [0..GB4 \div 4 - 1 -> U32]
             /\ \A c \in DOMAIN mem : c \notin {u \div 4, u \div 4 + 1} => mem'[c] = mem[c]
             /\ u \notin Owned \cup {0} /\ Owned' = Owned \cup {u}
             /\ CapOf(u)' = user_cap(size) /\ SizeOf(u)' = size
             /\ \A b \in Owned \cup {0} : CapOf(b)' = CapOf(b) /\ SizeOf(b)' = SizeOf(b)
<1> DEFINE k == get_idx_from_alloc_size(size)
           cap == user_cap(size)
<1>1. k \in 0..REC_BUCKETS - 1 /\ cap \in Nat /\ size <= cap /\ cap <= MAX_ALLOC
      /\ cap % 32 = 24
  BY SizeClass DEF BLOCK_SIZE, BOOK_SIZE
<1>2. stack_is_empty(rec[k])
  BY FindFreed DEF Carve
<1>3. start_unused + 8 + cap + 8 <= GB4
  BY <1>2 DEF FitsHeap, BOOK_SIZE
<1>4. start_unused \in Nat /\ start_unused % 32 = 24 /\ KERN_SIZE <= start_unused
  BY Virt32Assumption DEF HeapInv, TypeOK, BLOCK_SIZE, BOOK_SIZE
<1>0. PICK u \in Nat : u = start_unused + 8
  BY <1>4
<1> HIDE DEF k, cap
<1>5. u \in U32 /\ u + cap \in U32 /\ u % 32 = 0 /\ u % 4 = 0 /\ cap \in U32 /\ size \in U32
  BY <1>0, <1>1, <1>3, <1>4, Virt32Assumption DEF U32
<1>6. Wrap(start_unused + BOOK_SIZE) = u /\ Wrap(u + cap) = u + cap
  BY <1>0, <1>5, WrapFits DEF BOOK_SIZE
<1>7. CapCell(u) = u \div 4 /\ SizeCell(u) = u \div 4 + 1
  BY <1>5, CellAt
<1>8. /\ start_unused' = u + cap
      /\ mem' = [mem EXCEPT ![u \div 4] = cap, ![u \div 4 + 1] = size]
      /\ mapped' = mapped \cup {u}
      /\ rec' = rec
  BY <1>2, <1>6, <1>7 DEF Carve, rec_after_find, k, cap
<1>9. start_unused' + 8 <= GB4
  BY <1>0, <1>3, <1>8
<1> DEFINE w == GB4 \div 4
<1>10. w \in Nat /\ 4 * w = GB4
  BY Virt32Assumption DEF BLOCK_SIZE
<1> HIDE DEF w
<1>11. u \div 4 \in 0..w - 1 /\ u \div 4 + 1 \in 0..w - 1
  BY <1>0, <1>1, <1>3, <1>5, <1>10
<1>12. mem \in [0..w - 1 -> U32]
  BY DEF HeapInv, TypeOK, w
<1>13. mem' \in [0..w - 1 -> U32]
  BY <1>5, <1>8, <1>11, <1>12
<1>14. \A c \in DOMAIN mem : c \notin {u \div 4, u \div 4 + 1} => mem'[c] = mem[c]
  BY <1>8, <1>12
<1>15. mem'[u \div 4] = cap /\ mem'[u \div 4 + 1] = size
  BY <1>5, <1>8, <1>11, <1>12
<1>16. CapOf(u)' = cap /\ SizeOf(u)' = size
  BY <1>7, <1>15 DEF CapOf, SizeOf
<1>17. ASSUME NEW b \in Owned \cup {0}
       PROVE  b # u /\ CapOf(b)' = CapOf(b) /\ SizeOf(b)' = SizeOf(b)
  <2>1. /\ b \in Nat /\ b % 4 = 0 /\ CapOf(b) \in Nat
        /\ b # 0 => b + CapOf(b) <= start_unused
        /\ b \div 4 \in DOMAIN mem /\ b \div 4 + 1 \in DOMAIN mem
    BY SegmentFacts
  <2>2. b + 8 <= u /\ u % 4 = 0
    BY <1>0, <1>4, <1>5, <2>1, Virt32Assumption
  <2>3. b \div 4 \notin {u \div 4, u \div 4 + 1} /\ b \div 4 + 1 \notin {u \div 4, u \div 4 + 1}
    BY <2>1, <2>2
  <2>4. mem'[b \div 4] = mem[b \div 4] /\ mem'[b \div 4 + 1] = mem[b \div 4 + 1]
    BY <1>14, <2>1, <2>3
  <2>5. CapCell(b) = b \div 4 /\ SizeCell(b) = b \div 4 + 1
    BY <2>1, CellAt
  <2> QED
    BY <2>1, <2>2, <2>4, <2>5 DEF CapOf, SizeOf
<1>18. Owned' = Owned \cup {u}
  BY <1>8 DEF Owned, Recycled
<1> QED
  BY <1>0, <1>5, <1>8, <1>9, <1>13, <1>14, <1>16, <1>17, <1>18 DEF cap, w

LEMMA CarveKeeps ==
    ASSUME HeapInv, NEW size \in Nat, size % 4 = 0, size < MAX_ALLOC, FitsHeap(size),
           Carve(size), UNCHANGED <<kernel_virtual_size, aborted>>
    PROVE  /\ HeapInv'
           /\ \A a \in Owned : a \in Owned' /\ CapOf(a)' = CapOf(a)
<1>1. PICK u \in Nat :
        /\ u = start_unused + 8 /\ u \in U32 /\ u % 32 = 0
        /\ start_unused' = u + user_cap(size)
        /\ start_unused' + 8 <= GB4
        /\ rec' = rec /\ mapped' = mapped \cup {u}
        /\ mem' \in [0..GB4 \div 4 - 1 -> U32]
        /\ u \notin Owned \cup {0} /\ Owned' = Owned \cup {u}
        /\ CapOf(u)' = user_cap(size) /\ SizeOf(u)' = size
        /\ \A b \in Owned \cup {0} : CapOf(b)' = CapOf(b) /\ SizeOf(b)' = SizeOf(b)
  BY CarveFacts
<1> DEFINE cap == user_cap(size)
<1>2. cap \in Nat /\ size <= cap /\ cap <= MAX_ALLOC /\ cap % 32 = 24
  BY SizeClass DEF BLOCK_SIZE, BOOK_SIZE
<1> HIDE DEF cap
<1>3. start_unused \in Nat /\ start_unused % 32 = 24 /\ KERN_SIZE <= start_unused
  BY Virt32Assumption DEF HeapInv, TypeOK, BLOCK_SIZE, BOOK_SIZE
<1>4. start_unused' = u + cap /\ CapOf(u)' = cap
  BY <1>1 DEF cap
<1>5. (start_unused % BLOCK_SIZE = BLOCK_SIZE - BOOK_SIZE)'
  <2>0. u % 32 = 0
    BY <1>1
  <2>1. (u + cap) % 32 = 24
    BY <1>2, <2>0
  <2> QED
    BY <1>4, <2>1 DEF BLOCK_SIZE, BOOK_SIZE
<1>6. TypeOK'
  <2>1. start_unused' \in KERN_SIZE..GB4 - BOOK_SIZE
    BY <1>1, <1>2, <1>3, <1>4, Virt32Assumption DEF BOOK_SIZE
  <2> QED
    BY <1>1, <2>1 DEF HeapInv, TypeOK
<1>7. ASSUME NEW a \in Owned \cup {0}
      PROVE  a \in Nat /\ CapOf(a) \in Nat /\ a + CapOf(a) <= start_unused
  <2>1. /\ a \in Nat /\ CapOf(a) \in Nat
        /\ a # 0 => a + CapOf(a) <= start_unused
    BY SegmentFacts
  <2>2. a = 0 => a + CapOf(a) <= KERN_SIZE
    BY Virt32Assumption DEF HeapInv, KernelFits, BOOK_SIZE
  <2> QED
    BY <1>3, <2>1, <2>2, Virt32Assumption
<1>8. HeapShape'
  <2>1. ASSUME NEW a \in Owned
        PROVE  /\ a % BLOCK_SIZE = 0 /\ KERN_SIZE + BOOK_SIZE <= a
               /\ SizeOf(a)' <= CapOf(a)' /\ a + CapOf(a)' <= start_unused'
    <3>1. /\ a % BLOCK_SIZE = 0 /\ KERN_SIZE + BOOK_SIZE <= a
          /\ SizeOf(a) <= CapOf(a) /\ a + CapOf(a) <= start_unused
      BY DEF HeapInv, HeapShape
    <3>2. CapOf(a)' = CapOf(a) /\ SizeOf(a)' = SizeOf(a)
      BY <1>1
    <3> QED
      BY <1>1, <1>2, <1>3, <1>4, <1>7, <3>1, <3>2
  <2>2. /\ u % BLOCK_SIZE = 0 /\ KERN_SIZE + BOOK_SIZE <= u
        /\ SizeOf(u)' <= CapOf(u)' /\ u + CapOf(u)' <= start_unused'
    BY <1>1, <1>2, <1>3, <1>4, Virt32Assumption DEF BLOCK_SIZE, BOOK_SIZE
  <2> QED
    BY <1>1, <2>1, <2>2 DEF HeapShape
<1>9. CapsWhole'
  BY <1>1, <1>2, <1>4 DEF HeapInv, CapsWhole, BLOCK_SIZE, BOOK_SIZE
<1>10. KernelFits'
  BY <1>1 DEF HeapInv, KernelFits
<1>11. WordSizes'
  BY <1>1 DEF HeapInv, WordSizes, Segments, Owned
<1>12. NoOverlap'
  <2>1. ASSUME NEW a \in Owned \cup {0}, NEW b \in Owned \cup {0}, a < b
        PROVE  a + CapOf(a)' <= b - BOOK_SIZE
    BY <1>1, <2>1 DEF HeapInv, NoOverlap
  <2>2. ASSUME NEW a \in Owned \cup {0}
        PROVE  a < u /\ a + CapOf(a)' <= u - BOOK_SIZE
    <3>1. CapOf(a)' = CapOf(a)
      BY <1>1
    <3>2. u = start_unused + 8
      BY <1>1
    <3> QED
      BY <1>3, <1>7, <3>1, <3>2 DEF BOOK_SIZE
  <2>3. \A a \in Owned \cup {0} : ~(u < a)
    BY <1>7, <2>2
  <2> QED
    BY <1>1, <2>1, <2>2, <2>3 DEF NoOverlap
<1>13. RecyclerExact'
  <2>1. rec \in [0..REC_BUCKETS - 1 -> StackType]
    BY DEF HeapInv, TypeOK
  <2>2. \A b \in 0..REC_BUCKETS - 1 : \A i \in 1..Len(rec[b].stack) :
           rec[b].stack[i] \in Owned
    BY <2>1, RecycledSlots DEF Owned, Recycled
  <2>3. \A a \in Owned : mem'[CapCell(a)] = CapOf(a) /\ a # u
    BY <1>1 DEF CapOf
  <2>4. rec' = rec /\ mapped' = mapped \cup {u}
    BY <1>1
  <2>5. ASSUME NEW b \in 0..REC_BUCKETS - 1, NEW i \in 1..Len(rec[b].stack)
        PROVE  /\ rec[b].stack[i] \notin mapped'
               /\ mem'[CapCell(rec[b].stack[i])] = (b + 1) * BLOCK_SIZE - BOOK_SIZE
               /\ \A c \in 0..REC_BUCKETS - 1 : \A j \in 1..Len(rec[c].stack) :
                     rec[b].stack[i] = rec[c].stack[j] => b = c /\ i = j
    <3>1. /\ rec[b].stack[i] \notin mapped
          /\ CapOf(rec[b].stack[i]) = (b + 1) * BLOCK_SIZE - BOOK_SIZE
          /\ \A c \in 0..REC_BUCKETS - 1 : \A j \in 1..Len(rec[c].stack) :
                rec[b].stack[i] = rec[c].stack[j] => b = c /\ i = j
      BY DEF HeapInv, RecyclerExact
    <3>2. rec[b].stack[i] \in Owned
      BY <2>2
    <3> QED
      BY <2>3, <2>4, <3>1, <3>2
  <2> QED
    BY <2>4, <2>5 DEF RecyclerExact, CapOf
<1> QED
  BY <1>1, <1>5, <1>6, <1>8, <1>9, <1>10, <1>11, <1>12, <1>13 DEF HeapInv

LEMMA FreeKeeps ==
    ASSUME HeapInv, NEW id \in mapped, vs_free(id)
    PROVE  /\ HeapInv' /\ Owned' = Owned
           /\ \A a \in Owned : CapOf(a)' = CapOf(a)
<1>1. id \in Owned
  BY DEF Owned
<1>2. CapOf(id) \in Nat /\ CapOf(id) % BLOCK_SIZE = BLOCK_SIZE - BOOK_SIZE
      /\ CapOf(id) <= MAX_ALLOC
  BY <1>1, SegmentFacts DEF HeapInv, CapsWhole
<1>3. PICK k \in 0..REC_BUCKETS - 1 : CapOf(id) = (k + 1) * BLOCK_SIZE - BOOK_SIZE
  BY <1>2, CapHasBucket
<1>4. bucket_of_cap(mem[CapCell(id)]) = k
  BY <1>3, BucketOfCap DEF CapOf
<1>5. /\ rec' = [rec EXCEPT ![k] = stack_push(rec[k], id)]
      /\ mapped' = mapped \ {id} /\ mem' = mem /\ start_unused' = start_unused
      /\ kernel_virtual_size' = kernel_virtual_size /\ aborted' = aborted
  BY <1>4 DEF vs_free
<1>6. \A b : CapOf(b)' = CapOf(b) /\ SizeOf(b)' = SizeOf(b)
  BY <1>5 DEF CapOf, SizeOf
<1>7. /\ rec' \in [0..REC_BUCKETS - 1 -> StackType]
      /\ Owned' = Owned /\ RecyclerExact'
  BY <1>3, <1>5, <1>6, PushRecycler
<1>8. TypeOK'
  BY <1>5, <1>7 DEF HeapInv, TypeOK
<1>9. \A b \in Owned \cup {0} : CapOf(b)' = CapOf(b) /\ SizeOf(b)' <= CapOf(b)
  BY <1>6, SegmentFacts
<1>10. /\ (start_unused % BLOCK_SIZE = BLOCK_SIZE - BOOK_SIZE)'
       /\ HeapShape' /\ CapsWhole' /\ KernelFits' /\ NoOverlap'
  BY <1>5, <1>7, <1>9, ShapeKept
<1>11. WordSizes'
  BY <1>5, <1>6 DEF HeapInv, WordSizes, Segments
<1> QED
  BY <1>6, <1>7, <1>8, <1>10, <1>11 DEF HeapInv

\* A write confined to the size and the words of one segment, which leaves it a
\* size that fits, keeps HeapInv when the recycler and the client's set do.
LEMMA WriteKeeps ==
    ASSUME HeapInv, NEW a \in Owned \cup {0}, UNCHANGED <<alloc, kernel_virtual_size>>,
           mem' \in [0..GB4 \div 4 - 1 -> U32], aborted' \in BOOLEAN,
           \A c \in DOMAIN mem :
              c \notin a \div 4 + 1 .. (a + CapOf(a) + 8) \div 4 - 1 => mem'[c] = mem[c],
           SizeOf(a)' <= CapOf(a), SizeOf(a)' % 4 = 0
    PROVE  /\ HeapInv' /\ Owned' = Owned
           /\ \A b \in Owned : CapOf(b)' = CapOf(b)
<1>1. /\ rec' = rec /\ start_unused' = start_unused /\ mapped' = mapped
      /\ kernel_virtual_size' = kernel_virtual_size
  BY DEF alloc
<1>2. Owned' = Owned
  BY <1>1 DEF Owned, Recycled
<1>3. \A b \in Owned \cup {0} : /\ CapOf(b)' = CapOf(b)
                                /\ b # a => SizeOf(b)' = SizeOf(b)
  BY HeadersKept
<1>4. TypeOK'
  BY <1>1 DEF HeapInv, TypeOK
<1>5. \A b \in Owned \cup {0} : CapOf(b)' = CapOf(b) /\ SizeOf(b)' <= CapOf(b)
  BY <1>3, SegmentFacts
<1>6. /\ (start_unused % BLOCK_SIZE = BLOCK_SIZE - BOOK_SIZE)'
      /\ HeapShape' /\ CapsWhole' /\ KernelFits' /\ NoOverlap'
  BY <1>1, <1>2, <1>5, ShapeKept
<1>7. WordSizes'
  BY <1>1, <1>3 DEF HeapInv, WordSizes, Segments, Owned
<1>8. RecyclerExact'
  <2>1. rec \in [0..REC_BUCKETS - 1 -> StackType]
    BY DEF HeapInv, TypeOK
  <2>2. \A b \in 0..REC_BUCKETS - 1 : \A i \in 1..Len(rec[b].stack) :
           rec[b].stack[i] \in Owned
    BY <2>1, RecycledSlots DEF Owned, Recycled
  <2>3. \A b \in Owned : mem'[CapCell(b)] = CapOf(b)
    BY <1>3 DEF CapOf
  <2> QED
    BY <1>1, <2>2, <2>3 DEF HeapInv, RecyclerExact, CapOf
<1> QED
  BY <1>2, <1>3, <1>4, <1>6, <1>7, <1>8 DEF HeapInv

LEMMA StoreKeeps ==
    ASSUME HeapInv, NEW id \in Segments, NEW k \in Nat, NEW v \in U32,
           4 * k < SizeOf(id), StoreWord(id, k, v)
    PROVE  /\ HeapInv' /\ Owned' = Owned
           /\ \A b \in Owned : CapOf(b)' = CapOf(b)
<1>1. id \in Owned \cup {0}
  BY DEF Segments, Owned
<1>2. /\ id \in Nat /\ id % 4 = 0 /\ CapOf(id) \in Nat /\ CapOf(id) % 8 = 0
      /\ SizeOf(id) \in Nat /\ SizeOf(id) <= CapOf(id)
      /\ SizeOf(id) = mem[id \div 4 + 1] /\ id \div 4 + 1 \in DOMAIN mem
  BY <1>1, SegmentFacts
<1> DEFINE n == id \div 4 + 2 + k
<1>3. Cell(id + 4 * k) = n /\ SizeCell(id) = id \div 4 + 1
  BY <1>2, CellAt
<1>4. n \in id \div 4 + 2 .. (id + CapOf(id) + 8) \div 4 - 1
  BY <1>2
<1>5. mem' = [mem EXCEPT ![n] = v] /\ aborted' = aborted
      /\ UNCHANGED <<alloc, kernel_virtual_size>>
  BY <1>3 DEF StoreWord, set_at
<1>6. mem' \in [0..GB4 \div 4 - 1 -> U32] /\ aborted' \in BOOLEAN
  BY <1>5 DEF HeapInv, TypeOK
<1>7. \A c \in DOMAIN mem : c # n => mem'[c] = mem[c]
  BY <1>5 DEF HeapInv, TypeOK
<1>8. id \div 4 + 1 # n
  BY <1>2
<1>9. SizeOf(id)' = SizeOf(id)
  BY <1>2, <1>3, <1>7, <1>8 DEF SizeOf
<1>10. SizeOf(id) % 4 = 0
  BY DEF HeapInv, WordSizes
<1>11. \A c \in DOMAIN mem :
          c \notin id \div 4 + 1 .. (id + CapOf(id) + 8) \div 4 - 1 => mem'[c] = mem[c]
  BY <1>2, <1>4, <1>7
<1> QED
  BY <1>1, <1>2, <1>5, <1>6, <1>9, <1>10, <1>11, WriteKeeps

\* A load that fits rewrites the size of segment 0 and copies the words of the
\* other segment, which none of these writes touches.
LEMMA LoadFacts ==
    ASSUME HeapInv, NEW id \in mapped, SizeOf(id) <= kernel_virtual_size,
           mem' = kern_memcpy(kern_realloc(mem, SizeOf(id)), id, SizeOf(id))
    PROVE  LET size == SizeOf(id)
           IN  /\ DOMAIN mem' = DOMAIN mem
               /\ \A c \in 2..size \div 4 + 1 : id \div 4 + c \in DOMAIN mem
               /\ 2..size \div 4 + 1 \subseteq 2..(CapOf(0) + 8) \div 4 - 1
               /\ \A c \in DOMAIN mem :
                     mem'[c] = IF c \in 2..size \div 4 + 1 THEN mem[id \div 4 + c]
                               ELSE IF c = 1 THEN size ELSE mem[c]
<1> DEFINE size == SizeOf(id)
<1>1. id \in Owned /\ 0 \in Owned \cup {0}
  BY DEF Owned
<1>2. /\ id \in Nat /\ id % 4 = 0 /\ CapOf(id) \in Nat /\ id + CapOf(id) + 8 <= GB4
      /\ size \in Nat /\ size <= CapOf(id) /\ KERN_SIZE + 8 <= id /\ KERN_SIZE \in Nat
  <2>1. id # 0
    BY <1>1, Virt32Assumption DEF HeapInv, HeapShape, BOOK_SIZE
  <2> QED
    BY <1>1, <2>1, SegmentFacts, Virt32Assumption
<1>4. CapOf(0) = KERN_SIZE - 8 /\ kernel_virtual_size = CapOf(0) /\ CapOf(0) \in Nat
      /\ CapOf(0) % 8 = 0
  BY <1>1, SegmentFacts DEF HeapInv, KernelFits, TypeOK, BOOK_SIZE
<1>5. size % 4 = 0
  BY DEF HeapInv, WordSizes, Segments
<1>6. mem' = kern_memcpy(kern_realloc(mem, size), id, size) /\ size <= CapOf(0)
  BY <1>4
<1> HIDE DEF size
<1>7. DOMAIN mem = 0..GB4 \div 4 - 1 /\ \A c \in DOMAIN mem : mem[c] \in U32
  BY DEF HeapInv, TypeOK
<1>8. CellsOf(0, size) \subseteq 0 \div 4 + 2 .. (0 + CapOf(0) + 8) \div 4 - 1
  BY <1>1, <1>2, <1>4, <1>6, CellsInside
<1>9. /\ Cell(0) = 2 /\ Cell(id) = id \div 4 + 2 /\ CapCell(0) = 0
      /\ CellsOf(0, size) = 2..size \div 4 + 1
  BY <1>2, <1>5 DEF Cell, CapCell, CellsOf, BOOK_SIZE
<1>10. mem[0] = kernel_virtual_size
  BY <1>4, <1>9 DEF CapOf
<1> DEFINE m == kern_realloc(mem, size)
<1>11. /\ DOMAIN m = DOMAIN mem
       /\ \A c \in DOMAIN mem : m[c] = IF c = 1 THEN size ELSE mem[c]
  BY <1>7, <1>10 DEF kern_realloc
<1>12. mem' = [c \in DOMAIN mem |-> IF c \in CellsOf(0, size)
                                    THEN m[id \div 4 + c] ELSE m[c]]
  BY <1>2, <1>6, <1>9, <1>11 DEF kern_memcpy, memcpy
<1> HIDE DEF m
<1>13. \A c \in 2..size \div 4 + 1 : id \div 4 + c \in DOMAIN mem /\ id \div 4 + c # 1
  <2> DEFINE w == GB4 \div 4
  <2>1. w \in Nat /\ 4 * w = GB4
    BY Virt32Assumption DEF BLOCK_SIZE
  <2> HIDE DEF w
  <2>2. DOMAIN mem = 0..w - 1
    BY <1>7 DEF w
  <2>3. \A c \in 2..size \div 4 + 1 : id \div 4 + c \in 0..w - 1 /\ id \div 4 + c # 1
    BY <1>2, <1>5, <2>1
  <2> QED
    BY <2>2, <2>3
<1>14. 2..size \div 4 + 1 \subseteq 2..(CapOf(0) + 8) \div 4 - 1
  BY <1>2, <1>4, <1>6
<1>15. \A c \in DOMAIN mem :
          mem'[c] = IF c \in 2..size \div 4 + 1 THEN mem[id \div 4 + c]
                    ELSE IF c = 1 THEN size ELSE mem[c]
  BY <1>9, <1>11, <1>12, <1>13
<1> QED
  BY <1>12, <1>13, <1>14, <1>15 DEF size

LEMMA LoadKeeps ==
    ASSUME HeapInv, NEW id \in mapped, LoadSegment(id)
    PROVE  /\ HeapInv' /\ Owned' = Owned
           /\ \A b \in Owned : CapOf(b)' = CapOf(b)
<1> DEFINE size == SizeOf(id)
<1>1. id \in Owned /\ 0 \in Owned \cup {0}
  BY DEF Owned
<1>2. /\ id \in Nat /\ id % 4 = 0 /\ CapOf(id) \in Nat /\ id + CapOf(id) + 8 <= GB4
      /\ size \in Nat /\ size <= CapOf(id)
  BY <1>1, SegmentFacts
<1>3. UNCHANGED <<alloc, kernel_virtual_size>>
  BY DEF LoadSegment
<1>4. CapOf(0) = KERN_SIZE - 8 /\ kernel_virtual_size = CapOf(0) /\ CapOf(0) \in Nat
      /\ SizeOf(0) <= CapOf(0) /\ CapOf(0) % 8 = 0
  BY <1>1, SegmentFacts DEF HeapInv, KernelFits, TypeOK, BOOK_SIZE
<1>5. size % 4 = 0 /\ SizeOf(0) % 4 = 0
  BY DEF HeapInv, WordSizes, Segments
<1>6. CASE mem' = mem
  <2>1. SizeOf(0)' = SizeOf(0)
    BY <1>6 DEF SizeOf
  <2>2. mem' \in [0..GB4 \div 4 - 1 -> U32] /\ aborted' \in BOOLEAN
    BY <1>6 DEF HeapInv, TypeOK, LoadSegment
  <2> QED
    BY <1>1, <1>3, <1>4, <1>5, <1>6, <2>1, <2>2, WriteKeeps
<1>7. CASE /\ kernel_virtual_size >= size
           /\ mem' = kern_memcpy(kern_realloc(mem, size), id, size)
           /\ aborted' = aborted
  <2> DEFINE copied == 2..size \div 4 + 1
  <2>1. DOMAIN mem = 0..GB4 \div 4 - 1 /\ \A c \in DOMAIN mem : mem[c] \in U32
    BY DEF HeapInv, TypeOK
  <2>2. /\ DOMAIN mem' = DOMAIN mem
        /\ \A c \in copied : id \div 4 + c \in DOMAIN mem
        /\ copied \subseteq 2..(CapOf(0) + 8) \div 4 - 1
        /\ \A c \in DOMAIN mem : mem'[c] = IF c \in copied THEN mem[id \div 4 + c]
                                          ELSE IF c = 1 THEN size ELSE mem[c]
    <3>1. SizeOf(id) <= kernel_virtual_size
      BY <1>2, <1>4, <1>7
    <3> QED
      BY <1>7, <3>1, LoadFacts
  <2>3. 1 \notin copied
    BY <1>2
  <2> HIDE DEF copied
  <2>4. size \in U32
    BY <1>2, <1>4, <1>7, Virt32Assumption DEF U32, BOOK_SIZE
  <2>5. mem' = [c \in DOMAIN mem |-> mem'[c]]
    BY <1>7 DEF kern_memcpy, memcpy, kern_realloc
  <2>9. mem' \in [0..GB4 \div 4 - 1 -> U32]
    BY <2>1, <2>2, <2>4, <2>5
  <2>11. SizeOf(0)' = size
    <3>1. 1 \in DOMAIN mem /\ SizeCell(0) = 1
      <4>1. 0 \div 4 + 1 \in DOMAIN mem
        BY <1>1, SegmentFacts
      <4> QED
        BY <4>1, CellAt
    <3> QED
      BY <2>2, <2>3, <3>1 DEF SizeOf
  <2>12. \A c \in DOMAIN mem :
            c \notin 0 \div 4 + 1 .. (0 + CapOf(0) + 8) \div 4 - 1 => mem'[c] = mem[c]
    <3> SUFFICES ASSUME NEW c \in DOMAIN mem,
                        c \notin 0 \div 4 + 1 .. (0 + CapOf(0) + 8) \div 4 - 1
                 PROVE  mem'[c] = mem[c]
      OBVIOUS
    <3>0. KERN_SIZE \in Nat /\ KERN_SIZE >= 24
      BY Virt32Assumption DEF BLOCK_SIZE, BOOK_SIZE
    <3>1. 1 \in 0 \div 4 + 1 .. (0 + CapOf(0) + 8) \div 4 - 1
      BY <1>4, <3>0
    <3>2. c \notin copied
      <4> SUFFICES ASSUME c \in copied PROVE FALSE
        OBVIOUS
      <4>1. c \in 2..(CapOf(0) + 8) \div 4 - 1
        BY <2>2
      <4>2. c \in 0 \div 4 + 1 .. (0 + CapOf(0) + 8) \div 4 - 1
        BY <1>4, <4>1
      <4> QED
        BY <4>2
    <3> QED
      BY <2>2, <3>1, <3>2
  <2>13. aborted' \in BOOLEAN
    BY <1>7 DEF HeapInv, TypeOK
  <2> QED
    BY <1>1, <1>3, <1>4, <1>5, <1>7, <2>9, <2>11, <2>12, <2>13, WriteKeeps
<1> QED
  BY <1>6, <1>7 DEF LoadSegment

-----------------------------------------------------------------------------
\* The theorems.

LEMMA InitHeapInv == ASSUME Init PROVE HeapInv
<1> DEFINE w == GB4 \div 4
<1>0. GB4 \in Nat /\ KERN_SIZE \in Nat /\ KERN_SIZE + 8 <= GB4 /\ KERN_SIZE >= 8
  BY Virt32Assumption DEF BLOCK_SIZE, BOOK_SIZE
<1>1. w \in Nat /\ 4 * w = GB4 /\ w >= 2
  BY Virt32Assumption DEF BLOCK_SIZE, BOOK_SIZE
<1> HIDE DEF w
<1>2. PICK p \in Program :
         mem = [c \in 0..w - 1 |-> CASE c = 0 -> KERN_SIZE - BOOK_SIZE
                                     [] c = 1 -> 4 * Len(p) + Spare
                                     [] c \in 2..Len(p) + 1 -> p[c - 1]
                                     [] OTHER -> 0]
  BY DEF Init, w
<1>3. p \in Seq(Value) /\ Len(p) \in Nat /\ Spare \in Nat /\ 4 * Len(p) + Spare <= KERN_SIZE - BOOK_SIZE
  BY Virt32Assumption
<1>4. \A i \in 1..Len(p) : p[i] \in U32
  BY <1>3, Virt32Assumption
<1>5. mem \in [0..w - 1 -> U32]
  <2>1. ASSUME NEW c \in 0..w - 1 PROVE mem[c] \in U32
    <3>1. CASE c = 0
      <4>1. mem[c] = KERN_SIZE - BOOK_SIZE
        BY <1>2, <3>1
      <4>2. KERN_SIZE - BOOK_SIZE \in U32
        BY <1>0 DEF U32, BOOK_SIZE
      <4> QED
        BY <4>1, <4>2
    <3>2. CASE c = 1
      BY <1>2, <1>3, <3>2, Virt32Assumption DEF U32, BOOK_SIZE
    <3>3. CASE c \in 2..Len(p) + 1
      <4>1. c - 1 \in 1..Len(p) /\ c # 0 /\ c # 1
        BY <1>3, <3>3
      <4>2. mem[c] = p[c - 1]
        BY <1>2, <3>3, <4>1
      <4> QED
        BY <1>4, <4>1, <4>2
    <3>4. CASE c # 0 /\ c # 1 /\ c \notin 2..Len(p) + 1
      BY <1>2, <3>4, Virt32Assumption DEF U32, BOOK_SIZE
    <3> QED
      BY <3>1, <3>2, <3>3, <3>4
  <2> QED
    BY <1>2, <2>1
<1>6. mem[0] = KERN_SIZE - BOOK_SIZE /\ mem[1] = 4 * Len(p) + Spare
  BY <1>1, <1>2
<1>7. /\ rec = [b \in 0..REC_BUCKETS - 1 |-> EmptyStack]
      /\ start_unused = KERN_SIZE /\ mapped = {} /\ aborted = FALSE
      /\ kernel_virtual_size = KERN_SIZE - BOOK_SIZE
  BY DEF Init
<1>8. EmptyStack \in StackType /\ Len(EmptyStack.stack) = 0
  BY Virt32Assumption, EmptySeq DEF EmptyStack, StackType
<1>9. rec \in [0..REC_BUCKETS - 1 -> StackType]
  BY <1>7, <1>8
<1>10. \A b \in 0..REC_BUCKETS - 1 : Len(rec[b].stack) = 0
  <2>1. \A b \in 0..REC_BUCKETS - 1 : rec[b] = EmptyStack
    BY <1>7
  <2> QED
    BY <1>8, <2>1
<1>11. Recycled = {}
  <2>1. \A x : x \in Recycled <=> \E b \in 0..REC_BUCKETS - 1 :
                                   \E i \in 1..Len(rec[b].stack) : x = rec[b].stack[i]
    BY <1>9, RecycledSlots DEF Recycled
  <2> QED
    BY <1>10, <2>1
<1>12. Owned = {}
  BY <1>7, <1>11 DEF Owned
<1>13. TypeOK
  <2>1. mem \in [0..GB4 \div 4 - 1 -> U32]
    BY <1>5 DEF w
  <2>2. start_unused \in KERN_SIZE..GB4 - BOOK_SIZE
    BY <1>7, Virt32Assumption DEF BOOK_SIZE
  <2> QED
    BY <1>7, <1>9, <2>1, <2>2 DEF TypeOK
<1>14. CapCell(0) = 0 /\ SizeCell(0) = 1
  BY CellAt
<1>15. CapOf(0) = KERN_SIZE - BOOK_SIZE /\ SizeOf(0) = 4 * Len(p) + Spare
  BY <1>6, <1>14 DEF CapOf, SizeOf
<1>16. KernelFits
  BY <1>3, <1>15 DEF KernelFits
<1>17. (4 * Len(p) + Spare) % 4 = 0
  <2>1. CASE Spare = 0
    BY <1>3, <2>1
  <2>2. CASE Spare = 4
    BY <1>3, <2>2
  <2> QED
    BY <2>1, <2>2, Virt32Assumption
<1>18. WordSizes
  BY <1>7, <1>15, <1>17 DEF WordSizes, Segments
<1>19. NoOverlap
  BY <1>12 DEF NoOverlap
<1>20. RecyclerExact
  BY <1>10 DEF RecyclerExact
<1>21. HeapShape /\ CapsWhole
  BY <1>12 DEF HeapShape, CapsWhole
<1>22. start_unused % BLOCK_SIZE = BLOCK_SIZE - BOOK_SIZE
  BY <1>7, Virt32Assumption
<1> QED
  BY <1>13, <1>16, <1>18, <1>19, <1>20, <1>21, <1>22 DEF HeapInv

\* A request that Next makes does not wrap, and vs_calloc serves it.
LEMMA MapCases ==
    ASSUME NEW words \in Request,
           Requested(words) /\ FitsHeap(4 * words) /\ MapSegment(words)
    PROVE  /\ words \in Nat
           /\ 4 * words \in Nat /\ (4 * words) % 4 = 0 /\ 4 * words < MAX_ALLOC
           /\ Recycle(4 * words) \/ Carve(4 * words)
           /\ UNCHANGED <<kernel_virtual_size, aborted>>
<1>1. words \in Nat
  BY Virt32Assumption
<1>2. 4 * words \in Nat /\ (4 * words) % 4 = 0 /\ 4 * words < MAX_ALLOC
  BY <1>1 DEF Requested
<1>3. 4 * words \in U32
  BY <1>2, Virt32Assumption DEF U32, BOOK_SIZE
<1>4. vs_calloc(4 * words)
  BY <1>3, WrapFits DEF MapSegment
<1> QED
  BY <1>1, <1>2, <1>4 DEF vs_calloc

\* What a step of Next may be, with the preconditions its operation needs.
LEMMA StepCases ==
    ASSUME HeapInv, Next
    PROVE  \/ \E size \in Nat : /\ size % 4 = 0 /\ size < MAX_ALLOC /\ FitsHeap(size)
                                /\ Recycle(size) \/ Carve(size)
                                /\ UNCHANGED <<kernel_virtual_size, aborted>>
           \/ \E id \in mapped : vs_free(id)
           \/ \E id \in Segments, k \in Nat, v \in U32 :
                 4 * k < SizeOf(id) /\ StoreWord(id, k, v)
           \/ \E id \in mapped : LoadSegment(id)
<1>1. ASSUME NEW words \in Request,
             Requested(words) /\ FitsHeap(4 * words) /\ MapSegment(words)
      PROVE  \E size \in Nat : /\ size % 4 = 0 /\ size < MAX_ALLOC /\ FitsHeap(size)
                               /\ Recycle(size) \/ Carve(size)
                               /\ UNCHANGED <<kernel_virtual_size, aborted>>
  BY <1>1, MapCases
<1>2. CASE Access
  BY <1>2, Virt32Assumption DEF Access, UnmapSegment
<1> QED
  BY <1>1, <1>2 DEF Next

LEMMA NextKeeps ==
    ASSUME HeapInv, Next
    PROVE  HeapInv' /\ \A a \in Owned : a \in Owned' /\ CapOf(a)' = CapOf(a)
<1>1. CASE \E size \in Nat : /\ size % 4 = 0 /\ size < MAX_ALLOC /\ FitsHeap(size)
                             /\ Recycle(size) \/ Carve(size)
                             /\ UNCHANGED <<kernel_virtual_size, aborted>>
  BY <1>1, RecycleKeeps, CarveKeeps
<1>2. CASE \E id \in mapped : vs_free(id)
  BY <1>2, FreeKeeps
<1>3. CASE \E id \in Segments, k \in Nat, v \in U32 :
              4 * k < SizeOf(id) /\ StoreWord(id, k, v)
  BY <1>3, StoreKeeps
<1>4. CASE \E id \in mapped : LoadSegment(id)
  BY <1>4, LoadKeeps
<1> QED
  BY <1>1, <1>2, <1>3, <1>4, StepCases

LEMMA StutterKeeps ==
    ASSUME HeapInv, UNCHANGED vars
    PROVE  HeapInv' /\ \A a \in Owned : a \in Owned' /\ CapOf(a)' = CapOf(a)
<1> USE DEF vars
<1>1. Owned' = Owned /\ Segments' = Segments /\ \A a : CapOf(a)' = CapOf(a)
  BY DEF Owned, Recycled, CapOf, Segments
<1>2. \A a : SizeOf(a)' = SizeOf(a)
  BY DEF SizeOf
<1>3. TypeOK' /\ (start_unused % BLOCK_SIZE = BLOCK_SIZE - BOOK_SIZE)'
  BY DEF HeapInv, TypeOK
<1>4. HeapShape' /\ CapsWhole' /\ KernelFits' /\ WordSizes' /\ NoOverlap'
  BY <1>1, <1>2 DEF HeapInv, HeapShape, CapsWhole, KernelFits, WordSizes, NoOverlap
<1>5. RecyclerExact'
  BY <1>1 DEF HeapInv, RecyclerExact
<1> QED
  BY <1>1, <1>3, <1>4, <1>5 DEF HeapInv

\* HeapInv holds in every state of the allocator, whatever program uses it.
THEOREM HeapInvariant == Spec => []HeapInv
<1>1. Init => HeapInv
  BY InitHeapInv
<1>2. HeapInv /\ [Next]_vars => HeapInv'
  BY NextKeeps, StutterKeeps
<1> QED
  BY <1>1, <1>2, PTL DEF Spec

\* The state of the allocator keeps its type.
THEOREM TypeCorrect == Spec => []TypeOK
<1>1. HeapInv => TypeOK
  BY DEF HeapInv
<1> QED
  BY <1>1, HeapInvariant, PTL

\* Every carved segment lies aligned in the heap and holds what was asked for.
THEOREM ShapeCorrect == Spec => []HeapShape
<1>1. HeapInv => HeapShape
  BY DEF HeapInv
<1> QED
  BY <1>1, HeapInvariant, PTL

\* No two segments share a byte, and none shares one with segment 0.
THEOREM OverlapFree == Spec => []NoOverlap
<1>1. HeapInv => NoOverlap
  BY DEF HeapInv
<1> QED
  BY <1>1, HeapInvariant, PTL

\* The recycler holds each freed segment once, where it will be looked for.
THEOREM RecyclerCorrect == Spec => []RecyclerExact
<1>1. HeapInv => RecyclerExact
  BY DEF HeapInv
<1> QED
  BY <1>1, HeapInvariant, PTL

\* A segment once carved keeps its capacity, and is never forgotten.
THEOREM CapacityStable == Spec => CapacityIsForEver
<1>1. HeapInv /\ [Next]_vars
      => [\A a \in Owned : a \in Owned' /\ CapOf(a)' = CapOf(a)]_vars
  BY NextKeeps, StutterKeeps
<1> QED
  BY <1>1, HeapInvariant, PTL DEF Spec, CapacityIsForEver

-----------------------------------------------------------------------------
\* Two invariants that HeapInv makes inductive.

\* A carved byte stays within a segment, because segments are never forgotten
\* and a carved one begins where the carved part ended.
LEMMA CoverKept ==
    ASSUME HeapInv, NothingLost, Next
    PROVE  NothingLost'
<1>1. ASSUME start_unused' = start_unused
      PROVE  NothingLost'
  BY <1>1, NextKeeps DEF NothingLost
<1>2. CASE \E size \in Nat : /\ size % 4 = 0 /\ size < MAX_ALLOC /\ FitsHeap(size)
                             /\ Recycle(size) \/ Carve(size)
                             /\ UNCHANGED <<kernel_virtual_size, aborted>>
  <2>1. PICK size \in Nat : /\ size % 4 = 0 /\ size < MAX_ALLOC /\ FitsHeap(size)
                            /\ Recycle(size) \/ Carve(size)
    BY <1>2
  <2>2. CASE Recycle(size)
    BY <1>1, <2>2 DEF Recycle
  <2>3. CASE Carve(size)
    <3>1. PICK u \in Nat :
            /\ u = start_unused + 8 /\ start_unused' = u + user_cap(size)
            /\ Owned' = Owned \cup {u} /\ CapOf(u)' = user_cap(size)
            /\ \A b \in Owned \cup {0} : CapOf(b)' = CapOf(b)
      BY <2>1, <2>3, CarveFacts
    <3>2. PICK cap \in Nat : cap = user_cap(size)
      BY <2>1, SizeClass
    <3>3. start_unused \in Nat /\ KERN_SIZE \in Nat
      BY Virt32Assumption DEF HeapInv, TypeOK
    <3>4. SUFFICES ASSUME NEW x \in KERN_SIZE..start_unused' - 1
                   PROVE  \E a \in Owned' : a - BOOK_SIZE <= x /\ x < a + CapOf(a)'
      BY DEF NothingLost
    <3>5. x \in Int /\ start_unused' = u + cap /\ CapOf(u)' = cap
      BY <3>1, <3>2, <3>3
    <3>6. CASE x < start_unused
      <4>1. PICK a \in Owned : a - BOOK_SIZE <= x /\ x < a + CapOf(a)
        BY <3>3, <3>5, <3>6 DEF NothingLost
      <4> QED
        BY <3>1, <4>1
    <3>7. CASE ~(x < start_unused)
      <4>1. u - BOOK_SIZE <= x /\ x < u + CapOf(u)'
        BY <3>1, <3>3, <3>4, <3>5, <3>7 DEF BOOK_SIZE
      <4> QED
        BY <3>1, <4>1
    <3> QED
      BY <3>6, <3>7
  <2> QED
    BY <2>1, <2>2, <2>3
<1>3. CASE \E id \in mapped : vs_free(id)
  BY <1>1, <1>3 DEF vs_free
<1>4. CASE \E id \in Segments, k \in Nat, v \in U32 :
              4 * k < SizeOf(id) /\ StoreWord(id, k, v)
  BY <1>1, <1>4 DEF StoreWord, alloc
<1>5. CASE \E id \in mapped : LoadSegment(id)
  BY <1>1, <1>5 DEF LoadSegment, alloc
<1> QED
  BY <1>2, <1>3, <1>4, <1>5, StepCases

\* Every carved byte belongs to a segment that is live or waits in the recycler.
THEOREM NoByteLost == Spec => []NothingLost
<1>1. Init => NothingLost
  <2> SUFFICES ASSUME Init PROVE NothingLost
    OBVIOUS
  <2>1. start_unused = KERN_SIZE
    BY DEF Init
  <2> QED
    BY <2>1, Virt32Assumption DEF NothingLost
<1>2. HeapInv /\ NothingLost /\ UNCHANGED vars => NothingLost'
  BY StutterKeeps DEF NothingLost, vars
<1>3. HeapInv /\ NothingLost /\ [Next]_vars => NothingLost'
  BY <1>2, CoverKept
<1> QED
  BY <1>1, <1>3, HeapInvariant, PTL DEF Spec

\* stack_push doubles a full buffer before it writes.
LEMMA PushFits ==
    ASSUME NEW s \in StackType, NEW e \in U32, Len(s.stack) <= s.capacity
    PROVE  Len(stack_push(s, e).stack) <= stack_push(s, e).capacity
<1>1. s.capacity \in Nat \ {0} /\ Len(s.stack) \in Nat
  BY PushStack DEF StackType
<1>2. stack_push(s, e).capacity
        = IF Len(s.stack) = s.capacity THEN 2 * s.capacity ELSE s.capacity
  BY DEF stack_push
<1>3. Len(stack_push(s, e).stack) = Len(s.stack) + 1
  BY PushStack
<1> QED
  BY <1>1, <1>2, <1>3

LEMMA StacksKept ==
    ASSUME HeapInv, StacksFit, Next
    PROVE  StacksFit'
<1>0. /\ rec \in [0..REC_BUCKETS - 1 -> StackType] /\ DOMAIN rec = 0..REC_BUCKETS - 1
      /\ \A b \in 0..REC_BUCKETS - 1 : Len(rec[b].stack) <= rec[b].capacity
  BY DEF HeapInv, TypeOK, StacksFit
<1>1. ASSUME rec' = rec
      PROVE  StacksFit'
  BY <1>1 DEF StacksFit
<1>2. ASSUME NEW k \in 0..REC_BUCKETS - 1, NEW s,
             rec' = [rec EXCEPT ![k] = s], Len(s.stack) <= s.capacity
      PROVE  StacksFit'
  BY <1>0, <1>2 DEF StacksFit
<1>3. ASSUME NEW size \in Nat, size < MAX_ALLOC, rec' = rec_after_find(size)
      PROVE  StacksFit'
  <2>1. PICK k \in 0..REC_BUCKETS - 1 : k = get_idx_from_alloc_size(size)
    BY <1>3, SizeClass
  <2>2. CASE stack_is_empty(rec[k])
    BY <1>1, <1>3, <2>1, <2>2 DEF rec_after_find
  <2>3. CASE ~stack_is_empty(rec[k])
    <3>1. rec' = [rec EXCEPT ![k] = stack_pop(rec[k])]
      BY <1>3, <2>1, <2>3 DEF rec_after_find
    <3>2. rec[k] \in StackType /\ rec[k].capacity \in Nat
      BY <1>0 DEF StackType
    <3>3. Len(stack_pop(rec[k]).stack) <= stack_pop(rec[k]).capacity
      BY <1>0, <2>3, <3>2, PopStack
    <3> QED
      BY <1>2, <3>1, <3>3
  <2> QED
    BY <2>2, <2>3
<1>4. CASE \E size \in Nat : /\ size % 4 = 0 /\ size < MAX_ALLOC /\ FitsHeap(size)
                             /\ Recycle(size) \/ Carve(size)
                             /\ UNCHANGED <<kernel_virtual_size, aborted>>
  BY <1>3, <1>4 DEF Recycle, Carve
<1>5. CASE \E id \in mapped : vs_free(id)
  <2>1. PICK id \in mapped : vs_free(id)
    BY <1>5
  <2>2. id \in Owned /\ id \in U32
    BY OwnedTypes DEF Owned, HeapInv
  <2>3. CapOf(id) \in Nat /\ CapOf(id) % BLOCK_SIZE = BLOCK_SIZE - BOOK_SIZE
        /\ CapOf(id) <= MAX_ALLOC
    BY <2>2, SegmentFacts DEF HeapInv, CapsWhole
  <2>4. PICK k \in 0..REC_BUCKETS - 1 : CapOf(id) = (k + 1) * BLOCK_SIZE - BOOK_SIZE
    BY <2>3, CapHasBucket
  <2>5. bucket_of_cap(mem[CapCell(id)]) = k
    BY <2>4, BucketOfCap DEF CapOf
  <2>6. rec' = [rec EXCEPT ![k] = stack_push(rec[k], id)]
    BY <2>1, <2>5 DEF vs_free
  <2>7. Len(stack_push(rec[k], id).stack) <= stack_push(rec[k], id).capacity
    BY <1>0, <2>2, PushFits
  <2> QED
    BY <1>2, <2>6, <2>7
<1>6. CASE \E id \in Segments, k \in Nat, v \in U32 :
              4 * k < SizeOf(id) /\ StoreWord(id, k, v)
  BY <1>1, <1>6 DEF StoreWord, alloc
<1>7. CASE \E id \in mapped : LoadSegment(id)
  BY <1>1, <1>7 DEF LoadSegment, alloc
<1> QED
  BY <1>4, <1>5, <1>6, <1>7, StepCases

\* No push of the recycler writes past its buffer.
THEOREM PushesInBounds == Spec => []StacksFit
<1>1. Init => StacksFit
  BY Virt32Assumption DEF Init, StacksFit, EmptyStack
<1>2. HeapInv /\ StacksFit /\ [Next]_vars => StacksFit'
  BY StacksKept DEF StacksFit, vars
<1> QED
  BY <1>1, <1>2, HeapInvariant, PTL DEF Spec

-----------------------------------------------------------------------------
\* The size of the heap.

\* The capacity of a segment gives its bucket, and there are finitely many of
\* them.
BucketsBounded ==
    \A b : /\ IsFiniteSet(InBucket(Owned, b))
           /\ LiveIn(b) \in Nat
           /\ LiveIn(b) <= Cardinality(InBucket(Owned, b))

LEMMA OwnedFinite == HeapInv => BucketsBounded
<1> SUFFICES ASSUME HeapInv PROVE BucketsBounded
  OBVIOUS
<1>1. Owned \in SUBSET (0..GB4 - 1)
  BY OwnedTypes DEF HeapInv, U32
<1>2. IsFiniteSet(0..GB4 - 1)
  <2>1. 0 \in Int /\ GB4 - 1 \in Int
    BY Virt32Assumption
  <2> QED
    BY <2>1, FS_Interval
<1>3. IsFiniteSet(Owned)
  BY <1>1, <1>2, FS_Subset
<1>4. mapped \in SUBSET Owned
  BY DEF Owned
<1>5. ASSUME NEW b
      PROVE  /\ IsFiniteSet(InBucket(Owned, b))
             /\ LiveIn(b) \in Nat
             /\ LiveIn(b) <= Cardinality(InBucket(Owned, b))
  <2>1. /\ InBucket(Owned, b) \in SUBSET Owned
        /\ InBucket(mapped, b) \in SUBSET InBucket(Owned, b)
    BY <1>4 DEF InBucket
  <2>2. IsFiniteSet(InBucket(Owned, b))
    BY <1>3, <2>1, FS_Subset
  <2>3. /\ IsFiniteSet(InBucket(mapped, b))
        /\ Cardinality(InBucket(mapped, b)) <= Cardinality(InBucket(Owned, b))
    BY <2>1, <2>2, FS_Subset
  <2> QED
    BY <2>2, <2>3, FS_CardinalityType DEF LiveIn
<1> QED
  BY <1>5 DEF BucketsBounded

\* When nothing of a bucket waits to be recycled, all of it is in use.
LEMMA EmptyBucketInUse ==
    ASSUME HeapInv, NEW k \in 0..REC_BUCKETS - 1, stack_is_empty(rec[k])
    PROVE  InBucket(Owned, k) = InBucket(mapped, k)
<1>1. rec \in [0..REC_BUCKETS - 1 -> StackType]
  BY DEF HeapInv, TypeOK
<1>0. \A x : x \in SlotsOf(rec) <=> \E b \in 0..REC_BUCKETS - 1 :
                                     \E i \in 1..Len(rec[b].stack) : x = rec[b].stack[i]
  BY <1>1, RecycledSlots
<1>2. ASSUME NEW a \in Recycled
      PROVE  bucket_of_cap(CapOf(a)) # k
  <2>0. a \in SlotsOf(rec)
    BY DEF Recycled
  <2>1. PICK b \in 0..REC_BUCKETS - 1 : \E i \in 1..Len(rec[b].stack) : a = rec[b].stack[i]
    BY <1>0, <2>0
  <2>2. b # k
    <3>1. Len(rec[k].stack) = 0
      BY DEF stack_is_empty
    <3> QED
      BY <2>1, <3>1
  <2>3. CapOf(a) = (b + 1) * BLOCK_SIZE - BOOK_SIZE
    BY <2>1 DEF HeapInv, RecyclerExact
  <2>4. bucket_of_cap(CapOf(a)) = b
    BY <2>3, BucketOfCap
  <2> QED
    BY <2>2, <2>4
<1> QED
  BY <1>2 DEF InBucket, Owned

\* What a step does to one bucket: it owns what it owned, or it gains a segment
\* that is in use, as all the others of that bucket are.
BucketStep(b) ==
    \/ InBucket(Owned, b)' = InBucket(Owned, b)
    \/ /\ InBucket(Owned, b)' = InBucket(mapped, b)'
       /\ \E u : u \notin InBucket(Owned, b) /\ InBucket(Owned, b)' = InBucket(Owned, b) \cup {u}

LEMMA SameOwned ==
    ASSUME Owned' = Owned, \A a \in Owned : CapOf(a)' = CapOf(a), NEW b
    PROVE  BucketStep(b)
BY DEF BucketStep, InBucket

\* A carved segment joins a bucket whose segments are all in use.
LEMMA CarveBucket ==
    ASSUME HeapInv, NEW size \in Nat, size % 4 = 0, size < MAX_ALLOC, FitsHeap(size),
           Carve(size), NEW b \in 0..REC_BUCKETS - 1
    PROVE  BucketStep(b)
<1>1. PICK u \in Nat :
        /\ rec' = rec /\ mapped' = mapped \cup {u}
        /\ u \notin Owned \cup {0} /\ Owned' = Owned \cup {u}
        /\ CapOf(u)' = user_cap(size)
        /\ \A a \in Owned \cup {0} : CapOf(a)' = CapOf(a)
  BY CarveFacts
<1>2. PICK k \in 0..REC_BUCKETS - 1 : k = get_idx_from_alloc_size(size)
                                     /\ user_cap(size) = (k + 1) * BLOCK_SIZE - BOOK_SIZE
  BY SizeClass
<1>3. bucket_of_cap(CapOf(u)') = k
  BY <1>1, <1>2, BucketOfCap
<1>4. stack_is_empty(rec[k])
  BY <1>2, FindFreed DEF Carve
<1>5. InBucket(Owned, b)' = {a \in Owned \cup {u} : bucket_of_cap(CapOf(a)') = b}
      /\ InBucket(mapped, b)' = {a \in mapped \cup {u} : bucket_of_cap(CapOf(a)') = b}
  BY <1>1 DEF InBucket, bucket_of_cap, Wrap
<1>6. CASE b # k
  <2>1. InBucket(Owned, b)' = InBucket(Owned, b)
    BY <1>1, <1>3, <1>5, <1>6 DEF InBucket
  <2> QED
    BY <2>1 DEF BucketStep
<1>7. CASE b = k
  <2>1. InBucket(Owned, b)' = InBucket(Owned, b) \cup {u}
    BY <1>1, <1>3, <1>5, <1>7 DEF InBucket
  <2>2. InBucket(mapped, b)' = InBucket(mapped, b) \cup {u}
    <3>1. mapped \subseteq Owned
      BY DEF Owned
    <3> QED
      BY <1>1, <1>3, <1>5, <1>7, <3>1 DEF InBucket
  <2>3. InBucket(Owned, b) = InBucket(mapped, b)
    BY <1>4, <1>7, EmptyBucketInUse
  <2>4. u \notin InBucket(Owned, b)
    BY <1>1 DEF InBucket
  <2> QED
    BY <2>1, <2>2, <2>3, <2>4 DEF BucketStep
<1> QED
  BY <1>6, <1>7

LEMMA NextBucket ==
    ASSUME HeapInv, Next, NEW b \in 0..REC_BUCKETS - 1
    PROVE  BucketStep(b)
<1>1. CASE \E size \in Nat : /\ size % 4 = 0 /\ size < MAX_ALLOC /\ FitsHeap(size)
                             /\ Recycle(size) \/ Carve(size)
                             /\ UNCHANGED <<kernel_virtual_size, aborted>>
  <2>1. PICK size \in Nat : /\ size % 4 = 0 /\ size < MAX_ALLOC /\ FitsHeap(size)
                            /\ Recycle(size) \/ Carve(size)
                            /\ UNCHANGED <<kernel_virtual_size, aborted>>
    BY <1>1
  <2>2. CASE Recycle(size)
    <3>1. Owned' = Owned /\ \A a \in Owned : CapOf(a)' = CapOf(a)
      BY <2>1, <2>2, RecycleKeeps
    <3> QED
      BY <3>1, SameOwned
  <2>3. CASE Carve(size)
    BY <2>1, <2>3, CarveBucket
  <2> QED
    BY <2>1, <2>2, <2>3
<1>2. CASE \/ \E id \in mapped : vs_free(id)
           \/ \E id \in Segments, k \in Nat, v \in U32 :
                 4 * k < SizeOf(id) /\ StoreWord(id, k, v)
           \/ \E id \in mapped : LoadSegment(id)
  <2>1. Owned' = Owned /\ \A a \in Owned : CapOf(a)' = CapOf(a)
    BY <1>2, FreeKeeps, StoreKeeps, LoadKeeps
  <2> QED
    BY <2>1, SameOwned
<1> QED
  BY <1>1, <1>2, StepCases

PeakInv ==
    /\ HeapInv
    /\ peak \in [0..REC_BUCKETS - 1 -> Nat]
    /\ HeapIsPeakDemand

LEMMA PeakStep ==
    ASSUME PeakInv, PeakNext, NEW b \in 0..REC_BUCKETS - 1
    PROVE  peak'[b] \in Nat /\ Cardinality(InBucket(Owned, b)') = peak'[b]
<1>1. HeapInv /\ Next
  BY DEF PeakInv, PeakNext
<1>2. DOMAIN rec = 0..REC_BUCKETS - 1
  BY DEF PeakInv, HeapInv, TypeOK
<1>3. peak'[b] = IF LiveIn(b)' > peak[b] THEN LiveIn(b)' ELSE peak[b]
  BY <1>2 DEF PeakNext
<1>4. peak[b] \in Nat /\ Cardinality(InBucket(Owned, b)) = peak[b]
  BY <1>2 DEF PeakInv, HeapIsPeakDemand
<1>5. BucketStep(b)
  BY <1>1, NextBucket
<1>6. BucketsBounded /\ BucketsBounded'
  <2>1. HeapInv'
    BY <1>1, NextKeeps
  <2> QED
    BY <1>1, <2>1, OwnedFinite, PTL
<1>7. /\ LiveIn(b)' \in Nat /\ LiveIn(b)' <= Cardinality(InBucket(Owned, b)')
      /\ LiveIn(b)' = Cardinality(InBucket(mapped, b)')
  BY <1>6 DEF BucketsBounded, LiveIn
<1>8. CASE InBucket(Owned, b)' = InBucket(Owned, b)
  BY <1>3, <1>4, <1>7, <1>8
<1>9. CASE /\ InBucket(Owned, b)' = InBucket(mapped, b)'
           /\ \E u : u \notin InBucket(Owned, b)
                     /\ InBucket(Owned, b)' = InBucket(Owned, b) \cup {u}
  <2>1. Cardinality(InBucket(Owned, b)') = Cardinality(InBucket(Owned, b)) + 1
    BY <1>6, <1>9, FS_AddElement DEF BucketsBounded
  <2> QED
    BY <1>3, <1>4, <1>7, <1>9, <2>1
<1> QED
  BY <1>5, <1>8, <1>9 DEF BucketStep

\* The heap never holds more segments of a capacity than the program has used
\* at once: one is carved only when none waits in the recycler.
THEOREM HeapMeetsDemand == PeakSpec => []HeapIsPeakDemand
<1>1. PeakInit => PeakInv
  <2> SUFFICES ASSUME PeakInit PROVE PeakInv
    OBVIOUS
  <2>1. HeapInv /\ rec = [b \in 0..REC_BUCKETS - 1 |-> EmptyStack] /\ mapped = {}
    BY InitHeapInv DEF PeakInit, Init
  <2>2. peak = [b \in 0..REC_BUCKETS - 1 |-> 0]
    BY <2>1 DEF PeakInit
  <2>3. Recycled = {}
    BY <2>1 DEF Recycled, SlotsOf, EmptyStack
  <2>4. \A b : InBucket(Owned, b) = {}
    BY <2>1, <2>3 DEF InBucket, Owned
  <2> QED
    BY <2>1, <2>2, <2>4, FS_EmptySet DEF PeakInv, HeapIsPeakDemand
<1>2. PeakInv /\ [PeakNext]_<<vars, peak>> => PeakInv'
  <2> SUFFICES ASSUME PeakInv, [PeakNext]_<<vars, peak>> PROVE PeakInv'
    OBVIOUS
  <2>1. CASE UNCHANGED <<vars, peak>>
    <3>1. HeapInv' /\ Owned' = Owned /\ rec' = rec /\ mem' = mem /\ peak' = peak
      BY <2>1, StutterKeeps DEF PeakInv, vars, alloc, Owned, Recycled
    <3>2. HeapIsPeakDemand'
      BY <3>1 DEF PeakInv, HeapIsPeakDemand, InBucket, CapOf
    <3> QED
      BY <3>1, <3>2 DEF PeakInv
  <2>2. CASE PeakNext
    <3>1. HeapInv'
      BY <2>2, NextKeeps DEF PeakInv, PeakNext
    <3>2. DOMAIN rec = 0..REC_BUCKETS - 1 /\ DOMAIN rec' = 0..REC_BUCKETS - 1
      BY <3>1 DEF PeakInv, HeapInv, TypeOK
    <3>3. \A b \in 0..REC_BUCKETS - 1 :
             peak'[b] \in Nat /\ Cardinality(InBucket(Owned, b)') = peak'[b]
      BY <2>2, PeakStep
    <3>4. peak' \in [0..REC_BUCKETS - 1 -> Nat]
      BY <2>2, <3>2, <3>3 DEF PeakNext
    <3>5. HeapIsPeakDemand'
      BY <3>2, <3>3 DEF HeapIsPeakDemand
    <3> QED
      BY <3>1, <3>4, <3>5 DEF PeakInv
  <2> QED
    BY <2>1, <2>2
<1>3. PeakInv => HeapIsPeakDemand
  BY DEF PeakInv
<1> QED
  BY <1>1, <1>2, <1>3, PTL DEF PeakSpec

-----------------------------------------------------------------------------
\* Refinement: the allocator serves the memory of the UM.

\* vs_calloc does not clear a segment it carves: it relies on the mapping being
\* zero from the carving frontier on, which no write has reached.
Unwritten == \A c \in DOMAIN mem : (start_unused + 8) \div 4 <= c => mem[c] = 0

Memory == [id \in Segments |-> Contents(id)]

\* The words of a segment are cells of the mapping that belong to it.
LEMMA WordCells ==
    ASSUME HeapInv, NEW b \in Owned \cup {0}, NEW i \in 1..SizeOf(b) \div 4
    PROVE  /\ b \div 4 + 1 + i \in DOMAIN mem
           /\ b \div 4 + 1 + i \in b \div 4 + 2..(b + CapOf(b) + 8) \div 4 - 1
<1>1. /\ b \in Nat /\ b % 4 = 0 /\ CapOf(b) \in Nat /\ SizeOf(b) \in Nat
      /\ SizeOf(b) <= CapOf(b) /\ b + CapOf(b) + 8 <= GB4
  BY SegmentFacts
<1>2. b \div 4 + 1 + i \in b \div 4 + 2..(b + CapOf(b) + 8) \div 4 - 1
  BY <1>1
<1> DEFINE w == GB4 \div 4
<1>3. w \in Nat /\ 4 * w = GB4
  BY Virt32Assumption DEF BLOCK_SIZE
<1>4. DOMAIN mem = 0..w - 1
  BY DEF HeapInv, TypeOK
<1> HIDE DEF w
<1>5. b \div 4 + 1 + i \in 0..w - 1
  BY <1>1, <1>3
<1> QED
  BY <1>2, <1>4, <1>5

\* Reading a segment, before and after a step.
LEMMA ReadWords ==
    ASSUME NEW b \in Nat, b % 4 = 0, SizeOf(b) \in Nat
    PROVE  Contents(b) = [i \in 1..SizeOf(b) \div 4 |-> mem[b \div 4 + 1 + i]]
<1>1. \A i \in 1..SizeOf(b) \div 4 : Cell(b + 4 * (i - 1)) = b \div 4 + 1 + i
  BY DEF Cell, BOOK_SIZE
<1> QED
  BY <1>1 DEF Contents, get_at

LEMMA ReadWordsNext ==
    ASSUME NEW b \in Nat, b % 4 = 0, NEW n \in Nat, SizeOf(b)' = n
    PROVE  Contents(b)' = [i \in 1..n \div 4 |-> mem'[b \div 4 + 1 + i]]
<1>1. \A i \in 1..n \div 4 : Cell(b + 4 * (i - 1)) = b \div 4 + 1 + i
  BY DEF Cell, BOOK_SIZE
<1> QED
  BY <1>1 DEF Contents, get_at

\* What a program sees of a segment is what a runtime reads at the segment's
\* address, and no such address wraps.
LEMMA ReadMemory ==
    ASSUME HeapInv, NEW id \in Segments, NEW k \in Nat
    PROVE  /\ Memory[id] \in Seq(U32) /\ 4 * Len(Memory[id]) = SizeOf(id)
           /\ 4 * k < SizeOf(id) <=> k < Len(Memory[id])
           /\ 4 * k < SizeOf(id) => /\ id + 4 * k \in U32
                                    /\ get_at(mem, id + 4 * k) \in U32
                                    /\ Memory[id][k + 1] = get_at(mem, id + 4 * k)
<1>1. id \in Owned \cup {0}
  BY DEF Segments, Owned
<1>2. /\ id \in Nat /\ id % 4 = 0 /\ SizeOf(id) \in Nat /\ SizeOf(id) % 4 = 0
      /\ SizeOf(id) <= CapOf(id) /\ CapOf(id) \in Nat
      /\ id + CapOf(id) + 8 <= GB4 /\ GB4 \in Nat
  BY <1>1, SegmentFacts, Virt32Assumption DEF HeapInv, WordSizes
<1>3. PICK n \in Nat : n = SizeOf(id) \div 4 /\ 4 * n = SizeOf(id)
  BY <1>2
<1>4. Contents(id) = [i \in 1..n |-> mem[id \div 4 + 1 + i]]
  BY <1>2, <1>3, ReadWords
<1>5. \A i \in 1..n : mem[id \div 4 + 1 + i] \in U32
  BY <1>1, <1>3, WordCells DEF HeapInv, TypeOK
<1>6. Contents(id) \in Seq(U32) /\ Len(Contents(id)) = n
  <2>1. Contents(id) \in [1..n -> U32]
    BY <1>4, <1>5
  <2>2. Contents(id) \in Seq(U32)
    BY <2>1, SeqDef
  <2>3. DOMAIN Contents(id) = 1..Len(Contents(id)) /\ Len(Contents(id)) \in Nat
    BY <2>2, LenProperties
  <2> QED
    BY <2>1, <2>2, <2>3
<1>7. ASSUME 4 * k < SizeOf(id)
      PROVE  /\ id + 4 * k \in U32
             /\ get_at(mem, id + 4 * k) \in U32
             /\ Contents(id)[k + 1] = get_at(mem, id + 4 * k)
  <2>1. id + 4 * k \in U32
    BY <1>2, <1>7 DEF U32
  <2>2. Cell(id + 4 * k) = id \div 4 + 2 + k
    BY <1>2, CellAt
  <2>3. k + 1 \in 1..n
    BY <1>3, <1>7
  <2>4. id \div 4 + 1 + (k + 1) = id \div 4 + 2 + k
    BY <1>2
  <2> QED
    BY <1>4, <1>5, <2>1, <2>2, <2>3, <2>4 DEF get_at
<1>8. 4 * k < SizeOf(id) <=> k < n
  BY <1>3
<1> QED
  BY <1>3, <1>6, <1>7, <1>8 DEF Memory

\* A write that stays in one segment changes no other.
LEMMA OthersKept ==
    ASSUME HeapInv, NEW a \in Owned \cup {0},
           \A c \in DOMAIN mem :
              c \notin a \div 4 + 1 .. (a + CapOf(a) + 8) \div 4 - 1 => mem'[c] = mem[c]
    PROVE  \A b \in Owned \cup {0} : b # a => Contents(b)' = Contents(b)
<1> SUFFICES ASSUME NEW b \in Owned \cup {0}, b # a PROVE Contents(b)' = Contents(b)
  OBVIOUS
<1>1. /\ b \in Nat /\ b % 4 = 0 /\ CapOf(b) \in Nat /\ SizeOf(b) \in Nat
      /\ a \in Nat /\ a % 4 = 0 /\ CapOf(a) \in Nat
  BY SegmentFacts
<1>2. SizeOf(b)' = SizeOf(b)
  BY HeadersKept
<1>3. \A i \in 1..SizeOf(b) \div 4 : mem'[b \div 4 + 1 + i] = mem[b \div 4 + 1 + i]
  <2> SUFFICES ASSUME NEW i \in 1..SizeOf(b) \div 4
               PROVE  mem'[b \div 4 + 1 + i] = mem[b \div 4 + 1 + i]
    OBVIOUS
  <2>1. /\ b \div 4 + 1 + i \in DOMAIN mem
        /\ b \div 4 + 1 + i \in b \div 4 + 2..(b + CapOf(b) + 8) \div 4 - 1
    BY WordCells
  <2>2. \/ (a + CapOf(a) + 8) \div 4 <= b \div 4
        \/ (b + CapOf(b) + 8) \div 4 <= a \div 4
    BY CellsApart
  <2>3. b \div 4 + 1 + i \notin a \div 4 + 1 .. (a + CapOf(a) + 8) \div 4 - 1
    BY <1>1, <2>1, <2>2
  <2> QED
    BY <2>1, <2>3
<1>4. Contents(b)' = [i \in 1..SizeOf(b) \div 4 |-> mem'[b \div 4 + 1 + i]]
  BY <1>1, <1>2, ReadWordsNext
<1>5. Contents(b) = [i \in 1..SizeOf(b) \div 4 |-> mem[b \div 4 + 1 + i]]
  BY <1>1, ReadWords
<1> QED
  BY <1>3, <1>4, <1>5

\* Nor does it reach what is not carved yet.
LEMMA UnwrittenKept ==
    ASSUME HeapInv, Unwritten, NEW a \in Owned \cup {0},
           \A c \in DOMAIN mem :
              c \notin a \div 4 + 1 .. (a + CapOf(a) + 8) \div 4 - 1 => mem'[c] = mem[c],
           DOMAIN mem' = DOMAIN mem, start_unused' = start_unused
    PROVE  Unwritten'
<1>1. /\ a \in Nat /\ CapOf(a) \in Nat /\ start_unused \in Nat /\ KERN_SIZE <= start_unused
      /\ a # 0 => a + CapOf(a) <= start_unused
  BY SegmentFacts
<1>2. a + CapOf(a) <= start_unused
  BY <1>1, Virt32Assumption DEF HeapInv, KernelFits, BOOK_SIZE
<1>3. DOMAIN mem \subseteq Int
  BY DEF HeapInv, TypeOK
<1>4. ASSUME NEW c \in DOMAIN mem, (start_unused + 8) \div 4 <= c
      PROVE  mem'[c] = 0
  <2>1. c \notin a \div 4 + 1 .. (a + CapOf(a) + 8) \div 4 - 1
    BY <1>1, <1>2, <1>3, <1>4
  <2> QED
    BY <1>4, <2>1 DEF Unwritten
<1> QED
  BY <1>4 DEF Unwritten

LEMMA InitUnwritten == ASSUME Init PROVE Unwritten
<1>1. PICK p \in Program :
         mem = [c \in 0..GB4 \div 4 - 1 |-> CASE c = 0 -> KERN_SIZE - BOOK_SIZE
                                     [] c = 1 -> 4 * Len(p) + Spare
                                     [] c \in 2..Len(p) + 1 -> p[c - 1]
                                     [] OTHER -> 0]
  BY DEF Init
<1>2. /\ Len(p) \in Nat /\ Spare \in Nat /\ 4 * Len(p) + Spare <= KERN_SIZE - 8
      /\ KERN_SIZE \in Nat /\ KERN_SIZE >= 8 /\ start_unused = KERN_SIZE
  <2>1. p \in Seq(Value) /\ Len(p) \in Nat /\ Spare \in Nat
        /\ 4 * Len(p) + Spare <= KERN_SIZE - 8
    BY Virt32Assumption DEF BOOK_SIZE
  <2>2. KERN_SIZE \in Nat /\ KERN_SIZE >= 8
    BY Virt32Assumption DEF BLOCK_SIZE, BOOK_SIZE
  <2> QED
    BY <2>1, <2>2 DEF Init
<1>3. ASSUME NEW c \in DOMAIN mem, (start_unused + 8) \div 4 <= c
      PROVE  mem[c] = 0
  <2>1. c \in 0..GB4 \div 4 - 1
    BY <1>1
  <2>2. c # 0 /\ c # 1 /\ c \notin 2..Len(p) + 1
    BY <1>2, <1>3, <2>1
  <2> QED
    BY <1>1, <2>1, <2>2
<1> QED
  BY <1>3 DEF Unwritten

\* Segment 0 holds the program, and a zero word where the loader kept one more.
LEMMA InitMemory == ASSUME Init PROVE UM!Init
<1>1. PICK p \in Program :
         mem = [c \in 0..GB4 \div 4 - 1 |-> CASE c = 0 -> KERN_SIZE - BOOK_SIZE
                                     [] c = 1 -> 4 * Len(p) + Spare
                                     [] c \in 2..Len(p) + 1 -> p[c - 1]
                                     [] OTHER -> 0]
  BY DEF Init
<1>2. p \in Seq(Value) /\ Len(p) \in Nat /\ \A i \in 1..Len(p) : p[i] \in Value
  BY Virt32Assumption, ElementOfSeq
<1>3. HeapInv /\ Segments = {0}
  BY InitHeapInv DEF Init, Segments
<1>4. SizeOf(0) \in Nat
  BY <1>3, SegmentFacts
<1>5. Contents(0) = [i \in 1..SizeOf(0) \div 4 |-> mem[1 + i]]
  BY <1>4, ReadWords
<1>6. \A i \in 1..SizeOf(0) \div 4 : mem[1 + i] \in Value \cup {0}
  <2> SUFFICES ASSUME NEW i \in 1..SizeOf(0) \div 4 PROVE mem[1 + i] \in Value \cup {0}
    OBVIOUS
  <2>1. 1 + i \in 0..GB4 \div 4 - 1 /\ 1 + i # 0 /\ 1 + i # 1
    <3>1. 0 \div 4 + 1 + i \in DOMAIN mem
      BY <1>3, WordCells
    <3> QED
      BY <1>1, <3>1
  <2>2. CASE 1 + i \in 2..Len(p) + 1
    <3>1. mem[1 + i] = p[1 + i - 1] /\ 1 + i - 1 \in 1..Len(p)
      BY <1>1, <1>2, <2>1, <2>2
    <3> QED
      BY <1>2, <3>1
  <2>3. CASE 1 + i \notin 2..Len(p) + 1
    BY <1>1, <2>1, <2>3
  <2> QED
    BY <2>2, <2>3
<1>7. Contents(0) \in Seq(Value \cup {0})
  <2>1. PICK n \in Nat : n = SizeOf(0) \div 4
    BY <1>4
  <2>2. Contents(0) \in [1..n -> Value \cup {0}]
    BY <1>5, <1>6, <2>1
  <2> QED
    BY <2>2, SeqDef
<1> QED
  BY <1>3, <1>7 DEF UM!Init

\* What it takes to serve a request as the UM expects.
LEMMA ServeFresh ==
    ASSUME HeapInv, NEW id \in U32, id % 32 = 0, id # 0,
           id \notin mapped, mapped' = mapped \cup {id}, NEW words \in Nat,
           Contents(id)' = [i \in 1..words |-> 0],
           \A b \in Segments : Contents(b)' = Contents(b)
    PROVE  UM!Map(id, words) /\ id \in SegmentId \ {0}
<1>1. Segments' = Segments \cup {id} /\ id \notin Segments
  BY DEF Segments
<1>2. Memory' = [b \in Segments' |-> Contents(b)']
  BY DEF Memory
<1>3. Memory' = [b \in DOMAIN Memory \cup {id} |->
                    IF b = id THEN [i \in 1..words |-> 0] ELSE Memory[b]]
  BY <1>1, <1>2 DEF Memory
<1>4. UM!Map(id, words)
  BY <1>1, <1>3 DEF UM!Map, UM!Zeros, Memory
<1> QED
  BY <1>4 DEF SegmentId, BLOCK_SIZE

LEMMA RecycleMemory ==
    ASSUME HeapInv, Unwritten, NEW words \in Nat, 4 * words < MAX_ALLOC,
           Recycle(4 * words), UNCHANGED <<kernel_virtual_size, aborted>>
    PROVE  /\ Unwritten'
           /\ \E id \in SegmentId \ {0} : id = served(4 * words) /\ UM!Map(id, words)
<1>0. PICK size \in Nat : size = 4 * words /\ size % 4 = 0
  OBVIOUS
<1>1. PICK t \in Owned : LET k == get_idx_from_alloc_size(size)
        IN  /\ k \in 0..REC_BUCKETS - 1 /\ ~stack_is_empty(rec[k])
            /\ t = stack_top(rec[k]) /\ t = find_freed_segment(size)
            /\ mapped' = mapped \cup {t} /\ start_unused' = start_unused
            /\ t \in Nat /\ t % 4 = 0 /\ t \div 4 + 1 \in DOMAIN mem
            /\ size <= CapOf(t) /\ CapOf(t) \in Nat
            /\ CellsOf(t, size) \subseteq t \div 4 + 2 .. (t + CapOf(t) + 8) \div 4 - 1
            /\ mem' = [c \in DOMAIN mem |-> IF c \in CellsOf(t, size) THEN 0
                                            ELSE IF c = t \div 4 + 1 THEN size ELSE mem[c]]
            /\ \A c \in DOMAIN mem :
                  c \notin t \div 4 + 1 .. (t + CapOf(t) + 8) \div 4 - 1 => mem'[c] = mem[c]
  BY <1>0, RecycleFacts
<1>2. t \notin mapped
  <2>1. PICK k \in 0..REC_BUCKETS - 1 : ~stack_is_empty(rec[k]) /\ t = stack_top(rec[k])
    BY <1>1
  <2>2. rec \in [0..REC_BUCKETS - 1 -> StackType]
    BY DEF HeapInv, TypeOK
  <2>3. rec[k] \in StackType
    BY <2>2
  <2>4. Len(rec[k].stack) \in 1..Len(rec[k].stack)
    BY <2>1, <2>3, PopStack
  <2> QED
    BY <2>1, <2>4 DEF HeapInv, RecyclerExact, stack_top
<1>3. t \in U32 /\ t % 32 = 0 /\ t # 0 /\ t \in Owned \cup {0}
  <2>1. KERN_SIZE + 8 <= t /\ t % 32 = 0
    BY DEF HeapInv, HeapShape, BOOK_SIZE, BLOCK_SIZE
  <2>2. t \in U32
    BY OwnedTypes DEF HeapInv
  <2> QED
    BY <1>1, <2>1, <2>2, Virt32Assumption
<1>4. t \div 4 + 1 \notin CellsOf(t, size)
  BY <1>1
<1>5. SizeOf(t)' = size
  <2>1. SizeCell(t) = t \div 4 + 1
    BY <1>1, CellAt
  <2> QED
    BY <1>1, <1>4, <2>1 DEF SizeOf
<1>6. HeapInv' /\ Owned' = Owned
  BY <1>0, RecycleKeeps
<1>7. Contents(t)' = [i \in 1..words |-> 0]
  <2>1. Contents(t)' = [i \in 1..size \div 4 |-> mem'[t \div 4 + 1 + i]]
    BY <1>1, <1>5, ReadWordsNext
  <2>2. size \div 4 = words
    BY <1>0
  <2>3. \A i \in 1..words : mem'[t \div 4 + 1 + i] = 0
    <3> SUFFICES ASSUME NEW i \in 1..words PROVE mem'[t \div 4 + 1 + i] = 0
      OBVIOUS
    <3>1. t \div 4 + 1 + i \in CellsOf(t, size)
      BY <1>0, <1>1 DEF CellsOf, Cell, BOOK_SIZE
    <3>2. t \div 4 + 1 + i \in DOMAIN mem
      <4> DEFINE w == GB4 \div 4
      <4>1. w \in Nat /\ 4 * w = GB4
        BY Virt32Assumption DEF BLOCK_SIZE
      <4>2. DOMAIN mem = 0..w - 1
        BY DEF HeapInv, TypeOK
      <4> HIDE DEF w
      <4>3. t + CapOf(t) + 8 <= GB4
        BY <1>3, SegmentFacts
      <4>4. t \div 4 + 1 + i \in 0..w - 1
        BY <1>0, <1>1, <4>1, <4>3
      <4> QED
        BY <4>2, <4>4
    <3> QED
      BY <1>1, <3>1, <3>2
  <2> QED
    BY <2>1, <2>2, <2>3
<1>8. \A b \in Segments : Contents(b)' = Contents(b)
  <2>1. \A b \in Owned \cup {0} : b # t => Contents(b)' = Contents(b)
    BY <1>1, <1>3, OthersKept
  <2>2. t \notin Segments /\ Segments \subseteq Owned \cup {0}
    BY <1>2, <1>3 DEF Segments, Owned
  <2> QED
    BY <2>1, <2>2
<1>10. UM!Map(t, words) /\ t \in SegmentId \ {0}
  BY <1>1, <1>2, <1>3, <1>7, <1>8, ServeFresh
<1>11. Unwritten'
  <2>1. DOMAIN mem' = DOMAIN mem
    BY <1>1
  <2> QED
    BY <1>1, <1>3, <2>1, UnwrittenKept
<1>12. t = served(4 * words)
  BY <1>0, <1>1 DEF served, Recycle
<1> QED
  BY <1>10, <1>11, <1>12

LEMMA CarveMemory ==
    ASSUME HeapInv, Unwritten, NEW words \in Nat, 4 * words < MAX_ALLOC,
           FitsHeap(4 * words), Carve(4 * words), UNCHANGED <<kernel_virtual_size, aborted>>
    PROVE  /\ Unwritten'
           /\ \E id \in SegmentId \ {0} : id = served(4 * words) /\ UM!Map(id, words)
<1>0. PICK size \in Nat : size = 4 * words /\ size % 4 = 0
  OBVIOUS
<1>1. PICK u \in Nat :
        /\ u = start_unused + 8 /\ u \in U32 /\ u % 32 = 0
        /\ start_unused' = u + user_cap(size)
        /\ start_unused' + 8 <= GB4
        /\ rec' = rec /\ mapped' = mapped \cup {u}
        /\ mem' \in [0..GB4 \div 4 - 1 -> U32]
        /\ \A c \in DOMAIN mem : c \notin {u \div 4, u \div 4 + 1} => mem'[c] = mem[c]
        /\ u \notin Owned \cup {0} /\ Owned' = Owned \cup {u}
        /\ CapOf(u)' = user_cap(size) /\ SizeOf(u)' = size
        /\ \A b \in Owned \cup {0} : CapOf(b)' = CapOf(b) /\ SizeOf(b)' = SizeOf(b)
  BY <1>0, CarveFacts
<1>2. user_cap(size) \in Nat /\ size <= user_cap(size)
  BY <1>0, SizeClass
<1>3. /\ start_unused \in Nat /\ u % 4 = 0
      /\ DOMAIN mem = DOMAIN mem' /\ DOMAIN mem \subseteq Int
  <2>1. mem \in [0..GB4 \div 4 - 1 -> U32] /\ 0 \in Owned \cup {0}
    BY DEF HeapInv, TypeOK
  <2>2. start_unused \in Nat
    BY <2>1, SegmentFacts
  <2> QED
    BY <1>1, <2>1, <2>2
<1>4. Unwritten'
  <2>1. ASSUME NEW c \in DOMAIN mem, (start_unused' + 8) \div 4 <= c
        PROVE  mem'[c] = 0
    <3>0. PICK e \in Nat : e = user_cap(size)
      BY <1>2
    <3>1. (u + e + 8) \div 4 <= c /\ c \in Int
      BY <1>1, <1>3, <2>1, <3>0
    <3>2. c \notin {u \div 4, u \div 4 + 1} /\ (start_unused + 8) \div 4 <= c
      <4>1. PICK k \in Nat : u = 4 * k
        BY <1>3
      <4>2. u \div 4 = k /\ (u + e + 8) \div 4 >= k + 2
        BY <4>1
      <4>3. k + 2 <= c
        BY <3>1, <4>2
      <4>4. (start_unused + 8) \div 4 = k
        BY <1>1, <4>2
      <4> QED
        BY <3>1, <4>2, <4>3, <4>4
    <3> QED
      BY <1>1, <3>2 DEF Unwritten
  <2> QED
    BY <1>3, <2>1 DEF Unwritten
<1>5. Contents(u)' = [i \in 1..words |-> 0]
  <2>1. Contents(u)' = [i \in 1..size \div 4 |-> mem'[u \div 4 + 1 + i]]
    BY <1>1, <1>3, ReadWordsNext
  <2>2. size \div 4 = words
    BY <1>0
  <2>3. \A i \in 1..words : mem'[u \div 4 + 1 + i] = 0
    <3> SUFFICES ASSUME NEW i \in 1..words PROVE mem'[u \div 4 + 1 + i] = 0
      OBVIOUS
    <3>1. u \div 4 + 1 + i \in DOMAIN mem
      <4> DEFINE w == GB4 \div 4
      <4>1. w \in Nat /\ 4 * w = GB4
        BY Virt32Assumption DEF BLOCK_SIZE
      <4>2. DOMAIN mem = 0..w - 1
        BY DEF HeapInv, TypeOK
      <4> HIDE DEF w
      <4>3. u + size + 8 <= GB4
        <5>1. PICK e \in Nat : e = user_cap(size)
          BY <1>2
        <5>2. u + e + 8 <= GB4 /\ size <= e
          BY <1>1, <1>2, <5>1
        <5>3. GB4 \in Nat
          BY Virt32Assumption
        <5> QED
          BY <5>2, <5>3
      <4>4. u \div 4 + 1 + i \in 0..w - 1
        BY <1>0, <1>3, <4>1, <4>3
      <4> QED
        BY <4>2, <4>4
    <3>2. /\ u \div 4 + 1 + i \notin {u \div 4, u \div 4 + 1}
          /\ (start_unused + 8) \div 4 <= u \div 4 + 1 + i
      BY <1>1, <1>3
    <3> QED
      BY <1>1, <3>1, <3>2 DEF Unwritten
  <2> QED
    BY <2>1, <2>2, <2>3
<1>6. \A b \in Segments : Contents(b)' = Contents(b)
  <2> SUFFICES ASSUME NEW b \in Segments PROVE Contents(b)' = Contents(b)
    OBVIOUS
  <2>1. b \in Owned \cup {0}
    BY DEF Segments, Owned
  <2>2. /\ b \in Nat /\ b % 4 = 0 /\ SizeOf(b) \in Nat /\ CapOf(b) \in Nat
        /\ b # 0 => b + CapOf(b) <= start_unused
    BY <2>1, SegmentFacts
  <2>3. b + CapOf(b) <= start_unused
    BY <2>1, <2>2, SegmentFacts, Virt32Assumption DEF HeapInv, KernelFits, TypeOK, BOOK_SIZE
  <2>4. SizeOf(b)' = SizeOf(b)
    BY <1>1, <2>1
  <2>5. \A i \in 1..SizeOf(b) \div 4 : mem'[b \div 4 + 1 + i] = mem[b \div 4 + 1 + i]
    <3> SUFFICES ASSUME NEW i \in 1..SizeOf(b) \div 4
                 PROVE  mem'[b \div 4 + 1 + i] = mem[b \div 4 + 1 + i]
      OBVIOUS
    <3>1. /\ b \div 4 + 1 + i \in DOMAIN mem
          /\ b \div 4 + 1 + i \in b \div 4 + 2..(b + CapOf(b) + 8) \div 4 - 1
      BY <2>1, WordCells
    <3>2. b \div 4 + 1 + i \notin {u \div 4, u \div 4 + 1}
      <4>1. PICK x, v \in Nat : x = b \div 4 + 1 + i /\ v = b + CapOf(b) + 8
        BY <2>2, <3>1
      <4>2. v <= u
        <5>1. u = start_unused + 8
          BY <1>1
        <5> QED
          BY <1>3, <2>2, <2>3, <4>1, <5>1
      <4>3. v \div 4 <= u \div 4
        BY <4>2
      <4>4. x \in Nat /\ x < v \div 4
        BY <2>2, <3>1, <4>1
      <4>5. x < u \div 4
        BY <4>3, <4>4
      <4> QED
        BY <4>1, <4>5
    <3> QED
      BY <1>1, <3>1, <3>2
  <2>6. Contents(b)' = [i \in 1..SizeOf(b) \div 4 |-> mem'[b \div 4 + 1 + i]]
    BY <2>2, <2>4, ReadWordsNext
  <2>7. Contents(b) = [i \in 1..SizeOf(b) \div 4 |-> mem[b \div 4 + 1 + i]]
    BY <2>2, ReadWords
  <2> QED
    BY <2>5, <2>6, <2>7
<1>7. u \notin mapped /\ u # 0
  BY <1>1 DEF Owned
<1>8. UM!Map(u, words) /\ u \in SegmentId \ {0}
  BY <1>1, <1>5, <1>6, <1>7, ServeFresh
<1>9. u = served(4 * words)
  <2>1. Wrap(start_unused + BOOK_SIZE) = u
    BY <1>1, WrapFits DEF BOOK_SIZE
  <2> QED
    BY <2>1 DEF served, Carve
<1> QED
  BY <1>4, <1>8, <1>9

LEMMA FreeMemory ==
    ASSUME HeapInv, Unwritten, NEW id \in mapped, vs_free(id)
    PROVE  Unwritten' /\ UM!Unmap(id) /\ id \in DOMAIN Memory
<1>1. mem' = mem /\ start_unused' = start_unused /\ mapped' = mapped \ {id}
  BY DEF vs_free
<1>2. id # 0 /\ 0 \notin mapped
  BY Virt32Assumption DEF HeapInv, HeapShape, Owned, BOOK_SIZE
<1>3. Segments' = Segments \ {id} /\ id \in Segments
  BY <1>1, <1>2 DEF Segments
<1>4. \A b : Contents(b)' = Contents(b)
  BY <1>1 DEF Contents, SizeOf, get_at
<1>5. Memory' = [b \in DOMAIN Memory \ {id} |-> Memory[b]]
  BY <1>3, <1>4 DEF Memory
<1> QED
  BY <1>1, <1>2, <1>3, <1>5 DEF UM!Unmap, Memory, Unwritten

\* A write to a word of a segment is one to that word of what the program sees.
LEMMA StoreMemory ==
    ASSUME HeapInv, Unwritten, NEW id \in Segments, NEW k \in Nat, NEW v \in U32,
           4 * k < SizeOf(id), StoreWord(id, k, v)
    PROVE  /\ Unwritten' /\ UM!Store(id, k + 1, v)
           /\ id \in DOMAIN Memory /\ k + 1 \in 1..Len(Memory[id])
<1>1. id \in Owned \cup {0}
  BY DEF Segments, Owned
<1>2. /\ id \in Nat /\ id % 4 = 0 /\ CapOf(id) \in Nat /\ SizeOf(id) \in Nat
      /\ SizeOf(id) <= CapOf(id) /\ SizeOf(id) % 4 = 0
  BY <1>1, SegmentFacts DEF HeapInv, WordSizes
<1>3. PICK n \in Nat : n = SizeOf(id) \div 4
  BY <1>2
<1>4. k + 1 \in 1..n
  BY <1>2, <1>3
<1>5. mem' = [mem EXCEPT ![id \div 4 + 2 + k] = v] /\ UNCHANGED alloc
  BY <1>2, CellAt DEF StoreWord, set_at
<1>6. /\ id \div 4 + 2 + k \in DOMAIN mem
      /\ id \div 4 + 2 + k \in id \div 4 + 2..(id + CapOf(id) + 8) \div 4 - 1
  <2>1. /\ id \div 4 + 1 + (k + 1) \in DOMAIN mem
        /\ id \div 4 + 1 + (k + 1) \in id \div 4 + 2..(id + CapOf(id) + 8) \div 4 - 1
    BY <1>1, <1>3, <1>4, WordCells
  <2> QED
    BY <1>2, <2>1
<1>7. DOMAIN mem' = DOMAIN mem /\ \A c \in DOMAIN mem :
         mem'[c] = IF c = id \div 4 + 2 + k THEN v ELSE mem[c]
  BY <1>5 DEF HeapInv, TypeOK
<1>8. \A c \in DOMAIN mem :
         c \notin id \div 4 + 1 .. (id + CapOf(id) + 8) \div 4 - 1 => mem'[c] = mem[c]
  BY <1>2, <1>6, <1>7
<1>9. SizeOf(id)' = SizeOf(id)
  <2>1. SizeOf(id) = mem[id \div 4 + 1] /\ id \div 4 + 1 \in DOMAIN mem
    BY <1>1, SegmentFacts
  <2>2. SizeCell(id) = id \div 4 + 1
    BY <1>2, CellAt
  <2>3. id \div 4 + 1 # id \div 4 + 2 + k
    BY <1>2
  <2> QED
    BY <1>7, <2>1, <2>2, <2>3 DEF SizeOf
<1>10. Contents(id) = [i \in 1..n |-> mem[id \div 4 + 1 + i]]
  BY <1>2, <1>3, ReadWords
<1>11. Contents(id)' = [i \in 1..n |-> mem'[id \div 4 + 1 + i]]
  BY <1>2, <1>3, <1>9, ReadWordsNext
<1>12. \A i \in 1..n : mem'[id \div 4 + 1 + i] =
                          IF i = k + 1 THEN v ELSE mem[id \div 4 + 1 + i]
  <2> SUFFICES ASSUME NEW i \in 1..n
               PROVE  mem'[id \div 4 + 1 + i] = IF i = k + 1 THEN v ELSE mem[id \div 4 + 1 + i]
    OBVIOUS
  <2>1. id \div 4 + 1 + i \in DOMAIN mem
    BY <1>1, <1>3, WordCells
  <2>2. id \div 4 + 1 + i = id \div 4 + 2 + k <=> i = k + 1
    BY <1>2
  <2> QED
    BY <1>7, <2>1, <2>2
<1>13. Contents(id)' = [Contents(id) EXCEPT ![k + 1] = v]
  <2>1. PICK f, g : f = Contents(id) /\ g = Contents(id)'
    OBVIOUS
  <2>2. f = [i \in 1..n |-> f[i]] /\ g = [i \in 1..n |-> g[i]]
    BY <1>10, <1>11, <2>1
  <2>3. \A i \in 1..n : g[i] = IF i = k + 1 THEN v ELSE f[i]
    BY <1>10, <1>11, <1>12, <2>1
  <2>4. g = [f EXCEPT ![k + 1] = v]
    BY <1>4, <2>2, <2>3
  <2> QED
    BY <2>1, <2>4
<1>14. \A b \in Segments : b # id => Contents(b)' = Contents(b)
  BY <1>1, <1>8, OthersKept DEF Segments, Owned
<1>15. Segments' = Segments /\ start_unused' = start_unused
  BY <1>5 DEF alloc, Segments
<1>16. Memory' = [Memory EXCEPT ![id] = [Memory[id] EXCEPT ![k + 1] = v]]
  <2>1. Memory' = [b \in Segments |-> Contents(b)']
    BY <1>15 DEF Memory
  <2> QED
    BY <1>13, <1>14, <2>1 DEF Memory
<1>17. Memory' = [Memory EXCEPT ![id][k + 1] = v]
  BY <1>16
<1>18. Len(Memory[id]) = n
  <2>1. \A i \in 1..n : mem[id \div 4 + 1 + i] \in U32
    BY <1>1, <1>3, WordCells DEF HeapInv, TypeOK
  <2>2. Contents(id) \in [1..n -> U32]
    BY <1>10, <2>1
  <2>3. Contents(id) \in Seq(U32)
    BY <2>2, SeqDef
  <2>4. DOMAIN Contents(id) = 1..Len(Contents(id)) /\ Len(Contents(id)) \in Nat
    BY <2>3, LenProperties
  <2>5. Len(Contents(id)) = n
    BY <2>2, <2>4
  <2> QED
    BY <2>5 DEF Memory
<1>19. Unwritten'
  BY <1>1, <1>7, <1>8, <1>15, UnwrittenKept
<1>20. UM!Store(id, k + 1, v)
  BY <1>17 DEF UM!Store, Memory
<1> QED
  BY <1>4, <1>18, <1>19, <1>20 DEF Memory

\* A load gives segment 0 the words of the other segment, or aborts.
LEMMA LoadMemory ==
    ASSUME HeapInv, Unwritten, NEW id \in mapped, LoadSegment(id)
    PROVE  /\ Unwritten' /\ id \in DOMAIN Memory
           /\ IF aborted' THEN UNCHANGED Memory ELSE UM!LoadSegment(id)
<1> DEFINE size == SizeOf(id)
<1>1. /\ id \in Owned /\ id \in Owned \cup {0} /\ 0 \in Owned \cup {0} /\ id \in Segments
      /\ 0 \in Segments
  BY DEF Owned, Segments
<1>2. /\ id \in Nat /\ id % 4 = 0 /\ size \in Nat /\ size % 4 = 0
      /\ CapOf(0) = KERN_SIZE - 8 /\ kernel_virtual_size = KERN_SIZE - 8 /\ CapOf(0) \in Nat
  BY <1>1, SegmentFacts DEF HeapInv, WordSizes, KernelFits, TypeOK, BOOK_SIZE
<1>3. UNCHANGED <<alloc, kernel_virtual_size>>
  BY DEF LoadSegment
<1>4. Segments' = Segments /\ start_unused' = start_unused
  BY <1>3 DEF alloc, Segments
<1>5. Memory' = [b \in Segments |-> Contents(b)']
  BY <1>4 DEF Memory
<1>6. CASE mem' = mem /\ aborted'
  <2>1. \A b : Contents(b)' = Contents(b)
    BY <1>6 DEF Contents, SizeOf, get_at
  <2> QED
    BY <1>1, <1>4, <1>5, <1>6, <2>1 DEF Memory, Unwritten
<1>7. CASE /\ kernel_virtual_size >= size /\ ~aborted'
           /\ mem' = kern_memcpy(kern_realloc(mem, size), id, size)
  <2> DEFINE copied == 2..size \div 4 + 1
  <2>1. SizeOf(id) <= kernel_virtual_size
    BY <1>2, <1>7
  <2>2. /\ DOMAIN mem' = DOMAIN mem
        /\ copied \subseteq 2..(CapOf(0) + 8) \div 4 - 1
        /\ \A c \in DOMAIN mem : mem'[c] = IF c \in copied THEN mem[id \div 4 + c]
                                          ELSE IF c = 1 THEN size ELSE mem[c]
    BY <1>7, <2>1, LoadFacts
  <2>3. PICK n \in Nat : n = size \div 4 /\ copied = 2..n + 1
    BY <1>2
  <2>4. 1 \notin copied
    OBVIOUS
  <2> HIDE DEF copied
  <2>5. CapOf(0) >= 16 /\ CapOf(0) \in Nat
    BY <1>2, Virt32Assumption DEF BLOCK_SIZE, BOOK_SIZE
  <2>6. \A c \in DOMAIN mem :
           c \notin 0 \div 4 + 1 .. (0 + CapOf(0) + 8) \div 4 - 1 => mem'[c] = mem[c]
    <3> SUFFICES ASSUME NEW c \in DOMAIN mem,
                        c \notin 0 \div 4 + 1 .. (0 + CapOf(0) + 8) \div 4 - 1
                 PROVE  mem'[c] = mem[c]
      OBVIOUS
    <3>1. 1 \in 0 \div 4 + 1 .. (0 + CapOf(0) + 8) \div 4 - 1
      BY <2>5
    <3>2. c \notin copied
      <4> SUFFICES ASSUME c \in copied PROVE FALSE
        OBVIOUS
      <4>1. c \in 2..(CapOf(0) + 8) \div 4 - 1
        BY <2>2
      <4>2. c \in 0 \div 4 + 1 .. (0 + CapOf(0) + 8) \div 4 - 1
        BY <2>5, <4>1
      <4> QED
        BY <4>2
    <3> QED
      BY <2>2, <3>1, <3>2
  <2>7. SizeOf(0)' = size
    <3>1. 1 \in DOMAIN mem /\ SizeCell(0) = 1
      <4>1. 0 \div 4 + 1 \in DOMAIN mem
        BY <1>1, SegmentFacts
      <4> QED
        BY <4>1, CellAt
    <3> QED
      BY <2>2, <2>4, <3>1 DEF SizeOf
  <2>8. Contents(0)' = [i \in 1..n |-> mem'[1 + i]]
    <3>1. 0 \in Nat /\ 0 % 4 = 0
      OBVIOUS
    <3>2. Contents(0)' = [i \in 1..size \div 4 |-> mem'[0 \div 4 + 1 + i]]
      BY <1>2, <2>7, <3>1, ReadWordsNext
    <3> QED
      BY <2>3, <3>2
  <2>9. Contents(id) = [i \in 1..n |-> mem[id \div 4 + 1 + i]]
    BY <1>2, <2>3, ReadWords
  <2>10. \A i \in 1..n : mem'[1 + i] = mem[id \div 4 + 1 + i]
    <3> SUFFICES ASSUME NEW i \in 1..n PROVE mem'[1 + i] = mem[id \div 4 + 1 + i]
      OBVIOUS
    <3>1. 1 + i \in copied
      BY <2>3
    <3>2. 1 + i \in DOMAIN mem
      <4> DEFINE w == GB4 \div 4
      <4>1. w \in Nat /\ 4 * w = GB4 /\ KERN_SIZE + 8 <= GB4 /\ KERN_SIZE \in Nat
        BY Virt32Assumption DEF BLOCK_SIZE, BOOK_SIZE
      <4>2. DOMAIN mem = 0..w - 1
        BY DEF HeapInv, TypeOK
      <4> HIDE DEF w
      <4>3. 1 + i \in 0..w - 1
        BY <1>2, <2>1, <2>3, <4>1
      <4> QED
        BY <4>2, <4>3
    <3>3. id \div 4 + (1 + i) = id \div 4 + 1 + i
      BY <1>2
    <3> QED
      BY <2>2, <3>1, <3>2, <3>3
  <2>11. Contents(0)' = Contents(id)
    BY <2>8, <2>9, <2>10
  <2>12. \A b \in Segments : b # 0 => Contents(b)' = Contents(b)
    <3>1. \A b \in Owned \cup {0} : b # 0 => Contents(b)' = Contents(b)
      BY <1>1, <2>6, OthersKept
    <3> QED
      BY <3>1 DEF Segments, Owned
  <2>13. Memory' = [Memory EXCEPT ![0] = Memory[id]]
    BY <1>1, <1>5, <2>11, <2>12 DEF Memory
  <2>14. Unwritten'
    BY <1>1, <1>4, <2>2, <2>6, UnwrittenKept
  <2> QED
    BY <1>1, <1>7, <2>13, <2>14 DEF UM!LoadSegment, Memory
<1> QED
  BY <1>6, <1>7 DEF LoadSegment

UnwrittenInv == HeapInv /\ Unwritten

LEMMA MemoryStep ==
    ASSUME UnwrittenInv, [Next]_vars
    PROVE  Unwritten' /\ (UM!Next \/ UNCHANGED Memory)
<1>0. HeapInv /\ Unwritten
  BY DEF UnwrittenInv
<1>1. CASE \E words \in Request :
              Requested(words) /\ FitsHeap(4 * words) /\ MapSegment(words)
  <2>1. PICK words \in Request :
              Requested(words) /\ FitsHeap(4 * words) /\ MapSegment(words)
    BY <1>1
  <2>2. /\ words \in Nat /\ 4 * words < MAX_ALLOC
        /\ Recycle(4 * words) \/ Carve(4 * words)
        /\ UNCHANGED <<kernel_virtual_size, aborted>>
    BY <2>1, MapCases
  <2>3. Unwritten' /\ \E id \in SegmentId \ {0} : UM!Map(id, words)
    BY <1>0, <2>1, <2>2, RecycleMemory, CarveMemory
  <2> QED
    BY <2>3 DEF UM!Next
<1>2. CASE \E id \in mapped : UnmapSegment(id)
  BY <1>0, <1>2, FreeMemory DEF UnmapSegment, UM!Next, Memory
<1>3. CASE \E id \in Segments, k \in Offset, v \in Value :
              4 * k < SizeOf(id) /\ StoreWord(id, k, v)
  <2>1. PICK id \in Segments, k \in Offset, v \in Value :
              4 * k < SizeOf(id) /\ StoreWord(id, k, v)
    BY <1>3
  <2>2. k \in Nat /\ v \in U32 /\ v \in Value \cup {0}
    BY Virt32Assumption
  <2>3. /\ Unwritten' /\ UM!Store(id, k + 1, v)
        /\ id \in DOMAIN Memory /\ k + 1 \in 1..Len(Memory[id])
    BY <1>0, <2>1, <2>2, StoreMemory
  <2> QED
    BY <2>2, <2>3 DEF UM!Next, Memory
<1>4. CASE \E id \in mapped : LoadSegment(id)
  BY <1>0, <1>4, LoadMemory DEF UM!Next, Memory
<1>5. CASE UNCHANGED vars
  BY <1>0, <1>5 DEF vars, Unwritten, Memory, Segments, Contents, SizeOf, get_at
<1> QED
  BY <1>1, <1>2, <1>3, <1>4, <1>5 DEF Next, Access

\* The mapping stays zero from the carving frontier on: what vs_calloc's second
\* path relies on when it hands out memory it has not cleared.
THEOREM UncarvedIsZero == Spec => []Unwritten
<1>1. Init => UnwrittenInv
  BY InitHeapInv, InitUnwritten DEF UnwrittenInv
<1>2. UnwrittenInv /\ [Next]_vars => UnwrittenInv'
  BY NextKeeps, StutterKeeps, MemoryStep DEF UnwrittenInv
<1>3. UnwrittenInv => Unwritten
  BY DEF UnwrittenInv
<1> QED
  BY <1>1, <1>2, <1>3, PTL DEF Spec

\* The allocator serves the memory of the UM: every behaviour of the 4 GB heap,
\* its headers, blocks and recycler hidden, is one that UMMemory allows.
THEOREM ServesUMMemory == Spec => ImplementsUMMemory
<1>1. Init => UM!Init
  BY InitMemory
<1>2. HeapInv /\ Unwritten /\ [Next]_vars => [UM!Next]_([id \in Segments |-> Contents(id)])
  BY MemoryStep DEF UnwrittenInv, Memory
<1> QED
  BY <1>1, <1>2, HeapInvariant, UncarvedIsZero, PTL DEF Spec, UM!Spec, ImplementsUMMemory
=============================================================================
