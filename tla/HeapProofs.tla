----------------------------- MODULE HeapProofs -----------------------------
(***************************************************************************)
(* Proofs about Heap, for a table of any size, any block size and any      *)
(* callers.  Neither Disjoint nor ChainExact is inductive: heap_free finds *)
(* its end in the flags, so it keeps allocations apart only as long as     *)
(* the flags are right, and the flags stay right only because allocations  *)
(* are apart and the search steps over taken entries.  The invariant that  *)
(* is inductive says all of it at once.  With one more conjunct, that      *)
(* IS_FIRST stands where an allocation begins, what the flags say is what  *)
(* was given out, and Heap implements the allocator of BlockAllocator.     *)
(*                                                                         *)
(* The second part is about HeapInterrupt, for a console of any number of  *)
(* rows and a handler that comes between any two entries.  The handler     *)
(* runs between a look at an entry and its use, and what saves the main    *)
(* line is that the handler allocates and never frees: nothing taken is    *)
(* changed behind its back.  So the invariant claims what the main line    *)
(* holds, down to the step of each loop, and never that a block it has     *)
(* found free is free still.                                               *)
(***************************************************************************)
EXTENDS HeapInterrupt, NaturalLemmas, FiniteSetTheorems

\* The last block of an allocation.
Last(a) == Start(a) + a.blocks - 1

\* HAS_NEXT is set on every block of an allocation but its last one.
FlagsExact ==
    \A a \in held : \A x \in Extent(a) \cap Block :
        NEXT \in entries[x] <=> x # Last(a)

\* The inductive invariant.
IInv == TypeOK /\ Disjoint /\ TableExact /\ FlagsExact

-----------------------------------------------------------------------------
(* Arithmetic.                                                             *)

\* The address of a block is converted back to that block.
LEMMA BlockAddress ==
    ASSUME NEW b \in Block
    PROVE  /\ heap_address_to_block(heap_block_to_address(b)) = b
           /\ heap_block_to_address(b) \in Nat \ {0}
<1>1. b \in Nat /\ BlockSize \in Nat \ {0} /\ Saddr \in Nat \ {0}
  BY HeapAssumption DEF Block
<1>2. b * BlockSize \in Nat
  BY <1>1, SMT
<1>3. (b * BlockSize) \div BlockSize = b
  BY <1>1, SMTT(20)
<1>4. (Saddr + b * BlockSize) - Saddr = b * BlockSize
  BY <1>1, <1>2, SMT
<1>5. Saddr + b * BlockSize \in Nat \ {0}
  BY <1>1, <1>2, SMT
<1> QED
  BY <1>3, <1>4, <1>5 DEF heap_address_to_block, heap_block_to_address

\* A size is turned into a number of blocks, be it 0.
LEMMA RequestedBlocksNat ==
    ASSUME NEW size \in Sizes
    PROVE  RequestedBlocks(size) \in Nat
<1>1. size \in Nat /\ WordSize \in Nat \ {0} /\ BlockSize \in Nat \ {0}
  BY HeapAssumption, SMT
<1>2. size % BlockSize \in 0..(BlockSize - 1) /\ size % BlockSize <= size
  BY <1>1, SMTT(20)
<1>3. size - (size % BlockSize) + BlockSize \in Nat
  BY <1>1, <1>2, SMT
<1>4. (size - (size % BlockSize) + BlockSize) % WordSize \in Nat
  BY <1>1, <1>3, SMTT(20)
<1>5. heap_align_value_to_upper(size) \in Nat
  BY <1>1, <1>4 DEF heap_align_value_to_upper
<1> QED
  BY <1>1, <1>5, SMTT(20) DEF RequestedBlocks

\* A nonempty set of blocks has a least element.
LEMMA MinimumIn ==
    ASSUME NEW S \in SUBSET Block, S # {}
    PROVE  Minimum(S) \in S
<1>1. S \subseteq Nat
  BY HeapAssumption DEF Block
<1>2. PICK m \in S : \A k \in S : m <= k
  BY <1>1, LeastElement
<1> QED
  BY <1>2 DEF Minimum

-----------------------------------------------------------------------------
(* The operations on the table.                                            *)

\* What the search returns, if it is not negative: a block from which on the
\* requested blocks are free as far as the table goes.
LEMMA GetStartBlock ==
    ASSUME NEW t \in [Block -> Entry], NEW n \in Nat,
           ~(heap_get_start_block(t, n) < 0)
    PROVE  /\ heap_get_start_block(t, n) \in Block
           /\ \A x \in Block :
                 /\ heap_get_start_block(t, n) <= x
                 /\ x <= heap_get_start_block(t, n) + n - 1
                 => IsFree(t, x)
<1> DEFINE s == heap_get_start_block(t, n)
<1>1. CASE n > 0 /\ FreeRunStarts(t, n) # {}
  <2>1. s = Minimum(FreeRunStarts(t, n))
    BY <1>1 DEF heap_get_start_block
  <2>2. s \in FreeRunStarts(t, n)
    <3>1. FreeRunStarts(t, n) \in SUBSET Block
      BY DEF FreeRunStarts
    <3> QED
      BY <1>1, <2>1, <3>1, MinimumIn
  <2> QED
    BY <2>2, HeapAssumption, SMT DEF FreeRunStarts, Block
<1>2. CASE ~(n > 0 /\ FreeRunStarts(t, n) # {}) /\ TailStarts(t) # {}
  <2>1. s = Minimum(TailStarts(t))
    BY <1>2 DEF heap_get_start_block
  <2>2. s \in TailStarts(t)
    <3>1. TailStarts(t) \in SUBSET Block
      BY DEF TailStarts
    <3> QED
      BY <1>2, <2>1, <3>1, MinimumIn
  <2> QED
    BY <2>2, HeapAssumption, SMT DEF TailStarts, Block
<1>3. CASE ~(n > 0 /\ FreeRunStarts(t, n) # {}) /\ TailStarts(t) = {}
  <2>1. heap_get_start_block(t, n) = -ENOMEM
    BY <1>3 DEF heap_get_start_block
  <2> QED
    BY <2>1, SMT DEF ENOMEM
<1> QED
  BY <1>1, <1>2, <1>3

\* With the flags right, what heap_free walks over is the allocation.
LEMMA ChainIsExtent ==
    ASSUME TypeOK, FlagsExact, NEW a \in held
    PROVE  Chain(entries, Start(a)) = Extent(a) \cap Block
<1>1. PICK b \in Block : a.addr = heap_block_to_address(b)
  BY DEF TypeOK
<1>2. Start(a) = b /\ Start(a) \in Nat /\ Start(a) < Total /\ Total \in Nat
  BY <1>1, BlockAddress, HeapAssumption DEF Start, Block
<1>3. a.blocks \in Nat \ {0}
  BY DEF TypeOK
<1>4. ASSUME NEW x \in Chain(entries, Start(a))
      PROVE  x \in Extent(a) \cap Block
  <2>1. x \in Start(a)..(Total - 1) /\ \A j \in Start(a)..(x - 1) : NEXT \in entries[j]
    BY <1>4 DEF Chain
  <2>2. CASE x > Last(a)
    <3>1. Last(a) \in Start(a)..(x - 1) /\ Last(a) \in Extent(a) \cap Block
      BY <1>2, <1>3, <2>1, <2>2, SMT DEF Last, Extent, Block
    <3>2. NEXT \in entries[Last(a)]
      BY <2>1, <3>1
    <3> QED
      BY <3>1, <3>2 DEF FlagsExact
  <2>3. CASE x <= Last(a)
    BY <1>2, <1>3, <2>1, <2>3, SMT DEF Last, Extent, Block
  <2> QED
    BY <1>2, <1>3, <2>1, <2>2, <2>3, SMT DEF Last
<1>5. ASSUME NEW x \in Extent(a) \cap Block
      PROVE  x \in Chain(entries, Start(a))
  <2>1. x \in Start(a)..(Total - 1) /\ x <= Last(a)
    BY <1>2, <1>3, SMT DEF Last, Extent, Block
  <2>2. ASSUME NEW j \in Start(a)..(x - 1)
        PROVE  NEXT \in entries[j]
    <3>1. j \in Extent(a) \cap Block /\ j # Last(a)
      BY <1>2, <1>3, <2>1, SMT DEF Last, Extent, Block
    <3> QED
      BY <3>1 DEF FlagsExact
  <2> QED
    BY <2>1, <2>2 DEF Chain
<1> QED
  BY <1>4, <1>5

-----------------------------------------------------------------------------
(* The inductive invariant, call by call.                                  *)

\* The invariant holds of the empty table.
LEMMA InitIInv == Init => IInv
BY HeapAssumption DEF Init, IInv, TypeOK, Disjoint, TableExact, FlagsExact,
   IsFree, Entry, FREE, TAKEN, FIRST, NEXT

\* A granted request: the search has stepped over everybody's blocks, so the
\* flags that are written disturb no allocation.
LEMMA MallocIInv ==
    ASSUME IInv, NEW n \in Nat, heap_malloc_blocks(n)
    PROVE  IInv'
<1> DEFINE s == heap_get_start_block(entries, n)
           new == [addr |-> heap_block_to_address(s), blocks |-> n]
<1>1. CASE s < 0
  BY <1>1 DEF IInv, TypeOK, Disjoint, TableExact, FlagsExact, IsFree, Extent,
     Start, Last, heap_malloc_blocks, heap_address_to_block, heap_block_to_address
<1>2. CASE ~(s < 0)
  <2>1. /\ ret' = heap_block_to_address(s)
        /\ entries' = heap_mark_blocks_taken(entries, s, n)
        /\ held' = IF n = 0 THEN held ELSE held \cup {new}
    BY <1>2 DEF heap_malloc_blocks
  <2>2. s \in Block /\ \A x \in Block : s <= x /\ x <= s + n - 1 => IsFree(entries, x)
    BY <1>2, GetStartBlock DEF IInv, TypeOK
  <2>3. /\ Total \in Nat
        /\ s \in Nat
        /\ s < Total
    BY <2>2, HeapAssumption DEF Block
  <2> HIDE DEF s
  <2>4. Start(new) = s /\ Extent(new) = s..(s + n - 1) /\ Last(new) = s + n - 1
    BY <2>2, BlockAddress DEF Start, Extent, Last
  <2> HIDE DEF new
  <2>5. \A a \in held : /\ Start(a) \in Nat /\ Start(a) < Total
                        /\ a.blocks \in Nat \ {0}
    BY BlockAddress, HeapAssumption DEF IInv, TypeOK, Start, Block
  <2>6. \A a \in held : Extent(a) \cap Extent(new) = {}
    <3> SUFFICES ASSUME NEW a \in held, NEW x \in Extent(a) \cap Extent(new)
                 PROVE  FALSE
      OBVIOUS
    <3>1. \A b \in Block : b \in Extent(a) => ~IsFree(entries, b)
      BY DEF IInv, TableExact
    <3>2. x \in Start(a)..(Start(a) + a.blocks - 1) /\ x \in s..(s + n - 1)
      BY <2>4 DEF Extent
    <3>3. CASE x \in Block
      BY <2>2, <2>3, <3>1, <3>2, <3>3, SMT
    <3>4. CASE x \notin Block
      <4>1. Total - 1 \in Extent(a) /\ s <= Total - 1 /\ Total - 1 <= s + n - 1
        BY <2>3, <2>5, <3>2, <3>4, SMT DEF Extent, Block
      <4>2. Total - 1 \in Block
        BY <2>3, SMT DEF Block
      <4> QED
        BY <2>2, <3>1, <4>1, <4>2
    <3> QED
      BY <3>3, <3>4
  <2>7. \A x \in Block :
            /\ x \in Extent(new) => entries'[x] = {TAKEN}
                    \cup (IF x = s THEN {FIRST} ELSE {})
                    \cup (IF x # s + n - 1 THEN {NEXT} ELSE {})
            /\ x \notin Extent(new) => entries'[x] = entries[x]
    BY <2>1, <2>4 DEF heap_mark_blocks_taken
  <2>8. n # 0 => held' = held \cup {new}
    BY <2>1
  <2>9. n = 0 => held' = held /\ Extent(new) = {}
    BY <2>1, <2>3, <2>4, SMT
  <2>10. TypeOK'
    <3>1. entries' \in [Block -> Entry]
      BY <2>1 DEF heap_mark_blocks_taken, IInv, TypeOK, Entry
    <3>2. ret' \in {NULL} \cup {heap_block_to_address(b) : b \in Block}
      BY <2>1, <2>2
    <3>3. held' \subseteq [addr : {heap_block_to_address(b) : b \in Block}, blocks : Nat \ {0}]
      BY <2>1, <2>2 DEF IInv, TypeOK, new
    <3> QED
      BY <3>1, <3>2, <3>3 DEF TypeOK, heap_block_to_address
  <2>11. Disjoint'
    BY <2>6, <2>8, <2>9 DEF IInv, Disjoint, Extent, Start, heap_address_to_block
  <2>12. TableExact'
    <3> SUFFICES ASSUME NEW x \in Block
                 PROVE  IsFree(entries', x) <=> \A a \in held' : x \notin Extent(a)
      BY DEF TableExact, Extent, Start, IsFree, heap_address_to_block
    <3>1. IsFree(entries, x) <=> \A a \in held : x \notin Extent(a)
      BY DEF IInv, TableExact
    <3>2. CASE x \in Extent(new)
      <4>1. ~IsFree(entries', x)
        BY <2>7, <3>2 DEF IsFree
      <4> QED
        BY <2>8, <2>9, <3>2, <4>1
    <3>3. CASE x \notin Extent(new)
      <4>1. IsFree(entries', x) <=> IsFree(entries, x)
        BY <2>7, <3>3 DEF IsFree
      <4> QED
        BY <2>8, <2>9, <3>1, <3>3, <4>1
    <3> QED
      BY <3>2, <3>3
  <2>13. FlagsExact'
    <3> SUFFICES ASSUME NEW a \in held', NEW x \in Extent(a) \cap Block
                 PROVE  NEXT \in entries'[x] <=> x # Last(a)
      BY DEF FlagsExact, Extent, Start, Last, heap_address_to_block
    <3>1. CASE a \in held
      BY <2>6, <2>7, <3>1 DEF IInv, FlagsExact
    <3>2. CASE a = new
      BY <2>4, <2>7, <3>2 DEF TAKEN, FIRST, NEXT
    <3> QED
      BY <2>8, <2>9, <3>1, <3>2
  <2> QED
    BY <2>10, <2>11, <2>12, <2>13 DEF IInv
<1> QED
  BY <1>1, <1>2

\* A freed allocation: the blocks visited are its own, all of them, so the
\* other allocations keep their flags.
LEMMA FreeIInv ==
    ASSUME IInv, NEW a \in held, heap_free(a)
    PROVE  IInv'
<1>1. \A x \in Block : entries'[x] = IF x \in Extent(a) THEN FREE ELSE entries[x]
  <2>1. entries' = heap_mark_blocks_free(entries, Start(a))
    BY DEF heap_free, Start
  <2>2. Chain(entries, Start(a)) = Extent(a) \cap Block
    BY ChainIsExtent DEF IInv
  <2> QED
    BY <2>1, <2>2 DEF heap_mark_blocks_free
<1>2. held' = held \ {a} /\ ret' = ret
  BY DEF heap_free
<1>3. \A b \in held' : Extent(a) \cap Extent(b) = {}
  BY <1>2 DEF IInv, Disjoint
<1>4. TypeOK'
  <2>1. entries' \in [Block -> Entry]
    BY DEF heap_free, heap_mark_blocks_free, IInv, TypeOK, Entry, FREE
  <2> QED
    BY <1>2, <2>1 DEF IInv, TypeOK, heap_block_to_address
<1>5. Disjoint'
  BY <1>2 DEF IInv, Disjoint, Extent, Start, heap_address_to_block
<1>6. TableExact'
  <2> SUFFICES ASSUME NEW x \in Block
               PROVE  IsFree(entries', x) <=> \A b \in held' : x \notin Extent(b)
    BY DEF TableExact, Extent, Start, IsFree, heap_address_to_block
  <2>1. IsFree(entries, x) <=> \A b \in held : x \notin Extent(b)
    BY DEF IInv, TableExact
  <2>2. CASE x \in Extent(a)
    BY <1>1, <1>3, <2>2 DEF IsFree, FREE
  <2>3. CASE x \notin Extent(a)
    BY <1>1, <1>2, <2>1, <2>3 DEF IsFree
  <2> QED
    BY <2>2, <2>3
<1>7. FlagsExact'
  <2> SUFFICES ASSUME NEW b \in held', NEW x \in Extent(b) \cap Block
               PROVE  NEXT \in entries'[x] <=> x # Last(b)
    BY DEF FlagsExact, Extent, Start, Last, heap_address_to_block
  <2> QED
    BY <1>1, <1>2, <1>3 DEF IInv, FlagsExact
<1> QED
  BY <1>4, <1>5, <1>6, <1>7 DEF IInv

\* Both calls keep the invariant.
LEMMA NextIInv == IInv /\ [Next]_vars => IInv'
<1> SUFFICES ASSUME IInv, [Next]_vars
             PROVE  IInv'
  OBVIOUS
<1>1. CASE \E size \in Sizes : heap_malloc(size)
  BY <1>1, RequestedBlocksNat, MallocIInv DEF heap_malloc
<1>2. CASE \E a \in held : heap_free(a)
  BY <1>2, FreeIInv
<1>3. CASE UNCHANGED vars
  BY <1>3 DEF vars, IInv, TypeOK, Disjoint, TableExact, FlagsExact, IsFree,
     Extent, Start, Last, heap_address_to_block, heap_block_to_address
<1> QED
  BY <1>1, <1>2, <1>3 DEF Next

\* The invariant holds in every reachable state of every heap.
THEOREM Invariance == Spec => []IInv
BY InitIInv, NextIInv, PTL DEF Spec

-----------------------------------------------------------------------------
(* What follows for the properties that the runs check.                    *)

\* Every pointer handed out is the address of a block, for every table size,
\* block size and start address.
THEOREM TypeCorrect == Spec => []TypeOK
<1>1. IInv => TypeOK
  BY DEF IInv
<1> QED
  BY <1>1, Invariance, PTL

\* heap_malloc never gives a block to two callers, whatever has been allocated
\* and freed before, short grants and wrapped sizes included.
THEOREM AllocationsDisjoint == Spec => []Disjoint
<1>1. IInv => Disjoint
  BY DEF IInv
<1> QED
  BY <1>1, Invariance, PTL

\* heap_free gives back all of an allocation and nothing else: the table never
\* leaks a block and never frees one that somebody holds.
THEOREM TableIsExact == Spec => []TableExact
<1>1. IInv => TableExact
  BY DEF IInv
<1> QED
  BY <1>1, Invariance, PTL

\* HAS_NEXT alone tells heap_mark_blocks_free where every allocation ends.
THEOREM ChainsAreExact == Spec => []ChainExact
<1>1. IInv => ChainExact
  BY ChainIsExtent DEF IInv, ChainExact
<1> QED
  BY <1>1, Invariance, PTL

-----------------------------------------------------------------------------
(* The allocator that Heap implements.                                     *)

\* IS_FIRST stands where an allocation begins, and nowhere else.
FirstExact == \A x \in Block : FIRST \in entries[x] <=> \E a \in held : x = Start(a)

\* The last block of an allocation that is in the table.
End(a) == IF Last(a) < Total THEN Last(a) ELSE Total - 1

\* An allocation as the abstract allocator sees it.
Run(a) == <<Start(a), End(a)>>

\* What the abstract allocator has given out.
Runs == {Run(a) : a \in held}

-----------------------------------------------------------------------------
(* Allocations.                                                            *)

\* An allocation begins inside the table and has a block.
LEMMA HeldType ==
    ASSUME TypeOK, NEW a \in held
    PROVE  /\ Start(a) \in Block /\ Start(a) \in Nat
           /\ a.blocks \in Nat \ {0} /\ Last(a) \in Nat /\ Start(a) <= Last(a)
           /\ Start(a) \in Extent(a)
           /\ Total \in Nat \ {0} /\ Start(a) < Total
<1>1. PICK b \in Block : a.addr = heap_block_to_address(b)
  BY DEF TypeOK
<1>2. Start(a) = b /\ b \in Nat /\ b < Total /\ Total \in Nat \ {0}
  BY <1>1, BlockAddress, HeapAssumption DEF Start, Block
<1>3. a.blocks \in Nat \ {0}
  BY DEF TypeOK
<1> QED
  BY <1>2, <1>3 DEF Last, Extent

\* The blocks of an allocation that are in the table go from its start to its end.
LEMMA RunIsExtent ==
    ASSUME TypeOK, NEW a \in held
    PROVE  /\ End(a) \in Block /\ End(a) \in Extent(a)
           /\ \A b \in Block : b \in Start(a)..End(a) <=> b \in Extent(a)
  BY HeldType DEF End, Last, Extent, Block

\* A block that a caller holds is not free.
LEMMA HeldIsTaken ==
    ASSUME TableExact, NEW a \in held, NEW x \in Block, x \in Extent(a)
    PROVE  ~IsFree(entries, x)
  BY DEF TableExact

\* The mapping reads from the flags exactly the allocations that are held.
LEMMA DecodeIsRuns ==
    ASSUME IInv, FirstExact
    PROVE  Decode(entries) = Runs
<1>1. TypeOK /\ FlagsExact /\ Total \in Nat
  BY HeapAssumption DEF IInv
<1>2. ASSUME NEW r \in Decode(entries)
      PROVE  r \in Runs
  <2>1. /\ r \in Block \X Block
        /\ FIRST \in entries[r[1]]
        /\ r[2] \in Chain(entries, r[1])
        /\ NEXT \notin entries[r[2]] \/ r[2] = Total - 1
    BY DEF Decode
  <2>2. PICK a \in held : r[1] = Start(a)
    BY <2>1 DEF FirstExact
  <2>3. r[2] \in Extent(a) \cap Block
    BY <1>1, <2>1, <2>2, ChainIsExtent
  <2>4. r[2] = Last(a) \/ r[2] = Total - 1
    BY <1>1, <2>1, <2>3 DEF FlagsExact
  <2>5. r[2] = End(a)
    BY <1>1, <2>3, <2>4, HeldType DEF End, Last, Extent, Block
  <2> QED
    BY <2>1, <2>2, <2>5 DEF Runs, Run
<1>3. ASSUME NEW a \in held
      PROVE  Run(a) \in Decode(entries)
  <2>1. Start(a) \in Block /\ FIRST \in entries[Start(a)]
    BY <1>1, HeldType DEF FirstExact
  <2>2. End(a) \in Block /\ End(a) \in Chain(entries, Start(a))
    BY <1>1, RunIsExtent, ChainIsExtent
  <2>3. NEXT \notin entries[End(a)] \/ End(a) = Total - 1
    BY <1>1, RunIsExtent DEF End, FlagsExact
  <2> QED
    BY <2>1, <2>2, <2>3 DEF Decode, Run
<1> QED
  BY <1>2, <1>3 DEF Runs

\* The blocks that no allocation has are the free entries.
LEMMA UnownedIsFree ==
    ASSUME IInv, FirstExact
    PROVE  Allocator!Unowned = {b \in Block : IsFree(entries, b)}
<1>1. TypeOK /\ TableExact
  BY DEF IInv
<1>2. ASSUME NEW b \in Block
      PROVE  (\A r \in Runs : b \notin r[1]..r[2]) <=> IsFree(entries, b)
  <2>1. (\A r \in Runs : b \notin r[1]..r[2]) <=> \A a \in held : b \notin Extent(a)
    <3>1. \A a \in held : Run(a)[1] = Start(a) /\ Run(a)[2] = End(a)
      BY DEF Run
    <3>2. \A a \in held : b \in Run(a)[1]..Run(a)[2] <=> b \in Extent(a)
      BY <1>1, <3>1, RunIsExtent
    <3> HIDE DEF Run
    <3> QED
      BY <3>2, Zenon DEF Runs
  <2> QED
    BY <1>1, <2>1 DEF TableExact
<1> QED
  BY <1>2, DecodeIsRuns DEF Allocator!Unowned, Allocator!Interval, Allocator!Blocks, Block

\* The runs that the abstract allocator could grant are those that the search looks for.
LEMMA FreeRunsAreStarts ==
    ASSUME IInv, FirstExact, NEW n \in Nat \ {0}
    PROVE  \A r : r \in Allocator!FreeRuns(n) <=>
                    r[1] \in FreeRunStarts(entries, n) /\ r = <<r[1], r[1] + n - 1>>
<1>1. Total \in Nat
  BY HeapAssumption
<1>2. ASSUME NEW s \in Block, NEW e
      PROVE  <<s, e>> \in Allocator!FreeRuns(n) <=> s \in FreeRunStarts(entries, n) /\ e = s + n - 1
  BY <1>1, UnownedIsFree
     DEF Allocator!FreeRuns, Allocator!Interval, Allocator!Blocks, FreeRunStarts, Block
<1>3. \A r \in Allocator!FreeRuns(n) : r[1] \in Block /\ r = <<r[1], r[2]>>
  BY DEF Allocator!FreeRuns, Allocator!Blocks, Block
<1>4. \A s \in FreeRunStarts(entries, n) : s \in Block
  BY DEF FreeRunStarts
<1> QED
  BY <1>2, <1>3, <1>4

-----------------------------------------------------------------------------
(* IS_FIRST stands where an allocation begins.                             *)

\* It stands nowhere at the start.
LEMMA InitFirst == Init => FirstExact
  BY DEF Init, FirstExact, FREE

\* A granted request writes IS_FIRST on its first block only, and on blocks that
\* nobody holds.
LEMMA MallocFirst ==
    ASSUME IInv, FirstExact, NEW n \in Nat, heap_malloc_blocks(n)
    PROVE  FirstExact'
<1> DEFINE s == heap_get_start_block(entries, n)
           new == [addr |-> heap_block_to_address(s), blocks |-> n]
<1>1. CASE s < 0
  BY <1>1 DEF heap_malloc_blocks, FirstExact, Start, heap_address_to_block
<1>2. CASE ~(s < 0)
  <2>1. /\ entries' = heap_mark_blocks_taken(entries, s, n)
        /\ held' = IF n = 0 THEN held ELSE held \cup {new}
    BY <1>2 DEF heap_malloc_blocks
  <2>2. s \in Block /\ \A x \in Block : s <= x /\ x <= s + n - 1 => IsFree(entries, x)
    BY <1>2, GetStartBlock DEF IInv, TypeOK
  <2>3. s \in Nat /\ Start(new) = s
    BY <2>2, BlockAddress, HeapAssumption DEF Start, Block
  <2> HIDE DEF s, new
  <2>4. \A x \in Block :
            /\ x \in s..(s + n - 1) => (FIRST \in entries'[x] <=> x = s)
            /\ x \notin s..(s + n - 1) => entries'[x] = entries[x]
    BY <2>1 DEF heap_mark_blocks_taken, TAKEN, FIRST, NEXT
  <2>5. \A a \in held : Start(a) \notin s..(s + n - 1)
    <3> SUFFICES ASSUME NEW a \in held, Start(a) \in s..(s + n - 1)
                 PROVE  FALSE
      OBVIOUS
    <3>1. Start(a) \in Block /\ Start(a) \in Extent(a)
      BY HeldType DEF IInv
    <3>2. ~IsFree(entries, Start(a))
      BY <3>1, HeldIsTaken DEF IInv
    <3> QED
      BY <2>2, <3>1, <3>2
  <2>6. \A x \in Block : FIRST \in entries'[x] <=> \E a \in held' : x = Start(a)
    <3> SUFFICES ASSUME NEW x \in Block
                 PROVE  FIRST \in entries'[x] <=> \E a \in held' : x = Start(a)
      OBVIOUS
    <3>1. CASE n = 0
      <4>1. x \notin s..(s + n - 1) /\ held' = held
        BY <2>1, <2>3, <3>1
      <4> QED
        BY <2>4, <4>1 DEF FirstExact
    <3>2. CASE n # 0
      <4>1. held' = held \cup {new} /\ s \in s..(s + n - 1)
        BY <2>1, <2>3, <3>2
      <4>2. CASE x \in s..(s + n - 1)
        BY <2>3, <2>4, <2>5, <4>1, <4>2
      <4>3. CASE x \notin s..(s + n - 1)
        BY <2>3, <2>4, <4>1, <4>3 DEF FirstExact
      <4> QED
        BY <4>2, <4>3
    <3> QED
      BY <3>1, <3>2
  <2> QED
    BY <2>6 DEF FirstExact, Start, heap_address_to_block
<1> QED
  BY <1>1, <1>2

\* The entries that a free changes are those of the allocation.
LEMMA FreedEntries ==
    ASSUME IInv, NEW a \in held, heap_free(a)
    PROVE  \A x \in Block : entries'[x] = IF x \in Extent(a) THEN FREE ELSE entries[x]
<1>1. entries' = heap_mark_blocks_free(entries, Start(a))
  BY DEF heap_free, Start
<1>2. Chain(entries, Start(a)) = Extent(a) \cap Block
  BY ChainIsExtent DEF IInv
<1> QED
  BY <1>1, <1>2 DEF heap_mark_blocks_free

\* A free takes away the IS_FIRST of its allocation and of no other.
LEMMA FreeFirst ==
    ASSUME IInv, FirstExact, NEW a \in held, heap_free(a)
    PROVE  FirstExact'
<1>1. \A x \in Block : entries'[x] = IF x \in Extent(a) THEN FREE ELSE entries[x]
  BY FreedEntries
<1>2. held' = held \ {a}
  BY DEF heap_free
<1>3. \A b \in held : Start(b) \in Extent(b)
  BY HeldType DEF IInv
<1>4. \A x \in Block : FIRST \in entries'[x] <=> \E b \in held' : x = Start(b)
  <2> SUFFICES ASSUME NEW x \in Block
               PROVE  FIRST \in entries'[x] <=> \E b \in held' : x = Start(b)
    OBVIOUS
  <2>1. CASE x \in Extent(a)
    BY <1>1, <1>2, <1>3, <2>1 DEF IInv, Disjoint, FREE
  <2>2. CASE x \notin Extent(a)
    BY <1>1, <1>2, <1>3, <2>2 DEF FirstExact
  <2> QED
    BY <2>1, <2>2
<1> QED
  BY <1>4 DEF FirstExact, Start, heap_address_to_block

\* The invariant under which every step refines a step of the abstract allocator.
RInv == IInv /\ FirstExact

\* It holds at the start.
LEMMA InitRInv == Init => RInv
  BY InitIInv, InitFirst DEF RInv

\* Every step keeps it.
LEMMA NextRInv == RInv /\ [Next]_vars => RInv'
<1> SUFFICES ASSUME RInv, [Next]_vars
             PROVE  RInv'
  OBVIOUS
<1>1. CASE \E size \in Sizes : heap_malloc(size)
  BY <1>1, RequestedBlocksNat, MallocIInv, MallocFirst DEF heap_malloc, RInv
<1>2. CASE \E a \in held : heap_free(a)
  BY <1>2, FreeIInv, FreeFirst DEF RInv
<1>3. CASE UNCHANGED vars
  <2>1. IInv'
    BY <1>3, NextIInv DEF RInv
  <2> QED
    BY <1>3, <2>1 DEF vars, RInv, FirstExact, Start, heap_address_to_block
<1> QED
  BY <1>1, <1>2, <1>3 DEF Next

-----------------------------------------------------------------------------
(* Every step is a step of the abstract allocator.                         *)

\* The flags after a step are those of the allocations after it.
LEMMA DecodeIsRunsNext == RInv' => Decode(entries') = Runs'
<1>1. RInv => Decode(entries) = Runs
  BY DecodeIsRuns DEF RInv
<1>2. RInv' => (Decode(entries) = Runs)'
  BY <1>1, PTL
<1> QED
  BY <1>2 DEF Decode, Chain

\* What the abstract answer is, by what heap_malloc returned.
LEMMA AnswerOfBlock ==
    ASSUME NEW b \in Block
    PROVE  heap_block_to_address(b) # NULL /\ heap_address_to_block(heap_block_to_address(b)) = b
  BY BlockAddress DEF NULL

\* A new allocation adds its run, and a freed one takes away its run alone.
LEMMA RunsGrow ==
    ASSUME NEW new, held' = held \cup {new}
    PROVE  Runs' = Runs \cup {Run(new)}
  BY DEF Runs, Run, Start, End, Last, heap_address_to_block

\* Freeing an allocation takes away its run and no other.
LEMMA RunsShrink ==
    ASSUME TypeOK, Disjoint, NEW a \in held, held' = held \ {a}
    PROVE  Runs' = Runs \ {Run(a)}
<1>1. \A b \in held : Run(b) = Run(a) => b = a
  <2> SUFFICES ASSUME NEW b \in held, Run(b) = Run(a), b # a
               PROVE  FALSE
    OBVIOUS
  <2>1. Start(a) = Start(b)
    BY DEF Run
  <2> QED
    BY <2>1, HeldType DEF Disjoint
<1>2. Runs' = {Run(b) : b \in held'}
  BY DEF Runs, Run, Start, End, Last, heap_address_to_block
<1> HIDE DEF Run
<1> QED
  BY <1>1, <1>2 DEF Runs

\* A refused request.
LEMMA RefusedStep ==
    ASSUME RInv, NEW n \in Nat, heap_malloc_blocks(n), heap_get_start_block(entries, n) < 0
    PROVE  \/ n > 0 /\ Allocator!Refuse(n)
           \/ n = 0 /\ Allocator!GrantNone
<1>1. ret' = NULL /\ entries' = entries
  BY DEF heap_malloc_blocks
<1>2. n > 0 => FreeRunStarts(entries, n) = {}
  <2> SUFFICES ASSUME n > 0, FreeRunStarts(entries, n) # {}
               PROVE  FALSE
    OBVIOUS
  <2>1. heap_get_start_block(entries, n) \in FreeRunStarts(entries, n)
    BY MinimumIn DEF heap_get_start_block, FreeRunStarts
  <2> QED
    BY <2>1, HeapAssumption DEF FreeRunStarts, Block
<1>3. n > 0 => Allocator!FreeRuns(n) = {}
  BY <1>2, FreeRunsAreStarts DEF RInv
<1> QED
  BY <1>1, <1>3 DEF Allocator!Refuse, Allocator!GrantNone

\* A request for no blocks that is answered with a block.
LEMMA NothingStep ==
    ASSUME RInv, heap_malloc_blocks(0), ~(heap_get_start_block(entries, 0) < 0)
    PROVE  Allocator!GrantNone
<1> DEFINE s == heap_get_start_block(entries, 0)
<1>1. ret' = heap_block_to_address(s) /\ entries' = heap_mark_blocks_taken(entries, s, 0)
  BY DEF heap_malloc_blocks
<1>2. s = Minimum(TailStarts(entries)) /\ TailStarts(entries) # {}
  BY DEF heap_get_start_block, ENOMEM
<1>3. s \in TailStarts(entries)
  BY <1>2, MinimumIn DEF TailStarts
<1>4. s \in Block /\ IsFree(entries, s)
  BY <1>3, HeapAssumption DEF TailStarts, Block
<1> HIDE DEF s
<1>5. entries' = entries
  <2>1. \A x \in Block : x \notin s..(s + 0 - 1)
    BY <1>4, HeapAssumption DEF Block
  <2> QED
    BY <1>1, <2>1 DEF heap_mark_blocks_taken, RInv, IInv, TypeOK
<1>6. s \in Allocator!Unowned
  BY <1>4, UnownedIsFree DEF RInv
<1> QED
  BY <1>1, <1>4, <1>5, <1>6, AnswerOfBlock DEF Allocator!GrantNone

\* A granted request: all that was asked for, or what there is at the end of the table.
LEMMA GrantedStep ==
    ASSUME RInv, RInv', NEW n \in Nat \ {0}, heap_malloc_blocks(n),
           ~(heap_get_start_block(entries, n) < 0)
    PROVE  Allocator!Grant(n) \/ Allocator!GrantShort(n)
<1> DEFINE s == heap_get_start_block(entries, n)
           new == [addr |-> heap_block_to_address(s), blocks |-> n]
<1>1. ret' = heap_block_to_address(s) /\ held' = held \cup {new}
  BY DEF heap_malloc_blocks
<1>2. s \in Block /\ s \in Nat /\ s < Total /\ Total \in Nat
  BY GetStartBlock, HeapAssumption DEF RInv, IInv, TypeOK, Block
<1>3. \/ s \in FreeRunStarts(entries, n)
      \/ FreeRunStarts(entries, n) = {} /\ s \in TailStarts(entries)
  <2>1. CASE FreeRunStarts(entries, n) # {}
    BY <2>1, MinimumIn DEF heap_get_start_block, FreeRunStarts
  <2>2. CASE FreeRunStarts(entries, n) = {}
    <3>1. TailStarts(entries) # {} /\ s = Minimum(TailStarts(entries))
      BY <2>2 DEF heap_get_start_block, ENOMEM
    <3> QED
      BY <2>2, <3>1, MinimumIn DEF TailStarts
  <2> QED
    BY <2>1, <2>2
<1> HIDE DEF s
<1>4. Start(new) = s /\ Last(new) = s + n - 1
  BY <1>2, AnswerOfBlock DEF Start, Last
<1> HIDE DEF new
<1>5. Decode(entries') = Decode(entries) \cup {Run(new)}
  BY <1>1, RunsGrow, DecodeIsRuns, DecodeIsRunsNext DEF RInv
<1>6. (IF ret' = NULL THEN -1 ELSE heap_address_to_block(ret')) = s
  BY <1>1, <1>2, AnswerOfBlock
<1>7. CASE s \in FreeRunStarts(entries, n)
  <2>1. s + n - 1 <= Total - 1
    BY <1>2, <1>7 DEF FreeRunStarts
  <2>2. Run(new) = <<s, s + n - 1>>
    BY <1>2, <1>4, <2>1 DEF Run, End
  <2>3. <<s, s + n - 1>> \in Allocator!FreeRuns(n)
    BY <1>7, FreeRunsAreStarts DEF RInv
  <2> QED
    BY <1>5, <1>6, <2>2, <2>3 DEF Allocator!Grant
<1>8. CASE FreeRunStarts(entries, n) = {} /\ s \in TailStarts(entries)
  <2> DEFINE m == Total - s
  <2>1. \A x \in s..(Total - 1) : IsFree(entries, x)
    BY <1>8 DEF TailStarts
  <2>2. m \in 1..(n - 1)
    <3> SUFFICES ASSUME n <= m
                 PROVE  FALSE
      BY <1>2
    <3>1. s \in FreeRunStarts(entries, n)
      BY <1>2, <2>1 DEF FreeRunStarts
    <3> QED
      BY <1>8, <3>1
  <2>3. s \in FreeRunStarts(entries, m) /\ s + m - 1 = Total - 1
    BY <1>2, <2>1 DEF FreeRunStarts
  <2>4. Run(new) = <<s, Total - 1>>
    BY <1>2, <1>4, <2>2 DEF Run, End
  <2>5. m \in Nat \ {0}
    BY <1>2, <2>2
  <2> HIDE DEF m
  <2>6. <<s, Total - 1>> \in Allocator!FreeRuns(m)
    BY <2>3, <2>5, FreeRunsAreStarts DEF RInv
  <2>7. Allocator!FreeRuns(n) = {}
    BY <1>8, FreeRunsAreStarts DEF RInv
  <2> QED
    BY <1>5, <1>6, <2>2, <2>4, <2>6, <2>7 DEF Allocator!GrantShort
<1> QED
  BY <1>3, <1>7, <1>8

\* A free releases the run of its allocation.
LEMMA ReleasedStep ==
    ASSUME RInv, RInv', NEW a \in held, heap_free(a)
    PROVE  \E r \in Decode(entries) : Allocator!Release(r)
<1>1. Decode(entries) = Runs /\ Decode(entries') = Runs'
  BY DecodeIsRuns, DecodeIsRunsNext DEF RInv
<1>2. held' = held \ {a} /\ ret' = ret
  BY DEF heap_free
<1>3. Runs' = Runs \ {Run(a)}
  BY <1>2, RunsShrink DEF RInv, IInv
<1>4. Run(a) \in Runs
  BY DEF Runs
<1> QED
  BY <1>1, <1>2, <1>3, <1>4 DEF Allocator!Release

\* The empty table is the initial state of the abstract allocator.
LEMMA InitRefines == Init => Allocator!AllocInit
  BY DEF Init, Allocator!AllocInit, Decode, FREE

\* Every step is a step of the abstract allocator, or changes nothing of it.
LEMMA NextRefines ==
    RInv /\ RInv' /\ [Next]_vars => [Allocator!ActualNext]_(Allocator!allocVars)
<1> SUFFICES ASSUME RInv, RInv', [Next]_vars
             PROVE  [Allocator!ActualNext]_(Allocator!allocVars)
  OBVIOUS
<1>1. ASSUME NEW size \in Sizes, heap_malloc(size)
      PROVE  Allocator!ActualNext
  <2> DEFINE n == RequestedBlocks(size)
  <2>1. n \in Nat /\ heap_malloc_blocks(n) /\ n \in {RequestedBlocks(t) : t \in Sizes}
    BY <1>1, RequestedBlocksNat DEF heap_malloc
  <2> HIDE DEF n
  <2>2. CASE heap_get_start_block(entries, n) < 0
    BY <2>1, <2>2, RefusedStep DEF Allocator!ActualNext, Allocator!PromiseNext
  <2>3. CASE n = 0 /\ ~(heap_get_start_block(entries, n) < 0)
    BY <2>1, <2>3, NothingStep DEF Allocator!ActualNext, Allocator!PromiseNext
  <2>4. CASE n # 0 /\ ~(heap_get_start_block(entries, n) < 0)
    BY <2>1, <2>4, GrantedStep DEF Allocator!ActualNext, Allocator!PromiseNext
  <2> QED
    BY <2>2, <2>3, <2>4
<1>2. ASSUME NEW a \in held, heap_free(a)
      PROVE  Allocator!ActualNext
  BY <1>2, ReleasedStep DEF Allocator!ActualNext, Allocator!PromiseNext
<1>3. CASE UNCHANGED vars
  BY <1>3 DEF vars, Allocator!allocVars
<1> QED
  BY <1>1, <1>2, <1>3 DEF Next

\* Every call of heap_malloc and heap_free is a step of the allocator that knows
\* no table: a request gets the first run that is free, or the shorter run at the
\* end of the table, or NULL, and a free releases the blocks that were granted.
THEOREM HeapImplementsAllocator == Spec => ImplementsActual
<1>1. Spec => []RInv
  BY InitRInv, NextRInv, PTL DEF Spec
<1> QED
  BY <1>1, InitRefines, NextRefines, PTL DEF Spec, ImplementsActual, Allocator!Actual

-----------------------------------------------------------------------------
(* The interrupted heap.                                                   *)

\* The allocations that no call of the main line is freeing.
Mine == held \ {freed}

\* A block of an allocation carries its flags.
Flagged(a, b) == TAKEN \in entries[b] /\ (NEXT \in entries[b] <=> b # Last(a))

\* What the state of the loops is made of.
LoopTyped ==
    /\ TypeOK
    /\ pc \in {"idle", "search", "found", "take", "free"}
    /\ i \in Nat /\ block_counter \in Nat /\ total_blocks \in Nat
    /\ start_block \in Block \cup {-1}
    /\ entry \in Entry
    /\ pc # "take" => i <= Total
    /\ freed = NoAllocation <=> pc # "free"
    /\ interrupts \in Nat /\ disturbed \in BOOLEAN

\* The flags of every allocation that is not being freed are right, whatever the handler took since.
HeldFlagged == \A a \in Mine : \A b \in Extent(a) \cap Block : Flagged(a, b)

\* The blocks of a call of heap_free that are still to be freed have their flags.
Freeing ==
    pc = "free" =>
        /\ freed \in held
        /\ Start(freed) <= i /\ (i <= Last(freed) \/ i = Total)
        /\ \A b \in Extent(freed) \cap Block : b >= i => Flagged(freed, b)

\* No allocation has a block from first to last.
Unheld(first, last) == \A a \in held : \A b \in first..last : b \notin Extent(a)

\* The run that the search has counted so far is in nobody's hands.  The handler may have taken
\* blocks of it since: that it is free is not part of the invariant.
Searching ==
    pc = "search" =>
        /\ start_block = -1 => block_counter = 0
        /\ start_block # -1 =>
              /\ start_block + block_counter = i /\ block_counter > 0
              /\ total_blocks = 0 \/ block_counter < total_blocks
              /\ Unheld(start_block, i - 1)

\* Nor is the run that the search has found.
Granting ==
    pc \in {"found", "take"} /\ start_block # -1 => Unheld(start_block, EndBlock)

\* What the loop has taken is flagged as an allocation would be, and the entry it writes next is right.
Taking ==
    pc = "take" =>
        /\ start_block # -1 /\ start_block <= i /\ i <= EndBlock + 1
        /\ \A b \in Block : start_block <= b /\ b < i =>
              TAKEN \in entries[b] /\ (NEXT \in entries[b] <=> b # EndBlock)
        /\ i <= EndBlock =>
              entry = {TAKEN} \cup (IF i = start_block THEN {FIRST} ELSE {})
                              \cup (IF i # EndBlock THEN {NEXT} ELSE {})

\* What is taken and not owned was taken by the handler.
LostBounded == Cardinality(TakenIn(entries) \ Owned) <= RowCopies * interrupts

\* The inductive invariant of the interrupted heap.
SafeInv == LoopTyped /\ Disjoint /\ HeldFlagged /\ Freeing /\ Searching /\ Granting /\ Taking

\* What a call that nothing interrupts has found out or done so far, against the
\* table it began with.
SearchedSoFar ==
    pc = "search" =>
        /\ entries = before
        /\ total_blocks > 0 => \A s \in FreeRunStarts(before, total_blocks) : s + total_blocks > i
        /\ start_block = -1 => (i = 0 \/ ~IsFree(before, i - 1))
        /\ start_block # -1 =>
              /\ \A b \in Block : start_block <= b /\ b < i => IsFree(before, b)
              /\ start_block = 0 \/ ~IsFree(before, start_block - 1)

\* The search found the run that the search of the whole table finds.
SearchRight ==
    pc \in {"found", "take"} =>
        IF start_block = -1 THEN heap_get_start_block(before, total_blocks) < 0
        ELSE heap_get_start_block(before, total_blocks) = start_block

\* The entry of a block of the allocation being taken.
Marked(b) ==
    {TAKEN} \cup (IF b = start_block THEN {FIRST} ELSE {}) \cup (IF b # EndBlock THEN {NEXT} ELSE {})

\* The blocks before i are marked, the others are as the call found them.
TakenSoFar ==
    /\ pc = "found" => entries = before
    /\ pc = "take" =>
         entries = [b \in Block |-> IF start_block <= b /\ b < i THEN Marked(b) ELSE before[b]]

\* The blocks before i are free, the others are as the call found them.
FreedSoFar ==
    pc = "free" =>
        /\ entries = [b \in Block |-> IF Start(freed) <= b /\ b < i THEN FREE ELSE before[b]]
        /\ \A b \in Block : Start(freed) <= b /\ b < i => NEXT \in before[b]

\* The blocks that are looked for come from a size that was asked for.
Requested ==
    pc \in {"search", "found", "take"} => \E size \in Sizes : total_blocks = RequestedBlocks(size)

\* What is known of a call that nothing has interrupted.
Progress ==
    /\ Requested
    /\ ~disturbed => SearchedSoFar /\ SearchRight /\ TakenSoFar /\ FreedSoFar
    /\ before \in [Block -> Entry]

-----------------------------------------------------------------------------
(* The handler: one block for each row.                                    *)

\* A heap table.
Table == [Block -> Entry]

\* The table after one more row.
NextRow(t) ==
    LET start == heap_get_start_block(t, 1)
    IN  IF start < 0 THEN t ELSE heap_mark_blocks_taken(t, start, 1)

\* A table that differs from another in at most n blocks, which were free and are
\* taken now.
Grown(t, u, n) ==
    /\ u \in Table
    /\ \A b \in Block : ~IsFree(t, b) => u[b] = t[b]
    /\ \A b \in Block : u[b] # t[b] => u[b] = {TAKEN, FIRST}
    /\ IsFiniteSet(TakenIn(u) \ TakenIn(t))
    /\ Cardinality(TakenIn(u) \ TakenIn(t)) <= n

\* One more row takes one more block at most.
LEMMA NextRowGrows ==
    ASSUME NEW t \in Table, NEW u, NEW n \in Nat, Grown(t, u, n)
    PROVE  Grown(t, NextRow(u), n + 1)
<1> DEFINE s == heap_get_start_block(u, 1)
           new == TakenIn(u) \ TakenIn(t)
<1>1. u \in [Block -> Entry] /\ IsFiniteSet(new) /\ Cardinality(new) <= n
  BY DEF Grown, Table
<1>2. Cardinality(new) \in Nat
  BY <1>1, FS_CardinalityType
<1>3. CASE s < 0
  <2>1. NextRow(u) = u
    BY <1>3 DEF NextRow
  <2> HIDE DEF new
  <2>2. Cardinality(new) <= n + 1
    BY <1>1, <1>2
  <2> QED
    BY <2>1, <2>2 DEF Grown, new
<1>4. CASE ~(s < 0)
  <2>1. NextRow(u) = heap_mark_blocks_taken(u, s, 1)
    BY <1>4 DEF NextRow
  <2>2. s \in Block /\ \A b \in Block : s <= b /\ b <= s + 1 - 1 => IsFree(u, b)
    BY <1>1, <1>4, GetStartBlock
  <2> HIDE DEF s
  <2>3. s \in Int /\ s..(s + 1 - 1) = {s} /\ s + 1 - 1 = s
    BY <2>2, HeapAssumption DEF Block
  <2>4. NextRow(u) = [u EXCEPT ![s] = {TAKEN, FIRST}]
    BY <1>1, <2>1, <2>2, <2>3 DEF heap_mark_blocks_taken
  <2>5. IsFree(u, s)
    BY <2>2, <2>3
  <2> DEFINE v == NextRow(u)
  <2>6. v \in Table /\ v[s] = {TAKEN, FIRST} /\ \A b \in Block : b # s => v[b] = u[b]
    BY <1>1, <2>2, <2>4 DEF Table, Entry
  <2> HIDE DEF v
  <2>7. \A b \in Block : ~IsFree(t, b) => b # s
    BY <2>5 DEF Grown, IsFree
  <2>8. TakenIn(v) = TakenIn(u) \cup {s}
    BY <2>2, <2>6 DEF TakenIn, IsFree
  <2>9. TakenIn(v) \ TakenIn(t) \subseteq new \cup {s}
    BY <2>8
  <2>10. IsFiniteSet(new \cup {s}) /\ Cardinality(new \cup {s}) <= n + 1
    <3> HIDE DEF new
    <3>1. /\ IsFiniteSet(new \cup {s})
          /\ Cardinality(new \cup {s}) = IF s \in new THEN Cardinality(new) ELSE Cardinality(new) + 1
      BY <1>1, FS_AddElement, Zenon
    <3> QED
      BY <1>1, <1>2, <3>1
  <2>11. /\ IsFiniteSet(TakenIn(v) \ TakenIn(t))
         /\ Cardinality(TakenIn(v) \ TakenIn(t)) <= n + 1
    <3> DEFINE A == TakenIn(v) \ TakenIn(t)
               B == new \cup {s}
    <3>1. A \in SUBSET B
      BY <2>9
    <3> HIDE DEF A, B
    <3>2. IsFiniteSet(A) /\ Cardinality(A) <= Cardinality(B)
      BY <2>10, <3>1, FS_Subset DEF B
    <3>3. Cardinality(A) \in Nat /\ Cardinality(B) \in Nat
      BY <2>10, <3>2, FS_CardinalityType DEF B
    <3> QED
      BY <2>10, <3>2, <3>3 DEF A, B
  <2> QED
    BY <2>6, <2>7, <2>11 DEF Grown, v
<1> QED
  BY <1>3, <1>4

\* The recursion of AfterRowCopies has a solution.
LEMMA RowsDefined ==
    ASSUME NEW t
    PROVE  \E f : /\ AfterRowCopies(t) = f[RowCopies]
                  /\ \A k \in 0..RowCopies : f[k] = IF k = 0 THEN t ELSE NextRow(f[k - 1])
<1> DEFINE Rows == 0..RowCopies
           Body(f) == [k \in Rows |-> IF k = 0 THEN t ELSE NextRow(f[k - 1])]
           Good(f, n) == \A k \in Rows : k <= n => f[k] = IF k = 0 THEN t ELSE NextRow(f[k - 1])
           Possible(n) == \E f : f = [k \in Rows |-> f[k]] /\ Good(f, n)
           S == {n \in Nat : Possible(n)}
<1>1. RowCopies \in Nat
  BY InterruptAssumption
<1>2. 0 \in S
  <2> DEFINE f == [k \in Rows |-> t]
  <2>1. f = [k \in Rows |-> f[k]]
    OBVIOUS
  <2>2. Good(f, 0)
    <3> SUFFICES ASSUME NEW k \in Rows, k <= 0
                 PROVE  f[k] = IF k = 0 THEN t ELSE NextRow(f[k - 1])
      OBVIOUS
    <3>1. k = 0 /\ f[k] = t
      BY <1>1
    <3> QED
      BY <3>1
  <2> QED
    BY <2>1, <2>2
<1>3. ASSUME NEW n \in S
      PROVE  n + 1 \in S
  <2>1. n \in Nat
    OBVIOUS
  <2>2. PICK f : f = [k \in Rows |-> f[k]] /\ Good(f, n)
    OBVIOUS
  <2> HIDE DEF S
  <2> DEFINE g == [k \in Rows |-> IF k = n + 1 THEN NextRow(f[n]) ELSE f[k]]
  <2>3. \A k \in Rows : g[k] = IF k = n + 1 THEN NextRow(f[n]) ELSE f[k]
    OBVIOUS
  <2>4. g = [k \in Rows |-> g[k]]
    OBVIOUS
  <2> HIDE DEF g
  <2>5. Good(g, n + 1)
    <3> SUFFICES ASSUME NEW k \in Rows, k <= n + 1
                 PROVE  g[k] = IF k = 0 THEN t ELSE NextRow(g[k - 1])
      OBVIOUS
    <3>1. k \in Nat /\ (k # 0 => k - 1 \in Rows /\ k - 1 <= n /\ k - 1 # n + 1)
      BY <1>1, <2>1
    <3>2. CASE k = n + 1
      BY <1>1, <2>1, <2>3, <3>1, <3>2
    <3>3. CASE k # n + 1
      <4>1. k <= n
        BY <2>1, <3>1, <3>3
      <4>2. g[k] = f[k] /\ (k # 0 => g[k - 1] = f[k - 1])
        BY <2>3, <3>1, <3>3
      <4>3. f[k] = IF k = 0 THEN t ELSE NextRow(f[k - 1])
        BY <2>2, <4>1
      <4> QED
        BY <4>2, <4>3
    <3> QED
      BY <3>2, <3>3
  <2>6. Possible(n + 1)
    <3> HIDE DEF Good
    <3> QED
      BY <2>4, <2>5
  <2> HIDE DEF Possible
  <2> QED
    BY <2>1, <2>6 DEF S
<1>4. RowCopies \in S
  <2>1. S \in SUBSET Nat
    OBVIOUS
  <2> HIDE DEF S
  <2> QED
    BY <1>1, <1>2, <1>3, <2>1, SetInduction
<1>5. PICK f : f = [k \in Rows |-> f[k]] /\ Good(f, RowCopies)
  BY <1>4
<1> HIDE DEF S
<1>6. f = Body(f)
  <2>1. ASSUME NEW k \in Rows
        PROVE  f[k] = IF k = 0 THEN t ELSE NextRow(f[k - 1])
    <3>1. k <= RowCopies
      BY <1>1
    <3>2. Good(f, RowCopies)
      BY <1>5
    <3> QED
      BY <3>1, <3>2
  <2> QED
    BY <1>5, <2>1
<1> DEFINE after == CHOOSE h : h = Body(h)
<1>7. after = Body(after)
  <2> HIDE DEF Body
  <2> QED
    BY <1>6
<1>8. AfterRowCopies(t) = after[RowCopies]
  BY DEF AfterRowCopies, NextRow
<1> HIDE DEF after
<1>9. \A k \in Rows : after[k] = IF k = 0 THEN t ELSE NextRow(after[k - 1])
  BY <1>7
<1> QED
  BY <1>8, <1>9

\* A scroll takes at most one block for each row.
LEMMA RowsGrow ==
    ASSUME NEW t \in Table
    PROVE  Grown(t, AfterRowCopies(t), RowCopies)
<1>1. PICK f : /\ AfterRowCopies(t) = f[RowCopies]
               /\ \A k \in 0..RowCopies : f[k] = IF k = 0 THEN t ELSE NextRow(f[k - 1])
  BY RowsDefined
<1>2. RowCopies \in Nat
  BY InterruptAssumption
<1> DEFINE S == {n \in Nat : n <= RowCopies => Grown(t, f[n], n)}
<1>3. 0 \in S
  <2>1. TakenIn(t) \ TakenIn(t) = {}
    OBVIOUS
  <2>2. f[0] = t
    BY <1>1, <1>2
  <2> QED
    BY <2>1, <2>2, FS_EmptySet DEF Grown
<1>4. ASSUME NEW n \in S
      PROVE  n + 1 \in S
  <2>1. ASSUME n + 1 <= RowCopies
        PROVE  Grown(t, f[n + 1], n + 1)
    <3>1. Grown(t, f[n], n)
      BY <1>2, <2>1
    <3>2. n + 1 \in 0..RowCopies /\ n + 1 # 0 /\ (n + 1) - 1 = n /\ n \in Nat
      BY <1>2, <2>1
    <3>3. f[n + 1] = NextRow(f[n])
      BY <1>1, <3>2
    <3> QED
      BY <3>1, <3>2, <3>3, NextRowGrows
  <2> QED
    BY <2>1
<1>5. RowCopies \in S
  <2>1. S \in SUBSET Nat
    OBVIOUS
  <2> HIDE DEF S
  <2> QED
    BY <1>2, <1>3, <1>4, <2>1, SetInduction
<1> QED
  BY <1>1, <1>5

-----------------------------------------------------------------------------
(* What an interrupted main line holds.                                    *)

\* The invariant holds at the start.
LEMMA InitSafe == IntInit => SafeInv
<1> SUFFICES ASSUME IntInit
             PROVE  SafeInv
  OBVIOUS
<1>1. /\ entries \in [Block -> Entry] /\ held = {} /\ ret = NULL /\ pc = "idle"
      /\ i = 0 /\ block_counter = 0 /\ start_block = -1 /\ total_blocks = 0
      /\ entry \in Entry /\ freed = NoAllocation /\ interrupts = 0 /\ disturbed \in BOOLEAN
  BY DEF IntInit, LoopInit, Init, FREE, Entry
<1>2. LoopTyped
  <2>1. TypeOK
    BY <1>1 DEF TypeOK
  <2>2. 0 <= Total
    BY HeapAssumption
  <2> QED
    BY <1>1, <2>1, <2>2 DEF LoopTyped
<1>3. Disjoint /\ HeldFlagged
  BY <1>1 DEF Disjoint, HeldFlagged, Mine
<1>4. Freeing /\ Searching /\ Granting /\ Taking
  BY <1>1 DEF Freeing, Searching, Granting, Taking
<1> QED
  BY <1>2, <1>3, <1>4 DEF SafeInv

\* A run that nobody holds and that goes to the end of the table can be extended
\* behind it: an allocation that lies there would hold the last block.
LEMMA UnheldBeyond ==
    ASSUME TypeOK, NEW first \in Block, Unheld(first, Total - 1), NEW last \in Int
    PROVE  Unheld(first, last)
<1> SUFFICES ASSUME NEW a \in held, NEW b \in first..last, b \in Extent(a)
             PROVE  FALSE
  BY DEF Unheld
<1>1. Start(a) \in Nat /\ Start(a) < Total /\ Total \in Nat /\ Last(a) \in Nat
  BY HeldType
<1>2. b \in Start(a)..Last(a) /\ first \in Nat /\ first < Total
  BY <1>1 DEF Extent, Last, Block
<1>3. CASE b < Total
  <2>1. b \in first..(Total - 1)
    BY <1>1, <1>2, <1>3
  <2> QED
    BY <2>1 DEF Unheld
<1>4. CASE b >= Total
  <2>1. Total - 1 \in Start(a)..Last(a) /\ Total - 1 \in first..(Total - 1)
    BY <1>1, <1>2, <1>4
  <2> QED
    BY <2>1 DEF Unheld, Extent, Last
<1> QED
  BY <1>1, <1>2, <1>3, <1>4

\* What the handler's rows do to the table.
LEMMA HandlerRows ==
    ASSUME SafeInv, ScrollInHandler
    PROVE  Grown(entries, entries', RowCopies)
  BY RowsGrow DEF SafeInv, LoopTyped, TypeOK, ScrollInHandler, Table

\* The handler takes free blocks, so nothing that the main line has marked changes.
LEMMA HandlerSafe ==
    ASSUME SafeInv, ScrollInHandler
    PROVE  SafeInv'
<1>1. /\ entries' \in [Block -> Entry]
      /\ \A b \in Block : TAKEN \in entries[b] => entries'[b] = entries[b]
  BY HandlerRows DEF Grown, Table, IsFree
<1>2. /\ UNCHANGED <<held, ret, pc, i, block_counter, start_block, total_blocks, entry, freed, before>>
      /\ interrupts' = interrupts + 1 /\ disturbed' \in BOOLEAN
  BY DEF ScrollInHandler, loopVars
<1>3. LoopTyped'
  BY <1>1, <1>2 DEF SafeInv, LoopTyped, TypeOK, heap_block_to_address, NoAllocation
<1>4. Disjoint'
  BY <1>2 DEF SafeInv, Disjoint, Extent, Start, heap_address_to_block
<1>5. HeldFlagged'
  BY <1>1, <1>2 DEF SafeInv, HeldFlagged, Mine, Flagged, Last, Extent, Start, heap_address_to_block
<1>6. Freeing'
  BY <1>1, <1>2 DEF SafeInv, Freeing, Flagged, Last, Extent, Start, heap_address_to_block
<1>7. Searching'
  BY <1>1, <1>2 DEF SafeInv, Searching, Unheld, Extent, Start, heap_address_to_block
<1>8. Granting'
  BY <1>1, <1>2 DEF SafeInv, Granting, EndBlock, Unheld, Extent, Start, heap_address_to_block
<1>9. Taking'
  BY <1>1, <1>2 DEF SafeInv, Taking, EndBlock
<1> QED
  BY <1>3, <1>4, <1>5, <1>6, <1>7, <1>8, <1>9 DEF SafeInv

\* Calls of heap_malloc begin.
LEMMA CallMallocSafe ==
    ASSUME SafeInv, NEW size \in Sizes, CallMalloc(size), interrupts' = interrupts, disturbed' \in BOOLEAN
    PROVE  SafeInv'
<1>1. total_blocks' \in Nat
  BY RequestedBlocksNat DEF CallMalloc
<1>2. UNCHANGED <<entries, held, ret, entry, freed>> /\ pc = "idle" /\ pc' = "search"
      /\ i' = 0 /\ block_counter' = 0 /\ start_block' = -1
  BY DEF CallMalloc, vars
<1>3. LoopTyped'
  BY <1>1, <1>2, HeapAssumption DEF SafeInv, LoopTyped, TypeOK, heap_block_to_address, NoAllocation
<1>4. Disjoint'
  BY <1>2 DEF SafeInv, Disjoint, Extent, Start, heap_address_to_block
<1>5. HeldFlagged'
  BY <1>2 DEF SafeInv, HeldFlagged, Mine, Flagged, Last, Extent, Start, heap_address_to_block
<1> QED
  BY <1>2, <1>3, <1>4, <1>5 DEF SafeInv, Freeing, Searching, Granting, Taking

\* One entry of the search; a free one is in nobody's hands.
LEMMA SearchSafe ==
    ASSUME SafeInv, SearchTaken \/ SearchFree \/ SearchEnd, interrupts' = interrupts, disturbed' \in BOOLEAN
    PROVE  SafeInv'
<1>1. /\ UNCHANGED <<entries, held, ret, total_blocks, entry, freed, before>>
      /\ pc = "search" /\ pc' \in {"search", "found"} /\ freed = NoAllocation
  BY DEF SearchTaken, SearchFree, SearchEnd, vars, SafeInv, LoopTyped
<1>2. Disjoint'
  BY <1>1 DEF SafeInv, Disjoint, Extent, Start, heap_address_to_block
<1>3. HeldFlagged'
  BY <1>1 DEF SafeInv, HeldFlagged, Mine, Flagged, Last, Extent, Start, heap_address_to_block
<1>4. Freeing' /\ Taking'
  BY <1>1 DEF Freeing, Taking
<1>5. CASE SearchTaken
  <2>1. LoopTyped'
    BY <1>1, <1>5, HeapAssumption DEF SearchTaken, SafeInv, LoopTyped, TypeOK, heap_block_to_address, NoAllocation
  <2>2. Searching' /\ Granting'
    BY <1>1, <1>5 DEF SearchTaken, Searching, Granting
  <2> QED
    BY <1>2, <1>3, <1>4, <2>1, <2>2 DEF SafeInv
<1>6. CASE SearchEnd
  <2>1. LoopTyped'
    BY <1>1, <1>6, HeapAssumption DEF SearchEnd, SafeInv, LoopTyped, TypeOK, heap_block_to_address, NoAllocation
  <2>2. Searching'
    BY <1>1, <1>6 DEF SearchEnd, Searching
  <2>3. ASSUME start_block # -1
        PROVE  Unheld(start_block, EndBlock)
    <3>1. start_block \in Block /\ i = Total /\ Unheld(start_block, Total - 1) /\ total_blocks \in Nat
      BY <1>6, <2>3 DEF SearchEnd, SafeInv, LoopTyped, Searching
    <3>2. EndBlock \in Int
      BY <3>1, HeapAssumption DEF EndBlock, Block
    <3> QED
      BY <3>1, <3>2, UnheldBeyond DEF SafeInv, LoopTyped
  <2>4. Granting'
    BY <1>1, <1>6, <2>3
       DEF SearchEnd, Granting, Unheld, EndBlock, Extent, Start, heap_address_to_block
  <2> QED
    BY <1>2, <1>3, <1>4, <2>1, <2>2, <2>4 DEF SafeInv
<1>7. CASE SearchFree
  <2>1. /\ i \in Block /\ TAKEN \notin entries[i] /\ i \in Nat /\ Total \in Nat
        /\ start_block' = IF start_block = -1 THEN i ELSE start_block
        /\ block_counter' = block_counter + 1
        /\ \/ block_counter' = total_blocks /\ pc' = "found" /\ i' = i
           \/ block_counter' # total_blocks /\ pc' = "search" /\ i' = i + 1
    BY <1>1, <1>7, HeapAssumption DEF SearchFree, IsFree, SafeInv, LoopTyped, Block
  <2>2. /\ start_block' \in Block /\ start_block' \in Nat /\ start_block' + block_counter' = i + 1
        /\ block_counter' \in Nat \ {0} /\ total_blocks \in Nat
    BY <1>1, <2>1, HeapAssumption DEF SafeInv, LoopTyped, Searching, Block
  <2>3. total_blocks = 0 \/ block_counter' <= total_blocks
    BY <1>1, <2>1, <2>2 DEF SafeInv, LoopTyped, Searching
  <2>4. Unheld(start_block', i)
    <3> SUFFICES ASSUME NEW a \in held, NEW b \in start_block'..i
                 PROVE  b \notin Extent(a)
      BY DEF Unheld
    <3>1. CASE b = i
      BY <1>1, <2>1, <3>1 DEF SafeInv, LoopTyped, HeldFlagged, Mine, Flagged, NoAllocation, TypeOK
    <3>2. CASE b # i
      <4>1. start_block # -1 /\ b \in start_block..(i - 1)
        BY <2>1, <2>2, <3>2
      <4> QED
        BY <1>1, <4>1 DEF SafeInv, Searching, Unheld
    <3> QED
      BY <3>1, <3>2
  <2>5. LoopTyped'
    <3>1. i' \in Nat /\ i' <= Total
      BY <2>1, HeapAssumption DEF Block
    <3> QED
      BY <1>1, <2>1, <2>2, <3>1 DEF SafeInv, LoopTyped, TypeOK, heap_block_to_address, NoAllocation
  <2>6. Searching'
    <3> SUFFICES ASSUME pc' = "search"
                 PROVE  Searching'
      BY DEF Searching
    <3>1. i' = i + 1 /\ i' - 1 = i
      BY <2>1
    <3>2. Unheld(start_block, i - 1)'
      BY <1>1, <2>4, <3>1 DEF Unheld, Extent, Start, heap_address_to_block
    <3>3. start_block' + block_counter' = i' /\ block_counter' > 0 /\ start_block' # -1
      BY <2>2, <3>1
    <3>4. total_blocks' = 0 \/ block_counter' < total_blocks'
      BY <1>1, <2>1, <2>2, <2>3
    <3> QED
      BY <3>2, <3>3, <3>4 DEF Searching
  <2>7. Granting'
    <3> SUFFICES ASSUME pc' = "found"
                 PROVE  Granting'
      BY <1>1 DEF Granting
    <3>1. start_block' + total_blocks - 1 = i
      <4>1. block_counter' = total_blocks
        BY <2>1
      <4>2. total_blocks \in Nat /\ start_block' \in Nat /\ i \in Nat /\ start_block' + total_blocks = i + 1
        BY <2>1, <2>2, <4>1
      <4>3. \A x, y, z \in Nat : x + y = z + 1 => x + y - 1 = z
        OBVIOUS
      <4> QED
        BY <4>2, <4>3, Zenon
    <3> QED
      BY <1>1, <2>4, <3>1 DEF Granting, Unheld, EndBlock, Extent, Start, heap_address_to_block
  <2> QED
    BY <1>2, <1>3, <1>4, <2>5, <2>6, <2>7 DEF SafeInv
<1> QED
  BY <1>5, <1>6, <1>7

\* NoAllocation is not one that anybody holds.
LEMMA NoAllocationHeld ==
    ASSUME TypeOK
    PROVE  NoAllocation \notin held
<1>1. \A a \in held : a.blocks # 0
  BY DEF TypeOK
<1> QED
  BY <1>1 DEF NoAllocation

\* A request is refused.
LEMMA NotFoundSafe ==
    ASSUME SafeInv, NotFound, interrupts' = interrupts, disturbed' \in BOOLEAN
    PROVE  SafeInv'
<1>1. /\ UNCHANGED <<entries, held>> /\ ret' = NULL /\ pc = "found" /\ pc' = "idle" /\ i' = 0
      /\ block_counter' = 0 /\ start_block' = -1 /\ total_blocks' = 0 /\ entry' = FREE
      /\ freed' = NoAllocation /\ freed = NoAllocation
  BY DEF NotFound, Return, SafeInv, LoopTyped
<1>2. LoopTyped'
  BY <1>1, HeapAssumption DEF SafeInv, LoopTyped, TypeOK, heap_block_to_address, NoAllocation, FREE, Entry
<1>3. Disjoint'
  BY <1>1 DEF SafeInv, Disjoint, Extent, Start, heap_address_to_block
<1>4. HeldFlagged'
  BY <1>1 DEF SafeInv, HeldFlagged, Mine, Flagged, Last, Extent, Start, heap_address_to_block
<1>5. Freeing' /\ Searching' /\ Granting' /\ Taking'
  BY <1>1 DEF Freeing, Searching, Granting, Taking
<1> QED
  BY <1>2, <1>3, <1>4, <1>5 DEF SafeInv

\* The marking begins.
LEMMA BeginTakeSafe ==
    ASSUME SafeInv, BeginTake, interrupts' = interrupts, disturbed' \in BOOLEAN
    PROVE  SafeInv'
<1>1. /\ UNCHANGED <<entries, held, ret, block_counter, start_block, total_blocks, freed>>
      /\ pc = "found" /\ pc' = "take" /\ i' = start_block /\ start_block # -1
      /\ entry' = {TAKEN, FIRST} \cup (IF total_blocks > 1 THEN {NEXT} ELSE {})
  BY DEF BeginTake, vars
<1>2. start_block \in Block /\ start_block \in Nat /\ total_blocks \in Nat
  BY <1>1, HeapAssumption DEF SafeInv, LoopTyped, Block
<1>3. LoopTyped'
  BY <1>1, <1>2 DEF SafeInv, LoopTyped, TypeOK, heap_block_to_address, NoAllocation, Entry
<1>4. Disjoint'
  BY <1>1 DEF SafeInv, Disjoint, Extent, Start, heap_address_to_block
<1>5. HeldFlagged'
  BY <1>1 DEF SafeInv, HeldFlagged, Mine, Flagged, Last, Extent, Start, heap_address_to_block
<1>6. Freeing' /\ Searching'
  BY <1>1 DEF Freeing, Searching
<1>7. Granting'
  BY <1>1 DEF SafeInv, Granting, Unheld, EndBlock, Extent, Start, heap_address_to_block
<1>8. Taking'
  <2>1. EndBlock' = EndBlock /\ EndBlock = start_block + total_blocks - 1
    BY <1>1 DEF EndBlock
  <2>2. start_block <= EndBlock + 1 /\ (total_blocks > 1 <=> start_block < EndBlock)
    BY <1>2, <2>1
  <2>3. \A b \in Block : ~(start_block <= b /\ b < start_block)
    BY <1>2, HeapAssumption DEF Block
  <2>4. start_block <= EndBlock =>
            entry' = {TAKEN} \cup {FIRST} \cup (IF start_block # EndBlock THEN {NEXT} ELSE {})
    BY <1>1, <1>2, <2>1, <2>2
  <2> QED
    BY <1>1, <1>2, <2>1, <2>2, <2>3, <2>4 DEF Taking
<1> QED
  BY <1>3, <1>4, <1>5, <1>6, <1>7, <1>8 DEF SafeInv

\* One block is marked: not one of those that are held, but it may be one that the
\* handler has taken since the search.
LEMMA TakeBlockSafe ==
    ASSUME SafeInv, TakeBlock, interrupts' = interrupts, disturbed' \in BOOLEAN
    PROVE  SafeInv'
<1>1. /\ UNCHANGED <<held, ret, pc, block_counter, start_block, total_blocks, freed, before>>
      /\ pc = "take" /\ i <= EndBlock /\ i' = i + 1
      /\ entries' = IF i \in Block THEN [entries EXCEPT ![i] = entry] ELSE entries
      /\ entry' = {TAKEN} \cup (IF i # EndBlock - 1 THEN {NEXT} ELSE {})
  BY DEF TakeBlock
<1>2. /\ start_block \in Block /\ start_block \in Nat /\ total_blocks \in Nat /\ i \in Nat
      /\ EndBlock \in Int /\ EndBlock' = EndBlock /\ start_block <= i /\ start_block # -1
      /\ entry = {TAKEN} \cup (IF i = start_block THEN {FIRST} ELSE {})
                        \cup (IF i # EndBlock THEN {NEXT} ELSE {})
  BY <1>1, HeapAssumption DEF SafeInv, LoopTyped, Block, Taking, EndBlock
<1>3. entries \in [Block -> Entry] /\ entries' \in [Block -> Entry]
  BY <1>1 DEF SafeInv, LoopTyped, TypeOK
<1>4. \A b \in Block : entries'[b] = IF b = i THEN entry ELSE entries[b]
  BY <1>1, <1>3
<1>5. \A a \in held : i \notin Extent(a)
  <2>1. i \in start_block..EndBlock
    BY <1>1, <1>2
  <2> QED
    BY <1>1, <1>2, <2>1 DEF SafeInv, Granting, Unheld
<1>6. LoopTyped'
  BY <1>1, <1>2, <1>3 DEF SafeInv, LoopTyped, TypeOK, heap_block_to_address, NoAllocation, Entry
<1>7. Disjoint'
  BY <1>1 DEF SafeInv, Disjoint, Extent, Start, heap_address_to_block
<1>8. HeldFlagged'
  <2> SUFFICES ASSUME NEW a \in Mine, NEW b \in Extent(a) \cap Block
               PROVE  TAKEN \in entries'[b] /\ (NEXT \in entries'[b] <=> b # Last(a))
    BY <1>1 DEF HeldFlagged, Mine, Flagged, Last, Extent, Start, heap_address_to_block
  <2> QED
    BY <1>4, <1>5 DEF SafeInv, HeldFlagged, Flagged, Mine
<1>9. Freeing' /\ Searching'
  BY <1>1 DEF Freeing, Searching
<1>10. Granting'
  BY <1>1 DEF SafeInv, Granting, Unheld, EndBlock, Extent, Start, heap_address_to_block
<1>11. Taking'
  <2>1. i + 1 <= EndBlock + 1 /\ start_block <= i + 1 /\ i + 1 # start_block
    BY <1>1, <1>2
  <2>2. ASSUME NEW b \in Block, start_block <= b, b < i + 1
        PROVE  TAKEN \in entries'[b] /\ (NEXT \in entries'[b] <=> b # EndBlock)
    <3>1. CASE b = i
      BY <1>2, <1>4, <3>1 DEF TAKEN, FIRST, NEXT
    <3>2. CASE b # i
      <4>1. b < i
        BY <1>2, <2>2, <3>2, HeapAssumption DEF Block
      <4> QED
        BY <1>1, <1>4, <2>2, <3>2, <4>1 DEF SafeInv, Taking
    <3> QED
      BY <3>1, <3>2
  <2>3. entry' = {TAKEN} \cup (IF i + 1 # EndBlock THEN {NEXT} ELSE {})
    <3>1. i # EndBlock - 1 <=> i + 1 # EndBlock
      BY <1>2
    <3> QED
      BY <1>1, <3>1
  <2> QED
    BY <1>1, <1>2, <2>1, <2>2, <2>3 DEF Taking
<1> QED
  BY <1>6, <1>7, <1>8, <1>9, <1>10, <1>11 DEF SafeInv

\* The allocation that a finished call hands out.
Granted == [addr |-> heap_block_to_address(start_block), blocks |-> total_blocks]

\* The blocks of the allocation that EndTake hands out.
LEMMA GrantedExtent ==
    ASSUME LoopTyped, start_block # -1
    PROVE  /\ Start(Granted) = start_block /\ Last(Granted) = EndBlock
           /\ Extent(Granted) = start_block..EndBlock
           /\ Granted.addr = heap_block_to_address(start_block) /\ Granted.blocks = total_blocks
<1>1. start_block \in Block
  BY DEF LoopTyped
<1>2. heap_address_to_block(heap_block_to_address(start_block)) = start_block
  BY <1>1, BlockAddress
<1> QED
  BY <1>2 DEF Granted, Start, Last, Extent, EndBlock

\* The run that was searched for is handed out.
LEMMA EndTakeSafe ==
    ASSUME SafeInv, EndTake, interrupts' = interrupts, disturbed' \in BOOLEAN
    PROVE  SafeInv'
<1>1. /\ entries' = entries /\ pc = "take" /\ pc' = "idle" /\ i' = 0 /\ i > EndBlock
      /\ block_counter' = 0 /\ start_block' = -1 /\ total_blocks' = 0 /\ entry' = FREE
      /\ freed' = NoAllocation /\ freed = NoAllocation
      /\ ret' = heap_block_to_address(start_block)
      /\ held' = IF total_blocks = 0 THEN held ELSE held \cup {Granted}
  BY DEF EndTake, Return, SafeInv, LoopTyped, Granted
<1>2. /\ start_block \in Block /\ start_block \in Nat /\ total_blocks \in Nat /\ start_block # -1
      /\ i = EndBlock + 1 /\ EndBlock \in Int /\ i \in Nat
  BY <1>1, HeapAssumption DEF SafeInv, LoopTyped, Block, Taking, EndBlock
<1>3. TypeOK /\ NoAllocation \notin held
  BY NoAllocationHeld DEF SafeInv, LoopTyped
<1>4. /\ Start(Granted) = start_block /\ Last(Granted) = EndBlock
      /\ Extent(Granted) = start_block..EndBlock
      /\ Granted.addr = heap_block_to_address(start_block) /\ Granted.blocks = total_blocks
  BY <1>2, GrantedExtent DEF SafeInv
<1>5. \A a \in held : Extent(a) \cap Extent(Granted) = {}
  BY <1>1, <1>2, <1>4 DEF SafeInv, Granting, Unheld
<1>6. LoopTyped'
  <2>1. TypeOK'
    <3>1. held' \subseteq [addr : {heap_block_to_address(b) : b \in Block}, blocks : Nat \ {0}]
      BY <1>1, <1>2, <1>3 DEF TypeOK, Granted
    <3>2. ret' \in {NULL} \cup {heap_block_to_address(b) : b \in Block}
      BY <1>1, <1>2
    <3> QED
      BY <1>1, <1>3, <3>1, <3>2 DEF TypeOK, heap_block_to_address
  <2>2. 0 <= Total
    BY HeapAssumption
  <2> QED
    BY <1>1, <2>1, <2>2 DEF SafeInv, LoopTyped, NoAllocation, FREE, Entry
<1>7. Disjoint'
  <2>1. \A a, b \in held' : a # b => Extent(a) \cap Extent(b) = {}
    BY <1>1, <1>5 DEF SafeInv, Disjoint
  <2> QED
    BY <2>1 DEF Disjoint, Extent, Start, heap_address_to_block
<1>8. HeldFlagged'
  <2> SUFFICES ASSUME NEW a \in held', NEW b \in Extent(a) \cap Block
               PROVE  TAKEN \in entries[b] /\ (NEXT \in entries[b] <=> b # Last(a))
    BY <1>1 DEF HeldFlagged, Mine, Flagged, Last, Extent, Start, heap_address_to_block
  <2>1. CASE a \in held
    BY <1>1, <1>3, <2>1 DEF SafeInv, HeldFlagged, Mine, Flagged
  <2>2. CASE a = Granted
    <3>1. start_block <= b /\ b < i
      BY <1>2, <1>4, <2>2
    <3> QED
      BY <1>1, <1>4, <2>2, <3>1 DEF SafeInv, Taking
  <2> QED
    BY <1>1, <2>1, <2>2
<1>9. Freeing' /\ Searching' /\ Granting' /\ Taking'
  BY <1>1 DEF Freeing, Searching, Granting, Taking
<1> QED
  BY <1>6, <1>7, <1>8, <1>9 DEF SafeInv

\* The caller gives an allocation up; its flags are those of an allocation still.
LEMMA CallFreeSafe ==
    ASSUME SafeInv, NEW a \in held, CallFree(a), interrupts' = interrupts, disturbed' \in BOOLEAN
    PROVE  SafeInv'
<1>1. /\ UNCHANGED <<entries, held, ret, block_counter, start_block, total_blocks, entry>>
      /\ pc = "idle" /\ pc' = "free" /\ i' = Start(a) /\ freed' = a /\ freed = NoAllocation
  BY DEF CallFree, vars, Start, SafeInv, LoopTyped
<1>2. TypeOK /\ NoAllocation \notin held
  BY NoAllocationHeld DEF SafeInv, LoopTyped
<1>3. Start(a) \in Nat /\ Start(a) < Total /\ Start(a) <= Last(a) /\ Total \in Nat
  BY <1>2, HeldType
<1>4. LoopTyped'
  <2>1. freed' # NoAllocation
    BY <1>1, <1>2
  <2> QED
    BY <1>1, <1>3, <2>1 DEF SafeInv, LoopTyped, TypeOK, heap_block_to_address, NoAllocation
<1>5. Disjoint'
  BY <1>1 DEF SafeInv, Disjoint, Extent, Start, heap_address_to_block
<1>6. \A c \in held : \A b \in Extent(c) \cap Block : Flagged(c, b)
  BY <1>1, <1>2 DEF SafeInv, HeldFlagged, Mine
<1>7. HeldFlagged'
  BY <1>1, <1>6 DEF HeldFlagged, Mine, Flagged, Last, Extent, Start, heap_address_to_block
<1>8. Freeing'
  <2>1. freed' \in held' /\ Start(freed)' = Start(a) /\ Last(freed)' = Last(a) /\ Extent(freed)' = Extent(a)
    BY <1>1 DEF Last, Extent, Start, heap_address_to_block
  <2>2. \A b \in Extent(a) \cap Block : Flagged(a, b)'
    BY <1>1, <1>6 DEF Flagged, Last, Start, heap_address_to_block
  <2> QED
    BY <1>1, <1>3, <2>1, <2>2 DEF Freeing
<1>9. Searching' /\ Granting' /\ Taking'
  BY <1>1 DEF Searching, Granting, Taking
<1> QED
  BY <1>4, <1>5, <1>7, <1>8, <1>9 DEF SafeInv

\* Where the freeing loop is: in the allocation, or behind the table.
LEMMA FreeingAt ==
    ASSUME SafeInv, pc = "free"
    PROVE  /\ freed \in held /\ TypeOK /\ i \in Nat /\ Total \in Nat
           /\ Start(freed) \in Nat /\ Last(freed) \in Nat /\ Extent(freed) = Start(freed)..Last(freed)
           /\ i < Total => i \in Extent(freed) \cap Block /\ Flagged(freed, i)
           /\ \A a \in Mine : a \in held /\ Extent(a) \cap Extent(freed) = {}
<1>1. /\ freed \in held /\ TypeOK /\ i \in Nat /\ Total \in Nat
      /\ Start(freed) <= i /\ (i <= Last(freed) \/ i = Total)
  BY HeapAssumption DEF SafeInv, LoopTyped, Freeing
<1>2. Start(freed) \in Nat /\ Last(freed) \in Nat /\ Extent(freed) = Start(freed)..Last(freed)
  BY <1>1, HeldType DEF Extent, Last
<1>3. i < Total => i \in Extent(freed) \cap Block
  BY <1>1, <1>2 DEF Block
<1>4. i < Total => Flagged(freed, i)
  BY <1>1, <1>3 DEF SafeInv, Freeing
<1>5. \A a \in Mine : a \in held /\ Extent(a) \cap Extent(freed) = {}
  BY <1>1 DEF SafeInv, Disjoint, Mine
<1> QED
  BY <1>1, <1>2, <1>3, <1>4, <1>5

\* A block of the allocation that is not its last.
LEMMA FreeBlockSafe ==
    ASSUME SafeInv, FreeBlock, interrupts' = interrupts, disturbed' \in BOOLEAN
    PROVE  SafeInv'
<1>1. /\ UNCHANGED <<held, ret, pc, block_counter, start_block, total_blocks, entry, freed, before>>
      /\ pc = "free" /\ i < Total /\ NEXT \in entries[i] /\ i' = i + 1
      /\ entries' = [entries EXCEPT ![i] = FREE]
  BY DEF FreeBlock
<1>2. /\ freed \in held /\ TypeOK /\ i \in Nat /\ Total \in Nat
      /\ Start(freed) \in Nat /\ Last(freed) \in Nat /\ Extent(freed) = Start(freed)..Last(freed)
      /\ i \in Extent(freed) \cap Block /\ Flagged(freed, i)
      /\ \A a \in Mine : a \in held /\ Extent(a) \cap Extent(freed) = {}
  BY <1>1, FreeingAt
<1>3. /\ entries' \in [Block -> Entry]
      /\ \A b \in Block : b # i => entries'[b] = entries[b]
  BY <1>1, <1>2 DEF TypeOK, FREE, Entry
<1>4. i + 1 <= Last(freed) /\ Start(freed) <= i + 1
  BY <1>1, <1>2 DEF Flagged
<1>5. LoopTyped'
  BY <1>1, <1>2, <1>3 DEF SafeInv, LoopTyped, TypeOK, heap_block_to_address, NoAllocation
<1>6. Disjoint'
  BY <1>1 DEF SafeInv, Disjoint, Extent, Start, heap_address_to_block
<1>7. HeldFlagged'
  <2> SUFFICES ASSUME NEW a \in Mine, NEW b \in Extent(a) \cap Block
               PROVE  TAKEN \in entries'[b] /\ (NEXT \in entries'[b] <=> b # Last(a))
    BY <1>1 DEF HeldFlagged, Mine, Flagged, Last, Extent, Start, heap_address_to_block
  <2>1. b # i
    BY <1>2
  <2> QED
    BY <1>3, <2>1 DEF SafeInv, HeldFlagged, Flagged
<1>8. Freeing'
  <2>1. freed' \in held' /\ Start(freed)' = Start(freed) /\ Last(freed)' = Last(freed)
        /\ Extent(freed)' = Extent(freed)
    BY <1>1, <1>2 DEF Last, Extent, Start, heap_address_to_block
  <2>2. ASSUME NEW b \in Extent(freed) \cap Block, b >= i + 1
        PROVE  Flagged(freed, b)'
    <3>1. b # i /\ b >= i
      BY <1>2, <2>2
    <3> QED
      BY <1>1, <1>3, <2>1, <3>1 DEF SafeInv, Freeing, Flagged
  <2> QED
    BY <1>1, <1>4, <2>1, <2>2 DEF Freeing
<1>9. Searching' /\ Granting' /\ Taking'
  BY <1>1 DEF Searching, Granting, Taking
<1> QED
  BY <1>5, <1>6, <1>7, <1>8, <1>9 DEF SafeInv

\* The last block of the allocation, or the end of the table.
LEMMA FreeReturnsSafe ==
    ASSUME SafeInv, FreeLastBlock \/ FreeEnd, interrupts' = interrupts, disturbed' \in BOOLEAN
    PROVE  SafeInv'
<1>1. /\ ret' = ret /\ held' = held \ {freed} /\ pc = "free" /\ pc' = "idle" /\ i' = 0
      /\ block_counter' = 0 /\ start_block' = -1 /\ total_blocks' = 0 /\ entry' = FREE
      /\ freed' = NoAllocation
  BY DEF FreeLastBlock, FreeEnd, Return
<1>2. /\ TypeOK
      /\ i < Total => i \in Extent(freed) \cap Block
      /\ \A a \in Mine : a \in held /\ Extent(a) \cap Extent(freed) = {}
  BY <1>1, FreeingAt
<1>3. \/ i < Total /\ entries' = [entries EXCEPT ![i] = FREE]
      \/ entries' = entries
  BY DEF FreeLastBlock, FreeEnd
<1>4. /\ entries' \in [Block -> Entry]
      /\ \A b \in Block : b \notin Extent(freed) => entries'[b] = entries[b]
  BY <1>2, <1>3 DEF TypeOK, FREE, Entry
<1>5. LoopTyped'
  <2>1. TypeOK' /\ 0 <= Total
    BY <1>1, <1>2, <1>4, HeapAssumption DEF TypeOK, heap_block_to_address
  <2> QED
    BY <1>1, <2>1 DEF SafeInv, LoopTyped, NoAllocation, FREE, Entry
<1>6. Disjoint'
  BY <1>1 DEF SafeInv, Disjoint, Extent, Start, heap_address_to_block
<1>7. HeldFlagged'
  <2> SUFFICES ASSUME NEW a \in Mine, NEW b \in Extent(a) \cap Block
               PROVE  TAKEN \in entries'[b] /\ (NEXT \in entries'[b] <=> b # Last(a))
    BY <1>1 DEF HeldFlagged, Mine, Flagged, Last, Extent, Start, heap_address_to_block
  <2>1. b \notin Extent(freed)
    BY <1>2
  <2> QED
    BY <1>4, <2>1 DEF SafeInv, HeldFlagged, Flagged
<1>8. Freeing' /\ Searching' /\ Granting' /\ Taking'
  BY <1>1 DEF Freeing, Searching, Granting, Taking
<1> QED
  BY <1>5, <1>6, <1>7, <1>8 DEF SafeInv

\* Every step of the main line and of the handler keeps the invariant.
LEMMA NextSafe == SafeInv /\ [IntNext]_intVars => SafeInv'
<1> SUFFICES ASSUME SafeInv, [IntNext]_intVars
             PROVE  SafeInv'
  OBVIOUS
<1>1. CASE ScrollInHandler
  BY <1>1, HandlerSafe
<1>2. CASE MainStep
  <2>1. interrupts' = interrupts /\ disturbed' \in BOOLEAN
    BY <1>2 DEF MainStep
  <2> QED
    BY <1>2, <2>1, CallMallocSafe, SearchSafe, NotFoundSafe, BeginTakeSafe, TakeBlockSafe, EndTakeSafe,
       CallFreeSafe, FreeBlockSafe, FreeReturnsSafe
       DEF MainStep, LoopNext, Step
<1>3. CASE UNCHANGED intVars
  BY <1>3 DEF intVars, allVars, vars, loopVars, SafeInv, LoopTyped, TypeOK, Disjoint, HeldFlagged, Mine,
     Flagged, Freeing, Searching, Granting, Taking, Unheld, EndBlock, Last, Extent, Start,
     heap_address_to_block, heap_block_to_address, NoAllocation
<1> QED
  BY <1>1, <1>2, <1>3 DEF IntNext

\* What a call holds on to between two of its steps stays right through any scroll.
THEOREM SafeInvariant == IntSpec => []SafeInv
  BY InitSafe, NextSafe, PTL DEF IntSpec

-----------------------------------------------------------------------------
(* What follows for the properties that the runs check.                    *)

\* Interrupted or not, heap_malloc never gives a block to two callers of the
\* main line, however many rows the handler moves between two iterations of a
\* loop.
THEOREM InterruptedAllocationsDisjoint == IntSpec => []Disjoint
<1>1. SafeInv => Disjoint
  BY DEF SafeInv
<1> QED
  BY <1>1, SafeInvariant, PTL

\* Between calls the flags of what the main line holds are those of a chain that
\* heap_free follows to its end and no further.
THEOREM HeldStaysChained == IntSpec => []HeldChains
<1>1. SafeInv => HeldChains
  <2> SUFFICES ASSUME SafeInv, pc = "idle"
               PROVE  ChainExact
    BY DEF HeldChains
  <2>1. TypeOK /\ freed = NoAllocation /\ NoAllocation \notin held
    BY NoAllocationHeld DEF SafeInv, LoopTyped
  <2>2. FlagsExact
    BY <2>1 DEF SafeInv, HeldFlagged, Flagged, Mine, FlagsExact
  <2> QED
    BY <2>1, <2>2, ChainIsExtent DEF ChainExact
<1> QED
  BY <1>1, SafeInvariant, PTL

\* The handler writes no entry of a block in the hands of the main line: of an allocation
\* that is held, nor of one that a running call has marked so far or has still to free.
THEOREM HandlerStaysApart == IntSpec => HandlerApart
<1>1. ASSUME SafeInv, ScrollInHandler, NEW b \in Owned
      PROVE  entries'[b] = entries[b]
  <2>1. b \in Block /\ TAKEN \in entries[b]
    <3>1. CASE \E a \in held \ {freed} : b \in Extent(a)
      BY <1>1, <3>1 DEF SafeInv, HeldFlagged, Flagged, Mine, Owned
    <3>2. CASE pc = "take" /\ start_block <= b /\ b < i
      BY <1>1, <3>2 DEF SafeInv, Taking, Owned
    <3>3. CASE pc = "free" /\ b \in Extent(freed) /\ i <= b
      <4>1. b \in Nat /\ i \in Nat /\ b \in Extent(freed) \cap Block
        BY <1>1, <3>3 DEF SafeInv, LoopTyped, Owned, Block
      <4> QED  BY <1>1, <3>3, <4>1 DEF SafeInv, Freeing, Flagged
    <3> QED  BY <3>1, <3>2, <3>3 DEF Owned
  <2> QED
    BY <1>1, <2>1, HandlerRows DEF Grown, IsFree
<1>2. SafeInv /\ [IntNext]_intVars =>
        [ScrollInHandler => \A b \in Owned : entries'[b] = entries[b]]_intVars
  BY <1>1
<1> QED
  BY <1>2, SafeInvariant, PTL DEF IntSpec, HandlerApart

-----------------------------------------------------------------------------
(* The blocks that the main line does not own.                             *)

\* The taken blocks that the main line does not own.
Loose == TakenIn(entries) \ Owned

\* They can be counted.
LEMMA LooseFinite == IsFiniteSet(Loose) /\ Cardinality(Loose) \in Nat
<1>1. IsFiniteSet(Block)
  BY HeapAssumption, FS_Interval DEF Block
<1>2. Loose \in SUBSET Block
  BY DEF Loose, TakenIn
<1> QED
  BY <1>1, <1>2, FS_Subset, FS_CardinalityType

\* The main line marks only blocks it owns from then on, and it frees what it
\* ceases to own.
LEMMA MainKeepsOwned ==
    ASSUME SafeInv, MainStep
    PROVE  Loose' \subseteq Loose
<1> USE DEF Loose, TakenIn, Owned, Mine, Extent, Start, heap_address_to_block
<1>1. ASSUME NEW size \in Sizes, CallMalloc(size)
      PROVE  Loose' \subseteq Loose
  BY <1>1 DEF CallMalloc, vars
<1>2. CASE SearchTaken \/ SearchFree \/ SearchEnd \/ NotFound
  BY <1>2 DEF SearchTaken, SearchFree, SearchEnd, NotFound, Return, vars, SafeInv, LoopTyped
<1>3. CASE BeginTake
  BY <1>3 DEF BeginTake, vars, SafeInv, LoopTyped
<1>4. CASE TakeBlock
  <2>1. start_block <= i /\ i' = i + 1 /\ i \in Nat /\ pc = "take" /\ pc' = "take"
        /\ UNCHANGED <<held, freed, start_block>>
    BY <1>4 DEF TakeBlock, SafeInv, LoopTyped, Taking
  <2>2. start_block \in Int /\ \A b \in Block : b \in Int
    BY HeapAssumption DEF SafeInv, LoopTyped, Block
  <2>3. \A b \in Block : (start_block <= b /\ b < i') <=> (start_block <= b /\ b < i) \/ b = i
    BY <2>1, <2>2
  <2>4. \A b \in Block : b # i => entries'[b] = entries[b]
    BY <1>4 DEF TakeBlock, SafeInv, LoopTyped, TypeOK
  <2> QED
    BY <2>1, <2>3, <2>4 DEF IsFree
<1>5. CASE EndTake
  <2>1. start_block # -1 /\ i = EndBlock + 1 /\ EndBlock \in Int /\ start_block \in Int /\ freed = NoAllocation
        /\ pc = "take" /\ pc' = "idle" /\ entries' = entries /\ freed' = NoAllocation
        /\ total_blocks \in Nat
        /\ held' = IF total_blocks = 0 THEN held ELSE held \cup {Granted}
    BY <1>5, HeapAssumption
       DEF EndTake, Return, Granted, SafeInv, LoopTyped, Taking, Block, EndBlock
  <2>2. Extent(Granted) = start_block..EndBlock
    BY <2>1, GrantedExtent DEF SafeInv
  <2>3. Granted # NoAllocation \/ total_blocks = 0
    BY <2>1 DEF Granted, NoAllocation
  <2>4. \A b \in Block : b \in Int
    BY HeapAssumption DEF Block
  <2>5. ASSUME NEW b \in Block, start_block <= b, b < i
        PROVE  total_blocks # 0 /\ b \in Extent(Granted)
    <3>1. b \in start_block..EndBlock
      BY <2>1, <2>4, <2>5
    <3>2. total_blocks # 0
      BY <2>1, <2>4, <2>5 DEF EndBlock
    <3> HIDE DEF Extent
    <3> QED
      BY <2>2, <3>1, <3>2
  <2> HIDE DEF Granted
  <2> QED
    BY <2>1, <2>3, <2>5 DEF Extent
<1>6. ASSUME NEW a \in held, CallFree(a)
      PROVE  Loose' \subseteq Loose
  <2>1. freed = NoAllocation /\ freed' = a /\ UNCHANGED <<entries, held>> /\ pc = "idle" /\ pc' = "free" /\ i' = Start(a)
    BY <1>6 DEF CallFree, vars, SafeInv, LoopTyped
  <2>2. \A b \in Extent(a) : Start(a) <= b
    BY HeldType DEF SafeInv, LoopTyped
  <2> QED
    BY <2>1, <2>2
<1>7. CASE FreeBlock
  <2>1. pc = "free" /\ pc' = "free" /\ UNCHANGED <<held, freed>> /\ i' = i + 1 /\ i \in Block /\ i \in Nat
        /\ entries' = [entries EXCEPT ![i] = FREE] /\ entries \in [Block -> Entry]
    BY <1>7, FreeingAt DEF FreeBlock, TypeOK
  <2>2. /\ \A b \in Block : b # i => entries'[b] = entries[b]
        /\ TAKEN \notin entries'[i]
    BY <2>1 DEF FREE
  <2>3. \A b \in Block : i <= b /\ b # i => i + 1 <= b
    BY <2>1, HeapAssumption DEF Block
  <2> QED
    BY <2>1, <2>2, <2>3 DEF IsFree
<1>8. CASE FreeLastBlock
  <2>1. pc = "free" /\ pc' = "idle" /\ held' = held \ {freed} /\ freed' = NoAllocation
        /\ i \in Block /\ i \in Nat /\ i \in Extent(freed) /\ i = Last(freed) /\ freed \in held
        /\ Extent(freed) = Start(freed)..Last(freed) /\ Start(freed) \in Nat /\ TypeOK
        /\ entries' = [entries EXCEPT ![i] = FREE] /\ entries \in [Block -> Entry]
    BY <1>8, FreeingAt DEF FreeLastBlock, Return, TypeOK, Flagged
  <2>2. /\ \A b \in Block : b # i => entries'[b] = entries[b]
        /\ TAKEN \notin entries'[i]
    BY <2>1 DEF FREE
  <2>3. \A b \in Extent(freed) : i <= b => b = i
    <3> HIDE DEF Extent
    <3> QED
      BY <2>1
  <2>4. NoAllocation \notin held
    BY <2>1, NoAllocationHeld
  <2> QED
    BY <2>1, <2>2, <2>3, <2>4 DEF IsFree
<1>9. CASE FreeEnd
  <2>1. pc = "free" /\ pc' = "idle" /\ held' = held \ {freed} /\ freed' = NoAllocation /\ i = Total
        /\ entries' = entries /\ TypeOK
    BY <1>9, FreeingAt DEF FreeEnd, Return
  <2>2. NoAllocation \notin held
    BY <2>1, NoAllocationHeld
  <2>3. \A b \in Block : ~(i <= b)
    BY <2>1, HeapAssumption DEF Block
  <2> QED
    BY <2>1, <2>2, <2>3
<1> QED
  BY <1>1, <1>2, <1>3, <1>4, <1>5, <1>6, <1>7, <1>8, <1>9 DEF MainStep, LoopNext, Step

\* A scroll in the handler adds its row buffers, and those only.
LEMMA HandlerLoses ==
    ASSUME SafeInv, LostBounded, ScrollInHandler
    PROVE  LostBounded'
<1> DEFINE New == TakenIn(entries') \ TakenIn(entries)
<1>1. IsFiniteSet(New) /\ Cardinality(New) <= RowCopies
  BY HandlerRows DEF Grown
<1>2. Owned' = Owned
  BY DEF ScrollInHandler, loopVars, Owned, Mine, Extent, Start, heap_address_to_block
<1>3. Loose' \in SUBSET (Loose \cup New)
  BY <1>2 DEF Loose, TakenIn
<1>4. IsFiniteSet(Loose) /\ Cardinality(Loose) \in Nat
  BY LooseFinite
<1>5. Cardinality(New) \in Nat
  BY <1>1, FS_CardinalityType
<1>6. IsFiniteSet(Loose \cup New)
      /\ Cardinality(Loose \cup New) = Cardinality(Loose) + Cardinality(New) - Cardinality(Loose \cap New)
  <2> HIDE DEF New
  <2> QED
    BY <1>1, <1>4, FS_Union
<1>7. Cardinality(Loose \cap New) \in Nat
  <2>1. IsFiniteSet(Loose \cap New)
    <3> HIDE DEF New
    <3> QED
      BY <1>4, FS_Intersection
  <2> QED
    BY <2>1, FS_CardinalityType
<1>8. IsFiniteSet(Loose') /\ Cardinality(Loose') <= Cardinality(Loose \cup New)
  <2> HIDE DEF New, Loose
  <2> QED
    BY <1>3, <1>6, FS_Subset
<1>9. Cardinality(Loose') \in Nat
  BY <1>8, FS_CardinalityType
<1>10. /\ RowCopies * interrupts' = RowCopies * interrupts + RowCopies
       /\ RowCopies * interrupts \in Nat /\ RowCopies \in Nat
  <2>1. interrupts' = interrupts + 1 /\ interrupts \in Nat /\ RowCopies \in Nat
    BY InterruptAssumption DEF ScrollInHandler, SafeInv, LoopTyped
  <2> QED
    BY <2>1
<1>11. Cardinality(Loose) <= RowCopies * interrupts
  BY DEF LostBounded, Loose
<1>12. Cardinality(Loose') <= RowCopies * interrupts'
  <2> HIDE DEF New, Loose
  <2> DEFINE c == Cardinality(Loose)
             d == Cardinality(New)
             e == Cardinality(Loose \cap New)
             f == Cardinality(Loose')
             p == RowCopies * interrupts
  <2>1. c \in Nat /\ d \in Nat /\ e \in Nat /\ f \in Nat /\ p \in Nat /\ RowCopies \in Nat
        /\ f <= c + d - e /\ c <= p /\ d <= RowCopies
    BY <1>1, <1>4, <1>5, <1>6, <1>7, <1>8, <1>9, <1>10, <1>11
  <2> HIDE DEF c, d, e, f, p
  <2>2. f <= p + RowCopies
    BY <2>1
  <2> QED
    BY <1>10, <2>2 DEF f, p
<1> QED
  BY <1>12 DEF LostBounded, Loose

\* Only the handler adds to them, a block for each row.
LEMMA NextLoses == SafeInv /\ LostBounded /\ [IntNext]_intVars => LostBounded'
<1> SUFFICES ASSUME SafeInv, LostBounded, [IntNext]_intVars
             PROVE  LostBounded'
  OBVIOUS
<1>1. CASE ScrollInHandler
  BY <1>1, HandlerLoses
<1>2. ASSUME Loose' \subseteq Loose, interrupts' = interrupts
      PROVE  LostBounded'
  <2>1. IsFiniteSet(Loose) /\ Cardinality(Loose) \in Nat
    BY LooseFinite
  <2>2. IsFiniteSet(Loose') /\ Cardinality(Loose') <= Cardinality(Loose)
    <3>1. Loose' \in SUBSET Loose
      BY <1>2
    <3> HIDE DEF Loose
    <3> QED
      BY <2>1, <3>1, FS_Subset
  <2>3. Cardinality(Loose') \in Nat
    BY <2>2, FS_CardinalityType
  <2>4. RowCopies * interrupts \in Nat
    BY InterruptAssumption DEF SafeInv, LoopTyped
  <2>5. Cardinality(Loose) <= RowCopies * interrupts
    BY DEF LostBounded, Loose
  <2>6. Cardinality(Loose') <= RowCopies * interrupts
    <3> HIDE DEF Loose
    <3> QED
      BY <2>1, <2>2, <2>3, <2>4, <2>5
  <2> QED
    BY <1>2, <2>6 DEF LostBounded, Loose
<1>3. CASE MainStep
  BY <1>2, <1>3, MainKeepsOwned DEF MainStep
<1>4. CASE UNCHANGED intVars
  <2>1. Loose' = Loose /\ interrupts' = interrupts
    BY <1>4 DEF intVars, allVars, vars, loopVars, Loose, TakenIn, Owned, Mine, Extent, Start, heap_address_to_block
  <2> QED
    BY <1>2, <2>1
<1> QED
  BY <1>1, <1>3, <1>4 DEF IntNext

\* There is none at the start.
LEMMA InitLoses == IntInit => LostBounded
<1> SUFFICES ASSUME IntInit
             PROVE  LostBounded
  OBVIOUS
<1>1. Loose = {}
  BY DEF IntInit, LoopInit, Init, Loose, TakenIn, IsFree, FREE
<1>2. interrupts = 0 /\ RowCopies \in Nat
  BY InterruptAssumption DEF IntInit
<1> QED
  BY <1>1, <1>2, FS_EmptySet DEF LostBounded, Loose

\* The main line never loses a block to an interrupt: between calls, what is
\* taken and not held is at most one block for each row that the handler moved.
THEOREM LostOnlyToHandler == IntSpec => []LostOnlyInHandler
<1>1. IntSpec => []LostBounded
  BY SafeInvariant, InitLoses, NextLoses, PTL DEF IntSpec
<1>2. SafeInv /\ LostBounded => LostOnlyInHandler
  <2> SUFFICES ASSUME SafeInv, LostBounded, pc = "idle"
               PROVE  Cardinality(Lost) <= RowCopies * interrupts
    BY DEF LostOnlyInHandler
  <2>1. Mine = held
    BY NoAllocationHeld DEF SafeInv, LoopTyped, Mine
  <2>2. Lost = TakenIn(entries) \ Owned
    BY <2>1 DEF Lost, Owned, TakenIn, Mine
  <2> QED
    BY <2>2 DEF LostBounded
<1> QED
  BY <1>1, <1>2, SafeInvariant, PTL

-----------------------------------------------------------------------------
(* A call that nothing interrupts is one step of Heap.                     *)

\* There is only one least element.
LEMMA MinimumIs ==
    ASSUME NEW S \in SUBSET Block, NEW m \in S, \A k \in S : m <= k
    PROVE  Minimum(S) = m
<1>1. Minimum(S) \in S /\ \A k \in S : Minimum(S) <= k
  BY DEF Minimum
<1>2. \A x \in S : x \in Int
  BY HeapAssumption DEF Block
<1>3. Minimum(S) <= m /\ m <= Minimum(S)
  BY <1>1
<1>4. Minimum(S) \in Int /\ m \in Int
  BY <1>1, <1>2
<1> QED
  BY <1>3, <1>4

\* A run of free entries is free and ends in the table.
LEMMA RunIn ==
    ASSUME NEW t, NEW n \in Nat, NEW s \in FreeRunStarts(t, n)
    PROVE  /\ s \in Block /\ s \in Nat /\ s + n <= Total
           /\ \A b \in s..(s + n - 1) : IsFree(t, b)
<1>1. s \in Block /\ s + n <= Total /\ \A b \in s..(s + n - 1) : IsFree(t, b)
  BY DEF FreeRunStarts
<1>2. s \in Nat
  BY <1>1, HeapAssumption DEF Block
<1> QED
  BY <1>1, <1>2

\* A search that begins has found out nothing.
LEMMA CallMallocProgress ==
    ASSUME SafeInv, NEW size \in Sizes, CallMalloc(size)
    PROVE  Progress'
<1>1. /\ UNCHANGED <<entries, held>> /\ pc' = "search" /\ i' = 0 /\ block_counter' = 0 /\ start_block' = -1
      /\ total_blocks' = RequestedBlocks(size) /\ before' = entries /\ entries \in [Block -> Entry]
  BY DEF CallMalloc, vars, SafeInv, LoopTyped, TypeOK
<1>2. Requested' /\ SearchRight' /\ TakenSoFar' /\ FreedSoFar'
  BY <1>1 DEF Requested, SearchRight, TakenSoFar, FreedSoFar
<1>3. total_blocks' \in Nat
  BY <1>1, RequestedBlocksNat
<1>4. \A s \in FreeRunStarts(before', total_blocks') : total_blocks' > 0 => s + total_blocks' > 0
  <2>1. \A s \in Block : s \in Nat
    BY HeapAssumption DEF Block
  <2> QED
    BY <1>3, <2>1 DEF FreeRunStarts
<1>5. SearchedSoFar'
  BY <1>1, <1>4 DEF SearchedSoFar, FreeRunStarts, IsFree
<1> QED
  BY <1>1, <1>2, <1>5 DEF Progress

\* The search, entry by entry: no run ends before the entry it looks at.
LEMMA SearchTakenProgress ==
    ASSUME SafeInv, Progress, ~disturbed, SearchTaken
    PROVE  Progress'
<1>1. /\ UNCHANGED <<entries, held, total_blocks, before>> /\ pc = "search" /\ pc' = "search"
      /\ i' = i + 1 /\ start_block' = -1 /\ i \in Nat /\ i < Total /\ Total \in Nat
      /\ total_blocks \in Nat /\ entries = before /\ ~IsFree(before, i)
  BY HeapAssumption DEF SearchTaken, vars, SafeInv, LoopTyped, Progress, SearchedSoFar
<1>2. Requested' /\ SearchRight' /\ TakenSoFar' /\ FreedSoFar'
  BY <1>1 DEF Progress, Requested, SearchRight, TakenSoFar, FreedSoFar
<1>3. ASSUME total_blocks > 0, NEW s \in FreeRunStarts(before, total_blocks)
      PROVE  s + total_blocks > i + 1
  <2>1. s \in Nat /\ s + total_blocks > i
    BY <1>1, <1>3, RunIn DEF Progress, SearchedSoFar
  <2>2. i \notin s..(s + total_blocks - 1)
    BY <1>1, <1>3, RunIn
  <2> QED
    BY <1>1, <1>3, <2>1, <2>2
<1>4. ~IsFree(before, (i + 1) - 1)
  <2>1. (i + 1) - 1 = i
    BY <1>1
  <2> QED
    BY <1>1, <2>1
<1>5. SearchedSoFar'
  BY <1>1, <1>3, <1>4 DEF SearchedSoFar, FreeRunStarts, IsFree
<1> QED
  BY <1>1, <1>2, <1>5 DEF Progress

\* A free entry begins a run, makes it longer or completes it.
LEMMA SearchFreeProgress ==
    ASSUME SafeInv, Progress, ~disturbed, SearchFree
    PROVE  Progress'
<1> DEFINE s1 == start_block'
           n == total_blocks
<1>1. /\ UNCHANGED <<entries, held, total_blocks, before>> /\ pc = "search"
      /\ i \in Nat /\ i < Total /\ Total \in Nat /\ i \in Block
      /\ n \in Nat /\ entries = before /\ IsFree(before, i) /\ before \in [Block -> Entry]
      /\ s1 = IF start_block = -1 THEN i ELSE start_block
      /\ \/ block_counter' = n /\ pc' = "found" /\ i' = i
         \/ block_counter' # n /\ pc' = "search" /\ i' = i + 1
      /\ block_counter' = block_counter + 1
  BY HeapAssumption DEF SearchFree, vars, SafeInv, LoopTyped, Progress, SearchedSoFar, Block
<1>2. /\ s1 \in Block /\ s1 \in Nat /\ s1 + block_counter' = i + 1
      /\ block_counter' \in Nat \ {0}
      /\ n = 0 \/ block_counter' <= n
  BY <1>1, HeapAssumption DEF SafeInv, LoopTyped, Searching, Block
<1>3. \A b \in Block : s1 <= b /\ b <= i => IsFree(before, b)
  <2>1. \A b \in Block : b \in Nat
    BY HeapAssumption DEF Block
  <2> QED
    BY <1>1, <2>1 DEF Progress, SearchedSoFar
<1>4. s1 = 0 \/ ~IsFree(before, s1 - 1)
  BY <1>1 DEF Progress, SearchedSoFar
<1>5. n > 0 => \A s \in FreeRunStarts(before, n) : s \in Nat /\ s + n >= i + 1
  <2> SUFFICES ASSUME n > 0, NEW s \in FreeRunStarts(before, n)
               PROVE  s \in Nat /\ s + n >= i + 1
    OBVIOUS
  <2>1. s \in Nat /\ s + n > i
    BY <1>1, RunIn DEF Progress, SearchedSoFar
  <2> QED
    BY <1>1, <2>1
<1>6. Requested' /\ FreedSoFar'
  BY <1>1 DEF Progress, Requested, FreedSoFar
<1>7. CASE block_counter' = n
  <2>1. pc' = "found" /\ s1 + n = i + 1 /\ n > 0
    BY <1>1, <1>2, <1>7
  <2>2. s1 \in FreeRunStarts(before, n)
    <3> HIDE DEF s1, n
    <3>1. s1 + n <= Total /\ s1 + n - 1 = i
      <4>1. s1 \in Nat /\ n \in Nat /\ i \in Nat /\ Total \in Nat /\ i < Total /\ s1 + n = i + 1
        BY <1>1, <1>2, <2>1
      <4> QED
        BY ONLY <4>1
    <3>2. \A b \in s1..i : b \in Block /\ s1 <= b /\ b <= i
      BY <1>1, <1>2 DEF Block
    <3> QED
      BY <1>2, <1>3, <3>1, <3>2 DEF FreeRunStarts
  <2>3. \A s \in FreeRunStarts(before, n) : s1 <= s
    BY <1>1, <1>2, <1>5, <2>1
  <2>4. Minimum(FreeRunStarts(before, n)) = s1
    <3>1. FreeRunStarts(before, n) \in SUBSET Block
      BY DEF FreeRunStarts
    <3> HIDE DEF s1, n
    <3> QED
      BY <2>2, <2>3, <3>1, MinimumIs
  <2>5. heap_get_start_block(before, n) = s1
    BY <2>1, <2>2, <2>4 DEF heap_get_start_block
  <2>6. SearchRight'
    <3>1. s1 # -1
      BY <1>2
    <3> QED
      BY <1>1, <2>5, <3>1 DEF SearchRight, heap_get_start_block, FreeRunStarts, TailStarts, IsFree
  <2>7. SearchedSoFar' /\ TakenSoFar'
    BY <1>1, <2>1 DEF SearchedSoFar, TakenSoFar
  <2> QED
    BY <1>1, <1>6, <2>6, <2>7 DEF Progress
<1>8. CASE block_counter' # n
  <2>1. pc' = "search" /\ i' = i + 1
    BY <1>1, <1>8
  <2>2. ASSUME n > 0, NEW s \in FreeRunStarts(before, n)
        PROVE  s + n > i + 1
    <3> SUFFICES ASSUME s + n = i + 1
                 PROVE  FALSE
      BY <1>1, <1>5, <2>2
    <3>1. s \in Nat /\ s < s1 /\ s1 - 1 \in s..(s + n - 1)
      BY <1>1, <1>2, <1>5, <1>8, <2>2
    <3> QED
      BY <1>4, <3>1 DEF FreeRunStarts
  <2>3. \A b \in Block : s1 <= b /\ b < i + 1 => IsFree(before, b)
    <3>1. \A b \in Block : b < i + 1 => b <= i
      BY <1>1, HeapAssumption DEF Block
    <3> QED
      BY <1>3, <3>1
  <2>4. SearchedSoFar'
    <3>1. s1 # -1
      BY <1>2
    <3> QED
      BY <1>1, <1>4, <2>1, <2>2, <2>3, <3>1 DEF SearchedSoFar, FreeRunStarts, IsFree
  <2>5. SearchRight' /\ TakenSoFar'
    BY <2>1 DEF SearchRight, TakenSoFar
  <2> QED
    BY <1>1, <1>6, <2>4, <2>5 DEF Progress
<1> QED
  BY <1>7, <1>8

\* A search that comes to the end has found what the search of the whole table finds there.
LEMMA SearchEndProgress ==
    ASSUME SafeInv, Progress, ~disturbed, SearchEnd
    PROVE  Progress'
<1>1. /\ UNCHANGED <<entries, held, total_blocks, start_block, before>> /\ pc = "search" /\ pc' = "found"
      /\ i = Total /\ Total \in Nat \ {0} /\ total_blocks \in Nat /\ entries = before
      /\ start_block \in Block \cup {-1}
  BY HeapAssumption DEF SearchEnd, vars, SafeInv, LoopTyped, Progress, SearchedSoFar
<1>2. Requested' /\ SearchedSoFar' /\ TakenSoFar' /\ FreedSoFar'
  BY <1>1 DEF Progress, Requested, SearchedSoFar, TakenSoFar, FreedSoFar
<1>3. total_blocks > 0 => FreeRunStarts(before, total_blocks) = {}
  <2> SUFFICES ASSUME total_blocks > 0, NEW s \in FreeRunStarts(before, total_blocks)
               PROVE  FALSE
    OBVIOUS
  <2>1. s \in Nat /\ s + total_blocks <= Total /\ s + total_blocks > Total
    BY <1>1, RunIn DEF Progress, SearchedSoFar
  <2> QED
    BY <1>1, <2>1
<1>4. CASE start_block = -1
  <2>1. ~IsFree(before, Total - 1)
    BY <1>1, <1>4 DEF Progress, SearchedSoFar
  <2>2. TailStarts(before) = {}
    <3> SUFFICES ASSUME NEW s \in TailStarts(before)
                 PROVE  FALSE
      OBVIOUS
    <3>1. Total - 1 \in s..(Total - 1)
      BY <1>1 DEF TailStarts, Block
    <3> QED
      BY <2>1, <3>1 DEF TailStarts
  <2>3. heap_get_start_block(before, total_blocks) < 0
    BY <1>3, <2>2 DEF heap_get_start_block, ENOMEM
  <2>4. SearchRight'
    BY <1>1, <1>4, <2>3 DEF SearchRight, heap_get_start_block, FreeRunStarts, TailStarts, IsFree
  <2> QED
    BY <1>1, <1>2, <2>4 DEF Progress
<1>5. CASE start_block # -1
  <2>1. start_block \in Block /\ start_block \in Nat
    BY <1>1, <1>5, HeapAssumption DEF Block
  <2>2. start_block \in TailStarts(before)
    <3>1. \A b \in start_block..(Total - 1) : b \in Block /\ start_block <= b /\ b < Total
      BY <1>1, <2>1 DEF Block
    <3> QED
      BY <1>1, <1>5, <2>1, <3>1 DEF TailStarts, Progress, SearchedSoFar
  <2>3. ASSUME NEW s \in TailStarts(before)
        PROVE  start_block <= s
    <3> SUFFICES ASSUME s < start_block
                 PROVE  FALSE
      BY <1>1, <2>1 DEF TailStarts, Block
    <3>1. start_block - 1 \in s..(Total - 1) /\ start_block # 0
      BY <1>1, <2>1 DEF TailStarts, Block
    <3> QED
      BY <1>1, <1>5, <3>1 DEF TailStarts, Progress, SearchedSoFar
  <2>4. Minimum(TailStarts(before)) = start_block
    <3>1. TailStarts(before) \in SUBSET Block
      BY DEF TailStarts
    <3> QED
      BY <2>2, <2>3, <3>1, MinimumIs
  <2>5. heap_get_start_block(before, total_blocks) = start_block
    BY <1>3, <2>2, <2>4 DEF heap_get_start_block
  <2>6. SearchRight'
    BY <1>1, <1>5, <2>5 DEF SearchRight, heap_get_start_block, FreeRunStarts, TailStarts, IsFree
  <2> QED
    BY <1>1, <1>2, <2>6 DEF Progress
<1> QED
  BY <1>4, <1>5

\* The marking, block by block.
LEMMA BeginTakeProgress ==
    ASSUME SafeInv, Progress, ~disturbed, BeginTake
    PROVE  Progress'
<1>1. /\ UNCHANGED <<entries, held, total_blocks, start_block, before>> /\ pc = "found" /\ pc' = "take"
      /\ i' = start_block /\ start_block \in Int /\ entries = before /\ before \in [Block -> Entry]
  BY HeapAssumption DEF BeginTake, vars, SafeInv, LoopTyped, Progress, TakenSoFar, Block
<1>2. Requested' /\ SearchedSoFar' /\ FreedSoFar' /\ SearchRight'
  BY <1>1 DEF Progress, Requested, SearchedSoFar, FreedSoFar, SearchRight, heap_get_start_block,
     FreeRunStarts, TailStarts, IsFree
<1>3. \A b \in Block : ~(start_block <= b /\ b < start_block)
  BY <1>1, HeapAssumption DEF Block
<1>4. entries = [b \in Block |-> before[b]]
  BY <1>1
<1>5. TakenSoFar'
  BY <1>1, <1>3, <1>4 DEF TakenSoFar
<1> QED
  BY <1>1, <1>2, <1>5 DEF Progress

\* One more block is marked.
LEMMA TakeBlockProgress ==
    ASSUME SafeInv, Progress, ~disturbed, TakeBlock
    PROVE  Progress'
<1>1. /\ UNCHANGED <<held, total_blocks, start_block, before>> /\ pc = "take" /\ pc' = "take"
      /\ i' = i + 1 /\ i \in Nat /\ start_block \in Int /\ start_block <= i /\ i <= EndBlock
      /\ entries' = IF i \in Block THEN [entries EXCEPT ![i] = entry] ELSE entries
      /\ entry = Marked(i)
  BY HeapAssumption DEF TakeBlock, SafeInv, LoopTyped, Taking, Block, Marked
<1>2. Requested' /\ SearchedSoFar' /\ FreedSoFar' /\ SearchRight'
  BY <1>1 DEF Progress, Requested, SearchedSoFar, FreedSoFar, SearchRight, heap_get_start_block,
     FreeRunStarts, TailStarts, IsFree
<1>3. entries = [b \in Block |-> IF start_block <= b /\ b < i THEN Marked(b) ELSE before[b]]
  BY <1>1 DEF Progress, TakenSoFar
<1>4. \A b \in Block : (start_block <= b /\ b < i + 1) <=> (start_block <= b /\ b < i) \/ b = i
  BY <1>1, HeapAssumption DEF Block
<1>5. entries' = [b \in Block |-> IF start_block <= b /\ b < i + 1 THEN Marked(b) ELSE before[b]]
  <2> HIDE DEF Marked
  <2>1. CASE i \in Block
    BY <1>1, <1>3, <1>4, <2>1
  <2>2. CASE i \notin Block
    BY <1>1, <1>3, <1>4, <2>2
  <2> QED
    BY <2>1, <2>2
<1>6. TakenSoFar'
  BY <1>1, <1>5 DEF TakenSoFar, Marked, EndBlock
<1> QED
  BY <1>1, <1>2, <1>6 DEF Progress

\* The freeing, block by block.
LEMMA CallFreeProgress ==
    ASSUME SafeInv, NEW a \in held, CallFree(a)
    PROVE  Progress'
<1>1. /\ UNCHANGED <<entries, held>> /\ pc' = "free" /\ i' = Start(a) /\ freed' = a
      /\ before' = entries /\ entries \in [Block -> Entry] /\ Start(a) \in Nat
  BY HeldType DEF CallFree, vars, Start, SafeInv, LoopTyped, TypeOK
<1>2. Requested' /\ SearchedSoFar' /\ TakenSoFar' /\ SearchRight'
  BY <1>1 DEF Requested, SearchedSoFar, TakenSoFar, SearchRight
<1>3. \A b \in Block : ~(Start(a) <= b /\ b < Start(a))
  BY <1>1, HeapAssumption DEF Block
<1>4. Start(freed)' = Start(a)
  BY <1>1 DEF Start, heap_address_to_block
<1>5. FreedSoFar'
  <2>1. entries = [b \in Block |-> entries[b]]
    BY <1>1
  <2> QED
    BY <1>1, <1>3, <1>4, <2>1 DEF FreedSoFar
<1> QED
  BY <1>1, <1>2, <1>5 DEF Progress

\* One more block is freed.
LEMMA FreeBlockProgress ==
    ASSUME SafeInv, Progress, ~disturbed, FreeBlock
    PROVE  Progress'
<1>1. /\ UNCHANGED <<held, before, freed>> /\ pc = "free" /\ pc' = "free" /\ i' = i + 1
      /\ entries' = [entries EXCEPT ![i] = FREE] /\ NEXT \in entries[i]
      /\ i \in Block /\ i \in Nat /\ Start(freed) \in Nat /\ Start(freed) <= i
  BY FreeingAt DEF FreeBlock, SafeInv, Freeing
<1>2. Requested' /\ SearchedSoFar' /\ TakenSoFar' /\ SearchRight'
  BY <1>1 DEF Requested, SearchedSoFar, TakenSoFar, SearchRight
<1>3. /\ entries = [b \in Block |-> IF Start(freed) <= b /\ b < i THEN FREE ELSE before[b]]
      /\ \A b \in Block : Start(freed) <= b /\ b < i => NEXT \in before[b]
  BY <1>1 DEF Progress, FreedSoFar
<1>4. \A b \in Block : (Start(freed) <= b /\ b < i + 1) <=> (Start(freed) <= b /\ b < i) \/ b = i
  BY <1>1, HeapAssumption DEF Block
<1>5. NEXT \in before[i]
  <2>1. ~(i < i)
    BY <1>1
  <2> QED
    BY <1>1, <1>3, <2>1
<1>6. entries' = [b \in Block |-> IF Start(freed) <= b /\ b < i + 1 THEN FREE ELSE before[b]]
  BY <1>1, <1>3, <1>4
<1>7. FreedSoFar'
  <2>1. Start(freed)' = Start(freed)
    BY <1>1 DEF Start, heap_address_to_block
  <2> QED
    BY <1>1, <1>3, <1>4, <1>5, <1>6, <2>1 DEF FreedSoFar
<1> QED
  BY <1>1, <1>2, <1>7 DEF Progress

\* A call that is back, and a call that has been interrupted, owe nothing.
LEMMA IdleProgress ==
    ASSUME pc' = "idle", before' \in [Block -> Entry]
    PROVE  Progress'
  BY DEF Progress, Requested, SearchedSoFar, SearchRight, TakenSoFar, FreedSoFar

\* Of a call that was interrupted nothing is claimed.
LEMMA DisturbedProgress ==
    ASSUME SafeInv, Progress, disturbed', Step, pc' # "idle"
    PROVE  Progress'
<1>1. /\ UNCHANGED <<total_blocks, before>>
      /\ pc' \in {"search", "found", "take"} => pc \in {"search", "found", "take"}
  BY DEF Step, SearchTaken, SearchFree, SearchEnd, NotFound, BeginTake, TakeBlock, EndTake, FreeBlock,
     FreeLastBlock, FreeEnd, Return
<1>2. Requested'
  BY <1>1 DEF Progress, Requested
<1> QED
  BY <1>1, <1>2 DEF Progress

\* Between calls there is nothing to know.
LEMMA InitProgress == IntInit => Progress
  BY DEF IntInit, LoopInit, Init, Entry, FREE, Progress, Requested, SearchedSoFar, SearchRight, TakenSoFar,
     FreedSoFar

\* Every step keeps what is known of a call.
LEMMA NextProgress == SafeInv /\ SafeInv' /\ Progress /\ [IntNext]_intVars => Progress'
<1> SUFFICES ASSUME SafeInv, SafeInv', Progress, [IntNext]_intVars
             PROVE  Progress'
  OBVIOUS
<1>1. CASE UNCHANGED intVars
  BY <1>1 DEF intVars, allVars, vars, loopVars, Progress, Requested, SearchedSoFar, SearchRight, TakenSoFar,
     FreedSoFar, Marked, EndBlock, Start, heap_address_to_block, heap_get_start_block, FreeRunStarts,
     TailStarts, IsFree
<1>2. CASE ScrollInHandler
  <2>1. UNCHANGED <<pc, total_blocks, before>> /\ disturbed' = (pc # "idle")
    BY <1>2 DEF ScrollInHandler, loopVars
  <2>2. CASE pc = "idle"
    BY <2>1, <2>2, IdleProgress DEF Progress
  <2>3. CASE pc # "idle"
    BY <2>1, <2>3 DEF Progress, Requested
  <2> QED
    BY <2>2, <2>3
<1>3. ASSUME NEW size \in Sizes, CallMalloc(size)
      PROVE  Progress'
  BY <1>3, CallMallocProgress
<1>4. ASSUME NEW a \in held, CallFree(a)
      PROVE  Progress'
  BY <1>4, CallFreeProgress
<1>5. CASE Step /\ MainStep
  <2>1. pc # "idle" /\ disturbed' = disturbed
    BY <1>5 DEF MainStep, Step, SearchTaken, SearchFree, SearchEnd, NotFound, BeginTake, TakeBlock, EndTake,
       FreeBlock, FreeLastBlock, FreeEnd, SafeInv, LoopTyped
  <2>2. CASE NotFound \/ EndTake \/ FreeLastBlock \/ FreeEnd
    <3>1. pc' = "idle" /\ before' = entries'
      BY <2>2 DEF NotFound, EndTake, FreeLastBlock, FreeEnd, Return
    <3> QED
      BY <3>1, IdleProgress DEF SafeInv, LoopTyped, TypeOK
  <2>3. CASE ~(NotFound \/ EndTake \/ FreeLastBlock \/ FreeEnd)
    <3>1. pc' # "idle"
      BY <1>5, <2>3 DEF Step, SearchTaken, SearchFree, SearchEnd, BeginTake, TakeBlock, FreeBlock
    <3>2. CASE disturbed
      BY <1>5, <2>1, <3>1, <3>2, DisturbedProgress
    <3>3. CASE ~disturbed
      BY <1>5, <2>3, <3>3, SearchTakenProgress, SearchFreeProgress, SearchEndProgress, BeginTakeProgress,
         TakeBlockProgress, FreeBlockProgress DEF Step
    <3> QED
      BY <3>2, <3>3
  <2> QED
    BY <2>2, <2>3
<1> QED
  BY <1>1, <1>2, <1>3, <1>4, <1>5 DEF IntNext, MainStep, LoopNext

-----------------------------------------------------------------------------
(* The steps that return, against Heap.                                    *)

\* The same search, as Heap sees it under the mapping.
LEMMA WholeSearch ==
    ASSUME NEW t, NEW n
    PROVE  Whole!heap_get_start_block(t, n) = heap_get_start_block(t, n)
<1>1. Whole!FreeRunStarts(t, n) = FreeRunStarts(t, n) /\ Whole!TailStarts(t) = TailStarts(t)
  BY DEF Whole!FreeRunStarts, FreeRunStarts, Whole!TailStarts, TailStarts, Whole!IsFree, IsFree, Whole!Block,
     Block, Whole!TAKEN, TAKEN
<1>2. \A S : Whole!Minimum(S) = Minimum(S)
  BY DEF Whole!Minimum, Minimum
<1>3. Whole!ENOMEM = ENOMEM
  BY DEF Whole!ENOMEM, ENOMEM
<1> QED
  BY <1>1, <1>2, <1>3 DEF Whole!heap_get_start_block, heap_get_start_block

\* A call of heap_malloc_blocks for a requested size is a step of Heap.
LEMMA WholeMalloc ==
    ASSUME NEW size \in Sizes, total_blocks = RequestedBlocks(size),
           Whole!heap_malloc_blocks(total_blocks)
    PROVE  Whole!Next
<1>1. Whole!RequestedBlocks(size) = RequestedBlocks(size)
  BY DEF Whole!RequestedBlocks, Whole!heap_align_value_to_upper, RequestedBlocks, heap_align_value_to_upper
<1> QED
  BY <1>1 DEF Whole!Next, Whole!heap_malloc

\* A call that finds no run returns as Heap does.
LEMMA NotFoundIsWhole ==
    ASSUME SafeInv, Progress, ~disturbed, NotFound
    PROVE  Whole!Next
<1>1. /\ ret' = NULL /\ held' = held /\ before' = before
      /\ heap_get_start_block(before, total_blocks) < 0
      /\ \E size \in Sizes : total_blocks = RequestedBlocks(size)
  BY DEF NotFound, Return, Progress, Requested, SearchRight, TakenSoFar
<1>2. Whole!heap_malloc_blocks(total_blocks)
  BY <1>1, WholeSearch DEF Whole!heap_malloc_blocks, Whole!NULL, NULL
<1> QED
  BY <1>1, <1>2, WholeMalloc

\* A call that has taken its blocks leaves the table that Heap leaves.
LEMMA EndTakeIsWhole ==
    ASSUME SafeInv, Progress, ~disturbed, EndTake
    PROVE  Whole!Next
<1>1. /\ ret' = heap_block_to_address(start_block) /\ before' = entries
      /\ held' = IF total_blocks = 0 THEN held
                 ELSE held \cup {[addr |-> ret', blocks |-> total_blocks]}
      /\ start_block # -1 /\ start_block \in Nat /\ i = EndBlock + 1 /\ EndBlock \in Int
      /\ heap_get_start_block(before, total_blocks) = start_block
      /\ \E size \in Sizes : total_blocks = RequestedBlocks(size)
      /\ entries = [b \in Block |-> IF start_block <= b /\ b < i THEN Marked(b) ELSE before[b]]
  BY HeapAssumption
     DEF EndTake, Return, Progress, Requested, SearchRight, TakenSoFar, SafeInv, LoopTyped, Taking, Block,
         EndBlock
<1>2. \A b \in Block : (start_block <= b /\ b < i) <=> b \in start_block..(start_block + total_blocks - 1)
  BY <1>1, HeapAssumption DEF Block, EndBlock
<1>3. before' = Whole!heap_mark_blocks_taken(before, start_block, total_blocks)
  <2>1. \A b \in Block : Marked(b) =
            {TAKEN} \cup (IF b = start_block THEN {FIRST} ELSE {})
                    \cup (IF b # start_block + total_blocks - 1 THEN {NEXT} ELSE {})
    BY DEF Marked, EndBlock
  <2> QED
    BY <1>1, <1>2, <2>1
       DEF Whole!heap_mark_blocks_taken, Whole!Block, Block, Whole!TAKEN, TAKEN, Whole!FIRST, FIRST,
           Whole!NEXT, NEXT
<1>4. ~(start_block < 0)
  BY <1>1
<1>5. Whole!heap_malloc_blocks(total_blocks)
  BY <1>1, <1>3, <1>4, WholeSearch
     DEF Whole!heap_malloc_blocks, Whole!heap_block_to_address, heap_block_to_address
<1> QED
  BY <1>1, <1>5, WholeMalloc

\* A call that has freed its blocks leaves the table that Heap leaves.
LEMMA FreeIsWhole ==
    ASSUME SafeInv, Progress, ~disturbed, FreeLastBlock \/ FreeEnd
    PROVE  Whole!Next
<1> DEFINE s == Start(freed)
<1>1. /\ freed \in held /\ held' = held \ {freed} /\ ret' = ret /\ before' = entries'
      /\ s \in Nat /\ i \in Nat /\ Total \in Nat /\ s <= i /\ TypeOK /\ s < Total
      /\ entries = [b \in Block |-> IF s <= b /\ b < i THEN FREE ELSE before[b]]
      /\ \A b \in Block : s <= b /\ b < i => NEXT \in before[b]
      /\ before \in [Block -> Entry]
  BY FreeingAt, HeldType
     DEF FreeLastBlock, FreeEnd, Return, SafeInv, Freeing, Progress, FreedSoFar
<1>2. \A b \in Block : b \in Nat /\ b < Total
  BY HeapAssumption DEF Block
<1>3. \A b \in Block : b \in Chain(before, s) <=>
          s <= b /\ \A j \in s..(b - 1) : NEXT \in before[j]
  BY <1>1, <1>2 DEF Chain
<1>4. ASSUME NEW b \in Block
      PROVE  entries'[b] = IF b \in Chain(before, s) THEN FREE ELSE before[b]
  <2>1. CASE FreeLastBlock
    <3>1. i \in Block /\ entries' = [entries EXCEPT ![i] = FREE] /\ NEXT \notin entries[i]
      BY <2>1, FreeingAt DEF FreeLastBlock
    <3>2. NEXT \notin before[i]
      <4>1. ~(i < i)
        BY <1>1
      <4> QED
        BY <1>1, <3>1, <4>1
    <3>3. CASE b <= i
      <4>1. s <= b => \A j \in s..(b - 1) : j \in Block /\ s <= j /\ j < i
        BY <1>1, <1>2, <3>3 DEF Block
      <4>2. b \in Chain(before, s) <=> s <= b
        BY <1>1, <1>3, <4>1
      <4>3. b = i \/ b < i
        BY <1>1, <1>2, <3>3
      <4> QED
        BY <1>1, <3>1, <4>2, <4>3
    <3>4. CASE ~(b <= i)
      <4>1. i \in s..(b - 1) /\ b # i /\ ~(b < i)
        BY <1>1, <1>2, <3>4
      <4> QED
        BY <1>1, <1>3, <3>1, <3>2, <4>1
    <3> QED
      BY <3>3, <3>4
  <2>2. CASE FreeEnd
    <3>1. i = Total /\ entries' = entries
      BY <2>2 DEF FreeEnd
    <3>2. s <= b => \A j \in s..(b - 1) : j \in Block /\ s <= j /\ j < i
      BY <1>1, <1>2, <3>1 DEF Block
    <3> QED
      BY <1>1, <1>2, <1>3, <3>1, <3>2
  <2> QED
    BY <2>1, <2>2
<1>5. entries' = [b \in Block |-> entries'[b]]
  BY <1>1 DEF FreeLastBlock, FreeEnd, TypeOK
<1>6. before' = [b \in Block |-> IF b \in Chain(before, s) THEN FREE ELSE before[b]]
  BY <1>1, <1>4, <1>5
<1>7. Whole!heap_free(freed)
  <2> HIDE DEF s
  <2>1. Whole!heap_mark_blocks_free(before, s) =
            [b \in Block |-> IF b \in Chain(before, s) THEN FREE ELSE before[b]]
    BY DEF Whole!heap_mark_blocks_free, Whole!Chain, Chain, Whole!Block, Block, Whole!FREE, FREE,
       Whole!NEXT, NEXT
  <2>2. s = Whole!heap_address_to_block(freed.addr)
    BY DEF s, Start, heap_address_to_block, Whole!heap_address_to_block
  <2> QED
    BY <1>1, <1>6, <2>1, <2>2 DEF Whole!heap_free
<1> QED
  BY <1>1, <1>7 DEF Whole!Next

\* A call of heap_malloc or heap_free that no interrupt comes into does exactly
\* what Heap says in one step, whatever the table and however many iterations its
\* loops make: everything proved of Heap holds of the loops.
THEOREM CallsAreAtomic == IntSpec => Atomic
<1>1. IntSpec => []Progress
  BY SafeInvariant, InitProgress, NextProgress, PTL DEF IntSpec
<1>2. ASSUME SafeInv, Progress, IntNext, pc # "idle", pc' = "idle", ~disturbed
      PROVE  Whole!Next
  <2>1. ~ScrollInHandler
    BY <1>2 DEF ScrollInHandler, loopVars
  <2>2. NotFound \/ EndTake \/ FreeLastBlock \/ FreeEnd
    BY <1>2, <2>1 DEF IntNext, MainStep, LoopNext, Step, CallMalloc, CallFree, SearchTaken, SearchFree,
       SearchEnd, BeginTake, TakeBlock, FreeBlock
  <2> QED
    BY <1>2, <2>2, NotFoundIsWhole, EndTakeIsWhole, FreeIsWhole
<1>3. SafeInv /\ Progress /\ [IntNext]_intVars =>
        [pc # "idle" /\ pc' = "idle" /\ ~disturbed => Whole!Next]_intVars
  BY <1>2
<1> QED
  BY <1>1, <1>3, SafeInvariant, PTL DEF IntSpec, Atomic
=============================================================================
