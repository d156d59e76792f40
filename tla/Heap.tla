-------------------------------- MODULE Heap --------------------------------
(***************************************************************************)
(* The kernel heap: src/mem/heap/heap.c behind the kmalloc and kfree of    *)
(* src/mem/heap/kheap.c.  The heap is a table with one entry per block; an *)
(* allocation is a run of entries, the first flagged IS_FIRST and all but  *)
(* the last flagged HAS_NEXT.  Nothing else is recorded: how long an       *)
(* allocation is, heap_free finds out by following HAS_NEXT.               *)
(*                                                                         *)
(* A call is one step here; HeapLoops cuts the calls into the iterations   *)
(* of their loops.  held is what the callers believe they own: one record  *)
(* per pointer they were given and have not freed, with the number of      *)
(* blocks they asked for.  The kernel frees a pointer at most once, and    *)
(* never one it got for a request of zero bytes.                           *)
(***************************************************************************)
EXTENDS Integers, FiniteSets

CONSTANTS
    Total,      \* heap_table.total, the number of blocks
    BlockSize,  \* MYSTOS_HEAP_BLOCK_SIZE
    Saddr,      \* heap.saddr, the address of block 0
    WordSize,   \* 2^32: one more than the largest uint32_t
    Sizes       \* the sizes in bytes that callers ask for

ASSUME HeapAssumption ==
    /\ Total \in Nat \ {0}
    /\ BlockSize \in Nat \ {0}
    /\ Saddr \in Nat \ {0}
    /\ WordSize \in Nat
    /\ WordSize % BlockSize = 0
    /\ Sizes \subseteq 0..(WordSize - 1)

VARIABLES
    entries,    \* heap_table.entries: the set of flags of each block
    held,       \* the allocations the callers hold
    ret         \* what the last heap_malloc returned

vars == <<entries, held, ret>>

NULL == 0
ENOMEM == 3

Block == 0..(Total - 1)

\* The flags of a table entry: TAKEN and FREE are the low nibble of the byte,
\* the other two are its two high bits.  A free entry is the empty set.
TAKEN == "HEAP_BLOCK_TABLE_ENTRY_TAKEN"
FIRST == "HEAP_BLOCK_IS_FIRST"
NEXT == "HEAP_BLOCK_HAS_NEXT"
Entry == SUBSET {TAKEN, FIRST, NEXT}
FREE == {}

Minimum(S) == CHOOSE m \in S : \A k \in S : m <= k

-----------------------------------------------------------------------------
(* The operations on a table t.                                            *)

IsFree(t, i) == TAKEN \notin t[i]

\* The addition wraps around: a size in the last block of the address space
\* aligns to 0.
heap_align_value_to_upper(val) ==
    IF val % BlockSize = 0 THEN val
    ELSE (val - (val % BlockSize) + BlockSize) % WordSize

heap_block_to_address(block) == Saddr + block * BlockSize

heap_address_to_block(address) == (address - Saddr) \div BlockSize

\* Mutant: a taken entry does not restart the count.
FreeRunStarts_NoRestart(t, n) == {s \in Block : s + n <= Total /\ IsFree(t, s)}

\* The first blocks of the runs of n free entries.
FreeRunStarts(t, n) ==
    {s \in Block : s + n <= Total /\ \A i \in s..(s + n - 1) : IsFree(t, i)}

\* The first blocks of the free runs that reach the end of the table.
TailStarts(t) == {s \in Block : \A i \in s..(Total - 1) : IsFree(t, i)}

\* The search goes through the table counting consecutive free entries and
\* stops when it has counted n.  If it gets to the end instead, start_block is
\* wherever the run it was still counting began, and -1 only if the last entry
\* is taken.  For n = 0 the count never equals n.
heap_get_start_block(t, n) ==
    IF n > 0 /\ FreeRunStarts(t, n) # {} THEN Minimum(FreeRunStarts(t, n))
    ELSE IF TailStarts(t) # {} THEN Minimum(TailStarts(t))
    ELSE -ENOMEM

\* Mutants: HAS_NEXT decided by i # end_block; the last block left out.
heap_mark_blocks_taken_NextOnLast(t, start, n) ==
    [i \in Block |->
        IF i \in start..(start + n - 1)
        THEN {TAKEN} \cup (IF i = start THEN {FIRST} ELSE {})
                     \cup (IF n > 1 THEN {NEXT} ELSE {})
        ELSE t[i]]

heap_mark_blocks_taken_Short(t, start, n) ==
    [i \in Block |->
        IF i \in start..(start + n - 2)
        THEN {TAKEN} \cup (IF i = start THEN {FIRST} ELSE {})
                     \cup (IF i # start + n - 2 THEN {NEXT} ELSE {})
        ELSE t[i]]

\* Writes past the end of the table go to memory nobody else uses, and are
\* left out.
heap_mark_blocks_taken(t, start, n) ==
    [i \in Block |->
        IF i \in start..(start + n - 1)
        THEN {TAKEN} \cup (IF i = start THEN {FIRST} ELSE {})
                     \cup (IF i # start + n - 1 THEN {NEXT} ELSE {})
        ELSE t[i]]

\* The entries that the freeing loop visits: it goes on after an entry that
\* has HAS_NEXT.
Chain(t, start) == {i \in start..(Total - 1) : \A j \in start..(i - 1) : NEXT \in t[j]}

\* Mutant: the loop always stops at the first block.
heap_mark_blocks_free_FirstOnly(t, start) == [t EXCEPT ![start] = FREE]

heap_mark_blocks_free(t, start) ==
    [i \in Block |-> IF i \in Chain(t, start) THEN FREE ELSE t[i]]

-----------------------------------------------------------------------------
(* The calls.                                                              *)

Init ==
    /\ entries = [i \in Block |-> FREE]
    /\ held = {}
    /\ ret = NULL

RequestedBlocks(size) == heap_align_value_to_upper(size) \div BlockSize

\* Mutant: a negative start block is not noticed.
heap_malloc_blocks_Unchecked(n) ==
    LET start == heap_get_start_block(entries, n)
    IN  /\ ret' = heap_block_to_address(start)
        /\ entries' = heap_mark_blocks_taken(entries, start, n)
        /\ held' = held \cup {[addr |-> ret', blocks |-> n]}

heap_malloc_blocks(n) ==
    LET start == heap_get_start_block(entries, n)
    IN  IF start < 0
        THEN ret' = NULL /\ UNCHANGED <<entries, held>>
        ELSE /\ ret' = heap_block_to_address(start)
             /\ entries' = heap_mark_blocks_taken(entries, start, n)
             /\ held' = IF n = 0 THEN held
                        ELSE held \cup {[addr |-> ret', blocks |-> n]}

heap_malloc(size) == heap_malloc_blocks(RequestedBlocks(size))

heap_free(a) ==
    /\ a \in held
    /\ entries' = heap_mark_blocks_free(entries, heap_address_to_block(a.addr))
    /\ held' = held \ {a}
    /\ UNCHANGED ret

Next ==
    \/ \E size \in Sizes : heap_malloc(size)
    \/ \E a \in held : heap_free(a)

Spec == Init /\ [][Next]_vars

-----------------------------------------------------------------------------
(* Properties.                                                             *)

Start(a) == heap_address_to_block(a.addr)

\* The blocks a caller may use: all it asked for, also past the end.
Extent(a) == Start(a)..(Start(a) + a.blocks - 1)

\* The table is a table and every pointer handed out is the address of a block.
TypeOK ==
    /\ entries \in [Block -> Entry]
    /\ ret \in {NULL} \cup {heap_block_to_address(b) : b \in Block}
    /\ held \subseteq [addr : {heap_block_to_address(b) : b \in Block}, blocks : Nat \ {0}]

\* No block is in the hands of two callers, whatever has been allocated and
\* freed before and although the table keeps no lengths (heap_get_start_block,
\* heap_mark_blocks_taken and heap_mark_blocks_free agree on where an
\* allocation ends).
Disjoint == \A a, b \in held : a # b => Extent(a) \cap Extent(b) = {}

\* An entry is taken exactly when some caller holds its block: freeing gives
\* back every block of an allocation and no other, so nothing leaks inside the
\* table and nothing is freed under a caller.
TableExact ==
    \A i \in Block : IsFree(entries, i) <=> \A a \in held : i \notin Extent(a)

\* The flags alone tell how far an allocation goes: within the table, HAS_NEXT
\* is set on all of its blocks but the last one.
ChainExact ==
    \A a \in held : Chain(entries, Start(a)) = Extent(a) \cap Block

\* heap.c:87: "start_block will be equal -1 if the loop finishes, but the
\* memory won't be found."  So a caller that got a pointer got blocks that are
\* all in the heap.
InsideHeap == \A a \in held : Extent(a) \subseteq Block

-----------------------------------------------------------------------------
(* The table read as a set of allocations, and the abstract allocator it   *)
(* implements.                                                             *)

Decode(t) ==
    {r \in Block \X Block :
        /\ FIRST \in t[r[1]]
        /\ r[2] \in Chain(t, r[1])
        /\ NEXT \notin t[r[2]] \/ r[2] = Total - 1}

Allocator == INSTANCE BlockAllocator WITH
    Requests <- {RequestedBlocks(s) : s \in Sizes},
    NULL <- -1,
    owned <- Decode(entries),
    answer <- IF ret = NULL THEN -1 ELSE heap_address_to_block(ret)

\* Every call of heap.c is a step of the abstract allocator, the short grant
\* included.
ImplementsActual == Allocator!Actual
=============================================================================
