---------------------------- MODULE HeapInterrupt ----------------------------
(***************************************************************************)
(* The heap is used by the kernel's main line and, once interrupts are     *)
(* allowed (moskernel.c:97), by the keyboard handler: INT21H prints, print *)
(* scrolls a full screen, and copy_row takes a heap block for every row it *)
(* moves.  Nothing locks the heap, so the handler's calls fall between two *)
(* iterations of a loop of the main line's call.                           *)
(*                                                                         *)
(* The handler runs to completion: it is entered through an interrupt gate *)
(* and keeps interrupts off until its iretd.                               *)
(***************************************************************************)
EXTENDS HeapLoops

CONSTANTS
    RowCopies,      \* rows moved by one scroll, VGA_HEIGHT - 1
    MaxInterrupts   \* bound on the number of scrolls done in the handler

ASSUME InterruptAssumption == RowCopies \in Nat /\ MaxInterrupts \in Nat

VARIABLES
    interrupts,     \* history: scrolls done in the handler so far
    disturbed       \* history: one of them came into the running call

intVars == <<allVars, interrupts, disturbed>>

IntInit ==
    /\ LoopInit
    /\ interrupts = 0
    /\ disturbed = FALSE

\* Mutant: a row is moved for every row of the screen, the last one included.
AfterRowCopies_AllRows(t) ==
    LET after[k \in 0..(RowCopies + 1)] ==
            IF k = 0 THEN t
            ELSE LET start == heap_get_start_block(after[k - 1], 1)
                 IN  IF start < 0 THEN after[k - 1]
                     ELSE heap_mark_blocks_taken(after[k - 1], start, 1)
    IN  after[RowCopies + 1]

\* The table after k calls kzalloc(row_bytes) in a row; a row fits a block.
\* A call that finds no block leaves the table alone.
AfterRowCopies(t) ==
    LET after[k \in 0..RowCopies] ==
            IF k = 0 THEN t
            ELSE LET start == heap_get_start_block(after[k - 1], 1)
                 IN  IF start < 0 THEN after[k - 1]
                     ELSE heap_mark_blocks_taken(after[k - 1], start, 1)
    IN  after[RowCopies]

\* copy_row never frees its buffer, so the blocks stay taken.
ScrollInHandler ==
    /\ interrupts < MaxInterrupts
    /\ interrupts' = interrupts + 1
    /\ disturbed' = (pc # "idle")
    /\ entries' = AfterRowCopies(entries)
    /\ UNCHANGED <<held, ret, loopVars>>

MainStep ==
    /\ LoopNext
    /\ disturbed' = (disturbed /\ pc # "idle")
    /\ UNCHANGED interrupts

IntNext == MainStep \/ ScrollInHandler

\* The kernel computes: a call that has begun goes on.
IntSpec ==
    /\ IntInit
    /\ [][IntNext]_intVars
    /\ WF_intVars(Step /\ MainStep)

-----------------------------------------------------------------------------
(* Properties.                                                             *)

\* A call that nothing interrupts computes what Heap says in one step: the
\* search finds the first run that is long enough or the run at the end, the
\* marking flags exactly the allocation, the freeing walks exactly its chain.
Whole == INSTANCE Heap WITH entries <- before

Atomic == [][pc # "idle" /\ pc' = "idle" /\ ~disturbed => Whole!Next]_intVars

\* Every call returns, interrupted or not: no loop of heap.c runs on, whatever
\* the table holds.
CallsReturn == []<>(pc = "idle")

TakenIn(t) == {b \in Block : ~IsFree(t, b)}

\* Blocks that are taken although the main line does not hold them.  While a
\* call runs, part of the table belongs to the call.
Lost == TakenIn(entries) \ UNION {Extent(a) : a \in held}

\* The blocks in the hands of the main line: those of the allocations it holds, the ones
\* that a running heap_malloc has marked so far, and the ones that a running heap_free
\* has still to free.
Owned ==
    {b \in Block : \/ \E a \in held \ {freed} : b \in Extent(a)
                   \/ pc = "take" /\ start_block <= b /\ b < i
                   \/ pc = "free" /\ b \in Extent(freed) /\ i <= b}

\* The rows the handler moves never go through a block of the main line's, whatever
\* iteration of whatever loop the handler has interrupted: no entry of such a block
\* is written.
HandlerApart == [][ScrollInHandler => \A b \in Owned : entries'[b] = entries[b]]_intVars

\* What the main line holds between calls stays a chain that heap_free will
\* follow to its end and no further, although the handler wrote to the table
\* in the middle of the call that built it.
HeldChains == pc = "idle" => ChainExact

\* Interrupting a call never loses blocks of the main line: between calls,
\* only the handler's own row buffers are taken without being held.
LostOnlyInHandler == pc = "idle" => Cardinality(Lost) <= RowCopies * interrupts
=============================================================================
