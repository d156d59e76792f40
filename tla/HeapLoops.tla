------------------------------ MODULE HeapLoops ------------------------------
(***************************************************************************)
(* heap.c with its loops: heap_get_start_block, heap_mark_blocks_taken and *)
(* heap_mark_blocks_free run one iteration per step, so that an interrupt  *)
(* can come between two of them.  Heap is the same code with every call    *)
(* done in one step.  HeapInterrupt adds the interrupts and states what    *)
(* the loops have to do with Heap.                                         *)
(***************************************************************************)
EXTENDS Heap

VARIABLES
    pc,             \* where the running call is; "idle" between calls
    i,              \* the loop counter of the running loop
    block_counter,  \* heap_get_start_block: free entries counted so far
    start_block,    \* the block the count began at, -1 if none
    total_blocks,   \* the argument of heap_malloc_blocks
    entry,          \* heap_mark_blocks_taken: the flags written next
    freed,          \* the allocation being freed
    before          \* history: the table when the running call began

loopVars == <<pc, i, block_counter, start_block, total_blocks, entry, freed, before>>
allVars == <<vars, loopVars>>

NoAllocation == [addr |-> NULL, blocks |-> 0]

LoopInit ==
    /\ Init
    /\ pc = "idle"
    /\ i = 0
    /\ block_counter = 0
    /\ start_block = -1
    /\ total_blocks = 0
    /\ entry = FREE
    /\ freed = NoAllocation
    /\ before = entries

\* Back to the caller: the locals of the call are dead.
Return ==
    /\ pc' = "idle"
    /\ i' = 0
    /\ block_counter' = 0
    /\ start_block' = -1
    /\ total_blocks' = 0
    /\ entry' = FREE
    /\ freed' = NoAllocation
    /\ before' = entries'

-----------------------------------------------------------------------------
(* heap_malloc                                                             *)

CallMalloc(size) ==
    /\ pc = "idle"
    /\ pc' = "search"
    /\ i' = 0
    /\ block_counter' = 0
    /\ start_block' = -1
    /\ total_blocks' = RequestedBlocks(size)
    /\ before' = entries
    /\ UNCHANGED <<vars, entry, freed>>

\* Mutants: start_block is not reset at a taken entry; the loop does not advance.
SearchTaken_KeepsStart ==
    /\ pc = "search" /\ i < Total
    /\ ~IsFree(entries, i)
    /\ block_counter' = 0
    /\ i' = i + 1
    /\ UNCHANGED <<vars, pc, start_block, total_blocks, entry, freed, before>>

SearchTaken_Stays ==
    /\ pc = "search" /\ i < Total
    /\ ~IsFree(entries, i)
    /\ block_counter' = 0
    /\ start_block' = -1
    /\ UNCHANGED <<vars, i, pc, total_blocks, entry, freed, before>>

SearchTaken ==
    /\ pc = "search" /\ i < Total
    /\ ~IsFree(entries, i)
    /\ block_counter' = 0
    /\ start_block' = -1
    /\ i' = i + 1
    /\ UNCHANGED <<vars, pc, total_blocks, entry, freed, before>>

\* The last iteration leaves i on the entry it stopped at.
SearchFree ==
    /\ pc = "search" /\ i < Total
    /\ IsFree(entries, i)
    /\ start_block' = IF start_block = -1 THEN i ELSE start_block
    /\ block_counter' = block_counter + 1
    /\ IF block_counter' = total_blocks
       THEN pc' = "found" /\ i' = i
       ELSE pc' = pc /\ i' = i + 1
    /\ UNCHANGED <<vars, total_blocks, entry, freed, before>>

SearchEnd ==
    /\ pc = "search" /\ i = Total
    /\ pc' = "found"
    /\ UNCHANGED <<vars, i, block_counter, start_block, total_blocks, entry, freed, before>>

NotFound ==
    /\ pc = "found" /\ start_block = -1
    /\ ret' = NULL
    /\ UNCHANGED <<entries, held>>
    /\ Return

BeginTake ==
    /\ pc = "found" /\ start_block # -1
    /\ pc' = "take"
    /\ i' = start_block
    /\ entry' = {TAKEN, FIRST} \cup (IF total_blocks > 1 THEN {NEXT} ELSE {})
    /\ UNCHANGED <<vars, block_counter, start_block, total_blocks, freed, before>>

\* Mutant: the last block is one too early.
EndBlock_Early == start_block + total_blocks - 2

EndBlock == start_block + total_blocks - 1

\* Mutant: HAS_NEXT compared with the end block itself.
TakeBlock_NextOnLast ==
    /\ pc = "take" /\ i <= EndBlock
    /\ entries' = IF i \in Block THEN [entries EXCEPT ![i] = entry] ELSE entries
    /\ entry' = {TAKEN} \cup (IF i # EndBlock THEN {NEXT} ELSE {})
    /\ i' = i + 1
    /\ UNCHANGED <<held, ret, pc, block_counter, start_block, total_blocks, freed, before>>

TakeBlock ==
    /\ pc = "take" /\ i <= EndBlock
    /\ entries' = IF i \in Block THEN [entries EXCEPT ![i] = entry] ELSE entries
    /\ entry' = {TAKEN} \cup (IF i # EndBlock - 1 THEN {NEXT} ELSE {})
    /\ i' = i + 1
    /\ UNCHANGED <<held, ret, pc, block_counter, start_block, total_blocks, freed, before>>

EndTake ==
    /\ pc = "take" /\ i > EndBlock
    /\ ret' = heap_block_to_address(start_block)
    /\ held' = IF total_blocks = 0 THEN held
               ELSE held \cup {[addr |-> ret', blocks |-> total_blocks]}
    /\ UNCHANGED entries
    /\ Return

-----------------------------------------------------------------------------
(* heap_free                                                               *)

\* The caller gives the pointer up when it calls.
CallFree(a) ==
    /\ pc = "idle"
    /\ a \in held
    /\ pc' = "free"
    /\ i' = heap_address_to_block(a.addr)
    /\ freed' = a
    /\ before' = entries
    /\ UNCHANGED <<vars, block_counter, start_block, total_blocks, entry>>

FreeBlock ==
    /\ pc = "free" /\ i < Total
    /\ NEXT \in entries[i]
    /\ entries' = [entries EXCEPT ![i] = FREE]
    /\ i' = i + 1
    /\ UNCHANGED <<held, ret, pc, block_counter, start_block, total_blocks, entry, freed, before>>

FreeLastBlock ==
    /\ pc = "free" /\ i < Total
    /\ NEXT \notin entries[i]
    /\ entries' = [entries EXCEPT ![i] = FREE]
    /\ held' = held \ {freed}
    /\ UNCHANGED ret
    /\ Return

\* The allocation runs past the end of the table: the loop bound stops it.
FreeEnd ==
    /\ pc = "free" /\ i = Total
    /\ held' = held \ {freed}
    /\ UNCHANGED <<entries, ret>>
    /\ Return

Step ==
    \/ SearchTaken \/ SearchFree \/ SearchEnd \/ NotFound
    \/ BeginTake \/ TakeBlock \/ EndTake
    \/ FreeBlock \/ FreeLastBlock \/ FreeEnd

LoopNext ==
    \/ \E size \in Sizes : CallMalloc(size)
    \/ \E a \in held : CallFree(a)
    \/ Step
=============================================================================
