--------------------------- MODULE BlockAllocator ---------------------------
(***************************************************************************)
(* What a caller of heap_malloc and heap_free relies on, with no block     *)
(* table, no flags and no search loop: a heap is Total blocks, an          *)
(* allocation is an interval <<first, last>> of them, no block belongs to  *)
(* two allocations, and releasing an allocation makes exactly its blocks   *)
(* free again.                                                             *)
(*                                                                         *)
(* Two specifications are stated.  Promise is what the comments of heap.c  *)
(* say: a request either gets all the blocks it asked for or gets NULL.    *)
(* Actual adds the one thing the code also does, GrantShort.               *)
(***************************************************************************)
EXTENDS Integers

CONSTANTS
    Total,      \* number of blocks of the heap
    Requests,   \* the numbers of blocks callers ask for
    NULL        \* the null pointer

VARIABLES
    owned,      \* the allocations, a set of <<first, last>>
    answer      \* what the last request returned: a first block, or NULL

allocVars == <<owned, answer>>

Blocks == 0..(Total - 1)

Interval(a) == a[1]..a[2]

Unowned == {b \in Blocks : \A a \in owned : b \notin Interval(a)}

\* A run of n unowned blocks, by its first and its last block.
FreeRuns(n) ==
    {r \in Blocks \X Blocks : r[2] = r[1] + n - 1 /\ Interval(r) \subseteq Unowned}

AllocInit ==
    /\ owned = {}
    /\ answer = NULL

Grant(n) ==
    \E r \in FreeRuns(n) :
        /\ owned' = owned \cup {r}
        /\ answer' = r[1]

Refuse(n) ==
    /\ FreeRuns(n) = {}
    /\ answer' = NULL
    /\ UNCHANGED owned

\* There is no run of n blocks, and the caller is given the shorter run that
\* ends at the last block of the heap.
GrantShort(n) ==
    /\ FreeRuns(n) = {}
    /\ \E m \in 1..(n - 1) : \E r \in FreeRuns(m) :
        /\ r[2] = Total - 1
        /\ owned' = owned \cup {r}
        /\ answer' = r[1]

\* A request for no blocks is answered with NULL or with the first block of
\* some unowned run, and owns nothing.
GrantNone ==
    /\ answer' \in {NULL} \cup Unowned
    /\ UNCHANGED owned

Release(a) ==
    /\ owned' = owned \ {a}
    /\ UNCHANGED answer

PromiseNext ==
    \/ \E n \in Requests \ {0} : Grant(n) \/ Refuse(n)
    \/ 0 \in Requests /\ GrantNone
    \/ \E a \in owned : Release(a)

ActualNext ==
    \/ PromiseNext
    \/ \E n \in Requests : GrantShort(n)

Promise == AllocInit /\ [][PromiseNext]_allocVars

Actual == AllocInit /\ [][ActualNext]_allocVars
=============================================================================
