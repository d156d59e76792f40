--------------------------- MODULE MCHeapInterrupt ---------------------------
(* The loops of heap.c, interrupted by a keyboard handler that scrolls. *)
EXTENDS HeapInterrupt
=============================================================================
