------------------------------- MODULE MCHeap -------------------------------
(* Heap on a heap of a few two-byte blocks, with a word of 16 values: 15 is *)
(* a size whose alignment wraps around to 0.                                *)
EXTENDS Heap
=============================================================================
