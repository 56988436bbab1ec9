------------------------------- MODULE MCHeap -------------------------------
(* The kernel heap instantiated for TLC: the constants are given in the   *)
(* .cfg files.                                                            *)
EXTENDS Heap
=============================================================================
