----------------------------- MODULE KernelHeap -----------------------------
(***************************************************************************)
(* What kheap::malloc and kheap::free promise their callers, stated over   *)
(* byte ranges of the kernel heap window and nothing else: a returned      *)
(* block lies in the window, holds at least the bytes asked for and        *)
(* shares no byte with another block a caller holds; free gives back      *)
(* exactly the block passed to it.  The kernel may panic at any point      *)
(* (out of memory, a failed lookup), after which nothing more happens.     *)
(***************************************************************************)
EXTENDS Integers, FiniteSets

CONSTANTS
    Sizes,      \* the sizes callers pass to kmalloc
    HeapBytes,  \* the heap window is byte 0 .. HeapBytes - 1
    MaxLive     \* bound: blocks held by callers at once

VARIABLES
    blocks,     \* the blocks callers hold: [lo, hi, size], bytes lo .. hi - 1
    crashed     \* the kernel has panicked

vars == <<blocks, crashed>>

Disjoint(b, c) == b.hi <= c.lo \/ c.hi <= b.lo

Init == blocks = {} /\ crashed = FALSE

\* kmalloc(size) returns a fresh block.
Malloc ==
    /\ ~crashed /\ Cardinality(blocks) < MaxLive
    /\ \E b \in blocks' \ blocks :
          /\ blocks' = blocks \cup {b}
          /\ b.size \in Sizes
          /\ 0 <= b.lo /\ b.lo + b.size <= b.hi /\ b.hi <= HeapBytes
          /\ \A c \in blocks : Disjoint(b, c)
    /\ UNCHANGED crashed

\* kfree(ptr) of a block a caller holds.
Free ==
    /\ ~crashed
    /\ \E b \in blocks : blocks' = blocks \ {b}
    /\ UNCHANGED crashed

Panic == ~crashed /\ crashed' /\ UNCHANGED blocks

Next == Malloc \/ Free \/ Panic

Spec == Init /\ [][Next]_vars
====
