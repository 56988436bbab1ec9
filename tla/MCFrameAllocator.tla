-------------------------- MODULE MCFrameAllocator --------------------------
(***************************************************************************)
(* Memory maps for FrameAllocator.  Addresses are frame numbers.           *)
(***************************************************************************)
EXTENDS FrameAllocator

\* One usable region of five frames; init reserves frame 0 (the null page)
\* and frame 3 (say, the kernel image), leaving two free runs of length 2
\* and 1 around it.
OneRegion == << [base |-> 0, len |-> 5] >>
OneRegionReserved == { [start |-> 0, size |-> 1], [start |-> 3, size |-> 1] }

\* Two usable regions with a hole of two frames between them, like
\* [0, 0xA0000) and [0x100000, ...) around the legacy upper-memory hole.
TwoRegions == << [base |-> 0, len |-> 3], [base |-> 5, len |-> 3] >>
TwoRegionsReserved == { [start |-> 0, size |-> 1] }
=============================================================================
