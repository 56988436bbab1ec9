--------------------------- MODULE FrameAllocator ---------------------------
(***************************************************************************)
(* The physical frame allocator of src/src/high/memory/mem.cpp             *)
(* (namespace PhysicalAllocator).                                          *)
(*                                                                         *)
(* A bitmap has one bit per page frame of the usable (type 1) regions of   *)
(* the loader's memory map, numbered region after region.  alloc(count)    *)
(* scans for count consecutive clear bits starting after a rotating        *)
(* cursor; free(address, count) clears the bits again.  Addresses are in   *)
(* units of page frames (page_size = 1), so region bases and lengths are   *)
(* frame numbers.                                                          *)
(*                                                                         *)
(* The do-while loop of alloc is modelled one iteration per step (action   *)
(* AllocScan) so that its termination can be checked; everything else is  *)
(* one step per call, as the callers serialise on the boot CPU.            *)
(***************************************************************************)
EXTENDS Integers, Sequences, FiniteSets, FiniteSetsExt, Bags

CONSTANTS
    Regions,   \* the usable regions of the memory map, in map order:
               \* a sequence of [base |-> frame, len |-> frames]
    Reserved,  \* the ranges init() reserves: a set of [start, size] records
    Counts,    \* the frame counts callers request from alloc
    None       \* model value: the empty optional<>

ASSUME /\ Len(Regions) >= 1
       /\ \A k \in 1..Len(Regions) : Regions[k].len > 0
       /\ Counts \subseteq Nat \ {0}

\* physical_memory_bitmap_size: the number of frames the bitmap covers
RECURSIVE SumLen(_)
SumLen(k) == IF k = 0 THEN 0 ELSE Regions[k].len + SumLen(k - 1)
BitmapSize == SumLen(Len(Regions))
Index == 0 .. BitmapSize - 1

\* memoryBitmapIndexToPhysical: walk the regions, subtracting their lengths
RECURSIVE IndexToPhysFrom(_, _)
IndexToPhysFrom(index, k) ==
    IF k > Len(Regions) THEN None
    ELSE IF index < Regions[k].len THEN Regions[k].base + index
    ELSE IndexToPhysFrom(index - Regions[k].len, k + 1)
memoryBitmapIndexToPhysical(index) == IndexToPhysFrom(index, 1)

\* physicalAddressPageToMemoryIndex: the region holding the frame, plus the
\* frames of the regions before it
RECURSIVE PhysToIndexFrom(_, _, _)
PhysToIndexFrom(a, k, current) ==
    IF k > Len(Regions) THEN None
    ELSE IF a >= Regions[k].base /\ a - Regions[k].base < Regions[k].len
         THEN current + (a - Regions[k].base)
    ELSE PhysToIndexFrom(a, k + 1, current + Regions[k].len)
physicalAddressPageToMemoryIndex(a) == PhysToIndexFrom(a, 1, 0)

\* Mutant of reserveMemory: the index loop stops one index early.
reserveMemoryShort(bm, start, size, reserve) ==
    IF size = 0 THEN bm
    ELSE LET end        == start + size
             startIndex == physicalAddressPageToMemoryIndex(start)
             endIndex   == physicalAddressPageToMemoryIndex(end)
         IN  IF startIndex = None \/ endIndex = None
             THEN [i \in Index |->
                     IF \E a \in start .. end - 1 :
                            physicalAddressPageToMemoryIndex(a) = i
                     THEN reserve ELSE bm[i]]
             ELSE [i \in Index |->
                     IF startIndex <= i /\ i < endIndex - 1 THEN reserve ELSE bm[i]]

\* reserveMemory(start, size, reserve) applied to bitmap bm.  When the
\* first or the one-past-last frame has no index the frames are set one by
\* one; otherwise the index range [startIndex, endIndex) is set.
reserveMemory(bm, start, size, reserve) ==
    IF size = 0 THEN bm
    ELSE LET end        == start + size
             startIndex == physicalAddressPageToMemoryIndex(start)
             endIndex   == physicalAddressPageToMemoryIndex(end)
         IN  IF startIndex = None \/ endIndex = None
             THEN [i \in Index |->
                     IF \E a \in start .. end - 1 :
                            physicalAddressPageToMemoryIndex(a) = i
                     THEN reserve ELSE bm[i]]
             ELSE [i \in Index |->
                     IF startIndex <= i /\ i < endIndex THEN reserve ELSE bm[i]]

\* init(): clear the bitmap, then reserve every range in Reserved
InitialBitmap ==
    LET RECURSIVE ReserveAll(_, _)
        ReserveAll(bm, rs) ==
            IF rs = {} THEN bm
            ELSE LET r == CHOOSE x \in rs : TRUE
                 IN  ReserveAll(reserveMemory(bm, r.start, r.size, TRUE), rs \ {r})
    IN  ReserveAll([i \in Index |-> FALSE], Reserved)

VARIABLES
    bitmap,   \* physical_memory_bitmap, one bit per index
    cursor,   \* last_checked_memory_bitmap_index
    pc,       \* "idle" between calls, "scan" inside alloc's do-while loop
    stop,     \* stop_infinite_loop, the cursor when alloc was entered
    req,      \* the count argument of the alloc in progress
    live,     \* the runs callers hold: a bag of [base |-> frame, n |-> count]
    last      \* the last completed call (history)

vars == <<bitmap, cursor, pc, stop, req, live, last>>

Op == [op : {"none", "alloc", "free"}, n : Nat, res : Nat \cup {None}]

Remember(o) == last' = o

Frames(r) == r.base .. r.base + r.n - 1

Init ==
    /\ bitmap = InitialBitmap
    /\ cursor = 0
    /\ pc = "idle"
    /\ stop = 0
    /\ req = 0
    /\ live = EmptyBag
    /\ last = [op |-> "none", n |-> 0, res |-> None]

\* alloc(count): entry, records stop_infinite_loop
AllocStart(count) ==
    /\ pc = "idle"
    /\ pc' = "scan"
    /\ stop' = cursor
    /\ req' = count
    /\ UNCHANGED <<bitmap, cursor, live, last>>

\* The index the next iteration of the do-while loop examines first:
\* last_checked_memory_bitmap_index + 1, wrapped to the bitmap size.
ScanStart == (cursor + 1) % BitmapSize

\* The inner for loop: the offsets i < count whose bit is set.
\* (Mutant: the loop runs to i <= count.)
HitsWide(c, n) == {i \in 0 .. n : bitmap[(c + i) % BitmapSize]}
Hits(c, n) == {i \in 0 .. n - 1 : bitmap[(c + i) % BitmapSize]}

\* On the first set bit the cursor jumps to its index.
\* (Mutant: the modulo is forgotten.)
SkipToNoWrap(c, hits) == c + Min(hits)
\* (Mutant: the cursor is not moved to the hit.)
SkipToStay(c, hits) == cursor
SkipTo(c, hits) == (c + Min(hits)) % BitmapSize

\* The do-while condition: stop when the cursor is back at
\* stop_infinite_loop.  (Mutant: the condition is dropped.)
LoopContinuesAlways(next) == TRUE
LoopContinues(next) == next # stop

\* One iteration of alloc's do-while loop: advance the cursor, look for an
\* allocated frame among the next req indices (wrapping modulo the bitmap
\* size).  On a hit the cursor jumps to it and the loop continues unless the
\* cursor now equals stop_infinite_loop; otherwise the run is reserved and
\* its physical base returned.
AllocScan ==
    /\ pc = "scan"
    /\ LET c    == ScanStart
           hits == Hits(c, req)
       IN  IF hits # {}
           THEN LET next == SkipTo(c, hits)
                IN  /\ cursor' = next
                    /\ IF LoopContinues(next)
                       THEN UNCHANGED <<pc, live, last>>
                       ELSE /\ pc' = "idle"
                            /\ Remember([op |-> "alloc", n |-> req, res |-> None])
                            /\ UNCHANGED live
                    /\ UNCHANGED bitmap
           ELSE LET address == memoryBitmapIndexToPhysical(c)
                    run     == [base |-> address, n |-> req]
                IN  /\ cursor' = c
                    /\ pc' = "idle"
                    /\ bitmap' = reserveMemory(bitmap, address, req, TRUE)
                    /\ live' = live (+) SetToBag({run})
                    /\ Remember([op |-> "alloc", n |-> req, res |-> address])
    /\ UNCHANGED <<stop, req>>

\* free(address, count) of a run some caller holds
Free(r) ==
    /\ pc = "idle"
    /\ bitmap' = reserveMemory(bitmap, r.base, r.n, FALSE)
    /\ live' = live (-) SetToBag({r})
    /\ Remember([op |-> "free", n |-> r.n, res |-> r.base])
    /\ UNCHANGED <<cursor, pc, stop, req>>

Next ==
    \/ \E n \in Counts : AllocStart(n)
    \/ AllocScan
    \/ \E r \in BagToSet(live) : Free(r)

Spec == Init /\ [][Next]_vars /\ WF_vars(AllocScan)

-----------------------------------------------------------------------------
TypeOK ==
    /\ bitmap \in [Index -> BOOLEAN]
    /\ cursor \in Index
    /\ pc \in {"idle", "scan"}
    /\ stop \in Index
    /\ req \in Counts \cup {0}
    /\ IsABag(live) /\ BagToSet(live) \subseteq [base : Nat, n : Counts]
    /\ last \in Op

\* The frames reserved at init (kernel image, bitmap, frame 0, ...).
ReservedFrames == UNION {r.start .. r.start + r.size - 1 : r \in Reserved}
UsableFrames ==
    UNION {Regions[k].base .. Regions[k].base + Regions[k].len - 1 : k \in 1..Len(Regions)}

\* No frame is handed out twice: the runs that alloc returned and that
\* nobody has freed are pairwise disjoint and avoid the frames init()
\* reserved.  Breaking it takes an alloc whose reserveMemory leaves a frame
\* of the run clear, and a later alloc that picks it up.
FramesExclusive ==
    /\ \A r \in BagToSet(live) : CopiesIn(r, live) = 1
    /\ \A r1, r2 \in BagToSet(live) : r1 # r2 => Frames(r1) \cap Frames(r2) = {}
    /\ \A r \in BagToSet(live) : Frames(r) \cap ReservedFrames = {}

\* Every frame of a run alloc returns is usable RAM: the run is contiguous
\* in physical memory, not just in bitmap indices.
RunsAreUsableRam ==
    \A r \in BagToSet(live) : Frames(r) \subseteq UsableFrames

\* alloc returns none only when the bitmap holds no run of count clear
\* bits (at any start, wrapping as the scan does).
FreeRunExists(n) ==
    \E s \in Index : \A i \in 0 .. n - 1 : ~bitmap[(s + i) % BitmapSize]
AllocFailsOnlyWhenExhausted ==
    [][(pc = "scan" /\ pc' = "idle" /\ last'.res = None)
         => ~FreeRunExists(req)]_vars

\* Every call to alloc returns: the do-while loop reaches either a free run
\* or the cursor it started from.
AllocTerminates == (pc = "scan") ~> (pc = "idle")
=============================================================================
