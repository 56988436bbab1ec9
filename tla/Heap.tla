-------------------------------- MODULE Heap --------------------------------
(***************************************************************************)
(* The kernel heap of src/src/high/memory/heap.cpp: kheap::malloc/free and *)
(* the three tiers behind them.                                            *)
(*                                                                         *)
(*  - page_allocator hands out single pages of the 96..106 TiB arena by    *)
(*    walking the four-level page table and keeping a "subtree full" bit   *)
(*    in each entry (malloc_traverse / free_traverse);                     *)
(*  - small_allocator keeps slab pages of the 106..116 TiB arena, obtained *)
(*    through the same walk, with a bitmap and a bucket tag at the end of  *)
(*    each page and, per bucket, a list of non-full pages held in node     *)
(*    pages of the same arena (List::push/peek/remove);                    *)
(*  - large_allocator keeps a key-ordered map from the start of a region   *)
(*    of the 116..126 TiB arena to its size and maps the pages through     *)
(*    PageTable::map, looks them up with PageTable::get and unmaps them    *)
(*    with PageTable::unmap (paging.cpp, C2), composed in below.           *)
(*                                                                         *)
(* The page table is scaled down: Fanout entries per table instead of 512, *)
(* one top-level entry for each of the page and slab arenas.  An entry is  *)
(* named by its path of indices from the top-level table; a path of       *)
(* length 4 is a level-1 entry, the page handed out.  Physical frames come *)
(* from an abstract pool (C1): clean frames, dirty frames (freed with data *)
(* in them) and frame 0, which init() reserves and which holds the BIOS    *)
(* interrupt vector table.  Large regions are measured in pages.           *)
(*                                                                         *)
(* Only the boot CPU allocates (application processors halt in ap_cpu), so *)
(* each call is one step.                                                  *)
(***************************************************************************)
EXTENDS Integers, Sequences, FiniteSets, FiniteSetsExt, SequencesExt

CONSTANTS
    Fanout,      \* entries per page table (512 in the code)
    PageSize,    \* page_size in bytes
    Sizes,       \* the sizes callers pass to kmalloc
    SlabSlots,   \* objects per slab page (get_bitmap_element_count)
    NodeCap,     \* elements per List::Node (element_count)
    Frames,      \* clean frames C1 can hand out
    ArenaPages,  \* pages of the large arena (10 TiB)
    MaxLive      \* bound: allocations held by callers at once

ASSUME /\ Fanout \in Nat \ {0} /\ SlabSlots \in Nat \ {0} /\ NodeCap \in Nat \ {0}
       /\ Sizes \subseteq Nat /\ Frames \in Nat /\ MaxLive \in Nat

Idx == 0 .. Fanout - 1
PageL4 == 0                   \* l4 entries of 96 Ti .. 106 Ti
SlabL4 == 1                   \* l4 entries of 106 Ti .. 116 Ti
LargeL4 == 2                  \* first l4 entry of 116 Ti .. 126 Ti
Null == <<>>                  \* nullptr, as a path
Leaf(p) == Len(p) = 4
Slot == 0 .. SlabSlots - 1

\* get_pref_size and get_bucket
PrefSizes == <<4, 8, 16, 32, 64, 128, 256, 512, 1024, 2047>>
get_pref_size(size) ==
    IF size > 2047 THEN 0
    ELSE PrefSizes[Min({k \in 1 .. 10 : size <= PrefSizes[k]})]
get_bucket(pref) == CHOOSE b \in 0 .. 9 : PrefSizes[b + 1] = pref
Bucket == {get_bucket(get_pref_size(s)) : s \in {s \in Sizes : s <= 2047}}

-----------------------------------------------------------------------------
(* The physical frame pool and the page-table walk act on a record        *)
(* H = [present, full, pool]: the present entries, the entries whose     *)
(* page_full_bit is set, and the frames C1 still holds.                   *)

\* PhysicalAllocator::alloc(1): any kind of frame the pool still has.
\* (Mutant: the pool is not checked for a clean frame.)
FrameChoicesUnchecked(pool) ==
    {"clean"} \cup {k \in {"dirty"} : pool[k] > 0} \cup (IF pool.zero THEN {"zero"} ELSE {})
FrameChoices(pool) ==
    LET kinds == {k \in {"clean", "dirty"} : pool[k] > 0}
                 \cup (IF pool.zero THEN {"zero"} ELSE {})
    IN  IF kinds = {} THEN {"none"} ELSE kinds
Take(pool, k) == IF k = "zero" THEN [pool EXCEPT !.zero = FALSE]
                 ELSE [pool EXCEPT ![k] = @ - 1]

\* A table frame that was not clean when C1 handed it out: frame 0 holds
\* the interrupt vector table, a dirty frame whatever its last owner left.
\* The walk then follows whatever the garbage entries say.
TableContents(k) ==
    CASE k = "zero"  -> {"garbage"}
      [] k = "dirty" -> {"garbage", "zero"}
      [] OTHER       -> {"zero"}

Children(e) == {e \o <<i>> : i \in Idx}
TableFull(H, e) == \A c \in Children(e) : c \in H.present /\ c \in H.full
TableEmpty(H, e) == \A c \in Children(e) : c \notin H.present

Outcome(H, res, f) == [h |-> H, res |-> res, fault |-> f]

\* malloc_traverse: pick the first present, not full entry of the range,
\* else the first absent one (taking a frame for it), else fail.  Below
\* the last level, recurse and set the full bit when the next table is full.
RECURSIVE Traverse(_, _, _)
RECURSIVE Descend(_, _)
Traverse(H, pre, R) ==
    LET notFull == {i \in R : pre \o <<i>> \in H.present /\ pre \o <<i>> \notin H.full}
        empty   == {i \in R : pre \o <<i>> \notin H.present}
    IN  IF notFull # {} THEN Descend(H, pre \o <<Min(notFull)>>)
        ELSE IF empty = {} THEN {Outcome(H, Null, "none")}
        ELSE LET e == pre \o <<Min(empty)>>
             IN  UNION {
                   IF k = "none" THEN {Outcome(H, Null, "none")}
                   ELSE LET H2 == [H EXCEPT !.present = @ \cup {e},
                                            !.full = @ \ {e},
                                            !.pool = Take(@, k)]
                        IN  UNION {IF c = "garbage" /\ ~Leaf(e)
                                   THEN {Outcome(H2, Null, "garbage_table")}
                                   ELSE Descend(H2, e)
                                   : c \in TableContents(k)}
                   : k \in FrameChoices(H.pool)}

Descend(H, e) ==
    IF Leaf(e) THEN {Outcome([H EXCEPT !.full = @ \cup {e}], e, "none")}
    ELSE {[r EXCEPT !.h.full = IF TableFull(r.h, e) THEN @ \cup {e} ELSE @]
          : r \in Traverse(H, e, Idx)}

\* free_traverse, bottom-up from the level-1 entry of address p.  Each
\* entry is cleared with memset before PhysicalAllocator::free reads its
\* address, so the frame freed is frame 0 and the entry's own frame is
\* never returned.  (Mutant: the full bit is never cleared.)
FreeUpKeepFull(H, e) ==
    IF Leaf(e)
    THEN [H EXCEPT !.present = @ \ {e}, !.full = @ \ {e}, !.pool.zero = TRUE]
    ELSE CASE TableEmpty(H, e) ->
                 [H EXCEPT !.present = @ \ {e}, !.full = @ \ {e}, !.pool.zero = TRUE]
           [] TableFull(H, e) -> [H EXCEPT !.full = @ \cup {e}]
           [] OTHER -> H
FreeUp(H, e) ==
    IF Leaf(e)
    THEN [H EXCEPT !.present = @ \ {e}, !.full = @ \ {e}, !.pool.zero = TRUE]
    ELSE CASE TableEmpty(H, e) ->
                 [H EXCEPT !.present = @ \ {e}, !.full = @ \ {e}, !.pool.zero = TRUE]
           [] TableFull(H, e) -> [H EXCEPT !.full = @ \cup {e}]
           [] OTHER -> [H EXCEPT !.full = @ \ {e}]
free_traverse(H, p) ==
    FreeUp(FreeUp(FreeUp(FreeUp(H, p), SubSeq(p, 1, 3)), SubSeq(p, 1, 2)), SubSeq(p, 1, 1))

\* allocate_page: the walk over the slab arena; memset(res, 0, page_size)
\* writes through a null result.
allocate_page(H) ==
    {IF r.res = Null /\ r.fault = "none" THEN [r EXCEPT !.fault = "null_write"] ELSE r
     : r \in Traverse(H, <<>>, {SlabL4})}

-----------------------------------------------------------------------------
(* PageTable (paging.cpp) on the large arena.  Page n of the arena is the *)
(* level-1 entry LeafOf(n); like the code's 20 l4 entries, the arena runs *)
(* over as many l4 entries as it needs.                                    *)

LeafOf(n) == <<LargeL4 + n \div (Fanout ^ 3), (n \div (Fanout ^ 2)) % Fanout,
              (n \div Fanout) % Fanout, n % Fanout>>

\* The l4, l3 and l2 entries the walk of map / get / unmap passes through.
Tables(v) == {SubSeq(v, 1, k) : k \in 1 .. 3}

\* map(p, v) for every v of vs: each table entry on the way that is not
\* present gets a frame from allocatePage (zeroed, so its contents do not
\* matter), then the level-1 entry is set present.  NewTables are the
\* frames the tables take.
NewTables(H, vs) == UNION {Tables(v) : v \in vs} \ H.present
map(H, vs) == [H EXCEPT !.present = @ \cup NewTables(H, vs) \cup vs]

\* get(v) finds a frame whenever the tables on the way are present: the
\* present bit of the level-1 entry itself is never read.
get(H, v) == Tables(v) \subseteq H.present

\* unmap(v): clears the present bit of the level-1 entry if the tables on
\* the way are there; the tables themselves stay, and no invlpg follows.
unmap(H, v) == IF get(H, v) THEN [H EXCEPT !.present = @ \ {v}] ELSE H

-----------------------------------------------------------------------------
(* small_allocator::List: a list of node pages, each with NodeCap        *)
(* elements that are slab pages or Null.                                  *)

\* List::push: the first Null element of the first node that has one, else
\* a new node page appended at the end.  Returns a set of [h, l, fault].
List_push(H, l, data) ==
    LET hit == {k \in 1 .. Len(l) : \E j \in 1 .. NodeCap : l[k].el[j] = Null}
    IN  IF hit # {}
        THEN LET k == Min(hit)
                 j == Min({j \in 1 .. NodeCap : l[k].el[j] = Null})
             IN  {[h |-> H, l |-> [l EXCEPT ![k].el[j] = data], fault |-> "none"]}
        ELSE {[h |-> r.h,
               l |-> l \o <<[page |-> r.res,
                             el |-> [j \in 1 .. NodeCap |-> IF j = 1 THEN data ELSE Null]]>>,
               fault |-> r.fault]
              : r \in allocate_page(H)}

\* List::peek: the first non-Null element.
List_peek(l) ==
    LET es == [k \in 1 .. Len(l) |-> SelectSeq(l[k].el, LAMBDA x : x # Null)]
        all == FlattenSeq(es)
    IN  IF all = <<>> THEN Null ELSE all[1]

\* List::remove: clear every element equal to data; a node left with no
\* element is freed (free_page) and unlinked.
List_remove(H, l, data) ==
    LET cleared == [k \in 1 .. Len(l) |->
                      [l[k] EXCEPT !.el = [j \in 1 .. NodeCap |-> IF @[j] = data THEN Null ELSE @[j]]]]
        isEmpty(n) == \A j \in 1 .. NodeCap : n.el[j] = Null
        gone == SelectSeq(cleared, isEmpty)
    IN  [h |-> FoldLeft(LAMBDA acc, n : free_traverse(acc, n.page), H, gone),
         l |-> SelectSeq(cleared, LAMBDA n : ~isEmpty(n))]

-----------------------------------------------------------------------------
VARIABLES
    present,   \* page-table entries with the present bit (paths)
    full,      \* entries with page_full_bit in metaData
    pool,      \* the frames C1 can still hand out
    slab,      \* slab page -> [bucket (the tag byte), used (the bitmap)]
    freeList,  \* small_allocator::data.freeList, per bucket
    regions,   \* large_allocator::ptr_size: region start (page) -> bytes
    live,      \* the pointers callers hold
    fault      \* how the kernel died, or "none"

vars == <<present, full, pool, slab, freeList, regions, live, fault>>

Heap0 == [present |-> present, full |-> full, pool |-> pool]
StoreHeap(H) == present' = H.present /\ full' = H.full /\ pool' = H.pool

Ptr(tier, at, slot, size) == [tier |-> tier, at |-> at, slot |-> slot, size |-> size]
NoObj == Ptr("none", Null, 0, 0)

Init ==
    /\ present = {} /\ full = {}
    /\ pool = [clean |-> Frames, dirty |-> 0, zero |-> FALSE]
    /\ slab = [pg \in {} |-> [bucket |-> 0, used |-> {}]]
    /\ freeList = [b \in Bucket |-> <<>>]
    /\ regions = [k \in {} |-> 0]
    /\ live = {}
    /\ fault = "none"

Fault(f) == /\ fault' = f
            /\ UNCHANGED <<present, full, pool, slab, freeList, regions, live>>

-----------------------------------------------------------------------------
(* small_allocator::malloc                                                 *)

\* The first half: with an empty list for the bucket, a fresh slab page is
\* zeroed, tagged with the bucket and pushed.  Returns [h, l, sl, fault].
SmallStart(b) ==
    IF freeList[b] # <<>>
    THEN {[h |-> Heap0, l |-> freeList[b], sl |-> slab, fault |-> "none", obj |-> NoObj]}
    ELSE UNION {
           IF r.fault # "none"
           THEN {[h |-> r.h, l |-> freeList[b], sl |-> slab, fault |-> r.fault, obj |-> NoObj]}
           ELSE {[h |-> q.h, l |-> q.l, fault |-> q.fault, obj |-> NoObj,
                  sl |-> slab @@ (r.res :> [bucket |-> b, used |-> {}])]
                 : q \in List_push(r.h, freeList[b], r.res)}
           : r \in allocate_page(Heap0)}

\* The second half: the first clear bit of the peeked page is set; when it
\* was the last clear bit the page leaves the list.
\* (Mutant: the page leaves the list one object late.)
SmallPickLate(o, size) ==
    LET page == List_peek(o.l)
        fr   == Slot \ o.sl[page].used
        i    == Min(fr)
        rm   == IF Cardinality(fr) = 0 THEN List_remove(o.h, o.l, page) ELSE [h |-> o.h, l |-> o.l]
    IN  IF fr = {} THEN [o EXCEPT !.fault = "panic"]
        ELSE [h |-> rm.h, l |-> rm.l, sl |-> [o.sl EXCEPT ![page].used = @ \cup {i}],
              fault |-> "none", obj |-> Ptr("small", page, i, size)]
SmallPick(o, size) ==
    LET page == List_peek(o.l)
        fr   == Slot \ o.sl[page].used
        i    == Min(fr)
        rm   == IF Cardinality(fr) = 1 THEN List_remove(o.h, o.l, page) ELSE [h |-> o.h, l |-> o.l]
    IN  IF fr = {} THEN [o EXCEPT !.fault = "panic"]
        ELSE [h |-> rm.h, l |-> rm.l, sl |-> [o.sl EXCEPT ![page].used = @ \cup {i}],
              fault |-> "none", obj |-> Ptr("small", page, i, size)]

small_malloc(size) ==
    LET b == get_bucket(get_pref_size(size))
    IN  {IF o.fault # "none" THEN o ELSE SmallPick(o, size) : o \in SmallStart(b)}

-----------------------------------------------------------------------------
(* large_allocator                                                         *)

\* (size + page_size - 1) / page_size.  (Mutant: rounded down.)
PagesForFloor(size) == size \div PageSize
PagesFor(size) == (size + PageSize - 1) \div PageSize

\* The iterate_kv walk of malloc over the regions in key order: stop at
\* the first key more than `pages` pages past the end seen so far (the
\* subtraction is unsigned, so a key below it also stops the walk).  The
\* end of a region is key + value * page_size with value in bytes, i.e.
\* key + value pages.  (Mutant: the lambda's copy of the end is updated,
\* not the caller's, so the end never moves.)
RECURSIVE GapEndStale(_, _, _, _)
GapEndStale(ks, i, last, pages) ==
    IF i > Len(ks) THEN last
    ELSE LET key == ks[i]
         IN  IF key < last \/ key - last > pages THEN last
             ELSE GapEndStale(ks, i + 1, last, pages)
RECURSIVE GapEnd(_, _, _, _)
GapEnd(ks, i, last, pages) ==
    IF i > Len(ks) THEN last
    ELSE LET key == ks[i]
         IN  IF key < last \/ key - last > pages THEN last
             ELSE GapEnd(ks, i + 1, key + regions[key], pages)

\* n calls of PhysicalAllocator::alloc(1): the pools left after taking n
\* frames of any kinds (none when the pool runs dry: value_or_panic).
TakeFrames(p, n) ==
    {q \in [clean : 0 .. p.clean, dirty : 0 .. p.dirty,
            zero : IF p.zero THEN BOOLEAN ELSE {FALSE}] :
        (p.clean - q.clean) + (p.dirty - q.dirty)
            + (IF p.zero /\ ~q.zero THEN 1 ELSE 0) = n}

\* large_allocator::malloc: the region starts at the end of the walk and
\* every page gets a frame from alloc(1) and is mapped, which may take
\* frames for new tables; either running dry panics.  The map records
\* pages * page_size bytes.
LargeMalloc(H, size) ==
    LET pages == PagesFor(size)
        start == GapEnd(SetToSortSeq(DOMAIN regions, <), 1, 0, pages)
        vs    == {LeafOf(start + i) : i \in 0 .. pages - 1}
        pools == TakeFrames(H.pool, pages + Cardinality(NewTables(H, vs)))
    IN  CASE start + pages > ArenaPages -> Fault("panic")
          [] pools = {} -> Fault("panic")
          [] OTHER ->
               \E q \in pools :
                  /\ StoreHeap([map(H, vs) EXCEPT !.pool = q])
                  /\ regions' = regions @@ (start :> pages * PageSize)
                  /\ live' = live \cup {Ptr("large", <<start>>, 0, size)}
                  /\ UNCHANGED <<slab, freeList, fault>>

-----------------------------------------------------------------------------
(* kheap::malloc: the small tier for sizes up to 2047, else a page for     *)
(* sizes up to page_size, else (or when the page arena is exhausted) the   *)
(* large tier.  Each disjunct is the whole call down one of these paths.   *)

CanAlloc == fault = "none" /\ Cardinality(live) < MaxLive

MallocSmall(size) ==
    /\ CanAlloc /\ get_pref_size(size) # 0
    /\ \E o \in small_malloc(size) :
          IF o.fault # "none" THEN Fault(o.fault)
          ELSE /\ StoreHeap(o.h)
               /\ slab' = o.sl
               /\ freeList' = [freeList EXCEPT ![get_bucket(get_pref_size(size))] = o.l]
               /\ live' = live \cup {o.obj}
               /\ UNCHANGED <<regions, fault>>

\* page_allocator::malloc: the walk over the page arena, or nullptr for a
\* size above page_size.
page_malloc(size) ==
    IF size > PageSize THEN {Outcome(Heap0, Null, "none")}
    ELSE Traverse(Heap0, <<>>, {PageL4})

MallocPage(size) ==
    /\ CanAlloc /\ get_pref_size(size) = 0
    /\ \E r \in page_malloc(size) :
          /\ r.fault # "none" \/ r.res # Null
          /\ IF r.fault # "none" THEN Fault(r.fault)
             ELSE /\ StoreHeap(r.h)
                  /\ live' = live \cup {Ptr("page", r.res, 0, size)}
                  /\ UNCHANGED <<slab, freeList, regions, fault>>

\* page_allocator::malloc returned nullptr: the large tier, with whatever
\* tables the failed walk left behind.
MallocLarge(size) ==
    /\ CanAlloc /\ get_pref_size(size) = 0
    /\ \E r \in page_malloc(size) :
          /\ r.fault = "none" /\ r.res = Null
          /\ LargeMalloc(r.h, size)

-----------------------------------------------------------------------------
(* kheap::free: the arena the address falls in picks the tier.            *)

\* small_allocator::free: page_full and page_empty are computed before the
\* object's bit is cleared; an empty page goes back to the page walk, a
\* page that was full goes back on the list.
FreeSmall(p) ==
    /\ fault = "none" /\ p \in live /\ p.tier = "small"
    /\ LET page  == p.at
           b     == slab[page].bucket
           used  == slab[page].used
           sl    == [slab EXCEPT ![page].used = @ \ {p.slot}]
       IN  CASE used = {} ->
                  /\ StoreHeap(free_traverse(Heap0, page))
                  /\ slab' = [pg \in DOMAIN slab \ {page} |-> slab[pg]]
                  /\ live' = live \ {p}
                  /\ UNCHANGED <<freeList, regions, fault>>
             [] used = Slot ->
                  \E q \in List_push(Heap0, freeList[b], page) :
                     IF q.fault # "none" THEN Fault(q.fault)
                     ELSE /\ StoreHeap(q.h)
                          /\ slab' = sl
                          /\ freeList' = [freeList EXCEPT ![b] = q.l]
                          /\ live' = live \ {p}
                          /\ UNCHANGED <<regions, fault>>
             [] OTHER ->
                  /\ slab' = sl
                  /\ live' = live \ {p}
                  /\ UNCHANGED <<present, full, pool, freeList, regions, fault>>

\* page_allocator::free
FreePage(p) ==
    /\ fault = "none" /\ p \in live /\ p.tier = "page"
    /\ StoreHeap(free_traverse(Heap0, p.at))
    /\ live' = live \ {p}
    /\ UNCHANGED <<slab, freeList, regions, fault>>

\* The pages the loop of large_allocator::free visits: offsets i from 0
\* while i < size, in steps of page_size.  (Mutant: size taken as pages.)
FreeLoopPagesUnits(key, size) ==
    {LeafOf(key + j) : j \in {j \in 0 .. size \div PageSize : j * PageSize < PagesFor(size)}}
FreeLoopPages(key, size) ==
    {LeafOf(key + j) : j \in {j \in 0 .. size \div PageSize : j * PageSize < size}}

\* large_allocator::free: every page of the recorded size is looked up
\* with get (value_or_panic), its frame freed and the page unmapped; then
\* the key is removed.
FreeLarge(p) ==
    /\ fault = "none" /\ p \in live /\ p.tier = "large"
    /\ LET key == p.at[1]
           vs  == FreeLoopPages(key, regions[key])
       IN  IF \E v \in vs : ~get(Heap0, v) THEN Fault("panic")
           ELSE /\ pool' = [pool EXCEPT !.dirty = @ + Cardinality(vs)]
                /\ present' = FoldSet(LAMBDA v, H : unmap(H, v), Heap0, vs).present
                /\ regions' = [k \in DOMAIN regions \ {key} |-> regions[k]]
                /\ live' = live \ {p}
                /\ UNCHANGED <<full, slab, freeList, fault>>

\* The kernel halts after a panic or a fault.
Halt == fault # "none" /\ UNCHANGED vars

Next ==
    \/ \E size \in Sizes : MallocSmall(size)
    \/ \E size \in Sizes : MallocPage(size)
    \/ \E size \in Sizes : MallocLarge(size)
    \/ \E p \in live : FreeSmall(p)
    \/ \E p \in live : FreePage(p)
    \/ \E p \in live : FreeLarge(p)
    \/ Halt

Spec == Init /\ [][Next]_vars

-----------------------------------------------------------------------------
NodePages == {n.page : n \in UNION {Range(freeList[b]) : b \in Bucket}}
Listed(b) == {e \in UNION {Range(n.el) : n \in Range(freeList[b])} : e # Null}
LivePages(t) == {p.at : p \in {q \in live : q.tier = t}}

TypeOK ==
    /\ fault \in {"none", "panic", "garbage_table", "null_write"}
    /\ \A e \in present : Len(e) \in 1 .. 4 /\ e[1] \in {PageL4, SlabL4} \cup (LargeL4 .. LeafOf(ArenaPages - 1)[1])
    /\ full \subseteq present
    /\ pool \in [clean : 0 .. Frames, dirty : Nat, zero : BOOLEAN]
    /\ \A pg \in DOMAIN slab : slab[pg].bucket \in Bucket /\ slab[pg].used \subseteq Slot
    /\ \A b \in Bucket : \A k \in DOMAIN freeList[b] :
          Len(freeList[b][k].el) = NodeCap
    /\ \A k \in DOMAIN regions : regions[k] \in Nat \ {0}
    /\ Cardinality(live) <= MaxLive

\* The page_full_bit of every present entry of the page and slab arenas says exactly whether its
\* subtree is full: a level-1 entry is full, a higher entry is full iff
\* every entry of the table below is present and full.  malloc_traverse
\* only ever sets the bit, free_traverse recomputes it bottom-up; a stale
\* bit makes the walk skip free pages or descend into a full table.
FullBitsExact ==
    fault = "none" =>
      \A e \in present :
         /\ Len(e) > 1 => SubSeq(e, 1, Len(e) - 1) \in present
         /\ e[1] \in {PageL4, SlabL4} => ((e \in full) = (Leaf(e) \/ TableFull(Heap0, e)))

\* The list of a bucket holds exactly the slab pages of that bucket with a
\* clear bit, each once, in node pages that are mapped; an emptied node is
\* unlinked.  malloc takes a page off when it hands out the last object and
\* free puts a page back when it was full, so one missed step leaves a full
\* page to peek (the "invalid bitmap" panic) or strands a page with room.
SlabListExact ==
    fault = "none" =>
      /\ \A b \in Bucket :
           /\ Listed(b) = {pg \in DOMAIN slab : slab[pg].bucket = b /\ slab[pg].used # Slot}
           /\ \A pg \in Listed(b) :
                Cardinality({<<k, j>> \in (DOMAIN freeList[b]) \X (1 .. NodeCap) :
                               freeList[b][k].el[j] = pg}) = 1
           /\ \A k \in DOMAIN freeList[b] : \E j \in 1 .. NodeCap : freeList[b][k].el[j] # Null
      /\ NodePages \subseteq present

\* No memory is handed out twice: every live small object has its bit set
\* and no other live object shares its slot, every set bit belongs to a
\* live object, the pages of the page tier, the slab pages and the list
\* nodes are distinct mapped pages, and the large regions do not overlap.
HeapObjectsExclusive ==
    fault = "none" =>
      /\ \A pg \in DOMAIN slab :
           slab[pg].used = {p.slot : p \in {q \in live : q.tier = "small" /\ q.at = pg}}
      /\ \A p, q \in live : p # q => p.tier # q.tier \/ p.at # q.at \/ p.slot # q.slot
      /\ LivePages("page") \subseteq present
      /\ DOMAIN slab \subseteq present
      /\ DOMAIN slab \cap NodePages = {}
      /\ \A k1, k2 \in DOMAIN regions :
           k1 < k2 => k1 + PagesFor(regions[k1]) <= k2

\* The level-1 entries present in the large arena are exactly the pages
\* of the regions in ptr_size, counted in pages of the bytes each region
\* records: malloc maps every page it hands out, free unmaps every page it
\* takes back and no page of a neighbouring region.  A page left mapped
\* after free keeps a translation to a frame C1 hands out again; a page
\* unmapped under a live region makes its next access fault.
LargeMappedExactly ==
    fault = "none" =>
      {e \in present : e[1] >= LargeL4 /\ Leaf(e)}
        = UNION {{LeafOf(k + i) : i \in 0 .. PagesFor(regions[k]) - 1} : k \in DOMAIN regions}

-----------------------------------------------------------------------------
(* The heap implements KernelHeap.  A caller's pointer is the address the *)
(* code returns: the page of a path (levels base Fanout, the l4 index     *)
(* first) plus result * prefSize in a slab page, or the start of a large  *)
(* region; a block runs for prefSize, a page, or the recorded bytes.      *)

Addr(e) == (((e[1] * Fanout + e[2]) * Fanout + e[3]) * Fanout + e[4]) * PageSize

Block(o) ==
    LET lo  == IF o.tier = "large" THEN Addr(LeafOf(o.at[1])) ELSE Addr(o.at)
        len == CASE o.tier = "small" -> get_pref_size(o.size)
                 [] o.tier = "page"  -> PageSize
                 [] OTHER            -> regions[o.at[1]]
        off == IF o.tier = "small" THEN o.slot * len ELSE 0
    IN  [lo |-> lo + off, hi |-> lo + off + len, size |-> o.size]

KH == INSTANCE KernelHeap
        WITH blocks <- {Block(o) : o \in live},
             crashed <- fault # "none",
             HeapBytes <- Addr(LeafOf(ArenaPages))

\* Every step of kheap::malloc / kheap::free is a step of KernelHeap: a
\* returned block is fresh, disjoint from every block callers hold and at
\* least as long as the size asked for; free releases exactly the block.
ImplementsKernelHeap == KH!Spec

====
