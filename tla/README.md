# TLA+ models of CrackOS3

This directory holds TLA+ models of the CrackOS3 kernel (the C++ sources
under `src/`), the TLC configurations that check them, and `PROJECT.json`,
which maps each TLA+ definition to the source lines it models and lists
the runs, mutants, findings and hazards.

## 1. The system

The kernel boots from a 32-bit stub (`src/src/low`) into a higher-half
64-bit entry (`src/src/high/init/start.cpp`).  Boot initialises its parts
in order:

| # | Component | Source | State it keeps | Operations that change it |
|---|---|---|---|---|
| C1 | Physical frame allocator | `memory/mem.cpp` | bitmap of usable frames, rotating cursor | `init`, `alloc(count)`, `free(addr, count)` |
| C2 | Paging manager | `memory/paging.cpp` | four-level page tables of the current address space | `map`, `unmap`, `get` (translate), `setMetaData` |
| C3 | Kernel heap | `memory/heap.cpp` | page tier (its own page-table subtree with "subtree full" bits), slab tier (10 buckets, per-page bitmaps, free-page lists), large tier (b-tree of regions, spinlock) | `kmalloc`, `kfree`, `ksize` |
| C4 | Interrupt plane | `interrupt/interrupt.cpp`, `interrupt.h` | IDT, handler table, trampoline's shared `interrupt_number` | `registerHandler`, `get_free_interrupt_number`, dispatch, `Guard` |
| C5 | APIC, AP bring-up, timer | `ACPI/APIC.cpp`, `trampoline/trampoline.cpp` | LAPIC/IOAPIC registers, `ticks_needed`, pending timer callback, `ap_response` | `sleep`, `notify`, `onLocalTimer`, AP start-up (INIT/SIPI) |
| C6 | PCI enumeration | `PCI/PCI.cpp` | device list, BAR sizes, MSI capability | enumeration, BAR probe, config-space read/write, MSI setup |
| C7 | AHCI port engine | `PCI/sata.cpp` | per port: `scheduled_slots`, hardware `CI`, `SERR`, `TFD`, command tables | `find_free_slot`, `setup_h2d`, `setup_physical_region`, `issue_slot`, `test_done`, `wait_for`, `wait_all`, `sendRead`, `sendWrite` |
| C8 | Block-device abstraction | `PCI/sata.cpp` (`sata_port_device`) | none beyond the port | `read(buf, off, size)`, `write(buf, off, size)` split into head / middle / tail regions |
| C9 | Processes and IPC | `process/process.cpp` | capability tree: `parent`, `children`, `friends` (weak), `pending_adoption` (weak), `adopter` (weak); `methods`; method-argument window map | `disown`, `adopt`, `make_friend`, `create_child`, `set_name`, `list_processes`, `send_message`, `ask_abilities` |
| C11 | B-tree map | `include/data/btree.h` | nodes of `M-1..2M-1` keys, `root`, `m_size` | `insert`, `remove`, `find` |
| C10 | Syscall dispatch | `process/process.cpp` (`syscall_handler`) | one global spinlock | dispatch of numbers 0..7 and 69 |

Parts outside the core: the boot stub and multiboot parsing, ACPI table
lookup (`RSDP.cpp`), GPT and ext4 (`file/`), VGA and logging (`out/`),
xHCI detection, the ELF loader (`process::from_elf`) and the other
generic containers (`include/data`).

How they interact: C1 supplies frames to C2 and to all three heap tiers
(C3); C3 backs every kernel container; C7 allocates command lists from C1
and buffers from C3, polls the hardware while the port lock is held, and
is driven by C8, which the filesystem reads through; C9 uses C1/C2 to
build address spaces and C10 serialises every process-tree operation
behind one spinlock.  Only the boot CPU runs kernel code: the APs are
started and park in `cli; hlt` (`APIC.cpp:502-512`).  Concurrency
therefore comes from the devices (the AHCI HBA completing commands in any
order), from interrupts, and from user processes issuing syscalls.

### What makes it hard, and what must hold

* C1: `alloc`'s do-while loop must terminate, return only free frames,
  return a run contiguous in *physical* memory, and fail only when no run
  exists.  Frames must never be handed out twice.
* C2: `get` after `unmap` must report no mapping (spec section 8).
* C3: first-fit in the large tier must place a block in the first gap that
  fits; regions must never overlap; the page tier's "full" bits must match
  the subtrees; a freed frame must be the one that was mapped.
* C7: a slot is owned by at most one outstanding command; a result is
  reported only after the HBA finished the command; errors must not leave
  DMA running into buffers that the caller has released.
* C8: a successful read returns exactly the disk bytes of
  `[off, off+size)`; a successful write changes exactly those bytes; the
  head/middle/tail commands on an NCQ drive may complete in any order.
* C9: the ownership tree (parent -> children plus adopter links) stays
  acyclic; `disown` and `adopt` do what the protocol says; the argument
  window regions stay inside 16..32 TiB and disjoint.
* C4: a vector handed out by `get_free_interrupt_number` must dispatch
  to the handler of the component it was handed to, for as long as that
  component runs.
* C6 with C7: `setup_msi` must leave the device able to signal, so that
  every completion the disk signals reaches `Sata::interrupt_handler`.
* C5: the AP handshake and the timer callback must eventually complete;
  a second `notify` while a timer is armed must not be lost silently.

The hazards, each at its source line, are listed in `PROJECT.json`.

## 2. Plan

Modules, most important behaviour first:

1. `FrameAllocator` (C1) -- done.  Bitmap, cursor, `alloc` loop iteration
   by iteration, `free`.
2. `AhciPort` (C7) -- done: the driver's slot engine against a nondeterministic
   HBA (completion in any order, sticky `SERR`).  `BlockDevice` (C8)
   EXTENDS it with `sata_port_device::read`/`write`, byte-level data as
   tokens, checking read/write integrity, in-flight DMA at return, and
   DMA inside the buffer.
3. `ProcessTree` (C9/C10) -- done: `create_child`, `disown`, `adopt`,
   `make_friend`, `list_processes`, `ask_abilities` and `send_message`
   with the kernel's methods, as atomic syscalls under the global lock, with
   the reference counts of `shared_ptr`/`weak_ptr` that decide when a
   process and its control block are freed.
4. `Heap` (C3) -- done: the three tiers and the `kheap` dispatch in one
   module over an abstract frame pool, composed with the paging
   manager's `map`/`unmap`/`get` (C2) for the large tier, and shown to
   implement the abstract `KernelHeap` (a set of disjoint live blocks)
   through INSTANCE ... WITH.
5. `ApStartup` (C5) -- done: AP bring-up and the LAPIC timer under it.
6. `BTree` (C11) -- done: `btree<T, M>` with its split, borrow and
   merge steps, as the node store a kernel container keeps.
7. `ArgWindow` (C9 `send_message`): the first-gap search in the
   method-argument window -- dropped: no reachable call maps more than
   one region (see ProcessTree).
8. The TLB beside `Paging` (C2), for the missing `invlpg` in `unmap`.
9. `InterruptVectors` (C4 with C5, C6 and C7) -- done: the handler table and
   every boot-time caller of `registerHandler` and
   `get_free_interrupt_number`, with the interrupts dispatched through it,
   and the config-space writes of `setup_msi`.

## 3. Modules and runs

### FrameAllocator (C1)

`FrameAllocator.tla` models `PhysicalAllocator` in
`src/src/high/memory/mem.cpp`.  Addresses are page-frame numbers
(`page_size` = 1).  CONSTANTS: `Regions`, the usable regions of the memory
map in map order; `Reserved`, the ranges `init` reserves; `Counts`, the
counts callers pass to `alloc`.

State: `bitmap` (one bit per index), `cursor`
(`last_checked_memory_bitmap_index`), `pc`/`stop`/`req` (inside the
do-while loop of `alloc`: `stop_infinite_loop` and `count`), and two
history variables: `live`, the bag of runs callers hold, and `lastOps`,
the last two completed calls.

Actions: `AllocStart(count)` (entry to `alloc`), `AllocScan` (one
iteration of the loop, including the `reserveMemory` and return on
success), `Free(r)` (`free`).  The helpers `memoryBitmapIndexToPhysical`,
`physicalAddressPageToMemoryIndex` and `reserveMemory` are translated
line by line.

| Run | Bounds | Checks | Result |
|---|---|---|---|
| `frame_alloc_multi` | two regions 0..2 and 5..7 (hole 3..4), frame 0 reserved, counts 1 and 2 | `TypeOK`, `FramesExclusive`, `AllocFailsOnlyWhenExhausted` | pass |
| `alloc_hang` | one region of 5 frames, frames 0 and 3 reserved, counts 1 and 2 | `AllocTerminates` | violation |
| `alloc_hole` | two regions, counts 1 and 2 | `RunsAreUsableRam` | violation |

What the violations show:

* `alloc_hang`: when `stop_infinite_loop` is an index inside a free run
  shorter than `count`, the loop's jumps to the next allocated index skip
  over `stop` and the cursor cycles forever (`mem.cpp:205-222`).
  `alloc` never returns.
* `alloc_hole`: a run of clear bits that spans the end of one region and
  the start of the next is returned as one physical run
  (`mem.cpp:217-219`); its frames past the first region are not RAM.

Bounds: five frames with two reserved give free runs of length one and
two, a wrap-around, and a reserved frame at index 0 next to the wrap; the
two-region map has a hole, so runs can span it.  Larger maps add nothing
the loop distinguishes.

Fairness: weak fairness on `AllocScan` only.  `alloc` is straight-line
code on the boot CPU with no lock or wait, so once entered its loop keeps
executing; callers are under no obligation to call, so `AllocStart` and
`Free` get none.

### AhciPort (C7) and BlockDevice (C8)

`AhciPort.tla` models the slot engine of `PCI::Sata::Port`
(`src/src/high/PCI/sata.cpp:496-674`) together with the HBA it drives.
`BlockDevice.tla` EXTENDS it with `sata_port_device::read` and `::write`
(`sata.cpp:17-284`).  `MCBlockDevice.tla` defines the request sets.

Port state: `ci` (PxCI), `scheduled` (`scheduled_slots`), `serr` (PxSERR
non-zero), `halted` (the HBA stopped on a fatal error), `cmds` (the command table of each slot: direction, LBA, sector
count, PRD buffer and byte size), `disk`, `mem` (the memory objects DMA
and `memcpy` touch: the caller's buffer, the bounce buffer `tmp` and the
stack arrays `sector`, `start`, `end`, each a sequence as long as the C++
object) and the history flag `overrun`.  Bytes are tokens: disk byte `p`
starts as `p`, byte `j` of a write's data is `DiskBytes + j`, `-1` is an
uninitialised stack byte and `-2` a byte the device made up.

Port operations are operators, used inside the driver's steps because
the driver calls them under the port lock: `check_command_valid`,
`FreeSlots` (`find_free_slot`), `SchedAfterWait` and `SendReady`
(`wait_all` before a non-queued command, a guard since it busy-waits),
`SendResult`/`Send` (`sendRead`/`sendWrite`: `setup_h2d`,
`setup_physical_region`, `issue_slot`), `WaitReady`/`WaitFor`/`WaitOk`
(`wait_for` polling `test_done`).  HBA actions: `Complete(s)` performs a
slot's transfer (a read fills at most the PRD bytes; a write takes the PRD
bytes and fills the rest of the sectors) and clears its CI bit, in any
order under NCQ, while the HBA runs.  Errors follow the AHCI
specification (section 6.1), not spec.md: `SerrNotice` sets a PxSERR bit
(a recovered or diagnostic error) and the HBA goes on; `FatalError`
stops it with the outstanding commands left in CI, setting PxSERR for an
interface error but only PxTFD.ERR and PxIS.TFES for a task-file error.
`test_done` and `wait_all` (`sata.cpp:496-531`) test `mmio + 0x30` twice
and never read TFD (0x20) or IS, although spec.md (section 5) says
`test_done` reads TFD and SERR; `TaskFileHang` is the state this leaves
them blind to.

Driver state: `pc` (the point between two port calls), `rq`, `tgt`
(the caller's buffer or the bounce buffer), `nsec`, `slot`, `reg`
(`regions[3]`), `k` (the loop index), `err`, `result`, and the history
variables `snap` (the disk at entry), `owned` (commands of this call not
yet reaped) and `nops`.  Each driver action is one port call and the
local code up to the next: `StartOp` (bounce, bounds, branch and its
stack arrays), `AlignedSend`, `WaitThenReturn`, `SectorRead`,
`SectorReadWait`, `SectorWrite`, `ManyReadSend`, `ManyWait`, `ManyEnd`,
`ManyWriteRead0`, `ManyWriteRead2`, `ManyWriteCheck`, `ManyWriteDrain`,
`ManyWriteSend`.  `return res.error()` is modelled by what C++ does with
it: the unscoped `PCI::Sata::error_t` converts to the `size_t` value of
the result (`Code`).  `regions[1].request->has_value()` on the write path
reads the flag of an empty `optional`'s uninitialised storage; it is a
nondeterministic choice.

| Run | Bounds | Checks | Result |
|---|---|---|---|
| `blk_slots_ncq` | 4-byte sectors, 3 sectors, 3 slots, NCQ, errors, every request of either kind, offset and alignment | `TypeOK`, `ReqOwnsSlot`, `OpTerminates` | pass (21321 states) |
| `blk_data` | as above, no errors, reads at even offsets off the last sector, one- and two-sector writes at even offsets | `NoBufferOverrun`, `ReadCorrect`, `WriteCorrect` | pass |

`OpTerminates` says a call returns unless the HBA has stopped on a
task-file error (`TaskFileHang`); its mutant is a `test_done` that does
not read PxSERR, which spins after a fatal interface error.  Two
configurations are kept beside the runs, not checked by them, for the
two error paths no passing run can state:

- `blk_tfe_hang.cfg` checks `OpReturns` (every call returns, as spec.md
  section 5 and "Cancellation/timeouts" promise).  TLC: a one-sector
  write issues its read of the sector, the HBA stops on a task-file error,
  and `wait_for` spins for ever with SERR 0 and the CI bit set.
- `blk_error_inflight.cfg` checks `ReturnsQuiescent` (no command of a
  call is still issued when it returns) over even reads with errors.
  TLC: a one-sector read, a PxSERR bit set while it is issued, and
  `read` returns `DEVICE_UNAVAILABLE` with the HBA still to DMA the sector
  into the dead `sector_buffer` (`sata.cpp:57`).  The early return of the
  multi-region read (`:118`) has the same shape.

`ReadCorrect` and `WriteCorrect` are checked without errors: with them,
every failed call reports `UNKNOWN_ERROR` as 8 bytes read or written
(`Code`), and both fail at once.

A read that ends in the last sector by the two-sector branch
(`read(off 10, size 2)` on a 3-sector disk) reads past the disk and
returns `OUT_OF_BOUNDS` (3) as a byte count (`sata.cpp:67`); the
configuration `MCBlockDevice: EdgeReads` reaches it with `ReadCorrect`,
but no run checks it.

Multi-sector writes (`MCBlockDevice: ManyWrites`) are left out of the
checked runs: `regions[1].request->has_value()` reads an empty
`optional`'s uninitialised storage (`sata.cpp:261`), and with that
choice `WriteCorrect` fails (the middle region is skipped, the tail
sector is written from the too-small `end_buffer`).  The hazard is listed
in `PROJECT.json`.

Other defects the model reaches, each listed as a hazard in
`PROJECT.json`: odd offsets copy from the byte before (`sata.cpp:59`);
the aligned write sends `size / sector_size` bytes (`:154`); and on the
multi-sector write path, which no run checks, the stack arrays are
smaller than the sectors read into them (`:227-228`), the tail is copied
from the end of the caller's buffer (`:256`) and the head and tail reads
are never waited for (`:241`).

Bounds: 4-byte sectors (even, as the driver needs) on a 3-sector disk
give every branch: aligned, one sector, two sectors, head-middle-tail
with and without a tail, and the last sector.  Three slots let a
multi-sector read hold all its commands at once.  One call per behaviour:
the driver keeps no state across calls except `scheduled_slots` and SERR.

Fairness: weak fairness on the driver (one kernel thread that busy-waits
with the port lock held, so it runs whenever it can leave a loop) and on
each slot's completion (a running HBA finishes every issued command).
Errors have no fairness: a device need not fail.

Assumptions: `setup_physical_region` succeeds (the buffers are small and
mapped); `NumSlots` is 3 instead of 32; a write whose PRD table
covers less than its sectors sends device-made bytes for the rest.

### ProcessTree and CallIndirect (C9, C10)

`ProcessTree.tla` models the capability graph of `process.cpp` and the
smart pointers of `smart_pointer.h` that hold it together.  Processes are
pids `0 .. MaxProcs-1`; 0 is `kernel_process` and 1 the `/main` process
that `initProcess` (start.cpp) creates.  State:

| variable | code |
|---|---|
| `children`, `friends`, `pending` | `process::children` (shared_ptr), `friends`, `pending_adoption` (weak_ptr), as sequences of pids |
| `parent`, `adopter` | the weak `parent` and `adopter` pointers |
| `next` | the `next_pid` counter |
| `freed`, `blockFreed` | processes deleted, and control blocks deleted |
| `deficit` | weak counts lost by `weak_ptr::reset` without clearing `ref` |
| `fault` | how the kernel died: `uaf`, `double_free`, `overflow`, `null_deref`, `panic` |

Strong and weak counts are not variables: they are the number of live
holders (`StrongIn`, `WeakIn`), minus `deficit`.  After every handler
`Settle` applies what the destructors of the handler's locals do: it
closes the set of processes whose strong count fell to 0 (`Close`, the
cascade through their `children`), frees their control blocks where
`weak_ptr::reset`/`shared_ptr::reset` would, and records a double free
or a use after free when the code would do one.

A NUMBER descriptor is resolved by `Find`, the recursion of
`get_process_by_descriptor` (self, parent, children, friends, pending
entries, then the subtrees and the friends' subtrees, with a stack to
detect unbounded recursion).  A hit returned as a raw pointer is marked
`fresh`: the implicit `shared_ptr(type*)` gives it a control block of its
own, so `Settle` deletes that process at the end of the handler.

Actions, one per handler, each the whole handler including its trailing
`cleanup_dead` or `handle_disown`: `CreateChild`, `DisownChild`,
`DisownFriend`, `DisownPending`, `Adopt`, `MakeFriend`, `ListProcesses`,
`AskAbilities`, `SendMessage`, `LookupFault` (a lookup that itself
faults), and `Halt` when no process may run.  Any live user process may
make any call: the scheduler is not modelled beyond that.  `Next` is
the switch of `syscall_handler`; syscall 69 and unknown numbers only log
(`Log::fatal` prints and returns), and `set_name` changes only a name.

Disown by name (`DisownChildByName`, `DisownFriendByName`,
`DisownPendingByName`): names are set freely by `set_name`, so the entry
whose name matches first is any index `k` of the list, or none; the
loop reads the name of every entry up to it, a weak entry through
`lock()` with no null check (`null_deref` for a dead friend or pending
adoption, `uaf` for a freed child).  The `child:` branch returns from
inside the loop before `handle_disown` and `remove`
(`process.cpp:177`), so it changes nothing.

`SendMessage`: only the kernel process has methods (`add`, `printStr`,
`printInt`, `panic`, added by `initProcess`); `ask_abilities(SELF)`
builds each descriptor into a local that is never pushed, so a user
process never has any, and every message to one is refused as "method
id out of bounds".  A call of the root's `panic` stops the kernel.  The
argument window is abstracted: it maps pages and fills
`method_call_argument_memory`, which `cleanup()` empties on every path,
and with at most one pointer argument per kernel method the gap search
of `process.cpp:543` never runs past the first region.

`CallIndirect.tla` models the `call_indirect` shim that ends
`send_message` (`process.cpp:417-481`) as a pure operator: `Saved` is
`push %rbp; push %r15`, `StackPad` the pad word for an odd count above
six, `PrepareStack` (RECURSIVE) the push loop from the last argument
down, `LoadRegs` the six register loads guarded by the count, and
`CleanupWords` the words added back to `%rsp` after the call.
`CallIndirectSysV` compares the result with the System V
AMD64 reference (`SysVRegs`, `StackArgs`) for every count from 0 to
`MaxCallArgs` = 9: each argument lands in its register or stack word, in
order, for both parities of the count, and the cleanup leaves exactly
`%r15` and `%rbp` to pop.  The count is `data->argument_count`, the
caller's own, never compared with the method's
`expected_argument_count`, so any count reaches the shim through a
message to the kernel process.  `MCProcessTree` states it as the
invariant `CallIndirectMarshals` (whenever some process can still call,
`Runnable # {}`) of the `process_tree` run, and it holds.  The same model shows what the property
leaves out: the words pushed before the call number
`Len(CallIndirect(args).stack)`, which is even for every count, so with
the caller's return address on the stack `%rsp` is 8 mod 16 at
`call *%rax`.  The spec (4.11 step 5) and the ABI ask for 16-byte
alignment; the pad is placed for the wrong parity because the push of
`%r15` is not counted.  A callee that keeps SSE values on its stack
with aligned moves would fault.  It is a hazard in `PROJECT.json`, not a
run: every run slot is taken.

| run | cfg | result |
|---|---|---|
| `process_tree` | MaxProcs 4, MaxEntries 1, Numbers {0} | pass: `TypeOK`, `UniqueOwner` (no process in two children lists), `PendingHeldByAdopter` (a pending entry is held by the process its `adopter` names), `CallIndirectMarshals` (arguments of `call_indirect` placed per System V and the stack restored, 0 to 9 arguments); about 143 000 states, under two minutes |
| `tree_dangling` | MaxProcs 3, Numbers {2} | violation of `NoDanglingReference`: `/main` creates 2, then adopts NUMBER 2; the lookup's fresh control block deletes 2 while `children[1]` still holds it |
| `adoption_cycle` | MaxProcs 4 | violation of `OwnedFromRoot`: 1 creates 2, 2 creates 3, 3 adopts its parent 2, 1 disowns 2; 2 and 3 own each other |

`tree_double_free.cfg` (MaxProcs 3, `NoDoubleFree`) is kept beside
them but is not among the runs: TLC finds the trace create 2, disown 2,
in which `shared_ptr::reset` reads and deletes the control block that
`~process` already deleted through its own `self` weak pointer
(`smart_pointer.h:152`).

Bounds: four processes are the fewest that let a process adopt its
grandparent's child; one entry per friend/pending list is enough for
every match branch of `disown` and `Find` (a second entry only repeats the
scan).  The pass run uses descriptor NUMBER 0 only: it reaches the
friend-cycle overflow and the kernel process as a lookup result while
keeping the run near two minutes; the violation runs use the numbers
their traces need.  No fairness: nothing forces a process to make a call,
and the properties are all safety.

`Init` is `initProcess` with one filesystem holding `/main`, and
`FromElf` the three ends of `proc::from_elf` (`process.cpp:870-961`):
the process; `nullptr` for a header with the wrong magic, class, data
encoding or machine, which `initProcess` pushes into the root's children
and dereferences at `process->parent = kernel_process`, stopping the
kernel with `null_deref` before any user code runs; or a panic for a
segment above 16 TiB or a failed physical allocation.  The file's bytes
are abstracted to which end they lead to.  (In the bytes, `from_elf`
builds `array<program_header>(count, program_header_offset)`, so entries
are read at a stride of the header table's file offset instead of
`program_header_entry_size`; with the usual offset 64 and entry size 56
every entry after the first is misread.  That is data, and it only
changes which of the three ends a file leads to.)

Not modelled: STRING descriptors in the lookups of the other handlers
(`find_process` returns a raw pointer as a NUMBER lookup does, so they
add no new kind of step), the page mapping of the argument window,
threads, the bytes of the ELF file.  Once the kernel has
faulted the model stops (`Runnable` is empty).

### Heap (C3)

`Heap.tla` models `heap.cpp`.  Only the boot CPU allocates (the APs halt
in `ap_cpu`), so each `kmalloc`/`kfree` is one step.  State:

| variable | code |
|---|---|
| `present`, `full` | the present bit and `page_full_bit` of the heap's page-table entries, each entry named by its path of indices |
| `pool` | what C1 can still hand out: clean frames, dirty frames (freed with data in them) and frame 0 |
| `slab` | per slab page, the bucket tag byte and the bitmap |
| `freeList` | `small_allocator::data.freeList`: per bucket, the node pages and their elements |
| `regions` | `large_allocator::ptr_size`, region start (in pages) to bytes |
| `live`, `fault` | the pointers callers hold; the fault or panic that stopped the kernel |

`Traverse`/`Descend` are `malloc_traverse`: they take the first present
entry that is not full, otherwise the first absent one, for which they take a frame.
They recurse, and set the full bit on the way back.  The walk yields a set of outcomes, one per
kind of frame C1 may return.  `free_traverse` applies `FreeUp`
bottom-up.  As in the code it clears each entry before "freeing" its address,
so it frees frame 0 and leaks the real frame.  `List_push`, `List_peek` and
`List_remove` are the node-page list.  `SmallStart`/`SmallPick` are the
two halves of `small_allocator::malloc`.  `GapEnd` is the `iterate_kv` walk of
the large tier, with the stored byte count used as a page count as in the
code.  The actions are `MallocSmall`, `MallocPage` and `MallocLarge` (the three
paths of `kheap::malloc`, the last taken when the page tier returns
null), and `FreeSmall`, `FreePage` and `FreeLarge`.

The large tier maps its pages through the paging manager (C2,
`paging.cpp`).  Its page-table entries are in `present` too, under the
top-level entry `LargeL4`; `LeafOf` is `VirtualAddress` (`mem.h`), the
split of a page number into four table indices.  `map` adds the missing
tables and the leaves and takes one frame from the pool for each;
`get` is a full walk; `unmap` clears the leaf only, as the code does
(no table is freed, no TLB entry flushed).  `FreeLarge` unmaps the pages
of `free`'s loop (`FreeLoopPages`: `j * page_size < size`, the stored
byte count) and panics when one of them is not mapped, as `unmap`'s
`get` check does.

`KernelHeap.tla` is what `kmalloc`/`kfree` promise: a set of byte ranges
in the heap window, each holding at least the requested size and
disjoint from the others, with a panic after which nothing happens.
`Heap` maps each live pointer to the byte range the code gives it
(`Block`: page address plus slot offset for the slab tier, the page for
the page tier, the region bytes for the large tier, `Addr` turning an
entry path back into an address) and checks `KH!Spec` as a property.

Run `heap` checks six properties:
- `TypeOK`;
- `FullBitsExact`: every full bit matches its subtree;
- `SlabListExact`: a bucket's list holds exactly its slab pages with room, each once, in mapped node pages;
- `HeapObjectsExclusive`: no slot, page or large region is handed out twice;
- `LargeMappedExactly`: the mapped leaves of the large tier are exactly
  the pages of its live regions, so `free` unmaps what `malloc` mapped;
- `ImplementsKernelHeap`: every step is a `KernelHeap` step under the
  mapping above.

Bounds:
- two entries per table, two objects per slab page and one element per
  node page, so that a second page of a bucket needs a second node;
- twelve frames, so the pool can run dry after the large tier's tables;
- a window of 500000 pages for the large tier (the code's is about 1e6;
  the smaller one keeps byte addresses inside TLC's 32-bit integers);
- up to three live allocations;
- sizes 16 and 100 (two buckets), 4096 (page tier), and 5000 and 12288
  (2 and 3 pages, large tier).

The large sizes stay at most `page_size` pages.  A region larger than
that is overlapped by later allocations (the hazard at `heap.cpp:501`).
TLC finds this with sizes of 2, 3 and 4097 pages after five calls.

Seen while modelling, with no run of their own:
- Every page free hands frame 0 back to C1 (`:221`, `:241`).
- A table frame is not zeroed (`:152`), so a later walk may take frame 0
  as a table and follow garbage entries.  The model reaches this fault in
  three calls.
- `small_allocator::free` tests for an empty page before clearing the bit
  (`:468`), so empty slab pages are never returned.
- Because regions are placed a byte count of pages apart (`:501`), two
  large regions are never adjacent, so an off-by-one that unmapped one
  page too many would unmap nothing live: the gap hides it.

### ApStartup (C5)

`ApStartup.tla` models `initLocalAPIC`'s bring-up loop
(`APIC.cpp:290-355`), the trampoline's stack load
(`trampoline.cpp:62-65`), `ap_cpu` (`APIC.cpp:502-512`) and the LAPIC
one-shot timer behind `sleep`/`notify`/`onLocalTimer` (`:411-454`).

State: the boot CPU's `pc` and loop index `i`; `stack_ptr`, the shared
`trampoline_stack_ptr` word (stack `i` is the stack allocated in
iteration `i`); `ap_response`; per core the processor's state `ap`, the
stack it loaded `rsp` and the SIPIs it `lost`; the boot CPU's timer
record `needed`/`prev` (`ticks_needed`, `prev_init`) and `armed`.

Actions: `Loop` (loop head, skip of the boot CPU's own entry, stack, INIT
and the first sleep), `DeInit`, `StartupIpi` (clear `ap_response`, SIPI,
sleep 1 ms), `Resend`, `Spin` (`while (!ap_response) {}`, a stuttering
step until it is set), `TimerFire` (the timer interrupt running
`onLocalTimer`), and per core `LoadStack` and `ApCpu`.  `sleep(ms, next)`
is `sleep(duration)` with `notify`: it panics when a sleep is still
running, else arms the first chunk; `Slept` is the busy-wait of
`sleep()`.  A SIPI to a waiting processor starts it or is missed, at
most `MaxLost` times per core.

The cores come from the MADT as `MADT::init` reads it.  `MadtParse.tla`
holds that parsing (`APIC.cpp:59-181`, shared with `MCInterruptVectors`):
`MadtOfType` is `search`'s walk from entry to entry, `count_madt_entries`
gives `core_count`, `MadtCores` is the `cores[]` loop, `MadtIoapics` and
`MadtOverrides` the `ioapics[]` and `io_interrupt_source_overrides[]`
loops, and `OverrideGsi` the override lookup of
`IOAPIC::interrupt_handler` (`:457-465`).  `MCApStartup`
writes the table out (four processor entries among an IO-APIC and an
interrupt source override) and takes `Cores` and `ApicId` from it.  The
loop takes a processor entry whatever its flags say, so a MADT that
lists disabled processors (firmware does, for hot-plug slots) gives the
boot CPU an AP that never answers, the same spin as the missed SIPIs
below; the checked MADT lists enabled processors only.

| run | cfg | result |
|---|---|---|
| `ap_startup` | 4 cores from the MADT, APIC ids 0..3, boot CPU at entry 0, 1 tick per ms, `max_timer_ticks` 32, one missed SIPI per core | pass: `TypeOK` (`ticks_needed` never wraps), `OwnStack`, `BringUpCompletes` |

Bounds: a chunk of 32 ticks splits the 100 ms sleep into four arms and
leaves the 1 and 10 ms sleeps in one, so both paths of `onLocalTimer`
run; four cores give three APs, each of which may miss the first SIPI, so
the resend and its skip both happen.  The real `max_timer_ticks` is
2^31 - 1; only its ratio to the sleeps matters.

Fairness: weak fairness on the boot CPU's steps, on `TimerFire` (an armed
one-shot timer expires) and on each AP's `LoadStack` and `ApCpu` (a
started processor executes).  `BringUpCompletes` needs MaxLost < 2: an
AP that missed both SIPIs leaves the boot CPU spinning for ever, which is
the hazard at `APIC.cpp:353`.

### BTree (C11)

`BTree.tla` models `btree<T, M>` (`include/data/btree.h`), the ordered
map behind the large-tier region index of the heap and other kernel
containers.  `M` is a constant; keys are small naturals and `T{}` is 0.

State: `mem`, the allocated nodes (`NodeId -> [data, children, size]`,
`Null` for `nullptr`), `root`, `m_size`, and the history variable `keys`
(the set the caller believes the tree holds) and `fault` (the undefined
behaviour or null dereference a step ran into, after which the model
halts).  `insert` and `remove` are recursive operators that return a
record `[h, root, res, fault]` of the whole call: `InsertImpl` and
`InsertNonFull` with `SplitChild` (`:106-196`), `RemoveImpl` with
`RemoveLoop`/`Descend`, `MergeRoot`, `merge_two_siblings` and
`shift_key_to_sibling` (`:198-409`).  Each code path is translated as
written, including reads of `children[-1]`, of empty nodes, and of
`nullptr` children, each of which ends in `fault`.  `FindFrom` and
`InOrder` are `find` and the in-order iteration.  The actions are
`InsertKey(k)` of a key not held and `RemoveKey(k)` of a held key, the
only calls the heap makes.

| run | cfg | result |
|---|---|---|
| `btree_map` | M = 2, keys 1..6, at most 10 nodes | violation of `BTreeIsMap` after six inserts: a right child filled to three keys, then a key below its middle key |

`BTreeIsMap` says no call faults, the in-order walk is strictly sorted
and holds exactly `keys`, and `find` agrees with it.  Every shortest
counterexample has one shape: five inserts leave the root `[2]` over
`[1]` and a full right child, and the sixth key falls below that child's
middle key.  Which one TLC prints depends on its worker schedule (1, 2,
3, 5, 6, 4 with one worker; 1, 2, 4, 5, 6, 3 has been reported with two,
where 3 ends in `[3,6]` right of 5).  With 1, 2, 3, 5, 6, 4: the root
`[2]` has children `[1]` and `[3,5,6]`; inserting 4 splits the full right
child at index 1, and `insert_non_full` then decides the side by
`data[i-1]` (`:162`), the separator 2 left of the new one, instead of
the new separator 5 at `data[i]`; since 2 < 4 it takes the right half,
giving root `[2,5]` over `[1]`, `[3]`, `[4,6]`: 4 lies right of 5, the
in-order walk is 1, 2, 3, 5, 4, 6, and `find(4)` fails.  In the heap this is a region lost from the index, and the
later `kfree` of it panics "removed non existing ptr".  It needs a
split of a non-first child; the heap uses M = 85, where it takes 169
keys, and the code's self-test inserts in ascending order, which always
takes the right side and never meets it.

A second defect: `shift_key_to_sibling` to the left (`:350-353`) drops
the right node's last child pointer.  It needs a tree of height three:
the self-test's pattern (ascending inserts, then ascending removes) of
16 keys fails at M = 2 and passes at M = 3, consistent with the shipped
self-test passing at M = 170 with two levels.  No run checks it: the
`btree_map` bounds reach the first defect first, and the run budget is
spent; it is a hazard in `PROJECT.json`.

Bounds: M = 2 is the smallest order the code allows and the one in which
splits, borrows and merges happen with the fewest keys; six keys in any
order reach height two and every branch of `remove_impl`; ten nodes
cover the tree with the split in flight.

### InterruptVectors (C4, with C5, C6 and C7)

`InterruptVectors.tla` models the interrupt plane (`interrupt.cpp`) as
the boot CPU fills it: `Interrupt::init` (`Init`), the default handlers
(`default_handler.cpp:119`), `initIOAPIC` (a vector per pin), the PIT
handler of the timer calibration (`IOAPIC::interrupt_handler`), the
reservation of `timer_interrupt` (`APIC.cpp:281`), one sleep per remote
core in the AP loop, the AHCI constructor (BIOS handoff, reset, its
vector and MSI) and `Port::init` (the `stop`/`start` poll loops, the 5 ms
COMRESET sleep, IDENTIFY), and finally `proc::init` pointing gate 0x80 at
the syscall entry (`SetNativeInterruptHandler`: the gate then bypasses
`interrupt_handler`'s table).  Every poll loop either finds the hardware ready or
sleeps and polls again, at most `MaxPolls` times.  `Sleep` is
`sleep(duration)` with `notify` (panic while a sleep runs; register
`onLocalTimer` for `timer_interrupt`; arm the first chunk), `Woken` is
the busy-wait of `sleep()`.  Devices interrupt between any two steps:
`PitFire`, `TimerFire` (the armed LAPIC counter), and `SataIrq` (the
MSI of a completed command: IDENTIFY, then `DiskCommand`s).  `Dispatch`
is `interrupt_handler`: a native gate, an empty entry (panic), or the
registered handler.  `ticks_needed` is a word of `TickWord` values so
that `onLocalTimer` wraps as the `uint64_t` does.

Between the AP loop and the AHCI constructor, `PciEnumerate` is
`initPCI` (C6): `InitPCI` runs `check_all` over each of the
`getEntryCount` groups of an MCFG (`McfgTables`: one or two groups, so
a disk found in either group counts) into one device list.  Each group
is one of the four `Machines` (the controller on bus 0 in a multi-function device, behind a
bridge to bus 1, a bridge whose secondary bus was never numbered, and a
multi-function host bridge whose second host controller's bus holds
it), then the constructor for the AHCI function found, if any.
`CheckBus`/`CheckFunctions`/`Probed` are `check_bus`, `check_function`
and `check_device`: a bridge recurses into its secondary bus with no
check of the buses on the call stack, so the unnumbered bridge ends in
the "stack overflow" fault (`PCI.cpp:53`).  `CheckAll` keeps the `break`
of `check_all`: with a multi-function host only bus 0 is scanned,
where the spec (4.6) enumerates functions 0-7 of bus 0 as separate buses,
so the controller behind the second host controller is never found and
the kernel boots without a disk.  `SataBar` is `Sata::init` up to the
BIOS handoff: `GetBar` is `getBAR(5)` with `getBARSize`'s early returns
(no BAR, a 64-bit BAR at index 5, a zero size), and the constructor
ends for a missing or I/O BAR5.  The size arithmetic and the BAR cache
are left out: only whether a memory BAR came back decides what follows.

The AHCI constructor's `setup_msi` is modelled at the byte level
(C6): the 16 bytes of the MSI capability are the variable `cfg`, chosen
in `Init` among an MSI capability with or without 64-bit addressing and
a capability of another kind.  `ReadConfig` and `WriteConfig` are
`read_configuration_space` and `write_configuration_space` by what they
do to those bytes; `SetupMsi` is `setup_msi` (read control, clear the
multi-message bits, set enable, give up without 64-bit addressing, then
write address, data and control).  `WriteConfig` keeps the code's
unaligned head: `memcpy(&data + offset, ...)` on a `uint32_t` lands
`4 * offset` bytes past the local, and the word goes back unchanged.
What those stray bytes overwrite is undefined, so `SataVector` chooses:
harmless, or the kernel stops ("stack smash").  `SataIrq` delivers a
pending completion only while GHC.IE is set (`msi`) and the enable bit
of message control is set in `cfg`, and counts it in `handled` when the
vector's entry is still the SATA lambda.

Fairness (`Fairness`): weak fairness for the boot CPU's program as one
action (it runs to its end unless it panics), for `TimerFire` and
`PitFire` (an armed counter expires), and for `SataIrq` (`sleep`
busy-waits with IF set, and after boot the kernel runs with interrupts
on).  `DiskCommand` gets none: the filesystem may stop issuing commands.

| run | cfg | result |
|---|---|---|
| `msi_completions` | `MCInterruptVectors`: from its MADT 1 core, 1 IO-APIC of 24 pins, PIT (ISA IRQ 0) overridden to GSI 2; 1 port, at most 2 completions | violation of `CompletionsHandled` (167 states) |

`CompletionsHandled`: for n up to `MaxIrqs`, once the HBA has signalled
n completions, `Sata::interrupt_handler` eventually has run n times.
TLC's counterexample: the controller has a 64-bit MSI capability;
`setup_msi` writes the address (offset 4) and the vector (offset 12),
both aligned, and then message control at offset 2, which is all head:
nothing reaches the device, `setup_msi` returns true and the
constructor sets GHC.IE.  IDENTIFY and a disk command complete, the
enable bit is still clear, and the kernel runs on with both pending
forever (`PCI.cpp:121`).

The same model shows a second defect that the first hides.
`timer_vector_shared.cfg` (kept beside the run, same constants) checks
`VectorOwned`: every caller of `get_free_interrupt_number` that has
registered its handler still finds it in the table, behind a
trampoline gate.  It fails (about 110 states): the IO-APIC takes vectors
32..55, the timer reserves 56 without registering it; with one core the
AP loop does not sleep; the controller needs no BIOS handoff and resets
at once, so it is given 56 too; the first poll sleep of `Port::init`
registers `onLocalTimer` over its handler (`APIC.cpp:281`).  Once MSI is
enabled, each completion would run `onLocalTimer`, wrap `ticks_needed`
and make the next `sleep` panic.  With two cores `VectorOwned` holds:
the AP loop's first sleep registers the timer before the controller
asks.  With 96 pins the timer gets vector 0x80, and with two cores and
95 pins the controller does; `proc::init` later takes that gate for
syscalls (`interrupt.cpp:169`).

## 4. Not modelled (yet)

See the components in `PROJECT.json`.  The PCI capability walk and the BAR size arithmetic, VGA, logging,
GPT/ext4 parsing and the boot stub are I/O and parsing with no
concurrency or state machine worth checking; they are listed as not
modelled with their reason.

Also not modelled yet: the TLB (the missing `invlpg` of
`paging.cpp:120`); the page mapping of the
method-argument window of `send_message` (`process.cpp:543`, latent, see
ProcessTree); the trampoline's
error-code vector set (the spec lists 21, 29 and 30, which the code
omits, but the kernel enables none of CET, SEV-ES or SVM that raise
them) and its shared `interrupt_number` slot; the arithmetic of the
LAPIC timer calibration and the IO-APIC and override entries of the
MADT (register I/O); the `this` the SATA lambda is registered with,
which points at the `Sata` inside `generate`'s temporary variant and
dangles once `initPCI`'s loop moves on (`Sata::interrupt_handler` only
logs, reading no member, so `SataIrq` counts the call); `timer_data_array` indexed by APIC id but
sized by core count (`APIC.cpp:412`), and the loop's assumption that the
boot CPU is `cores[0]` (`:321`): the checked configuration has ids 0..3
with the boot CPU first, the layout the code is written for.
