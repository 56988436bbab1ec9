------------------------------ MODULE AhciPort ------------------------------
(***************************************************************************)
(* The AHCI port engine of src/src/high/PCI/sata.cpp (PCI::Sata::Port)     *)
(* and the HBA it drives.                                                  *)
(*                                                                         *)
(* The driver side keeps scheduled_slots; the hardware side keeps the      *)
(* command-issue register CI, the error register SERR, whether the HBA    *)
(* has stopped on a fatal error, the command table of each slot, the disk *)
(* and the memory the DMA engine reads and writes.                        *)
(* A port call runs under the port lock on the only CPU that does I/O, so  *)
(* each call is one step; its busy-wait loops are guards (the call waits   *)
(* until the hardware state lets it leave the loop).                       *)
(*                                                                         *)
(* Bytes are tokens: disk byte p initially holds p, Garbage is an          *)
(* uninitialised stack byte and Junk a byte the DMA engine made up.        *)
(* Buffers are sequences whose length is the size of the C++ object.       *)
(***************************************************************************)
EXTENDS Integers, Sequences, FiniteSets, FiniteSetsExt

CONSTANTS
    SectorSize,      \* port->sector_size in bytes (even)
    SectorCount,     \* port->sector_count
    NumSlots,        \* command slots of the port (32 in the HBA)
    QueueCapable,    \* IDENTIFY word 85 bit 17: several commands outstanding
    ErrorsPossible,  \* whether the HBA may report errors
    BufName          \* names of the memory objects DMA may target

ASSUME /\ SectorSize \in Nat \ {0} /\ SectorSize % 2 = 0
       /\ SectorCount \in Nat \ {0}
       /\ NumSlots \in Nat \ {0}
       /\ QueueCapable \in BOOLEAN /\ ErrorsPossible \in BOOLEAN

Slot == 0 .. NumSlots - 1
DiskBytes == SectorCount * SectorSize
Garbage == -1
Junk == -2
NoCmd == [write |-> FALSE, lba |-> 0, count |-> 0, buf |-> "none", boff |-> 0, bytes |-> 0]

VARIABLES
    ci,         \* PxCI (mmio + 0x38): slots the HBA still owns
    scheduled,  \* scheduled_slots: slots issued and not yet reaped
    serr,       \* PxSERR (mmio + 0x30) non-zero; nothing in the driver clears it
    halted,     \* the HBA stopped on a fatal error; nothing restarts the port
    cmds,       \* per slot, the command table the driver last set up
    disk,       \* the device's bytes, 0-based
    mem,        \* the memory objects, BufName -> Seq(bytes)
    overrun     \* history: some DMA or memcpy went past the end of its object

portVars == <<ci, scheduled, serr, halted, cmds, disk, mem, overrun>>

PortInit ==
    /\ ci = {}
    /\ scheduled = {}
    /\ serr = FALSE
    /\ halted = FALSE
    /\ cmds = [s \in Slot |-> NoCmd]
    /\ disk = [p \in 0 .. DiskBytes - 1 |-> p]
    /\ mem = [b \in BufName |-> <<>>]
    /\ overrun = FALSE

\* Byte-level access to a memory object at a 0-based offset.  Bytes past
\* the end of the object are dropped on write and read as Junk.
WriteMem(m, o, data) ==
    [i \in 1 .. Len(m) |-> IF o < i /\ i <= o + Len(data) THEN data[i - o] ELSE m[i]]
ReadMem(m, o, n) ==
    [k \in 1 .. n |-> IF o + k <= Len(m) THEN m[o + k] ELSE Junk]
Fits(b, o, n) == o + n <= Len(mem[b])

\* (count + sector_size - 1) / sector_size
SectorsFor(size) == (size + SectorSize - 1) \div SectorSize

\* check_command_valid: the buffer is even (the block device bounces odd
\* buffers), the port has an ATA device (only those are published as block
\* devices) and counts stay below 2^16, so only these outcomes remain.
\* (Mutant: the count == 0 case is not caught.)
check_command_validNoEmpty(lba, size) ==
    IF lba + SectorsFor(size) > SectorCount THEN "OUT_OF_BOUNDS" ELSE "OK"
check_command_valid(lba, size) ==
    IF lba + SectorsFor(size) > SectorCount THEN "OUT_OF_BOUNDS"
    ELSE IF SectorsFor(size) = 0 THEN "SUCCESS"
    ELSE "OK"

\* wait_all() resets scheduled_slots before a non-queued command.
SchedAfterWait == IF QueueCapable THEN scheduled ELSE {}

\* find_free_slot(): the lowest slot neither in CI nor scheduled.
\* (Mutant: scheduled_slots is not consulted.)
FreeSlotsIgnoringScheduled(sch) == {s \in Slot : s \notin ci}
FreeSlots(sch) == {s \in Slot : s \notin ci /\ s \notin sch}

\* The result of sendRead / sendWrite: an error code or the issued slot.
\* setup_physical_region cannot fail for the small mapped buffers here.
SendResult(lba, size) ==
    LET v == check_command_valid(lba, size)
    IN  CASE v # "OK"                 -> [err |-> v]
          [] ~QueueCapable /\ serr    -> [err |-> "UNKNOWN_ERROR"]
          [] FreeSlots(SchedAfterWait) = {} -> [err |-> "NO_RESOURCES"]
          [] OTHER -> [slot |-> Min(FreeSlots(SchedAfterWait))]

\* A non-queued send spins in wait_all until SERR is set or CI is empty;
\* an invalid command returns before taking the lock.
SendReady(lba, size) ==
    check_command_valid(lba, size) # "OK" \/ QueueCapable \/ serr \/ ci = {}

\* The port-state change of a send: setup_h2d, setup_physical_region and
\* issue_slot for a slot, nothing for an error.
Send(write, lba, size, b, o) ==
    LET r == SendResult(lba, size)
    IN  IF "slot" \in DOMAIN r
        THEN /\ ci' = ci \cup {r.slot}
             /\ scheduled' = SchedAfterWait \cup {r.slot}
             /\ cmds' = [cmds EXCEPT ![r.slot] =
                          [write |-> write, lba |-> lba, count |-> SectorsFor(size),
                           buf |-> b, boff |-> o, bytes |-> size]]
        ELSE UNCHANGED <<ci, scheduled, cmds>>

\* wait_for(slot): test_done polled until SERR is set (false) or the CI
\* bit is clear (true, and the slot is reaped from scheduled_slots).
\* (Mutant: SERR is not read.)
WaitReadyNoSerr(s) == s \notin ci
WaitReady(s) == serr \/ s \notin ci
WaitOk == ~serr
WaitFor(s) == scheduled' = IF serr THEN scheduled ELSE scheduled \ {s}

-----------------------------------------------------------------------------
\* The HBA executes the command of slot s.  A read moves count sectors
\* into the PRD region (bytes beyond it are dropped); a write takes the
\* PRD bytes, and the device receives Junk for sectors the PRD table does
\* not cover.  NCQ lets any outstanding slot complete next.
Transfer(c) ==
    LET n    == c.count * SectorSize
        base == c.lba * SectorSize
    IN  IF c.write
        THEN LET src == ReadMem(mem[c.buf], c.boff, c.bytes)
             IN  /\ disk' = [p \in DOMAIN disk |->
                              IF base <= p /\ p < base + n
                              THEN IF p - base < c.bytes THEN src[p - base + 1] ELSE Junk
                              ELSE disk[p]]
                 /\ overrun' = (overrun \/ ~Fits(c.buf, c.boff, c.bytes))
                 /\ UNCHANGED mem
        ELSE LET k == IF c.bytes < n THEN c.bytes ELSE n
             IN  /\ mem' = [mem EXCEPT ![c.buf] =
                              WriteMem(@, c.boff, [i \in 1 .. k |-> disk[base + i - 1]])]
                 /\ overrun' = (overrun \/ ~Fits(c.buf, c.boff, k))
                 /\ UNCHANGED disk

Complete(s) ==
    /\ ~halted /\ s \in ci
    /\ Transfer(cmds[s])
    /\ ci' = ci \ {s}
    /\ UNCHANGED <<scheduled, serr, halted, cmds>>

\* Errors while commands are outstanding.  A recovered or diagnostic
\* error sets a PxSERR bit and the HBA goes on with its commands.  A
\* fatal error stops the HBA with the failed command and those behind it
\* left in CI; an interface error also sets PxSERR, a task-file error
\* only PxTFD.ERR and PxIS.TFES, registers test_done and wait_all never
\* read (both test 0x30 twice).
SerrNotice ==
    /\ ErrorsPossible /\ ~serr /\ ci # {}
    /\ serr' = TRUE
    /\ UNCHANGED <<ci, scheduled, halted, cmds, disk, mem, overrun>>
FatalError ==
    /\ ErrorsPossible /\ ~halted /\ ci # {}
    /\ halted' = TRUE
    /\ \E interface \in BOOLEAN : serr' = (serr \/ interface)
    /\ UNCHANGED <<ci, scheduled, cmds, disk, mem, overrun>>

\* The HBA has stopped on an error that set no PxSERR bit.
TaskFileHang == halted /\ ~serr

PortTypeOK ==
    /\ ci \subseteq Slot /\ scheduled \subseteq Slot
    /\ serr \in BOOLEAN /\ halted \in BOOLEAN
    /\ \A s \in Slot : cmds[s].count \in Nat
    \* the 16-bit FIS count of an issued command (0 would mean 65536)
    /\ \A s \in ci : cmds[s].count \in 1 .. 2^16 - 1
    /\ disk \in [0 .. DiskBytes - 1 -> Int]
    /\ \A b \in BufName : mem[b] \in Seq(Int)
    /\ overrun \in BOOLEAN
=============================================================================
