-------------------------- MODULE InterruptVectors --------------------------
(***************************************************************************)
(* The interrupt plane (src/src/high/interrupt/interrupt.cpp) and the     *)
(* components that take vectors from it during boot: the default         *)
(* exception handlers, the IO-APIC pins, the PIT used to calibrate the    *)
(* LAPIC timer, the LAPIC timer of sleep/notify (ACPI/APIC.cpp), the AHCI *)
(* controller's MSI (PCI/sata.cpp) and the syscall gate 0x80              *)
(* (process/process.cpp).                                                 *)
(*                                                                         *)
(* The boot CPU runs one sequential program, pc; the devices raise        *)
(* interrupts in between its steps whenever one is pending.  A vector is  *)
(* dispatched through the IDT gate to the trampoline and then through      *)
(* interrupt_handlers[]; setNativeInterruptHandler points a gate past the  *)
(* trampoline.  Only the first of the ten calibration rounds and one      *)
(* sleep per remote core of the AP loop (modelled step by step in          *)
(* ApStartup) are kept: they decide when the timer's handler is            *)
(* registered, which is what the vector table depends on.                  *)
(***************************************************************************)
EXTENDS Integers, Sequences, FiniteSets, SequencesExt

CONSTANTS
    CoreCount,      \* core_count from the MADT
    Pins,           \* redirection entries over all IO-APICs
    PitGsi,         \* the GSI ISA IRQ 0 is overridden to
    Ports,          \* AHCI ports with a device behind them
    MaxPolls,       \* bound on the sleeps of one hardware poll loop
    MaxIrqs,        \* bound on the command completions the disk signals
    TickWord,       \* 2^w: ticks_needed is an unsigned word of w bits
    SleepTicks,     \* ticks_per_ms times the length of a sleep
    MaxTimerTicks   \* max_timer_ticks

ASSUME /\ CoreCount \in Nat \ {0} /\ Pins \in Nat /\ PitGsi \in Nat
       /\ Ports \in Nat /\ MaxPolls \in Nat /\ MaxIrqs \in Nat
       /\ SleepTicks \in 1 .. TickWord - 1 /\ MaxTimerTicks \in 1 .. TickWord - 1

Vector == 0 .. 255
NoVec == -1
SyscallVector == 128          \* 0x80
\* what interrupt_handlers[v] points to
None == "none"
Owner == {None, "default", "page_fault", "io_unhandled", "pit", "timer", "sata"}
\* the callers of get_free_interrupt_number
Registrant == {"timer", "sata"}

VARIABLES
    pc,          \* the boot CPU's place in the boot sequence
    ret,         \* where a sleep returns to
    handlers,    \* interrupt_handlers[]
    native,      \* gates set by setNativeInterruptHandler
    given,       \* the vector get_free_interrupt_number gave each caller
    registered,  \* callers that registered a handler for their vector
    ticks,       \* timer_data.ticks_needed of the boot CPU
    prev,        \* timer_data.prev_init
    armed,       \* the LAPIC one-shot counter is running
    pitRunning,  \* pit_bootstrap_timer_running
    core,        \* i of the AP loop
    port,        \* ports initialised so far
    polls,       \* sleeps of the current poll loop
    msi,         \* MSI set up and GHC.IE set: the HBA may interrupt
    irqs,        \* completions the HBA has signalled
    pending,     \* an MSI of the HBA not yet delivered
    handled,     \* completions Sata::interrupt_handler ran for
    cfg,         \* bytes 0..15 of the HBA's MSI capability in config space
    fault        \* "none", or how the kernel stopped

vars == <<pc, ret, handlers, native, given, registered, ticks, prev, armed,
          pitRunning, core, port, polls, msi, irqs, pending, handled, cfg, fault>>

-----------------------------------------------------------------------------
\* Interrupt::registerHandler: the entry is overwritten unconditionally.
RegisterHandler(h, v, o) == [h EXCEPT ![v % 256] = o]

\* Interrupt::get_free_interrupt_number: the first vector from 32 below 255
\* whose entry is empty, else panic.
GetFree(h) ==
    IF \E v \in 32 .. 254 : h[v] = None
    THEN CHOOSE v \in 32 .. 254 : h[v] = None /\ \A u \in 32 .. v - 1 : h[u] # None
    ELSE NoVec

\* Sub-words of ticks_needed wrap as unsigned integers do.
TickSub(a, b) == (a - b) % TickWord

\* onLocalTimer: subtract the chunk that ran; at zero run the callback
\* (the empty lambda of sleep), else arm the next chunk.  a is whether the
\* counter still runs (not when its own expiry raised the interrupt).
OnLocalTimer(a) ==
    LET t == TickSub(ticks, prev)
    IN  /\ ticks' = t
        /\ IF t = 0 THEN prev' = prev /\ armed' = a
           ELSE /\ prev' = IF MaxTimerTicks < t THEN MaxTimerTicks ELSE t
                /\ armed' = TRUE

\* sleep(duration) and the notify it calls, from the step that sleeps:
\* panic when a sleep is running; else arm the first chunk, register
\* onLocalTimer for timer_interrupt, and wait (pc "sleeping") for ticks_needed
\* to reach 0.  h is the table as the step leaves it.
Sleep(h, next) ==
    IF ticks # 0
    THEN /\ fault' = "timer already running"
         /\ handlers' = h
         /\ UNCHANGED <<ret, registered, ticks, prev, armed>>
    ELSE /\ handlers' = RegisterHandler(h, given["timer"], "timer")
         /\ registered' = registered \cup {"timer"}
         /\ ticks' = SleepTicks
         /\ prev' = IF MaxTimerTicks < SleepTicks THEN MaxTimerTicks ELSE SleepTicks
         /\ armed' = TRUE
         /\ ret' = next
         /\ UNCHANGED fault

\* interrupt_handler for vector v, raised by a device, with a the LAPIC
\* counter's state after the interrupt was raised.  A gate set natively
\* enters that code instead (the syscall entry, with a device's frame).
\* The other handlers (IO-APIC, default, sata) only log and send an EOI.
Dispatch(v, a) ==
    LET keep == ticks' = ticks /\ prev' = prev /\ armed' = a
    IN  CASE v \in native          -> fault' = "native gate" /\ keep /\ UNCHANGED pitRunning
          [] handlers[v] = None    -> fault' = "Unhandled Interrupt" /\ keep /\ UNCHANGED pitRunning
          [] handlers[v] = "timer" -> OnLocalTimer(a) /\ UNCHANGED <<pitRunning, fault>>
          [] handlers[v] = "pit"   -> pitRunning' = FALSE /\ keep /\ UNCHANGED fault
          [] OTHER                 -> keep /\ UNCHANGED <<pitRunning, fault>>

\* The HBA's MSI capability as 16 bytes of config space: id, next, message
\* control, the 64-bit message address, message data.  get_capability
\* yields dword-aligned addresses (& ~0x3), so offsets keep their alignment.
CapOffset == 0 .. 15
MsiCapId == 5
\* 0xFEE00000 as the little-endian uint64_t msi_address
MsiAddress == <<0, 0, 224, 254, 0, 0, 0, 0>>
\* the n bytes of a little-endian unsigned integer, and the value of two
LE(x, n) == [i \in 1 .. n |-> (x \div (256 ^ (i - 1))) % 256]
Word(b) == b[1] + 256 * b[2]

\* pci_group::read_configuration_space: the n bytes from offset a (the
\* unaligned head is taken from (uint8_t*) &data + offset, as it should be).
ReadConfig(sp, a, n) == [i \in 1 .. n |-> sp[a + i - 1]]

\* pci_group::write_configuration_space.  The unaligned head is copied by
\* memcpy(&data + offset, ...): uint32_t* arithmetic puts it 4 * offset
\* bytes past the local data, and data is written back as it was read.
\* Only the aligned words and the tail reach the device.
WriteConfig(sp, a, buf) ==
    LET off  == a % 4
        head == IF off = 0 THEN 0 ELSE IF 4 - off < Len(buf) THEN 4 - off ELSE Len(buf)
    IN  [space |-> [i \in CapOffset |->
                      IF a + head <= i /\ i < a + Len(buf) THEN buf[i - a + 1] ELSE sp[i]],
         smash |-> off # 0]

\* device_header::setup_msi(vector): false without an MSI capability or
\* without 64-bit addressing; else address, data, then control with
\* multi-message cleared and enable set.  smash: a head was written past data.
SetupMsi(sp, v) ==
    LET c0 == Word(ReadConfig(sp, 2, 2))
        c1 == c0 - ((c0 \div 16) % 8) * 16
        c  == IF c1 % 2 = 0 THEN c1 + 1 ELSE c1
        w1 == WriteConfig(sp, 4, MsiAddress)
        w2 == WriteConfig(w1.space, 12, LE(v, 2))
        w3 == WriteConfig(w2.space, 2, LE(c, 2))
    IN  IF sp[0] # MsiCapId \/ (c \div 128) % 2 = 0
        THEN [ok |-> FALSE, space |-> sp, smash |-> FALSE]
        ELSE [ok |-> TRUE, space |-> w3.space, smash |-> w1.smash \/ w2.smash \/ w3.smash]

\* the MSI enable bit of message control: the function may signal
MsiEnabled == cfg[2] % 2 = 1

-----------------------------------------------------------------------------
\* After Interrupt::init: every gate points at its trampoline stub and the
\* table is cleared.
Init ==
    /\ pc = "defaults"
    /\ ret = "defaults"
    /\ handlers = [v \in Vector |-> None]
    /\ native = {}
    /\ given = [r \in Registrant |-> NoVec]
    /\ registered = {}
    /\ ticks = 0 /\ prev = 0 /\ armed = FALSE
    /\ pitRunning = FALSE
    /\ core = 1 /\ port = 0 /\ polls = 0
    /\ msi = FALSE /\ irqs = 0 /\ pending = FALSE /\ handled = 0
    \* an MSI capability, with or without 64-bit addressing, or another one
    /\ cfg \in {[i \in CapOffset |-> CASE i = 0 -> id [] i = 2 -> ctl [] OTHER -> 0] :
                 id \in {1, MsiCapId}, ctl \in {0, 128}}
    /\ fault = "none"

Booting == fault = "none"

\* Interrupt::init_default_handlers: vectors 0..31 log, 14 is the page
\* fault handler.
DefaultHandlers ==
    /\ Booting /\ pc = "defaults"
    /\ handlers' = [v \in Vector |-> CASE v = 14 -> "page_fault"
                                       [] v < 32   -> "default"
                                       [] OTHER    -> handlers[v]]
    /\ pc' = "ioapic"
    /\ UNCHANGED <<ret, native, given, registered, ticks, prev, armed, pitRunning,
                   core, port, polls, msi, irqs, pending, fault, cfg, handled>>

\* initIOAPIC: pin j gets vector 32 + j (an 8-bit field) and the
\* "unhandled IO-APIC interrupt" handler.
IoapicInit ==
    /\ Booting /\ pc = "ioapic"
    /\ handlers' = [v \in Vector |->
                       IF \E j \in 0 .. Pins - 1 : (32 + j) % 256 = v
                       THEN "io_unhandled" ELSE handlers[v]]
    /\ pc' = "pit"
    /\ UNCHANGED <<ret, native, given, registered, ticks, prev, armed, pitRunning,
                   core, port, polls, msi, irqs, pending, fault, cfg, handled>>

\* initLocalAPICTimer: IOAPIC::interrupt_handler(0) registers the PIT's
\* handler at its GSI + 32 (panic above 255); the first calibration round
\* starts the PIT and waits for its interrupt.
PitSetup ==
    /\ Booting /\ pc = "pit"
    /\ IF PitGsi + 32 > 255
       THEN fault' = "io vector too large" /\ UNCHANGED <<handlers, pitRunning, pc>>
       ELSE /\ handlers' = RegisterHandler(handlers, PitGsi + 32, "pit")
            /\ pitRunning' = TRUE
            /\ pc' = "calibrate"
            /\ UNCHANGED fault
    /\ UNCHANGED <<ret, native, given, registered, ticks, prev, armed, core, port,
                   polls, msi, irqs, pending, cfg, handled>>

\* The PIT expires: its interrupt is dispatched through the table.
PitFire ==
    /\ Booting /\ pitRunning
    /\ Dispatch(PitGsi + 32, armed)
    /\ UNCHANGED <<pc, ret, handlers, native, given, registered, core, port, polls,
                   msi, irqs, pending, cfg, handled>>

\* The end of calibration: the PIT pin is masked and the timer's vector
\* is reserved with get_free_interrupt_number, but no handler is
\* registered for it until the first notify.
TimerVector ==
    /\ Booting /\ pc = "calibrate" /\ ~pitRunning
    /\ IF GetFree(handlers) = NoVec
       THEN fault' = "No free interrupt number" /\ UNCHANGED <<given, pc>>
       ELSE /\ given' = [given EXCEPT !["timer"] = GetFree(handlers)]
            /\ pc' = "aploop"
            /\ UNCHANGED fault
    /\ UNCHANGED <<ret, handlers, native, registered, ticks, prev, armed, pitRunning,
                   core, port, polls, msi, irqs, pending, cfg, handled>>

\* The LAPIC counter expires and raises the vector notify wrote to the LVT.
TimerFire ==
    /\ Booting /\ armed
    /\ Dispatch(given["timer"], FALSE)
    /\ UNCHANGED <<pc, ret, handlers, native, given, registered, core, port, polls,
                   msi, irqs, pending, cfg, handled>>

\* sleep(): the busy-wait until ticks_needed is 0.
Woken ==
    /\ Booting /\ pc = "sleeping" /\ ticks = 0
    /\ pc' = ret
    /\ UNCHANGED <<ret, handlers, native, given, registered, ticks, prev, armed,
                   pitRunning, core, port, polls, msi, irqs, pending, fault, cfg, handled>>

\* One iteration of initLocalAPIC's AP loop per remote core: each sleeps.
ApLoop ==
    /\ Booting /\ pc = "aploop"
    /\ IF core < CoreCount
       THEN /\ Sleep(handlers, "aploop")
            /\ pc' = "sleeping" /\ core' = core + 1
       ELSE /\ pc' = "pci" /\ UNCHANGED <<ret, handlers, registered, ticks, prev, armed, fault, core>>
    /\ UNCHANGED <<native, given, pitRunning, port, polls, msi, irqs, pending, cfg, handled>>

\* initPCI: each MCFG group's check_all, then generate<Sata, xhci> for each
\* function found, whose Sata constructor runs Sata::init.  A machine is
\* its buses, each a sequence of devices [dev, fns] (absent devices read
\* header_type 0xFF and vendor 0xFFFF at every function and add nothing),
\* fns[1] being function 0, whose header_type tells multi-function.
Fn(cls, sec, multi) == [class |-> cls, sec |-> sec, multi |-> multi]
HostBridge == <<6, 0, 0>>
PciBridge  == <<6, 4, 0>>
Ahci       == <<1, 6, 1>>      \* Sata::class_code, subclass, prog_if
Other      == <<6, 1, 0>>
Machines ==
    \* a chipset with the AHCI function on bus 0
    { <<<<[dev |-> 0, fns |-> <<Fn(HostBridge, 0, FALSE)>>],
          [dev |-> 31, fns |-> <<Fn(Other, 0, TRUE), Fn(Ahci, 0, TRUE)>>]>>, <<>>>>,
    \* the controller behind a bridge to bus 1
      <<<<[dev |-> 0, fns |-> <<Fn(HostBridge, 0, FALSE)>>],
          [dev |-> 1, fns |-> <<Fn(PciBridge, 1, FALSE)>>]>>,
        <<[dev |-> 0, fns |-> <<Fn(Ahci, 0, FALSE)>>]>>>>,
    \* a bridge whose secondary bus was never numbered (0)
      <<<<[dev |-> 0, fns |-> <<Fn(HostBridge, 0, FALSE)>>],
          [dev |-> 1, fns |-> <<Fn(PciBridge, 0, FALSE)>>]>>, <<>>>>,
    \* a multi-function host: its second host controller's bus 1 holds it
      <<<<[dev |-> 0, fns |-> <<Fn(HostBridge, 0, TRUE), Fn(HostBridge, 0, TRUE)>>]>>,
        <<[dev |-> 0, fns |-> <<Fn(Ahci, 0, FALSE)>>]>>>> }

\* check_device: every function of a multi-function device, else function 0
Probed(devs) == FlattenSeq([d \in DOMAIN devs |->
                    IF devs[d].fns[1].multi THEN devs[d].fns ELSE <<devs[d].fns[1]>>])

\* check_bus and check_function: each valid function is recorded, and a
\* bridge (class 6, subclass 4) recurses into its secondary bus with no
\* check of the buses already on the call stack, which never returns.
RECURSIVE CheckBus(_, _, _), CheckFunctions(_, _, _)
CheckBus(m, b, stk) ==
    IF b \in stk THEN [found |-> <<>>, overflow |-> TRUE]
    ELSE CheckFunctions(m, Probed(m[b + 1]), stk \cup {b})
CheckFunctions(m, fs, stk) ==
    IF fs = <<>> THEN [found |-> <<>>, overflow |-> FALSE]
    ELSE LET f    == Head(fs)
             sub  == IF SubSeq(f.class, 1, 2) = <<6, 4>> THEN CheckBus(m, f.sec, stk)
                     ELSE [found |-> <<>>, overflow |-> FALSE]
             rest == CheckFunctions(m, Tail(fs), stk)
         IN  [found |-> <<f>> \o sub.found \o rest.found, overflow |-> sub.overflow \/ rest.overflow]

\* check_all: with a multi-function host bridge (device 0 of bus 0) bus
\* `function` is scanned for its first valid function only (the loop
\* breaks), which is bus 0, as for a single-function host.  Without a
\* device 0 the header reads 0xFF, every vendor 0xFFFF, and nothing is.
CheckAll(m) ==
    IF \E d \in DOMAIN m[1] : m[1][d].dev = 0 THEN CheckBus(m, 0, {})
    ELSE [found |-> <<>>, overflow |-> FALSE]

\* MCFG::getEntryCount: the table length less the 44-byte header, in
\* 16-byte group entries.  An MCFG lists one or two groups (getEntry(i)
\* reads the i-th), each a machine's buses as above.
getEntryCount(length) == (length - 44) \div 16
McfgTables == {[length |-> 44 + 16 * Len(gs), groups |-> gs] :
                  gs \in {<<g>> : g \in Machines} \cup {<<g, h>> : g, h \in Machines}}

\* initPCI: check_all of every group in turn into the one device list.
InitPCI(mcfg) ==
    LET rs == [i \in 1 .. getEntryCount(mcfg.length) |-> CheckAll(mcfg.groups[i])]
    IN  [found    |-> FlattenSeq([i \in DOMAIN rs |-> rs[i].found]),
         overflow |-> \E i \in DOMAIN rs : rs[i].overflow]

PciEnumerate ==
    /\ Booting /\ pc = "pci"
    /\ \E mcfg \in McfgTables :
          LET r == InitPCI(mcfg)
          IN  IF r.overflow THEN fault' = "stack overflow" /\ pc' = pc
              ELSE /\ pc' = IF \E i \in DOMAIN r.found : r.found[i].class = Ahci
                            THEN "bar" ELSE "process"
                   /\ UNCHANGED fault
    /\ UNCHANGED <<ret, handlers, native, given, registered, ticks, prev, armed,
                   pitRunning, core, port, polls, msi, irqs, pending, cfg, handled>>

\* The type of BAR5 as the device reports it (bit 0 I/O, bits 1-2 64-bit),
\* and whether all-ones reads back as a nonzero size.  The AHCI base
\* (ABAR) is a non-prefetchable memory BAR when the device follows AHCI.
BarKind == {"unused", "io", "mem32", "mem64"}

\* device_header::getBAR(5): none for a raw 0; a 64-bit BAR reads bar6
\* (0) as its high half, and getBARSize(5) refuses a 64-bit BAR at index
\* 5; none for a zero size; else an I/O BAR, or a memory BAR mapped
\* uncached at the next pages of allocate_uncached_virtual.
GetBar(raw, sized) ==
    CASE raw = "unused" \/ raw = "mem64" \/ ~sized -> "none"
      [] raw = "io"                               -> "io"
      [] OTHER                                    -> "mem"

\* Sata::init up to the handoff: no BAR5, or one that is not memory, ends
\* the constructor; else the HBA's registers are read and the ports
\* listed.  Its `!(host_capabilities | (1 << 31))` is never true, so the
\* 64-bit check never stops it.
SataBar ==
    /\ Booting /\ pc = "bar"
    /\ \E raw \in BarKind, sized \in BOOLEAN :
          pc' = IF GetBar(raw, sized) = "mem" THEN "handoff" ELSE "process"
    /\ UNCHANGED <<ret, handlers, native, given, registered, ticks, prev, armed,
                   pitRunning, core, port, polls, msi, irqs, pending, cfg, handled, fault>>

\* Sata: BIOS handoff is requested when CAP2.BOH is set.
Handoff ==
    /\ Booting /\ pc = "handoff"
    /\ \E boh \in BOOLEAN : pc' = IF boh THEN "handoff_poll" ELSE "reset"
    /\ UNCHANGED <<ret, handlers, native, given, registered, ticks, prev, armed,
                   pitRunning, core, port, polls, msi, irqs, pending, fault, cfg, handled>>

\* A loop `while (register says busy) sleep(1_ms);`: the hardware is done
\* and the loop ends, or it sleeps and polls again.
Loops == [handoff_poll |-> "reset", reset |-> "sata_vec",
          port_stop |-> "port_reset", port_start |-> "port_identify"]
Poll ==
    /\ Booting /\ pc \in DOMAIN Loops
    /\ \/ /\ pc' = Loops[pc] /\ polls' = 0
          /\ UNCHANGED <<ret, handlers, registered, ticks, prev, armed, fault>>
       \/ /\ polls < MaxPolls /\ polls' = polls + 1
          /\ Sleep(handlers, pc) /\ pc' = "sleeping"
    /\ UNCHANGED <<native, given, pitRunning, core, port, msi, irqs, pending, cfg, handled>>

\* After the reset: get_free_interrupt_number, registerHandler with the
\* lambda calling Sata::interrupt_handler, then setup_msi; when it fails
\* the constructor returns before GHC.IE and the ports.
SataVector ==
    /\ Booting /\ pc = "sata_vec"
    /\ LET v == GetFree(handlers)
       IN  IF v = NoVec
           THEN fault' = "No free interrupt number" /\ UNCHANGED <<handlers, given, registered, msi, pc, cfg>>
           ELSE /\ handlers' = RegisterHandler(handlers, v, "sata")
                /\ given' = [given EXCEPT !["sata"] = v]
                /\ registered' = registered \cup {"sata"}
                /\ LET m == SetupMsi(cfg, v)
                   IN  /\ cfg' = m.space
                       /\ msi' = m.ok
                       \* the bytes past data: harmless, or the kernel breaks
                       /\ \E corrupt \in IF m.smash THEN BOOLEAN ELSE {FALSE} :
                             IF corrupt THEN fault' = "stack smash" /\ pc' = pc
                             ELSE /\ pc' = IF m.ok /\ Ports > 0 THEN "port_stop" ELSE "process"
                                  /\ UNCHANGED fault
    /\ UNCHANGED <<ret, native, ticks, prev, armed, pitRunning, core, port, polls, irqs, pending, handled>>

\* Port::init between stop() and start(): COMRESET held for sleep(5_ms).
PortReset ==
    /\ Booting /\ pc = "port_reset"
    /\ Sleep(handlers, "port_start") /\ pc' = "sleeping"
    /\ UNCHANGED <<native, given, pitRunning, core, port, polls, msi, irqs, pending, cfg, handled>>

\* Port::init after start(): port interrupts enabled, IDENTIFY sent; its
\* completion raises the controller's MSI.
PortIdentify ==
    /\ Booting /\ pc = "port_identify"
    /\ irqs' = irqs + 1 /\ pending' = TRUE
    /\ port' = port + 1
    /\ pc' = IF port + 1 < Ports THEN "port_stop" ELSE "process"
    /\ UNCHANGED <<ret, handlers, native, given, registered, ticks, prev, armed,
                   pitRunning, core, polls, msi, fault, cfg, handled>>

\* setNativeInterruptHandler(address, number, stack), through setHandler:
\* gate `number` is rewritten to jump to `address` directly, so the vector
\* no longer reaches interrupt_handler's table.
SetNativeInterruptHandler(gates, number) == gates \cup {number}

\* The first thread::execute runs proc::init, which points gate 0x80 at
\* the syscall entry.
SyscallGate ==
    /\ Booting /\ pc = "process"
    /\ native' = SetNativeInterruptHandler(native, SyscallVector)
    /\ pc' = "running"
    /\ UNCHANGED <<ret, handlers, given, registered, ticks, prev, armed, pitRunning,
                   core, port, polls, msi, irqs, pending, fault, cfg, handled>>

\* A read or write of the filesystem completes on the disk.
DiskCommand ==
    /\ Booting /\ msi /\ port = Ports /\ pc \in {"process", "running"}
    /\ irqs < MaxIrqs
    /\ irqs' = irqs + 1 /\ pending' = TRUE
    /\ UNCHANGED <<pc, ret, handlers, native, given, registered, ticks, prev, armed,
                   pitRunning, core, port, polls, msi, fault, cfg, handled>>

\* The HBA's MSI is delivered to the vector setup_msi programmed.
SataIrq ==
    /\ Booting /\ msi /\ MsiEnabled /\ pending
    /\ pending' = FALSE
    /\ Dispatch(given["sata"], armed)
    /\ handled' = IF given["sata"] \notin native /\ handlers[given["sata"]] = "sata"
                   THEN handled + 1 ELSE handled
    /\ UNCHANGED <<pc, ret, handlers, native, given, registered, core, port, polls,
                   msi, irqs, cfg>>

\* Boot is over, or the kernel has stopped.
Stopped ==
    /\ fault # "none" \/ pc = "running"
    /\ UNCHANGED vars

Next ==
    \/ DefaultHandlers \/ IoapicInit \/ PitSetup \/ PitFire \/ TimerVector
    \/ TimerFire \/ Woken \/ ApLoop \/ PciEnumerate \/ SataBar \/ Handoff \/ Poll \/ SataVector
    \/ PortReset \/ PortIdentify \/ SyscallGate \/ DiskCommand \/ SataIrq
    \/ Stopped

\* The boot CPU runs its program to its end; an armed LAPIC counter and a
\* started PIT expire; a signalled MSI is delivered, since sleep busy-waits
\* with IF set.  DiskCommand gets none: the filesystem may issue no more.
Fairness ==
    /\ WF_vars(DefaultHandlers \/ IoapicInit \/ PitSetup \/ TimerVector \/ Woken
              \/ ApLoop \/ PciEnumerate \/ SataBar \/ Handoff \/ Poll \/ SataVector \/ PortReset \/ PortIdentify
              \/ SyscallGate)
    /\ WF_vars(TimerFire) /\ WF_vars(PitFire) /\ WF_vars(SataIrq)

Spec == Init /\ [][Next]_vars /\ Fairness

-----------------------------------------------------------------------------
TypeOK ==
    /\ handlers \in [Vector -> Owner]
    /\ native \subseteq Vector
    /\ given \in [Registrant -> Vector \cup {NoVec}]
    /\ registered \subseteq Registrant
    /\ ticks \in 0 .. TickWord - 1 /\ prev \in 0 .. TickWord - 1
    /\ armed \in BOOLEAN /\ pitRunning \in BOOLEAN /\ msi \in BOOLEAN
    /\ handled \in 0 .. irqs /\ cfg \in [CapOffset -> 0 .. 255]

\* Spec 4.4 and 4.6 (MSI): every completion the HBA signals after setup_msi
\* succeeded reaches Sata::interrupt_handler through the vector setup_msi
\* programmed.  It needs setup_msi's last write (message control, at
\* offset 2 through write_configuration_space) to leave MSI enabled, and
\* the vector to stay the SATA lambda's although the timer registers its
\* reserved vector only at its first notify.
CompletionsHandled ==
    \A n \in 1 .. MaxIrqs : (irqs >= n) ~> (handled >= n)

\* Spec, interrupt plane: the dispatcher runs the handler registered for a
\* vector.  Every caller of get_free_interrupt_number that registered its
\* handler still owns its vector: the table entry is its handler and the
\* gate still leads to the trampoline.  It fails when two callers are given
\* one vector (the timer reserves its vector at calibration but registers
\* it only at its first notify), or a gate is later set natively.
VectorOwned ==
    \A r \in registered : given[r] \notin native /\ handlers[given[r]] = r

=============================================================================
