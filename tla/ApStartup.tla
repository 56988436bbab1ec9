------------------------------- MODULE ApStartup -------------------------------
(***************************************************************************)
(* Application-processor bring-up of src/src/high/ACPI/APIC.cpp and the   *)
(* trampoline of src/src/trampoline/trampoline.cpp, with the one-shot      *)
(* LAPIC timer the boot CPU sleeps on between the IPIs.                    *)
(*                                                                         *)
(* The boot CPU runs initLocalAPIC's loop over cores[1 .. core_count-1]:   *)
(* for each remote core it allocates a stack, stores its top in the       *)
(* trampoline's shared trampoline_stack_ptr, sends INIT, de-assert INIT   *)
(* and SIPI with sleeps in between, resends the SIPI when ap_response is  *)
(* still false, sleeps and then spins on ap_response.  An application     *)
(* processor woken by a SIPI runs the trampoline, which loads its stack   *)
(* pointer from trampoline_stack_ptr, and calls ap_cpu, which sets        *)
(* ap_response and halts.                                                  *)
(*                                                                         *)
(* sleep(d) is notify(d) followed by a busy-wait until ticks_needed is 0; *)
(* notify arms the timer through a direct call of onLocalTimer, and each  *)
(* expiry of the one-shot timer runs onLocalTimer as an interrupt.  A     *)
(* boot-CPU action that follows a sleep is guarded by ticks_needed = 0.   *)
(* ticks_needed is a uint64_t: a value below 0 stands for the wrapped     *)
(* value, which the loop's "> 0" reads as positive.                        *)
(*                                                                         *)
(* The IPIs' delivery-status polls and the APIC error-status asserts are  *)
(* not modelled: the command is delivered when the send step ends.  A     *)
(* SIPI may be missed by the processor (the reason the code resends it),  *)
(* at most MaxLost times per core.                                         *)
(***************************************************************************)
EXTENDS Integers, Sequences, FiniteSets

CONSTANTS
    Cores,          \* core_count: MADT processor entries, cores[0 .. Cores-1]
    ApicId,         \* cores[c].apic_id
    BspIndex,       \* the entry of the boot CPU
    TicksPerMs,     \* ticks_per_ms from the calibration
    MaxTimerTicks,  \* max_timer_ticks, (1 << 31) - 1 in the code
    MaxLost         \* SIPIs a processor may miss

Core == 0 .. Cores - 1
Bsp == ApicId[BspIndex]
NoStack == -1          \* trampoline_stack_ptr before the first store

ASSUME /\ Cores \in Nat \ {0} /\ BspIndex \in Core
       /\ ApicId \in [Core -> Nat]
       /\ TicksPerMs \in Nat /\ MaxTimerTicks \in Nat \ {0} /\ MaxLost \in Nat

VARIABLES
    pc,           \* where the boot CPU is in initLocalAPIC
    i,            \* the loop index
    stack_ptr,    \* trampoline_stack_ptr: the stack stored for the next AP
    ap_response,  \* the volatile handshake flag
    ap,           \* per core: "reset", "wait_sipi", "trampoline", "ap_cpu", "halted"
    rsp,          \* per core: the stack the processor loaded, or NoStack
    lost,         \* per core: SIPIs it missed
    needed,       \* timer_data.ticks_needed of the boot CPU
    prev,         \* timer_data.prev_init
    armed         \* the LAPIC timer is counting down prev ticks

timer == <<needed, prev, armed>>
vars == <<pc, i, stack_ptr, ap_response, ap, rsp, lost, timer>>

Min2(a, b) == IF a < b THEN a ELSE b

-----------------------------------------------------------------------------
(* The LAPIC timer                                                         *)

\* onLocalTimer: subtract what the last arming counted; at 0 run the
\* callback (sleep's is empty), else arm for min(max_timer_ticks, rest).
\* (Mutant: re-armed for max_timer_ticks whatever is left.)
onLocalTimerNoMin(n, p) ==
    LET rest == n - p
    IN  IF rest = 0 THEN [needed |-> 0, prev |-> p, armed |-> FALSE]
        ELSE [needed |-> rest, prev |-> MaxTimerTicks, armed |-> TRUE]
onLocalTimer(n, p) ==
    LET rest == n - p
    IN  IF rest = 0 THEN [needed |-> 0, prev |-> p, armed |-> FALSE]
        ELSE [needed |-> rest, prev |-> Min2(MaxTimerTicks, rest), armed |-> TRUE]

\* LocalAPIC::sleep(ms), then the boot CPU goes on at next: it panics
\* when a sleep is still running; else notify sets ticks_needed =
\* ms * ticks_per_ms and prev_init = 0 and calls onLocalTimer directly.
sleep(ms, next) ==
    LET t == onLocalTimer(ms * TicksPerMs, 0)
    IN  IF needed # 0
        THEN pc' = "panic" /\ UNCHANGED timer
        ELSE /\ needed' = t.needed /\ prev' = t.prev /\ armed' = t.armed
             /\ pc' = next

\* LocalAPIC::sleep(): the boot CPU waits while ticks_needed > 0.
Slept == needed = 0

\* The one-shot timer expires after prev ticks and interrupts the boot CPU.
TimerFire ==
    /\ armed
    /\ LET t == onLocalTimer(needed, prev)
       IN  needed' = t.needed /\ prev' = t.prev /\ armed' = t.armed
    /\ UNCHANGED <<pc, i, stack_ptr, ap_response, ap, rsp, lost>>

-----------------------------------------------------------------------------
(* IPIs as the addressed processor sees them                              *)

\* INIT resets the processor into wait-for-SIPI.
INIT(c) == [ap EXCEPT ![c] = "wait_sipi"]

\* A SIPI starts a processor waiting for one at the trampoline, unless it
\* misses it; a processor that is running ignores it.
SIPI(c) ==
    \/ /\ ap[c] = "wait_sipi"
       /\ ap' = [ap EXCEPT ![c] = "trampoline"]
       /\ UNCHANGED lost
    \/ /\ ap[c] = "wait_sipi" /\ lost[c] < MaxLost
       /\ lost' = [lost EXCEPT ![c] = @ + 1]
       /\ UNCHANGED ap
    \/ /\ ap[c] # "wait_sipi"
       /\ UNCHANGED <<ap, lost>>

-----------------------------------------------------------------------------
(* The boot CPU: initLocalAPIC's loop                                       *)

Init ==
    /\ pc = "loop" /\ i = 1
    /\ stack_ptr = NoStack /\ ap_response = FALSE
    /\ ap = [c \in Core |-> IF c = BspIndex THEN "halted" ELSE "reset"]
    /\ rsp = [c \in Core |-> NoStack]
    /\ lost = [c \in Core |-> 0]
    /\ needed = 0 /\ prev = 0 /\ armed = FALSE

\* The loop head: done at core_count, skip the boot CPU's own entry, else
\* allocate the core's stack (the i-th allocation, named i), store it for
\* the trampoline, send INIT and sleep 10 ms.
Loop ==
    /\ pc = "loop" /\ Slept
    /\ \/ /\ i >= Cores
          /\ pc' = "done"
          /\ UNCHANGED <<i, stack_ptr, ap, timer>>
       \/ /\ i < Cores /\ ApicId[i] = Bsp
          /\ i' = i + 1
          /\ UNCHANGED <<pc, stack_ptr, ap, timer>>
       \/ /\ i < Cores /\ ApicId[i] # Bsp
          /\ stack_ptr' = i
          /\ ap' = INIT(i)
          /\ sleep(10, "deinit")
          /\ UNCHANGED i
    /\ UNCHANGED <<ap_response, rsp, lost>>

\* De-assert INIT (no effect on the processor) and sleep 10 ms.
DeInit ==
    /\ pc = "deinit" /\ Slept
    /\ sleep(10, "sipi")
    /\ UNCHANGED <<i, stack_ptr, ap_response, ap, rsp, lost>>

\* Clear ap_response, send the SIPI and sleep 1 ms.
\* (Mutant: ap_response is not cleared.)
StartupIpiNoClear ==
    /\ pc = "sipi" /\ Slept
    /\ SIPI(i)
    /\ sleep(1, "resend")
    /\ UNCHANGED <<i, stack_ptr, rsp, ap_response>>
StartupIpi ==
    /\ pc = "sipi" /\ Slept
    /\ ap_response' = FALSE
    /\ SIPI(i)
    /\ sleep(1, "resend")
    /\ UNCHANGED <<i, stack_ptr, rsp>>

\* Resend the SIPI if the processor has not answered, then sleep 100 ms.
\* (Mutant: the SIPI is never resent.)
ResendNever ==
    /\ pc = "resend" /\ Slept
    /\ sleep(100, "spin")
    /\ UNCHANGED <<i, stack_ptr, ap_response, rsp, ap, lost>>
Resend ==
    /\ pc = "resend" /\ Slept
    /\ IF ap_response THEN UNCHANGED <<ap, lost>> ELSE SIPI(i)
    /\ sleep(100, "spin")
    /\ UNCHANGED <<i, stack_ptr, ap_response, rsp>>

\* while (!ap_response) {}: the loop moves on once the processor answered;
\* until then the boot CPU spins without changing anything.
Spin ==
    /\ pc = "spin" /\ Slept
    /\ IF ap_response
       THEN /\ pc' = "loop" /\ i' = i + 1
            /\ UNCHANGED <<stack_ptr, ap_response, ap, rsp, lost, timer>>
       ELSE UNCHANGED vars

-----------------------------------------------------------------------------
(* An application processor                                                *)

\* trampoline_entry_64: mov trampoline_stack_ptr, %rsp.
LoadStack(c) ==
    /\ ap[c] = "trampoline"
    /\ rsp' = [rsp EXCEPT ![c] = stack_ptr]
    /\ ap' = [ap EXCEPT ![c] = "ap_cpu"]
    /\ UNCHANGED <<pc, i, stack_ptr, ap_response, lost, timer>>

\* ap_cpu: ap_response = true, then cli; hlt for ever.
ApCpu(c) ==
    /\ ap[c] = "ap_cpu"
    /\ ap_response' = TRUE
    /\ ap' = [ap EXCEPT ![c] = "halted"]
    /\ UNCHANGED <<pc, i, stack_ptr, rsp, lost, timer>>

\* initLocalAPIC has returned, or the kernel has panicked and halted.
Done == pc \in {"done", "panic"} /\ UNCHANGED vars

BspStep == Loop \/ DeInit \/ StartupIpi \/ Resend \/ Spin

Next ==
    \/ BspStep
    \/ TimerFire
    \/ \E c \in Core : LoadStack(c) \/ ApCpu(c)
    \/ Done

\* Every processor keeps executing, and the timer fires once it is armed.
Fairness ==
    /\ WF_vars(BspStep)
    /\ WF_vars(TimerFire)
    /\ \A c \in Core : WF_vars(LoadStack(c)) /\ WF_vars(ApCpu(c))

Spec == Init /\ [][Next]_vars /\ Fairness

-----------------------------------------------------------------------------
\* The types, and ticks_needed never wraps below 0.
TypeOK ==
    /\ pc \in {"loop", "deinit", "sipi", "resend", "spin", "done", "panic"}
    /\ i \in 1 .. Cores
    /\ stack_ptr \in Core \cup {NoStack} /\ ap_response \in BOOLEAN
    /\ ap \in [Core -> {"reset", "wait_sipi", "trampoline", "ap_cpu", "halted"}]
    /\ rsp \in [Core -> Core \cup {NoStack}]
    /\ lost \in [Core -> 0 .. MaxLost]
    /\ needed \in Nat /\ prev \in 0 .. MaxTimerTicks /\ armed \in BOOLEAN

\* Every application processor runs on the stack the boot CPU allocated
\* for it, so no two share one.  trampoline_stack_ptr is one shared word;
\* the boot CPU may only overwrite it for the next core after the current
\* one has loaded it, which it learns from ap_response, set by ap_cpu
\* after the trampoline's stack load.
OwnStack == \A c \in Core : rsp[c] # NoStack => rsp[c] = c

\* initLocalAPIC returns, with every core other than the boot CPU started
\* and halted in ap_cpu, when each processor misses at most MaxLost SIPIs.
BringUpCompletes ==
    <>(pc = "done" /\ \A c \in Core : ap[c] = "halted" /\ (c # BspIndex => rsp[c] = c))
====
