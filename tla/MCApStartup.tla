----------------------------- MODULE MCApStartup -----------------------------
(* ApStartup on the cores the MADT below lists: four enabled processors   *)
(* with dense APIC ids, the boot CPU first, among an IO-APIC and the ISA  *)
(* IRQ 0 override; one tick per ms and a 32-tick timer limit, so that the *)
(* 100 ms sleep takes four arming rounds.                                 *)
EXTENDS ApStartup, MadtParse

Madt ==
    << [type |-> 0, acpi_processor_id |-> 0, apic_id |-> 0, flags |-> 1],
       [type |-> 1, ioapic_id |-> 0, address |-> "0xFEC00000", global_system_interrupt_base |-> 0],
       [type |-> 0, acpi_processor_id |-> 1, apic_id |-> 1, flags |-> 1],
       [type |-> 2, bus |-> 0, source |-> 0, global_system_interrupt |-> 2],
       [type |-> 0, acpi_processor_id |-> 2, apic_id |-> 2, flags |-> 1],
       [type |-> 0, acpi_processor_id |-> 3, apic_id |-> 3, flags |-> 1] >>

MadtCoreCount == count_madt_entries(Madt, 0)
ApicIds == [c \in 0 .. MadtCoreCount - 1 |-> MadtCores(Madt)[c].apic_id]
====
