-------------------------- MODULE MCInterruptVectors --------------------------
(* InterruptVectors on the machine the MADT below describes: one enabled  *)
(* processor, one IO-APIC at GSI base 0 and the override of ISA IRQ 0 to  *)
(* GSI 2 that PC firmware lists for the PIT.  core_count, the IO-APIC     *)
(* pins and the PIT's GSI are what MADT::init and                         *)
(* IOAPIC::interrupt_handler make of it.                                  *)
EXTENDS InterruptVectors, MadtParse

MadtTable ==
    << [type |-> 0, acpi_processor_id |-> 0, apic_id |-> 0, flags |-> 1],
       [type |-> 1, ioapic_id |-> 0, address |-> "0xFEC00000", global_system_interrupt_base |-> 0],
       [type |-> 2, bus |-> 0, source |-> 0, global_system_interrupt |-> 2] >>

\* Each IO-APIC's version register reports 24 redirection entries (bits
\* 16-23 hold 23), the count initIOAPIC reads for it.
RedirectionEntries == 24

MadtCoreCount == count_madt_entries(MadtTable, 0)
MadtPins == Cardinality(DOMAIN MadtIoapics(MadtTable)) * RedirectionEntries
MadtPitGsi == OverrideGsi(0, MadtOverrides(MadtTable))
=============================================================================
