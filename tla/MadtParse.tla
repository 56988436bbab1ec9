------------------------------ MODULE MadtParse ------------------------------
(***************************************************************************)
(* MADT::init (src/src/high/ACPI/APIC.cpp): the MADT's body as a sequence  *)
(* of entry records, each with its type and the fields init reads.        *)
(* search() steps from entry to entry by its length and returns the next  *)
(* one of a type; count_madt_entries counts them that way, and each table *)
(* init builds takes the entries of one type in the order of the body.    *)
(***************************************************************************)
EXTENDS Integers, Sequences, FiniteSets

MadtOfType(madt, t) == SelectSeq(madt, LAMBDA e : e.type = t)
count_madt_entries(madt, t) == Len(MadtOfType(madt, t))

\* cores[]: the k-th processor entry's acpi_processor_id and apic_id, with
\* os_id k; core_count is their number.  A processor entry (type 0) is
\* taken whatever its flags say.
MadtCores(madt) ==
    LET ps == MadtOfType(madt, 0)
    IN  [k \in 0 .. Len(ps) - 1 |->
            [acpi_id |-> ps[k + 1].acpi_processor_id, apic_id |-> ps[k + 1].apic_id,
             os_id |-> k]]

\* ioapics[]: id, address and global_system_interrupt_base of each IO-APIC
\* entry (type 1), ioapic_count of them.
MadtIoapics(madt) ==
    LET es == MadtOfType(madt, 1)
    IN  [k \in 0 .. Len(es) - 1 |->
            [id |-> es[k + 1].ioapic_id, address |-> es[k + 1].address,
             global_system_interrupt_base |-> es[k + 1].global_system_interrupt_base]]

\* io_interrupt_source_overrides[]: each interrupt source override (type
\* 2) as from = source, to = global_system_interrupt; the bus is dropped.
MadtOverrides(madt) ==
    LET es == MadtOfType(madt, 2)
    IN  [k \in 0 .. Len(es) - 1 |->
            [from |-> es[k + 1].source, to |-> es[k + 1].global_system_interrupt]]

\* IOAPIC::interrupt_handler and interrupt_set_mask: the GSI of an ISA
\* IRQ is the `to` of the first override from it, else the IRQ itself.
OverrideGsi(irq, ovr) ==
    LET hits == {k \in DOMAIN ovr : ovr[k].from = irq}
    IN  IF hits = {} THEN irq
        ELSE ovr[CHOOSE k \in hits : \A j \in hits : k <= j].to
=============================================================================
