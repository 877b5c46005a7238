------------------------------- MODULE MCBoot -------------------------------
(* One and two processors, none to two I/O APICs in either order, and machines *)
(* that lack something the kernel asks for, or any entry in their MADT.        *)
EXTENDS Boot

Lapic(id) == [type |-> "lapic", id |-> id, len |-> 8]
Ioapic(id) == [type |-> "ioapic", id |-> id, len |-> 12]
Other == [type |-> "other", id |-> 0, len |-> 10]
Sapic == [type |-> "sapic", id |-> 0, len |-> 16]

Pc(madt, boot, wired) ==
  [sse |-> TRUE, x2apic |-> TRUE, efer |-> TRUE, pic |-> TRUE,
   acpi |-> "madt", madt |-> madt, behind |-> Ioapic(2), boot |-> boot, wired |-> wired]

Single == Pc(<<Lapic(1), Ioapic(2), Other>>, 1, 2)
NoEntries == Pc(<<>>, 1, 2)
SomeMachines ==
  { Single, Pc(<<Lapic(1), Lapic(3), Ioapic(2)>>, 1, 2),
    Pc(<<Ioapic(2), Ioapic(4), Other, Lapic(3), Lapic(1)>>, 1, 2),
    Pc(<<Lapic(1), Sapic>>, 1, 2), Pc(<<Lapic(1), Other>>, 1, 2),
    NoEntries, [NoEntries EXCEPT !.acpi = "none"], [NoEntries EXCEPT !.acpi = "no_madt"],
    [Single EXCEPT !.sse = FALSE], [Single EXCEPT !.x2apic = FALSE],
    [Single EXCEPT !.efer = FALSE], [Single EXCEPT !.pic = FALSE] }
Empty == {NoEntries}
=============================================================================
