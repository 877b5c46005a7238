----------------------------- MODULE Interrupts -----------------------------
(***************************************************************************)
(* init_interrupts and init_apic of src/src/interrupts.c, and the keyboard *)
(* interrupt they set up (irq1_handler of src/src/handlers.c): what        *)
(* interrupts there can be at each step, and where they lead.              *)
(*                                                                         *)
(* A key sets the output buffer of the keyboard controller full, which the *)
(* I/O APIC signals once, at that moment, if its entry is set up by then.  *)
(* As long as the buffer is full there is no other key.                    *)
(***************************************************************************)
EXTENDS Naturals, Sequences, SequencesExt

CONSTANTS
  Machines,   \* what the kernel may run on
  ScanCodes,  \* bytes of the keyboard
  MaxKeys     \* bound on the key presses

\* An entry of the MADT, and a machine.
Entry == [type : {"lapic", "ioapic", "sapic", "other"}, id : 0 .. 255, len : Nat \ {0}]
Machine == [sse : BOOLEAN,     \* has_sse and has_sse2
            x2apic : BOOLEAN,  \* has_apic and has_x2apic
            efer : BOOLEAN,    \* has_ia32_efer
            pic : BOOLEAN,     \* FLAGS_HAS_LEGACY_PIC
            acpi : {"none", "no_madt", "madt"},  \* the tables there are
            madt : Seq(Entry),
            behind : Entry,    \* the memory behind the MADT, read as an entry
            boot : 0 .. 255,   \* the local APIC of the processor that boots
            wired : 0 .. 255]  \* the I/O APIC that the keyboard is wired to

ASSUME InterruptsAssumption ==
  /\ Machines \subseteq Machine
  /\ ScanCodes \subseteq 0 .. 255
  /\ MaxKeys \in Nat

None == 0 - 1

VARIABLES
  machine,
  pc, n, left,               \* where the boot is; loop counter; apic_data_len
  local_apic_id, io_apic_id, \* io_apic_id is None while io_apic_address is NULL
  pic_masked,
  idt,                       \* whose table is loaded: "firmware" or "kernel"
  interrupts_on,             \* the interrupt flag
  gates,                     \* the kernel's table: vector to handler, "" if not written
  destination, unmasked,     \* the keyboard's entry of the I/O APIC
  data, full,                \* the keyboard's output buffer: last byte, and if it is new
  irr,                       \* the local APIC holds the keyboard's interrupt
  handler,                   \* how far irq1_inner is: "read", "end", or "" if not running
  cpu,                       \* "run", "lost" in the firmware's table, or "halted"
  keys,                      \* history: key presses
  early                      \* history: a key was pressed while nothing could signal it

apic == <<local_apic_id, io_apic_id, pic_masked>>
routing == <<destination, unmasked>>
keyboard == <<data, full, irr, handler, keys, early>>

\* The variables only init_interrupts changes, but for pc.
tables == <<n, left, apic, idt, gates, routing>>

Vector == 0 .. 255
Irq1 == 16 * 15 + 13  \* 0xfd

Running == cpu = "run" /\ handler = ""

Init ==
  /\ machine \in Machines
  /\ pc = "cpu" /\ n = 1 /\ left = 0
  /\ local_apic_id = 0 /\ io_apic_id = None
  /\ pic_masked = FALSE
  /\ idt = "firmware" /\ interrupts_on = TRUE
  /\ gates = [v \in Vector |-> ""]
  /\ destination = 0 /\ unmasked = FALSE
  /\ data \in ScanCodes /\ full = FALSE /\ irr = FALSE /\ handler = ""
  /\ cpu = "run"
  /\ keys = 0 /\ early = FALSE

-----------------------------------------------------------------------------
\* init_apic

\* The bytes of the first k entries of a table, and of all of the MADT.
LengthUpTo(madt) ==
  LET sum[k \in 0 .. Len(madt)] == IF k = 0 THEN 0 ELSE sum[k - 1] + madt[k].len IN sum
MadtLength == LengthUpTo(machine.madt)[Len(machine.madt)]

\* find_acpi_table.  Without ACPI it follows a pointer it reads at address 24, the xsdt
\* of a table at NULL.
FindMadt ==
  /\ Running /\ pc = "apic"
  /\ \/ /\ ~machine.x2apic \/ machine.acpi # "madt"
        /\ pc' = "failed"
        /\ UNCHANGED <<left, cpu>>
     \/ /\ machine.x2apic /\ machine.acpi = "none"
        /\ cpu' = "lost"
        /\ UNCHANGED <<pc, left>>
     \/ /\ machine.x2apic /\ machine.acpi = "madt"
        /\ pc' = "madt" /\ left' = MadtLength
        /\ UNCHANGED cpu
  /\ UNCHANGED <<machine, n, apic, idt, interrupts_on, gates, routing, keyboard>>

\* One entry, the first without asking whether there is one.  The last local APIC and
\* the last I/O APIC listed remain.
ReadEntry ==
  LET e == IF n \in DOMAIN machine.madt THEN machine.madt[n] ELSE machine.behind IN
  /\ Running /\ pc = "madt"
  /\ local_apic_id' = IF e.type = "lapic" THEN e.id ELSE local_apic_id
  /\ io_apic_id' = IF e.type = "ioapic" THEN e.id ELSE io_apic_id
  /\ CASE e.type = "sapic" -> pc' = "failed" /\ UNCHANGED <<n, left>>
       [] e.type # "sapic" /\ e.len >= left -> pc' = "enable" /\ UNCHANGED <<n, left>>
       [] OTHER -> left' = left - e.len /\ n' = n + 1 /\ UNCHANGED pc
  /\ UNCHANGED <<machine, pic_masked, idt, interrupts_on, gates, routing, keyboard, cpu>>

\* disable_pic.  The PIC is set up before it is masked, with interrupts on: a timer
\* interrupt in between uses a vector of its new range, for which the firmware's table
\* has nothing.
DisablePic ==
  /\ pic_masked' = TRUE
  /\ cpu' \in {"run", "lost"}

\* The rest of init_apic, with the switch to x2APIC mode.
EnableApic ==
  /\ Running /\ pc = "enable"
  /\ IF machine.pic THEN DisablePic ELSE UNCHANGED <<pic_masked, cpu>>
  /\ pc' = "idt"
  /\ UNCHANGED <<machine, n, left, local_apic_id, io_apic_id, idt, interrupts_on, gates,
                 routing, keyboard>>

-----------------------------------------------------------------------------
\* init_interrupts

\* Mutant of LoadIdt: without cli.
LoadIdtInterruptible ==
  /\ Running /\ pc = "idt"
  /\ idt' = "kernel" /\ n' = 0 /\ pc' = "unknown"
  /\ UNCHANGED <<machine, left, apic, interrupts_on, gates, routing, keyboard, cpu>>

\* The page for the table may not be had.
LoadIdt ==
  /\ Running /\ pc = "idt"
  /\ \/ /\ interrupts_on' = FALSE
        /\ idt' = "kernel"
        /\ n' = 0
        /\ pc' = "unknown"
     \/ /\ pc' = "failed"
        /\ UNCHANGED <<interrupts_on, idt, n>>
  /\ UNCHANGED <<machine, left, apic, gates, routing, keyboard, cpu>>

\* unknown_handler and the others like it print a few characters and halt.
UnknownHandler == cpu' = "halted"

SetInterrupt(vector, to) == gates' = [gates EXCEPT ![vector] = to]

\* The loops: idt.limit / sizeof(struct idt_descriptor) is 255, for 256 vectors.
SetUnknown ==
  /\ Running /\ pc = "unknown"
  /\ SetInterrupt(n, "unknown")
  /\ IF n + 1 < 255 THEN n' = n + 1 /\ UNCHANGED pc
                    ELSE n' = 32 /\ pc' = "software"
  /\ UNCHANGED <<machine, left, apic, idt, interrupts_on, routing, keyboard, cpu>>

SetUnknownSoftware ==
  /\ Running /\ pc = "software"
  /\ SetInterrupt(n, "unknown_software")
  /\ IF n + 1 < 130 THEN n' = n + 1 /\ UNCHANGED pc
                    ELSE n' = 1 /\ pc' = "named"
  /\ UNCHANGED <<machine, left, apic, idt, interrupts_on, routing, keyboard, cpu>>

\* The handlers with a name of their own, in the order they are set.
Named == <<
  <<8, "df">>, <<13, "gp">>, <<14, "pf">>, <<6, "ud">>, <<Irq1, "irq1">>,
  <<32, "int32">>, <<33, "int33">>, <<34, "int34">>, <<35, "int35">>,
  <<36, "int36">>, <<37, "int37">>, <<38, "int38">>, <<39, "int39">> >>

SetNamed ==
  /\ Running /\ pc = "named" /\ n \in DOMAIN Named
  /\ SetInterrupt(Named[n][1], Named[n][2])
  /\ n' = n + 1
  /\ pc' = IF Named[n][1] = Irq1 THEN "destination" ELSE "named"
  /\ UNCHANGED <<machine, left, apic, idt, interrupts_on, routing, keyboard, cpu>>

\* Mutant of SetDestination: the entry keeps the destination it has.
SetDestinationNot ==
  /\ Running /\ pc = "destination"
  /\ pc' = "unmask"
  /\ UNCHANGED <<machine, tables, interrupts_on, keyboard, cpu>>

\* ioapic_setup: the upper half of the entry, then the lower one.  Without an I/O APIC
\* it writes to addresses 0 and 16, which fault or are memory.
SetDestination ==
  /\ Running /\ pc = "destination"
  /\ \/ /\ destination' = IF io_apic_id = None THEN destination ELSE local_apic_id
        /\ pc' = "unmask"
        /\ UNCHANGED cpu
     \/ /\ io_apic_id = None
        /\ UnknownHandler
        /\ UNCHANGED <<destination, pc>>
  /\ UNCHANGED <<machine, n, left, apic, idt, interrupts_on, gates, unmasked, keyboard>>

Unmask ==
  /\ Running /\ pc = "unmask"
  /\ unmasked' = (io_apic_id # None)
  /\ pc' = "named"
  /\ UNCHANGED <<machine, n, left, apic, idt, interrupts_on, gates, destination, keyboard, cpu>>

Sti ==
  /\ Running /\ pc = "named" /\ n \notin DOMAIN Named
  /\ interrupts_on' = TRUE
  /\ pc' = "gdt"
  /\ UNCHANGED <<machine, tables, keyboard, cpu>>

InitInterrupts ==
  \/ FindMadt \/ ReadEntry \/ EnableApic
  \/ LoadIdt \/ SetUnknown \/ SetUnknownSoftware \/ SetNamed \/ SetDestination \/ Unmask \/ Sti

-----------------------------------------------------------------------------
\* The keyboard

\* The keyboard's interrupt reaches the processor that boots.
Signalled == unmasked /\ io_apic_id = machine.wired /\ destination = machine.boot

PressKey ==
  /\ keys < MaxKeys /\ ~full
  /\ keys' = keys + 1
  /\ \E byte \in ScanCodes : data' = byte
  /\ full' = TRUE
  /\ irr' = (irr \/ Signalled)
  /\ early' = (early \/ ~unmasked)
  /\ UNCHANGED <<machine, pc, tables, interrupts_on, handler, cpu>>

Interrupt ==
  /\ cpu = "run" /\ interrupts_on /\ idt = "kernel" /\ irr
  /\ irr' = FALSE
  /\ interrupts_on' = FALSE
  /\ IF gates[Irq1] = "irq1"
     THEN handler' = "read" /\ UNCHANGED cpu
     ELSE UnknownHandler /\ UNCHANGED handler
  /\ UNCHANGED <<machine, pc, tables, data, full, keys, early>>

\* Mutant of ReadKey: it waits for a byte that is not 0 and that was not read before.
ReadKeyFresh ==
  /\ cpu = "run" /\ handler = "read" /\ full
  /\ full' = FALSE
  /\ handler' = IF data = 0 THEN "read" ELSE "end"
  /\ UNCHANGED <<machine, pc, tables, interrupts_on, data, irr, cpu, keys, early>>

\* irq1_inner reads until the byte is not 0; one that was read before is read again.
ReadKey ==
  /\ cpu = "run" /\ handler = "read"
  /\ full' = FALSE
  /\ handler' = IF data = 0 THEN "read" ELSE "end"
  /\ UNCHANGED <<machine, pc, tables, interrupts_on, data, irr, cpu, keys, early>>

\* Mutant of EndOfInterrupt: without iretq's flags.
EndOfInterruptMasked ==
  /\ cpu = "run" /\ handler = "end"
  /\ handler' = ""
  /\ UNCHANGED <<machine, pc, tables, interrupts_on, data, full, irr, cpu, keys, early>>

\* The print of the code, the end of the interrupt, and iretq.
EndOfInterrupt ==
  /\ cpu = "run" /\ handler = "end"
  /\ handler' = ""
  /\ interrupts_on' = TRUE
  /\ UNCHANGED <<machine, pc, tables, data, full, irr, cpu, keys, early>>

Keyboard == PressKey \/ Interrupt \/ ReadKey \/ EndOfInterrupt
=============================================================================
