-------------------------------- MODULE Boot --------------------------------
(***************************************************************************)
(* From efi_main of src/src/main.c to ExitBootServices: the features the   *)
(* kernel asks for, its interrupts (Interrupts), then the memory map that  *)
(* efi_memory_map of src/src/uefi.c takes from a firmware whose map any    *)
(* allocation changes, and any timer event of its own.                     *)
(***************************************************************************)
EXTENDS Interrupts

CONSTANTS
  TRIES,     \* of efi_memory_map: 32
  MapSizes   \* numbers of descriptors the memory map may have

ASSUME BootAssumption ==
  /\ TRIES \in Nat
  /\ MapSizes \subseteq Nat \ {0}

VARIABLES
  needed, current,      \* descriptors of the firmware's map; map_key is the key of it
  buffer, buffer_size,  \* descriptors there is room for (None: no buffer), and asked for
  tries,                \* i of efi_memory_map
  status,               \* "success" or "too_small"
  descr_size_known,     \* the firmware has filled in descr_size, which was 0
  entries

map == <<needed, current, buffer, buffer_size, tries, status, descr_size_known, entries>>
vars == <<machine, pc, tables, interrupts_on, keyboard, cpu, map>>

\* What init_memory starts with; a buffer of 1 byte has room for no descriptor.
BootInit ==
  /\ Init
  /\ needed \in MapSizes /\ current = FALSE
  /\ buffer = None /\ buffer_size = 0
  /\ tries = 0
  /\ status = "success"
  /\ descr_size_known = FALSE
  /\ entries = 0

InitCpu ==
  /\ Running /\ pc = "cpu"
  /\ pc' = IF machine.sse THEN "graphics" ELSE "failed"
  /\ UNCHANGED <<machine, tables, interrupts_on, keyboard, cpu, map>>

\* In detail in Graphics.
InitGraphics ==
  /\ Running /\ pc = "graphics"
  /\ pc' \in {"apic", "failed"}
  /\ UNCHANGED <<machine, tables, interrupts_on, keyboard, cpu, map>>

\* init_gdt turns interrupts off and on, and loads cs by an INT 32, which only returns.
InitGdt ==
  /\ Running /\ pc = "gdt"
  /\ interrupts_on' = TRUE
  /\ IF gates[32] = "int32"
     THEN pc' = "paging" /\ UNCHANGED cpu
     ELSE UnknownHandler /\ UNCHANGED pc
  /\ UNCHANGED <<machine, tables, keyboard, map>>

SetupPaging ==
  /\ Running /\ pc = "paging"
  /\ pc' = IF machine.efer THEN "realloc" ELSE "failed"
  /\ UNCHANGED <<machine, tables, interrupts_on, keyboard, cpu, map>>

\* Mutant of ReallocBuffer: one time more.
ReallocBufferOnceMore ==
  /\ Running /\ pc = "realloc" /\ tries <= TRIES
  /\ needed' \in MapSizes /\ current' = FALSE
  /\ \/ buffer' = buffer_size /\ pc' = "get"
     \/ buffer' = None /\ pc' = "mapped"
  /\ UNCHANGED <<machine, tables, interrupts_on, keyboard, cpu>>
  /\ UNCHANGED <<buffer_size, tries, status, descr_size_known, entries>>

\* efi_realloc_buffer frees the buffer and allocates another one, if there is memory:
\* both change the map.
ReallocBuffer ==
  /\ Running /\ pc = "realloc" /\ tries < TRIES
  /\ needed' \in MapSizes /\ current' = FALSE
  /\ \/ buffer' = buffer_size /\ pc' = "get"
     \/ buffer' = None /\ pc' = "mapped"
  /\ UNCHANGED <<machine, tables, interrupts_on, keyboard, cpu>>
  /\ UNCHANGED <<buffer_size, tries, status, descr_size_known, entries>>

GiveUp ==
  /\ Running /\ pc = "realloc" /\ tries = TRIES
  /\ pc' = "mapped"
  /\ UNCHANGED <<machine, tables, interrupts_on, keyboard, cpu, map>>

\* Mutant of GetMemoryMap: a buffer that is too small is noticed, but not reported.
GetMemoryMapSilent ==
  /\ Running /\ pc = "get"
  /\ descr_size_known' = TRUE
  /\ buffer_size' = needed
  /\ IF needed <= buffer
     THEN pc' = "mapped" /\ current' = TRUE /\ UNCHANGED <<status, tries>>
     ELSE pc' = "realloc" /\ tries' = tries + 1 /\ UNCHANGED <<status, current>>
  /\ UNCHANGED <<machine, tables, interrupts_on, keyboard, cpu, needed, buffer, entries>>

\* The firmware fills in the buffer, or says how large it should be.
GetMemoryMap ==
  /\ Running /\ pc = "get"
  /\ descr_size_known' = TRUE
  /\ buffer_size' = needed
  /\ IF needed <= buffer
     THEN /\ status' = "success" /\ current' = TRUE
          /\ pc' = "mapped"
          /\ UNCHANGED tries
     ELSE /\ status' = "too_small"
          /\ tries' = tries + 1
          /\ pc' = "realloc"
          /\ UNCHANGED current
  /\ UNCHANGED <<machine, tables, interrupts_on, keyboard, cpu, needed, buffer, entries>>

\* The rest of efi_memory_map.  The status is that of the last GetMemoryMap, and success
\* if even the first buffer could not be had: then it divides by 0.
CountEntries ==
  /\ Running /\ pc = "mapped"
  /\ IF status # "success"
     THEN pc' = "failed" /\ UNCHANGED <<cpu, entries>>
     ELSE IF descr_size_known
          THEN pc' = "exit" /\ entries' = buffer_size /\ UNCHANGED cpu
          ELSE UnknownHandler /\ UNCHANGED <<pc, entries>>
  /\ UNCHANGED <<machine, tables, interrupts_on, keyboard>>
  /\ UNCHANGED <<needed, current, buffer, buffer_size, tries, status, descr_size_known>>

\* Once: the firmware refuses if the map is no longer the one the key is of.
ExitBootServices ==
  /\ Running /\ pc = "exit"
  /\ pc' = IF current THEN "done" ELSE "failed"
  /\ UNCHANGED <<machine, tables, interrupts_on, keyboard, cpu, map>>

\* A timer event: the firmware polls the keyboard, and may allocate.
FirmwareTick ==
  /\ cpu = "run" /\ idt = "firmware" /\ interrupts_on /\ ~pic_masked
  /\ needed' \in MapSizes /\ current' = FALSE
  /\ full' = FALSE
  /\ UNCHANGED <<machine, pc, tables, interrupts_on, cpu, data, irr, handler, keys, early>>
  /\ UNCHANGED <<buffer, buffer_size, tries, status, descr_size_known, entries>>

InitMemory ==
  InitGdt \/ SetupPaging \/ ReallocBuffer \/ GiveUp \/ GetMemoryMap \/ CountEntries \/ ExitBootServices

Processor ==
  \/ InitCpu \/ InitGraphics \/ InitMemory
  \/ (InitInterrupts \/ Interrupt \/ ReadKey \/ EndOfInterrupt) /\ UNCHANGED map

Next ==
  \/ Processor
  \/ PressKey /\ UNCHANGED map
  \/ FirmwareTick

\* The processor goes on; nobody has to press a key.
Spec == BootInit /\ [][Next]_vars /\ WF_vars(Processor)

-----------------------------------------------------------------------------

TypeOK ==
  /\ machine \in Machines
  /\ pc \in {"cpu", "graphics", "apic", "madt", "enable", "idt", "unknown", "software",
             "named", "destination", "unmask", "gdt", "paging", "realloc", "get",
             "mapped", "exit", "done", "failed"}
  /\ n \in Nat /\ left \in Nat
  /\ {local_apic_id, destination} \subseteq Vector /\ io_apic_id \in Vector \cup {None}
  /\ {pic_masked, interrupts_on, unmasked, full, irr, early} \subseteq BOOLEAN
  /\ idt \in {"firmware", "kernel"}
  /\ DOMAIN gates = Vector
  /\ data \in ScanCodes
  /\ handler \in {"", "read", "end"}
  /\ cpu \in {"run", "lost", "halted"}
  /\ keys \in 0 .. MaxKeys
  /\ needed \in MapSizes
  /\ {current, descr_size_known} \subseteq BOOLEAN
  /\ buffer \in MapSizes \cup {0, None} /\ buffer_size \in MapSizes \cup {0}
  /\ tries \in 0 .. TRIES
  /\ status \in {"success", "too_small"}
  /\ entries \in MapSizes \cup {0}

\* acpi.h:35, "The length implies the number of Entry fields (n) at the end of the
\* table": the walk through the MADT reads no other.
WalkStaysInMadt == pc = "madt" => n \in 1 .. Len(machine.madt)

\* The handler a vector is to have, by interrupts.c:64-102; of 255 vectors.
Documented(v) ==
  IF \E k \in DOMAIN Named : Named[k][1] = v
  THEN Named[CHOOSE k \in DOMAIN Named : Named[k][1] = v][2]
  ELSE IF v \in 32 .. 129 THEN "unknown_software" ELSE "unknown"

\* Whenever an interrupt may come that the kernel's table has to serve, the whole of
\* it is in place but the vector 255, which is never written (interrupts.c:57-104,
\* memory.c:440-473).
InterruptsFindHandlers ==
  idt = "kernel" /\ (interrupts_on \/ handler # "") =>
    \A v \in Vector \ {255} : gates[v] = Documented(v)

\* interrupts.c:64, "Set all interrupts to unknown handler first".
AllVectorsSet ==
  idt = "kernel" /\ interrupts_on => \A v \in Vector : gates[v] # ""

\* The last entry of a type.
LastId(type) ==
  LET listed == {k \in DOMAIN machine.madt : machine.madt[k].type = type} IN
  IF listed = {} THEN None ELSE machine.madt[Max(listed)].id

\* The MADT lists the processor that boots and the keyboard's I/O APIC last.
ListedLast == LastId("lapic") = machine.boot /\ LastId("ioapic") = machine.wired

\* On such a machine, unless a key was pressed before the I/O APIC's entry was set up,
\* a key that waits in the keyboard is one the processor is about to be told of: the
\* keyboard never falls silent (interrupts.c:127-137, 192-203; handlers.c:306-318).
KeyNotForgotten ==
  ListedLast /\ ~early /\ full => irr \/ handler = "read"

\* Boot services are left, and never refused to be left, with the map that is current,
\* complete, in its buffer: although there is one attempt only, nothing can have
\* changed it since, as the firmware's timer is cut off (memory.c:48-60, uefi.c:37-50).
ExitsWithCurrentMap ==
  pc \in {"exit", "done"} => current /\ entries = needed /\ needed <= buffer

\* Every key pressed is read, on the same conditions, unless the boot stops before.
KeysRead ==
  (ListedLast /\ ~early /\ full) ~> (~full \/ cpu # "run")

\* irq1_inner waits for a byte that is not 0, with interrupts off.
WaitsOnZero == handler = "read" /\ data = 0 /\ ~full

\* The boot ends, one way or another, whatever keys are pressed; a keyboard that sent 0
\* holds it up until it sends something else.
BootEnds == []<>(pc \in {"done", "failed"} \/ cpu # "run" \/ WaitsOnZero)
=============================================================================
