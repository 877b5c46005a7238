----------------------------- MODULE BootProofs -----------------------------
(***************************************************************************)
(* For all machines, keyboards, sizes of the memory map and numbers of     *)
(* tries: boot services are left with the map that is current, the table   *)
(* of interrupts is complete when it is needed, and no key is forgotten on *)
(* a machine whose MADT lists the right processor and I/O APIC last.       *)
(***************************************************************************)
EXTENDS Boot, WellFoundedInduction, TLAPS

\* Where the kernel's table is loaded, and where the memory map has been taken or given up.
WithKernelTable ==
  {"unknown", "software", "named", "destination", "unmask", "gdt", "paging",
   "realloc", "get", "mapped", "exit", "done"}
MapTaken == {"mapped", "exit", "done", "failed"}

\* The firmware is cut off by then; success is reported only by a GetMemoryMap, which also
\* fills in descr_size, or before the first of them; and nothing happens to the map
\* between the last one and ExitBootServices.
IInv ==
  /\ pc \in WithKernelTable => idt = "kernel"
  /\ pc \notin MapTaken => (status = "success" => descr_size_known = FALSE)
  /\ pc = "mapped" /\ status = "success" /\ descr_size_known =>
       current /\ buffer_size = needed /\ needed <= buffer
  /\ ExitsWithCurrentMap

\* The initial states satisfy the invariant.
LEMMA InitInvariant == BootInit => IInv
BY DEF BootInit, Init, IInv, WithKernelTable, ExitsWithCurrentMap

\* No step of init_interrupts comes after the memory map was taken.
LEMMA InterruptsKeepInvariant ==
  ASSUME IInv, InitInterrupts, UNCHANGED map
  PROVE  IInv'
<1>1. CASE FindMadt
  <2>1. pc = "apic" /\ pc' \in {"failed", "apic", "madt"} /\ idt' = idt
    BY <1>1 DEF FindMadt
  <2> QED BY <2>1 DEF IInv, map, WithKernelTable, MapTaken, ExitsWithCurrentMap
<1>2. CASE ReadEntry
  <2>1. pc = "madt" /\ pc' \in {"failed", "enable", "madt"} /\ idt' = idt
    BY <1>2 DEF ReadEntry
  <2> QED BY <2>1 DEF IInv, map, WithKernelTable, MapTaken, ExitsWithCurrentMap
<1>3. CASE EnableApic
  BY <1>3 DEF EnableApic, IInv, map, WithKernelTable, MapTaken, ExitsWithCurrentMap
<1>4. CASE LoadIdt
  BY <1>4 DEF LoadIdt, IInv, map, WithKernelTable, MapTaken, ExitsWithCurrentMap
<1>5. CASE SetUnknown
  <2>1. pc = "unknown" /\ pc' \in {"unknown", "software"} /\ idt' = idt
    BY <1>5 DEF SetUnknown
  <2> QED BY <2>1 DEF IInv, map, WithKernelTable, MapTaken, ExitsWithCurrentMap
<1>6. CASE SetUnknownSoftware
  <2>1. pc = "software" /\ pc' \in {"software", "named"} /\ idt' = idt
    BY <1>6 DEF SetUnknownSoftware
  <2> QED BY <2>1 DEF IInv, map, WithKernelTable, MapTaken, ExitsWithCurrentMap
<1>7. CASE SetNamed
  <2>1. pc = "named" /\ pc' \in {"named", "destination"} /\ idt' = idt
    BY <1>7 DEF SetNamed
  <2> QED BY <2>1 DEF IInv, map, WithKernelTable, MapTaken, ExitsWithCurrentMap
<1>8. CASE SetDestination
  <2>1. pc = "destination" /\ pc' \in {"destination", "unmask"} /\ idt' = idt
    BY <1>8 DEF SetDestination
  <2> QED BY <2>1 DEF IInv, map, WithKernelTable, MapTaken, ExitsWithCurrentMap
<1>9. CASE Unmask
  BY <1>9 DEF Unmask, IInv, map, WithKernelTable, MapTaken, ExitsWithCurrentMap
<1>10. CASE Sti
  BY <1>10 DEF Sti, tables, IInv, map, WithKernelTable, MapTaken, ExitsWithCurrentMap
<1> QED BY <1>1, <1>2, <1>3, <1>4, <1>5, <1>6, <1>7, <1>8, <1>9, <1>10 DEF InitInterrupts

\* Every step keeps the invariant.
LEMMA StepInvariant == IInv /\ [Next]_vars => IInv'
<1> SUFFICES ASSUME IInv, [Next]_vars PROVE IInv'
  OBVIOUS
<1> USE DEF IInv, WithKernelTable, MapTaken, ExitsWithCurrentMap
<1>1. CASE InitCpu
  BY <1>1 DEF InitCpu, tables, map
<1>2. CASE InitGraphics
  BY <1>2 DEF InitGraphics, tables, map
<1>3. CASE InitGdt
  BY <1>3 DEF InitGdt, UnknownHandler, tables, map
<1>4. CASE SetupPaging
  BY <1>4 DEF SetupPaging, tables, map
<1>5. CASE ReallocBuffer
  BY <1>5 DEF ReallocBuffer, tables
<1>6. CASE GiveUp
  BY <1>6 DEF GiveUp, tables, map
<1>7. CASE GetMemoryMap
  BY <1>7 DEF GetMemoryMap, tables
<1>8. CASE CountEntries
  BY <1>8 DEF CountEntries, UnknownHandler, tables
<1>9. CASE ExitBootServices
  BY <1>9 DEF ExitBootServices, tables, map
<1>10. CASE InitInterrupts /\ UNCHANGED map
  BY <1>10, InterruptsKeepInvariant
<1>11. CASE (Interrupt \/ ReadKey \/ EndOfInterrupt \/ PressKey) /\ UNCHANGED map
  BY <1>11 DEF Interrupt, ReadKey, EndOfInterrupt, PressKey, tables, map
<1>12. CASE FirmwareTick
  BY <1>12 DEF FirmwareTick, tables
<1>13. CASE UNCHANGED vars
  BY <1>13 DEF vars, tables, map
<1> QED BY <1>1, <1>2, <1>3, <1>4, <1>5, <1>6, <1>7, <1>8, <1>9, <1>10, <1>11, <1>12, <1>13
        DEF Next, Processor, InitMemory

\* ExitBootServices is never refused and the map the kernel keeps is the firmware's last
\* one: the buffer was large enough, and nothing changed the map since (uefi.c:37-50,
\* memory.c:48-60).
THEOREM MapStaysCurrent == Spec => []ExitsWithCurrentMap
<1>1. IInv => ExitsWithCurrentMap
  BY DEF IInv
<1> QED BY InitInvariant, StepInvariant, <1>1, PTL DEF Spec

-----------------------------------------------------------------------------
(* The interrupt table *)

\* What SetUnknown and SetUnknownSoftware leave in a vector below 255.
Plain(v) == IF v \in 32 .. 129 THEN "unknown_software" ELSE "unknown"

\* The vectors before n have the handler that SetUnknown gives them; all but 255 have it,
\* or the one of SetUnknownSoftware from 32 to n - 1; and those of the first n - 1 entries
\* of Named the one they are to have in the end.
UnknownUpTo(g, m) == \A v \in 0 .. m - 1 : g[v] = "unknown"
SoftwareUpTo(g, m) ==
  \A v \in 0 .. 254 : g[v] = IF v \in 32 .. m - 1 THEN "unknown_software" ELSE "unknown"
NamedUpTo(g, m) ==
  \A v \in 0 .. 254 :
    g[v] = IF \E k \in 1 .. 13 : Named[k][1] = v /\ k >= m THEN Plain(v) ELSE Documented(v)
Complete(g) == \A v \in 0 .. 254 : g[v] = Documented(v)

Filling == {"unknown", "software", "named", "destination", "unmask"}

\* The table, as far as it is filled in.
GInv ==
  /\ DOMAIN gates = Vector
  /\ pc = "unknown" => n \in 0 .. 254 /\ UnknownUpTo(gates, n)
  /\ pc = "software" => n \in 32 .. 129 /\ SoftwareUpTo(gates, n)
  /\ pc \in {"named", "destination", "unmask"} => n \in 1 .. 14 /\ NamedUpTo(gates, n)
  /\ idt = "kernel" /\ pc \notin Filling => Complete(gates)

\* Interrupts are off for as long, and their handler does not run.
QInv == pc \in Filling => ~interrupts_on /\ handler = ""

\* The named vectors are 13, different from each other, and none is 255.
LEMMA NamedVectors ==
  /\ DOMAIN Named = 1 .. 13
  /\ \A k \in 1 .. 13 : Named[k][1] \in 0 .. 254
  /\ \A k, l \in 1 .. 13 : Named[k][1] = Named[l][1] => k = l
BY DEF Named, Irq1

\* What is documented of a vector, by the place of its name.
LEMMA DocumentedNamed == \A k \in 1 .. 13 : Documented(Named[k][1]) = Named[k][2]
BY NamedVectors DEF Documented

LEMMA DocumentedUnnamed ==
  \A v \in 0 .. 254 :
    (\A k \in 1 .. 13 : Named[k][1] # v) => Documented(v) = Plain(v)
BY NamedVectors DEF Documented, Plain

\* One step of each of the three parts, and the way from one to the next.
LEMMA FillUnknown ==
  ASSUME NEW g, NEW m \in 0 .. 254, DOMAIN g = Vector, UnknownUpTo(g, m)
  PROVE  UnknownUpTo([g EXCEPT ![m] = "unknown"], m + 1)
BY DEF UnknownUpTo, Vector

LEMMA UnknownFilled ==
  ASSUME NEW g, UnknownUpTo(g, 255)
  PROVE  SoftwareUpTo(g, 32)
BY DEF UnknownUpTo, SoftwareUpTo

LEMMA FillSoftware ==
  ASSUME NEW g, NEW m \in 32 .. 129, DOMAIN g = Vector, SoftwareUpTo(g, m)
  PROVE  SoftwareUpTo([g EXCEPT ![m] = "unknown_software"], m + 1)
BY DEF SoftwareUpTo, Vector

LEMMA SoftwareFilled ==
  ASSUME NEW g, SoftwareUpTo(g, 130)
  PROVE  NamedUpTo(g, 1)
<1> SUFFICES ASSUME NEW v \in 0 .. 254
             PROVE  g[v] = IF \E k \in 1 .. 13 : Named[k][1] = v /\ k >= 1
                           THEN Plain(v) ELSE Documented(v)
  BY DEF NamedUpTo
<1>1. g[v] = Plain(v)
  BY DEF SoftwareUpTo, Plain
<1>2. CASE \E k \in 1 .. 13 : Named[k][1] = v
  BY <1>1, <1>2
<1>3. CASE ~ \E k \in 1 .. 13 : Named[k][1] = v
  BY <1>1, <1>3, DocumentedUnnamed
<1> QED BY <1>2, <1>3

LEMMA FillNamed ==
  ASSUME NEW g, NEW m \in 1 .. 13, DOMAIN g = Vector, NamedUpTo(g, m)
  PROVE  NamedUpTo([g EXCEPT ![Named[m][1]] = Named[m][2]], m + 1)
<1> DEFINE h == [g EXCEPT ![Named[m][1]] = Named[m][2]]
<1> SUFFICES ASSUME NEW v \in 0 .. 254
             PROVE  h[v] = IF \E k \in 1 .. 13 : Named[k][1] = v /\ k >= m + 1
                           THEN Plain(v) ELSE Documented(v)
  BY DEF NamedUpTo
<1>1. CASE v = Named[m][1]
  <2>1. h[v] = Documented(v)
    BY <1>1, DocumentedNamed DEF Vector
  <2>2. ~ \E k \in 1 .. 13 : Named[k][1] = v /\ k >= m + 1
    BY <1>1, NamedVectors
  <2> QED BY <2>1, <2>2
<1>2. CASE v # Named[m][1]
  <2>1. h[v] = g[v]
    BY <1>2 DEF Vector
  <2>2. (\E k \in 1 .. 13 : Named[k][1] = v /\ k >= m + 1)
          <=> (\E k \in 1 .. 13 : Named[k][1] = v /\ k >= m)
    BY <1>2
  <2> QED BY <2>1, <2>2 DEF NamedUpTo
<1> QED BY <1>1, <1>2

LEMMA NamedFilled ==
  ASSUME NEW g, NamedUpTo(g, 14)
  PROVE  Complete(g)
BY DEF NamedUpTo, Complete

\* The initial states satisfy the invariants.
LEMMA InitTable == BootInit => GInv /\ QInv
BY DEF BootInit, Init, GInv, QInv, Filling

\* A step that leaves the table, and the place in it, alone.
LEMMA ElsewhereKeepsTable ==
  ASSUME GInv, UNCHANGED <<gates, idt, n>>,
         pc \in Filling => pc' = pc,
         pc' \in Filling => pc \in Filling
  PROVE  GInv'
BY DEF GInv, Filling

\* Every step of init_interrupts keeps it.
LEMMA InterruptsKeepTable ==
  ASSUME GInv, InitInterrupts
  PROVE  GInv'
<1>1. CASE FindMadt
  <2>1. /\ pc = "apic" /\ pc' \in {"failed", "apic", "madt"}
        /\ UNCHANGED <<gates, idt, n>>
    BY <1>1 DEF FindMadt
  <2> QED BY <2>1, ElsewhereKeepsTable DEF Filling
<1>2. CASE ReadEntry
  <2>1. /\ pc = "madt" /\ pc' \in {"failed", "enable", "madt"}
        /\ UNCHANGED <<idt, gates>>
    BY <1>2 DEF ReadEntry
  <2> QED BY <2>1 DEF GInv, Filling
<1>3. CASE EnableApic
  BY <1>3, ElsewhereKeepsTable DEF EnableApic, Filling
<1>4. CASE LoadIdt
  <2>1. /\ pc = "idt" /\ gates' = gates
        /\ \/ idt' = "kernel" /\ n' = 0 /\ pc' = "unknown"
           \/ pc' = "failed" /\ UNCHANGED <<idt, n>>
    BY <1>4 DEF LoadIdt
  <2>2. UnknownUpTo(gates, 0)
    BY DEF UnknownUpTo
  <2> QED BY <2>1, <2>2 DEF GInv, Filling
<1>5. CASE SetUnknown
  <2>0. /\ n \in 0 .. 254 /\ DOMAIN gates = Vector /\ UnknownUpTo(gates, n)
        /\ gates' = [gates EXCEPT ![n] = "unknown"]
    BY <1>5 DEF SetUnknown, SetInterrupt, GInv
  <2>1. \/ n + 1 < 255 /\ n' = n + 1 /\ pc' = "unknown"
        \/ n + 1 = 255 /\ n' = 32 /\ pc' = "software"
    BY <2>0, <1>5 DEF SetUnknown
  <2>2. DOMAIN gates' = Vector /\ UnknownUpTo(gates', n + 1)
    BY <2>0, FillUnknown
  <2>3. n + 1 = 255 => SoftwareUpTo(gates', 32)
    BY <2>2, UnknownFilled
  <2> QED BY <2>0, <2>1, <2>2, <2>3 DEF GInv, Filling
<1>6. CASE SetUnknownSoftware
  <2>0. /\ n \in 32 .. 129 /\ DOMAIN gates = Vector /\ SoftwareUpTo(gates, n)
        /\ gates' = [gates EXCEPT ![n] = "unknown_software"]
    BY <1>6 DEF SetUnknownSoftware, SetInterrupt, GInv
  <2>1. \/ n + 1 < 130 /\ n' = n + 1 /\ pc' = "software"
        \/ n + 1 = 130 /\ n' = 1 /\ pc' = "named"
    BY <2>0, <1>6 DEF SetUnknownSoftware
  <2>2. DOMAIN gates' = Vector /\ SoftwareUpTo(gates', n + 1)
    BY <2>0, FillSoftware
  <2>3. n + 1 = 130 => NamedUpTo(gates', 1)
    BY <2>2, SoftwareFilled
  <2> QED BY <2>0, <2>1, <2>2, <2>3 DEF GInv, Filling
<1>7. CASE SetNamed
  <2>1. /\ n \in 1 .. 13 /\ DOMAIN gates = Vector /\ NamedUpTo(gates, n)
        /\ gates' = [gates EXCEPT ![Named[n][1]] = Named[n][2]]
        /\ n' = n + 1 /\ pc' \in {"named", "destination"}
    BY <1>7, NamedVectors DEF SetNamed, SetInterrupt, GInv
  <2>2. DOMAIN gates' = Vector /\ NamedUpTo(gates', n + 1)
    BY <2>1, FillNamed
  <2> QED BY <2>1, <2>2 DEF GInv, Filling
<1>8. CASE SetDestination
  <2>1. /\ pc = "destination" /\ pc' \in {"destination", "unmask"}
        /\ UNCHANGED <<gates, idt, n>>
    BY <1>8 DEF SetDestination
  <2> QED BY <2>1 DEF GInv, Filling
<1>9. CASE Unmask
  BY <1>9 DEF Unmask, GInv, Filling
<1>10. CASE Sti
  <2>1. n \in 1 .. 14 /\ n \notin 1 .. 13 /\ NamedUpTo(gates, n)
    BY <1>10, NamedVectors DEF Sti, GInv
  <2>2. Complete(gates)
    BY <2>1, NamedFilled
  <2> QED BY <1>10, <2>2 DEF Sti, tables, GInv, Filling
<1> QED BY <1>1, <1>2, <1>3, <1>4, <1>5, <1>6, <1>7, <1>8, <1>9, <1>10 DEF InitInterrupts

\* And so does every other step.
LEMMA StepTable == GInv /\ [Next]_vars => GInv'
<1> SUFFICES ASSUME GInv, [Next]_vars PROVE GInv'
  OBVIOUS
<1> USE DEF Filling, tables
<1>1. CASE InitCpu
  BY <1>1, ElsewhereKeepsTable DEF InitCpu
<1>2. CASE InitGraphics
  BY <1>2, ElsewhereKeepsTable DEF InitGraphics
<1>3. CASE InitGdt
  BY <1>3, ElsewhereKeepsTable DEF InitGdt
<1>4. CASE SetupPaging
  BY <1>4, ElsewhereKeepsTable DEF SetupPaging
<1>5. CASE ReallocBuffer
  BY <1>5, ElsewhereKeepsTable DEF ReallocBuffer
<1>6. CASE GiveUp
  BY <1>6, ElsewhereKeepsTable DEF GiveUp
<1>7. CASE GetMemoryMap
  BY <1>7, ElsewhereKeepsTable DEF GetMemoryMap
<1>8. CASE CountEntries
  BY <1>8, ElsewhereKeepsTable DEF CountEntries
<1>9. CASE ExitBootServices
  BY <1>9, ElsewhereKeepsTable DEF ExitBootServices
<1>10. CASE InitInterrupts
  BY <1>10, InterruptsKeepTable
<1>11. CASE Interrupt \/ ReadKey \/ EndOfInterrupt \/ PressKey
  BY <1>11, ElsewhereKeepsTable DEF Interrupt, ReadKey, EndOfInterrupt, PressKey
<1>12. CASE FirmwareTick
  BY <1>12, ElsewhereKeepsTable DEF FirmwareTick
<1>13. CASE UNCHANGED vars
  BY <1>13, ElsewhereKeepsTable DEF vars
<1> QED BY <1>1, <1>2, <1>3, <1>4, <1>5, <1>6, <1>7, <1>8, <1>9, <1>10, <1>11, <1>12, <1>13
        DEF Next, Processor, InitMemory

\* While the table is filled in nothing turns interrupts on.
LEMMA StepQuiet == QInv /\ [Next]_vars => QInv'
<1> SUFFICES ASSUME QInv, [Next]_vars PROVE QInv'
  OBVIOUS
<1> USE DEF QInv, Filling, tables, keyboard
<1>1. CASE InitCpu \/ InitGraphics \/ InitMemory
  BY <1>1 DEF InitCpu, InitGraphics, InitMemory, InitGdt, SetupPaging, ReallocBuffer,
              GiveUp, GetMemoryMap, CountEntries, ExitBootServices
<1>2. CASE FindMadt \/ ReadEntry \/ EnableApic
  <2>1. pc' \in {"apic", "madt", "failed", "enable", "idt"}
    BY <1>2 DEF FindMadt, ReadEntry, EnableApic
  <2> QED BY <2>1
<1>3. CASE LoadIdt
  BY <1>3 DEF LoadIdt, Running
<1>4. CASE SetUnknown \/ SetUnknownSoftware \/ SetNamed \/ SetDestination \/ Unmask
  <2>1. pc \in Filling /\ UNCHANGED <<interrupts_on, handler>>
    BY <1>4 DEF SetUnknown, SetUnknownSoftware, SetNamed, SetDestination, Unmask
  <2> QED BY <2>1
<1>5. CASE Sti
  BY <1>5 DEF Sti
<1>6. CASE Interrupt
  BY <1>6 DEF Interrupt
<1>7. CASE ReadKey \/ EndOfInterrupt
  BY <1>7 DEF ReadKey, EndOfInterrupt
<1>8. CASE PressKey
  BY <1>8 DEF PressKey
<1>9. CASE FirmwareTick
  BY <1>9 DEF FirmwareTick
<1>10. CASE UNCHANGED vars
  BY <1>10 DEF vars
<1> QED BY <1>1, <1>2, <1>3, <1>4, <1>5, <1>6, <1>7, <1>8, <1>9, <1>10
        DEF Next, Processor, InitInterrupts

\* Interrupts are never on before the table that has to serve them is complete
\* (interrupts.c:57-104).
THEOREM TableReady == Spec => []InterruptsFindHandlers
<1>0. Vector \ {255} = 0 .. 254
  BY DEF Vector
<1>1. GInv /\ QInv => InterruptsFindHandlers
  <2> SUFFICES ASSUME GInv, QInv, idt = "kernel", interrupts_on \/ handler # ""
               PROVE  \A v \in Vector \ {255} : gates[v] = Documented(v)
    BY DEF InterruptsFindHandlers
  <2>1. pc \notin Filling
    BY DEF QInv
  <2>2. Complete(gates)
    BY <2>1 DEF GInv
  <2> QED BY <2>2, <1>0 DEF Complete
<1>2. GInv /\ QInv /\ [Next]_vars => (GInv /\ QInv)'
  BY StepTable, StepQuiet
<1> QED BY InitTable, <1>1, <1>2, PTL DEF Spec

-----------------------------------------------------------------------------
(* The bytes of the MADT                                                   *)

\* Induction: a set with 0, and with k + 1 whenever it has k, has every natural.
LEMMA SetInduction ==
  ASSUME NEW S, 0 \in S, \A k \in Nat : k \in S => k + 1 \in S
  PROVE  \A k \in Nat : k \in S
<1> SUFFICES ASSUME NEW k \in Nat, k \notin S PROVE FALSE
  OBVIOUS
<1> DEFINE R == {p \in Nat \X Nat : p[1] < p[2]}
           T == {i \in Nat : i \notin S}
<1>1. IsWellFoundedOn(R, Nat)
  BY NatLessThanWellFounded DEF OpToRel
<1>2. \A x, y \in Nat : x < y => <<x, y>> \in R
  OBVIOUS
<1>3. T \in SUBSET Nat /\ T # {}
  OBVIOUS
<1>4. PICK x \in T : \A y \in T : <<y, x>> \notin R
  <2> HIDE DEF R, T
  <2> QED BY <1>1, <1>3, WFMin
<1>5. x \in Nat /\ x # 0 /\ x \notin S
  OBVIOUS
<1>6. x - 1 \in Nat /\ x - 1 < x /\ (x - 1) + 1 = x
  BY <1>5
<1>7. x - 1 \in S
  <2> HIDE DEF R
  <2> QED BY <1>2, <1>4, <1>5, <1>6
<1>8. (x - 1) + 1 \in S
  BY <1>6, <1>7
<1> QED BY <1>5, <1>6, <1>8

\* The entries of a table.
LEMMA EntryFacts ==
  ASSUME NEW madt \in Seq(Entry)
  PROVE  /\ Len(madt) \in Nat
         /\ \A k \in 1 .. Len(madt) :
              /\ madt[k] \in Entry
              /\ madt[k].len \in Nat /\ madt[k].len > 0
              /\ madt[k].id \in Vector
<1>1. Len(madt) \in Nat /\ \A k \in 1 .. Len(madt) : madt[k] \in Entry
  OBVIOUS
<1>2. \A e \in Entry : e.len \in Nat /\ e.len > 0 /\ e.id \in Vector
  BY DEF Entry, Vector
<1> QED BY <1>1, <1>2

\* What the bytes of the first entries are: the sum of their lengths, up to the m-th.
IsLength(madt, m, f) ==
  f = [k \in 0 .. m |-> IF k = 0 THEN 0 ELSE f[k - 1] + madt[k].len]

LEMMA LengthExists ==
  ASSUME NEW madt \in Seq(Entry)
  PROVE  \A m \in Nat : m <= Len(madt) => \E f \in [0 .. m -> Nat] : IsLength(madt, m, f)
<1> DEFINE S == {m \in Nat : m <= Len(madt) => \E f \in [0 .. m -> Nat] : IsLength(madt, m, f)}
<1>1. 0 \in S
  <2> DEFINE f == [k \in 0 .. 0 |-> 0]
  <2>1. f \in [0 .. 0 -> Nat] /\ IsLength(madt, 0, f)
    BY DEF IsLength
  <2> QED BY <2>1
<1>2. ASSUME NEW m \in Nat, m \in S PROVE m + 1 \in S
  <2>1. SUFFICES ASSUME m + 1 <= Len(madt)
                 PROVE  \E f \in [0 .. m + 1 -> Nat] : IsLength(madt, m + 1, f)
    OBVIOUS
  <2>2. PICK f \in [0 .. m -> Nat] : IsLength(madt, m, f)
    BY <1>2, <2>1
  <2>3. m + 1 \in 1 .. Len(madt) /\ madt[m + 1].len \in Nat
    BY <2>1, EntryFacts
  <2>4. f[m] \in Nat /\ f[0] = 0
    BY <2>2 DEF IsLength
  <2>5. ASSUME NEW k \in 1 .. m PROVE f[k] = f[k - 1] + madt[k].len
    BY <2>2 DEF IsLength
  <2> DEFINE g == [k \in 0 .. m + 1 |-> IF k = m + 1 THEN f[m] + madt[m + 1].len ELSE f[k]]
  <2>6. g \in [0 .. m + 1 -> Nat]
    BY <2>3, <2>4
  <2>7. ASSUME NEW k \in 0 .. m + 1
        PROVE  g[k] = IF k = 0 THEN 0 ELSE g[k - 1] + madt[k].len
    <3>1. CASE k = 0
      BY <3>1, <2>4
    <3>2. CASE k \in 1 .. m
      BY <3>2, <2>5
    <3>3. CASE k = m + 1
      BY <3>3
    <3> QED BY <3>1, <3>2, <3>3
  <2>8. IsLength(madt, m + 1, g)
    <3>1. g = [k \in 0 .. m + 1 |-> g[k]]
      OBVIOUS
    <3> HIDE DEF g
    <3> QED BY <2>7, <3>1 DEF IsLength
  <2> HIDE DEF g
  <2> QED BY <2>6, <2>8
<1> HIDE DEF S
<1>3. \A m \in Nat : m \in S
  BY <1>1, <1>2, SetInduction
<1> QED BY <1>3 DEF S

LEMMA LengthFacts ==
  ASSUME NEW madt \in Seq(Entry)
  PROVE  /\ LengthUpTo(madt) \in [0 .. Len(madt) -> Nat]
         /\ LengthUpTo(madt)[0] = 0
         /\ \A k \in 1 .. Len(madt) :
              LengthUpTo(madt)[k] = LengthUpTo(madt)[k - 1] + madt[k].len
<1> DEFINE L == LengthUpTo(madt)
           D == CHOOSE f : IsLength(madt, Len(madt), f)
<1>1. L = D
  BY DEF LengthUpTo, IsLength
<1>2. PICK f \in [0 .. Len(madt) -> Nat] : IsLength(madt, Len(madt), f)
  BY LengthExists
<1>3. IsLength(madt, Len(madt), D)
  BY <1>2
<1> HIDE DEF L, D
<1>4. IsLength(madt, Len(madt), L)
  BY <1>1, <1>3
<1>5. /\ DOMAIN L = 0 .. Len(madt) /\ L[0] = 0
      /\ \A k \in 1 .. Len(madt) : L[k] = L[k - 1] + madt[k].len
      /\ L = [k \in 0 .. Len(madt) |-> L[k]]
  BY <1>4 DEF IsLength
<1> DEFINE S == {k \in Nat : k <= Len(madt) => L[k] \in Nat}
<1>6. 0 \in S
  BY <1>5
<1>7. ASSUME NEW k \in Nat, k \in S PROVE k + 1 \in S
  <2>1. SUFFICES ASSUME k + 1 <= Len(madt) PROVE L[k + 1] \in Nat
    OBVIOUS
  <2>2. k + 1 \in 1 .. Len(madt) /\ madt[k + 1].len \in Nat
    BY <2>1, EntryFacts
  <2>3. L[k] \in Nat
    BY <1>7, <2>1
  <2>4. (k + 1) - 1 = k
    OBVIOUS
  <2>5. L[k + 1] = L[k] + madt[k + 1].len
    BY <1>5, <2>2, <2>4
  <2> QED BY <2>2, <2>3, <2>5
<1>8. \A k \in Nat : k \in S
  <2> HIDE DEF S
  <2> QED BY <1>6, <1>7, SetInduction
<1>9. \A k \in 0 .. Len(madt) : L[k] \in Nat
  BY <1>8
<1> QED BY <1>5, <1>9 DEF L

\* No entry is empty, so only all of them have as many bytes as all of them.
LEMMA LengthGrows ==
  ASSUME NEW madt \in Seq(Entry), NEW k \in 0 .. Len(madt),
         LengthUpTo(madt)[k] >= LengthUpTo(madt)[Len(madt)]
  PROVE  k = Len(madt)
<1> DEFINE L == LengthUpTo(madt)
           S == {j \in Nat : k + 1 + j <= Len(madt) => L[k] < L[k + 1 + j]}
<1>0. /\ L \in [0 .. Len(madt) -> Nat]
      /\ \A j \in 1 .. Len(madt) : L[j] = L[j - 1] + madt[j].len
      /\ L[k] >= L[Len(madt)]
      /\ Len(madt) \in Nat
  BY LengthFacts, EntryFacts
<1> HIDE DEF L
<1>1. ASSUME NEW j \in Nat, j < Len(madt) PROVE L[j] < L[j + 1]
  <2>1. j + 1 \in 1 .. Len(madt)
    BY <1>1, EntryFacts
  <2>2. madt[j + 1].len \in Nat /\ madt[j + 1].len > 0
    BY <2>1, EntryFacts
  <2>3. (j + 1) - 1 = j /\ L[j] \in Nat
    BY <1>0, <1>1
  <2> QED BY <1>0, <2>1, <2>2, <2>3
<1>2. 0 \in S
  BY <1>1
<1>3. ASSUME NEW j \in Nat, j \in S PROVE j + 1 \in S
  <2>0. k \in Nat
    BY <1>0
  <2>1. SUFFICES ASSUME k + 1 + (j + 1) <= Len(madt) PROVE L[k] < L[k + 1 + (j + 1)]
    OBVIOUS
  <2> DEFINE i == k + 1 + j
  <2>2. i \in Nat /\ i < Len(madt) /\ i + 1 = k + 1 + (j + 1)
    BY <1>0, <2>0, <2>1
  <2>3. L[k] < L[i]
    BY <1>0, <1>3, <2>2
  <2>4. k \in 0 .. Len(madt) /\ i \in 0 .. Len(madt) /\ i + 1 \in 0 .. Len(madt)
    BY <1>0, <2>2
  <2>5. L[k] \in Nat /\ L[i] \in Nat /\ L[i + 1] \in Nat
    <3> HIDE DEF i
    <3> QED BY <1>0, <2>4
  <2>6. L[i] < L[i + 1]
    BY <1>1, <2>2
  <2>7. L[k] < L[i + 1]
    <3> HIDE DEF i
    <3> QED BY <2>3, <2>5, <2>6
  <2> QED BY <2>2, <2>7
<1>4. \A j \in Nat : j \in S
  <2> HIDE DEF S
  <2> QED BY <1>2, <1>3, SetInduction
<1>5. SUFFICES ASSUME k < Len(madt) PROVE FALSE
  OBVIOUS
<1>6. Len(madt) - (k + 1) \in Nat /\ k + 1 + (Len(madt) - (k + 1)) = Len(madt)
  BY <1>0, <1>5
<1>7. Len(madt) - (k + 1) \in S
  <2> HIDE DEF S
  <2> QED BY <1>4, <1>6
<1>8. L[k] < L[Len(madt)]
  BY <1>0, <1>6, <1>7
<1>9. L[k] \in Nat /\ L[Len(madt)] \in Nat
  BY <1>0
<1> QED BY <1>0, <1>8, <1>9

-----------------------------------------------------------------------------
(* The walk through the MADT, and what it leaves                           *)

\* The entries that are read: the memory behind the table, if it lists none.
Madt == IF machine.madt = <<>> THEN <<machine.behind>> ELSE machine.madt
Before == {"cpu", "graphics", "apic"}

\* Up to entry n there are as many bytes as have been counted off.
WalkInv ==
  /\ machine \in Machines
  /\ pc \in Before => n = 1
  /\ pc = "madt" =>
       /\ n \in 1 .. Len(Madt)
       /\ left = IF machine.madt = <<>> THEN 0
                 ELSE LengthUpTo(Madt)[Len(Madt)] - LengthUpTo(Madt)[n - 1]

\* id is that of the last one of a type among the first m entries, if there is one.
LastUpTo(type, m, id) ==
  \/ \A k \in 1 .. m : Madt[k].type # type
  \/ \E k \in 1 .. m :
       /\ Madt[k].type = type /\ Madt[k].id = id
       /\ \A l \in k + 1 .. m : Madt[l].type # type

IdsUpTo(m) == LastUpTo("lapic", m, local_apic_id) /\ LastUpTo("ioapic", m, io_apic_id)

\* The ids are those of the entries that have been read, and all of them once the I/O
\* APIC is set up, for the local APIC found.
IdInv ==
  /\ pc \in Before => IdsUpTo(0)
  /\ pc = "madt" => IdsUpTo(n - 1)
  /\ pc \notin Before \cup {"madt", "failed"} => IdsUpTo(Len(Madt))
  /\ pc = "unmask" /\ io_apic_id # None => destination = local_apic_id
  /\ unmasked =>
       /\ pc \notin Before \cup {"madt"}
       /\ IdsUpTo(Len(Madt)) /\ destination = local_apic_id

\* A machine is one; its MADT a sequence of entries, and so is what is read.
LEMMA MachineFacts ==
  ASSUME machine \in Machines
  PROVE  /\ machine.madt \in Seq(Entry) /\ Madt \in Seq(Entry)
         /\ machine.madt = <<>> => Len(Madt) = 1
         /\ machine.boot \in Vector /\ machine.wired \in Vector
<1>1. machine.madt \in Seq(Entry) /\ machine.behind \in Entry
  BY InterruptsAssumption DEF Machine
<1>2. machine.boot \in Vector /\ machine.wired \in Vector
  BY InterruptsAssumption DEF Machine, Vector
<1>3. CASE machine.madt = <<>>
  <2>1. <<machine.behind>> \in Seq(Entry) /\ Len(<<machine.behind>>) = 1
    BY <1>1
  <2> QED BY <1>1, <1>2, <1>3, <2>1 DEF Madt
<1>4. CASE machine.madt # <<>>
  BY <1>1, <1>2, <1>4 DEF Madt
<1> QED BY <1>3, <1>4

\* The entry that is read next.
LEMMA NextEntry ==
  ASSUME WalkInv, pc = "madt"
  PROVE  (IF n \in DOMAIN machine.madt THEN machine.madt[n] ELSE machine.behind) = Madt[n]
<1>1. n \in 1 .. Len(Madt) /\ machine.madt \in Seq(Entry)
  BY MachineFacts DEF WalkInv
<1>2. CASE machine.madt = <<>>
  <2>0. Len(Madt) = 1
    BY <1>2, MachineFacts DEF WalkInv
  <2>1. n = 1 /\ DOMAIN machine.madt = {}
    BY <1>1, <1>2, <2>0
  <2>2. Madt[1] = machine.behind
    BY <1>2 DEF Madt
  <2> QED BY <2>1, <2>2
<1>3. CASE machine.madt # <<>>
  <2>1. Madt = machine.madt /\ DOMAIN machine.madt = 1 .. Len(machine.madt)
    BY <1>1, <1>3 DEF Madt
  <2> QED BY <1>1, <2>1
<1> QED BY <1>2, <1>3

\* One entry more.
LEMMA LastOfMore ==
  ASSUME NEW m \in Nat, m > 0, NEW type, NEW id, LastUpTo(type, m - 1, id)
  PROVE  LastUpTo(type, m, IF Madt[m].type = type THEN Madt[m].id ELSE id)
<1>1. CASE Madt[m].type = type
  <2>1. m \in 1 .. m /\ \A l \in m + 1 .. m : Madt[l].type # type
    OBVIOUS
  <2> QED BY <1>1, <2>1 DEF LastUpTo
<1>2. CASE Madt[m].type # type
  <2>1. ASSUME \A k \in 1 .. m - 1 : Madt[k].type # type
        PROVE  LastUpTo(type, m, id)
    <3>1. \A k \in 1 .. m : Madt[k].type # type
      BY <1>2, <2>1
    <3> QED BY <1>2, <2>1, <3>1 DEF LastUpTo
  <2>2. ASSUME NEW k \in 1 .. m - 1, Madt[k].type = type, Madt[k].id = id,
               \A l \in k + 1 .. m - 1 : Madt[l].type # type
        PROVE  LastUpTo(type, m, id)
    <3>1. k \in 1 .. m /\ \A l \in k + 1 .. m : Madt[l].type # type
      BY <1>2, <2>2
    <3> QED BY <2>2, <3>1 DEF LastUpTo
  <2>3. \/ \A k \in 1 .. m - 1 : Madt[k].type # type
        \/ \E k \in 1 .. m - 1 :
             /\ Madt[k].type = type /\ Madt[k].id = id
             /\ \A l \in k + 1 .. m - 1 : Madt[l].type # type
    BY DEF LastUpTo
  <2>4. LastUpTo(type, m, id)
    BY <2>1, <2>2, <2>3
  <2> QED BY <1>2, <2>4
<1> QED BY <1>1, <1>2

\* The last one among all entries is the one LastId names, if it names any.
LEMMA LastOfAll ==
  ASSUME machine \in Machines, NEW type, NEW id, LastUpTo(type, Len(Madt), id),
         LastId(type) # None
  PROVE  id = LastId(type)
<1> DEFINE listed == {k \in DOMAIN machine.madt : machine.madt[k].type = type}
<1>0. PICK k \in DOMAIN machine.madt : machine.madt[k].type = type
  <2>1. listed # {}
    BY DEF LastId
  <2> QED BY <2>1
<1>1. Madt = machine.madt /\ Len(Madt) \in Nat /\ DOMAIN machine.madt = 1 .. Len(Madt)
  <2>1. machine.madt \in Seq(Entry) /\ Len(Madt) \in Nat
    BY MachineFacts, EntryFacts
  <2>2. machine.madt # <<>>
    BY <1>0
  <2>3. Madt = machine.madt
    BY <2>2 DEF Madt
  <2> QED BY <2>1, <2>3
<1>2. ~ \A l \in 1 .. Len(Madt) : Madt[l].type # type
  BY <1>0, <1>1
<1>3. ASSUME NEW j \in 1 .. Len(Madt), Madt[j].type = type, Madt[j].id = id,
             \A l \in j + 1 .. Len(Madt) : Madt[l].type # type
      PROVE  id = LastId(type)
  <2>1. j \in listed /\ j \in Nat
    BY <1>1, <1>3
  <2>2. \A l \in listed : l \in Nat /\ l <= j /\ j >= l
    BY <1>1, <1>3
  <2> HIDE DEF listed
  <2> DEFINE top == Max(listed)
  <2>3. top \in listed /\ top >= j
    BY <2>1, <2>2 DEF Max
  <2> HIDE DEF top
  <2>4. top = j
    BY <2>1, <2>2, <2>3
  <2> QED BY <1>1, <1>3, <2>1, <2>4 DEF LastId, listed, top
<1> QED BY <1>2, <1>3 DEF LastUpTo

\* What a step that is none of the four that reach for the MADT, or for the I/O APIC's
\* entry, leaves alone.
Elsewhere ==
  /\ UNCHANGED <<machine, local_apic_id, io_apic_id, destination, unmasked>>
  /\ pc' \in Before => pc \in Before /\ n' = n
  /\ pc' = "madt" => pc = "madt" /\ UNCHANGED <<n, left>>
  /\ pc' \notin Before \cup {"madt", "failed"} => pc \notin Before \cup {"madt", "failed"}
  /\ pc \notin Before \cup {"madt"} => pc' \notin Before \cup {"madt"}
  /\ pc' = "unmask" => pc = "unmask"

LEMMA StepElsewhere ==
  ASSUME [Next]_vars
  PROVE  FindMadt \/ ReadEntry \/ SetDestination \/ Unmask \/ Elsewhere
<1> USE DEF Elsewhere, Before, tables, apic, routing
<1>1. CASE InitCpu \/ InitGraphics \/ InitMemory
  BY <1>1 DEF InitCpu, InitGraphics, InitMemory, InitGdt, SetupPaging, ReallocBuffer,
              GiveUp, GetMemoryMap, CountEntries, ExitBootServices
<1>2. CASE EnableApic
  BY <1>2 DEF EnableApic
<1>3. CASE LoadIdt
  BY <1>3 DEF LoadIdt
<1>4. CASE SetUnknown
  <2>1. pc = "unknown" /\ pc' \in {"unknown", "software"}
    BY <1>4 DEF SetUnknown
  <2>2. UNCHANGED <<machine, local_apic_id, io_apic_id, destination, unmasked>>
    BY <1>4 DEF SetUnknown
  <2> QED BY <2>1, <2>2
<1>5. CASE SetUnknownSoftware
  <2>1. pc = "software" /\ pc' \in {"software", "named"}
    BY <1>5 DEF SetUnknownSoftware
  <2>2. UNCHANGED <<machine, local_apic_id, io_apic_id, destination, unmasked>>
    BY <1>5 DEF SetUnknownSoftware
  <2> QED BY <2>1, <2>2
<1>6. CASE SetNamed
  <2>1. pc = "named" /\ pc' \in {"named", "destination"}
    BY <1>6 DEF SetNamed
  <2>2. UNCHANGED <<machine, local_apic_id, io_apic_id, destination, unmasked>>
    BY <1>6 DEF SetNamed
  <2> QED BY <2>1, <2>2
<1>7. CASE Sti
  BY <1>7 DEF Sti
<1>8. CASE Interrupt \/ ReadKey \/ EndOfInterrupt \/ PressKey \/ FirmwareTick
  BY <1>8 DEF Interrupt, ReadKey, EndOfInterrupt, PressKey, FirmwareTick
<1>9. CASE UNCHANGED vars
  BY <1>9 DEF vars
<1> QED BY <1>1, <1>2, <1>3, <1>4, <1>5, <1>6, <1>7, <1>8, <1>9
        DEF Next, Processor, InitInterrupts

\* The initial states satisfy the invariants.
LEMMA InitWalk == BootInit => WalkInv /\ IdInv
<1> SUFFICES ASSUME BootInit PROVE WalkInv /\ IdInv
  OBVIOUS
<1>1. /\ machine \in Machines /\ pc = "cpu" /\ n = 1
      /\ unmasked = FALSE
  BY DEF BootInit, Init
<1>2. IdsUpTo(0)
  BY <1>1 DEF IdsUpTo, LastUpTo
<1> QED BY <1>1, <1>2 DEF WalkInv, IdInv, Before

\* A step of the loop, and how it ends.
LEMMA ReadEntryStep ==
  ASSUME WalkInv, IdInv, ReadEntry
  PROVE  WalkInv' /\ IdInv'
<1> DEFINE e == Madt[n]
           L == LengthUpTo(Madt)
<1>1. /\ machine' = machine /\ machine \in Machines
      /\ Madt \in Seq(Entry) /\ Len(Madt) \in Nat
      /\ n \in 1 .. Len(Madt) /\ n - 1 \in 0 .. Len(Madt) /\ n \in 0 .. Len(Madt)
      /\ left = IF machine.madt = <<>> THEN 0 ELSE L[Len(Madt)] - L[n - 1]
      /\ machine.madt = <<>> => Len(Madt) = 1
      /\ e.len \in Nat /\ e.len > 0
      /\ pc = "madt"
  <2>1. machine' = machine /\ machine \in Machines /\ pc = "madt"
    BY DEF ReadEntry, WalkInv
  <2>2. /\ Madt \in Seq(Entry) /\ Len(Madt) \in Nat
        /\ machine.madt = <<>> => Len(Madt) = 1
    BY <2>1, MachineFacts, EntryFacts
  <2>3. /\ n \in 1 .. Len(Madt)
        /\ left = IF machine.madt = <<>> THEN 0 ELSE L[Len(Madt)] - L[n - 1]
    BY <2>1 DEF WalkInv
  <2>4. e.len \in Nat /\ e.len > 0
    BY <2>2, <2>3, EntryFacts
  <2> QED BY <2>1, <2>2, <2>3, <2>4
<1>2. L \in [0 .. Len(Madt) -> Nat] /\ L[n] = L[n - 1] + e.len
  BY <1>1, LengthFacts
<1>3. \/ pc' = "failed" /\ UNCHANGED <<n, left>>
      \/ e.len >= left /\ pc' = "enable" /\ UNCHANGED <<n, left>>
      \/ ~(e.len >= left) /\ left' = left - e.len /\ n' = n + 1 /\ pc' = "madt"
  BY <1>1, NextEntry DEF ReadEntry
<1>4. UNCHANGED <<destination, unmasked>> /\ unmasked # TRUE
  BY <1>1 DEF ReadEntry, routing, IdInv
<1>5. /\ local_apic_id' = IF e.type = "lapic" THEN e.id ELSE local_apic_id
      /\ io_apic_id' = IF e.type = "ioapic" THEN e.id ELSE io_apic_id
  BY <1>1, NextEntry DEF ReadEntry
<1>6. Madt' = Madt
  BY <1>1 DEF Madt
<1>7. ASSUME NEW m, m = n PROVE IdsUpTo(m)'
  <2>1. LastUpTo("lapic", n - 1, local_apic_id) /\ LastUpTo("ioapic", n - 1, io_apic_id)
    BY <1>1 DEF IdInv, IdsUpTo
  <2>2. n \in Nat /\ n > 0
    BY <1>1
  <2>3. LastUpTo("lapic", n, local_apic_id')
    BY <1>5, <2>1, <2>2, LastOfMore
  <2>4. LastUpTo("ioapic", n, io_apic_id')
    BY <1>5, <2>1, <2>2, LastOfMore
  <2>5. LastUpTo("lapic", m, local_apic_id)' /\ LastUpTo("ioapic", m, io_apic_id)'
    BY <1>6, <1>7, <2>3, <2>4 DEF LastUpTo
  <2> QED BY <2>5 DEF IdsUpTo
<1> HIDE DEF e, L
<1>8. L[n] \in Nat /\ L[n - 1] \in Nat /\ L[Len(Madt)] \in Nat
  BY <1>1, <1>2
<1>9. CASE pc' = "failed" /\ UNCHANGED <<n, left>>
  BY <1>1, <1>4, <1>9 DEF WalkInv, IdInv, Before
<1>10. CASE e.len >= left /\ pc' = "enable" /\ UNCHANGED <<n, left>>
  <2>1. machine.madt # <<>> => L[n] >= L[Len(Madt)]
    BY <1>1, <1>2, <1>8, <1>10
  <2>2. n = Len(Madt)
    <3>1. CASE machine.madt = <<>>
      BY <1>1, <3>1
    <3>2. CASE machine.madt # <<>>
      BY <1>1, <2>1, <3>2, LengthGrows DEF L
    <3> QED BY <3>1, <3>2
  <2>3. IdsUpTo(Len(Madt))'
    BY <1>6, <1>7, <2>2 DEF IdsUpTo
  <2> QED BY <1>1, <1>4, <1>10, <2>3 DEF WalkInv, IdInv, Before
<1>11. CASE ~(e.len >= left) /\ left' = left - e.len /\ n' = n + 1 /\ pc' = "madt"
  <2>0. machine.madt # <<>>
    BY <1>1, <1>11
  <2>1. L[n] < L[Len(Madt)]
    BY <2>0, <1>1, <1>2, <1>8, <1>11
  <2>2. n # Len(Madt)
    BY <1>8, <2>1
  <2>3. n + 1 \in 1 .. Len(Madt) /\ (n + 1) - 1 = n
    BY <1>1, <2>2
  <2>4. left' = L[Len(Madt)] - L[n]
    BY <2>0, <1>1, <1>2, <1>8, <1>11
  <2>5. left' = LengthUpTo(Madt')[Len(Madt')] - LengthUpTo(Madt')[n' - 1]
    BY <1>6, <1>11, <2>3, <2>4 DEF L
  <2>6. n' \in 1 .. Len(Madt')
    BY <1>6, <1>11, <2>3
  <2>7. WalkInv'
    BY <2>0, <1>1, <1>11, <2>5, <2>6 DEF WalkInv, Before
  <2>8. ASSUME NEW m, m = n' - 1 PROVE IdsUpTo(m)'
    BY <1>7, <1>11, <2>3, <2>8
  <2>9. IdsUpTo(n - 1)'
    BY <2>8 DEF IdsUpTo
  <2> QED BY <1>4, <1>11, <2>7, <2>9 DEF IdInv, Before
<1> QED BY <1>3, <1>9, <1>10, <1>11

\* Every step keeps the invariants.
LEMMA StepWalk == WalkInv /\ IdInv /\ [Next]_vars => (WalkInv /\ IdInv)'
<1> SUFFICES ASSUME WalkInv, IdInv, [Next]_vars PROVE WalkInv' /\ IdInv'
  OBVIOUS
<1>1. CASE FindMadt
  <2>1. /\ UNCHANGED <<machine, n, local_apic_id, io_apic_id, destination, unmasked>>
        /\ pc = "apic" /\ n = 1 /\ machine \in Machines
    BY <1>1 DEF FindMadt, apic, routing, WalkInv, Before
  <2>2. /\ machine.madt \in Seq(Entry) /\ Madt \in Seq(Entry) /\ Len(Madt) \in Nat
        /\ Madt' = Madt
        /\ machine.madt = <<>> => Len(Madt) = 1
    BY <2>1, MachineFacts, EntryFacts DEF Madt
  <2>3. pc' \in {"failed", "apic"} \/ (pc' = "madt" /\ left' = MadtLength)
    BY <1>1, <2>1 DEF FindMadt
  <2>4. IdsUpTo(0) /\ IdsUpTo(0)' /\ unmasked # TRUE
    <3>1. pc \in Before
      BY <2>1 DEF Before
    <3>2. unmasked # TRUE
      BY <3>1 DEF IdInv
    <3>3. IdsUpTo(0) /\ IdsUpTo(0)'
      BY DEF IdsUpTo, LastUpTo
    <3> QED BY <3>2, <3>3
  <2>5. ASSUME pc' = "madt" PROVE WalkInv' /\ IdInv'
    <3>1. n' = 1 /\ n' - 1 = 0 /\ n' \in 1 .. Len(Madt')
      <4>1. machine.madt # <<>> => Len(Madt) # 0
        BY <2>2 DEF Madt
      <4> QED BY <2>1, <2>2, <4>1
    <3>2. ASSUME machine.madt = <<>> PROVE WalkInv'
      <4>1. MadtLength = 0
        <5>1. Len(machine.madt) = 0
          BY <3>2
        <5> QED BY <2>2, <5>1, LengthFacts DEF MadtLength
      <4>2. WalkInv'
        BY <2>1, <2>3, <2>5, <3>1, <3>2, <4>1 DEF WalkInv, Before
      <4> QED BY <4>2
    <3>3. ASSUME machine.madt # <<>> PROVE WalkInv'
      <4>1. Madt = machine.madt
        BY <3>3 DEF Madt
      <4>2. /\ LengthUpTo(Madt)[0] = 0 /\ LengthUpTo(Madt)[Len(Madt)] \in Nat
        BY <2>2, LengthFacts
      <4>3. left' = LengthUpTo(Madt')[Len(Madt')] - LengthUpTo(Madt')[n' - 1]
        BY <2>2, <2>3, <2>5, <3>1, <4>1, <4>2 DEF MadtLength
      <4>4. WalkInv'
        BY <2>1, <2>5, <3>1, <3>3, <4>3 DEF WalkInv, Before
      <4> QED BY <4>4
    <3>4. WalkInv'
      BY <3>2, <3>3
    <3>5. IdsUpTo(n - 1)'
      BY <2>4, <3>1 DEF IdsUpTo
    <3> QED BY <2>1, <2>4, <2>5, <3>4, <3>5 DEF IdInv, Before
  <2>6. ASSUME pc' \in {"failed", "apic"} PROVE WalkInv' /\ IdInv'
    BY <2>1, <2>4, <2>6 DEF WalkInv, IdInv, Before
  <2> QED BY <2>3, <2>5, <2>6
<1>2. CASE ReadEntry
  BY <1>2, ReadEntryStep
<1>3. CASE SetDestination
  <2>1. /\ UNCHANGED <<machine, local_apic_id, io_apic_id, unmasked>>
        /\ pc = "destination"
        /\ \/ /\ destination' = IF io_apic_id = None THEN destination ELSE local_apic_id
              /\ pc' = "unmask"
           \/ destination' = destination /\ pc' = pc
    BY <1>3 DEF SetDestination, apic
  <2>2. IdsUpTo(Len(Madt)) /\ (IdsUpTo(Len(Madt)))'
    BY <2>1 DEF IdInv, Before, IdsUpTo, LastUpTo, Madt
  <2> QED BY <2>1, <2>2 DEF WalkInv, IdInv, Before
<1>4. CASE Unmask
  <2>1. /\ UNCHANGED <<machine, local_apic_id, io_apic_id, destination>>
        /\ pc = "unmask" /\ pc' = "named" /\ unmasked' = (io_apic_id # None)
    BY <1>4 DEF Unmask, apic
  <2>2. (io_apic_id # None => destination = local_apic_id) /\ IdsUpTo(Len(Madt)) /\ (IdsUpTo(Len(Madt)))'
    BY <2>1 DEF IdInv, Before, IdsUpTo, LastUpTo, Madt
  <2> QED BY <2>1, <2>2 DEF WalkInv, IdInv, Before
<1>5. CASE Elsewhere
  <2>1. Madt' = Madt /\ \A m : IdsUpTo(m)' <=> IdsUpTo(m)
    BY <1>5 DEF Elsewhere, IdsUpTo, LastUpTo, Madt
  <2>2. WalkInv'
    BY <1>5, <2>1 DEF Elsewhere, WalkInv
  <2>3. IdInv'
    BY <1>5, <2>1 DEF Elsewhere, IdInv
  <2> QED BY <2>2, <2>3
<1> QED BY <1>1, <1>2, <1>3, <1>4, <1>5, StepElsewhere

-----------------------------------------------------------------------------
(* Keys                                                                    *)

\* The table has the keyboard's handler in its place.
LEMMA KeyboardHandler ==
  ASSUME GInv, QInv, idt = "kernel", interrupts_on
  PROVE  gates[Irq1] = "irq1"
<1>1. Complete(gates)
  BY DEF GInv, QInv
<1>2. 5 \in 1 .. 13 /\ Named[5][1] = Irq1 /\ Named[5][2] = "irq1" /\ Irq1 \in 0 .. 254
  BY DEF Named, Irq1
<1> QED BY <1>1, <1>2, DocumentedNamed DEF Complete

\* Once the entry of the I/O APIC is unmasked, every key is signalled on a machine that
\* lists the processor that boots, and the keyboard's I/O APIC, last.
LEMMA KeySignalled ==
  ASSUME WalkInv, IdInv, ListedLast, unmasked
  PROVE  Signalled
<1>1. LastUpTo("lapic", Len(Madt), local_apic_id) /\ LastUpTo("ioapic", Len(Madt), io_apic_id)
  BY DEF IdInv, IdsUpTo
<1>2. machine \in Machines
  BY DEF WalkInv
<1>3. local_apic_id = LastId("lapic") /\ io_apic_id = LastId("ioapic")
  <2>1. machine.boot \in Vector /\ machine.wired \in Vector
    BY <1>2, MachineFacts
  <2>2. None \notin Vector
    BY DEF Vector, None
  <2>3. LastId("lapic") # None /\ LastId("ioapic") # None
    BY <2>1, <2>2 DEF ListedLast
  <2> QED BY <1>1, <1>2, <2>3, LastOfAll
<1>4. destination = local_apic_id
  BY DEF IdInv
<1> QED BY <1>3, <1>4 DEF Signalled, ListedLast

\* A step that neither fills the buffer nor takes the interrupt up.
LEMMA OthersKeepKey ==
  ASSUME KeyNotForgotten, UNCHANGED machine,
         early => early', full' => full, irr => irr',
         handler = "read" => handler' = "read" \/ ~full'
  PROVE  KeyNotForgotten'
<1>1. ListedLast' <=> ListedLast
  BY DEF ListedLast, LastId
<1> QED BY <1>1 DEF KeyNotForgotten

LEMMA StepKey ==
  KeyNotForgotten /\ GInv /\ QInv /\ WalkInv /\ IdInv /\ [Next]_vars => KeyNotForgotten'
<1> SUFFICES ASSUME KeyNotForgotten, GInv, QInv, WalkInv, IdInv, [Next]_vars
             PROVE  KeyNotForgotten'
  OBVIOUS
<1> USE DEF keyboard
<1>1. CASE InitCpu \/ InitGraphics \/ InitMemory
  <2>1. UNCHANGED <<machine, keyboard>>
    BY <1>1 DEF InitCpu, InitGraphics, InitMemory, InitGdt, SetupPaging, ReallocBuffer,
                GiveUp, GetMemoryMap, CountEntries, ExitBootServices
  <2> QED BY <2>1, OthersKeepKey
<1>2. CASE InitInterrupts
  <2>1. UNCHANGED <<machine, keyboard>>
    BY <1>2 DEF InitInterrupts, FindMadt, ReadEntry, EnableApic, LoadIdt, SetUnknown,
                SetUnknownSoftware, SetNamed, SetDestination, Unmask, Sti
  <2> QED BY <2>1, OthersKeepKey
<1>3. CASE PressKey
  <2>1. UNCHANGED <<machine, handler, unmasked>>
    BY <1>3 DEF PressKey, tables, routing
  <2>2. ListedLast' <=> ListedLast
    BY <2>1 DEF ListedLast, LastId
  <2>3. CASE unmasked /\ ListedLast
    <3>1. Signalled
      BY <2>3, KeySignalled
    <3>2. irr'
      BY <1>3, <3>1 DEF PressKey
    <3> QED BY <3>2 DEF KeyNotForgotten
  <2>4. CASE ~unmasked
    <3>1. early'
      BY <1>3, <2>4 DEF PressKey
    <3> QED BY <3>1 DEF KeyNotForgotten
  <2> QED BY <2>2, <2>3, <2>4 DEF KeyNotForgotten
<1>4. CASE Interrupt
  <2>1. gates[Irq1] = "irq1"
    BY <1>4, KeyboardHandler DEF Interrupt
  <2>2. handler' = "read"
    BY <1>4, <2>1 DEF Interrupt
  <2> QED BY <2>2 DEF KeyNotForgotten
<1>5. CASE ReadKey
  <2>1. full' = FALSE
    BY <1>5 DEF ReadKey
  <2> QED BY <2>1 DEF KeyNotForgotten
<1>6. CASE EndOfInterrupt
  <2>1. handler = "end" /\ UNCHANGED <<machine, full, irr, early>>
    BY <1>6 DEF EndOfInterrupt
  <2> QED BY <2>1, OthersKeepKey
<1>7. CASE FirmwareTick
  <2>1. full' = FALSE
    BY <1>7 DEF FirmwareTick
  <2> QED BY <2>1 DEF KeyNotForgotten
<1>8. CASE UNCHANGED vars
  BY <1>8, OthersKeepKey DEF vars
<1> QED BY <1>1, <1>2, <1>3, <1>4, <1>5, <1>6, <1>7, <1>8 DEF Next, Processor

\* On every machine whose MADT lists the processor that boots and the keyboard's I/O APIC
\* last, a key that waits is one the processor is about to be told of, unless it was
\* pressed before the I/O APIC's entry was set up (interrupts.c:127-137, 192-203;
\* handlers.c:306-318).
THEOREM NoKeyForgotten == Spec => []KeyNotForgotten
<1> DEFINE I == KeyNotForgotten /\ GInv /\ QInv /\ WalkInv /\ IdInv
<1>1. BootInit => I
  <2>1. BootInit => KeyNotForgotten
    BY DEF BootInit, Init, KeyNotForgotten
  <2> QED BY <2>1, InitTable, InitWalk
<1>2. I /\ [Next]_vars => I'
  BY StepKey, StepTable, StepQuiet, StepWalk
<1>3. I => KeyNotForgotten
  OBVIOUS
<1> QED BY <1>1, <1>2, <1>3, PTL DEF Spec

-----------------------------------------------------------------------------
(* Types                                                                   *)

\* Of what the firmware's map is about, with the bound of the loop.
MapType ==
  /\ needed \in MapSizes
  /\ buffer \in MapSizes \cup {0, None} /\ buffer_size \in MapSizes \cup {0}
  /\ tries \in 0 .. TRIES
  /\ pc = "get" => tries < TRIES
  /\ status \in {"success", "too_small"}
  /\ entries \in MapSizes \cup {0}

\* Of the counters and of what is read from the MADT.
NumberType ==
  /\ n \in Nat /\ left \in Nat
  /\ local_apic_id \in Vector /\ io_apic_id \in Vector \cup {None}
  /\ destination \in Vector /\ data \in ScanCodes
  /\ keys \in 0 .. MaxKeys

\* Of the rest.
ControlType ==
  /\ pc \in {"cpu", "graphics", "apic", "madt", "enable", "idt", "unknown", "software",
             "named", "destination", "unmask", "gdt", "paging", "realloc", "get",
             "mapped", "exit", "done", "failed"}
  /\ idt \in {"firmware", "kernel"}
  /\ handler \in {"", "read", "end"}
  /\ cpu \in {"run", "lost", "halted"}

FlagType ==
  /\ pic_masked \in BOOLEAN /\ interrupts_on \in BOOLEAN /\ unmasked \in BOOLEAN
  /\ full \in BOOLEAN /\ irr \in BOOLEAN /\ early \in BOOLEAN
  /\ current \in BOOLEAN /\ descr_size_known \in BOOLEAN

LEMMA InitType == BootInit => MapType /\ NumberType /\ ControlType /\ FlagType
<1> SUFFICES ASSUME BootInit PROVE MapType /\ NumberType /\ ControlType /\ FlagType
  OBVIOUS
<1>0. /\ pc = "cpu" /\ needed \in MapSizes /\ buffer = None /\ buffer_size = 0 /\ tries = 0
      /\ status = "success" /\ entries = 0
      /\ n = 1 /\ left = 0 /\ local_apic_id = 0 /\ io_apic_id = None /\ destination = 0
      /\ data \in ScanCodes /\ keys = 0
  BY DEF BootInit, Init
<1>1. MapType
  BY <1>0, BootAssumption DEF MapType
<1>2. NumberType
  BY <1>0, InterruptsAssumption DEF NumberType, Vector
<1>3. ControlType
  BY DEF BootInit, Init, ControlType
<1>4. FlagType
  BY DEF BootInit, Init, FlagType
<1> QED BY <1>1, <1>2, <1>3, <1>4

LEMMA StepMapType == MapType /\ [Next]_vars => MapType'
<1> SUFFICES ASSUME MapType, [Next]_vars PROVE MapType'
  OBVIOUS
<1> USE DEF map
<1>1. CASE InitCpu \/ InitGraphics \/ InitGdt \/ SetupPaging \/ ExitBootServices
  <2>1. UNCHANGED map /\ (pc' = "get" => pc = "get")
    BY <1>1 DEF InitCpu, InitGraphics, InitGdt, SetupPaging, ExitBootServices
  <2> QED BY <2>1 DEF MapType
<1>2. CASE ReallocBuffer
  BY <1>2, BootAssumption DEF ReallocBuffer, MapType
<1>3. CASE GiveUp
  BY <1>3 DEF GiveUp, MapType
<1>4. CASE GetMemoryMap
  BY <1>4, BootAssumption DEF GetMemoryMap, MapType
<1>5. CASE CountEntries
  BY <1>5 DEF CountEntries, MapType
<1>6. CASE InitInterrupts /\ UNCHANGED map
  <2>1. pc' # "get"
    BY <1>6 DEF InitInterrupts, FindMadt, ReadEntry, EnableApic, LoadIdt, SetUnknown,
                SetUnknownSoftware, SetNamed, SetDestination, Unmask, Sti
  <2> QED BY <1>6, <2>1 DEF MapType
<1>7. CASE (Interrupt \/ ReadKey \/ EndOfInterrupt \/ PressKey) /\ UNCHANGED map
  <2>1. pc' = pc
    BY <1>7 DEF Interrupt, ReadKey, EndOfInterrupt, PressKey
  <2> QED BY <1>7, <2>1 DEF MapType
<1>8. CASE FirmwareTick
  BY <1>8 DEF FirmwareTick, MapType
<1>9. CASE UNCHANGED vars
  BY <1>9 DEF vars, MapType
<1> QED BY <1>1, <1>2, <1>3, <1>4, <1>5, <1>6, <1>7, <1>8, <1>9
        DEF Next, Processor, InitMemory

\* The ids read are those of entries, since the walk stays among them.
LEMMA StepNumberType == NumberType /\ WalkInv /\ [Next]_vars => NumberType'
<1> SUFFICES ASSUME NumberType, WalkInv, [Next]_vars PROVE NumberType'
  OBVIOUS
<1> USE DEF tables, apic, routing, keyboard
<1>1. CASE InitCpu \/ InitGraphics \/ InitMemory
  <2>1. UNCHANGED <<tables, keyboard>>
    BY <1>1 DEF InitCpu, InitGraphics, InitMemory, InitGdt, SetupPaging, ReallocBuffer,
                GiveUp, GetMemoryMap, CountEntries, ExitBootServices
  <2> QED BY <2>1 DEF NumberType
<1>2. CASE FindMadt
  <2>1. /\ UNCHANGED <<n, local_apic_id, io_apic_id, destination, data, keys>>
        /\ left' = left \/ left' = MadtLength
    BY <1>2 DEF FindMadt
  <2>2. MadtLength \in Nat
    BY MachineFacts, LengthFacts, EntryFacts DEF WalkInv, MadtLength, Madt
  <2> QED BY <2>1, <2>2 DEF NumberType
<1>3. CASE ReadEntry
  <2>1. /\ Madt[n].id \in Vector /\ Madt[n].len \in Nat
    BY <1>3, MachineFacts, EntryFacts DEF ReadEntry, WalkInv
  <2>0. (IF n \in DOMAIN machine.madt THEN machine.madt[n] ELSE machine.behind) = Madt[n]
    BY <1>3, NextEntry DEF ReadEntry
  <2>2. UNCHANGED <<destination, data, keys>>
    BY <1>3 DEF ReadEntry
  <2>3. \/ UNCHANGED <<n, left>>
        \/ ~(Madt[n].len >= left) /\ left' = left - Madt[n].len /\ n' = n + 1
    BY <1>3, <2>0 DEF ReadEntry
  <2>4. n' \in Nat /\ left' \in Nat
    BY <2>1, <2>3 DEF NumberType
  <2>5. local_apic_id' \in Vector /\ io_apic_id' \in Vector \cup {None}
    BY <1>3, <2>0, <2>1 DEF ReadEntry, NumberType
  <2> QED BY <2>2, <2>4, <2>5 DEF NumberType
<1>4. CASE EnableApic \/ LoadIdt \/ SetDestination \/ Unmask \/ Sti
  <2>1. /\ UNCHANGED <<left, local_apic_id, io_apic_id, data, keys>>
        /\ n' = n \/ n' = 0
        /\ destination' = destination \/ destination' = local_apic_id
    BY <1>4 DEF EnableApic, LoadIdt, SetDestination, Unmask, Sti
  <2> QED BY <2>1 DEF NumberType
<1>5. CASE SetUnknown \/ SetUnknownSoftware \/ SetNamed
  <2>1. /\ UNCHANGED <<left, local_apic_id, io_apic_id, destination, data, keys>>
        /\ n' = n + 1 \/ n' = 32 \/ n' = 1
    BY <1>5 DEF SetUnknown, SetUnknownSoftware, SetNamed
  <2> QED BY <2>1 DEF NumberType
<1>6. CASE PressKey
  <2>1. /\ UNCHANGED <<n, left, local_apic_id, io_apic_id, destination>>
        /\ data' \in ScanCodes /\ keys < MaxKeys /\ keys' = keys + 1
    BY <1>6 DEF PressKey
  <2>2. MaxKeys \in Nat
    BY InterruptsAssumption
  <2> QED BY <2>1, <2>2 DEF NumberType
<1>7. CASE Interrupt \/ ReadKey \/ EndOfInterrupt \/ FirmwareTick
  <2>1. UNCHANGED <<tables, data, keys>>
    BY <1>7 DEF Interrupt, ReadKey, EndOfInterrupt, FirmwareTick
  <2> QED BY <2>1 DEF NumberType
<1>8. CASE UNCHANGED vars
  BY <1>8 DEF vars, NumberType
<1> QED BY <1>1, <1>2, <1>3, <1>4, <1>5, <1>6, <1>7, <1>8
        DEF Next, Processor, InitInterrupts

LEMMA StepControlType == ControlType /\ [Next]_vars => ControlType'
<1> SUFFICES ASSUME ControlType, [Next]_vars PROVE ControlType'
  OBVIOUS
<1> USE DEF ControlType, tables, keyboard
<1>1. CASE InitCpu \/ InitGraphics
  BY <1>1 DEF InitCpu, InitGraphics
<1>2. CASE InitGdt
  BY <1>2 DEF InitGdt, UnknownHandler
<1>3. CASE SetupPaging \/ GiveUp \/ ExitBootServices
  BY <1>3 DEF SetupPaging, GiveUp, ExitBootServices
<1>4. CASE ReallocBuffer
  BY <1>4 DEF ReallocBuffer
<1>5. CASE GetMemoryMap
  BY <1>5 DEF GetMemoryMap
<1>6. CASE CountEntries
  BY <1>6 DEF CountEntries, UnknownHandler
<1>7. CASE InitInterrupts
  <2>1. CASE FindMadt \/ LoadIdt \/ SetDestination \/ Unmask \/ Sti
    BY <1>7, <2>1 DEF FindMadt, LoadIdt, SetDestination, UnknownHandler, Unmask, Sti
  <2>2. CASE ReadEntry
    <3>1. pc' \in {"failed", "enable", "madt"}
      BY <2>2 DEF ReadEntry
    <3>2. UNCHANGED <<handler, idt, cpu>>
      BY <1>7, <2>2 DEF ReadEntry
    <3> QED BY <3>1, <3>2
  <2>3. CASE EnableApic
    BY <1>7, <2>3 DEF EnableApic, DisablePic
  <2>4. CASE SetUnknown \/ SetUnknownSoftware \/ SetNamed
    <3>1. pc' \in {"unknown", "software", "named", "destination"}
      BY <2>4 DEF SetUnknown, SetUnknownSoftware, SetNamed
    <3>2. UNCHANGED <<handler, idt, cpu>>
      BY <1>7, <2>4 DEF SetUnknown, SetUnknownSoftware, SetNamed
    <3> QED BY <3>1, <3>2
  <2> QED BY <1>7, <2>1, <2>2, <2>3, <2>4 DEF InitInterrupts
<1>8. CASE Interrupt
  BY <1>8 DEF Interrupt, UnknownHandler
<1>9. CASE ReadKey \/ EndOfInterrupt
  BY <1>9 DEF ReadKey, EndOfInterrupt
<1>10. CASE PressKey
  BY <1>10 DEF PressKey
<1>11. CASE FirmwareTick
  BY <1>11 DEF FirmwareTick
<1>12. CASE UNCHANGED vars
  BY <1>12 DEF vars
<1> QED BY <1>1, <1>2, <1>3, <1>4, <1>5, <1>6, <1>7, <1>8, <1>9, <1>10, <1>11, <1>12
        DEF Next, Processor, InitMemory

LEMMA StepFlagType == FlagType /\ [Next]_vars => FlagType'
<1> SUFFICES ASSUME FlagType, [Next]_vars PROVE FlagType'
  OBVIOUS
<1> USE DEF FlagType, tables, apic, routing, keyboard, map
<1>1. CASE InitCpu \/ InitGraphics
  BY <1>1 DEF InitCpu, InitGraphics
<1>2. CASE InitGdt
  BY <1>2 DEF InitGdt, UnknownHandler
<1>3. CASE SetupPaging \/ GiveUp \/ ExitBootServices
  BY <1>3 DEF SetupPaging, GiveUp, ExitBootServices
<1>4. CASE ReallocBuffer
  BY <1>4 DEF ReallocBuffer
<1>5. CASE GetMemoryMap
  BY <1>5 DEF GetMemoryMap
<1>6. CASE CountEntries
  BY <1>6 DEF CountEntries, UnknownHandler
<1>7. CASE InitInterrupts /\ UNCHANGED map
  <2>1. CASE FindMadt \/ LoadIdt \/ SetDestination \/ Unmask \/ Sti
    BY <1>7, <2>1 DEF FindMadt, LoadIdt, SetDestination, Unmask, Sti
  <2>2. CASE ReadEntry \/ EnableApic
    BY <1>7, <2>2 DEF ReadEntry, EnableApic, DisablePic
  <2>3. CASE SetUnknown \/ SetUnknownSoftware \/ SetNamed
    BY <1>7, <2>3 DEF SetUnknown, SetUnknownSoftware, SetNamed
  <2> QED BY <1>7, <2>1, <2>2, <2>3 DEF InitInterrupts
<1>8. CASE Interrupt /\ UNCHANGED map
  BY <1>8 DEF Interrupt, UnknownHandler
<1>9. CASE (ReadKey \/ EndOfInterrupt) /\ UNCHANGED map
  BY <1>9 DEF ReadKey, EndOfInterrupt
<1>10. CASE PressKey /\ UNCHANGED map
  BY <1>10 DEF PressKey
<1>11. CASE FirmwareTick
  BY <1>11 DEF FirmwareTick
<1>12. CASE UNCHANGED vars
  BY <1>12 DEF vars
<1> QED BY <1>1, <1>2, <1>3, <1>4, <1>5, <1>6, <1>7, <1>8, <1>9, <1>10, <1>11, <1>12
        DEF Next, Processor, InitMemory

\* The memory map is asked for no more often than the loop has tries, the bytes left of the
\* MADT never become fewer than none, and every variable has its type (uefi.c:37-50,
\* interrupts.c:185-213).
THEOREM TypeCorrect == Spec => []TypeOK
<1> DEFINE I == MapType /\ NumberType /\ ControlType /\ FlagType /\ GInv /\ WalkInv /\ IdInv
<1>1. BootInit => I
  BY InitType, InitTable, InitWalk
<1>2. I /\ [Next]_vars => I'
  BY StepMapType, StepNumberType, StepControlType, StepFlagType, StepTable, StepWalk
<1>3. I => TypeOK
  <2> SUFFICES ASSUME I PROVE TypeOK
    OBVIOUS
  <2>1. {pic_masked, interrupts_on, unmasked, full, irr, early} \subseteq BOOLEAN
    BY Zenon DEF FlagType
  <2>2. {current, descr_size_known} \subseteq BOOLEAN
    BY Zenon DEF FlagType
  <2>3. {local_apic_id, destination} \subseteq Vector /\ io_apic_id \in Vector \cup {None}
    BY DEF NumberType
  <2>4. machine \in Machines /\ DOMAIN gates = Vector
    BY DEF WalkInv, GInv
  <2> QED BY <2>1, <2>2, <2>3, <2>4 DEF MapType, NumberType, ControlType, TypeOK
<1> QED BY <1>1, <1>2, <1>3, PTL DEF Spec
=============================================================================
