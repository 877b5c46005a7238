------------------------------ MODULE Processes ------------------------------
(***************************************************************************)
(* The process table of src/src/process.h and the interrupts that use it:  *)
(* start_init enters the first process, INT 35 forks one, INT 36 yields.   *)
(* Everything runs in ring 0 on one processor; the gates are interrupt     *)
(* gates, so that a handler is one step, and only the key press arrives    *)
(* between instructions of a process.                                      *)
(*                                                                         *)
(* An interrupt pushes its frame on the stack of the process.  A process   *)
(* is entered with sp = 0 and has to set up a stack first: until it does,  *)
(* an interrupt cannot push, nor can the fault this raises (reset).        *)
(***************************************************************************)
EXTENDS Naturals, FiniteSets

CONSTANTS
  NSLOTS,     \* elements of ps, bits of running_processes: 16
  Ip, Sp,     \* code addresses, and stack pointers a process sets up
  LowByte,    \* the lowest byte of a code address
  MaxForks    \* bound on the calls of INT 35

ASSUME ProcessesAssumption ==
  /\ NSLOTS \in Nat \ {0}
  /\ 0 \notin Sp
  /\ LowByte \in [Ip -> Nat]
  /\ MaxForks \in Nat

VARIABLES
  ps, current_process, running_processes,
  ip, sp,     \* the registers INT 36 switches
  cpu,        \* "run", "off", "halted" by INT 33, "reset", "spin" in INT 36, or "lost":
              \* it wrote to memory that is not in the model
  forks       \* history: calls of INT 35

vars == <<ps, current_process, running_processes, ip, sp, cpu, forks>>

Slot == 0 .. NSLOTS - 1
Context == [ip : Ip, sp : Sp \cup {0}]
Fresh(e) == [ip |-> e, sp |-> 0]

\* start_init's table, and switch_to(k, 0).  The other slots hold zeroes.
Init ==
  /\ \E start \in Ip :
       /\ ps \in [Slot -> {Fresh(start)}]
       /\ ip = start
  /\ sp = 0
  /\ current_process = 0
  /\ running_processes = {0}
  /\ cpu = "run"
  /\ forks = 0

\* The process moves on, up to the next interrupt; every INT but 35, 36, 38 and
\* 33 returns to it without touching the table.
Execute ==
  /\ cpu = "run"
  /\ ip' \in Ip /\ sp' \in Sp
  /\ UNCHANGED <<ps, current_process, running_processes, cpu, forks>>

\* A key press, or an INT of a process without a stack.
InterruptWithoutStack ==
  /\ cpu = "run" /\ sp = 0
  /\ cpu' = "reset"
  /\ UNCHANGED <<ps, current_process, running_processes, ip, sp, forks>>

\* Mutant of AvailableSlot: without the - 1.
AvailableSlotFromOne ==
  CHOOSE s \in 1 .. NSLOTS + 1 :
    /\ s - 1 \notin running_processes
    /\ \A t \in 0 .. s - 2 : t \in running_processes

\* __builtin_ffs(~running_processes) - 1: the operand is an int, whose bits from
\* NSLOTS on are set.
AvailableSlot ==
  CHOOSE s \in 0 .. NSLOTS :
    /\ s \notin running_processes
    /\ \A t \in 0 .. s - 1 : t \in running_processes

\* INT 35.  Past the last slot, ps[NSLOTS] is what follows in struct processes:
\* current_process takes the lowest byte of the entry point and, unless the
\* compiler stores it after that, running_processes its third and fourth, which
\* are 0 for code that starts at 4 GB and is less than 64 KB.
Fork(new_ip) ==
  LET available_slot == AvailableSlot IN
  /\ cpu = "run" /\ sp # 0
  /\ forks < MaxForks
  /\ forks' = forks + 1
  /\ \/ /\ available_slot \in Slot
        /\ running_processes' = running_processes \cup {available_slot}
        /\ ps' = [ps EXCEPT ![available_slot] = Fresh(new_ip)]
        /\ UNCHANGED current_process
     \/ /\ available_slot \notin Slot
        /\ current_process' = LowByte[new_ip]
        /\ running_processes' \in {{}, running_processes}
        /\ UNCHANGED ps
  /\ UNCHANGED <<ip, sp, cpu>>

\* The slot d after the current one, going round.
Ahead(d) == (current_process + d) % NSLOTS

\* Mutant of NextCurrent: the scan starts with slot 0 every time.
NextCurrentFromZero ==
  LET others == running_processes \ {current_process} IN
  IF others = {} THEN current_process
  ELSE CHOOSE s \in others : \A t \in others : s <= t

\* The loop of INT 36: the first bit that is set, the current slot coming last.
NextCurrent ==
  LET d == CHOOSE d \in 1 .. NSLOTS :
             /\ Ahead(d) \in running_processes
             /\ \A c \in 1 .. d - 1 : Ahead(c) \notin running_processes
  IN Ahead(d)

\* Yield of a process that leaves context where it is and the slots running in use.
YieldLeaving(context, running) ==
  LET saved == [ps EXCEPT ![current_process] = context] IN
  /\ cpu = "run" /\ sp # 0
  /\ running_processes' = running
  /\ IF running_processes = {}
     THEN /\ cpu' = "spin"
          /\ ps' = saved
          /\ UNCHANGED <<current_process, ip, sp>>
     ELSE /\ ps' = saved
          /\ current_process' = NextCurrent
          /\ ip' = saved[NextCurrent].ip
          /\ sp' = saved[NextCurrent].sp
          /\ UNCHANGED cpu
  /\ UNCHANGED forks

\* Mutant of Yield: the places of ip and sp in the frame are mixed up.
YieldSwapped == YieldLeaving([ip |-> sp, sp |-> ip], running_processes)

\* Mutant of Yield: the bit of the process that yields is cleared.
YieldOnce == YieldLeaving([ip |-> ip, sp |-> sp], running_processes \ {current_process})

\* Mutant of Yield: current_process changes before the context is saved.
YieldSavingLate ==
  /\ cpu = "run" /\ sp # 0
  /\ current_process' = NextCurrent
  /\ ps' = [ps EXCEPT ![NextCurrent] = [ip |-> ip, sp |-> sp]]
  /\ UNCHANGED <<running_processes, ip, sp, cpu, forks>>

\* INT 36: save where the process is, and return to the next one instead.
Yield ==
  LET next_current == NextCurrent
      saved == [ps EXCEPT ![current_process] = [ip |-> ip, sp |-> sp]]
  IN
  /\ cpu = "run" /\ sp # 0 /\ current_process \in Slot
  /\ ps' = saved
  /\ IF running_processes = {}
     THEN /\ cpu' = "spin"
          /\ UNCHANGED <<current_process, ip, sp>>
     ELSE /\ current_process' = next_current
          /\ ip' = saved[next_current].ip
          /\ sp' = saved[next_current].sp
          /\ UNCHANGED cpu
  /\ UNCHANGED <<running_processes, forks>>

\* INT 36 with a slot that is not in the table: the context is saved over the fields
\* behind the table or over what follows struct kernel, and what comes of that the
\* model does not say.
YieldOutside ==
  /\ cpu = "run" /\ sp # 0 /\ current_process \notin Slot
  /\ cpu' = "lost"
  /\ UNCHANGED <<ps, current_process, running_processes, ip, sp, forks>>

\* INT 38 and INT 33.
Stop(why) ==
  /\ cpu = "run" /\ sp # 0
  /\ cpu' = why
  /\ UNCHANGED <<ps, current_process, running_processes, ip, sp, forks>>

Next ==
  \/ Execute \/ InterruptWithoutStack
  \/ Yield \/ YieldOutside \/ \E e \in Ip : Fork(e)
  \/ Stop("off") \/ Stop("halted")

Spec == Init /\ [][Next]_vars

-----------------------------------------------------------------------------

TypeOK ==
  /\ ps \in [Slot -> Context]
  /\ current_process \in Nat
  /\ running_processes \subseteq Slot
  /\ ip \in Ip /\ sp \in Sp \cup {0}
  /\ cpu \in {"run", "off", "halted", "reset", "spin", "lost"}
  /\ forks \in 0 .. MaxForks

\* As long as every fork found a slot, the bit mask, the current slot and the
\* number of forks agree: the slots in use are the first ones, one of them is
\* current, and no fork is lost or took the slot of a process that lives
\* (handlers.c:177-180, 205-216).
TableSound ==
  forks < NSLOTS =>
    /\ running_processes = 0 .. forks
    /\ current_process \in running_processes

\* As long as every fork found a slot, INT 36 comes back to some process
\* (handlers.c:201-219).
YieldReturns == forks < NSLOTS => cpu # "spin"

\* process.h:14, "Up to 16 forks for now": forks up to that number leave the
\* kernel running one of its processes.
UpToNSlotsForks == forks <= NSLOTS => current_process \in running_processes

\* However the processes execute, as long as they keep yielding each of them gets
\* its turn again and again, unless there is a fork too many: the scan of INT 36
\* skips nobody.
YieldingStarvesNobody ==
  []<><<Yield>>_vars =>
    \A s \in Slot :
      [](s \in running_processes => <>(current_process = s \/ forks >= NSLOTS))

Coroutines == INSTANCE RoundRobin WITH
  procs <- [i \in 1 .. Cardinality(running_processes) |->
              IF i - 1 = current_process THEN [ip |-> ip, sp |-> sp] ELSE ps[i - 1]],
  active <- current_process + 1,
  stopped <- cpu # "run",
  broken <- forks >= NSLOTS,
  Capacity <- NSLOTS

\* Every process goes on exactly where it yielded, or at its entry point the
\* first time, in the order of birth, and only a fork when all slots are in use
\* may end this.
ImplementsRoundRobin == Coroutines!Spec
=============================================================================
