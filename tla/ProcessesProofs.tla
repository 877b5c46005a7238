--------------------------- MODULE ProcessesProofs ---------------------------
(***************************************************************************)
(* As long as there is a slot for every fork, the table of Processes       *)
(* behaves as coroutines should, for any number of slots and any programs. *)
(***************************************************************************)
EXTENDS Processes, Sequences, FiniteSetTheorems, SequenceTheorems, TLAPS

\* What holds until a fork finds no slot; forks only grows.
IInv == /\ forks \in Nat
        /\ forks < NSLOTS => TypeOK /\ TableSound /\ YieldReturns

\* The free slot is the one behind those in use, or the one that is not there.
LEMMA NextFreeSlot ==
  ASSUME NEW k \in 0 .. NSLOTS, running_processes = 0 .. k - 1, NSLOTS \in Nat
  PROVE  AvailableSlot = k
<1> DEFINE Fits(s) == /\ s \notin running_processes
                      /\ \A t \in 0 .. s - 1 : t \in running_processes
<1>1. Fits(k)
  OBVIOUS
<1>2. \A s \in 0 .. NSLOTS : Fits(s) => s = k
  OBVIOUS
<1>3. AvailableSlot = CHOOSE s \in 0 .. NSLOTS : Fits(s)
  BY DEF AvailableSlot
<1> HIDE DEF Fits
<1> QED BY <1>1, <1>2, <1>3

\* INT 36 finds the next slot in use, and after the last the first.
LEMMA NextInTurn ==
  ASSUME TypeOK, TableSound, forks < NSLOTS, NSLOTS \in Nat \ {0}
  PROVE  NextCurrent = IF current_process = forks THEN 0 ELSE current_process + 1
<1> DEFINE n == IF current_process = forks THEN NSLOTS - forks ELSE 1
           Fits(d) == /\ Ahead(d) \in running_processes
                      /\ \A c \in 1 .. d - 1 : Ahead(c) \notin running_processes
<1> USE DEF TypeOK, TableSound
<1>1. forks \in Nat /\ current_process \in 0 .. forks /\ n \in 1 .. NSLOTS
  OBVIOUS
<1>2. \A c \in 1 .. NSLOTS : Ahead(c) = IF current_process + c < NSLOTS
                                       THEN current_process + c
                                       ELSE current_process + c - NSLOTS
  BY <1>1 DEF Ahead
<1>3. Ahead(n) = IF current_process = forks THEN 0 ELSE current_process + 1
  BY <1>1, <1>2
<1>4. Fits(n)
  BY <1>1, <1>2
<1>5. \A d \in 1 .. NSLOTS : Fits(d) => d = n
  <2>1. SUFFICES ASSUME NEW d \in 1 .. NSLOTS, Fits(d), d # n
                 PROVE  FALSE
    OBVIOUS
  <2>2. CASE d < n
    BY <1>1, <1>2, <2>1, <2>2
  <2>3. CASE d > n
    BY <1>1, <1>4, <2>1, <2>3
  <2> QED BY <1>1, <2>1, <2>2, <2>3
<1>6. NextCurrent = Ahead(CHOOSE d \in 1 .. NSLOTS : Fits(d))
  BY DEF NextCurrent
<1> HIDE DEF Fits, n
<1>7. (CHOOSE d \in 1 .. NSLOTS : Fits(d)) = n
  BY <1>1, <1>4, <1>5
<1> QED BY <1>3, <1>6, <1>7

LEMMA InitInvariant == Init => IInv
BY ProcessesAssumption DEF Init, IInv, TypeOK, TableSound, YieldReturns, Slot, Context, Fresh

\* Steps of the first NSLOTS - 1 forks keep it.
LEMMA ForksGrow ==
  ASSUME forks \in Nat, [Next]_vars
  PROVE  forks' \in Nat /\ forks' >= forks
BY DEF Next, Execute, InterruptWithoutStack, Yield, YieldOutside, Fork, Stop, vars

LEMMA StepInvariant ==
  ASSUME IInv, [Next]_vars
  PROVE  IInv'
<1> SUFFICES ASSUME forks' < NSLOTS
             PROVE  (TypeOK /\ TableSound /\ YieldReturns)'
  BY ForksGrow, ProcessesAssumption DEF IInv
<1> forks \in Nat /\ forks' \in Nat /\ forks < NSLOTS /\ TypeOK /\ TableSound /\ YieldReturns
  BY ForksGrow, ProcessesAssumption DEF IInv
<1> USE ProcessesAssumption DEF TypeOK, TableSound, YieldReturns, Slot, Context, Fresh
<1>1. CASE Execute
  BY <1>1 DEF Execute
<1>2. CASE InterruptWithoutStack
  BY <1>2 DEF InterruptWithoutStack
<1>3. CASE Yield
  <2>1. NextCurrent \in running_processes /\ NextCurrent \in Slot
    BY NextInTurn
  <2>2. PICK saved \in [Slot -> Context] :
          /\ ps' = saved
          /\ current_process' = NextCurrent
          /\ ip' = saved[NextCurrent].ip /\ sp' = saved[NextCurrent].sp
    BY <1>3, <2>1 DEF Yield
  <2>3. saved[NextCurrent] \in Context
    BY <2>1, <2>2
  <2>4. cpu' = "run" /\ UNCHANGED <<running_processes, forks>>
    BY <1>3, <2>1 DEF Yield
  <2> QED BY <2>1, <2>2, <2>3, <2>4
<1>4. ASSUME NEW e \in Ip, Fork(e)
      PROVE  (TypeOK /\ TableSound /\ YieldReturns)'
  <2>1. AvailableSlot = forks + 1 /\ AvailableSlot \in Slot
    <3>1. forks + 1 \in 0 .. NSLOTS - 1 /\ running_processes = 0 .. (forks + 1) - 1
      BY <1>4 DEF Fork
    <3> QED BY <3>1, NextFreeSlot
  <2>2. /\ running_processes' = running_processes \cup {forks + 1}
        /\ ps' = [ps EXCEPT ![forks + 1] = Fresh(e)]
        /\ forks' = forks + 1 /\ forks' \in 0 .. MaxForks
        /\ UNCHANGED <<current_process, ip, sp, cpu>>
    BY <1>4, <2>1 DEF Fork
  <2> QED BY <2>1, <2>2
<1>5. ASSUME NEW why \in {"off", "halted"}, Stop(why)
      PROVE  (TypeOK /\ TableSound /\ YieldReturns)'
  BY <1>5 DEF Stop
<1>6. CASE YieldOutside
  BY <1>6 DEF YieldOutside
<1>7. CASE UNCHANGED vars
  BY <1>7 DEF vars
<1> QED BY <1>1, <1>2, <1>3, <1>4, <1>5, <1>6, <1>7 DEF Next

\* The variables have their types until a fork finds no slot.
THEOREM TypeCorrect == Spec => [](forks < NSLOTS => TypeOK)
<1>1. IInv /\ [Next]_vars => IInv'
  BY StepInvariant
<1> QED BY InitInvariant, <1>1, PTL DEF Spec, IInv

\* As long as every fork found a slot, the bit mask, the current slot and the forks
\* made agree.
THEOREM TableStaysSound == Spec => []TableSound
<1>1. IInv /\ [Next]_vars => IInv'
  BY StepInvariant
<1>2. IInv => TableSound
  BY DEF IInv, TableSound
<1> QED BY InitInvariant, <1>1, <1>2, PTL DEF Spec

\* The scan of INT 36 ends, at a slot in use, until a fork finds no slot
\* (handlers.c:203-210).
THEOREM YieldAlwaysReturns == Spec => []YieldReturns
<1>1. IInv /\ [Next]_vars => IInv'
  BY StepInvariant
<1>2. IInv => YieldReturns
  BY DEF IInv, YieldReturns
<1> QED BY InitInvariant, <1>1, <1>2, PTL DEF Spec

\* The processes as RoundRobin counts them.
Number == Cardinality(running_processes)
Procs == [i \in 1 .. Number |->
            IF i - 1 = current_process THEN [ip |-> ip, sp |-> sp] ELSE ps[i - 1]]

LEMMA FunctionIsSequence ==
  ASSUME NEW S, NEW n \in Nat, NEW f \in [1 .. n -> S]
  PROVE  f \in Seq(S)
BY SeqDef

LEMMA AppendAsFunction ==
  ASSUME NEW S, NEW s \in Seq(S), NEW e \in S
  PROVE  Append(s, e) = [i \in 1 .. Len(s) + 1 |-> IF i = Len(s) + 1 THEN e ELSE s[i]]
<1> DEFINE a == Append(s, e)
           f == [i \in 1 .. Len(s) + 1 |-> IF i = Len(s) + 1 THEN e ELSE s[i]]
<1>1. Len(s) \in Nat
  OBVIOUS
<1>2. a \in Seq(S) /\ Len(a) = Len(s) + 1
  BY AppendProperties
<1>3. f \in Seq(S) /\ Len(f) = Len(s) + 1
  <2>1. f \in [1 .. Len(s) + 1 -> S]
    BY <1>1
  <2> QED BY <1>1, <2>1, FunctionIsSequence
<1>4. \A i \in 1 .. Len(a) : a[i] = f[i]
  BY <1>1, <1>2, AppendProperties
<1> HIDE DEF a, f
<1>5. a = f
  BY <1>2, <1>3, <1>4, SeqEqual
<1> QED BY <1>5 DEF a, f

LEMMA NumberOfProcesses ==
  ASSUME TypeOK, TableSound, forks < NSLOTS
  PROVE  Number = forks + 1
BY FS_Interval DEF Number, TableSound, TypeOK

\* The table behaves as coroutines that take turns in the order of birth and go on
\* where they stopped, until there is a fork without a slot.
THEOREM RefinesRoundRobin == Spec => ImplementsRoundRobin
<1> USE ProcessesAssumption
<1>1. Init => Coroutines!Init
  <2> SUFFICES ASSUME Init PROVE Coroutines!Init
    OBVIOUS
  <2>1. PICK start \in Ip : ip = start
    BY DEF Init
  <2>2. Cardinality(running_processes) = 1
    BY FS_Singleton DEF Init
  <2>3. Procs = <<Fresh(start)>>
    BY <2>1, <2>2 DEF Init, Fresh, Procs, Number
  <2>4. \E e \in Ip : Procs = <<Fresh(e)>>
    BY <2>1, <2>3
  <2>5. current_process + 1 = 1 /\ (cpu # "run") = FALSE /\ (forks >= NSLOTS) = FALSE
    BY DEF Init
  <2> QED BY <2>4, <2>5 DEF Coroutines!Init, Procs, Number
<1>2. ASSUME IInv, IInv', [Next]_vars, forks' < NSLOTS
      PROVE  [Coroutines!Next]_Coroutines!vars
  <2> forks < NSLOTS /\ TypeOK /\ TableSound /\ TypeOK' /\ TableSound'
    BY <1>2, ForksGrow DEF IInv
  <2> (forks >= NSLOTS) = FALSE /\ (forks' >= NSLOTS) = FALSE
    BY <1>2 DEF TypeOK
  <2> USE <1>2 DEF TypeOK, TableSound, Slot, Context, Fresh
  <2>1. Number = forks + 1 /\ forks \in Nat
    BY NumberOfProcesses
  <2>2. Number' = forks' + 1 /\ forks' \in Nat
    BY FS_Interval DEF Number
  <2>3. CASE Execute
    <3>1. Procs' = [Procs EXCEPT ![current_process + 1] = [ip |-> ip', sp |-> sp']]
      <4>1. /\ Number' = Number /\ Number \in Nat
            /\ \A i \in 1 .. Number : i - 1 = current_process <=> i = current_process + 1
            /\ UNCHANGED <<ps, current_process>>
        BY <2>1, <2>2, <2>3 DEF Execute
      <4> QED BY <4>1 DEF Procs
    <3>2. [ip |-> ip', sp |-> sp'] \in Context
      OBVIOUS
    <3>3. (cpu # "run") = FALSE /\ UNCHANGED <<current_process, cpu>>
      BY <2>3 DEF Execute
    <3>4. Coroutines!Execute
      BY <3>1, <3>2, <3>3 DEF Coroutines!Execute, Coroutines!Runs, Procs, Number
    <3> QED BY <3>4 DEF Coroutines!Next
  <2>4. CASE InterruptWithoutStack
    <3>1. Coroutines!Stop
      BY <2>4 DEF InterruptWithoutStack, Coroutines!Stop, Coroutines!Runs
    <3> QED BY <3>1 DEF Coroutines!Next
  <2>5. CASE Yield
    <3>1. NextCurrent = IF current_process = forks THEN 0 ELSE current_process + 1
      BY <2>1, NextInTurn
    <3>2. UNCHANGED <<running_processes, forks, cpu>> /\ current_process' = NextCurrent
      BY <2>5 DEF Yield
    <3>3. PICK saved \in [Slot -> Context] :
            /\ saved = [ps EXCEPT ![current_process] = [ip |-> ip, sp |-> sp]]
            /\ ps' = saved
            /\ ip' = saved[NextCurrent].ip /\ sp' = saved[NextCurrent].sp
      BY <2>5 DEF Yield
    <3>4. Procs' = Procs
      <4>1. Number' = Number /\ Number = forks + 1 /\ forks < NSLOTS
        BY <2>1, <2>2, <3>2
      <4>2. ASSUME NEW i \in 1 .. Number
            PROVE  (IF i - 1 = current_process THEN [ip |-> ip, sp |-> sp] ELSE ps[i - 1])'
                   = IF i - 1 = current_process THEN [ip |-> ip, sp |-> sp] ELSE ps[i - 1]
        <5>1. i - 1 \in Slot /\ NextCurrent \in Slot
          BY <2>1, <3>1, <4>1
        <5>2. saved[i - 1] = IF i - 1 = current_process THEN [ip |-> ip, sp |-> sp] ELSE ps[i - 1]
          BY <3>3, <5>1
        <5>3. saved[NextCurrent] = [ip |-> saved[NextCurrent].ip, sp |-> saved[NextCurrent].sp]
          BY <5>1
        <5>4. (IF i - 1 = current_process THEN [ip |-> ip, sp |-> sp] ELSE ps[i - 1])' = saved[i - 1]
          BY <3>2, <3>3, <5>3
        <5> QED BY <5>2, <5>4
      <4> QED BY <4>1, <4>2 DEF Procs
    <3>5. Len(Procs) = Number /\ (current_process + 1)' = IF current_process + 1 = Number
                                                         THEN 1 ELSE current_process + 1 + 1
      BY <2>1, <3>1, <3>2 DEF Procs
    <3>6. (cpu # "run") = FALSE
      BY <2>5 DEF Yield
    <3>7. Coroutines!Yield
      <4>1. (cpu # "run")' = (cpu # "run")
        BY <3>2
      <4> QED BY <3>4, <3>5, <3>6, <4>1 DEF Coroutines!Yield, Coroutines!Runs, Procs, Number
    <3> QED BY <3>7 DEF Coroutines!Next
  <2>6. ASSUME NEW e \in Ip, Fork(e)
        PROVE  Coroutines!Next
    <3>1. AvailableSlot = forks + 1 /\ AvailableSlot \in Slot
      <4>1. forks + 1 \in 0 .. NSLOTS - 1 /\ running_processes = 0 .. (forks + 1) - 1
        BY <2>6 DEF Fork
      <4> QED BY <4>1, NextFreeSlot
    <3>2. /\ forks' = forks + 1
          /\ ps' = [ps EXCEPT ![forks + 1] = Fresh(e)]
          /\ UNCHANGED <<current_process, ip, sp, cpu>>
      BY <2>6, <3>1 DEF Fork
    <3>3. Procs' = Append(Procs, Fresh(e))
      <4>1. /\ Number' = Number + 1 /\ Number = forks + 1 /\ forks \in Nat
            /\ current_process \in 0 .. forks
        BY <2>1, <2>2, <3>2
      <4>2. Procs \in Seq(Context) /\ Len(Procs) = Number
        <5>1. \A i \in 1 .. Number : i - 1 \in Slot
          BY <3>1, <4>1
        <5>2. [ip |-> ip, sp |-> sp] \in Context
          OBVIOUS
        <5>3. Procs \in [1 .. Number -> Context]
          BY <5>1, <5>2 DEF Procs
        <5>4. Len(Procs) = Number
          BY <4>1 DEF Procs
        <5>5. Procs \in Seq(Context)
          <6> HIDE DEF Context
          <6>1. Number \in Nat
            BY <4>1
          <6> QED BY <5>3, <6>1, FunctionIsSequence, Zenon
        <5> QED BY <5>4, <5>5
      <4>3. Append(Procs, Fresh(e)) = [i \in 1 .. Number + 1 |-> IF i = Number + 1 THEN Fresh(e) ELSE Procs[i]]
        <5>1. Fresh(e) \in Context
          OBVIOUS
        <5> HIDE DEF Context, Fresh
        <5> QED BY <4>2, <5>1, AppendAsFunction
      <4>4. ASSUME NEW i \in 1 .. Number + 1
            PROVE  (IF i - 1 = current_process THEN [ip |-> ip, sp |-> sp] ELSE ps[i - 1])'
                   = IF i = Number + 1 THEN Fresh(e)
                     ELSE IF i - 1 = current_process THEN [ip |-> ip, sp |-> sp] ELSE ps[i - 1]
        BY <3>1, <3>2, <4>1
      <4>5. Procs' = [i \in 1 .. Number + 1 |->
                        IF i = Number + 1 THEN Fresh(e)
                        ELSE IF i - 1 = current_process THEN [ip |-> ip, sp |-> sp] ELSE ps[i - 1]]
        BY <4>1, <4>4 DEF Procs
      <4>6. \A i \in 1 .. Number + 1 : i # Number + 1 =>
              Procs[i] = IF i - 1 = current_process THEN [ip |-> ip, sp |-> sp] ELSE ps[i - 1]
        BY <4>1 DEF Procs
      <4> HIDE DEF Procs
      <4> QED BY <4>3, <4>5, <4>6
    <3>4. (cpu # "run") = FALSE
      BY <2>6 DEF Fork
    <3>5. Len(Procs) < NSLOTS
      <4>1. Number = forks + 1 /\ forks + 1 < NSLOTS
        BY <2>1, <3>2
      <4> QED BY <4>1 DEF Procs
    <3>6. UNCHANGED <<current_process + 1, cpu # "run", forks >= NSLOTS>>
      BY <3>2
    <3>7. Coroutines!Fork
      <4> HIDE DEF Fresh
      <4> QED BY <3>3, <3>4, <3>5, <3>6 DEF Coroutines!Fork, Coroutines!Runs, Procs, Number
    <3> QED BY <3>7 DEF Coroutines!Next
  <2>7. ASSUME NEW why \in {"off", "halted"}, Stop(why)
        PROVE  Coroutines!Next
    <3>1. Coroutines!Stop
      BY <2>7 DEF Stop, Coroutines!Stop, Coroutines!Runs
    <3> QED BY <3>1 DEF Coroutines!Next
  <2>8. CASE YieldOutside
    BY <2>8 DEF YieldOutside
  <2>9. CASE UNCHANGED vars
    BY <2>9 DEF vars, Coroutines!vars
  <2> QED BY <2>3, <2>4, <2>5, <2>6, <2>7, <2>8, <2>9 DEF Next
<1>3. ASSUME IInv, IInv', [Next]_vars, forks' >= NSLOTS
      PROVE  [Coroutines!Next]_Coroutines!vars
  <2>1. CASE forks >= NSLOTS
    <3>1. Coroutines!Anything
      BY <1>3, <2>1 DEF Coroutines!Anything
    <3> QED BY <3>1 DEF Coroutines!Next
  <2>2. CASE forks < NSLOTS
    <3>1. PICK e \in Ip : Fork(e)
      BY <1>3, <2>2 DEF IInv, Next, Execute, InterruptWithoutStack, Yield, YieldOutside, Stop, vars
    <3>2. forks + 1 = NSLOTS /\ TypeOK /\ TableSound
      BY <1>3, <2>2, <3>1 DEF IInv, Fork
    <3>3. Len(Procs) = NSLOTS
      <4>1. Number = NSLOTS
        BY <2>2, <3>2, NumberOfProcesses
      <4> QED BY <4>1 DEF Procs
    <3>4. (cpu # "run") = FALSE /\ (forks >= NSLOTS) = FALSE /\ (forks' >= NSLOTS) = TRUE
      BY <1>3, <2>2, <3>1 DEF Fork, IInv
    <3>5. Coroutines!Overflow
      BY <3>3, <3>4 DEF Coroutines!Overflow, Coroutines!Runs, Procs, Number
    <3> QED BY <3>5 DEF Coroutines!Next
  <2> QED BY <1>3, <2>1, <2>2 DEF IInv
<1>4. IInv /\ [Next]_vars => IInv'
  BY StepInvariant
<1>5. IInv /\ IInv' /\ [Next]_vars => [Coroutines!Next]_Coroutines!vars
  BY <1>2, <1>3 DEF IInv
<1> QED BY InitInvariant, <1>1, <1>4, <1>5, PTL DEF Spec, ImplementsRoundRobin, Coroutines!Spec
=============================================================================
