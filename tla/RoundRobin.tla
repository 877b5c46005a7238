----------------------------- MODULE RoundRobin -----------------------------
(***************************************************************************)
(* What the process table promises: coroutines in the order of their       *)
(* birth, each of which goes on exactly where it stopped when its turn     *)
(* comes again.                                                            *)
(***************************************************************************)
EXTENDS Naturals, Sequences

CONSTANTS
  Context, Fresh(_), Ip,
  Capacity  \* processes there is room for

VARIABLES
  procs,    \* where each process is, in the order of birth
  active,   \* whose turn it is
  stopped,  \* the machine is off, halted or reset
  broken    \* there was no room for a process: nothing is promised any more

vars == <<procs, active, stopped, broken>>

Runs == ~stopped /\ ~broken

Init ==
  /\ \E e \in Ip : procs = <<Fresh(e)>>
  /\ active = 1
  /\ stopped = FALSE
  /\ broken = FALSE

\* The process whose turn it is executes its own code.
Execute ==
  /\ Runs
  /\ \E c \in Context : procs' = [procs EXCEPT ![active] = c]
  /\ UNCHANGED <<active, stopped, broken>>

\* It starts another one, last in the order.
Fork ==
  /\ Runs
  /\ Len(procs) < Capacity
  /\ \E e \in Ip : procs' = Append(procs, Fresh(e))
  /\ UNCHANGED <<active, stopped, broken>>

\* It passes the turn on; nobody moves.
Yield ==
  /\ Runs
  /\ active' = IF active = Len(procs) THEN 1 ELSE active + 1
  /\ UNCHANGED <<procs, stopped, broken>>

Stop ==
  /\ Runs
  /\ stopped' = TRUE
  /\ UNCHANGED <<procs, active, broken>>

\* The one call that is not allowed, and whatever comes of it.
Overflow == Runs /\ Len(procs) = Capacity /\ broken' = TRUE
Anything == broken /\ broken' = TRUE

Next == Execute \/ Fork \/ Yield \/ Stop \/ Overflow \/ Anything

Spec == Init /\ [][Next]_vars
=============================================================================
