------------------------------ MODULE PagePool ------------------------------
(***************************************************************************)
(* What the page allocator of memory.c promises, without its linked list:  *)
(* a set of free pages and a set of pages in somebody's hands.             *)
(***************************************************************************)
CONSTANT Page

VARIABLES
  free,   \* pages nobody uses
  held,   \* pages handed out, to a caller or to the page tables
  oom     \* the allocator has stopped the machine for want of a page

vars == <<free, held, oom>>

Init == free = {} /\ held = {} /\ oom = FALSE

\* A page nobody knew of joins the pool: conventional memory when the pool is
\* built, reclaimed boot services code later.
Donate(p) ==
  /\ p \in Page \ (free \cup held)
  /\ free' = free \cup {p}
  /\ UNCHANGED <<held, oom>>

\* A free page is handed out; which one is the allocator's choice.
Take(p) ==
  /\ p \in free
  /\ free' = free \ {p}
  /\ held' = held \cup {p}
  /\ UNCHANGED oom

\* A page in use comes back.
Return(p) ==
  /\ p \in held
  /\ free' = free \cup {p}
  /\ held' = held \ {p}
  /\ UNCHANGED oom

\* Only an empty pool may stop the machine.
Exhausted == free = {} /\ oom' = TRUE /\ UNCHANGED <<free, held>>

Next == Exhausted \/ \E p \in Page : Donate(p) \/ Take(p) \/ Return(p)

Spec == Init /\ [][Next]_vars
=============================================================================
