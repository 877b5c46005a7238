-------------------------------- MODULE MCHeap --------------------------------
(* The heap on small pages, for callers free to choose and for main.c.         *)
EXTENDS Heap, Sequences

VARIABLE step   \* calls efi_main has made

\* Callers that may do anything, up to the first step that is not sound.
AnyInit == Init /\ step = 0
AnySpec == AnyInit /\ [][sound /\ Next /\ UNCHANGED step]_<<vars, step>>

\* The same callers, who go on.
LaterSpec == AnyInit /\ [][Next /\ UNCHANGED step]_<<vars, step>>

\* main.c:46-56, with the sizes of this machine: 0x10 is a header, 0x1002 a
\* page and 2 bytes, 0x1001 a page and a byte.
BootSizes == {HDR, PAGE + 2, 1, PAGE + 1}
BootCalls == <<HDR, PAGE + 2, 1, "free", PAGE + 1>>
BootNext ==
  \/ /\ step < Len(BootCalls)
     /\ step' = step + 1
     /\ IF step + 1 = 4 THEN \E b \in live : b.size = PAGE + 2 /\ Kfree(b)
        ELSE Kmalloc(BootCalls[step + 1])
  \/ (TakeBlock \/ Morecore) /\ UNCHANGED step
BootSpec == AnyInit /\ [][BootNext]_<<vars, step>>
=============================================================================
