-------------------------------- MODULE Heap --------------------------------
(***************************************************************************)
(* kmalloc, morecore and kfree of src/src/memory.c: K&R's circular list of *)
(* free blocks in address order, with sizes in bytes.                      *)
(*                                                                         *)
(* The code as compiled for a machine whose words are one byte wide: the   *)
(* union header has two of them, next and size, so sizeof(Header) is 2,    *)
(* addresses wrap around at M, and adding n to a Header pointer adds 2 * n. *)
(* Allocation happens with interrupts off or before anything else runs:    *)
(* calls do not overlap.                                                   *)
(***************************************************************************)
EXTENDS Naturals, FiniteSets, FiniteSetsExt

CONSTANTS
  M,         \* 2^64
  PAGE,      \* 0x1000
  HEAP,      \* 8 GB, where brk starts
  MaxPages,  \* physical pages there are for the heap
  Sizes      \* bytes asked for, 0 among them or not

HDR == 2
NULL == 0
base == 1    \* a Header among the kernel's data, below the heap
Idle == M    \* no request: more than any

ASSUME HeapAssumption ==
  /\ {M, PAGE, HEAP, MaxPages} \subseteq Nat
  /\ HDR <= PAGE
  /\ base + HDR <= HEAP
  /\ HEAP + PAGE * MaxPages + HDR < M
  /\ Sizes \subseteq 0 .. M - 1

VARIABLES
  mem,     \* memory, word by word
  freep, brk,
  want,    \* the request kmalloc is working on, or Idle
  cpu,     \* "run", "oom", "pf" (a header written to no page), or "spin"
  live,    \* history: what the callers hold, as [ptr, size] with the size asked for
  sound    \* history: every block taken was in the heap, and large enough where it
           \* lies, and none were merged

vars == <<mem, freep, brk, want, cpu, live, sound>>

Address == 0 .. M - 1
Mapped(a) == a \in base .. base + HDR - 1 \/ a \in HEAP .. brk - 1

\* The fields of the header at a.
Next_(m, a) == m[a]
Size(m, a) == m[(a + 1) % M]

\* The blocks of the free list from start on.  A walk past more blocks than there
\* is room for never ends.
MaxBlocks == (PAGE * MaxPages) \div HDR + 1
Walk(m, start) ==
  LET node[i \in Nat] == IF i = 0 THEN start ELSE Next_(m, node[i - 1]) IN node
BlocksFrom(m, start) == {Walk(m, start)[k] : k \in 0 .. MaxBlocks}

\* The k-th block, counted from freep.
Node(m, k) == Walk(m, freep)[k]

\* ((Header *) ptr) - 1.
HeaderOf(b) == (b.ptr + M - HDR) % M

\* The headers in the heap, and where the memory behind one ends in fact.
FreeBlocks == IF freep = NULL THEN {} ELSE BlocksFrom(mem, freep)
Headers == (FreeBlocks \ {base}) \cup {HeaderOf(b) : b \in live}
End(h) == Min({a \in Headers : a > h} \cup {brk})

Init ==
  /\ mem = [a \in Address |-> 0]
  /\ freep = NULL
  /\ brk = HEAP
  /\ want = Idle
  /\ cpu = "run"
  /\ live = {}
  /\ sound = TRUE

\* Mutant of Kmalloc: the header is counted in, as K&R do.
KmallocWithHeader(nbytes) ==
  /\ cpu = "run" /\ want = Idle
  /\ want' = nbytes + HDR
  /\ IF freep = NULL
     THEN mem' = [mem EXCEPT ![base] = base, ![base + 1] = 0] /\ freep' = base
     ELSE UNCHANGED <<mem, freep>>
  /\ UNCHANGED <<brk, cpu, live, sound>>

\* kmalloc is called; the first time, base becomes the whole list.
Kmalloc(nbytes) ==
  /\ cpu = "run" /\ want = Idle
  /\ want' = nbytes
  /\ IF freep = NULL
     THEN mem' = [mem EXCEPT ![base] = base, ![base + 1] = 0] /\ freep' = base
     ELSE UNCHANGED <<mem, freep>>
  /\ UNCHANGED <<brk, cpu, live, sound>>

\* The blocks the loop of kmalloc may stop at, by their number: large enough, or
\* back at freep.
Stops == {k \in 1 .. MaxBlocks : Size(mem, Node(mem, k)) >= want \/ Node(mem, k) = freep}
LargeEnough == Stops # {} /\ Size(mem, Node(mem, Min(Stops))) >= want

\* The search ends at a block: it is taken whole or split, with the header of the
\* rest at distance gap and its size reduced by less.
Split(gap, less) ==
  LET prevp == Node(mem, Min(Stops) - 1)
      currp == Node(mem, Min(Stops))
      rest == (currp + gap) % M
      exact == Size(mem, currp) = want
  IN
  /\ cpu = "run" /\ want # Idle /\ LargeEnough
  /\ mem' = IF exact THEN [mem EXCEPT ![prevp] = Next_(mem, currp)]
            ELSE [mem EXCEPT ![currp + 1] = want,
                             ![prevp] = rest,
                             ![rest] = Next_(mem, currp),
                             ![(rest + 1) % M] = (Size(mem, currp) + M - less) % M]
  /\ cpu' = IF exact \/ (Mapped(rest) /\ Mapped(rest + 1)) THEN "run" ELSE "pf"
  /\ freep' = prevp
  /\ want' = Idle
  /\ live' = live \cup {[ptr |-> (currp + HDR) % M, size |-> want]}
  /\ sound' = (sound /\ currp # base
                     /\ (IF exact THEN currp ELSE rest) + HDR <= End(currp)
                     /\ currp + HDR + want <= End(currp))
  /\ UNCHANGED brk

\* Mutant of TakeBlock: the rest overlaps the end of the block.
TakeBlockShort == Split(want, want + HDR)

\* Mutant of TakeBlock: the header of the rest is not counted.
TakeBlockLong == Split(want + HDR, want)

\* The header of the rest goes behind the bytes asked for, and its size is what is
\* left, as an unsigned number.
TakeBlock == Split(want + HDR, want + HDR)

\* Mutant of Places: any block will do, as in a list without an order.
PlacesFirst(m, insertp) == {0}

\* Mutant of Places: the highest block is not looked for.
PlacesBetween(m, insertp) ==
  {k \in 0 .. MaxBlocks :
     Node(m, k) < insertp /\ insertp < Next_(m, Node(m, k))}

\* The numbers of the blocks that kfree's loop may stop at for a block at insertp.
Places(m, insertp) ==
  {k \in 0 .. MaxBlocks :
     LET currp == Node(m, k)
         next == Next_(m, currp)
     IN \/ currp < insertp /\ insertp < next
        \/ currp >= next /\ (currp < insertp \/ insertp < next)}

\* a + a->s.size == b, for header pointers.
Meets(m, a, b) == (a + HDR * Size(m, a)) % M = b

\* kfree, as the memory after it: the block joins the list behind currp, merged
\* with the blocks that the pointer arithmetic takes for its neighbours.
Inserted(m, insertp, currp) ==
  LET next == Next_(m, currp)
      joined == IF Meets(m, insertp, next)
                THEN [m EXCEPT ![insertp + 1] = (@ + Size(m, next)) % M,
                               ![insertp] = Next_(m, next)]
                ELSE [m EXCEPT ![insertp] = next]
  IN IF Meets(joined, currp, insertp)
     THEN [joined EXCEPT ![currp + 1] = (@ + Size(joined, insertp)) % M,
                         ![currp] = Next_(joined, insertp)]
     ELSE [joined EXCEPT ![currp] = insertp]

Insert(m, insertp) ==
  LET currp == Node(m, Min(Places(m, insertp))) IN
  IF Places(m, insertp) = {}
  THEN cpu' = "spin" /\ mem' = m /\ UNCHANGED <<freep, sound>>
  ELSE /\ mem' = Inserted(m, insertp, currp)
       /\ freep' = currp
       /\ sound' = (sound /\ ~Meets(m, insertp, Next_(m, currp)) /\ ~Meets(m, currp, insertp))
       /\ UNCHANGED cpu

\* kmalloc came round to freep: morecore, and the search starts again there.  In a
\* list that never comes round it goes on for ever.
Morecore ==
  LET pages == ((want + HDR - 1) % M) \div PAGE + 1 IN
  /\ cpu = "run" /\ want # Idle /\ ~LargeEnough
  /\ IF Stops = {} THEN cpu' = "spin" /\ UNCHANGED <<mem, freep, brk, sound>>
     ELSE IF brk + PAGE * pages > HEAP + PAGE * MaxPages
     THEN cpu' = "oom" /\ brk' = HEAP + PAGE * MaxPages /\ UNCHANGED <<mem, freep, sound>>
     ELSE /\ brk' = brk + PAGE * pages
          /\ Insert([mem EXCEPT ![brk + 1] = PAGE * pages], brk)
  /\ UNCHANGED <<want, live>>

Kfree(b) ==
  /\ cpu = "run" /\ want = Idle
  /\ Insert(mem, HeaderOf(b))
  /\ live' = live \ {b}
  /\ UNCHANGED <<brk, want>>

Next ==
  \/ \E nbytes \in Sizes : Kmalloc(nbytes)
  \/ TakeBlock \/ Morecore
  \/ \E b \in live : Kfree(b)

Spec == Init /\ [][Next]_vars

-----------------------------------------------------------------------------

TypeOK ==
  /\ mem \in [Address -> Address]
  /\ freep \in Address /\ brk \in Address
  /\ want \in Sizes \cup {Idle}
  /\ cpu \in {"run", "oom", "pf", "spin"}
  /\ live \subseteq [ptr : Address, size : Sizes]
  /\ sound \in BOOLEAN

Header(a) == a .. a + HDR - 1
Payload(b) == b.ptr .. b.ptr + b.size - 1

\* memory.c:533, "looking for a block of memory large enough": what kmalloc hands
\* out is the caller's alone, every byte of it in the heap, and its owner can
\* fill it without touching another caller's memory or any header.
BlocksDisjoint ==
  \A b \in live :
    /\ \A a \in Payload(b) : Mapped(a)
    /\ \A c \in live \ {b} : Payload(b) \cap (Header(HeaderOf(c)) \cup Payload(c)) = {}
    /\ \A f \in FreeBlocks : (Header(HeaderOf(b)) \cup Payload(b)) \cap Header(f) = {}

\* There are three ways to break the heap: to take a block that is not large enough
\* as it lies (memory.c:538, 545-548, 586), to merge by pointer arithmetic
\* (memory.c:611-620), and to hand out base itself to a caller who asks for no bytes
\* (memory.c:535-538).  Until then, BlocksDisjoint.
BlocksDisjointWhileSound == sound => BlocksDisjoint

\* Until then, the free list is one cycle through base in the order of addresses,
\* and its headers lie in mapped memory: no search runs away or forever.
ListCircular ==
  sound /\ freep # NULL =>
    /\ base \in FreeBlocks
    /\ \A f \in FreeBlocks : \A a \in Header(f) : Mapped(a)
    /\ Cardinality({f \in FreeBlocks : Next_(mem, f) <= f}) = 1

\* Until then, every header is reached from the one before it: what is freed comes
\* back whole and no memory drops out of sight, between the blocks in use and the
\* free ones.  Only the last block of what morecore got counts its header.
NothingLost ==
  sound =>
    \A h \in Headers :
      \/ (h + HDR + Size(mem, h)) \in Headers
      \/ (h + Size(mem, h)) \in {HEAP + PAGE * p : p \in 0 .. MaxPages}

\* Until then, the loops of kmalloc and kfree end (memory.c:534, 603).
NeverSpins == sound => cpu # "spin"

\* memory.c:572, "as many pages as necessary": the header of a rest is written to a
\* page of the heap.
HeadersOnPages == cpu # "pf"

\* memory.c:601, "looking for the position in the list to place the insertion
\* block": there is one for every block that comes back.
KfreeFindsPlace == cpu # "spin"
=============================================================================
