---------------------------- MODULE PageAllocator ----------------------------
(***************************************************************************)
(* The physical page allocator of src/src/memory.c: a list of free pages   *)
(* threaded through the pages' own first words, headed by                  *)
(* kernel->memory.first_free_page.  init_memory fills it from the          *)
(* conventional memory, takes the page tables out of it, loads cr3 and     *)
(* returns the pages of the boot services code to it; afterwards the heap  *)
(* and the loader of init draw on it.                                      *)
(*                                                                         *)
(* The page tables appear here only as one present bit per page (Paging    *)
(* has the tree).  A page whose bit is cleared may stay reachable for a    *)
(* while through the TLB, as nothing executes invlpg: stale.               *)
(***************************************************************************)
EXTENDS Naturals

CONSTANTS
  Conventional,   \* pages of the _EfiConventionalMemory descriptors
  BootCode,       \* pages of the _EfiBootServicesCode descriptors
  NULL            \* address 0; the page there is BootServicesData (memory.c:205)

ASSUME PagesAssumption ==
  /\ NULL \notin Conventional \cup BootCode
  /\ Conventional \cap BootCode = {}

VARIABLES
  phase,            \* where init_memory is
  first_free_page,
  link,             \* first word of each page, as the address it spells
  present,          \* present bit of the page's identity mapping
  stale,            \* not present any more, but perhaps still in the TLB
  cpu,              \* "run", or why the machine halted: "oom", "pf"
  managed,          \* history: pages ever put on the list
  pages,            \* history: pages allocate_page has handed out
  tables,           \* history: pages taken for page tables
  depth             \* history: distance of a free page from the list's end

vars == <<phase, first_free_page, link, present, stale, cpu,
          managed, pages, tables, depth>>

Page == Conventional \cup BootCode
Word == Page \cup {NULL}
Free == managed \ (pages \cup tables)
DepthOf(w) == IF w = NULL THEN 0 ELSE depth[w]

\* The firmware's tables map everything; after write_cr3 ours decide, or the TLB.
Accessible(p) == phase \in {"list", "tables"} \/ present[p] \/ p \in stale

Init ==
  /\ phase = "list"
  /\ first_free_page = NULL
  /\ link \in [Page -> {NULL}]
  /\ present = [p \in Page |-> TRUE]
  /\ stale = {}
  /\ cpu = "run"
  /\ managed = {} /\ pages = {} /\ tables = {}
  /\ depth = [p \in Page |-> 0]

\* Mutant of Push: the page does not get the address of the next.
PushUnlinked(p) ==
  /\ first_free_page' = p
  /\ depth' = [depth EXCEPT ![p] = DepthOf(first_free_page) + 1]
  /\ UNCHANGED link

\* Puts page p in front of the list: *p = first_free_page; first_free_page = p.
Push(p) ==
  /\ link' = [link EXCEPT ![p] = first_free_page]
  /\ first_free_page' = p
  /\ depth' = [depth EXCEPT ![p] = DepthOf(first_free_page) + 1]

\* init_memory, the list of free pages; UEFI promises no order of the pages.
PushConventional(p) ==
  /\ cpu = "run" /\ phase = "list"
  /\ p \in Conventional \ managed
  /\ Push(p)
  /\ managed' = managed \cup {p}
  /\ UNCHANGED <<phase, present, stale, cpu, pages, tables>>

ListBuilt ==
  /\ cpu = "run" /\ phase = "list"
  /\ Conventional \subseteq managed
  /\ phase' = "tables"
  /\ UNCHANGED <<first_free_page, link, present, stale, cpu,
                 managed, pages, tables, depth>>

\* write_cr3: our tables take over and the TLB is flushed.
LoadCr3 ==
  /\ cpu = "run" /\ phase = "tables"
  /\ phase' = "reclaim"
  /\ stale' = {}
  /\ UNCHANGED <<first_free_page, link, present, cpu,
                 managed, pages, tables, depth>>

\* Mutant of Deallocate: the page does not become the new first_free_page.
DeallocateUnlisted(p) ==
  /\ link' = [link EXCEPT ![p] = first_free_page]
  /\ present' = [present EXCEPT ![p] = FALSE]
  /\ stale' = stale \cup {p}
  /\ UNCHANGED <<first_free_page, depth>>

\* The body of deallocate_page.  The write to *p goes through the mapping
\* before its present bit is cleared, so the TLB holds it from then on.
Deallocate(p) ==
  /\ Push(p)
  /\ present' = [present EXCEPT ![p] = FALSE]
  /\ stale' = stale \cup {p}

\* The last loop of init_memory: boot services code becomes free memory.
ReclaimBootCode(p) ==
  /\ cpu = "run" /\ phase = "reclaim"
  /\ p \in BootCode \ managed
  /\ Deallocate(p)
  /\ managed' = managed \cup {p}
  /\ UNCHANGED <<phase, cpu, pages, tables>>

InitDone ==
  /\ cpu = "run" /\ phase = "reclaim"
  /\ BootCode \subseteq managed
  /\ phase' = "run"
  /\ UNCHANGED <<first_free_page, link, present, stale, cpu,
                 managed, pages, tables, depth>>

Halt(why) ==
  /\ cpu' = why
  /\ UNCHANGED <<phase, first_free_page, link, present, stale,
                 managed, pages, tables, depth>>

\* allocate_page_inner on an empty list: DEBUG_HALT.
OutOfMemory ==
  /\ cpu = "run" /\ phase \in {"tables", "run"}
  /\ first_free_page = NULL
  /\ Halt("oom")

\* allocate_page_inner(k, true), for a page table: the link is read from the
\* page as it is mapped now, and the caller fills the page in.
TakeTablePage ==
  LET ret == first_free_page IN
  /\ cpu = "run" /\ phase \in {"tables", "run"}
  /\ ret # NULL
  /\ \/ /\ Accessible(ret)
        /\ first_free_page' = link[ret]
        /\ \E w \in Word : link' = [link EXCEPT ![ret] = w]
        /\ tables' = tables \cup {ret}
        /\ depth' = [depth EXCEPT ![ret] = 0]
        /\ UNCHANGED <<phase, present, stale, cpu, managed, pages>>
     \/ ~Accessible(ret) /\ Halt("pf")

\* Mutant of AllocatePage: address 0 is handed out for want of a page.
AllocatePageUnchecked ==
  LET ret == first_free_page IN
  /\ cpu = "run" /\ phase = "run"
  /\ first_free_page' = IF ret = NULL THEN NULL ELSE link[ret]
  /\ pages' = pages \cup {ret}
  /\ UNCHANGED <<phase, link, present, stale, cpu, managed, tables, depth>>

\* Mutant of AllocatePage: the page is cleared before its link is read.
AllocatePageClearedFirst ==
  LET ret == first_free_page IN
  /\ cpu = "run" /\ phase = "run"
  /\ ret # NULL
  /\ present' = [present EXCEPT ![ret] = TRUE]
  /\ stale' = stale \ {ret}
  /\ link' = [link EXCEPT ![ret] = NULL]
  /\ first_free_page' = NULL
  /\ pages' = pages \cup {ret}
  /\ depth' = [depth EXCEPT ![ret] = 0]
  /\ UNCHANGED <<phase, cpu, managed, tables>>

\* Mutant of AllocatePage: the page is not made present.
AllocatePageAbsent ==
  LET ret == first_free_page IN
  /\ cpu = "run" /\ phase = "run"
  /\ ret # NULL /\ Accessible(ret)
  /\ first_free_page' = link[ret]
  /\ link' = [link EXCEPT ![ret] = NULL]
  /\ pages' = pages \cup {ret}
  /\ depth' = [depth EXCEPT ![ret] = 0]
  /\ UNCHANGED <<phase, present, stale, cpu, managed, tables>>

\* allocate_page: the page is made present before its link is read.
AllocatePage ==
  LET ret == first_free_page IN
  /\ cpu = "run" /\ phase = "run"
  /\ ret # NULL
  /\ present' = [present EXCEPT ![ret] = TRUE]
  /\ stale' = stale \ {ret}
  /\ first_free_page' = link[ret]
  /\ link' = [link EXCEPT ![ret] = NULL]
  /\ pages' = pages \cup {ret}
  /\ depth' = [depth EXCEPT ![ret] = 0]
  /\ UNCHANGED <<phase, cpu, managed, tables>>

\* deallocate_page, called with a page the caller got from allocate_page.
DeallocatePage(p) ==
  /\ cpu = "run" /\ phase = "run"
  /\ p \in pages
  /\ Deallocate(p)
  /\ pages' = pages \ {p}
  /\ UNCHANGED <<phase, cpu, managed, tables>>

\* The owner of a page reads it and writes to it: the heap its headers and its callers'
\* data, start_init the image of init, the page tables their entries.  It may be anything
\* here, which is more than any of them writes.
UsePage(p) ==
  /\ cpu = "run"
  /\ p \in pages \cup tables
  /\ \/ /\ Accessible(p)
        /\ \E w \in Word : link' = [link EXCEPT ![p] = w]
        /\ UNCHANGED <<phase, first_free_page, present, stale, cpu,
                       managed, pages, tables, depth>>
     \/ ~Accessible(p) /\ Halt("pf")

\* The hardware drops a cached translation whenever it likes.
EvictTlb(p) ==
  /\ cpu = "run"
  /\ p \in stale
  /\ stale' = stale \ {p}
  /\ UNCHANGED <<phase, first_free_page, link, present, cpu,
                 managed, pages, tables, depth>>

Next ==
  \/ ListBuilt \/ LoadCr3 \/ InitDone
  \/ OutOfMemory \/ TakeTablePage \/ AllocatePage
  \/ \E p \in Page :
       \/ PushConventional(p) \/ ReclaimBootCode(p) \/ DeallocatePage(p)
       \/ UsePage(p) \/ EvictTlb(p)

Spec == Init /\ [][Next]_vars

-----------------------------------------------------------------------------

TypeOK ==
  /\ phase \in {"list", "tables", "reclaim", "run"}
  /\ first_free_page \in Word
  /\ link \in [Page -> Word]
  /\ present \in [Page -> BOOLEAN]
  /\ stale \subseteq Page
  /\ cpu \in {"run", "oom", "pf"}
  /\ managed \subseteq Page
  /\ pages \subseteq managed
  /\ tables \subseteq managed
  /\ depth \in [Page -> Nat]

\* The list from first_free_page runs through exactly the pages nobody uses,
\* each once: the k-th page from its end has depth k, links lead one down.
\* A page on the list twice, a page in use left on it, a lost tail or a cycle
\* breaks it (memory.c:77-81, 233-243, 250-258, 268-273).
FreeListSound ==
  /\ \A p \in Page : depth[p] > 0 <=> p \in Free
  /\ first_free_page # NULL => first_free_page \in Free
  /\ \A p \in Free : depth[p] <= DepthOf(first_free_page)
  /\ \A p \in Free : /\ link[p] # NULL => link[p] \in Free
                     /\ depth[p] = DepthOf(link[p]) + 1
  /\ \A p, q \in Free : depth[p] = depth[q] => p = q

\* The head of the list is NULL, for which allocate_page_inner halts, only
\* when every page it was ever given is in use: nothing leaks off the list.
HaltsOnlyWhenExhausted == first_free_page = NULL => Free = {}

\* A page is never in the hands of two owners, and a page allocate_page handed
\* out stays mapped until it is given back: its owner cannot fault on it,
\* whatever is deallocated around it (memory.c:251-252, 271).
AllocatedPagesUsable ==
  /\ pages \cap tables = {}
  /\ \A p \in pages : present[p]

\* memory.c:228, "Never returns NULL or otherwise invalid pages": the page an
\* allocation works on is mapped, so no access to a page handed out faults.
NeverInvalidPages == cpu # "pf"

Pool == INSTANCE PagePool WITH free <- Free, held <- pages \cup tables,
                               oom <- cpu = "oom"

\* The list implements the pool: what leaves it was free, what joins it was in
\* nobody's hands, and the machine stops for want of memory only when none is
\* left.
ImplementsPool == Pool!Spec
=============================================================================
