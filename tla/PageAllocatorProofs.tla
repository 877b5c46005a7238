------------------------ MODULE PageAllocatorProofs ------------------------
(***************************************************************************)
(* Proofs about PageAllocator, for any sets of pages.                      *)
(***************************************************************************)
EXTENDS PageAllocator, TLAPS

\* The inductive invariant: the list is sound, and a page in somebody's hands
\* has one owner and stays mapped if allocate_page gave it out.
IInv == TypeOK /\ FreeListSound /\ AllocatedPagesUsable

\* Pushing a page that is not on the list keeps the list sound; the caller
\* says what it does to managed and pages.
LEMMA PushSound ==
  ASSUME TypeOK, FreeListSound, NEW p \in Page, p \notin Free, Push(p),
         Free' = Free \cup {p}
  PROVE  FreeListSound'
<1> USE PagesAssumption DEF TypeOK, Page, Word
<1>1. NULL \notin Page
  OBVIOUS
<1>2. \A q \in Free : depth'[q] = depth[q] /\ link'[q] = link[q]
  BY DEF Push, Free
<1>3. depth'[p] = DepthOf(first_free_page) + 1 /\ link'[p] = first_free_page
  BY DEF Push, DepthOf
<1>4. Free \subseteq Page
  BY DEF Free
<1>5. DepthOf(first_free_page) \in Nat
  BY <1>4 DEF DepthOf, FreeListSound
<1>6. DepthOf(first_free_page)' = depth'[p]
  BY <1>1 DEF Push, DepthOf
<1>7. (\A q \in Page : depth[q] > 0 <=> q \in Free)'
  BY <1>3, <1>5 DEF Push, FreeListSound
<1>8. (first_free_page # NULL => first_free_page \in Free)'
  BY DEF Push
<1>9. (\A q \in Free : depth[q] <= DepthOf(first_free_page))'
  BY <1>2, <1>3, <1>4, <1>5, <1>6 DEF FreeListSound
<1>10. ASSUME NEW q \in Free'
       PROVE  (link[q] # NULL => link[q] \in Free)' /\ (depth[q] = DepthOf(link[q]) + 1)'
  <2>1. CASE q = p
    <3>1. first_free_page # NULL => first_free_page \in Free
      BY DEF FreeListSound
    <3>2. DepthOf(first_free_page) = DepthOf(link[p])'
      BY <1>2, <1>3, <3>1 DEF DepthOf
    <3>3. QED
      BY <2>1, <1>3, <3>1, <3>2
  <2>2. CASE q # p
    <3>1. q \in Free /\ link'[q] = link[q] /\ depth'[q] = depth[q]
      BY <1>2, <2>2
    <3>2. (link[q] # NULL => link[q] \in Free) /\ depth[q] = DepthOf(link[q]) + 1
      BY <3>1 DEF FreeListSound
    <3>3. DepthOf(link[q]) = DepthOf(link[q])'
      BY <1>2, <3>1, <3>2 DEF DepthOf
    <3>4. QED
      BY <3>1, <3>2, <3>3
  <2>3. QED
    BY <2>1, <2>2
<1>11. (\A q, r \in Free : depth[q] = depth[r] => q = r)'
  <2>1. \A q \in Free : depth[q] <= DepthOf(first_free_page) /\ depth[q] \in Nat
    BY <1>4 DEF FreeListSound
  <2>2. \A q \in Free : depth'[q] # depth'[p]
    BY <2>1, <1>2, <1>3, <1>5
  <2>3. QED
    BY <2>2, <1>2 DEF FreeListSound
<1>12. QED
  BY <1>7, <1>8, <1>9, <1>10, <1>11 DEF FreeListSound

\* Taking the head off the list keeps it sound, whatever becomes of the page.
LEMMA PopSound ==
  ASSUME TypeOK, FreeListSound, first_free_page # NULL,
         NEW w \in Word,
         link' = [link EXCEPT ![first_free_page] = w],
         first_free_page' = link[first_free_page],
         depth' = [depth EXCEPT ![first_free_page] = 0],
         Free' = Free \ {first_free_page}
  PROVE  FreeListSound'
<1> DEFINE h == first_free_page
<1> USE PagesAssumption DEF TypeOK, Page, Word
<1>1. h \in Free /\ h \in Page /\ Free \subseteq Page /\ NULL \notin Page
  BY DEF FreeListSound, Free
<1>2. \A q \in Free \ {h} : depth'[q] = depth[q] /\ link'[q] = link[q]
  BY <1>1
<1>3. /\ link[h] # NULL => link[h] \in Free
      /\ depth[h] = DepthOf(link[h]) + 1
  BY <1>1 DEF FreeListSound
<1>4. DepthOf(link[h]) \in Nat /\ link[h] # h
  BY <1>1, <1>3 DEF DepthOf
<1>5. DepthOf(first_free_page)' = DepthOf(link[h])
  BY <1>1, <1>3, <1>4 DEF DepthOf
<1>6. (\A q \in Page : depth[q] > 0 <=> q \in Free)'
  BY <1>1, <1>2 DEF FreeListSound
<1>7. (first_free_page # NULL => first_free_page \in Free)'
  BY <1>3, <1>4
<1>8. (\A q \in Free : depth[q] <= DepthOf(first_free_page))'
  <2> SUFFICES ASSUME NEW q \in Free \ {h}
               PROVE  depth[q] <= DepthOf(link[h])
    BY <1>2, <1>5
  <2>1. depth[q] # depth[h]
    BY <1>1 DEF FreeListSound
  <2>2. depth[q] <= depth[h]
    BY <1>1 DEF FreeListSound, DepthOf
  <2>3. depth[q] \in Nat /\ depth[h] \in Nat
    BY <1>1
  <2>4. QED
    BY <2>1, <2>2, <2>3, <1>3, <1>4
<1>9. ASSUME NEW q \in Free \ {h}
      PROVE  (link[q] # NULL => link[q] \in Free)' /\ (depth[q] = DepthOf(link[q]) + 1)'
  <2>1. (link[q] # NULL => link[q] \in Free) /\ depth[q] = DepthOf(link[q]) + 1
    BY DEF FreeListSound
  <2>2. depth[q] <= depth[h] /\ depth[q] \in Nat /\ depth[h] \in Nat
    BY <1>1 DEF FreeListSound, DepthOf
  <2>3. link[q] # h
    BY <1>1, <2>1, <2>2 DEF DepthOf
  <2>4. DepthOf(link[q])' = DepthOf(link[q])
    BY <1>2, <2>1, <2>3 DEF DepthOf
  <2>5. QED
    BY <1>2, <2>1, <2>3, <2>4
<1>10. (\A q, r \in Free : depth[q] = depth[r] => q = r)'
  BY <1>2 DEF FreeListSound
<1>11. QED
  BY <1>6, <1>7, <1>8, <1>9, <1>10 DEF FreeListSound

\* A step that touches neither the list nor who owns what keeps it sound, also
\* when the owner of a page outside the list writes into it.
LEMMA FrameSound ==
  ASSUME TypeOK, FreeListSound,
         first_free_page' = first_free_page, depth' = depth, Free' = Free,
         \A q \in Free : link'[q] = link[q]
  PROVE  FreeListSound'
BY DEF FreeListSound, DepthOf, Page

LEMMA InitInvariant == Init => IInv
<1> SUFFICES ASSUME Init PROVE IInv
  OBVIOUS
<1>1. TypeOK
  BY DEF Init, TypeOK, Page, Word
<1>2. FreeListSound /\ AllocatedPagesUsable
  BY DEF Init, FreeListSound, AllocatedPagesUsable, Free, Page
<1>3. QED
  BY <1>1, <1>2 DEF IInv

\* What leaves the list was on it: needed for the types of pages and tables.
LEMMA HeadManaged ==
  ASSUME IInv, first_free_page # NULL
  PROVE  /\ first_free_page \in Page /\ first_free_page \in managed
         /\ first_free_page \notin pages /\ first_free_page \notin tables
BY DEF IInv, TypeOK, FreeListSound, Free

LEMMA TypeStep == IInv /\ [Next]_vars => TypeOK'
<1> SUFFICES ASSUME IInv, [Next]_vars PROVE TypeOK'
  OBVIOUS
<1> USE DEF IInv, TypeOK, Page, Word, Push, Deallocate, Halt
<1>0. \A w \in Word : DepthOf(w) \in Nat
  BY DEF DepthOf
<1>1. ASSUME NEW p \in Page, PushConventional(p) PROVE TypeOK'
  BY <1>0, <1>1 DEF PushConventional
<1>2. ASSUME NEW p \in Page, ReclaimBootCode(p) PROVE TypeOK'
  BY <1>0, <1>2 DEF ReclaimBootCode
<1>3. ASSUME NEW p \in Page, DeallocatePage(p) PROVE TypeOK'
  BY <1>0, <1>3 DEF DeallocatePage
<1>4. CASE TakeTablePage
  BY <1>4, HeadManaged DEF TakeTablePage
<1>5. CASE AllocatePage
  BY <1>5, HeadManaged DEF AllocatePage
<1>6. ASSUME NEW p \in Page, UsePage(p) \/ EvictTlb(p) PROVE TypeOK'
  BY <1>6 DEF UsePage, EvictTlb
<1>7. CASE ListBuilt \/ LoadCr3 \/ InitDone \/ OutOfMemory
  BY <1>7 DEF ListBuilt, LoadCr3, InitDone, OutOfMemory
<1>8. CASE UNCHANGED vars
  BY <1>8 DEF vars
<1>9. QED
  BY <1>1, <1>2, <1>3, <1>4, <1>5, <1>6, <1>7, <1>8 DEF Next

LEMMA UsableStep == IInv /\ [Next]_vars => AllocatedPagesUsable'
<1> SUFFICES ASSUME IInv, [Next]_vars PROVE AllocatedPagesUsable'
  OBVIOUS
<1> USE DEF IInv, TypeOK, AllocatedPagesUsable, Page
<1>1. ASSUME NEW p \in Page, PushConventional(p) PROVE AllocatedPagesUsable'
  BY <1>1 DEF PushConventional
<1>2. ASSUME NEW p \in Page, ReclaimBootCode(p) PROVE AllocatedPagesUsable'
  BY <1>2 DEF ReclaimBootCode, Deallocate
<1>3. ASSUME NEW p \in Page, DeallocatePage(p) PROVE AllocatedPagesUsable'
  BY <1>3 DEF DeallocatePage, Deallocate
<1>4. CASE TakeTablePage
  BY <1>4, HeadManaged DEF TakeTablePage, Halt
<1>5. CASE AllocatePage
  BY <1>5, HeadManaged DEF AllocatePage
<1>6. ASSUME NEW p \in Page, UsePage(p) \/ EvictTlb(p) PROVE AllocatedPagesUsable'
  BY <1>6 DEF UsePage, EvictTlb, Halt
<1>7. CASE ListBuilt \/ LoadCr3 \/ InitDone \/ OutOfMemory
  BY <1>7 DEF ListBuilt, LoadCr3, InitDone, OutOfMemory, Halt
<1>8. CASE UNCHANGED vars
  BY <1>8 DEF vars
<1>9. QED
  BY <1>1, <1>2, <1>3, <1>4, <1>5, <1>6, <1>7, <1>8 DEF Next

LEMMA ListStep == IInv /\ [Next]_vars => FreeListSound'
<1> SUFFICES ASSUME IInv, [Next]_vars PROVE FreeListSound'
  OBVIOUS
<1> USE DEF IInv
<1>0. NULL \in Word /\ \A p \in Page : p \in Word
  BY DEF Word
<1>1. ASSUME NEW p \in Page, PushConventional(p) PROVE FreeListSound'
  <2>1. p \notin Free /\ Free' = Free \cup {p}
    BY <1>1 DEF PushConventional, Free, TypeOK
  <2>2. QED
    BY <1>1, <2>1, PushSound DEF PushConventional
<1>2. ASSUME NEW p \in Page, ReclaimBootCode(p) PROVE FreeListSound'
  <2>1. p \notin Free /\ Free' = Free \cup {p}
    BY <1>2 DEF ReclaimBootCode, Free, TypeOK
  <2>2. QED
    BY <1>2, <2>1, PushSound DEF ReclaimBootCode, Deallocate
<1>3. ASSUME NEW p \in Page, DeallocatePage(p) PROVE FreeListSound'
  <2>1. p \notin Free /\ Free' = Free \cup {p}
    BY <1>3 DEF DeallocatePage, Free, TypeOK, AllocatedPagesUsable
  <2>2. QED
    BY <1>3, <2>1, PushSound DEF DeallocatePage, Deallocate
<1>4. CASE TakeTablePage
  <2>1. CASE Halt("pf")
    BY <2>1, FrameSound DEF Halt, Free
  <2>2. CASE ~Halt("pf")
    <3>1. PICK w \in Word : link' = [link EXCEPT ![first_free_page] = w]
      BY <1>4, <2>2 DEF TakeTablePage
    <3>2. Free' = Free \ {first_free_page}
      BY <1>4, <2>2 DEF TakeTablePage, Free
    <3>3. QED
      BY <1>4, <2>2, <3>1, <3>2, PopSound DEF TakeTablePage
  <2>3. QED
    BY <2>1, <2>2
<1>5. CASE AllocatePage
  <2>1. Free' = Free \ {first_free_page}
    BY <1>5 DEF AllocatePage, Free
  <2>2. QED
    BY <1>5, <1>0, <2>1, PopSound DEF AllocatePage
<1>6. ASSUME NEW p \in Page, UsePage(p) PROVE FreeListSound'
  <2>1. \A q \in Free : link'[q] = link[q]
    BY <1>6 DEF UsePage, Halt, Free, TypeOK, Page
  <2>2. QED
    BY <1>6, <2>1, FrameSound DEF UsePage, Halt, Free
<1>7. ASSUME NEW p \in Page, EvictTlb(p) PROVE FreeListSound'
  BY <1>7, FrameSound DEF EvictTlb, Free
<1>8. CASE ListBuilt \/ LoadCr3 \/ InitDone \/ OutOfMemory
  BY <1>8, FrameSound DEF ListBuilt, LoadCr3, InitDone, OutOfMemory, Halt, Free
<1>9. CASE UNCHANGED vars
  BY <1>9, FrameSound DEF vars, Free
<1>10. QED
  BY <1>1, <1>2, <1>3, <1>4, <1>5, <1>6, <1>7, <1>8, <1>9 DEF Next

\* In every reachable state of the allocator, for any pages, IInv holds: types,
\* a sound list, and single owners (allocate_page_inner, allocate_page,
\* deallocate_page and the loops of init_memory).
THEOREM Invariant == Spec => []IInv
<1>1. IInv /\ [Next]_vars => IInv'
  BY TypeStep, UsableStep, ListStep DEF IInv
<1>2. QED
  BY InitInvariant, <1>1, PTL DEF Spec

\* The variables of the allocator have their types in every reachable state.
THEOREM TypeCorrect == Spec => []TypeOK
BY Invariant, PTL DEF IInv

\* The free list runs through exactly the free pages, each once.
THEOREM FreeListStaysSound == Spec => []FreeListSound
BY Invariant, PTL DEF IInv

\* Pages have one owner and those of allocate_page stay mapped.
THEOREM AllocatedPagesStayUsable == Spec => []AllocatedPagesUsable
BY Invariant, PTL DEF IInv

\* allocate_page_inner finds first_free_page NULL only when every page it was
\* given is in use.
THEOREM NoPageLeaks == Spec => []HaltsOnlyWhenExhausted
<1>1. IInv => HaltsOnlyWhenExhausted
  <2> SUFFICES ASSUME IInv, first_free_page = NULL, NEW p \in Free PROVE FALSE
    BY DEF HaltsOnlyWhenExhausted
  <2>1. p \in Page /\ depth[p] \in Nat /\ depth[p] > 0 /\ depth[p] <= 0
    BY DEF IInv, FreeListSound, TypeOK, Free, DepthOf
  <2>2. QED
    BY <2>1
<1>2. QED
  BY <1>1, Invariant, PTL

\* Every step of the list is a step of the pool, or leaves the pool alone: the
\* list hands out only free pages and takes back only pages in use.
THEOREM RefinesPool == Spec => ImplementsPool
<1>1. Init => Pool!Init
  BY DEF Init, Pool!Init, Free
<1>2. ASSUME IInv, [Next]_vars PROVE [Pool!Next]_(Pool!vars)
  <2> USE <1>2 DEF IInv, TypeOK, AllocatedPagesUsable
  <2>1. ASSUME NEW p \in Page,
               PushConventional(p) \/ ReclaimBootCode(p)
        PROVE  Pool!Donate(p)
    BY <2>1 DEF PushConventional, ReclaimBootCode, Deallocate, Pool!Donate, Free
  <2>2. ASSUME NEW p \in Page, DeallocatePage(p) PROVE Pool!Return(p)
    BY <2>2 DEF DeallocatePage, Pool!Return, Free
  <2>3. ASSUME TakeTablePage, ~Halt("pf") PROVE Pool!Take(first_free_page)
    BY <2>3, HeadManaged DEF TakeTablePage, Pool!Take, Free
  <2>4. ASSUME AllocatePage PROVE Pool!Take(first_free_page)
    BY <2>4, HeadManaged DEF AllocatePage, Pool!Take, Free
  <2>5. ASSUME OutOfMemory PROVE Pool!Exhausted
    <3>1. Free = {}
      <4> SUFFICES ASSUME NEW p \in Free PROVE FALSE
        OBVIOUS
      <4>1. p \in Page /\ depth[p] \in Nat /\ depth[p] > 0 /\ depth[p] <= 0
        BY <2>5 DEF OutOfMemory, FreeListSound, Free, DepthOf
      <4>2. QED
        BY <4>1
    <3>2. QED
      BY <2>5, <3>1 DEF OutOfMemory, Halt, Pool!Exhausted, Free
  <2>6. ASSUME Halt("pf"), cpu = "run" PROVE UNCHANGED Pool!vars
    BY <2>6 DEF Halt, Pool!vars, Free
  <2>7. ASSUME NEW p \in Page, UsePage(p) \/ EvictTlb(p) PROVE UNCHANGED Pool!vars
    BY <2>7 DEF UsePage, EvictTlb, Halt, Pool!vars, Free
  <2>8. ASSUME ListBuilt \/ LoadCr3 \/ InitDone PROVE UNCHANGED Pool!vars
    BY <2>8 DEF ListBuilt, LoadCr3, InitDone, Pool!vars, Free
  <2>9. ASSUME UNCHANGED vars PROVE UNCHANGED Pool!vars
    BY <2>9 DEF vars, Pool!vars, Free
  <2>10. first_free_page # NULL => first_free_page \in Page
    BY HeadManaged
  <2>11. CASE TakeTablePage
    BY <2>11, <2>3, <2>6, <2>10 DEF TakeTablePage, Pool!Next
  <2>12. CASE AllocatePage
    BY <2>12, <2>4, <2>10 DEF AllocatePage, Pool!Next
  <2>13. QED
    BY <2>1, <2>2, <2>5, <2>7, <2>8, <2>9, <2>11, <2>12 DEF Next, Pool!Next
<1>3. QED
  BY <1>1, <1>2, Invariant, PTL DEF Spec, ImplementsPool, Pool!Spec
=============================================================================
