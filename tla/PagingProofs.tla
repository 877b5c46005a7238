---------------------------- MODULE PagingProofs ----------------------------
(***************************************************************************)
(* The page tables, for every size of a table and every memory map that    *)
(* keeps apart what the code takes to be apart (Apart), on a machine that  *)
(* leaves no present bits in free memory (Blank).  Where memory reaches a  *)
(* region, or a present bit is left, TLC finds that they fail.             *)
(***************************************************************************)
EXTENDS Paging, SequenceTheorems, TLAPS

-----------------------------------------------------------------------------
(* Addresses.                                                              *)

LEMMA FanoutType == Fanout \in Nat /\ Fanout > 1
BY PagingAssumption

LEMMA DivMod ==
  ASSUME NEW a \in Nat
  PROVE  /\ a \div Fanout \in Nat /\ a % Fanout \in 0 .. Fanout - 1
         /\ a = (Fanout * (a \div Fanout)) + (a % Fanout)
BY FanoutType

LEMMA DivModUnique ==
  ASSUME NEW q \in Nat, NEW i \in 0 .. Fanout - 1
  PROVE  /\ (Fanout * q) + i \in Nat
         /\ ((Fanout * q) + i) \div Fanout = q /\ ((Fanout * q) + i) % Fanout = i
BY FanoutType

\* The next address, and the next table of addresses.
LEMMA DivSuccessor ==
  ASSUME NEW a \in Nat
  PROVE  /\ (a + 1) % Fanout = 0 => (a + 1) \div Fanout = (a \div Fanout) + 1
         /\ (a + 1) % Fanout # 0 => (a + 1) \div Fanout = a \div Fanout
BY FanoutType

LEMMA DivTable ==
  ASSUME NEW a \in Nat
  PROVE  (a + Fanout) \div Fanout = (a \div Fanout) + 1 /\ (a + Fanout) % Fanout = a % Fanout
<1> DEFINE q == a \div Fanout
           r == a % Fanout
<1>1. q \in Nat /\ r \in 0 .. Fanout - 1 /\ a = (Fanout * q) + r
  BY DivMod
<1> HIDE DEF q, r
<1>2. q + 1 \in Nat /\ Fanout * (q + 1) = (Fanout * q) + Fanout
  BY <1>1, FanoutType
<1>3. a + Fanout = (Fanout * (q + 1)) + r
  BY <1>1, <1>2, FanoutType
<1>4. (a + Fanout) \div Fanout = q + 1 /\ (a + Fanout) % Fanout = r
  BY <1>1, <1>2, <1>3, DivModUnique
<1> QED BY <1>4 DEF q, r

\* Up drops one index after the other.
LEMMA UpIs ==
  ASSUME NEW v \in Nat
  PROVE  /\ Up(v, 0) = v
         /\ \A l \in 0 .. 3 : Up(v, l + 1) = Up(v, l) \div Fanout
<1> DEFINE g == [k \in 0 .. 4 |->
                   IF k = 0 THEN v
                   ELSE IF k = 1 THEN v \div Fanout
                   ELSE IF k = 2 THEN (v \div Fanout) \div Fanout
                   ELSE IF k = 3 THEN ((v \div Fanout) \div Fanout) \div Fanout
                   ELSE (((v \div Fanout) \div Fanout) \div Fanout) \div Fanout]
           Is(f) == f = [k \in 0 .. 4 |-> IF k = 0 THEN v ELSE f[k - 1] \div Fanout]
           up == CHOOSE f : Is(f)
<1>1. Is(g)
  <2>1. /\ g[0] = v /\ g[1] = g[0] \div Fanout /\ g[2] = g[1] \div Fanout
        /\ g[3] = g[2] \div Fanout /\ g[4] = g[3] \div Fanout
    OBVIOUS
  <2>2. \A k \in 0 .. 4 : k = 0 \/ k = 1 \/ k = 2 \/ k = 3 \/ k = 4
    OBVIOUS
  <2>3. \A k \in 0 .. 4 : g[k] = IF k = 0 THEN v ELSE g[k - 1] \div Fanout
    <3> HIDE DEF g
    <3> QED BY <2>1, <2>2
  <2> QED BY <2>3
<1> HIDE DEF g
<1>2. Is(up)
  BY <1>1
<1>3. \A l \in 0 .. 4 : Up(v, l) = up[l]
  BY DEF Up
<1> HIDE DEF up
<1> QED BY <1>2, <1>3

LEMMA UpType ==
  ASSUME NEW v \in Nat
  PROVE  \A l \in 0 .. 4 : Up(v, l) \in Nat
<1>1. Up(v, 0) \in Nat
  BY UpIs
<1>2. ASSUME NEW l \in 0 .. 3, Up(v, l) \in Nat PROVE Up(v, l + 1) \in Nat
  BY <1>2, UpIs, DivMod
<1>3. Up(v, 1) \in Nat /\ Up(v, 2) \in Nat /\ Up(v, 3) \in Nat /\ Up(v, 4) \in Nat
  <2>1. Up(v, 0 + 1) \in Nat
    BY <1>1, <1>2
  <2>2. Up(v, 1 + 1) \in Nat
    BY <1>2, <2>1
  <2>3. Up(v, 2 + 1) \in Nat
    BY <1>2, <2>2
  <2>4. Up(v, 3 + 1) \in Nat
    BY <1>2, <2>3
  <2> QED BY <2>1, <2>2, <2>3, <2>4
<1> QED BY <1>1, <1>3

\* An entry's index, and its table's place.
LEMMA IndexIs ==
  ASSUME NEW v \in Nat, NEW l \in 0 .. 3
  PROVE  /\ Up(v, l) \in Nat /\ Up(v, l + 1) \in Nat
         /\ Index(v, l) \in 0 .. Fanout - 1
         /\ Up(v, l) = (Fanout * Up(v, l + 1)) + Index(v, l)
         /\ Up(v, l + 1) = Up(v, l) \div Fanout
<1>1. Up(v, l) \in Nat /\ Up(v, l + 1) \in Nat /\ Up(v, l + 1) = Up(v, l) \div Fanout
  BY UpIs, UpType
<1> QED BY <1>1, DivMod DEF Index

LEMMA Levels == \A l \in 0 .. 4 : l = 0 \/ l = 1 \/ l = 2 \/ l = 3 \/ l = 4
OBVIOUS

\* Two addresses that agree without their last l indexes agree without more of them.
LEMMA SameAbove ==
  ASSUME NEW v \in Nat, NEW w \in Nat, NEW l \in 0 .. 4, Up(v, l) = Up(w, l)
  PROVE  \A k \in l .. 4 : Up(v, k) = Up(w, k)
<1>1. \A k \in 0 .. 3 : Up(v, k) = Up(w, k) => Up(v, k + 1) = Up(w, k + 1)
  BY UpIs
<1>2. /\ Up(v, 0) = Up(w, 0) => Up(v, 1) = Up(w, 1)
      /\ Up(v, 1) = Up(w, 1) => Up(v, 2) = Up(w, 2)
      /\ Up(v, 2) = Up(w, 2) => Up(v, 3) = Up(w, 3)
      /\ Up(v, 3) = Up(w, 3) => Up(v, 4) = Up(w, 4)
  <2>1. 0 + 1 = 1 /\ 1 + 1 = 2 /\ 2 + 1 = 3 /\ 3 + 1 = 4
    OBVIOUS
  <2> QED BY <1>1, <2>1
<1>3. \A k \in l .. 4 : k \in 0 .. 4 /\ l <= k
  OBVIOUS
<1> QED BY <1>2, <1>3, Levels

LEMMA DivMonotone ==
  ASSUME NEW a \in Nat, NEW b \in Nat, a <= b
  PROVE  a \div Fanout <= b \div Fanout
<1> DEFINE p == a \div Fanout
           q == b \div Fanout
           r == a % Fanout
           s == b % Fanout
<1>1. /\ p \in Nat /\ r \in 0 .. Fanout - 1 /\ a = (Fanout * p) + r
      /\ q \in Nat /\ s \in 0 .. Fanout - 1 /\ b = (Fanout * q) + s
  BY DivMod
<1> HIDE DEF p, q, r, s
<1>2. ASSUME q < p PROVE FALSE
  <2>1. PICK d \in Nat : p = q + 1 + d
    <3>1. p - q - 1 \in Nat /\ p = q + 1 + (p - q - 1)
      BY <1>1, <1>2
    <3> QED BY <3>1
  <2>2. Fanout * p = (Fanout * q) + Fanout + (Fanout * d) /\ Fanout * d \in Nat
    BY <1>1, <2>1, FanoutType
  <2> QED BY <1>1, <2>2, FanoutType
<1> QED BY <1>1, <1>2 DEF p, q

LEMMA UpMonotone ==
  ASSUME NEW a \in Nat, NEW b \in Nat, a <= b
  PROVE  \A l \in 0 .. 4 : Up(a, l) <= Up(b, l)
<1>1. Up(a, 0) <= Up(b, 0)
  BY UpIs
<1>2. ASSUME NEW l \in 0 .. 3, Up(a, l) <= Up(b, l) PROVE Up(a, l + 1) <= Up(b, l + 1)
  <2>1. Up(a, l) \in Nat /\ Up(b, l) \in Nat
    BY UpType, SMTT(30)
  <2> QED BY <1>2, <2>1, UpIs, DivMonotone
<1>3. Up(a, 1) <= Up(b, 1) /\ Up(a, 2) <= Up(b, 2) /\ Up(a, 3) <= Up(b, 3) /\ Up(a, 4) <= Up(b, 4)
  <2>1. Up(a, 0 + 1) <= Up(b, 0 + 1)
    BY <1>1, <1>2
  <2>2. Up(a, 1 + 1) <= Up(b, 1 + 1)
    BY <1>2, <2>1
  <2>3. Up(a, 2 + 1) <= Up(b, 2 + 1)
    BY <1>2, <2>2
  <2>4. Up(a, 3 + 1) <= Up(b, 3 + 1)
    BY <1>2, <2>3
  <2> QED BY <2>1, <2>2, <2>3, <2>4
<1> QED BY <1>1, <1>3

\* From a table of addresses to the next one: an index that becomes 0 carries, the first
\* one that does not leaves those above it alone.
LEMMA Carry ==
  ASSUME NEW a \in Nat, NEW l \in 0 .. 2, \A k \in 0 .. l : Index(a + Fanout, k) = 0
  PROVE  /\ \A k \in 0 .. l : Up(a + Fanout, k + 1) = Up(a, k + 1) + 1
         /\ Index(a + Fanout, l + 1) # 0 =>
              \A k \in l + 2 .. 4 : Up(a + Fanout, k) = Up(a, k)
<1> DEFINE b == a + Fanout
<1>1. b \in Nat
  BY FanoutType
<1>2. /\ \A k \in 0 .. 4 : Up(a, k) \in Nat /\ Up(b, k) \in Nat
      /\ Up(a, 0) = a /\ Up(b, 0) = b
      /\ \A k \in 0 .. 3 : Up(a, k + 1) = Up(a, k) \div Fanout /\ Up(b, k + 1) = Up(b, k) \div Fanout
      /\ \A k \in 0 .. 3 : Index(b, k) = Up(b, k) % Fanout
  BY <1>1, UpIs, UpType DEF Index
<1>3. Up(b, 1) = Up(a, 1) + 1
  <2>1. Up(a, 0 + 1) = a \div Fanout /\ Up(b, 0 + 1) = b \div Fanout
    BY <1>2
  <2> QED BY <2>1, DivTable
<1>4. ASSUME NEW k \in 1 .. 3, Up(b, k) = Up(a, k) + 1
      PROVE  /\ Index(b, k) = 0 => Up(b, k + 1) = Up(a, k + 1) + 1
             /\ Index(b, k) # 0 => Up(b, k + 1) = Up(a, k + 1)
  <2>1. Up(a, k) \in Nat
    BY <1>2
  <2> QED BY <1>2, <1>4, <2>1, DivSuccessor
<1> HIDE DEF b
<1>5. /\ Index(b, 1) = 0 => Up(b, 2) = Up(a, 2) + 1
      /\ Index(b, 1) # 0 => Up(b, 2) = Up(a, 2)
  <2>1. 1 + 1 = 2
    OBVIOUS
  <2> QED BY <1>3, <1>4, <2>1
<1>6. Up(b, 2) = Up(a, 2) + 1 =>
        /\ Index(b, 2) = 0 => Up(b, 3) = Up(a, 3) + 1
        /\ Index(b, 2) # 0 => Up(b, 3) = Up(a, 3)
  <2>1. 2 + 1 = 3
    OBVIOUS
  <2> QED BY <1>4, <2>1
<1>7. Up(b, 3) = Up(a, 3) + 1 /\ Index(b, 3) # 0 => Up(b, 4) = Up(a, 4)
  <2>1. 3 + 1 = 4
    OBVIOUS
  <2> QED BY <1>4, <2>1
<1>8. \A k \in 0 .. 4 : Up(b, k) = Up(a, k) => \A c \in k .. 4 : Up(b, c) = Up(a, c)
  BY <1>1, SameAbove
<1>9. \A k \in 0 .. l : Index(b, k) = 0
  BY DEF b
<1>10. CASE l = 0
  <2>1. Index(b, 1) # 0 => \A c \in 2 .. 4 : Up(b, c) = Up(a, c)
    BY <1>5, <1>8
  <2> QED BY <1>3, <1>10, <2>1 DEF b
<1>11. CASE l = 1
  <2>1. Index(b, 2) # 0 => \A c \in 3 .. 4 : Up(b, c) = Up(a, c)
    BY <1>5, <1>6, <1>8, <1>9, <1>11
  <2> QED BY <1>3, <1>5, <1>9, <1>11, <2>1 DEF b
<1>12. CASE l = 2
  <2>1. Index(b, 3) # 0 => \A c \in 4 .. 4 : Up(b, c) = Up(a, c)
    BY <1>5, <1>6, <1>7, <1>9, <1>12
  <2> QED BY <1>3, <1>5, <1>6, <1>9, <1>12, <2>1 DEF b
<1> QED BY <1>10, <1>11, <1>12

\* Of an address that four indexes are enough for, but that is not 0, some index is not.
LEMMA SomeIndex ==
  ASSUME NEW a \in Nat, a # 0, Up(a, 4) = 0, Index(a, 0) = 0
  PROVE  \E l \in 0 .. 2 : (\A k \in 0 .. l : Index(a, k) = 0) /\ Index(a, l + 1) # 0
<1>1. /\ Up(a, 3) = (Fanout * Up(a, 4)) + Index(a, 3)
      /\ Up(a, 2) = (Fanout * Up(a, 3)) + Index(a, 2)
      /\ Up(a, 1) = (Fanout * Up(a, 2)) + Index(a, 1)
      /\ Up(a, 0) = (Fanout * Up(a, 1)) + Index(a, 0)
  <2>1. \A l \in 0 .. 3 : Up(a, l) = (Fanout * Up(a, l + 1)) + Index(a, l)
    BY IndexIs
  <2>2. 0 + 1 = 1 /\ 1 + 1 = 2 /\ 2 + 1 = 3 /\ 3 + 1 = 4
    OBVIOUS
  <2> QED BY <2>1, <2>2
<1>2. ~ (Index(a, 1) = 0 /\ Index(a, 2) = 0 /\ Index(a, 3) = 0)
  <2>1. SUFFICES ASSUME Index(a, 1) = 0, Index(a, 2) = 0, Index(a, 3) = 0
                 PROVE  FALSE
    OBVIOUS
  <2>2. Up(a, 0) = 0
    BY <1>1, <2>1, FanoutType
  <2> QED BY <2>2, UpIs
<1>3. CASE Index(a, 1) # 0
  <2>1. \A k \in 0 .. 0 : Index(a, k) = 0
    OBVIOUS
  <2> QED BY <1>3, <2>1
<1>4. CASE Index(a, 1) = 0 /\ Index(a, 2) # 0
  <2>1. \A k \in 0 .. 1 : Index(a, k) = 0
    BY <1>4
  <2> QED BY <1>4, <2>1
<1>5. CASE Index(a, 1) = 0 /\ Index(a, 2) = 0 /\ Index(a, 3) # 0
  <2>1. \A k \in 0 .. 2 : Index(a, k) = 0
    BY <1>5
  <2> QED BY <1>5, <2>1
<1> QED BY <1>2, <1>3, <1>4, <1>5

\* The tables on the path to v, one after the other.
LEMMA PathIs ==
  ASSUME NEW m, NEW root, NEW v
  PROVE  /\ Path(m, root, v)[3] = root
         /\ \A l \in 0 .. 2 : Path(m, root, v)[l] = m[Path(m, root, v)[l + 1]][Index(v, l + 1)].frame
<1> DEFINE down(t, l) == m[t][Index(v, l)].frame
           Is(f) == f = [k \in 0 .. 3 |-> IF k = 3 THEN root ELSE down(f[k + 1], k + 1)]
           g == [k \in 0 .. 3 |->
                   IF k = 3 THEN root
                   ELSE IF k = 2 THEN down(root, 3)
                   ELSE IF k = 1 THEN down(down(root, 3), 2)
                   ELSE down(down(down(root, 3), 2), 1)]
           path == CHOOSE f : Is(f)
<1> HIDE DEF down
<1>1. Is(g)
  <2>1. /\ g[3] = root /\ g[2] = down(g[3], 3) /\ g[1] = down(g[2], 2) /\ g[0] = down(g[1], 1)
    OBVIOUS
  <2>2. \A k \in 0 .. 3 : k = 0 \/ k = 1 \/ k = 2 \/ k = 3
    OBVIOUS
  <2>3. 0 + 1 = 1 /\ 1 + 1 = 2 /\ 2 + 1 = 3
    OBVIOUS
  <2>4. \A k \in 0 .. 3 : g[k] = IF k = 3 THEN root ELSE down(g[k + 1], k + 1)
    <3> HIDE DEF g
    <3> QED BY <2>1, <2>2, <2>3
  <2> QED BY <2>4
<1> HIDE DEF g
<1>2. Is(path)
  BY <1>1
<1>3. Path(m, root, v) = path
  BY DEF Path, down
<1> HIDE DEF path
<1>4. path[3] = root /\ \A l \in 0 .. 2 : path[l] = down(path[l + 1], l + 1)
  BY <1>2
<1> QED BY <1>3, <1>4 DEF down

-----------------------------------------------------------------------------
(* The inductive invariant.  live[l] holds the places of the tables of      *)
(* level l, and at[l][q] is the page of the one at place q: the table that   *)
(* translates the addresses v with Up(v, l + 1) = q.                         *)

EndOf(k) == MemoryMap[k].start + MemoryMap[k].pages
WalkPcs == {"framebuffer_walk", "map_walk"}
LoopPcs == {"list", "permissions", "reclaim"}

\* The entry of level 0 for v.
Leaf(m, at, v) == m[at[0][Up(v, 1)]][Index(v, 0)]

\* Entries of level 1 that are for the framebuffer, as addresses without their last index.
LargeSlots ==
  FrameBuffer.base \div Fanout .. (FrameBuffer.base \div Fanout) + (FrameBuffer.size \div Fanout)
LargeWord(x) == Word(Fanout * x, {"P", "W", "PS"})

\* Where init_memory is, and what it has not touched yet.
CourseInv ==
  /\ pc \in LoopPcs \cup WalkPcs \cup {"tables", "framebuffer", "cr3", "run"}
  /\ pc \in LoopPcs => n >= 1
  /\ pc \in LoopPcs /\ n <= Len(MemoryMap) => j < MemoryMap[n].pages
  /\ pc \in LoopPcs /\ n > Len(MemoryMap) => j = 0
  /\ pc \in {"permissions", "framebuffer", "framebuffer_walk", "cr3"} => j = 0
  /\ pc = "list" => tables = <<>>
  /\ cr3 => pc \in {"reclaim", "run", "map_walk"}
  /\ pc \notin {"run", "map_walk"} => mapped = {} /\ \A r \in Regions : size[r] = 0
  /\ \A k \in DOMAIN MemoryMap : (pc = "list" => k < n) => EndOf(k) <= max_addr
  /\ max_addr = 0 \/ \E k \in DOMAIN MemoryMap : max_addr = EndOf(k)
  /\ pc \in {"framebuffer", "framebuffer_walk"} => n % Fanout = 0

\* The links of the free pages: each leads to another free page, no two to the same one,
\* and none back to the head.
Links(m, head, free) ==
  /\ head \in free \cup {NULL}
  /\ \A p \in free : /\ m[p][0].frame \in free \cup {NULL}
                     /\ m[p][0].frame # NULL => m[p][0].frame # head
  /\ \A p, q \in free :
       m[p][0].frame = m[q][0].frame => p = q \/ m[p][0].frame = NULL

\* The free list and the other pages.
ListInv ==
  /\ Links(mem, first_free_page, FreePages)
  /\ IsInjective(tables)
  /\ Range(tables) \cup DataPages \subseteq Managed
  /\ Range(tables) \cap DataPages = {}
  /\ \A p \in Frame \ Range(tables) : \A i \in 0 .. Fanout - 1 : "P" \notin mem[p][i].flags

\* Every table below the first hangs in the entry that is its place, and a present
\* entry above level 0 leads to the table of its place or is for the framebuffer.
Tree(m, root, pool, live, at) ==
  /\ live[3] \subseteq {0} /\ (0 \in live[3] => at[3][0] = root)
  /\ \A l \in 0 .. 3 : \A q \in live[l] : at[l][q] \in pool
  /\ \A l, k \in 0 .. 3 : \A q \in live[l], r \in live[k] :
       at[l][q] = at[k][r] => l = k /\ q = r
  /\ \A l \in 0 .. 2 : \A q \in live[l] :
       /\ q \div Fanout \in live[l + 1]
       /\ m[at[l + 1][q \div Fanout]][q % Fanout].frame = at[l][q]
       /\ "P" \in m[at[l + 1][q \div Fanout]][q % Fanout].flags
       /\ "PS" \notin m[at[l + 1][q \div Fanout]][q % Fanout].flags
  /\ \A l \in 1 .. 3 : \A q \in live[l], i \in 0 .. Fanout - 1 :
       "P" \in m[at[l][q]][i].flags =>
         \/ (Fanout * q) + i \in live[l - 1]
         \/ /\ l = 1 /\ (Fanout * q) + i \in LargeSlots
            /\ m[at[l][q]][i] = LargeWord((Fanout * q) + i)

\* Entries of level 0: memory is at its own address, and what lies above is mapped
\* or not used.
Leaves(m, top, done, live, at) ==
  \A q \in live[0], i \in 0 .. Fanout - 1 :
    /\ (Fanout * q) + i < top => m[at[0][q]][i].frame = (Fanout * q) + i
    /\ (Fanout * q) + i >= top /\ "P" \in m[at[0][q]][i].flags =>
         <<(Fanout * q) + i, m[at[0][q]][i].frame>> \in done
    /\ Fanout * q >= top /\ "P" \notin m[at[0][q]][i].flags => m[at[0][q]][i] = Word(NULL, {})

\* Tables that the framebuffer's entries took the place of lead to no page of memory.
Orphans(m, pool, live, at) ==
  \A t \in pool : (\A l \in 0 .. 3 : \A q \in live[l] : t # at[l][q]) =>
    \A i \in 0 .. Fanout - 1 : "P" \in m[t][i].flags => m[t][i].frame \notin Described

\* allocate_tables takes the tables in the order of the addresses: those before
\* address n are there, and of those on the path to n the ones above level j.
BuildInv(live) ==
  pc = "tables" =>
    /\ j \in 0 .. 3 /\ \A k \in 0 .. j : Index(n, k) = 0
    /\ j = 3 => n = 0 /\ tables = <<>>
    /\ n < max_addr + Fanout
    /\ \A l \in 0 .. 3 : l > j => Up(n, l + 1) \in live[l]
    /\ \A l \in 0 .. 3 : \A q \in live[l] :
         q <= Up(n, l + 1) /\ (l <= j => q < Up(n, l + 1))
    /\ \A v \in 0 .. max_addr - 1 : v < n => \A l \in 0 .. 3 : Up(v, l + 1) \in live[l]

\* Afterwards all of memory has its tables, where the framebuffer is not.
CoverInv(live) ==
  pc \notin {"list", "tables"} =>
    /\ 0 \in live[3]
    /\ \A v \in 0 .. max_addr - 1 :
         pc = "permissions" \/ Up(v, 1) \notin LargeSlots =>
           \A l \in 0 .. 3 : Up(v, l + 1) \in live[l]

LargeInv(live, at) ==
  pc \notin {"list", "tables", "permissions"} =>
    \A x \in LargeSlots :
      (pc \in {"framebuffer", "framebuffer_walk"} => Fanout * x < FrameBuffer.base + n) =>
      /\ x \div Fanout \in live[1]
      /\ mem[at[1][x \div Fanout]][x % Fanout] = LargeWord(x)

PermissionsInv(at) ==
  pc \notin {"list", "tables"} =>
    \A k \in DOMAIN MemoryMap : (pc = "permissions" => k < n) =>
      \A v \in InDescriptor(MemoryMap[k]) :
        IF IsCode(MemoryMap[k]) THEN "W" \notin Leaf(mem, at, v).flags
        ELSE MemoryMap[k].type # "Conventional" => "NX" \in Leaf(mem, at, v).flags

NullInv(at) ==
  pc \notin {"list", "tables", "permissions"} => "P" \notin Leaf(mem, at, NULL).flags

WalkInv(live, at) ==
  pc \in WalkPcs =>
    /\ job.level <= job.l
    /\ Up(job.va, job.l + 1) \in live[job.l]
    /\ job.cur = at[job.l][Up(job.va, job.l + 1)]
    /\ pc = "framebuffer_walk" =>
         job.level = 1 /\ job.va = FrameBuffer.base + n /\ n <= FrameBuffer.size
    /\ pc = "map_walk" =>
         /\ job.level = 0
         /\ \E r \in Regions : size[r] > 0 /\ job.va = RegionBase[r] + size[r] - 1
         /\ \A e \in mapped : e[1] # job.va

MappedInv(live, at) ==
  \A e \in mapped :
    /\ \E r \in Regions, k \in Nat : k < size[r] /\ e[1] = RegionBase[r] + k
    /\ \A l \in 0 .. 3 : Up(e[1], l + 1) \in live[l]
    /\ Leaf(mem, at, e[1]).frame = e[2] /\ "P" \in Leaf(mem, at, e[1]).flags

TablesInv(live, at) ==
  /\ Tree(mem, pml4_table, Range(tables), live, at)
  /\ Leaves(mem, max_addr, mapped, live, at)
  /\ Orphans(mem, Range(tables), live, at)
  /\ BuildInv(live) /\ CoverInv(live) /\ LargeInv(live, at)
  /\ PermissionsInv(at) /\ NullInv(at) /\ WalkInv(live, at) /\ MappedInv(live, at)

Inv ==
  /\ TypeOK /\ CourseInv /\ ListInv
  /\ \E live \in [0 .. 3 -> SUBSET Nat], at \in [0 .. 3 -> [Nat -> Frame]] : TablesInv(live, at)

-----------------------------------------------------------------------------
(* Trees.                                                                  *)

LEMMA Ascend ==
  ASSUME NEW m, NEW root, NEW pool, NEW live, NEW at, Tree(m, root, pool, live, at),
         NEW v \in Nat, NEW l \in 0 .. 2, Up(v, l + 1) \in live[l]
  PROVE  LET w == m[at[l + 1][Up(v, l + 2)]][Index(v, l + 1)] IN
         /\ Up(v, l + 2) \in live[l + 1]
         /\ w.frame = at[l][Up(v, l + 1)] /\ "P" \in w.flags /\ "PS" \notin w.flags
<1> DEFINE q == Up(v, l + 1)
<1>1. q \div Fanout = Up(v, l + 2) /\ q % Fanout = Index(v, l + 1)
  <2>1. l + 1 \in 0 .. 3 /\ (l + 1) + 1 = l + 2
    OBVIOUS
  <2> QED BY <2>1, UpIs DEF Index
<1> HIDE DEF q
<1>2. q \in live[l]
  BY DEF q
<1> QED BY <1>1, <1>2, SMTT(30) DEF Tree, q

\* The path to an address meets the tables of its places.
LEMMA OnPath ==
  ASSUME NEW m, NEW root, NEW pool, NEW live, NEW at, Tree(m, root, pool, live, at),
         NEW v \in Nat, NEW l \in 0 .. 3, Up(v, l + 1) \in live[l]
  PROVE  /\ Path(m, root, v)[l] = at[l][Up(v, l + 1)]
         /\ \A k \in l + 1 .. 3 :
              /\ Up(v, k + 1) \in live[k]
              /\ Path(m, root, v)[k] = at[k][Up(v, k + 1)]
              /\ "P" \in m[Path(m, root, v)[k]][Index(v, k)].flags
              /\ "PS" \notin m[Path(m, root, v)[k]][Index(v, k)].flags
<1> DEFINE path == Path(m, root, v)
           On(k) == Up(v, k + 1) \in live[k]
           Good(k) == path[k] = at[k][Up(v, k + 1)]
           Entry2(k) == /\ "P" \in m[path[k]][Index(v, k)].flags
                        /\ "PS" \notin m[path[k]][Index(v, k)].flags
<1>1. ASSUME NEW k \in 0 .. 2, On(k)
      PROVE  On(k + 1) /\ (Good(k + 1) => Good(k) /\ Entry2(k + 1))
  <2>1. (k + 1) + 1 = k + 2
    OBVIOUS
  <2> QED BY <1>1, <2>1, Ascend, PathIs
<1>2. On(3) => Good(3)
  <2>1. 3 + 1 = 4
    OBVIOUS
  <2>2. live[3] \subseteq {0} /\ (0 \in live[3] => at[3][0] = root)
    BY DEF Tree
  <2> QED BY <2>1, <2>2, PathIs
<1>3. On(l)
  OBVIOUS
<1> HIDE DEF On, Good, Entry2
<1>4. /\ On(0) => On(1) /\ (Good(1) => Good(0) /\ Entry2(1))
      /\ On(1) => On(2) /\ (Good(2) => Good(1) /\ Entry2(2))
      /\ On(2) => On(3) /\ (Good(3) => Good(2) /\ Entry2(3))
  <2>1. 0 + 1 = 1 /\ 1 + 1 = 2 /\ 2 + 1 = 3
    OBVIOUS
  <2> QED BY <1>1, <2>1
<1>5. Good(l) /\ \A k \in l + 1 .. 3 : On(k) /\ Good(k) /\ Entry2(k)
  BY <1>2, <1>3, <1>4, Levels
<1> QED BY <1>5 DEF On, Good, Entry2

\* Changes of entries of level 0, and of pages that are no tables, keep the tree.
LEMMA TreeKept ==
  ASSUME NEW m, NEW m2, NEW root, NEW pool, NEW live, NEW at, Tree(m, root, pool, live, at),
         \A l \in 1 .. 3 : \A q \in live[l] : m2[at[l][q]] = m[at[l][q]]
  PROVE  Tree(m2, root, pool, live, at)
<1>1. \A l \in 0 .. 2 : l + 1 \in 1 .. 3
  OBVIOUS
<1> QED BY <1>1, SMTT(30) DEF Tree

LEMMA PlaceIs ==
  ASSUME NEW q \in Nat, NEW i \in 0 .. Fanout - 1
  PROVE  /\ (Fanout * q) + i \in Nat
         /\ ((Fanout * q) + i) \div Fanout = q /\ ((Fanout * q) + i) % Fanout = i
         /\ q \div Fanout \in Nat /\ q % Fanout \in 0 .. Fanout - 1
         /\ q = (Fanout * (q \div Fanout)) + (q % Fanout)
BY DivMod, DivModUnique

\* The places and the pages of the tables with one more.
MoreLive(live, l, q) == [live EXCEPT ![l] = @ \cup {q}]
MoreAt(at, l, q, new) == [at EXCEPT ![l] = [@ EXCEPT ![q] = new]]

IsMore(live, at, l, q, new, live2, at2) ==
  /\ live2 \in [0 .. 3 -> SUBSET Nat] /\ at2 \in [0 .. 3 -> [Nat -> Frame]]
  /\ at2[l][q] = new /\ q \in live2[l]
  /\ \A k \in 0 .. 3 : /\ live[k] \subseteq live2[k]
                       /\ k # l => live2[k] = live[k]
                       /\ \A r \in live2[k] : r \in live[k] \/ (k = l /\ r = q)
                       /\ \A r \in live[k] : r \in Nat /\ at2[k][r] = at[k][r]

LEMMA MoreIs ==
  ASSUME NEW live \in [0 .. 3 -> SUBSET Nat], NEW at \in [0 .. 3 -> [Nat -> Frame]],
         NEW l \in 0 .. 3, NEW q \in Nat, NEW new \in Frame, q \notin live[l]
  PROVE  IsMore(live, at, l, q, new, MoreLive(live, l, q), MoreAt(at, l, q, new))
<1> DEFINE live2 == MoreLive(live, l, q)
           at2 == MoreAt(at, l, q, new)
<1>1. live2 \in [0 .. 3 -> SUBSET Nat] /\ q \in live2[l] /\ \A k \in 0 .. 3 : k # l => live2[k] = live[k]
  BY DEF MoreLive
<1>2. live2[l] = live[l] \cup {q}
  BY DEF MoreLive
<1>3. at2 \in [0 .. 3 -> [Nat -> Frame]] /\ at2[l][q] = new
  BY DEF MoreAt
<1>4. \A k \in 0 .. 3 : \A r \in live[k] : r \in Nat /\ at2[k][r] = at[k][r]
  BY DEF MoreAt
<1> HIDE DEF live2, at2
<1>5. IsMore(live, at, l, q, new, live2, at2)
  BY <1>1, <1>2, <1>3, <1>4 DEF IsMore
<1> QED BY <1>5 DEF live2, at2

\* A new table, empty if it is not of level 0, is entered into its parent.
Enters(m, m2, pool, at, l, q, new, flags) ==
  /\ m2[at[l + 1][q \div Fanout]][q % Fanout] = Word(new, flags)
  /\ \A t \in pool, i \in 0 .. Fanout - 1 :
       t # at[l + 1][q \div Fanout] \/ i # q % Fanout => m2[t][i] = m[t][i]
  /\ l > 0 => \A i \in 0 .. Fanout - 1 : "P" \notin m2[new][i].flags

LEMMA TreeGrows ==
  ASSUME NEW m, NEW m2, NEW root, NEW pool, NEW flags, NEW new \in Frame, new \notin pool,
         NEW live \in [0 .. 3 -> SUBSET Nat], NEW at \in [0 .. 3 -> [Nat -> Frame]],
         NEW l \in 0 .. 2, NEW q \in Nat,
         Tree(m, root, pool, live, at),
         q \div Fanout \in live[l + 1], q \notin live[l],
         "P" \in flags, "PS" \notin flags,
         Enters(m, m2, pool, at, l, q, new, flags),
         NEW live2, NEW at2, live2 = MoreLive(live, l, q), at2 = MoreAt(at, l, q, new)
  PROVE  Tree(m2, root, pool \cup {new}, live2, at2)
<1> DEFINE parent == at[l + 1][q \div Fanout]
<1>0. /\ m2[parent][q % Fanout] = Word(new, flags)
      /\ \A t \in pool, i \in 0 .. Fanout - 1 :
           t # parent \/ i # q % Fanout => m2[t][i] = m[t][i]
      /\ l > 0 => \A i \in 0 .. Fanout - 1 : "P" \notin m2[new][i].flags
  BY DEF Enters
<1>1. IsMore(live, at, l, q, new, live2, at2)
  BY MoreIs
<1>2. \A k \in 0 .. 3 : /\ live[k] \subseteq Nat /\ live[k] \subseteq live2[k]
                        /\ \A r \in live2[k] : r \in live[k] \/ (k = l /\ r = q)
                        /\ \A r \in live[k] : at2[k][r] = at[k][r]
  BY <1>1 DEF IsMore
<1>3. at2[l][q] = new /\ q \in live2[l]
  BY <1>1 DEF IsMore
<1>4. \A k \in 0 .. 3 : \A r \in live[k] : at[k][r] \in pool /\ at[k][r] # new
  BY SMTT(30) DEF Tree
<1>5. \A k, c \in 0 .. 3 : \A r \in live[k], s \in live[c] : at[k][r] = at[c][s] => k = c /\ r = s
  BY DEF Tree
<1>6. l + 1 \in 0 .. 3 /\ l # 3 /\ parent \in pool
  BY <1>4
<1>12. \A k \in 1 .. 3 : \A r \in live[k], i \in 0 .. Fanout - 1 :
         "P" \in m[at[k][r]][i].flags =>
           \/ (Fanout * r) + i \in live[k - 1]
           \/ /\ k = 1 /\ (Fanout * r) + i \in LargeSlots
              /\ m[at[k][r]][i] = LargeWord((Fanout * r) + i)
  BY DEF Tree
<1>7. live2[3] \subseteq {0} /\ (0 \in live2[3] => at2[3][0] = root)
  BY <1>2, <1>6, SMTT(30) DEF Tree
<1>8. \A k \in 0 .. 3 : \A r \in live2[k] : at2[k][r] \in pool \cup {new}
  BY <1>2, <1>3, <1>4
<1>9. \A k, c \in 0 .. 3 : \A r \in live2[k], s \in live2[c] :
        at2[k][r] = at2[c][s] => k = c /\ r = s
  BY <1>2, <1>3, <1>4, <1>5
<1>10. ASSUME NEW k \in 0 .. 2, NEW r \in live2[k]
       PROVE  /\ r \div Fanout \in live2[k + 1]
              /\ m2[at2[k + 1][r \div Fanout]][r % Fanout].frame = at2[k][r]
              /\ "P" \in m2[at2[k + 1][r \div Fanout]][r % Fanout].flags
              /\ "PS" \notin m2[at2[k + 1][r \div Fanout]][r % Fanout].flags
  <2>1. k + 1 \in 0 .. 3
    OBVIOUS
  <2>2. CASE k = l /\ r = q
    <3>1. at2[l + 1][q \div Fanout] = parent /\ q \div Fanout \in live2[l + 1]
      BY <1>2, <1>6
    <3> QED BY <1>0, <1>3, <2>2, <3>1 DEF Word
  <2>3. CASE r \in live[k] /\ ~ (k = l /\ r = q)
    <3>1. /\ r \div Fanout \in live[k + 1]
          /\ m[at[k + 1][r \div Fanout]][r % Fanout].frame = at[k][r]
          /\ "P" \in m[at[k + 1][r \div Fanout]][r % Fanout].flags
          /\ "PS" \notin m[at[k + 1][r \div Fanout]][r % Fanout].flags
      BY <2>3 DEF Tree
    <3>2. /\ r \div Fanout \in live2[k + 1]
          /\ at2[k + 1][r \div Fanout] = at[k + 1][r \div Fanout]
          /\ at2[k][r] = at[k][r]
      BY <1>2, <2>1, <2>3, <3>1
    <3>3. r \in Nat /\ r % Fanout \in 0 .. Fanout - 1
      BY <1>2, <2>3, DivMod
    <3>4. at[k + 1][r \div Fanout] # parent \/ r % Fanout # q % Fanout
      <4>1. SUFFICES ASSUME at[k + 1][r \div Fanout] = parent, r % Fanout = q % Fanout
                     PROVE  FALSE
        OBVIOUS
      <4>2. k + 1 = l + 1 /\ r \div Fanout = q \div Fanout
        BY <1>5, <1>6, <2>1, <3>1, <4>1
      <4>3. r = q
        BY <3>3, <4>1, <4>2, DivMod
      <4> QED BY <2>3, <4>2, <4>3
    <3>5. m2[at[k + 1][r \div Fanout]][r % Fanout] = m[at[k + 1][r \div Fanout]][r % Fanout]
      BY <1>0, <1>4, <2>1, <3>1, <3>3, <3>4
    <3> QED BY <3>1, <3>2, <3>5
  <2> QED BY <1>2, <2>2, <2>3, SMTT(30)
<1>11. ASSUME NEW k \in 1 .. 3, NEW r \in live2[k], NEW i \in 0 .. Fanout - 1,
              "P" \in m2[at2[k][r]][i].flags
       PROVE  \/ (Fanout * r) + i \in live2[k - 1]
              \/ /\ k = 1 /\ (Fanout * r) + i \in LargeSlots
                 /\ m2[at2[k][r]][i] = LargeWord((Fanout * r) + i)
  <2>1. k \in 0 .. 3 /\ k - 1 \in 0 .. 3
    OBVIOUS
  <2>2. r \in live[k]
    BY <1>0, <1>2, <1>3, <1>11, <2>1
  <2>3. at2[k][r] = at[k][r] /\ at[k][r] \in pool
    BY <1>2, <1>4, <2>1, <2>2
  <2>4. CASE at[k][r] = parent /\ i = q % Fanout
    <3>1. k = l + 1 /\ r = q \div Fanout
      BY <1>5, <1>6, <2>1, <2>2, <2>4
    <3>2. (Fanout * r) + i = q
      BY <2>4, <3>1, DivMod
    <3>3. k - 1 = l
      BY <3>1
    <3> QED BY <1>3, <3>2, <3>3
  <2>5. CASE ~ (at[k][r] = parent /\ i = q % Fanout)
    <3>1. m2[at[k][r]][i] = m[at[k][r]][i]
      BY <1>0, <2>3, <2>5
    <3>2. \/ (Fanout * r) + i \in live[k - 1]
          \/ /\ k = 1 /\ (Fanout * r) + i \in LargeSlots
             /\ m[at[k][r]][i] = LargeWord((Fanout * r) + i)
      <4>1. "P" \in m[at[k][r]][i].flags
        BY <1>11, <2>3, <3>1
      <4> QED BY <1>12, <2>2, <4>1
    <3> QED BY <1>2, <2>1, <2>3, <3>1, <3>2
  <2> QED BY <2>4, <2>5
<1> QED BY <1>7, <1>8, <1>9, <1>10, <1>11 DEF Tree

\* The first table.
LEMMA TreeStarts ==
  ASSUME NEW m, NEW new \in Frame, NEW live \in [0 .. 3 -> SUBSET Nat],
         NEW at \in [0 .. 3 -> [Nat -> Frame]], live[3] = {0}, at[3][0] = new,
         \A l \in 0 .. 2 : live[l] = {},
         \A i \in 0 .. Fanout - 1 : "P" \notin m[new][i].flags
  PROVE  Tree(m, new, {new}, live, at)
<1>1. \A l \in 0 .. 3 : \A q \in live[l] : l = 3 /\ q = 0
  BY Levels
<1>2. \A l \in 0 .. 2 : \A q \in live[l] : FALSE
  OBVIOUS
<1>3. \A l \in 1 .. 3 : l \in 0 .. 3
  OBVIOUS
<1>4. \A l \in 0 .. 3 : \A q \in live[l] : at[l][q] = new
  BY <1>1
<1>5. \A l, k \in 0 .. 3 : \A q \in live[l], r \in live[k] : l = k /\ q = r
  BY <1>1
<1> QED BY <1>2, <1>3, <1>4, <1>5, SMTT(30) DEF Tree

LEMMA LargeSlotsType == LargeSlots \subseteq Nat
<1>1. FrameBuffer.base \in Nat /\ FrameBuffer.size \in Nat
  BY PagingAssumption
<1>2. FrameBuffer.base \div Fanout \in Nat
  BY <1>1, DivMod
<1> QED BY <1>2 DEF LargeSlots

\* An entry of level 1 becomes one for the framebuffer: the table it led to, if it did,
\* leaves the tree.
LessLive(live, x) == [live EXCEPT ![0] = @ \ {x}]

LEMMA TreeLarge ==
  ASSUME NEW m, NEW m2, NEW root, NEW pool,
         NEW live \in [0 .. 3 -> SUBSET Nat], NEW at, Tree(m, root, pool, live, at),
         NEW x \in LargeSlots, x \div Fanout \in live[1],
         m2[at[1][x \div Fanout]][x % Fanout] = LargeWord(x),
         \A t \in pool, i \in 0 .. Fanout - 1 :
           t # at[1][x \div Fanout] \/ i # x % Fanout => m2[t][i] = m[t][i],
         NEW live2, live2 = LessLive(live, x)
  PROVE  Tree(m2, root, pool, live2, at)
<1> DEFINE parent == at[1][x \div Fanout]
<1>0. x \in Nat
  BY LargeSlotsType
<1>2. \A k \in 0 .. 3 : /\ live[k] \subseteq Nat
                        /\ \A r \in live2[k] : r \in live[k] /\ ~ (k = 0 /\ r = x)
                        /\ \A r \in live[k] : r \in live2[k] \/ (k = 0 /\ r = x)
  BY DEF LessLive
<1>3. \A k, c \in 0 .. 3 : \A r \in live[k], s \in live[c] : at[k][r] = at[c][s] => k = c /\ r = s
  BY DEF Tree
<1>4. \A k \in 0 .. 3 : \A r \in live[k] : at[k][r] \in pool
  BY DEF Tree
<1>5. live2[3] \subseteq {0} /\ (0 \in live2[3] => at[3][0] = root)
  BY <1>2, SMTT(30) DEF Tree
<1>6. ASSUME NEW k \in 0 .. 2, NEW r \in live2[k]
      PROVE  /\ r \div Fanout \in live2[k + 1]
             /\ m2[at[k + 1][r \div Fanout]][r % Fanout].frame = at[k][r]
             /\ "P" \in m2[at[k + 1][r \div Fanout]][r % Fanout].flags
             /\ "PS" \notin m2[at[k + 1][r \div Fanout]][r % Fanout].flags
  <2>1. k + 1 \in 0 .. 3 /\ k + 1 # 0 /\ r \in live[k] /\ r \in Nat
    BY <1>2
  <2>2. /\ r \div Fanout \in live[k + 1]
        /\ m[at[k + 1][r \div Fanout]][r % Fanout].frame = at[k][r]
        /\ "P" \in m[at[k + 1][r \div Fanout]][r % Fanout].flags
        /\ "PS" \notin m[at[k + 1][r \div Fanout]][r % Fanout].flags
    BY <2>1 DEF Tree
  <2>3. ~ (at[k + 1][r \div Fanout] = parent /\ r % Fanout = x % Fanout)
    <3>1. SUFFICES ASSUME at[k + 1][r \div Fanout] = parent, r % Fanout = x % Fanout
                   PROVE  FALSE
      OBVIOUS
    <3>2. k + 1 = 1 /\ r \div Fanout = x \div Fanout
      BY <1>3, <2>1, <2>2, <3>1
    <3>3. r = x
      BY <1>0, <2>1, <3>1, <3>2, DivMod
    <3> QED BY <1>2, <3>2, <3>3
  <2>4. r % Fanout \in 0 .. Fanout - 1 /\ at[k + 1][r \div Fanout] \in pool
    BY <1>4, <2>1, <2>2, DivMod
  <2>5. m2[at[k + 1][r \div Fanout]][r % Fanout] = m[at[k + 1][r \div Fanout]][r % Fanout]
    BY <2>3, <2>4
  <2> QED BY <1>2, <2>1, <2>2, <2>5
<1>7. \A k \in 1 .. 3 : \A r \in live[k], i \in 0 .. Fanout - 1 :
        "P" \in m[at[k][r]][i].flags =>
          \/ (Fanout * r) + i \in live[k - 1]
          \/ /\ k = 1 /\ (Fanout * r) + i \in LargeSlots
             /\ m[at[k][r]][i] = LargeWord((Fanout * r) + i)
  BY DEF Tree
<1>8. ASSUME NEW k \in 1 .. 3, NEW r \in live2[k], NEW i \in 0 .. Fanout - 1,
             "P" \in m2[at[k][r]][i].flags
      PROVE  \/ (Fanout * r) + i \in live2[k - 1]
             \/ /\ k = 1 /\ (Fanout * r) + i \in LargeSlots
                /\ m2[at[k][r]][i] = LargeWord((Fanout * r) + i)
  <2>1. k \in 0 .. 3 /\ k - 1 \in 0 .. 3 /\ r \in live[k] /\ r \in Nat /\ 1 \in 0 .. 3
    BY <1>2
  <2>2. CASE at[k][r] = parent /\ i = x % Fanout
    <3>1. k = 1 /\ r = x \div Fanout
      BY <1>3, <2>1, <2>2
    <3>2. (Fanout * r) + i = x
      BY <1>0, <2>2, <3>1, DivMod
    <3> QED BY <2>2, <3>1, <3>2
  <2>3. CASE ~ (at[k][r] = parent /\ i = x % Fanout)
    <3>1. m2[at[k][r]][i] = m[at[k][r]][i]
      BY <1>4, <2>1, <2>3
    <3>2. \/ (Fanout * r) + i \in live[k - 1]
          \/ /\ k = 1 /\ (Fanout * r) + i \in LargeSlots
             /\ m[at[k][r]][i] = LargeWord((Fanout * r) + i)
      <4>1. "P" \in m[at[k][r]][i].flags
        BY <1>8, <3>1
      <4> QED BY <1>7, <2>1, <4>1
    <3>3. ~ (k = 1 /\ (Fanout * r) + i = x)
      <4>1. SUFFICES ASSUME k = 1, (Fanout * r) + i = x PROVE FALSE
        OBVIOUS
      <4>2. r = x \div Fanout /\ i = x % Fanout
        BY <2>1, <4>1, PlaceIs
      <4> QED BY <2>3, <4>1, <4>2
    <3>4. (Fanout * r) + i \in live[k - 1] => (Fanout * r) + i \in live2[k - 1]
      BY <1>2, <2>1, <3>3
    <3> QED BY <3>1, <3>2, <3>4
  <2> QED BY <2>2, <2>3
<1>9. \A k, c \in 0 .. 3 : \A r \in live2[k], s \in live2[c] : at[k][r] = at[c][s] => k = c /\ r = s
  BY <1>2, <1>3
<1>10. \A k \in 0 .. 3 : \A r \in live2[k] : at[k][r] \in pool
  BY <1>2, <1>4
<1>11. Tree(m2, root, pool, live2, at)
  BY <1>5, <1>6, <1>8, <1>9, <1>10 DEF Tree
<1> QED BY <1>11

\* Changes of the flags of memory's entries keep what the entries of level 0 are for.
LEMMA LeavesKept ==
  ASSUME NEW m, NEW m2, NEW top, NEW done, NEW done2, NEW live, NEW at,
         Leaves(m, top, done, live, at), done \subseteq done2,
         \A q \in live[0], i \in 0 .. Fanout - 1 :
           /\ m2[at[0][q]][i].frame = m[at[0][q]][i].frame
           /\ (Fanout * q) + i < top \/ m2[at[0][q]][i] = m[at[0][q]][i],
         top \in Nat, live[0] \subseteq Nat
  PROVE  Leaves(m2, top, done2, live, at)
<1> SUFFICES ASSUME NEW q \in live[0], NEW i \in 0 .. Fanout - 1
             PROVE  /\ (Fanout * q) + i < top => m2[at[0][q]][i].frame = (Fanout * q) + i
                    /\ (Fanout * q) + i >= top /\ "P" \in m2[at[0][q]][i].flags =>
                         <<(Fanout * q) + i, m2[at[0][q]][i].frame>> \in done2
                    /\ Fanout * q >= top /\ "P" \notin m2[at[0][q]][i].flags =>
                         m2[at[0][q]][i] = Word(NULL, {})
  BY DEF Leaves
<1>1. (Fanout * q) + i \in Nat /\ Fanout * q \in Nat /\ i >= 0 /\ i \in Nat
  BY FanoutType
<1>2. CASE (Fanout * q) + i < top
  <2>1. ~ (Fanout * q >= top) /\ ~ ((Fanout * q) + i >= top)
    BY <1>1, <1>2
  <2> QED BY <1>2, <2>1 DEF Leaves
<1>3. CASE ~ ((Fanout * q) + i < top)
  <2>1. m2[at[0][q]][i] = m[at[0][q]][i]
    BY <1>3
  <2> QED BY <1>3, <2>1 DEF Leaves
<1> QED BY <1>2, <1>3

-----------------------------------------------------------------------------
(* The memory map and the framebuffer.                                     *)

LEMMA MapIs ==
  /\ Len(MemoryMap) \in Nat \ {0} /\ DOMAIN MemoryMap = 1 .. Len(MemoryMap)
  /\ \A k \in DOMAIN MemoryMap :
       /\ MemoryMap[k].start \in Nat /\ MemoryMap[k].pages \in Nat \ {0}
       /\ EndOf(k) \in Nat /\ EndOf(k) = MemoryMap[k].start + MemoryMap[k].pages
       /\ EndOf(k) <= FrameCount
       /\ InDescriptor(MemoryMap[k]) = MemoryMap[k].start .. EndOf(k) - 1
       /\ MemoryMap[k].type = "Conventional" => MemoryMap[k].start > 0
  /\ \A k, d \in DOMAIN MemoryMap :
       k = d \/ EndOf(k) <= MemoryMap[d].start \/ EndOf(d) <= MemoryMap[k].start
  /\ FrameCount \in Nat \ {0} /\ MaxMapped \in Nat
<1>1. /\ MemoryMap \in Seq([type : STRING, start : Nat, pages : Nat \ {0}])
      /\ Len(MemoryMap) > 0 /\ FrameCount \in Nat /\ MaxMapped \in Nat
  BY PagingAssumption
<1>2. Len(MemoryMap) \in Nat \ {0} /\ DOMAIN MemoryMap = 1 .. Len(MemoryMap)
  BY <1>1
<1>3. \A k \in DOMAIN MemoryMap : MemoryMap[k] \in [type : STRING, start : Nat, pages : Nat \ {0}]
  <2> DEFINE D == [type : STRING, start : Nat, pages : Nat \ {0}]
  <2>1. MemoryMap \in Seq(D)
    BY <1>1
  <2> HIDE DEF D
  <2>2. \A k \in 1 .. Len(MemoryMap) : MemoryMap[k] \in D
    BY <2>1
  <2> QED BY <1>2, <2>2 DEF D
<1>4. \A k \in DOMAIN MemoryMap :
        /\ MemoryMap[k].start + MemoryMap[k].pages <= FrameCount
        /\ MemoryMap[k].type = "Conventional" => MemoryMap[k].start > 0
        /\ \A d \in DOMAIN MemoryMap : k = d
             \/ MemoryMap[k].start + MemoryMap[k].pages <= MemoryMap[d].start
             \/ MemoryMap[d].start + MemoryMap[d].pages <= MemoryMap[k].start
  <2>1. \A k \in 1 .. Len(MemoryMap) :
        /\ MemoryMap[k].start + MemoryMap[k].pages <= FrameCount
        /\ MemoryMap[k].type = "Conventional" => MemoryMap[k].start > 0
        /\ \A d \in 1 .. Len(MemoryMap) \ {k} :
             \/ MemoryMap[k].start + MemoryMap[k].pages <= MemoryMap[d].start
             \/ MemoryMap[d].start + MemoryMap[d].pages <= MemoryMap[k].start
    BY PagingAssumption
  <2> QED BY <1>2, <2>1
<1>5. \A k \in DOMAIN MemoryMap :
        /\ MemoryMap[k].start \in Nat /\ MemoryMap[k].pages \in Nat \ {0}
        /\ EndOf(k) = MemoryMap[k].start + MemoryMap[k].pages
  BY <1>3 DEF EndOf
<1>6. \A k \in DOMAIN MemoryMap :
        InDescriptor(MemoryMap[k]) = MemoryMap[k].start .. EndOf(k) - 1
  BY <1>5 DEF InDescriptor
<1>7. FrameCount # 0
  BY <1>1, <1>2, <1>4, <1>5, SMTT(30)
<1>8. \A k \in DOMAIN MemoryMap :
        /\ MemoryMap[k].start \in Nat /\ MemoryMap[k].pages \in Nat \ {0}
        /\ EndOf(k) \in Nat /\ EndOf(k) = MemoryMap[k].start + MemoryMap[k].pages
        /\ EndOf(k) <= FrameCount
  <2>1. SUFFICES ASSUME NEW k \in DOMAIN MemoryMap
                 PROVE  EndOf(k) \in Nat /\ EndOf(k) <= FrameCount
    BY <1>5
  <2> QED BY <1>4, <1>5
<1>9. \A k, d \in DOMAIN MemoryMap :
       k = d \/ EndOf(k) <= MemoryMap[d].start \/ EndOf(d) <= MemoryMap[k].start
  BY <1>4, <1>5
<1> QED BY <1>1, <1>2, <1>4, <1>6, <1>7, <1>8, <1>9

\* Pages of descriptors are pages, and of one descriptor.
LEMMA PagesAre ==
  /\ \A k \in DOMAIN MemoryMap : \A p \in InDescriptor(MemoryMap[k]) : p \in Frame /\ p \in Nat
  /\ \A k, d \in DOMAIN MemoryMap :
       \A p \in InDescriptor(MemoryMap[k]) \cap InDescriptor(MemoryMap[d]) : k = d
  /\ \A types, p : p \in PagesOf(types) <=>
       \E k \in DOMAIN MemoryMap : MemoryMap[k].type \in types /\ p \in InDescriptor(MemoryMap[k])
  /\ NULL \in Frame
<1>1. \A k \in DOMAIN MemoryMap : \A p \in InDescriptor(MemoryMap[k]) : p \in Frame /\ p \in Nat
  BY MapIs DEF Frame
<1>2. \A k, d \in DOMAIN MemoryMap :
        \A p \in InDescriptor(MemoryMap[k]) \cap InDescriptor(MemoryMap[d]) : k = d
  <2> SUFFICES ASSUME NEW k \in DOMAIN MemoryMap, NEW d \in DOMAIN MemoryMap, k # d,
                      NEW p \in InDescriptor(MemoryMap[k]), p \in InDescriptor(MemoryMap[d])
               PROVE  FALSE
    OBVIOUS
  <2>1. /\ p \in MemoryMap[k].start .. EndOf(k) - 1
        /\ p \in MemoryMap[d].start .. EndOf(d) - 1
    BY MapIs
  <2>2. /\ MemoryMap[k].start \in Nat /\ MemoryMap[d].start \in Nat
        /\ EndOf(k) \in Nat /\ EndOf(d) \in Nat
        /\ EndOf(k) <= MemoryMap[d].start \/ EndOf(d) <= MemoryMap[k].start
    BY MapIs
  <2> QED BY <2>1, <2>2
<1>3. NULL \in Frame
  BY MapIs DEF Frame, NULL
<1> QED BY <1>1, <1>2, <1>3 DEF PagesOf

\* The framebuffer's entries cover its large pages, which are not memory.
LEMMA LargeIs ==
  ASSUME Apart
  PROVE  /\ \A x \in LargeSlots : /\ x \in Nat /\ Fanout * x \in Nat \ {0}
                                  /\ Fanout * x >= FrameBuffer.base /\ Fanout * x \notin Described
         /\ \A k \in DOMAIN MemoryMap : \A v \in InDescriptor(MemoryMap[k]) : Up(v, 1) \notin LargeSlots
         /\ \A r \in Regions : \A v \in RegionPages(r) : v \in Nat => Up(v, 1) \notin LargeSlots
         /\ Up(NULL, 1) \notin LargeSlots
<1> DEFINE base == FrameBuffer.base
           s == FrameBuffer.size
           b == base \div Fanout
           c == s \div Fanout
<1>1. base \in Nat \ {0} /\ s \in Nat /\ base % Fanout = 0
  BY PagingAssumption DEF Apart
<1>2. b \in Nat /\ base = Fanout * b /\ c \in Nat /\ s % Fanout \in 0 .. Fanout - 1
      /\ s = (Fanout * c) + (s % Fanout)
  <2> HIDE DEF base, s
  <2>1. base = (Fanout * b) + 0 /\ b \in Nat
    BY <1>1, DivMod
  <2>2. Fanout * b \in Nat
    BY <2>1, FanoutType
  <2> QED BY <1>1, <2>1, <2>2, DivMod
<1>3. LargePages = base .. base + s + Fanout - 1 /\ LargeSlots = b .. b + c
  BY DEF LargePages, LargeSlots
<1> HIDE DEF base, s, b, c
<1>4. ASSUME NEW x \in LargeSlots
      PROVE  /\ x \in Nat /\ Fanout * x \in Nat \ {0} /\ Fanout * x >= base
             /\ \A i \in 0 .. Fanout - 1 : (Fanout * x) + i \in LargePages
  <2>1. x \in Nat /\ x - b \in 0 .. c
    BY <1>2, <1>3
  <2>2. PICK d \in 0 .. c : x = b + d
    BY <1>2, <2>1
  <2>3. PICK e \in Nat : c = d + e
    <3>1. c - d \in Nat /\ c = d + (c - d)
      BY <1>2
    <3> QED BY <3>1
  <2>4. Fanout * x = base + (Fanout * d) /\ Fanout * d \in Nat
    BY <1>2, <2>2, FanoutType
  <2>5. Fanout * c = (Fanout * d) + (Fanout * e) /\ Fanout * e \in Nat
    BY <1>2, <2>3, FanoutType
  <2>6. Fanout * d <= s
    BY <1>1, <1>2, <2>4, <2>5
  <2> QED BY <1>1, <1>3, <2>1, <2>4, <2>6, FanoutType
<1>5. ASSUME NEW v \in Nat, v \notin LargePages
      PROVE  Up(v, 1) \notin LargeSlots
  <2>1. v = (Fanout * Up(v, 1)) + (v % Fanout) /\ v % Fanout \in 0 .. Fanout - 1
    <3>1. Up(v, 0 + 1) = v \div Fanout
      BY UpIs
    <3> QED BY <3>1, DivMod
  <2> QED BY <1>4, <1>5, <2>1
<1>6. \A k \in DOMAIN MemoryMap : \A v \in InDescriptor(MemoryMap[k]) : v \notin LargePages /\ v \in Nat
  BY PagesAre DEF Apart
<1>7. ASSUME NEW x \in LargeSlots PROVE Fanout * x \notin Described
  <2>1. Fanout * x \in LargePages
    BY <1>4, FanoutType
  <2> QED BY <1>6, <2>1, PagesAre DEF Described
<1>8. \A r \in Regions : \A v \in RegionPages(r) : v \notin LargePages
  BY DEF Apart
<1>9. NULL \in Nat /\ NULL \notin LargePages
  BY <1>1, <1>3 DEF NULL
<1>10. \A x \in LargeSlots : Fanout * x >= FrameBuffer.base
  BY <1>4 DEF base
<1> QED BY <1>4, <1>5, <1>6, <1>7, <1>8, <1>9, <1>10

\* Four indexes are enough for all addresses in use.
LEMMA UpEnds ==
  ASSUME Apart
  PROVE  /\ \A k \in DOMAIN MemoryMap : \A v \in 0 .. EndOf(k) + Fanout : Up(v, 4) = 0
         /\ \A v \in 0 .. FrameBuffer.base + FrameBuffer.size : Up(v, 4) = 0
         /\ \A r \in Regions : \A v \in 0 .. RegionBase[r] + MaxMapped : Up(v, 4) = 0
<1>1. ASSUME NEW w \in Nat, Up(w, 4) = 0, NEW v \in 0 .. w PROVE Up(v, 4) = 0
  <2>1. Up(v, 4) \in Nat /\ Up(v, 4) <= Up(w, 4)
    BY UpType, UpMonotone
  <2> QED BY <1>1, <2>1
<1>2. \A k \in DOMAIN MemoryMap : EndOf(k) + Fanout \in Nat /\ Up(EndOf(k) + Fanout, 4) = 0
  BY MapIs, FanoutType DEF Apart, EndOf
<1>3. /\ FrameBuffer.base + FrameBuffer.size + Fanout \in Nat
      /\ Up(FrameBuffer.base + FrameBuffer.size + Fanout, 4) = 0
      /\ \A v \in 0 .. FrameBuffer.base + FrameBuffer.size :
           v \in 0 .. FrameBuffer.base + FrameBuffer.size + Fanout
  <2>1. FrameBuffer.base \in Nat /\ FrameBuffer.size \in Nat
    BY PagingAssumption
  <2> QED BY <2>1, FanoutType DEF Apart
<1>4. \A r \in Regions : RegionBase[r] + MaxMapped \in Nat /\ Up(RegionBase[r] + MaxMapped, 4) = 0
  <2>1. \A r \in Regions : RegionBase[r] \in Nat
    BY PagingAssumption
  <2> QED BY <2>1, MapIs DEF Apart
<1> QED BY <1>1, <1>2, <1>3, <1>4

-----------------------------------------------------------------------------
(* Pages.                                                                  *)

LEMMA AppendIs ==
  ASSUME NEW S, NEW s \in Seq(S), NEW e \in S
  PROVE  /\ Append(s, e) \in Seq(S) /\ Range(Append(s, e)) = Range(s) \cup {e}
         /\ IsInjective(s) /\ e \notin Range(s) => IsInjective(Append(s, e))
<1>1. /\ Append(s, e) \in Seq(S) /\ Len(s) \in Nat
      /\ DOMAIN s = 1 .. Len(s) /\ DOMAIN Append(s, e) = 1 .. Len(s) + 1
      /\ \A i \in 1 .. Len(s) : Append(s, e)[i] = s[i]
      /\ Append(s, e)[Len(s) + 1] = e
  BY AppendProperties
<1>2. \A i \in 1 .. Len(s) + 1 : i \in 1 .. Len(s) \/ i = Len(s) + 1
  BY <1>1
<1>3. \A i \in 1 .. Len(s) : i \in 1 .. Len(s) + 1
  BY <1>1
<1>4. Range(Append(s, e)) = Range(s) \cup {e}
  <2>1. Len(s) + 1 \in 1 .. Len(s) + 1
    BY <1>1
  <2> QED BY <1>1, <1>2, <1>3, <2>1 DEF Range
<1>5. IsInjective(s) /\ e \notin Range(s) => IsInjective(Append(s, e))
  BY <1>1, <1>2 DEF IsInjective, Range
<1> QED BY <1>1, <1>4, <1>5

\* The pages that the loop over the descriptors of a type is done with at descriptor c
\* and page i.
Walked(type, c, i) ==
  {p \in Frame : \E k \in DOMAIN MemoryMap :
     /\ MemoryMap[k].type = type /\ p \in InDescriptor(MemoryMap[k])
     /\ k < c \/ (k = c /\ p < MemoryMap[k].start + i)}

LEMMA WalkedEnds ==
  ASSUME NEW type
  PROVE  /\ Walked(type, 1, 0) = {}
         /\ \A c \in Nat : \A i : c > Len(MemoryMap) => Walked(type, c, i) = PagesOf({type})
         /\ \A c, i : Walked(type, c, i) \subseteq PagesOf({type})
<1>1. Walked(type, 1, 0) = {}
  <2> SUFFICES ASSUME NEW k \in DOMAIN MemoryMap, NEW p \in InDescriptor(MemoryMap[k]),
                      k < 1 \/ (k = 1 /\ p < MemoryMap[k].start + 0)
               PROVE  FALSE
    BY DEF Walked
  <2> QED BY MapIs
<1>2. ASSUME NEW c \in Nat, NEW i, c > Len(MemoryMap) PROVE Walked(type, c, i) = PagesOf({type})
  <2>1. \A k \in DOMAIN MemoryMap : k < c
    BY <1>2, MapIs
  <2> QED BY <2>1 DEF Walked, PagesOf
<1> QED BY <1>1, <1>2 DEF Walked, PagesOf

LEMMA WalkedStep ==
  ASSUME NEW type, NEW c \in DOMAIN MemoryMap, NEW i \in Nat, i < MemoryMap[c].pages,
         NEW c2, NEW i2,
         IF MemoryMap[c].type = type /\ i + 1 < MemoryMap[c].pages
         THEN i2 = i + 1 /\ c2 = c
         ELSE i2 = 0 /\ c2 = c + 1
  PROVE  /\ MemoryMap[c].type = type =>
              /\ Walked(type, c2, i2) = Walked(type, c, i) \cup {MemoryMap[c].start + i}
              /\ MemoryMap[c].start + i \notin Walked(type, c, i)
         /\ MemoryMap[c].type # type => Walked(type, c2, i2) = Walked(type, c, i)
         /\ MemoryMap[c].start + i \in InDescriptor(MemoryMap[c])
<1> DEFINE page == MemoryMap[c].start + i
           In(p, k) == p \in InDescriptor(MemoryMap[k])
           Old(p, k) == k < c \/ (k = c /\ p < MemoryMap[k].start + i)
           New(p, k) == k < c2 \/ (k = c2 /\ p < MemoryMap[k].start + i2)
<1>1. \A k \in DOMAIN MemoryMap : k \in Nat
  BY MapIs
<1>2. In(page, c) /\ page \in Frame
  <2>1. In(page, c)
    BY MapIs
  <2> QED BY <2>1, PagesAre
<1>3. \A p \in Frame, k \in DOMAIN MemoryMap :
        In(p, k) => (p \in Nat /\ MemoryMap[k].start <= p /\ p < MemoryMap[k].start + MemoryMap[k].pages)
  <2> SUFFICES ASSUME NEW p \in Frame, NEW k \in DOMAIN MemoryMap, In(p, k)
               PROVE  /\ p \in Nat /\ MemoryMap[k].start <= p
                      /\ p < MemoryMap[k].start + MemoryMap[k].pages
    OBVIOUS
  <2>1. p \in MemoryMap[k].start .. EndOf(k) - 1
    BY MapIs
  <2> QED BY <2>1, MapIs
<1>4. \A p \in Frame, k \in DOMAIN MemoryMap :
        In(p, k) /\ k # c => (New(p, k) <=> Old(p, k))
  <2> SUFFICES ASSUME NEW p \in Frame, NEW k \in DOMAIN MemoryMap, In(p, k), k # c
               PROVE  New(p, k) <=> Old(p, k)
    OBVIOUS
  <2>1. p \in Nat /\ MemoryMap[k].start <= p /\ MemoryMap[k].start \in Nat /\ k \in Nat /\ c \in Nat
    BY <1>1, <1>3, MapIs
  <2> QED BY <2>1
<1>5. ASSUME MemoryMap[c].type = type, NEW p \in Frame, In(p, c)
      PROVE  New(p, c) <=> Old(p, c) \/ p = page
  <2>1. /\ p \in Nat /\ MemoryMap[c].start <= p /\ MemoryMap[c].start \in Nat /\ c \in Nat
        /\ p < MemoryMap[c].start + MemoryMap[c].pages /\ MemoryMap[c].pages \in Nat
    BY <1>1, <1>3, <1>5, MapIs
  <2> QED BY <1>5, <2>1
<1>6. ~ Old(page, c) /\ \A k \in DOMAIN MemoryMap : In(page, k) => k = c
  <2>1. ~ Old(page, c)
    BY <1>1, MapIs
  <2> QED BY <1>2, <2>1, PagesAre
<1>7. \A d, e : Walked(type, d, e) =
        {p \in Frame : \E k \in DOMAIN MemoryMap :
           /\ MemoryMap[k].type = type /\ In(p, k)
           /\ k < d \/ (k = d /\ p < MemoryMap[k].start + e)}
  BY DEF Walked
<1>8. /\ Walked(type, c, i) =
           {p \in Frame : \E k \in DOMAIN MemoryMap : MemoryMap[k].type = type /\ In(p, k) /\ Old(p, k)}
      /\ Walked(type, c2, i2) =
           {p \in Frame : \E k \in DOMAIN MemoryMap : MemoryMap[k].type = type /\ In(p, k) /\ New(p, k)}
  BY <1>7
<1> HIDE DEF Old, New, In, page
<1>9. ASSUME MemoryMap[c].type # type PROVE Walked(type, c2, i2) = Walked(type, c, i)
  BY <1>4, <1>8, <1>9
<1>10. ASSUME MemoryMap[c].type = type
       PROVE  /\ Walked(type, c2, i2) = Walked(type, c, i) \cup {page}
              /\ page \notin Walked(type, c, i)
  <2>1. page \notin Walked(type, c, i)
    BY <1>6, <1>8
  <2>2. \A p \in Frame, k \in DOMAIN MemoryMap :
          In(p, k) => (New(p, k) <=> Old(p, k) \/ (k = c /\ p = page))
    BY <1>4, <1>5, <1>10
  <2> QED BY <1>2, <1>8, <1>10, <2>1, <2>2
<1> QED BY <1>2, <1>9, <1>10 DEF page, In

LEMMA ManagedIs ==
  Managed = (IF pc = "list" THEN Walked("Conventional", n, j) ELSE IF
               pc \in {"tables", "permissions", "framebuffer", "framebuffer_walk", "cr3",
                       "reclaim", "run", "map_walk"} THEN Conventional ELSE {})
            \cup ((IF pc = "reclaim" THEN Walked("BootServicesCode", n, j)
                   ELSE IF pc \in {"run", "map_walk"} THEN BootCode ELSE {}) \ {NULL})
<1> DEFINE tabling == {"tables", "permissions", "framebuffer", "framebuffer_walk", "cr3",
                       "reclaim", "run", "map_walk"}
           reclaiming == {"run", "map_walk"}
           C == Passed("list", tabling, "Conventional")
           B == Passed("reclaim", reclaiming, "BootServicesCode")
<1>1. Managed = C \cup (B \ {NULL})
  <2>1. {"tables", "permissions", "framebuffer", "framebuffer_walk", "cr3", "reclaim"}
          \cup {"run", "map_walk"} = tabling
    OBVIOUS
  <2> QED BY <2>1 DEF Managed
<1>2. C = IF pc = "list" THEN Walked("Conventional", n, j)
          ELSE IF pc \in tabling THEN Conventional ELSE {}
  BY DEF Passed, Walked, Conventional, PagesOf
<1>3. B = IF pc = "reclaim" THEN Walked("BootServicesCode", n, j)
          ELSE IF pc \in reclaiming THEN BootCode ELSE {}
  BY DEF Passed, Walked, BootCode, PagesOf
<1> QED BY <1>1, <1>2, <1>3

LEMMA PagesApart ==
  /\ Conventional \cup BootCode \subseteq Described /\ Described \subseteq Frame
  /\ NULL \notin Conventional
  /\ \A k \in DOMAIN MemoryMap : \A p \in InDescriptor(MemoryMap[k]) :
       /\ p \in Described
       /\ p \in Conventional <=> MemoryMap[k].type = "Conventional"
       /\ p \in BootCode <=> MemoryMap[k].type = "BootServicesCode"
<1>1. \A types : PagesOf(types) \subseteq Described
  BY PagesAre DEF Described
<1>2. Described \subseteq Frame
  BY PagesAre DEF Described
<1>3. NULL \notin Conventional
  BY PagesAre, MapIs DEF Conventional, NULL
<1>4. \A k \in DOMAIN MemoryMap : \A p \in InDescriptor(MemoryMap[k]) :
       /\ p \in Described
       /\ p \in Conventional <=> MemoryMap[k].type = "Conventional"
       /\ p \in BootCode <=> MemoryMap[k].type = "BootServicesCode"
  BY PagesAre DEF Described, Conventional, BootCode
<1> QED BY <1>1, <1>2, <1>3, <1>4 DEF Conventional, BootCode

\* A page is put in front of the list, or its first page is taken.
LEMMA LinksPush ==
  ASSUME NEW m, NEW m2, NEW head, NEW free, Links(m, head, free), NULL \notin free,
         NEW page, page \notin free, page # NULL,
         m2[page][0].frame = head, \A p \in free : m2[p][0].frame = m[p][0].frame
  PROVE  Links(m2, page, free \cup {page})
BY DEF Links

LEMMA LinksPop ==
  ASSUME NEW m, NEW m2, NEW head, NEW free, Links(m, head, free), NULL \notin free,
         head # NULL, \A p \in free \ {head} : m2[p][0].frame = m[p][0].frame
  PROVE  Links(m2, m[head][0].frame, free \ {head})
BY DEF Links

LEMMA LinksKept ==
  ASSUME NEW m, NEW m2, NEW head, NEW free, Links(m, head, free),
         \A p \in free : m2[p][0].frame = m[p][0].frame
  PROVE  Links(m2, head, free)
BY DEF Links

-----------------------------------------------------------------------------
(* The list.                                                               *)

WordSet == [frame : Nat, flags : SUBSET WordFlags]
Page == [0 .. Fanout - 1 -> WordSet]
Memory == [Frame -> [0 .. Fanout - 1 -> WordSet]]

LEMMA Write ==
  ASSUME NEW m \in Memory, NEW p \in Frame, NEW i \in 0 .. Fanout - 1, NEW w \in WordSet,
         NEW m2, m2 = [m EXCEPT ![p][i] = w]
  PROVE  /\ m2 \in Memory /\ m2[p][i] = w
         /\ \A q \in Frame, k \in 0 .. Fanout - 1 : q # p \/ k # i => m2[q][k] = m[q][k]
         /\ \A q \in Frame : q # p => m2[q] = m[q]
BY DEF Memory

LEMMA WordIs ==
  ASSUME NEW p \in Nat, NEW flags \in SUBSET WordFlags
  PROVE  /\ Word(p, flags) \in WordSet
         /\ Word(p, flags).frame = p /\ Word(p, flags).flags = flags
BY DEF Word, WordSet

LEMMA FlagsAre ==
  ASSUME NEW w \in WordSet, NEW on \in SUBSET WordFlags, NEW off
  PROVE  /\ Flags(w, on, off) \in WordSet
         /\ Flags(w, on, off).frame = w.frame
         /\ Flags(w, on, off).flags = (w.flags \ off) \cup on
BY DEF Flags, WordSet

LEMMA FrameNat == Frame \subseteq Nat /\ 0 \in 0 .. Fanout - 1
BY FanoutType DEF Frame

LEMMA UpZero == \A l \in 0 .. 4 : Up(0, l) = 0
<1>1. Up(0, 0) = 0 /\ \A l \in 0 .. 3 : Up(0, l + 1) = Up(0, l) \div Fanout
  BY UpIs
<1>2. 0 \div Fanout = 0
  BY FanoutType
<1>3. Up(0, 0 + 1) = 0 /\ Up(0, 1) = 0
  BY <1>1, <1>2
<1>4. Up(0, 1 + 1) = 0 /\ Up(0, 2) = 0
  BY <1>1, <1>2, <1>3
<1>5. Up(0, 2 + 1) = 0 /\ Up(0, 3) = 0
  BY <1>1, <1>2, <1>4
<1>6. Up(0, 3 + 1) = 0 /\ Up(0, 4) = 0
  BY <1>1, <1>2, <1>5
<1> QED BY <1>1, <1>3, <1>4, <1>5, <1>6, Levels

\* As long as no page is a table, there is nothing to say of the tables.
LEMMA NoTables ==
  ASSUME NEW m, NEW root, NEW live \in [0 .. 3 -> SUBSET Nat], NEW at
  PROVE  /\ Tree(m, root, {}, live, at) <=> \A l \in 0 .. 3 : live[l] = {}
         /\ Tree(m, root, {}, live, at) =>
              \A top, done : Leaves(m, top, done, live, at)
         /\ Orphans(m, {}, live, at)
<1>1. Tree(m, root, {}, live, at) => \A l \in 0 .. 3 : live[l] = {}
  BY DEF Tree
<1>2. ASSUME \A l \in 0 .. 3 : live[l] = {} PROVE Tree(m, root, {}, live, at)
  BY <1>2, SMTT(30) DEF Tree
<1>3. Orphans(m, {}, live, at)
  BY DEF Orphans
<1> QED BY <1>1, <1>2, <1>3 DEF Leaves

LEMMA InitEstablishes == ASSUME Apart, Blank, Init PROVE Inv
<1>1. TypeOK
  <2>1. NULL \in Frame
    BY PagesAre
  <2>2. mem \in [Frame -> [0 .. Fanout - 1 -> [frame : Nat, flags : SUBSET WordFlags]]]
    BY PagingAssumption DEF Init
  <2>3. 0 \in 0 .. MaxMapped
    BY MapIs
  <2>3a. tables \in Seq(Frame)
    BY DEF Init
  <2>3b. cr3 \in BOOLEAN /\ cpu \in {"run", "oom", "pf"}
    BY Zenon DEF Init
  <2>4. cr3 \in BOOLEAN /\ cpu \in {"run", "oom", "pf"} /\ tables \in Seq(Frame)
    BY <2>3a, <2>3b
  <2>5. {first_free_page, pml4_table} \cup stale \subseteq Frame
    BY <2>1 DEF Init
  <2>6. {max_addr, n, j} \subseteq Nat
    BY DEF Init
  <2>7. job \in [va : Nat, page : Frame, cur : Frame, l : 0 .. 3, level : 0 .. 1]
    BY <2>1 DEF Init, NULL
  <2>8. size \in [Regions -> 0 .. MaxMapped] /\ \A m \in mapped : m \in Nat \X Frame
    BY <2>3 DEF Init
  <2> QED BY <2>2, <2>4, <2>5, <2>6, <2>7, <2>8, Zenon DEF TypeOK
<1>2. CourseInv
  <2>1. 1 \in DOMAIN MemoryMap /\ 0 < MemoryMap[1].pages
    BY MapIs
  <2>2. \A k \in DOMAIN MemoryMap : ~ k < 1
    BY MapIs
  <2>3. ~ 1 > Len(MemoryMap)
    BY MapIs
  <2> QED BY <2>1, <2>2, <2>3 DEF Init, CourseInv, LoopPcs, WalkPcs
<1>3. Range(tables) = {} /\ DataPages = {}
  BY DEF Init, Range, DataPages
<1>4. Managed = {} /\ FreePages = {}
  <2>1. Managed = {}
    BY ManagedIs, WalkedEnds DEF Init
  <2> QED BY <2>1 DEF FreePages
<1>5. ListInv
  <2>1. IsInjective(tables)
    BY DEF Init, IsInjective
  <2>2. \A p \in Frame : \A i \in 0 .. Fanout - 1 : "P" \notin mem[p][i].flags
    BY DEF Init, Blank
  <2>3. Links(mem, first_free_page, FreePages)
    BY <1>4 DEF Init, Links
  <2> QED BY <1>3, <1>4, <2>1, <2>2, <2>3 DEF ListInv
<1>6. ASSUME NEW live \in [0 .. 3 -> SUBSET Nat], NEW at \in [0 .. 3 -> [Nat -> Frame]],
             live = [l \in 0 .. 3 |-> {}]
      PROVE  TablesInv(live, at)
  <2>1. /\ Tree(mem, pml4_table, Range(tables), live, at)
        /\ Leaves(mem, max_addr, mapped, live, at)
        /\ Orphans(mem, Range(tables), live, at)
    <3>1. \A l \in 0 .. 3 : live[l] = {}
      BY <1>6
    <3>2. Tree(mem, pml4_table, {}, live, at)
      BY <3>1, NoTables
    <3> QED BY <1>3, <3>2, NoTables
  <2>2. BuildInv(live) /\ CoverInv(live) /\ LargeInv(live, at)
    BY DEF Init, BuildInv, CoverInv, LargeInv
  <2>3. PermissionsInv(at) /\ NullInv(at) /\ WalkInv(live, at) /\ MappedInv(live, at)
    BY DEF Init, PermissionsInv, NullInv, WalkInv, MappedInv, WalkPcs
  <2> QED BY <2>1, <2>2, <2>3 DEF TablesInv
<1>7. \E live \in [0 .. 3 -> SUBSET Nat], at \in [0 .. 3 -> [Nat -> Frame]] : TablesInv(live, at)
  <2>1. [l \in 0 .. 3 |-> {}] \in [0 .. 3 -> SUBSET Nat]
    OBVIOUS
  <2>2. [l \in 0 .. 3 |-> [q \in Nat |-> NULL]] \in [0 .. 3 -> [Nat -> Frame]]
    BY PagesAre
  <2> QED BY <1>6, <2>1, <2>2
<1> QED BY <1>1, <1>2, <1>5, <1>7 DEF Inv

LEMMA ListPageKeeps ==
  ASSUME Apart, TypeOK, CourseInv, ListInv, ListPage
  PROVE  TypeOK' /\ CourseInv' /\ ListInv'
<1> DEFINE d == MemoryMap[n]
           page == d.start + j
           w == Word(first_free_page, {})
<1>1. /\ n \in DOMAIN MemoryMap /\ j \in Nat /\ n \in Nat /\ j < d.pages /\ pc = "list" /\ pc' = "list"
      /\ UNCHANGED <<pml4_table, cr3, stale, cpu, job, size, tables, mapped>>
      /\ IF d.type = "Conventional" /\ j + 1 < d.pages
         THEN j' = j + 1 /\ n' = n
         ELSE j' = 0 /\ n' = n + 1
  <2>1. n \in Nat /\ j \in Nat
    BY DEF TypeOK
  <2>2. n >= 1 /\ j < d.pages
    BY DEF ListPage, At, CourseInv, LoopPcs
  <2>3. n \in 1 .. Len(MemoryMap)
    BY <2>1, <2>2, MapIs DEF ListPage, At
  <2> QED BY <2>1, <2>2, <2>3, MapIs DEF ListPage, At, NextPage
<1>2. /\ EndOf(n) \in Nat /\ EndOf(n) = d.start + d.pages /\ d.pages \in Nat \ {0}
      /\ max_addr' = IF EndOf(n) > max_addr THEN EndOf(n) ELSE max_addr
      /\ max_addr \in Nat
  <2>1. EndOf(n) \in Nat /\ EndOf(n) = d.start + d.pages /\ d.pages \in Nat \ {0}
    BY <1>1, MapIs
  <2>2. max_addr \in Nat
    BY DEF TypeOK
  <2>3. max_addr' = IF d.start + d.pages > max_addr THEN d.start + d.pages ELSE max_addr
    BY DEF ListPage
  <2> QED BY <2>1, <2>2, <2>3
<1>3. IF d.type = "Conventional"
      THEN mem' = [mem EXCEPT ![page][0] = w] /\ first_free_page' = page
      ELSE mem' = mem /\ first_free_page' = first_free_page
  BY DEF ListPage
<1>4. mem \in Memory /\ first_free_page \in Frame /\ w \in WordSet
      /\ w.frame = first_free_page /\ w.flags = {}
  <2>1. mem \in Memory /\ first_free_page \in Frame
    BY DEF TypeOK, Memory, WordSet
  <2> QED BY <2>1, FrameNat, WordIs
<1>5. tables = <<>> /\ Range(tables) = {} /\ DataPages = {} /\ DataPages' = {} /\ mapped = {}
      /\ Range(tables)' = {} /\ tables' = <<>> /\ mapped' = {}
  <2>1. tables = <<>> /\ mapped = {}
    BY <1>1 DEF CourseInv
  <2>2. DataPages = {} /\ DataPages' = {}
    BY <1>1, <2>1 DEF DataPages
  <2> QED BY <1>1, <2>1, <2>2 DEF Range
<1>6. FreePages = Walked("Conventional", n, j) /\ FreePages' = Walked("Conventional", n', j')
      /\ Managed' = FreePages'
  <2>1. Managed = Walked("Conventional", n, j)
    BY <1>1, ManagedIs
  <2>2. Managed' = Walked("Conventional", n', j')
    BY <1>1 DEF Managed, Passed, Walked
  <2> QED BY <1>5, <2>1, <2>2 DEF FreePages
<1>7. page \in InDescriptor(MemoryMap[n]) /\ page \in Frame
  <2>1. page \in InDescriptor(MemoryMap[n])
    BY <1>1, MapIs
  <2> QED BY <1>1, <2>1, PagesAre
<1>8. /\ mem' \in Memory /\ first_free_page' \in Frame
      /\ Links(mem', first_free_page', FreePages')
      /\ \A p \in Frame : \A i \in 0 .. Fanout - 1 : "P" \notin mem'[p][i].flags
  <2>1. Links(mem, first_free_page, FreePages)
        /\ \A p \in Frame : \A i \in 0 .. Fanout - 1 : "P" \notin mem[p][i].flags
    BY <1>5 DEF ListInv
  <2>2. CASE d.type = "Conventional"
    <3>1. FreePages' = FreePages \cup {page} /\ page \notin FreePages
      BY <1>1, <1>6, <2>2, WalkedStep
    <3>2. /\ mem' \in Memory /\ mem'[page][0] = w
          /\ \A q \in Frame, k \in 0 .. Fanout - 1 : q # page \/ k # 0 => mem'[q][k] = mem[q][k]
      <4> HIDE DEF w, page
      <4>1. mem' = [mem EXCEPT ![page][0] = w]
        BY <1>3, <2>2
      <4>2. mem \in Memory /\ page \in Frame /\ 0 \in 0 .. Fanout - 1 /\ w \in WordSet
        BY <1>4, <1>7, FrameNat
      <4>3. mem' \in Memory
        BY <4>1, <4>2, Write
      <4>4. mem'[page][0] = w
        BY <4>1, <4>2 DEF Memory
      <4>5. \A q \in Frame, k \in 0 .. Fanout - 1 : q # page \/ k # 0 => mem'[q][k] = mem[q][k]
        BY <4>1, <4>2, Write
      <4> QED BY <4>3, <4>4, <4>5
    <3>3. FreePages \subseteq Conventional /\ page \in Conventional
      BY <1>1, <1>6, <1>7, <2>2, PagesApart, WalkedEnds DEF Conventional
    <3>4. NULL \notin FreePages /\ page # NULL /\ FreePages \subseteq Frame
      BY <3>3, PagesApart
    <3>5. \A p \in FreePages : mem'[p][0].frame = mem[p][0].frame
      BY <3>1, <3>2, <3>4, FrameNat
    <3>6. Links(mem', page, FreePages \cup {page})
      BY <1>4, <2>1, <3>1, <3>2, <3>4, <3>5, LinksPush
    <3>7. \A p \in Frame : \A i \in 0 .. Fanout - 1 : "P" \notin mem'[p][i].flags
      BY <1>4, <2>1, <3>2
    <3> QED BY <1>3, <1>7, <2>2, <3>1, <3>2, <3>6, <3>7
  <2>3. CASE d.type # "Conventional"
    <3>1. FreePages' = FreePages
      BY <1>1, <1>6, <2>3, WalkedStep
    <3> QED BY <1>3, <1>4, <2>1, <2>3, <3>1
  <2> QED BY <2>2, <2>3
<1>9. /\ max_addr' \in Nat /\ n' \in Nat /\ j' \in Nat /\ n' >= 1
      /\ n' <= Len(MemoryMap) => j' < MemoryMap[n'].pages
      /\ n' > Len(MemoryMap) => j' = 0
  <2>1. max_addr' \in Nat
    BY <1>2
  <2>2. CASE d.type = "Conventional" /\ j + 1 < d.pages
    BY <1>1, <2>1, <2>2, MapIs
  <2>3. CASE ~ (d.type = "Conventional" /\ j + 1 < d.pages)
    <3>1. j' = 0 /\ n' = n + 1
      BY <1>1, <2>3
    <3>2. n' <= Len(MemoryMap) => n' \in DOMAIN MemoryMap
      BY <1>1, <3>1, MapIs
    <3> QED BY <1>1, <2>1, <3>1, <3>2, MapIs
  <2> QED BY <2>2, <2>3
<1>10. TypeOK'
  <2>1. mem' \in [Frame -> [0 .. Fanout - 1 -> [frame : Nat, flags : SUBSET WordFlags]]]
    BY <1>8 DEF Memory, WordSet
  <2>2. /\ {first_free_page', pml4_table'} \cup stale' \subseteq Frame
        /\ tables' \in Seq(Frame)
        /\ job' \in [va : Nat, page : Frame, cur : Frame, l : 0 .. 3, level : 0 .. 1]
        /\ size' \in [Regions -> 0 .. MaxMapped]
    BY <1>1, <1>8 DEF TypeOK
  <2>3. {max_addr', n', j'} \subseteq Nat
    BY <1>9
  <2>4. cr3' \in BOOLEAN /\ cpu' \in {"run", "oom", "pf"}
    BY <1>1, Zenon DEF TypeOK
  <2>5. \A m \in mapped' : m \in Nat \X Frame
    BY <1>5
  <2> QED BY <2>1, <2>2, <2>3, <2>4, <2>5, Zenon DEF TypeOK
<1>11. CourseInv'
  <2>1. \A k \in DOMAIN MemoryMap : k < n' => EndOf(k) <= max_addr'
    <3> SUFFICES ASSUME NEW k \in DOMAIN MemoryMap, k < n' PROVE EndOf(k) <= max_addr'
      OBVIOUS
    <3>1. k \in Nat /\ EndOf(k) \in Nat /\ (k < n \/ k = n)
      BY <1>1, MapIs
    <3>2. k < n => EndOf(k) <= max_addr
      BY <1>1 DEF CourseInv
    <3> QED BY <1>2, <3>1, <3>2
  <2>2. max_addr' = 0 \/ \E k \in DOMAIN MemoryMap : max_addr' = EndOf(k)
    <3>1. max_addr = 0 \/ \E k \in DOMAIN MemoryMap : max_addr = EndOf(k)
      BY DEF CourseInv
    <3> QED BY <1>1, <1>2, <3>1
  <2>3. ~ cr3' /\ \A r \in Regions : size'[r] = 0
    BY <1>1 DEF CourseInv
  <2> QED BY <1>1, <1>5, <1>9, <2>1, <2>2, <2>3 DEF CourseInv, LoopPcs, WalkPcs
<1>12. ListInv'
  <2>1. IsInjective(tables)' /\ (Range(tables) \cup DataPages \subseteq Managed)'
        /\ (Range(tables) \cap DataPages = {})'
    BY <1>5 DEF IsInjective
  <2> QED BY <1>5, <1>8, <2>1 DEF ListInv
<1> QED BY <1>10, <1>11, <1>12

LEMMA ListPageKeepsTables ==
  ASSUME NEW live \in [0 .. 3 -> SUBSET Nat], NEW at \in [0 .. 3 -> [Nat -> Frame]],
         CourseInv, TablesInv(live, at), ListPage
  PROVE  TablesInv(live, at)'
<1>1. pc = "list" /\ pc' = "list" /\ tables' = <<>> /\ mapped' = {} /\ Range(tables) = {} /\ Range(tables') = {}
  BY DEF ListPage, At, CourseInv, Range
<1>2. Tree(mem', pml4_table', {}, live, at)
  <2>1. Tree(mem, pml4_table, {}, live, at)
    BY <1>1 DEF TablesInv
  <2> QED BY <2>1, NoTables
<1>3. Leaves(mem', max_addr', mapped', live, at) /\ Orphans(mem', {}, live, at)
  BY <1>2, NoTables
<1> QED BY <1>1, <1>2, <1>3
        DEF TablesInv, BuildInv, CoverInv, LargeInv, PermissionsInv, NullInv, WalkInv, MappedInv, WalkPcs

LEMMA MemoryIs ==
  ASSUME Apart, TypeOK, CourseInv, pc # "list"
  PROVE  /\ max_addr \in Nat \ {0}
         /\ \A k \in DOMAIN MemoryMap :
              /\ EndOf(k) <= max_addr
              /\ MemoryMap[k].type = "Conventional" => EndOf(k) < max_addr
              /\ \A v \in InDescriptor(MemoryMap[k]) : v \in 0 .. max_addr - 1
         /\ \A v \in 0 .. max_addr + Fanout : Up(v, 4) = 0
         /\ \A r \in Regions : max_addr <= RegionBase[r] /\ RegionBase[r] \in Nat
<1>1. max_addr \in Nat /\ \A k \in DOMAIN MemoryMap : EndOf(k) <= max_addr /\ EndOf(k) \in Nat
  BY MapIs DEF TypeOK, CourseInv
<1>2. 1 \in DOMAIN MemoryMap /\ EndOf(1) > 0
  BY MapIs
<1>3. max_addr # 0
  BY <1>1, <1>2
<1>4. PICK d \in DOMAIN MemoryMap : max_addr = EndOf(d)
  BY <1>3 DEF CourseInv
<1>5. \A k \in DOMAIN MemoryMap : MemoryMap[k].type = "Conventional" => EndOf(k) < max_addr
  <2> SUFFICES ASSUME NEW k \in DOMAIN MemoryMap, MemoryMap[k].type = "Conventional"
               PROVE  EndOf(k) < max_addr
    OBVIOUS
  <2>1. PICK e \in DOMAIN MemoryMap : EndOf(k) < EndOf(e)
    BY DEF Apart, EndOf
  <2> QED BY <1>1, <2>1
<1>6. \A k \in DOMAIN MemoryMap : \A v \in InDescriptor(MemoryMap[k]) : v \in 0 .. max_addr - 1
  <2> SUFFICES ASSUME NEW k \in DOMAIN MemoryMap, NEW v \in InDescriptor(MemoryMap[k])
               PROVE  v \in 0 .. max_addr - 1
    OBVIOUS
  <2>1. v \in MemoryMap[k].start .. EndOf(k) - 1 /\ MemoryMap[k].start \in Nat
    BY MapIs
  <2> QED BY <1>1, <2>1
<1>7. \A v \in 0 .. max_addr + Fanout : Up(v, 4) = 0
  BY <1>4, UpEnds
<1>8. \A r \in Regions : RegionBase[r] \in Nat /\ max_addr <= RegionBase[r]
  BY <1>4, PagingAssumption DEF Apart, EndOf
<1> QED BY <1>1, <1>3, <1>5, <1>6, <1>7, <1>8

\* The addresses of the regions lie above the tables of memory.
LEMMA RegionsAbove ==
  ASSUME Apart, TypeOK, CourseInv, pc # "list", NEW r \in Regions, NEW k \in 0 .. MaxMapped - 1
  PROVE  LET v == RegionBase[r] + k IN
         /\ v \in Nat /\ v \in RegionPages(r) /\ Up(v, 4) = 0
         /\ v >= max_addr /\ Fanout * Up(v, 1) >= max_addr
         /\ Up(v, 1) \notin LargeSlots
<1> DEFINE v == RegionBase[r] + k
           b == RegionBase[r] \div Fanout
<1>1. RegionBase[r] \in Nat /\ max_addr <= RegionBase[r] /\ max_addr \in Nat /\ MaxMapped \in Nat
      /\ v \in Nat
  BY MemoryIs, MapIs
<1>2. v \in RegionPages(r) /\ v \in 0 .. RegionBase[r] + MaxMapped
  BY <1>1 DEF RegionPages
<1>3. RegionBase[r] = Fanout * b /\ b \in Nat
  <2>1. RegionBase[r] % Fanout = 0
    BY DEF Apart
  <2>2. RegionBase[r] = (Fanout * b) + 0 /\ b \in Nat
    BY <1>1, <2>1, DivMod
  <2>3. Fanout * b \in Nat
    BY <2>2, FanoutType
  <2> QED BY <2>2, <2>3
<1>4. Up(v, 1) \in Nat /\ Up(v, 1) >= b
  <2>1. Up(v, 0 + 1) = v \div Fanout /\ RegionBase[r] <= v
    BY <1>1, UpIs
  <2> QED BY <1>1, <1>3, <2>1, DivMonotone, DivMod
<1>5. Fanout * Up(v, 1) >= Fanout * b
  <2>1. PICK e \in Nat : Up(v, 1) = b + e
    <3>1. Up(v, 1) - b \in Nat /\ Up(v, 1) = b + (Up(v, 1) - b)
      BY <1>3, <1>4
    <3> QED BY <3>1
  <2>2. Fanout * Up(v, 1) = (Fanout * b) + (Fanout * e) /\ Fanout * e \in Nat /\ Fanout * b \in Nat
    BY <1>3, <2>1, FanoutType
  <2> QED BY <2>2
<1>6. Fanout * Up(v, 1) \in Nat
  BY <1>4, FanoutType
<1> HIDE DEF b
<1> QED BY <1>1, <1>2, <1>3, <1>5, <1>6, UpEnds, LargeIs

\* Steps that change neither memory nor what is in whose hands.
LEMMA TypeKept ==
  ASSUME TypeOK, UNCHANGED <<mem, first_free_page, pml4_table, max_addr, tables, mapped, size>>,
         stale' \subseteq Frame, {n', j'} \subseteq Nat,
         job' \in [va : Nat, page : Frame, cur : Frame, l : 0 .. 3, level : 0 .. 1],
         cr3' \in BOOLEAN, cpu' \in {"run", "oom", "pf"}
  PROVE  TypeOK'
<1>1. mem' \in [Frame -> [0 .. Fanout - 1 -> [frame : Nat, flags : SUBSET WordFlags]]]
  BY DEF TypeOK
<1>2. /\ {first_free_page', pml4_table'} \cup stale' \subseteq Frame
      /\ tables' \in Seq(Frame) /\ size' \in [Regions -> 0 .. MaxMapped]
      /\ {max_addr', n', j'} \subseteq Nat /\ \A m \in mapped' : m \in Nat \X Frame
  BY DEF TypeOK
<1> QED BY <1>1, <1>2, Zenon DEF TypeOK

LEMMA ListKept ==
  ASSUME ListInv, UNCHANGED <<mem, first_free_page, tables>>,
         Managed' = Managed, DataPages' = DataPages
  PROVE  ListInv'
<1>1. FreePages' = FreePages
  BY DEF FreePages
<1> QED BY <1>1 DEF ListInv, IsInjective

LEMMA TablesSame ==
  ASSUME NEW live, NEW at, TablesInv(live, at),
         UNCHANGED <<mem, pml4_table, max_addr, pc, n, j, job, size, tables, mapped>>
  PROVE  TablesInv(live, at)'
<1>1. /\ Tree(mem', pml4_table', Range(tables'), live, at)
      /\ Leaves(mem', max_addr', mapped', live, at)
      /\ Orphans(mem', Range(tables'), live, at)
  BY DEF TablesInv
<1>2. BuildInv(live)'
  BY DEF TablesInv, BuildInv
<1>3. CoverInv(live)'
  BY DEF TablesInv, CoverInv
<1>4. LargeInv(live, at)'
  BY DEF TablesInv, LargeInv
<1>5. PermissionsInv(at)' /\ NullInv(at)'
  BY DEF TablesInv, PermissionsInv, NullInv, Leaf
<1>6. WalkInv(live, at)'
  BY DEF TablesInv, WalkInv
<1>7. MappedInv(live, at)'
  BY DEF TablesInv, MappedInv, Leaf
<1> QED BY <1>1, <1>2, <1>3, <1>4, <1>5, <1>6, <1>7 DEF TablesInv

LEMMA HaltKeeps ==
  ASSUME TypeOK, CourseInv, ListInv, NEW why \in {"oom", "pf"}, Halt(why)
  PROVE  /\ TypeOK' /\ CourseInv' /\ ListInv'
         /\ \A live, at : TablesInv(live, at) => TablesInv(live, at)'
<1>1. TypeOK'
  <2>1. stale' \subseteq Frame /\ {n', j'} \subseteq Nat
        /\ job' \in [va : Nat, page : Frame, cur : Frame, l : 0 .. 3, level : 0 .. 1]
    BY DEF TypeOK, Halt
  <2>2. cr3' \in BOOLEAN /\ cpu' \in {"run", "oom", "pf"}
    BY Zenon DEF TypeOK, Halt
  <2> QED BY <2>1, <2>2, TypeKept DEF Halt
<1>2. CourseInv'
  BY DEF CourseInv, Halt
<1>3. ListInv'
  <2>1. Managed' = Managed /\ DataPages' = DataPages
    BY DEF Managed, Passed, DataPages, Halt
  <2> QED BY <2>1, ListKept DEF Halt
<1>4. \A live, at : TablesInv(live, at) => TablesInv(live, at)'
  <2>1. UNCHANGED <<mem, pml4_table, max_addr, pc, n, j, job, size, tables, mapped>>
    BY DEF Halt
  <2> QED BY <2>1, TablesSame
<1> QED BY <1>1, <1>2, <1>3, <1>4

LEMMA EvictTlbKeeps ==
  ASSUME TypeOK, CourseInv, ListInv, EvictTlb
  PROVE  /\ TypeOK' /\ CourseInv' /\ ListInv'
         /\ \A live, at : TablesInv(live, at) => TablesInv(live, at)'
<1>0. UNCHANGED <<mem, first_free_page, pml4_table, max_addr, cr3, cpu, pc, n, j, job, size, tables, mapped>>
  BY DEF EvictTlb
<1>1. TypeOK'
  <2>1. stale' \subseteq Frame /\ {n', j'} \subseteq Nat
        /\ job' \in [va : Nat, page : Frame, cur : Frame, l : 0 .. 3, level : 0 .. 1]
    BY DEF TypeOK, EvictTlb
  <2>2. cr3' \in BOOLEAN /\ cpu' \in {"run", "oom", "pf"}
    BY <1>0, Zenon DEF TypeOK
  <2> QED BY <1>0, <2>1, <2>2, TypeKept
<1>2. CourseInv'
  BY <1>0 DEF CourseInv
<1>3. ListInv'
  <2>1. Managed' = Managed /\ DataPages' = DataPages
    BY <1>0 DEF Managed, Passed, DataPages
  <2> QED BY <1>0, <2>1, ListKept
<1>4. \A live, at : TablesInv(live, at) => TablesInv(live, at)'
  BY <1>0, TablesSame
<1> QED BY <1>1, <1>2, <1>3, <1>4

-----------------------------------------------------------------------------
(* The steps of init_memory that only move on.                             *)

LEMMA IndexZero == \A k \in 0 .. 3 : Index(0, k) = 0
<1>1. 0 % Fanout = 0
  BY FanoutType
<1> QED BY <1>1, UpZero DEF Index

LEMMA ListBuiltKeeps ==
  ASSUME Apart, TypeOK, CourseInv, ListInv, ListBuilt,
         NEW live \in [0 .. 3 -> SUBSET Nat], NEW at, TablesInv(live, at)
  PROVE  TypeOK' /\ CourseInv' /\ ListInv' /\ TablesInv(live, at)'
<1>1. /\ pc = "list" /\ n \in Nat /\ n > Len(MemoryMap) /\ pc' = "tables" /\ n' = 0 /\ j' = 3
      /\ UNCHANGED <<mem, first_free_page, pml4_table, max_addr, cr3, stale, cpu,
                     job, size, tables, mapped>>
  BY DEF ListBuilt, TypeOK
<1>2. TypeOK'
  <2>1. stale' \subseteq Frame /\ {n', j'} \subseteq Nat
        /\ job' \in [va : Nat, page : Frame, cur : Frame, l : 0 .. 3, level : 0 .. 1]
    BY <1>1 DEF TypeOK
  <2>2. cr3' \in BOOLEAN /\ cpu' \in {"run", "oom", "pf"}
    BY <1>1, Zenon DEF TypeOK
  <2> QED BY <1>1, <2>1, <2>2, TypeKept
<1>3. CourseInv'
  <2>1. \A k \in DOMAIN MemoryMap : k < n
    BY <1>1, MapIs
  <2> QED BY <1>1, <2>1 DEF CourseInv, LoopPcs, WalkPcs
<1>4. ListInv'
  <2>1. Managed = Conventional
    BY <1>1, ManagedIs, WalkedEnds DEF Conventional
  <2>2. Managed' = Conventional
    BY <1>1 DEF Managed, Passed, Conventional, PagesOf
  <2>3. DataPages' = DataPages
    BY <1>1 DEF DataPages
  <2> QED BY <1>1, <2>1, <2>2, <2>3, ListKept
<1>5. TablesInv(live, at)'
  <2>1. tables = <<>> /\ Range(tables) = {} /\ mapped = {} /\ max_addr \in Nat /\ max_addr' = max_addr
    BY <1>1 DEF CourseInv, Range, TypeOK
  <2>2. \A l \in 0 .. 3 : live[l] = {}
    <3>1. Tree(mem, pml4_table, {}, live, at)
      BY <2>1 DEF TablesInv
    <3> QED BY <3>1, NoTables
  <2>3. BuildInv(live)'
    <3>1. n' < max_addr' + Fanout
      BY <1>1, <2>1, FanoutType
    <3>2. \A k \in 0 .. 3 : ~ k > 3
      OBVIOUS
    <3>3. \A v \in 0 .. max_addr' - 1 : ~ v < n'
      BY <1>1, <2>1
    <3>4. \A k \in 0 .. j' : Index(n', k) = 0
      BY <1>1, IndexZero
    <3> QED BY <1>1, <2>1, <2>2, <3>1, <3>2, <3>3, <3>4 DEF BuildInv
  <2>4. Tree(mem', pml4_table', Range(tables'), live, at) /\ Leaves(mem', max_addr', mapped', live, at)
        /\ Orphans(mem', Range(tables'), live, at)
    BY <1>1 DEF TablesInv
  <2> QED BY <1>1, <2>1, <2>3, <2>4
          DEF TablesInv, CoverInv, LargeInv, PermissionsInv, NullInv, WalkInv, MappedInv, WalkPcs
<1> QED BY <1>2, <1>3, <1>4, <1>5

LEMMA TablesBuiltKeeps ==
  ASSUME Apart, TypeOK, CourseInv, ListInv, TablesBuilt,
         NEW live \in [0 .. 3 -> SUBSET Nat], NEW at, TablesInv(live, at)
  PROVE  TypeOK' /\ CourseInv' /\ ListInv' /\ TablesInv(live, at)'
<1>1. /\ pc = "tables" /\ n \in Nat /\ n >= max_addr /\ max_addr \in Nat \ {0}
      /\ pc' = "permissions" /\ n' = 1 /\ j' = 0
      /\ UNCHANGED <<mem, first_free_page, pml4_table, max_addr, cr3, stale, cpu,
                     job, size, tables, mapped>>
  <2>1. pc = "tables"
    BY DEF TablesBuilt
  <2>2. max_addr \in Nat \ {0}
    BY <2>1, MemoryIs
  <2> QED BY <2>2 DEF TablesBuilt, TypeOK
<1>2. TypeOK'
  <2>1. stale' \subseteq Frame /\ {n', j'} \subseteq Nat
        /\ job' \in [va : Nat, page : Frame, cur : Frame, l : 0 .. 3, level : 0 .. 1]
    BY <1>1 DEF TypeOK
  <2>2. cr3' \in BOOLEAN /\ cpu' \in {"run", "oom", "pf"}
    BY <1>1, Zenon DEF TypeOK
  <2> QED BY <1>1, <2>1, <2>2, TypeKept
<1>3. CourseInv'
  <2>1. 1 \in DOMAIN MemoryMap /\ 0 < MemoryMap[1].pages /\ ~ 1 > Len(MemoryMap)
    BY MapIs
  <2> QED BY <1>1, <2>1 DEF CourseInv, LoopPcs, WalkPcs
<1>4. ListInv'
  <2>1. Managed' = Managed
    BY <1>1 DEF Managed, Passed
  <2>2. DataPages' = DataPages
    BY <1>1 DEF DataPages
  <2> QED BY <1>1, <2>1, <2>2, ListKept
<1>5. TablesInv(live, at)'
  <2>1. mapped = {} /\ \A k \in DOMAIN MemoryMap : ~ k < 1
    BY <1>1, MapIs DEF CourseInv
  <2>2. /\ j \in 0 .. 3 /\ (j = 3 => n = 0)
        /\ \A l \in 0 .. 3 : l > j => Up(n, l + 1) \in live[l]
        /\ \A v \in 0 .. max_addr - 1 : v < n => \A l \in 0 .. 3 : Up(v, l + 1) \in live[l]
    BY <1>1 DEF TablesInv, BuildInv
  <2>3. 0 \in live[3]
    <3>1. Up(n, 3 + 1) \in live[3]
      BY <1>1, <2>2
    <3>2. live[3] \subseteq {0}
      BY DEF TablesInv, Tree
    <3> QED BY <3>1, <3>2
  <2>4. \A v \in 0 .. max_addr - 1 : \A l \in 0 .. 3 : Up(v, l + 1) \in live[l]
    <3>1. \A v \in 0 .. max_addr - 1 : v < n
      BY <1>1
    <3> QED BY <2>2, <3>1
  <2>5. CoverInv(live)'
    BY <1>1, <2>3, <2>4 DEF CoverInv
  <2>6. PermissionsInv(at)'
    BY <1>1, <2>1 DEF PermissionsInv
  <2>7. Tree(mem', pml4_table', Range(tables'), live, at) /\ Leaves(mem', max_addr', mapped', live, at)
        /\ Orphans(mem', Range(tables'), live, at)
    BY <1>1 DEF TablesInv
  <2> QED BY <1>1, <2>1, <2>5, <2>6, <2>7
          DEF TablesInv, BuildInv, LargeInv, NullInv, WalkInv, MappedInv, WalkPcs
<1> QED BY <1>2, <1>3, <1>4, <1>5

LEMMA LoadCr3Keeps ==
  ASSUME Apart, TypeOK, CourseInv, ListInv, LoadCr3,
         NEW live \in [0 .. 3 -> SUBSET Nat], NEW at, TablesInv(live, at)
  PROVE  TypeOK' /\ CourseInv' /\ ListInv' /\ TablesInv(live, at)'
<1>1. /\ pc = "cr3" /\ pc' = "reclaim" /\ n' = 1 /\ j' = 0 /\ j = 0
      /\ UNCHANGED <<mem, first_free_page, pml4_table, max_addr, cpu, j, job, size, tables, mapped>>
  BY DEF LoadCr3, CourseInv
<1>2. TypeOK'
  <2>1. stale' \subseteq Frame /\ {n', j'} \subseteq Nat
        /\ job' \in [va : Nat, page : Frame, cur : Frame, l : 0 .. 3, level : 0 .. 1]
    BY <1>1 DEF TypeOK, LoadCr3
  <2>2. cr3' \in BOOLEAN /\ cpu' \in {"run", "oom", "pf"}
    BY <1>1, Zenon DEF TypeOK, LoadCr3
  <2> QED BY <1>1, <2>1, <2>2, TypeKept
<1>3. CourseInv'
  <2>1. 1 \in DOMAIN MemoryMap /\ 0 < MemoryMap[1].pages /\ ~ 1 > Len(MemoryMap)
    BY MapIs
  <2> QED BY <1>1, <2>1 DEF CourseInv, LoopPcs, WalkPcs
<1>4. ListInv'
  <2>1. Managed = Conventional
    BY <1>1, ManagedIs
  <2>2. Managed' = Conventional
    <3>1. Walked("BootServicesCode", 1, 0) = {}
      BY WalkedEnds
    <3>2. Passed("reclaim", {"run", "map_walk"}, "BootServicesCode")' = Walked("BootServicesCode", 1, 0)
      BY <1>1 DEF Passed, Walked
    <3>3. Managed' = Conventional \cup (Passed("reclaim", {"run", "map_walk"}, "BootServicesCode")' \ {NULL})
      BY <1>1 DEF Managed, Passed, Conventional, PagesOf
    <3> QED BY <3>1, <3>2, <3>3
  <2>3. DataPages' = DataPages
    BY <1>1 DEF DataPages
  <2> QED BY <1>1, <2>1, <2>2, <2>3, ListKept
<1>5. TablesInv(live, at)'
  <2>1. Tree(mem', pml4_table', Range(tables'), live, at) /\ Leaves(mem', max_addr', mapped', live, at)
        /\ Orphans(mem', Range(tables'), live, at)
    BY <1>1 DEF TablesInv
  <2>2. CoverInv(live)' /\ BuildInv(live)' /\ WalkInv(live, at)'
    BY <1>1 DEF TablesInv, CoverInv, BuildInv, WalkInv, WalkPcs
  <2>3. LargeInv(live, at)' /\ NullInv(at)' /\ PermissionsInv(at)'
    BY <1>1 DEF TablesInv, LargeInv, NullInv, PermissionsInv, Leaf
  <2>4. MappedInv(live, at)'
    BY <1>1 DEF TablesInv, MappedInv, Leaf
  <2> QED BY <2>1, <2>2, <2>3, <2>4 DEF TablesInv
<1> QED BY <1>2, <1>3, <1>4, <1>5

LEMMA InitDoneKeeps ==
  ASSUME Apart, TypeOK, CourseInv, ListInv, InitDone,
         NEW live \in [0 .. 3 -> SUBSET Nat], NEW at, TablesInv(live, at)
  PROVE  TypeOK' /\ CourseInv' /\ ListInv' /\ TablesInv(live, at)'
<1>1. /\ pc = "reclaim" /\ n \in Nat /\ n > Len(MemoryMap) /\ pc' = "run"
      /\ UNCHANGED <<mem, first_free_page, pml4_table, max_addr, cr3, stale, cpu,
                     n, j, job, size, tables, mapped>>
  BY DEF InitDone, TypeOK
<1>2. TypeOK'
  <2>1. stale' \subseteq Frame /\ {n', j'} \subseteq Nat
        /\ job' \in [va : Nat, page : Frame, cur : Frame, l : 0 .. 3, level : 0 .. 1]
    BY <1>1 DEF TypeOK
  <2>2. cr3' \in BOOLEAN /\ cpu' \in {"run", "oom", "pf"}
    BY <1>1, Zenon DEF TypeOK
  <2> QED BY <1>1, <2>1, <2>2, TypeKept
<1>3. CourseInv'
  BY <1>1 DEF CourseInv, LoopPcs, WalkPcs
<1>4. ListInv'
  <2>1. Managed = Conventional \cup (BootCode \ {NULL})
    BY <1>1, ManagedIs, WalkedEnds DEF BootCode
  <2>2. Managed' = Conventional \cup (BootCode \ {NULL})
    BY <1>1 DEF Managed, Passed, Conventional, BootCode, PagesOf
  <2>3. DataPages' = DataPages
    BY <1>1 DEF DataPages
  <2> QED BY <1>1, <2>1, <2>2, <2>3, ListKept
<1>5. TablesInv(live, at)'
  <2>1. Tree(mem', pml4_table', Range(tables'), live, at) /\ Leaves(mem', max_addr', mapped', live, at)
        /\ Orphans(mem', Range(tables'), live, at)
    BY <1>1 DEF TablesInv
  <2>2. CoverInv(live)' /\ BuildInv(live)' /\ WalkInv(live, at)'
    BY <1>1 DEF TablesInv, CoverInv, BuildInv, WalkInv, WalkPcs
  <2>3. LargeInv(live, at)' /\ NullInv(at)' /\ PermissionsInv(at)'
    BY <1>1 DEF TablesInv, LargeInv, NullInv, PermissionsInv, Leaf
  <2>4. MappedInv(live, at)'
    BY <1>1 DEF TablesInv, MappedInv, Leaf
  <2> QED BY <2>1, <2>2, <2>3, <2>4 DEF TablesInv
<1> QED BY <1>2, <1>3, <1>4, <1>5

LEMMA FrameBufferIs == FrameBuffer.base \in Nat /\ FrameBuffer.size \in Nat
BY PagingAssumption

LEMMA MapFrameBufferKeeps ==
  ASSUME Apart, TypeOK, CourseInv, ListInv, MapFrameBuffer,
         NEW live \in [0 .. 3 -> SUBSET Nat], NEW at, TablesInv(live, at)
  PROVE  TypeOK' /\ CourseInv' /\ ListInv' /\ TablesInv(live, at)'
<1> DEFINE va == FrameBuffer.base + n
<1> DEFINE walk == [va |-> va, page |-> 0, cur |-> pml4_table, l |-> 3, level |-> 1]
<1>0. n \in Nat /\ FrameBuffer.base \in Nat /\ FrameBuffer.size \in Nat /\ va \in Nat
  BY FrameBufferIs DEF TypeOK
<1>1. /\ pc = "framebuffer" /\ pc' \in {"framebuffer_walk", "cr3"}
      /\ UNCHANGED <<mem, first_free_page, pml4_table, max_addr, cr3, stale, cpu,
                     n, j, size, tables, mapped>>
  BY DEF MapFrameBuffer, StartWalk
<1>1a. pc' = "framebuffer_walk" => n <= FrameBuffer.size /\ job' = walk
  BY DEF MapFrameBuffer, StartWalk
<1>1b. pc' = "cr3" => ~ n <= FrameBuffer.size /\ job' = job
  BY DEF MapFrameBuffer, StartWalk
<1> HIDE DEF walk, va
<1>2. TypeOK'
  <2>1. job' \in [va : Nat, page : Frame, cur : Frame, l : 0 .. 3, level : 0 .. 1]
    <3>1. pml4_table \in Frame /\ 0 \in Frame
      BY PagesAre DEF TypeOK, NULL
    <3>4. walk \in [va : Nat, page : Frame, cur : Frame, l : 0 .. 3, level : 0 .. 1]
      BY <1>0, <3>1 DEF walk
    <3>2. job \in [va : Nat, page : Frame, cur : Frame, l : 0 .. 3, level : 0 .. 1]
      BY DEF TypeOK
    <3> QED BY <1>1, <1>1a, <1>1b, <3>2, <3>4
  <2>2. stale' \subseteq Frame /\ {n', j'} \subseteq Nat
    BY <1>1 DEF TypeOK
  <2>3. cr3' \in BOOLEAN /\ cpu' \in {"run", "oom", "pf"}
    BY <1>1, Zenon DEF TypeOK
  <2> QED BY <1>1, <2>1, <2>2, <2>3, TypeKept
<1>3. CourseInv'
  BY <1>1 DEF CourseInv, LoopPcs, WalkPcs
<1>4. ListInv'
  <2>1. Managed' = Managed
    BY <1>1 DEF Managed, Passed
  <2>2. DataPages' = DataPages
    BY <1>1 DEF DataPages
  <2> QED BY <1>1, <2>1, <2>2, ListKept
<1>5. TablesInv(live, at)'
  <2>1. Tree(mem', pml4_table', Range(tables'), live, at) /\ Leaves(mem', max_addr', mapped', live, at)
        /\ Orphans(mem', Range(tables'), live, at)
    BY <1>1 DEF TablesInv
  <2>2. CoverInv(live)' /\ BuildInv(live)'
    BY <1>1 DEF TablesInv, CoverInv, BuildInv
  <2>3. NullInv(at)' /\ PermissionsInv(at)'
    BY <1>1 DEF TablesInv, NullInv, PermissionsInv, Leaf
  <2>4. MappedInv(live, at)'
    BY <1>1 DEF TablesInv, MappedInv, Leaf
  <2>5. LargeInv(live, at)'
    <3>1. \A x \in LargeSlots : pc' = "cr3" => Fanout * x < FrameBuffer.base + n
      <4> SUFFICES ASSUME NEW x \in LargeSlots, n > FrameBuffer.size
                   PROVE  Fanout * x < FrameBuffer.base + n
        BY <1>0, <1>1b
      <4> DEFINE b == FrameBuffer.base \div Fanout
                 c == FrameBuffer.size \div Fanout
      <4>1. /\ b \in Nat /\ FrameBuffer.base = (Fanout * b) + (FrameBuffer.base % Fanout)
            /\ FrameBuffer.base % Fanout \in Nat
            /\ c \in Nat /\ FrameBuffer.size = (Fanout * c) + (FrameBuffer.size % Fanout)
            /\ FrameBuffer.size % Fanout \in Nat
        <5>1. \A k \in 0 .. Fanout - 1 : k \in Nat
          BY FanoutType
        <5> QED BY <1>0, <5>1, DivMod
      <4>2. x \in b .. b + c
        BY DEF LargeSlots
      <4> HIDE DEF b, c
      <4>3. PICK e \in Nat : b + c = x + e
        <5>1. b + c - x \in Nat /\ b + c = x + (b + c - x)
          BY <4>1, <4>2
        <5> QED BY <5>1
      <4>4. (Fanout * b) + (Fanout * c) = (Fanout * x) + (Fanout * e)
            /\ Fanout * e \in Nat /\ Fanout * x \in Nat /\ Fanout * b \in Nat /\ Fanout * c \in Nat
        BY <4>1, <4>2, <4>3, FanoutType
      <4> QED BY <1>0, <4>1, <4>4
    <3>2. LargeInv(live, at)
      BY DEF TablesInv
    <3> QED BY <1>1, <3>1, <3>2 DEF LargeInv
  <2>6. WalkInv(live, at)'
    <3> SUFFICES ASSUME pc' = "framebuffer_walk" PROVE WalkInv(live, at)'
      BY <1>1 DEF WalkInv, WalkPcs
    <3>0. n <= FrameBuffer.size /\ job' = walk
      BY <1>1a
    <3>1. /\ job'.va = va /\ job'.cur = pml4_table /\ job'.l = 3 /\ job'.level = 1
      BY <3>0 DEF walk
    <3>2. 0 \in live[3] /\ at[3][0] = pml4_table
      BY <1>1 DEF TablesInv, CoverInv, Tree
    <3>3. Up(va, 3 + 1) = 0
      <4>1. va \in 0 .. FrameBuffer.base + FrameBuffer.size
        BY <1>0, <3>0 DEF va
      <4>2. 3 + 1 = 4
        OBVIOUS
      <4> QED BY <4>1, <4>2, UpEnds
    <3>4. /\ job'.level <= job'.l /\ Up(job'.va, job'.l + 1) \in live[job'.l]
          /\ job'.cur = at[job'.l][Up(job'.va, job'.l + 1)]
      <4>1. 3 + 1 = 4
        OBVIOUS
      <4> QED BY <3>1, <3>2, <3>3, <4>1
    <3>5. job'.level = 1 /\ job'.va = FrameBuffer.base + n' /\ n' <= FrameBuffer.size
      BY <1>1, <3>0, <3>1 DEF va
    <3> QED BY <3>4, <3>5 DEF WalkInv
  <2> QED BY <2>1, <2>2, <2>3, <2>4, <2>5, <2>6 DEF TablesInv
<1> QED BY <1>2, <1>3, <1>4, <1>5

-----------------------------------------------------------------------------
(* allocate_tables.                                                        *)

\* A page is filled, and an entry of another page is written.
Fill(m, p, filled, q, i, w) == [m EXCEPT ![p] = filled, ![q][i] = w]
IsFilled(m, m2, p, filled, q, i, w) ==
  /\ m2 \in Memory /\ m2[p] = filled /\ m2[q][i] = w
  /\ \A r \in Frame : r # p /\ r # q => m2[r] = m[r]
  /\ \A k \in 0 .. Fanout - 1 : k # i => m2[q][k] = m[q][k]

LEMMA WritePage ==
  ASSUME NEW m \in Memory, NEW p \in Frame, NEW filled \in Page,
         NEW q \in Frame, q # p, NEW i \in 0 .. Fanout - 1, NEW w \in WordSet,
         NEW m2, m2 = Fill(m, p, filled, q, i, w)
  PROVE  IsFilled(m, m2, p, filled, q, i, w)
<1> DEFINE page == [m[q] EXCEPT ![i] = w]
<1>1. /\ m[q] \in [0 .. Fanout - 1 -> WordSet] /\ page \in [0 .. Fanout - 1 -> WordSet] /\ page[i] = w
      /\ \A k \in 0 .. Fanout - 1 : k # i => page[k] = m[q][k]
  BY DEF Memory
<1>1a. filled \in [0 .. Fanout - 1 -> WordSet]
  BY DEF Page
<1>2. m2 = [m EXCEPT ![p] = filled, ![q] = page]
  BY DEF Memory, Fill
<1> HIDE DEF page
<1>3. m2 \in Memory
  BY <1>1, <1>1a, <1>2 DEF Memory
<1>4. m2[p] = filled /\ m2[q] = page
  BY <1>2 DEF Memory
<1>5. \A r \in Frame : r # p /\ r # q => m2[r] = m[r]
  BY <1>2 DEF Memory
<1>6. \A k \in 0 .. Fanout - 1 : k # i => m2[q][k] = m[q][k]
  BY <1>1, <1>4, <1>5
<1> QED BY <1>1, <1>3, <1>4, <1>5, <1>6 DEF IsFilled

LEMMA MemoryType ==
  ASSUME TypeOK
  PROVE  /\ mem \in Memory /\ first_free_page \in Frame /\ pml4_table \in Frame
         /\ tables \in Seq(Frame) /\ Range(tables) \subseteq Frame
<1>1. tables \in Seq(Frame)
  BY DEF TypeOK
<1>2. Range(tables) \subseteq Frame
  <2>1. \A i \in DOMAIN tables : tables[i] \in Frame
    BY <1>1, ElementOfSeq
  <2> QED BY <2>1 DEF Range
<1> QED BY <1>1, <1>2 DEF TypeOK, Memory, WordSet

\* The page at the head of the list is nobody's.
LEMMA HeadIs ==
  ASSUME TypeOK, ListInv, first_free_page # NULL
  PROVE  /\ first_free_page \in FreePages /\ first_free_page \in Managed
         /\ first_free_page \notin Range(tables) /\ first_free_page \notin DataPages
         /\ \A i \in 0 .. Fanout - 1 : "P" \notin mem[first_free_page][i].flags
<1>1. first_free_page \in FreePages
  BY DEF ListInv, Links
<1> QED BY <1>1, MemoryType DEF FreePages, ListInv

\* What taking a table does.
TableTaken(live, at) ==
  LET new == first_free_page
      parent == at[j + 1][Up(n, j + 2)]
      used == {"P", "W", "AVL"}
  IN
  /\ pc = "tables" /\ n \in Nat /\ n < max_addr /\ max_addr \in Nat /\ j \in 0 .. 3
  /\ new # NULL /\ new \in Frame
  /\ first_free_page' = mem[new][0].frame /\ tables' = Append(tables, new)
  /\ UNCHANGED <<max_addr, cr3, stale, cpu, pc, job, size, mapped>>
  /\ mem' \in Memory
  /\ \A i \in 0 .. Fanout - 1 :
       mem'[new][i] = IF j = 0 /\ n + i < max_addr THEN Word(n + i, used) ELSE mem[new][i]
  /\ j = 3 => pml4_table' = new /\ \A p \in Frame : p # new => mem'[p] = mem[p]
  /\ j < 3 =>
       /\ pml4_table' = pml4_table /\ Up(n, j + 2) \in live[j + 1]
       /\ parent \in Range(tables)
       /\ mem'[parent][Index(n, j + 1)] = Word(new, used)
       /\ \A p \in Frame : p # new /\ p # parent => mem'[p] = mem[p]
       /\ \A i \in 0 .. Fanout - 1 : i # Index(n, j + 1) => mem'[parent][i] = mem[parent][i]

LEMMA AllocateTableIs ==
  ASSUME Apart, TypeOK, CourseInv, ListInv, AllocateTable,
         NEW live \in [0 .. 3 -> SUBSET Nat], NEW at \in [0 .. 3 -> [Nat -> Frame]],
         TablesInv(live, at)
  PROVE  TableTaken(live, at)
<1> DEFINE new == first_free_page
           parent == at[j + 1][Up(n, j + 2)]
           used == {"P", "W", "AVL"}
           filled == [i \in 0 .. Fanout - 1 |->
                        IF j = 0 /\ n + i < max_addr THEN Word(n + i, used) ELSE mem[new][i]]
           w == Word(new, used)
<1>1. /\ pc = "tables" /\ n \in Nat /\ n < max_addr /\ max_addr \in Nat
      /\ new # NULL /\ first_free_page' = mem[new][0].frame /\ tables' = Append(tables, new)
      /\ UNCHANGED <<max_addr, cr3, stale, cpu, pc, job, size, mapped>>
      /\ j = 3 => pml4_table' = new /\ mem' = [mem EXCEPT ![new] = filled]
      /\ j # 3 => /\ mem' = [mem EXCEPT ![new] = filled, ![TableFor(n, j + 1)][Index(n, j + 1)] = w]
                  /\ pml4_table' = pml4_table
  BY DEF AllocateTable, TypeOK
<1>2. j \in 0 .. 3 /\ \A l \in 0 .. 3 : l > j => Up(n, l + 1) \in live[l]
  BY <1>1 DEF TablesInv, BuildInv
<1>3. new \in Frame /\ mem \in Memory /\ new \notin Range(tables) /\ w \in WordSet
  BY <1>1, MemoryType, HeadIs, FrameNat, WordIs DEF WordFlags
<1>4. filled \in [0 .. Fanout - 1 -> WordSet]
  <2>1. \A i \in 0 .. Fanout - 1 : n + i \in Nat
    BY <1>1, FanoutType
  <2>2. used \in SUBSET WordFlags
    BY DEF WordFlags
  <2> HIDE DEF new, used
  <2>3. \A i \in 0 .. Fanout - 1 : Word(n + i, used) \in WordSet
    BY <2>1, <2>2, WordIs
  <2>4. \A i \in 0 .. Fanout - 1 : mem[new][i] \in WordSet
    BY <1>3 DEF Memory
  <2> QED BY <2>3, <2>4
<1>5. \A i \in 0 .. Fanout - 1 :
        filled[i] = IF j = 0 /\ n + i < max_addr THEN Word(n + i, used) ELSE mem[new][i]
  OBVIOUS
<1> HIDE DEF filled, w, new
<1>6. CASE j = 3
  <2>0. mem' = [mem EXCEPT ![new] = filled]
    BY <1>1, <1>6
  <2>1. mem' \in Memory /\ mem'[new] = filled /\ \A p \in Frame : p # new => mem'[p] = mem[p]
    BY <1>3, <1>4, <2>0 DEF Memory
  <2> QED BY <1>1, <1>2, <1>3, <1>5, <1>6, <2>1 DEF new, TableTaken
<1>7. CASE j # 3
  <2>0. j \in 0 .. 2 /\ j + 1 \in 0 .. 3 /\ j + 1 > j /\ (j + 1) + 1 = j + 2 /\ j + 2 \in 0 .. 4
    BY <1>2, <1>7
  <2>1. Up(n, j + 2) \in live[j + 1]
    BY <1>2, <2>0
  <2>2. TableFor(n, j + 1) = parent
    <3>1. Tree(mem, pml4_table, Range(tables), live, at)
      BY DEF TablesInv
    <3> QED BY <1>1, <2>0, <2>1, <3>1, OnPath, SMTT(30) DEF TableFor
  <2>3. parent \in Range(tables) /\ parent \in Frame /\ parent # new
    <3>1. parent \in Range(tables)
      BY <2>0, <2>1, SMTT(30) DEF TablesInv, Tree
    <3> QED BY <1>3, <3>1, MemoryType
  <2>4. Index(n, j + 1) \in 0 .. Fanout - 1
    BY <1>1, <2>0, IndexIs
  <2> HIDE DEF parent
  <2>5. mem' = [mem EXCEPT ![new] = filled, ![parent][Index(n, j + 1)] = w]
    BY <1>1, <1>7, <2>2
  <2>6. mem' \in Memory /\ mem'[new] = filled /\ mem'[parent][Index(n, j + 1)] = w
        /\ (\A p \in Frame : p # new /\ p # parent => mem'[p] = mem[p])
        /\ \A i \in 0 .. Fanout - 1 : i # Index(n, j + 1) => mem'[parent][i] = mem[parent][i]
    <3> DEFINE i == Index(n, j + 1)
    <3>1. mem' = Fill(mem, new, filled, parent, i, w)
      BY <2>5 DEF Fill
    <3>2. filled \in Page
      BY <1>4 DEF Page
    <3>3. i \in 0 .. Fanout - 1
      BY <2>4
    <3> HIDE DEF i
    <3>4. IsFilled(mem, mem', new, filled, parent, i, w)
      BY <1>3, <2>3, <3>1, <3>2, <3>3, WritePage
    <3>5. /\ mem' \in Memory /\ mem'[new] = filled /\ mem'[parent][i] = w
          /\ \A r \in Frame : r # new /\ r # parent => mem'[r] = mem[r]
          /\ \A k \in 0 .. Fanout - 1 : k # i => mem'[parent][k] = mem[parent][k]
      BY <3>4 DEF IsFilled
    <3> QED BY <3>5 DEF i
  <2>8. j < 3 /\ j # 3
    BY <2>0
  <2> QED BY <1>1, <1>2, <1>3, <1>5, <2>1, <2>3, <2>6, <2>8 DEF new, w, parent, TableTaken
<1> QED BY <1>6, <1>7

\* The table that comes after.
LEMMA NextTableIs ==
  ASSUME Apart, TypeOK, CourseInv, AllocateTable, NEW live, NEW at, TablesInv(live, at)
  PROVE  /\ n' \in Nat /\ j' \in 0 .. 2
         /\ j > 0 => j' = j - 1 /\ n' = n
         /\ j = 0 => /\ n' = n + Fanout /\ \A k \in 0 .. j' : Index(n', k) = 0
                     /\ Index(n', j' + 1) # 0
<1>1. /\ pc = "tables" /\ n < max_addr /\ n \in Nat /\ max_addr \in Nat
      /\ IF j > 0 THEN j' = j - 1 /\ n' = n
         ELSE /\ n' = n + Fanout
              /\ j' = CHOOSE l \in 0 .. 2 : /\ \A k \in 0 .. l : Index(n + Fanout, k) = 0
                                           /\ Index(n + Fanout, l + 1) # 0
  BY DEF AllocateTable, TypeOK
<1>2. j \in 0 .. 3 /\ \A k \in 0 .. j : Index(n, k) = 0
  BY <1>1 DEF TablesInv, BuildInv
<1>3. CASE j > 0
  BY <1>1, <1>2, <1>3
<1>4. CASE j = 0
  <2> DEFINE a == n + Fanout
  <2>1. a \in Nat /\ a # 0 /\ a \in 0 .. max_addr + Fanout
    BY <1>1, FanoutType
  <2>2. Up(a, 4) = 0
    BY <1>1, <2>1, MemoryIs
  <2>3. Index(a, 0) = 0
    <3>1. n % Fanout = 0
      <4>1. Index(n, 0) = 0
        BY <1>2, <1>4
      <4> QED BY <1>1, <4>1, UpIs DEF Index
    <3>2. a % Fanout = 0
      BY <1>1, <3>1, DivTable
    <3> QED BY <2>1, <3>2, UpIs DEF Index
  <2> HIDE DEF a
  <2>4. \E l \in 0 .. 2 : (\A k \in 0 .. l : Index(a, k) = 0) /\ Index(a, l + 1) # 0
    BY <2>1, <2>2, <2>3, SomeIndex
  <2>5. n' = a /\ j' = CHOOSE l \in 0 .. 2 : (\A k \in 0 .. l : Index(a, k) = 0) /\ Index(a, l + 1) # 0
    BY <1>1, <1>4 DEF a
  <2>6. j' \in 0 .. 2 /\ (\A k \in 0 .. j' : Index(a, k) = 0) /\ Index(a, j' + 1) # 0
    BY <2>4, <2>5
  <2> QED BY <1>4, <2>1, <2>5, <2>6 DEF a
<1> QED BY <1>2, <1>3, <1>4

LEMMA AllocateTableKeeps ==
  ASSUME Apart, TypeOK, CourseInv, ListInv, AllocateTable,
         NEW live \in [0 .. 3 -> SUBSET Nat], NEW at \in [0 .. 3 -> [Nat -> Frame]],
         TablesInv(live, at)
  PROVE  TypeOK' /\ CourseInv' /\ ListInv'
<1> DEFINE new == first_free_page
           parent == at[j + 1][Up(n, j + 2)]
<1>1. /\ pc = "tables" /\ pc' = "tables" /\ new # NULL /\ new \in Frame /\ mem \in Memory
      /\ first_free_page' = mem[new][0].frame /\ tables' = Append(tables, new)
      /\ UNCHANGED <<max_addr, cr3, stale, cpu, job, size, mapped>>
      /\ mem' \in Memory
  BY AllocateTableIs, MemoryType DEF TableTaken
<1>2. \A p \in Frame : p # new /\ p \notin Range(tables) => mem'[p] = mem[p]
  <2>1. j \in 0 .. 3 /\ (j < 3 => parent \in Range(tables))
    BY AllocateTableIs DEF TableTaken
  <2>2. j = 3 => \A p \in Frame : p # new => mem'[p] = mem[p]
    BY AllocateTableIs DEF TableTaken
  <2>3. j < 3 => \A p \in Frame : p # new /\ p # parent => mem'[p] = mem[p]
    BY AllocateTableIs DEF TableTaken
  <2> QED BY <2>1, <2>2, <2>3
<1>3. new \in FreePages /\ new \notin Range(tables) /\ new \notin DataPages /\ new \in Managed
  BY <1>1, HeadIs
<1> HIDE DEF new, parent
<1>4. Managed = Conventional /\ Managed' = Conventional /\ DataPages' = DataPages
  <2>1. Managed = Conventional
    BY <1>1, ManagedIs
  <2>2. Managed' = Conventional
    BY <1>1 DEF Managed, Passed, Conventional, PagesOf
  <2> QED BY <1>1, <2>1, <2>2 DEF DataPages
<1>5. tables' \in Seq(Frame) /\ Range(tables') = Range(tables) \cup {new} /\ IsInjective(tables')
  <2>1. IsInjective(tables) /\ tables \in Seq(Frame)
    BY MemoryType DEF ListInv
  <2> QED BY <1>1, <1>3, <2>1, AppendIs
<1>6. FreePages' = FreePages \ {new} /\ FreePages \subseteq Frame /\ NULL \notin FreePages
      /\ FreePages \cap Range(tables) = {}
  BY <1>4, <1>5, PagesApart DEF FreePages
<1>7. Links(mem', first_free_page', FreePages')
  <2>1. Links(mem, new, FreePages)
    BY DEF ListInv, new
  <2>2. \A p \in FreePages \ {new} : mem'[p][0].frame = mem[p][0].frame
    BY <1>2, <1>6
  <2> QED BY <1>1, <1>6, <2>1, <2>2, LinksPop
<1>8. first_free_page' \in Frame
  <2>1. first_free_page' \in FreePages' \cup {NULL}
    BY <1>7 DEF Links
  <2> QED BY <1>6, <2>1, PagesAre
<1>9. TypeOK'
  <2>1. mem' \in [Frame -> [0 .. Fanout - 1 -> [frame : Nat, flags : SUBSET WordFlags]]]
    BY <1>1 DEF Memory, WordSet
  <2>2. pml4_table' \in Frame
    <3>1. j \in 0 .. 3
      BY AllocateTableIs DEF TableTaken
    <3>2. j = 3 => pml4_table' = new
      BY AllocateTableIs DEF TableTaken, new
    <3>3. j < 3 => pml4_table' = pml4_table
      BY AllocateTableIs DEF TableTaken
    <3> QED BY <1>1, <3>1, <3>2, <3>3, MemoryType
  <2>3. /\ {first_free_page', pml4_table'} \cup stale' \subseteq Frame
        /\ tables' \in Seq(Frame)
        /\ job' \in [va : Nat, page : Frame, cur : Frame, l : 0 .. 3, level : 0 .. 1]
        /\ size' \in [Regions -> 0 .. MaxMapped]
        /\ \A m \in mapped' : m \in Nat \X Frame
    BY <1>1, <1>5, <1>8, <2>2 DEF TypeOK
  <2>4. {max_addr', n', j'} \subseteq Nat
    BY <1>1, NextTableIs DEF TypeOK
  <2>5. cr3' \in BOOLEAN /\ cpu' \in {"run", "oom", "pf"}
    BY <1>1, Zenon DEF TypeOK
  <2> QED BY <2>1, <2>3, <2>4, <2>5, Zenon DEF TypeOK
<1>10. CourseInv'
  BY <1>1 DEF CourseInv, LoopPcs, WalkPcs
<1>11. ListInv'
  <2>1. (Range(tables) \cup DataPages \subseteq Managed)'
    BY <1>3, <1>4, <1>5 DEF ListInv
  <2>2. (Range(tables) \cap DataPages = {})'
    BY <1>3, <1>4, <1>5 DEF ListInv
  <2>3. \A p \in Frame \ Range(tables)' : \A i \in 0 .. Fanout - 1 : "P" \notin mem'[p][i].flags
    BY <1>2, <1>5 DEF ListInv
  <2>4. IsInjective(tables)'
    BY <1>5 DEF IsInjective
  <2> QED BY <1>7, <2>1, <2>2, <2>3, <2>4 DEF ListInv
<1> QED BY <1>9, <1>10, <1>11

LEMMA AllocateTableBuilds ==
  ASSUME Apart, TypeOK, CourseInv, ListInv, AllocateTable,
         NEW live \in [0 .. 3 -> SUBSET Nat], NEW at \in [0 .. 3 -> [Nat -> Frame]],
         TablesInv(live, at),
         NEW live2 \in [0 .. 3 -> SUBSET Nat], live2 = MoreLive(live, j, Up(n, j + 1))
  PROVE  /\ Up(n, j + 1) \notin live[j]
         /\ BuildInv(live2)'
<1>1. /\ pc = "tables" /\ pc' = "tables" /\ n < max_addr /\ n \in Nat /\ max_addr \in Nat
      /\ max_addr' = max_addr /\ n' \in Nat /\ j' \in 0 .. 2
  BY AllocateTableIs, NextTableIs DEF TableTaken
<1>2. /\ j \in 0 .. 3 /\ \A k \in 0 .. j : Index(n, k) = 0
      /\ j = 3 => n = 0
      /\ \A l \in 0 .. 3 : l > j => Up(n, l + 1) \in live[l]
      /\ \A l \in 0 .. 3 : \A q \in live[l] :
           q <= Up(n, l + 1) /\ (l <= j => q < Up(n, l + 1))
      /\ \A v \in 0 .. max_addr - 1 : v < n => \A l \in 0 .. 3 : Up(v, l + 1) \in live[l]
  BY <1>1 DEF TablesInv, BuildInv
<1>3. \A l \in 0 .. 3 : l + 1 \in 0 .. 4 /\ Up(n, l + 1) \in Nat /\ Up(n', l + 1) \in Nat
  BY <1>1, UpType
<1>4. Up(n, j + 1) \notin live[j]
  BY <1>2, <1>3
<1>5. \A k \in 0 .. 3 : /\ live[k] \subseteq live2[k] /\ live2[k] \subseteq Nat
                        /\ \A r \in live2[k] : r \in live[k] \/ (k = j /\ r = Up(n, j + 1))
  BY <1>2, <1>3 DEF MoreLive
<1>6. Up(n, j + 1) \in live2[j]
  BY <1>2, <1>3 DEF MoreLive
<1>7. CASE j > 0
  <2>1. j' = j - 1 /\ n' = n
    BY <1>7, NextTableIs
  <2>2. \A k \in 0 .. j' : Index(n', k) = 0
    BY <1>2, <2>1
  <2>3. \A l \in 0 .. 3 : l > j' => Up(n', l + 1) \in live2[l]
    <3>1. \A l \in 0 .. 3 : l > j' => l > j \/ l = j
      BY <1>2, <2>1
    <3> QED BY <1>2, <1>5, <1>6, <2>1, <3>1
  <2>4. \A l \in 0 .. 3 : \A q \in live2[l] :
          q <= Up(n', l + 1) /\ (l <= j' => q < Up(n', l + 1))
    <3> SUFFICES ASSUME NEW l \in 0 .. 3, NEW q \in live2[l]
                 PROVE  q <= Up(n, l + 1) /\ (l <= j - 1 => q < Up(n, l + 1))
      BY <2>1
    <3>1. CASE q \in live[l]
      BY <1>2, <3>1
    <3>2. CASE l = j /\ q = Up(n, j + 1)
      BY <1>2, <1>3, <3>2
    <3> QED BY <1>5, <3>1, <3>2
  <2>5. n' < max_addr + Fanout
    BY <1>1, <2>1, FanoutType
  <2>6. \A v \in 0 .. max_addr - 1 : v < n' => \A l \in 0 .. 3 : Up(v, l + 1) \in live2[l]
    BY <1>2, <1>5, <2>1
  <2>7. j' \in 0 .. 3 /\ j' # 3
    BY <1>1
  <2> QED BY <1>1, <1>4, <2>2, <2>3, <2>4, <2>5, <2>6, <2>7 DEF BuildInv
<1>8. CASE j = 0
  <2>1. n' = n + Fanout /\ (\A k \in 0 .. j' : Index(n', k) = 0) /\ Index(n', j' + 1) # 0
    BY <1>8, NextTableIs
  <2>2. /\ \A k \in 0 .. j' : Up(n', k + 1) = Up(n, k + 1) + 1
        /\ \A k \in j' + 2 .. 4 : Up(n', k) = Up(n, k)
    BY <1>1, <2>1, Carry
  <2>3. \A l \in 0 .. 3 : l > j' => l + 1 \in j' + 2 .. 4 /\ Up(n', l + 1) = Up(n, l + 1) /\ l > j
    <3> SUFFICES ASSUME NEW l \in 0 .. 3, l > j'
                 PROVE  l + 1 \in j' + 2 .. 4 /\ Up(n', l + 1) = Up(n, l + 1) /\ l > j
      OBVIOUS
    <3>0. j' \in 0 .. 2
      BY <1>1
    <3>1. l + 1 \in j' + 2 .. 4 /\ l > 0
      <4>1. \A a \in 0 .. 2 : l > a => l + 1 \in a + 2 .. 4 /\ l > 0
        OBVIOUS
      <4> QED BY <3>0, <4>1
    <3> QED BY <1>8, <2>2, <3>1
  <2>4. \A l \in 0 .. 3 : l > j' => Up(n', l + 1) \in live2[l]
    BY <1>2, <1>5, <2>3
  <2>5. \A l \in 0 .. 3 : \A q \in live2[l] :
          q <= Up(n', l + 1) /\ (l <= j' => q < Up(n', l + 1))
    <3> SUFFICES ASSUME NEW l \in 0 .. 3, NEW q \in live2[l]
                 PROVE  q <= Up(n', l + 1) /\ (l <= j' => q < Up(n', l + 1))
      OBVIOUS
    <3>1. q \in Nat /\ q <= Up(n, l + 1)
      <4>1. q = Up(n, l + 1) \/ q \in live[l]
        BY <1>5
      <4> QED BY <1>2, <1>3, <1>5, <4>1
    <3>2. CASE l <= j'
      <4>1. Up(n', l + 1) = Up(n, l + 1) + 1
        BY <1>1, <2>2, <3>2
      <4> QED BY <1>3, <3>1, <4>1
    <3>3. CASE ~ l <= j'
      <4>1. l > j'
        BY <1>1, <3>3
      <4> QED BY <2>3, <3>1, <3>3, <4>1
    <3> QED BY <3>2, <3>3
  <2>6. n' < max_addr + Fanout
    BY <1>1, <2>1, FanoutType
  <2>7. \A v \in 0 .. max_addr - 1 : v < n' => \A l \in 0 .. 3 : Up(v, l + 1) \in live2[l]
    <3> SUFFICES ASSUME NEW v \in 0 .. max_addr - 1, v < n', NEW l \in 0 .. 3
                 PROVE  Up(v, l + 1) \in live2[l]
      OBVIOUS
    <3>1. CASE v < n
      BY <1>2, <1>5, <3>1
    <3>2. CASE ~ v < n
      <4>1. v \in Nat /\ v - n \in 0 .. Fanout - 1 /\ v = n + (v - n)
        BY <1>1, <2>1, <3>2, FanoutType
      <4>2. n = (Fanout * Up(n, 1)) + 0 /\ Up(n, 1) \in Nat
        <5>1. Index(n, 0) = 0 /\ Up(n, 0) = n /\ 0 + 1 = 1
          BY <1>1, <1>2, UpIs
        <5> QED BY <1>1, <5>1, IndexIs
      <4>3. v = (Fanout * Up(n, 1)) + (v - n)
        <5>1. Fanout * Up(n, 1) \in Nat
          BY <4>2, FanoutType
        <5> QED BY <1>1, <4>1, <4>2, <5>1
      <4>4. v \div Fanout = Up(n, 1)
        <5> DEFINE d == v - n
        <5>1. d \in 0 .. Fanout - 1 /\ v = (Fanout * Up(n, 1)) + d
          BY <4>1, <4>3
        <5> HIDE DEF d
        <5> QED BY <4>2, <5>1, DivModUnique
      <4>5. Up(v, 1) = Up(n, 1)
        <5>1. Up(v, 0 + 1) = Up(v, 0) \div Fanout /\ Up(v, 0) = v
          BY <4>1, UpIs
        <5> QED BY <4>4, <5>1
      <4>6. Up(v, l + 1) = Up(n, l + 1)
        <5>1. l + 1 \in 1 .. 4
          OBVIOUS
        <5> QED BY <1>1, <4>1, <4>5, <5>1, SameAbove
      <4>7. l = 0 \/ l > j
        BY <1>8
      <4> QED BY <1>2, <1>5, <1>6, <1>8, <4>6, <4>7
    <3> QED BY <3>1, <3>2
  <2>8. j' \in 0 .. 3 /\ j' # 3
    BY <1>1
  <2> QED BY <1>1, <1>4, <2>1, <2>4, <2>5, <2>6, <2>7, <2>8 DEF BuildInv
<1> QED BY <1>2, <1>7, <1>8

\* What taking a table leaves alone, and what it enters.
LEMMA AllocateTableGrows ==
  ASSUME Apart, TypeOK, CourseInv, ListInv, AllocateTable,
         NEW live \in [0 .. 3 -> SUBSET Nat], NEW at \in [0 .. 3 -> [Nat -> Frame]],
         TablesInv(live, at),
         NEW q \in Nat, q = Up(n, j + 1),
         NEW live2, NEW at2, live2 = MoreLive(live, j, q), at2 = MoreAt(at, j, q, first_free_page)
  PROVE  Tree(mem', pml4_table', Range(tables'), live2, at2)
<1> DEFINE new == first_free_page
<1>0. /\ n \in Nat /\ j \in 0 .. 3 /\ new \in Frame /\ new # NULL /\ tables' = Append(tables, new)
      /\ pc = "tables"
      /\ \A i \in 0 .. Fanout - 1 : j # 0 => mem'[new][i] = mem[new][i]
  <2>1. TableTaken(live, at)
    BY AllocateTableIs
  <2>2. \A i \in 0 .. Fanout - 1 : mem'[new][i] =
          IF j = 0 /\ n + i < max_addr THEN Word(n + i, {"P", "W", "AVL"}) ELSE mem[new][i]
    BY <2>1 DEF TableTaken
  <2> QED BY <2>1, <2>2 DEF TableTaken
<1>1. q \notin live[j] /\ IsMore(live, at, j, q, new, live2, at2)
  <2>1. \A l \in 0 .. 3 : \A r \in live[l] : r <= Up(n, l + 1) /\ (l <= j => r < Up(n, l + 1))
    BY <1>0 DEF TablesInv, BuildInv
  <2>2. q \notin live[j]
    <3>1. j \in 0 .. 3 /\ j <= j /\ ~ q < q
      BY <1>0
    <3>2. \A r \in live[j] : r < q
      BY <2>1, <3>1
    <3> QED BY <3>1, <3>2
  <2> QED BY <1>0, <2>2, MoreIs
<1>2. new \notin Range(tables) /\ \A i \in 0 .. Fanout - 1 : "P" \notin mem[new][i].flags
  BY <1>0, HeadIs
<1>3. Range(tables') = Range(tables) \cup {new} /\ Range(tables) \subseteq Frame
  BY <1>0, MemoryType, AppendIs
<1>4. Tree(mem, pml4_table, Range(tables), live, at)
  BY DEF TablesInv
<1>5. CASE j = 3
  <2>1. pml4_table' = new
    BY <1>5, AllocateTableIs DEF TableTaken
  <2>2. Range(tables) = {} /\ n = 0
    BY <1>5, AllocateTableIs DEF TableTaken, TablesInv, BuildInv, Range
  <2>3. q = 0
    <3>1. Up(0, 4) = 0
      BY UpZero
    <3>2. 3 + 1 = 4
      OBVIOUS
    <3> QED BY <1>5, <2>2, <3>1, <3>2
  <2>4. \A l \in 0 .. 3 : live[l] = {}
    BY <1>4, <2>2, NoTables
  <2>5. /\ live2 \in [0 .. 3 -> SUBSET Nat] /\ at2 \in [0 .. 3 -> [Nat -> Frame]]
        /\ live2[3] = {0} /\ at2[3][0] = new
        /\ \A l \in 0 .. 2 : live2[l] = {}
    <3>1. IsMore(live, at, 3, 0, new, live2, at2)
      BY <1>1, <1>5, <2>3
    <3> HIDE DEF new
    <3>2. /\ live2 \in [0 .. 3 -> SUBSET Nat] /\ at2 \in [0 .. 3 -> [Nat -> Frame]] /\ at2[3][0] = new
          /\ 0 \in live2[3] /\ \A k \in 0 .. 3 : \A r \in live2[k] : r \in live[k] \/ (k = 3 /\ r = 0)
      BY <3>1 DEF IsMore
    <3>3. \A l \in 0 .. 2 : l \in 0 .. 3 /\ l # 3
      OBVIOUS
    <3>4. live2[3] = {0}
      BY <2>4, <3>2
    <3>5. \A l \in 0 .. 2 : live2[l] = {}
      BY <2>4, <3>2, <3>3
    <3> QED BY <3>2, <3>4, <3>5
  <2>6. Tree(mem', new, {new}, live2, at2)
    <3>1. \A i \in 0 .. Fanout - 1 : "P" \notin mem'[new][i].flags
      BY <1>0, <1>2, <1>5, SMTT(30)
    <3> HIDE DEF new
    <3> QED BY <1>0, <2>5, <3>1, TreeStarts
  <2> QED BY <1>3, <2>1, <2>2, <2>6
<1>6. CASE j # 3
  <2> DEFINE parent == at[j + 1][Up(n, j + 2)]
             used == {"P", "W", "AVL"}
  <2>1. j \in 0 .. 2 /\ j < 3 /\ j + 1 \in 0 .. 3 /\ (j + 1) + 1 = j + 2
    BY <1>0, <1>6
  <2>2. /\ pml4_table' = pml4_table /\ Up(n, j + 2) \in live[j + 1]
        /\ parent \in Range(tables)
        /\ mem'[parent][Index(n, j + 1)] = Word(new, used)
        /\ \A p \in Frame : p # new /\ p # parent => mem'[p] = mem[p]
        /\ \A i \in 0 .. Fanout - 1 : i # Index(n, j + 1) => mem'[parent][i] = mem[parent][i]
    BY <2>1, AllocateTableIs DEF TableTaken
  <2>3. q \div Fanout = Up(n, j + 2) /\ q % Fanout = Index(n, j + 1)
    <3>1. Up(n, (j + 1) + 1) = Up(n, j + 1) \div Fanout
      BY <1>0, <2>1, UpIs
    <3> QED BY <2>1, <3>1 DEF Index
  <2>4. j > 0 => \A i \in 0 .. Fanout - 1 : "P" \notin mem'[new][i].flags
    <3> SUFFICES ASSUME j > 0, NEW i \in 0 .. Fanout - 1 PROVE "P" \notin mem'[new][i].flags
      OBVIOUS
    <3>1. mem'[new][i] = mem[new][i]
      BY <1>0
    <3> HIDE DEF new
    <3> QED BY <1>2, <3>1
  <2>5. "P" \in used /\ "PS" \notin used
    OBVIOUS
  <2>6. q \div Fanout \in live[j + 1] /\ Enters(mem, mem', Range(tables), at, j, q, new, used)
    <3>1. at[j + 1][q \div Fanout] = parent
      BY <2>3
    <3>2. \A t \in Range(tables), i \in 0 .. Fanout - 1 :
            t # parent \/ i # q % Fanout => mem'[t][i] = mem[t][i]
      BY <1>2, <1>3, <2>2, <2>3
    <3> HIDE DEF parent, new, used
    <3> QED BY <2>2, <2>3, <2>4, <3>1, <3>2 DEF Enters
  <2>7. at2 = MoreAt(at, j, q, new)
    OBVIOUS
  <2> HIDE DEF new, used, parent
  <2>8. Tree(mem', pml4_table, Range(tables) \cup {new}, live2, at2)
    <3> DEFINE pool == Range(tables)
    <3>1. /\ new \in Frame /\ new \notin pool /\ j \in 0 .. 2 /\ Tree(mem, pml4_table, pool, live, at)
          /\ q \div Fanout \in live[j + 1] /\ q \notin live[j]
          /\ Enters(mem, mem', pool, at, j, q, new, used)
      BY <1>0, <1>1, <1>2, <1>4, <2>1, <2>6
    <3> HIDE DEF pool
    <3>2. Tree(mem', pml4_table, pool \cup {new}, live2, at2)
      BY <2>5, <2>7, <3>1, TreeGrows
    <3> QED BY <3>2 DEF pool
  <2> QED BY <1>3, <2>2, <2>8
<1> QED BY <1>5, <1>6

LEMMA AllocateTableKeepsTables ==
  ASSUME Apart, TypeOK, CourseInv, ListInv, AllocateTable,
         NEW live \in [0 .. 3 -> SUBSET Nat], NEW at \in [0 .. 3 -> [Nat -> Frame]],
         TablesInv(live, at)
  PROVE  \E live2 \in [0 .. 3 -> SUBSET Nat], at2 \in [0 .. 3 -> [Nat -> Frame]] :
           TablesInv(live2, at2)'
<1> DEFINE new == first_free_page
           q == Up(n, j + 1)
           parent == at[j + 1][Up(n, j + 2)]
<1>0. TableTaken(live, at)
  BY AllocateTableIs
<1>1. /\ pc = "tables" /\ pc' = "tables" /\ n \in Nat /\ n < max_addr /\ max_addr \in Nat /\ j \in 0 .. 3
      /\ new # NULL /\ new \in Frame /\ tables' = Append(tables, new)
      /\ max_addr' = max_addr /\ mapped' = mapped /\ mapped = {}
  BY <1>0 DEF TableTaken, CourseInv
<1>2. new \notin Range(tables) /\ (\A i \in 0 .. Fanout - 1 : "P" \notin mem[new][i].flags)
      /\ Range(tables) \subseteq Frame /\ Range(tables') = Range(tables) \cup {new}
  BY <1>1, HeadIs, MemoryType, AppendIs
<1>3. q \in Nat
  <2>1. j + 1 \in 0 .. 4
    BY <1>1
  <2> QED BY <1>1, <2>1, UpType
<1>4. q \notin live[j]
  <2>1. \A l \in 0 .. 3 : \A r \in live[l] : r <= Up(n, l + 1) /\ (l <= j => r < Up(n, l + 1))
    BY <1>1 DEF TablesInv, BuildInv
  <2> QED BY <1>1, <1>3, <2>1
<1>5a. IsMore(live, at, j, q, new, MoreLive(live, j, q), MoreAt(at, j, q, new))
  BY <1>1, <1>3, <1>4, MoreIs
<1>5b. /\ MoreLive(live, j, q) \in [0 .. 3 -> SUBSET Nat]
       /\ MoreAt(at, j, q, new) \in [0 .. 3 -> [Nat -> Frame]]
  BY <1>5a DEF IsMore
<1>6. PICK live2 \in [0 .. 3 -> SUBSET Nat], at2 \in [0 .. 3 -> [Nat -> Frame]] :
        live2 = MoreLive(live, j, q) /\ at2 = MoreAt(at, j, q, new)
  BY <1>5b
<1>5. IsMore(live, at, j, q, new, live2, at2)
  BY <1>5a, <1>6
<1>7. Tree(mem', pml4_table', Range(tables'), live2, at2)
  BY <1>3, <1>6, AllocateTableGrows
<1>8. BuildInv(live2)'
  BY <1>6, AllocateTableBuilds
<1>9. \A l \in 0 .. 3 : \A r \in live[l] : at[l][r] \in Range(tables)
  BY DEF TablesInv, Tree
<1>10. \A p \in Range(tables) : (j < 3 => p # parent) => mem'[p] = mem[p]
  <2>1. j < 3 => \A p \in Frame : p # new /\ p # parent => mem'[p] = mem[p]
    BY <1>0 DEF TableTaken
  <2>2. j = 3 => \A p \in Frame : p # new => mem'[p] = mem[p]
    BY <1>0 DEF TableTaken
  <2> QED BY <1>1, <1>2, <2>1, <2>2
<1>11. \A r \in live[0] : mem'[at[0][r]] = mem[at[0][r]]
  <2> SUFFICES ASSUME NEW r \in live[0], j < 3 PROVE at[0][r] # parent
    BY <1>9, <1>10
  <2>1. j + 1 \in 0 .. 3 /\ j + 1 # 0 /\ Up(n, j + 2) \in live[j + 1]
    BY <1>0, <1>1 DEF TableTaken
  <2>2. \A l, k \in 0 .. 3 : \A s \in live[l], t \in live[k] : at[l][s] = at[k][t] => l = k /\ s = t
    BY DEF TablesInv, Tree
  <2> QED BY <2>1, <2>2
<1>12. Leaves(mem', max_addr', mapped', live2, at2)
  <2>1. Leaves(mem, max_addr, mapped, live, at)
    BY DEF TablesInv
  <2> SUFFICES ASSUME NEW r \in live2[0], NEW i \in 0 .. Fanout - 1
               PROVE  LET w == mem'[at2[0][r]][i] IN
                      /\ (Fanout * r) + i < max_addr => w.frame = (Fanout * r) + i
                      /\ (Fanout * r) + i >= max_addr /\ "P" \in w.flags =>
                           <<(Fanout * r) + i, w.frame>> \in mapped
                      /\ Fanout * r >= max_addr /\ "P" \notin w.flags => w = Word(NULL, {})
    BY <1>1 DEF Leaves
  <2>2. CASE r \in live[0]
    <3>1. at2[0][r] = at[0][r] /\ mem'[at[0][r]] = mem[at[0][r]]
      BY <1>5, <1>11, <2>2 DEF IsMore
    <3> QED BY <2>1, <2>2, <3>1 DEF Leaves
  <2>3. CASE j = 0 /\ r = q
    <3>1. at2[0][r] = new
      BY <1>5, <2>3 DEF IsMore
    <3>2. n = Fanout * r /\ r \in Nat
      <4>1. Index(n, 0) = 0 /\ Up(n, 0) = n /\ 0 + 1 = 1
        BY <1>1, <2>3, UpIs DEF TablesInv, BuildInv
      <4>2. n = (Fanout * Up(n, 0 + 1)) + 0 /\ Up(n, 0 + 1) \in Nat
        BY <1>1, <4>1, IndexIs
      <4>3. n = (Fanout * r) + 0 /\ r \in Nat
        BY <2>3, <4>2
      <4>4. Fanout * r \in Nat
        BY <4>3, FanoutType
      <4> QED BY <4>3, <4>4
    <3>3. mem'[new][i] = IF n + i < max_addr THEN Word(n + i, {"P", "W", "AVL"}) ELSE mem[new][i]
      <4>1. \A k \in 0 .. Fanout - 1 : mem'[new][k] =
              IF j = 0 /\ n + k < max_addr THEN Word(n + k, {"P", "W", "AVL"}) ELSE mem[new][k]
        BY <1>0 DEF TableTaken
      <4> QED BY <2>3, <4>1
    <3>4. n + i \in Nat /\ n \in Nat /\ max_addr \in Nat
      BY <1>1, FanoutType
    <3> HIDE DEF new
    <3>5. CASE n + i < max_addr
      <4>1. mem'[new][i].frame = n + i
        BY <3>3, <3>5 DEF Word
      <4>2. ~ n + i >= max_addr /\ ~ n >= max_addr
        BY <1>1, <3>4, <3>5
      <4> QED BY <3>1, <3>2, <4>1, <4>2
    <3>6. CASE ~ n + i < max_addr
      <4>1. "P" \notin mem'[new][i].flags
        BY <1>2, <3>3, <3>6
      <4>2. ~ n >= max_addr
        BY <1>1, <3>4
      <4> QED BY <3>1, <3>2, <3>6, <4>1, <4>2
    <3> QED BY <3>5, <3>6
  <2> QED BY <1>1, <1>5, <2>2, <2>3 DEF IsMore
<1>13. Orphans(mem', Range(tables'), live2, at2)
  <2> SUFFICES ASSUME NEW t \in Range(tables'), \A l \in 0 .. 3 : \A r \in live2[l] : t # at2[l][r],
                      NEW i \in 0 .. Fanout - 1, "P" \in mem'[t][i].flags
               PROVE  mem'[t][i].frame \notin Described
    BY DEF Orphans
  <2>1. at2[j][q] = new /\ q \in live2[j]
        /\ \A k \in 0 .. 3 : \A r \in live[k] : r \in live2[k] /\ at2[k][r] = at[k][r]
    BY <1>5 DEF IsMore
  <2>2. t \in Range(tables) /\ \A l \in 0 .. 3 : \A r \in live[l] : t # at[l][r]
    <3>1. t # new
      BY <1>1, <2>1
    <3> HIDE DEF new
    <3>2. t \in Range(tables)
      BY <1>2, <3>1
    <3> QED BY <2>1, <3>2
  <2>3. j < 3 => t # parent
    <3>1. j < 3 => j + 1 \in 0 .. 3 /\ Up(n, j + 2) \in live[j + 1]
      BY <1>0, <1>1 DEF TableTaken
    <3> QED BY <2>2, <3>1
  <2>4. mem'[t] = mem[t]
    BY <1>10, <2>2, <2>3
  <2> QED BY <2>2, <2>4 DEF TablesInv, Orphans
<1>14. CoverInv(live2)' /\ LargeInv(live2, at2)' /\ PermissionsInv(at2)' /\ NullInv(at2)'
  BY <1>1 DEF CoverInv, LargeInv, PermissionsInv, NullInv
<1>15. WalkInv(live2, at2)' /\ MappedInv(live2, at2)'
  BY <1>1 DEF WalkInv, MappedInv, WalkPcs
<1>16. TablesInv(live2, at2)'
  BY <1>7, <1>8, <1>12, <1>13, <1>14, <1>15 DEF TablesInv
<1> QED BY <1>6, <1>16

-----------------------------------------------------------------------------
(* Flags of memory's entries.                                              *)

LEMMA EntryForIs ==
  ASSUME NEW live, NEW at, TablesInv(live, at), NEW v \in Nat, Up(v, 1) \in live[0]
  PROVE  EntryFor(v) = <<at[0][Up(v, 1)], Index(v, 0)>>
<1>1. Tree(mem, pml4_table, Range(tables), live, at)
  BY DEF TablesInv
<1>2. 0 \in 0 .. 3 /\ 0 + 1 = 1
  OBVIOUS
<1>3. Path(mem, pml4_table, v)[0] = at[0][Up(v, 1)]
  BY <1>1, <1>2, OnPath
<1> QED BY <1>3 DEF EntryFor, TableFor

\* Flags of the entries of the pages vs are set and cleared, and nothing else of the
\* tables changes.
Flagged(m, m2, top, pool, live, at, vs, on, off) ==
  /\ \A p \in pool, i \in 0 .. Fanout - 1 : m2[p][i].frame = m[p][i].frame
  /\ \A l \in 1 .. 3 : \A q \in live[l] : m2[at[l][q]] = m[at[l][q]]
  /\ \A p \in pool : (\A q \in live[0] : p # at[0][q]) => m2[p] = m[p]
  /\ \A q \in live[0], i \in 0 .. Fanout - 1 :
       (Fanout * q) + i < top \/ m2[at[0][q]][i] = m[at[0][q]][i]
  /\ \A v \in 0 .. top - 1 : Up(v, 1) \in live[0] =>
       Leaf(m2, at, v) = IF v \in vs THEN Flags(Leaf(m, at, v), on, off) ELSE Leaf(m, at, v)

LEMMA AddressIs ==
  ASSUME NEW v \in Nat
  PROVE  /\ v = (Fanout * Up(v, 1)) + Index(v, 0) /\ Up(v, 1) \in Nat
         /\ Index(v, 0) \in 0 .. Fanout - 1
         /\ \A q \in Nat, i \in 0 .. Fanout - 1 :
              v = (Fanout * q) + i => Up(v, 1) = q /\ Index(v, 0) = i
<1>1. Up(v, 0) = v /\ Up(v, 0 + 1) = v \div Fanout /\ 0 + 1 = 1
  BY UpIs
<1>2. Index(v, 0) = v % Fanout /\ Up(v, 1) = v \div Fanout
  BY <1>1 DEF Index
<1> QED BY <1>2, DivMod, DivModUnique

\* Entries at the same place are those of one address.
LEMMA OneEntry ==
  ASSUME NEW m, NEW root, NEW pool, NEW live, NEW at, Tree(m, root, pool, live, at),
         NEW v \in Nat, NEW w \in Nat, Up(v, 1) \in live[0], Up(w, 1) \in live[0],
         at[0][Up(v, 1)] = at[0][Up(w, 1)], Index(v, 0) = Index(w, 0)
  PROVE  v = w
<1>1. \A q, r \in live[0] : at[0][q] = at[0][r] => q = r
  <2>1. 0 \in 0 .. 3
    OBVIOUS
  <2> QED BY <2>1, SMTT(30) DEF Tree
<1> QED BY <1>1, AddressIs

LEMMA SamePage ==
  ASSUME NEW f \in Page, NEW g \in Page, \A i \in 0 .. Fanout - 1 : f[i] = g[i]
  PROVE  f = g
<1>1. f = [i \in 0 .. Fanout - 1 |-> f[i]] /\ g = [i \in 0 .. Fanout - 1 |-> g[i]]
  BY DEF Page
<1>2. [i \in 0 .. Fanout - 1 |-> f[i]] = [i \in 0 .. Fanout - 1 |-> g[i]]
  OBVIOUS
<1> QED BY <1>1, <1>2, Zenon

LEMMA PageOf == \A m \in Memory, p \in Frame : m[p] \in Page
BY DEF Memory, Page

\* What a change of flags leaves alone.
OnlyFlagged(m2, live, at, vs, on, off) ==
  /\ m2 \in Memory
  /\ Flagged(mem, m2, max_addr, Range(tables), live, at, vs, on, off)
  /\ \A p \in Frame \ Range(tables) : m2[p] = mem[p]
  /\ \A p \in Frame, i \in 0 .. Fanout - 1 : m2[p][i].frame = mem[p][i].frame

LEMMA WithEntriesFlags ==
  ASSUME TypeOK, NEW live \in [0 .. 3 -> SUBSET Nat], NEW at, TablesInv(live, at),
         NEW vs, NEW on \in SUBSET WordFlags, NEW off, vs \subseteq 0 .. max_addr - 1,
         \A v \in vs : Up(v, 1) \in live[0],
         NEW m2, m2 = WithEntries(vs, on, off)
  PROVE  OnlyFlagged(m2, live, at, vs, on, off)
<1> DEFINE entries == {EntryFor(v) : v \in vs}
           new(p, i) == IF <<p, i>> \in entries THEN Flags(mem[p][i], on, off) ELSE mem[p][i]
<1>0. mem \in Memory /\ max_addr \in Nat
  BY MemoryType DEF TypeOK
<1>1. m2 = [p \in Frame |-> [i \in 0 .. Fanout - 1 |-> new(p, i)]]
  BY DEF WithEntries
<1>2. \A v \in vs : v \in Nat /\ EntryFor(v) = <<at[0][Up(v, 1)], Index(v, 0)>>
  BY <1>0, EntryForIs
<1>3. \A p, i : <<p, i>> \in entries => \E v \in vs : p = at[0][Up(v, 1)] /\ i = Index(v, 0)
  BY <1>2
<1>4. \A v \in vs : <<at[0][Up(v, 1)], Index(v, 0)>> \in entries
  BY <1>2
<1> HIDE DEF entries
<1>5. \A p \in Frame, i \in 0 .. Fanout - 1 :
        new(p, i) \in WordSet /\ new(p, i).frame = mem[p][i].frame
  <2> SUFFICES ASSUME NEW p \in Frame, NEW i \in 0 .. Fanout - 1
               PROVE  new(p, i) \in WordSet /\ new(p, i).frame = mem[p][i].frame
    OBVIOUS
  <2>1. mem[p][i] \in WordSet
    BY <1>0 DEF Memory
  <2> DEFINE w == mem[p][i]
  <2> HIDE DEF w
  <2>1a. w \in WordSet
    BY <2>1 DEF w
  <2>2. Flags(w, on, off) \in WordSet /\ Flags(w, on, off).frame = w.frame
    BY <2>1a DEF Flags, WordSet
  <2>3. new(p, i) = IF <<p, i>> \in entries THEN Flags(w, on, off) ELSE w
    BY DEF w
  <2>4. new(p, i) \in WordSet /\ new(p, i).frame = w.frame
    <3> HIDE DEF new
    <3> QED BY <2>1a, <2>2, <2>3
  <2> QED BY <2>4 DEF w
<1>6. \A p \in Frame, i \in 0 .. Fanout - 1 : m2[p][i] = new(p, i)
  BY <1>1
<1>7. m2 \in Memory
  <2> HIDE DEF new
  <2> QED BY <1>1, <1>5 DEF Memory
<1>8. Tree(mem, pml4_table, Range(tables), live, at) /\ Range(tables) \subseteq Frame
  BY MemoryType DEF TablesInv
<1>9. \A l \in 0 .. 3 : \A q \in live[l] : at[l][q] \in Range(tables)
  BY <1>8 DEF Tree
<1>10. ASSUME NEW p \in Frame, \A q \in live[0] : p # at[0][q] PROVE m2[p] = mem[p]
  <2>1. \A i \in 0 .. Fanout - 1 : m2[p][i] = mem[p][i]
    BY <1>3, <1>6, <1>10
  <2> QED BY <1>0, <1>7, <2>1, PageOf, SamePage
<1>11. \A l \in 1 .. 3 : \A q \in live[l] : m2[at[l][q]] = mem[at[l][q]]
  <2> SUFFICES ASSUME NEW l \in 1 .. 3, NEW q \in live[l] PROVE m2[at[l][q]] = mem[at[l][q]]
    OBVIOUS
  <2>1. l \in 0 .. 3 /\ l # 0 /\ 0 \in 0 .. 3
    OBVIOUS
  <2>2. \A r \in live[0] : at[l][q] # at[0][r]
    BY <1>8, <2>1 DEF Tree
  <2> QED BY <1>8, <1>9, <1>10, <2>1, <2>2
<1>12. ASSUME NEW q \in live[0], NEW i \in 0 .. Fanout - 1, ~ (Fanout * q) + i < max_addr
       PROVE  m2[at[0][q]][i] = mem[at[0][q]][i]
  <2>1. at[0][q] \in Frame /\ 0 \in 0 .. 3
    BY <1>8, <1>9
  <2>2. <<at[0][q], i>> \notin entries
    <3> SUFFICES ASSUME NEW v \in vs, at[0][q] = at[0][Up(v, 1)], i = Index(v, 0) PROVE FALSE
      BY <1>3
    <3>1. q = Up(v, 1)
      BY <1>8, <2>1, SMTT(30) DEF Tree
    <3>2. v = (Fanout * q) + i /\ v < max_addr
      BY <1>0, <1>2, <3>1, AddressIs
    <3> QED BY <1>12, <3>2
  <2> QED BY <1>6, <2>1, <2>2
<1>13. ASSUME NEW v \in 0 .. max_addr - 1, Up(v, 1) \in live[0]
       PROVE  Leaf(m2, at, v) = IF v \in vs THEN Flags(Leaf(mem, at, v), on, off) ELSE Leaf(mem, at, v)
  <2>1. at[0][Up(v, 1)] \in Frame /\ Index(v, 0) \in 0 .. Fanout - 1 /\ v \in Nat
    <3>1. v \in Nat
      BY <1>0
    <3>2. 0 \in 0 .. 3
      OBVIOUS
    <3>3. at[0][Up(v, 1)] \in Frame
      BY <1>8, <1>9, <1>13, <3>2
    <3> QED BY <3>1, <3>3, AddressIs
  <2>2. v \notin vs => <<at[0][Up(v, 1)], Index(v, 0)>> \notin entries
    BY <1>2, <1>3, <1>8, <1>13, <2>1, OneEntry
  <2> QED BY <1>4, <1>6, <2>1, <2>2 DEF Leaf
<1>14. Flagged(mem, m2, max_addr, Range(tables), live, at, vs, on, off)
  <2>1. \A p \in Range(tables), i \in 0 .. Fanout - 1 : m2[p][i].frame = mem[p][i].frame
    BY <1>5, <1>6, <1>8
  <2> QED BY <1>8, <1>10, <1>11, <1>12, <1>13, <2>1 DEF Flagged
<1>15. \A p \in Frame \ Range(tables) : m2[p] = mem[p]
  BY <1>9, <1>10
<1> QED BY <1>5, <1>6, <1>7, <1>14, <1>15 DEF OnlyFlagged

LEMMA FlaggedTables ==
  ASSUME TypeOK, NEW live \in [0 .. 3 -> SUBSET Nat], NEW at, TablesInv(live, at),
         NEW vs, NEW on, NEW off,
         Flagged(mem, mem', max_addr, Range(tables), live, at, vs, on, off),
         UNCHANGED <<pml4_table, max_addr, tables, mapped>>
  PROVE  /\ Tree(mem', pml4_table', Range(tables'), live, at)
         /\ Leaves(mem', max_addr', mapped', live, at)
         /\ Orphans(mem', Range(tables'), live, at)
<1>1. /\ Tree(mem, pml4_table, Range(tables), live, at)
      /\ Leaves(mem, max_addr, mapped, live, at)
      /\ Orphans(mem, Range(tables), live, at)
  BY DEF TablesInv
<1>2. Tree(mem', pml4_table, Range(tables), live, at)
  <2>1. \A l \in 1 .. 3 : \A q \in live[l] : mem'[at[l][q]] = mem[at[l][q]]
    BY DEF Flagged
  <2> QED BY <1>1, <2>1, TreeKept
<1>3. \A q \in live[0] : at[0][q] \in Range(tables)
  <2>1. 0 \in 0 .. 3
    OBVIOUS
  <2> QED BY <1>1, <2>1 DEF Tree
<1>4. Leaves(mem', max_addr, mapped, live, at)
  <2>1. \A q \in live[0], i \in 0 .. Fanout - 1 :
           /\ mem'[at[0][q]][i].frame = mem[at[0][q]][i].frame
           /\ (Fanout * q) + i < max_addr \/ mem'[at[0][q]][i] = mem[at[0][q]][i]
    BY <1>3 DEF Flagged
  <2>2. max_addr \in Nat /\ live[0] \subseteq Nat
    BY DEF TypeOK
  <2> QED BY <1>1, <2>1, <2>2, LeavesKept
<1>5. Orphans(mem', Range(tables), live, at)
  <2> SUFFICES ASSUME NEW t \in Range(tables), \A l \in 0 .. 3 : \A q \in live[l] : t # at[l][q]
               PROVE  mem'[t] = mem[t]
    BY <1>1 DEF Orphans
  <2>1. 0 \in 0 .. 3
    OBVIOUS
  <2> QED BY <2>1 DEF Flagged
<1> QED BY <1>2, <1>4, <1>5

\* What is protected stays protected.
KeepsProtection(m2, live, at) ==
  \A k \in DOMAIN MemoryMap : \A v \in InDescriptor(MemoryMap[k]) :
    /\ v \in 0 .. max_addr - 1 /\ Up(v, 1) \in live[0]
    /\ IsCode(MemoryMap[k]) /\ "W" \notin Leaf(mem, at, v).flags => "W" \notin Leaf(m2, at, v).flags
    /\ "NX" \in Leaf(mem, at, v).flags => "NX" \in Leaf(m2, at, v).flags

LEMMA FlaggedPermissions ==
  ASSUME Apart, TypeOK, CourseInv, pc \notin {"list", "tables"},
         NEW live \in [0 .. 3 -> SUBSET Nat], NEW at, TablesInv(live, at),
         NEW vs, NEW on, NEW off,
         Flagged(mem, mem', max_addr, Range(tables), live, at, vs, on, off),
         "NX" \notin off, \A v \in vs : v \in Code => "W" \notin on
  PROVE  KeepsProtection(mem', live, at)
<1> SUFFICES ASSUME NEW k \in DOMAIN MemoryMap, NEW v \in InDescriptor(MemoryMap[k])
             PROVE  /\ v \in 0 .. max_addr - 1 /\ Up(v, 1) \in live[0]
                    /\ IsCode(MemoryMap[k]) /\ "W" \notin Leaf(mem, at, v).flags =>
                         "W" \notin Leaf(mem', at, v).flags
                    /\ "NX" \in Leaf(mem, at, v).flags => "NX" \in Leaf(mem', at, v).flags
  BY DEF KeepsProtection
<1>1. v \in 0 .. max_addr - 1
  BY MemoryIs
<1>2. Up(v, 1) \in live[0]
  <2>1. Up(v, 1) \notin LargeSlots /\ 0 \in 0 .. 3 /\ 0 + 1 = 1
    BY LargeIs
  <2>2. \A l \in 0 .. 3 : Up(v, l + 1) \in live[l]
    BY <1>1, <2>1 DEF TablesInv, CoverInv
  <2> QED BY <2>1, <2>2
<1>3. Leaf(mem', at, v) = IF v \in vs THEN Flags(Leaf(mem, at, v), on, off) ELSE Leaf(mem, at, v)
  BY <1>1, <1>2 DEF Flagged
<1>4. v \in vs /\ IsCode(MemoryMap[k]) => "W" \notin on
  BY PagesAre DEF Code, IsCode
<1>5. at[0][Up(v, 1)] \in Frame /\ Leaf(mem, at, v) \in WordSet
  <2>1. 0 \in 0 .. 3
    OBVIOUS
  <2>2. at[0][Up(v, 1)] \in Range(tables)
    BY <1>2, <2>1 DEF TablesInv, Tree
  <2>3. Index(v, 0) \in 0 .. Fanout - 1
    <3>1. v \in Nat
      BY PagesAre
    <3> QED BY <3>1, AddressIs
  <2> QED BY <2>2, <2>3, MemoryType DEF Leaf, Memory
<1>6. CASE v \in vs
  <2> DEFINE w == Leaf(mem, at, v)
  <2> HIDE DEF w
  <2>1. w \in WordSet /\ Leaf(mem', at, v) = Flags(w, on, off)
    BY <1>3, <1>5, <1>6 DEF w
  <2>2. Leaf(mem', at, v).flags = (w.flags \ off) \cup on
    BY <2>1 DEF Flags, WordSet
  <2> QED BY <1>1, <1>2, <1>4, <1>6, <2>2 DEF w
<1>7. CASE v \notin vs
  BY <1>1, <1>2, <1>3, <1>7
<1> QED BY <1>6, <1>7

\* What is mapped lies above memory.
LEMMA MappedAbove ==
  ASSUME Apart, TypeOK, CourseInv, pc # "list", NEW live, NEW at, TablesInv(live, at),
         NEW e \in mapped
  PROVE  /\ e[1] \in Nat /\ Up(e[1], 4) = 0 /\ Up(e[1], 1) \in live[0]
         /\ e[1] >= max_addr /\ Fanout * Up(e[1], 1) >= max_addr
         /\ Up(e[1], 1) \notin LargeSlots
<1>1. PICK r \in Regions, k \in Nat : k < size[r] /\ e[1] = RegionBase[r] + k
  BY DEF TablesInv, MappedInv
<1>2. size[r] \in 0 .. MaxMapped /\ MaxMapped \in Nat
  BY MapIs DEF TypeOK
<1>3. k \in 0 .. MaxMapped - 1
  BY <1>1, <1>2
<1>4. Up(e[1], 1) \in live[0]
  <2>1. 0 \in 0 .. 3 /\ 0 + 1 = 1
    OBVIOUS
  <2>2. \A l \in 0 .. 3 : Up(e[1], l + 1) \in live[l]
    BY DEF TablesInv, MappedInv
  <2> QED BY <2>1, <2>2
<1> QED BY <1>1, <1>3, <1>4, RegionsAbove

LEMMA FlaggedMapped ==
  ASSUME Apart, TypeOK, CourseInv, pc # "list", NEW live, NEW at, TablesInv(live, at),
         NEW vs, NEW on, NEW off,
         Flagged(mem, mem', max_addr, Range(tables), live, at, vs, on, off),
         NEW e \in mapped
  PROVE  Leaf(mem', at, e[1]) = Leaf(mem, at, e[1])
<1>1. e[1] \in Nat /\ e[1] >= max_addr /\ Up(e[1], 1) \in live[0] /\ max_addr \in Nat
  BY MappedAbove DEF TypeOK
<1>2. e[1] = (Fanout * Up(e[1], 1)) + Index(e[1], 0) /\ Index(e[1], 0) \in 0 .. Fanout - 1
  BY <1>1, AddressIs
<1>3. ~ (Fanout * Up(e[1], 1)) + Index(e[1], 0) < max_addr
  BY <1>1, <1>2
<1> QED BY <1>1, <1>2, <1>3 DEF Flagged, Leaf

\* The words of tables are of no interest to the list.
LEMMA EntriesList ==
  ASSUME TypeOK, ListInv, UNCHANGED <<first_free_page, tables>>,
         Managed' = Managed, DataPages' = DataPages,
         \A p \in Frame \ Range(tables) : mem'[p] = mem[p],
         FreePages \subseteq Frame
  PROVE  ListInv'
<1>1. FreePages' = FreePages
  BY DEF FreePages
<1>2. Links(mem', first_free_page, FreePages)
  <2>1. Links(mem, first_free_page, FreePages)
    BY DEF ListInv
  <2>2. \A p \in FreePages : mem'[p][0].frame = mem[p][0].frame
    BY DEF FreePages
  <2> QED BY <2>1, <2>2, LinksKept
<1>3. \A p \in Frame \ Range(tables) : \A i \in 0 .. Fanout - 1 : "P" \notin mem'[p][i].flags
  BY DEF ListInv
<1>4. IsInjective(tables)'
  BY DEF ListInv, IsInjective
<1>5. (Range(tables) \cup DataPages \subseteq Managed)' /\ (Range(tables) \cap DataPages = {})'
  BY DEF ListInv
<1> QED BY <1>1, <1>2, <1>3, <1>4, <1>5 DEF ListInv

LEMMA SetPermissionsKeeps ==
  ASSUME Apart, TypeOK, CourseInv, ListInv, SetPermissions,
         NEW live \in [0 .. 3 -> SUBSET Nat], NEW at, TablesInv(live, at)
  PROVE  TypeOK' /\ CourseInv' /\ ListInv' /\ TablesInv(live, at)'
<1> DEFINE d == MemoryMap[n]
<1>1. /\ pc = "permissions" /\ pc' = "permissions" /\ n \in DOMAIN MemoryMap /\ n \in Nat /\ n' = n + 1
      /\ j = 0 /\ j' = 0
      /\ UNCHANGED <<first_free_page, pml4_table, max_addr, cr3, stale, cpu, job, size, tables, mapped>>
  <2>1. n \in 1 .. Len(MemoryMap)
    BY MapIs DEF SetPermissions, At, CourseInv, LoopPcs, TypeOK
  <2> QED BY <2>1, MapIs DEF SetPermissions, At, CourseInv
<1>2. PICK vs, on, off :
        /\ on \in SUBSET WordFlags
        /\ mem' = WithEntries(vs, on, off)
        /\ "W" \notin on /\ "NX" \notin off
        /\ IsCode(d) => vs = InDescriptor(d) /\ "W" \in off
        /\ ~ IsCode(d) /\ d.type # "Conventional" => vs = InDescriptor(d) /\ "NX" \in on
        /\ d.type = "Conventional" => vs = d.start + 1 .. d.start + d.pages
  <2>1. CASE d.type = "Conventional"
    <3>1. mem' = WithEntries(d.start + 1 .. d.start + d.pages, {"NX"}, {"AVL"})
      BY <2>1 DEF SetPermissions
    <3>2. {"NX"} \in SUBSET WordFlags /\ "W" \notin {"NX"} /\ "NX" \notin {"AVL"}
      BY DEF WordFlags
    <3>3. ~ IsCode(d)
      BY <2>1 DEF IsCode, CodeTypes
    <3> QED BY <2>1, <3>1, <3>2, <3>3
  <2>2. CASE d.type # "Conventional" /\ IsCode(d)
    <3>1. mem' = WithEntries(InDescriptor(d), {}, {"W"})
      BY <2>2 DEF SetPermissions
    <3>2. {} \in SUBSET WordFlags /\ "W" \notin {} /\ "NX" \notin {"W"} /\ "W" \in {"W"}
      OBVIOUS
    <3> QED BY <2>2, <3>1, <3>2
  <2>3. CASE d.type # "Conventional" /\ ~ IsCode(d)
    <3>1. mem' = WithEntries(InDescriptor(d), {"NX"}, {})
      BY <2>3 DEF SetPermissions
    <3>2. {"NX"} \in SUBSET WordFlags /\ "W" \notin {"NX"} /\ "NX" \notin {} /\ "NX" \in {"NX"}
      BY DEF WordFlags
    <3> QED BY <2>3, <3>1, <3>2
  <2> QED BY <2>1, <2>2, <2>3
<1>3. max_addr \in Nat /\ vs \subseteq 0 .. max_addr - 1
  <2>1. InDescriptor(d) \subseteq 0 .. max_addr - 1 /\ max_addr \in Nat
    BY <1>1, MemoryIs
  <2>2. CASE d.type = "Conventional"
    <3>1. EndOf(n) < max_addr /\ EndOf(n) = d.start + d.pages /\ d.start \in Nat /\ d.pages \in Nat
      BY <1>1, <2>2, MemoryIs, MapIs
    <3>2. vs = d.start + 1 .. EndOf(n)
      BY <1>2, <2>2, <3>1
    <3> QED BY <2>1, <3>1, <3>2
  <2> QED BY <1>2, <2>1, <2>2
<1>4. \A v \in vs : Up(v, 1) \in live[0]
  <2>1. \A v \in 0 .. max_addr - 1 : \A l \in 0 .. 3 : Up(v, l + 1) \in live[l]
    BY <1>1 DEF TablesInv, CoverInv
  <2>2. 0 \in 0 .. 3 /\ 0 + 1 = 1
    OBVIOUS
  <2> QED BY <1>3, <2>1, <2>2
<1> HIDE DEF d
<1>5a. OnlyFlagged(mem', live, at, vs, on, off)
  BY <1>2, <1>3, <1>4, WithEntriesFlags
<1>5. /\ mem' \in Memory
      /\ Flagged(mem, mem', max_addr, Range(tables), live, at, vs, on, off)
      /\ \A p \in Frame \ Range(tables) : mem'[p] = mem[p]
      /\ \A p \in Frame, i \in 0 .. Fanout - 1 : mem'[p][i].frame = mem[p][i].frame
  BY <1>5a DEF OnlyFlagged
<1>6. TypeOK'
  <2>1. mem' \in [Frame -> [0 .. Fanout - 1 -> [frame : Nat, flags : SUBSET WordFlags]]]
    BY <1>5 DEF Memory, WordSet
  <2>2. /\ {first_free_page', pml4_table'} \cup stale' \subseteq Frame
        /\ tables' \in Seq(Frame)
        /\ job' \in [va : Nat, page : Frame, cur : Frame, l : 0 .. 3, level : 0 .. 1]
        /\ size' \in [Regions -> 0 .. MaxMapped]
        /\ \A m \in mapped' : m \in Nat \X Frame
        /\ {max_addr', n', j'} \subseteq Nat
    BY <1>1, <1>3 DEF TypeOK
  <2>3. cr3' \in BOOLEAN /\ cpu' \in {"run", "oom", "pf"}
    BY <1>1, Zenon DEF TypeOK
  <2> QED BY <2>1, <2>2, <2>3, Zenon DEF TypeOK
<1>7. CourseInv'
  <2>1. n' >= 1 /\ (n' <= Len(MemoryMap) => j' < MemoryMap[n'].pages)
    <3>1. n' <= Len(MemoryMap) => n' \in DOMAIN MemoryMap
      BY <1>1, MapIs
    <3> QED BY <1>1, <3>1, MapIs
  <2> QED BY <1>1, <2>1 DEF CourseInv, LoopPcs, WalkPcs
<1>8. ListInv'
  <2>1. Managed' = Managed
    BY <1>1 DEF Managed, Passed
  <2>2. DataPages' = DataPages
    BY <1>1 DEF DataPages
  <2>3. FreePages \subseteq Frame
    BY <1>1, ManagedIs, PagesApart DEF FreePages
  <2> QED BY <1>1, <1>5, <2>1, <2>2, <2>3, EntriesList
<1>9. /\ Tree(mem', pml4_table', Range(tables'), live, at)
      /\ Leaves(mem', max_addr', mapped', live, at)
      /\ Orphans(mem', Range(tables'), live, at)
  BY <1>1, <1>5, FlaggedTables
<1>10. PermissionsInv(at)'
  <2> SUFFICES ASSUME NEW k \in DOMAIN MemoryMap, k < n + 1, NEW v \in InDescriptor(MemoryMap[k])
               PROVE  IF IsCode(MemoryMap[k]) THEN "W" \notin Leaf(mem', at, v).flags
                      ELSE MemoryMap[k].type # "Conventional" => "NX" \in Leaf(mem', at, v).flags
    BY <1>1 DEF PermissionsInv
  <2>1. /\ v \in 0 .. max_addr - 1 /\ Up(v, 1) \in live[0]
        /\ IsCode(MemoryMap[k]) /\ "W" \notin Leaf(mem, at, v).flags => "W" \notin Leaf(mem', at, v).flags
        /\ "NX" \in Leaf(mem, at, v).flags => "NX" \in Leaf(mem', at, v).flags
    <3>1. KeepsProtection(mem', live, at)
      BY <1>1, <1>2, <1>5, FlaggedPermissions
    <3> QED BY <3>1 DEF KeepsProtection
  <2>2. CASE k < n
    BY <1>1, <2>1, <2>2 DEF TablesInv, PermissionsInv
  <2>3. CASE k = n
    <3>1. MemoryMap[k].type # "Conventional" => v \in vs
      <4>1. IsCode(d) => d.type # "Conventional"
        BY DEF IsCode, CodeTypes
      <4> QED BY <1>2, <2>3 DEF d
    <3>2. v \in vs => Leaf(mem', at, v) = Flags(Leaf(mem, at, v), on, off)
      BY <1>5, <2>1 DEF Flagged
    <3>3. \A w : w \in WordSet => Flags(w, on, off).flags = (w.flags \ off) \cup on
      BY DEF Flags, WordSet
    <3>4. Leaf(mem, at, v) \in WordSet
      <4>1. 0 \in 0 .. 3
        OBVIOUS
      <4>2. at[0][Up(v, 1)] \in Range(tables)
        BY <2>1, <4>1 DEF TablesInv, Tree
      <4>3. Index(v, 0) \in 0 .. Fanout - 1
        <5>1. v \in Nat
          BY PagesAre
        <5> QED BY <5>1, AddressIs
      <4> QED BY <4>2, <4>3, MemoryType DEF Leaf, Memory
    <3>5. v \in vs => Leaf(mem', at, v).flags = (Leaf(mem, at, v).flags \ off) \cup on
      BY <3>2, <3>3, <3>4
    <3>6. IsCode(MemoryMap[k]) => MemoryMap[k].type # "Conventional"
      BY DEF IsCode, CodeTypes
    <3> QED BY <1>2, <2>3, <3>1, <3>5, <3>6 DEF d
  <2>4. k < n \/ k = n
    BY <1>1, MapIs
  <2> QED BY <2>2, <2>3, <2>4
<1>11. BuildInv(live)' /\ CoverInv(live)' /\ LargeInv(live, at)' /\ NullInv(at)' /\ WalkInv(live, at)'
  BY <1>1 DEF TablesInv, BuildInv, CoverInv, LargeInv, NullInv, WalkInv, WalkPcs
<1>12. MappedInv(live, at)'
  BY <1>1 DEF CourseInv, MappedInv
<1> QED BY <1>6, <1>7, <1>8, <1>9, <1>10, <1>11, <1>12 DEF TablesInv

\* Steps that change memory.
Jobs == [va : Nat, page : Frame, cur : Frame, l : 0 .. 3, level : 0 .. 1]

LEMMA TypeStep ==
  ASSUME TypeOK, mem' \in Memory, first_free_page' \in Frame, stale' \subseteq Frame,
         tables' \in Seq(Frame), {n', j'} \subseteq Nat, job' \in Jobs,
         size' \in [Regions -> 0 .. MaxMapped], \A m \in mapped' : m \in Nat \X Frame,
         UNCHANGED <<pml4_table, max_addr, cr3, cpu>>
  PROVE  TypeOK'
<1>1. mem' \in [Frame -> [0 .. Fanout - 1 -> [frame : Nat, flags : SUBSET WordFlags]]]
  BY DEF Memory, WordSet
<1>2. /\ {first_free_page', pml4_table'} \cup stale' \subseteq Frame
      /\ {max_addr', n', j'} \subseteq Nat
  BY DEF TypeOK
<1>3. cr3' \in BOOLEAN /\ cpu' \in {"run", "oom", "pf"}
  BY Zenon DEF TypeOK
<1> QED BY <1>1, <1>2, <1>3, Zenon DEF TypeOK, Jobs

LEMMA UnmapNullKeeps ==
  ASSUME Apart, TypeOK, CourseInv, ListInv, UnmapNull,
         NEW live \in [0 .. 3 -> SUBSET Nat], NEW at, TablesInv(live, at)
  PROVE  TypeOK' /\ CourseInv' /\ ListInv' /\ TablesInv(live, at)'
<1>1. /\ pc = "permissions" /\ pc' = "framebuffer" /\ n \in Nat /\ n > Len(MemoryMap) /\ n' = 0
      /\ j = 0 /\ j' = 0 /\ mem' = WithEntries({NULL}, {}, {"P"})
      /\ UNCHANGED <<first_free_page, pml4_table, max_addr, cr3, stale, cpu, job, size, tables, mapped>>
  BY DEF UnmapNull, CourseInv, TypeOK
<1>2. max_addr \in Nat \ {0} /\ {NULL} \subseteq 0 .. max_addr - 1 /\ {} \in SUBSET WordFlags
  <2>1. max_addr \in Nat \ {0}
    BY <1>1, MemoryIs
  <2> QED BY <2>1 DEF NULL
<1>3. \A v \in 0 .. max_addr - 1 : \A l \in 0 .. 3 : Up(v, l + 1) \in live[l]
  BY <1>1 DEF TablesInv, CoverInv
<1>4. \A v \in {NULL} : Up(v, 1) \in live[0]
  <2>1. 0 \in 0 .. 3 /\ 0 + 1 = 1
    OBVIOUS
  <2> QED BY <1>2, <1>3, <2>1
<1>5. OnlyFlagged(mem', live, at, {NULL}, {}, {"P"})
  BY <1>1, <1>2, <1>4, WithEntriesFlags
<1>6. /\ mem' \in Memory
      /\ Flagged(mem, mem', max_addr, Range(tables), live, at, {NULL}, {}, {"P"})
      /\ \A p \in Frame \ Range(tables) : mem'[p] = mem[p]
      /\ \A p \in Frame, i \in 0 .. Fanout - 1 : mem'[p][i].frame = mem[p][i].frame
  BY <1>5 DEF OnlyFlagged
<1>7. TypeOK'
  <2>1. first_free_page' \in Frame /\ stale' \subseteq Frame /\ tables' \in Seq(Frame) /\ {n', j'} \subseteq Nat
        /\ job' \in Jobs /\ size' \in [Regions -> 0 .. MaxMapped] /\ \A m \in mapped' : m \in Nat \X Frame
    BY <1>1 DEF TypeOK, Jobs
  <2> QED BY <1>1, <1>6, <2>1, TypeStep
<1>8. CourseInv'
  <2>1. 0 % Fanout = 0
    BY FanoutType
  <2> QED BY <1>1, <2>1 DEF CourseInv, LoopPcs, WalkPcs
<1>9. ListInv'
  <2>1. Managed' = Managed
    BY <1>1 DEF Managed, Passed
  <2>2. DataPages' = DataPages
    BY <1>1 DEF DataPages
  <2>3. FreePages \subseteq Frame
    BY <1>1, ManagedIs, PagesApart DEF FreePages
  <2> QED BY <1>1, <1>6, <2>1, <2>2, <2>3, EntriesList
<1>10. /\ Tree(mem', pml4_table', Range(tables'), live, at)
       /\ Leaves(mem', max_addr', mapped', live, at)
       /\ Orphans(mem', Range(tables'), live, at)
  BY <1>1, <1>6, FlaggedTables
<1>11. PermissionsInv(at)'
  <2> SUFFICES ASSUME NEW k \in DOMAIN MemoryMap, NEW v \in InDescriptor(MemoryMap[k])
               PROVE  IF IsCode(MemoryMap[k]) THEN "W" \notin Leaf(mem', at, v).flags
                      ELSE MemoryMap[k].type # "Conventional" => "NX" \in Leaf(mem', at, v).flags
    BY DEF PermissionsInv
  <2>1. /\ IsCode(MemoryMap[k]) /\ "W" \notin Leaf(mem, at, v).flags => "W" \notin Leaf(mem', at, v).flags
        /\ "NX" \in Leaf(mem, at, v).flags => "NX" \in Leaf(mem', at, v).flags
    <3> DEFINE vs == {NULL}
               on == {}
               off == {"P"}
    <3>1. "NX" \notin off /\ \A w \in vs : w \in Code => "W" \notin on
      OBVIOUS
    <3>2. Flagged(mem, mem', max_addr, Range(tables), live, at, vs, on, off)
      BY <1>6
    <3> HIDE DEF vs, on, off
    <3>3. KeepsProtection(mem', live, at)
      BY <1>1, <3>1, <3>2, FlaggedPermissions
    <3> QED BY <3>3 DEF KeepsProtection
  <2>2. k < n
    BY <1>1, MapIs
  <2> QED BY <1>1, <2>1, <2>2 DEF TablesInv, PermissionsInv
<1>12. NullInv(at)'
  <2>1. Leaf(mem', at, NULL) = Flags(Leaf(mem, at, NULL), {}, {"P"})
    BY <1>2, <1>4, <1>6 DEF Flagged
  <2>2. Leaf(mem, at, NULL) \in WordSet
    <3>1. 0 \in 0 .. 3
      OBVIOUS
    <3>2. at[0][Up(NULL, 1)] \in Range(tables)
      BY <1>4, <3>1 DEF TablesInv, Tree
    <3>3. Index(NULL, 0) \in 0 .. Fanout - 1
      BY AddressIs DEF NULL
    <3> QED BY <3>2, <3>3, MemoryType DEF Leaf, Memory
  <2>3. \A w : w \in WordSet => "P" \notin Flags(w, {}, {"P"}).flags
    BY DEF Flags, WordSet
  <2> QED BY <2>1, <2>2, <2>3 DEF NullInv
<1>13. CoverInv(live)'
  <2>1. 0 \in live[3]
    BY <1>1 DEF TablesInv, CoverInv
  <2> QED BY <1>1, <1>3, <2>1 DEF CoverInv
<1>14. LargeInv(live, at)'
  <2>1. \A x \in LargeSlots : ~ Fanout * x < FrameBuffer.base + 0
    BY LargeIs, FrameBufferIs
  <2> QED BY <1>1, <2>1 DEF LargeInv
<1>15. BuildInv(live)' /\ WalkInv(live, at)'
  BY <1>1 DEF BuildInv, WalkInv, WalkPcs
<1>16. MappedInv(live, at)'
  BY <1>1 DEF CourseInv, MappedInv
<1> QED BY <1>7, <1>8, <1>9, <1>10, <1>11, <1>12, <1>13, <1>14, <1>15, <1>16 DEF TablesInv

-----------------------------------------------------------------------------
(* deallocate_page and allocate_page.                                      *)

\* One word is written.
Put(m, p, i, w) == [m EXCEPT ![p][i] = w]
IsPut(m, m2, p, i, w) ==
  /\ m2 \in Memory /\ m2[p][i] = w
  /\ \A r \in Frame, k \in 0 .. Fanout - 1 : r # p \/ k # i => m2[r][k] = m[r][k]
  /\ \A r \in Frame : r # p => m2[r] = m[r]

LEMMA PutIs ==
  ASSUME NEW m \in Memory, NEW p \in Frame, NEW i \in 0 .. Fanout - 1, NEW w \in WordSet,
         NEW m2, m2 = Put(m, p, i, w)
  PROVE  IsPut(m, m2, p, i, w)
<1>1. m2 = [m EXCEPT ![p][i] = w]
  BY DEF Put
<1>2. m2 \in Memory /\ m2[p][i] = w
  <2> DEFINE page == [m[p] EXCEPT ![i] = w]
  <2>1. page \in [0 .. Fanout - 1 -> WordSet] /\ page[i] = w
    BY DEF Memory
  <2>2. m2 = [m EXCEPT ![p] = page]
    BY <1>1
  <2> HIDE DEF page
  <2> QED BY <2>1, <2>2 DEF Memory
<1>3. \A r \in Frame, k \in 0 .. Fanout - 1 : r # p \/ k # i => m2[r][k] = m[r][k]
  BY <1>1 DEF Memory
<1>4. \A r \in Frame : r # p => m2[r] = m[r]
  BY <1>1 DEF Memory
<1> QED BY <1>2, <1>3, <1>4 DEF IsPut

\* A word of a page is written, and flags of an entry change.
Relink(m, p, w, e, on, off) == [m EXCEPT ![p][0] = w, ![e[1]][e[2]] = Flags(@, on, off)]
Unlink(m, p, w, e, on, off) == [m EXCEPT ![e[1]][e[2]] = Flags(@, on, off), ![p][0] = w]
IsLinked(m, m2, p, w, q, i, on, off) ==
  /\ m2 \in Memory /\ m2[p][0] = w /\ m2[q][i] = Flags(m[q][i], on, off)
  /\ \A r \in Frame : r # p /\ r # q => m2[r] = m[r]
  /\ \A k \in 0 .. Fanout - 1 : /\ k # i => m2[q][k] = m[q][k]
                                /\ k # 0 => m2[p][k] = m[p][k]

LEMMA TwoWords ==
  ASSUME NEW m \in Memory, NEW p \in Frame, NEW w \in WordSet, NEW q \in Frame, q # p,
         NEW i \in 0 .. Fanout - 1, NEW on \in SUBSET WordFlags, NEW off, NEW m2,
         \/ m2 = Relink(m, p, w, <<q, i>>, on, off)
         \/ m2 = Unlink(m, p, w, <<q, i>>, on, off)
  PROVE  IsLinked(m, m2, p, w, q, i, on, off)
<1> DEFINE v == Flags(m[q][i], on, off)
<1>1. m[q][i] \in WordSet /\ 0 \in 0 .. Fanout - 1
  BY FrameNat DEF Memory
<1>2. v \in WordSet
  BY <1>1 DEF Flags, WordSet
<1>3. \/ m2 = Put(Put(m, p, 0, w), q, i, v)
      \/ m2 = Put(Put(m, q, i, v), p, 0, w)
  <2>1. CASE m2 = Relink(m, p, w, <<q, i>>, on, off)
    <3>1. m2 = [[m EXCEPT ![p][0] = w] EXCEPT ![q][i] = v]
      BY <1>1, <2>1 DEF Relink, Memory
    <3> QED BY <3>1 DEF Put
  <2>2. CASE m2 = Unlink(m, p, w, <<q, i>>, on, off)
    <3>1. m2 = [[m EXCEPT ![q][i] = v] EXCEPT ![p][0] = w]
      BY <1>1, <2>2 DEF Unlink, Memory
    <3> QED BY <3>1 DEF Put
  <2> QED BY <2>1, <2>2
<1> DEFINE Result == 
      /\ m2 \in Memory /\ m2[p][0] = w /\ m2[q][i] = v
      /\ \A r \in Frame : r # p /\ r # q => m2[r] = m[r]
      /\ \A k \in 0 .. Fanout - 1 : (k # i => m2[q][k] = m[q][k]) /\ (k # 0 => m2[p][k] = m[p][k])
<1> HIDE DEF v
<1>4. ASSUME NEW m3, m3 = Put(m, p, 0, w), m2 = Put(m3, q, i, v) PROVE Result
  <2>1. IsPut(m, m3, p, 0, w)
    BY <1>1, <1>4, PutIs
  <2>2. IsPut(m3, m2, q, i, v)
    <3>1. m3 \in Memory
      BY <2>1 DEF IsPut
    <3> QED BY <1>2, <1>4, <3>1, PutIs
  <2> QED BY <1>1, <2>1, <2>2 DEF IsPut
<1>5. ASSUME NEW m3, m3 = Put(m, q, i, v), m2 = Put(m3, p, 0, w) PROVE Result
  <2>1. IsPut(m, m3, q, i, v)
    BY <1>2, <1>5, PutIs
  <2>2. IsPut(m3, m2, p, 0, w)
    <3>1. m3 \in Memory
      BY <2>1 DEF IsPut
    <3> QED BY <1>1, <1>5, <3>1, PutIs
  <2> QED BY <1>1, <2>1, <2>2 DEF IsPut
<1> HIDE DEF Result
<1>6. Result
  BY <1>3, <1>4, <1>5
<1> QED BY <1>6 DEF Result, IsLinked, v

\* The first word of a page outside the tables is written, and the flags of its entry change.
PageLinked(m2, live, at, page, w, on, off) ==
  /\ m2 \in Memory
  /\ Flagged(mem, m2, max_addr, Range(tables), live, at, {page}, on, off)
  /\ m2[page][0] = w
  /\ \A p \in Frame \ Range(tables) : p # page => m2[p] = mem[p]
  /\ \A i \in 0 .. Fanout - 1 : i # 0 => m2[page][i] = mem[page][i]

LEMMA PageLinks ==
  ASSUME TypeOK, NEW live \in [0 .. 3 -> SUBSET Nat], NEW at, TablesInv(live, at),
         NEW page \in Frame \ Range(tables), page < max_addr, Up(page, 1) \in live[0],
         NEW w \in WordSet, NEW on \in SUBSET WordFlags, NEW off, NEW m2,
         \/ m2 = Relink(mem, page, w, EntryFor(page), on, off)
         \/ m2 = Unlink(mem, page, w, EntryFor(page), on, off)
  PROVE  PageLinked(m2, live, at, page, w, on, off)
<1> DEFINE q == at[0][Up(page, 1)]
           i == Index(page, 0)
<1>1. /\ mem \in Memory /\ max_addr \in Nat /\ Range(tables) \subseteq Frame
      /\ Tree(mem, pml4_table, Range(tables), live, at) /\ page \in Nat /\ page \in Frame
      /\ page \notin Range(tables)
  BY MemoryType, FrameNat DEF TypeOK, TablesInv
<1>2. \A l \in 0 .. 3 : \A r \in live[l] : at[l][r] \in Range(tables)
  BY <1>1 DEF Tree
<1>3. \A l, k \in 0 .. 3 : \A r \in live[l], s \in live[k] : at[l][r] = at[k][s] => l = k /\ r = s
  BY <1>1 DEF Tree
<1>4. q \in Range(tables) /\ q \in Frame /\ q # page /\ i \in 0 .. Fanout - 1 /\ EntryFor(page) = <<q, i>>
  <2>1. 0 \in 0 .. 3
    OBVIOUS
  <2>2. q \in Range(tables)
    BY <1>2, <2>1
  <2> QED BY <1>1, <2>2, EntryForIs, AddressIs
<1>5. page = (Fanout * Up(page, 1)) + i
  BY <1>1, AddressIs
<1> HIDE DEF i
<1>6. IsLinked(mem, m2, page, w, q, i, on, off)
  <2> HIDE DEF q
  <2> QED BY <1>1, <1>4, TwoWords
<1>7. /\ m2 \in Memory /\ m2[page][0] = w /\ m2[q][i] = Flags(mem[q][i], on, off)
      /\ \A r \in Frame : r # page /\ r # q => m2[r] = mem[r]
      /\ \A k \in 0 .. Fanout - 1 : /\ k # i => m2[q][k] = mem[q][k]
                                    /\ k # 0 => m2[page][k] = mem[page][k]
  BY <1>6 DEF IsLinked
<1>8. \A p \in Range(tables), k \in 0 .. Fanout - 1 : m2[p][k].frame = mem[p][k].frame
  <2>1. Flags(mem[q][i], on, off).frame = mem[q][i].frame
    <3>1. mem[q][i] \in WordSet
      BY <1>1, <1>4 DEF Memory
    <3>2. \A u \in WordSet : Flags(u, on, off).frame = u.frame
      BY DEF Flags, WordSet
    <3> QED BY <3>1, <3>2
  <2> HIDE DEF q
  <2> QED BY <1>1, <1>4, <1>7, <2>1
<1>9. \A l \in 1 .. 3 : \A r \in live[l] : m2[at[l][r]] = mem[at[l][r]]
  <2> SUFFICES ASSUME NEW l \in 1 .. 3, NEW r \in live[l] PROVE m2[at[l][r]] = mem[at[l][r]]
    OBVIOUS
  <2>1. l \in 0 .. 3 /\ l # 0 /\ 0 \in 0 .. 3
    OBVIOUS
  <2>2. at[l][r] # q /\ at[l][r] \in Range(tables)
    BY <1>2, <1>3, <2>1
  <2> QED BY <1>1, <1>7, <2>2
<1>10. \A p \in Range(tables) : (\A r \in live[0] : p # at[0][r]) => m2[p] = mem[p]
  BY <1>1, <1>7
<1>11. ASSUME NEW r \in live[0], NEW k \in 0 .. Fanout - 1
       PROVE  (Fanout * r) + k < max_addr \/ m2[at[0][r]][k] = mem[at[0][r]][k]
  <2>1. 0 \in 0 .. 3
    OBVIOUS
  <2>2. at[0][r] \in Range(tables)
    BY <1>2, <2>1
  <2>3. CASE at[0][r] = q
    <3>1. r = Up(page, 1)
      BY <1>3, <2>1, <2>3
    <3> QED BY <1>5, <1>7, <2>3, <3>1
  <2>4. CASE at[0][r] # q
    BY <1>1, <1>7, <2>2, <2>4
  <2> QED BY <2>3, <2>4
<1>12. ASSUME NEW v \in 0 .. max_addr - 1, Up(v, 1) \in live[0]
       PROVE  Leaf(m2, at, v) = IF v \in {page} THEN Flags(Leaf(mem, at, v), on, off) ELSE Leaf(mem, at, v)
  <2>1. v \in Nat
    BY <1>1
  <2>2. at[0][Up(v, 1)] \in Range(tables) /\ Index(v, 0) \in 0 .. Fanout - 1
    <3>1. 0 \in 0 .. 3
      OBVIOUS
    <3> QED BY <1>2, <1>12, <2>1, <3>1, AddressIs
  <2>3. CASE v = page
    BY <1>7, <2>3 DEF Leaf, i
  <2>4. CASE v # page
    <3>1. at[0][Up(v, 1)] # q \/ Index(v, 0) # i
      BY <1>1, <1>12, <2>1, <2>4, OneEntry DEF i
    <3>2. m2[at[0][Up(v, 1)]][Index(v, 0)] = mem[at[0][Up(v, 1)]][Index(v, 0)]
      <4> HIDE DEF q
      <4> QED BY <1>1, <1>7, <2>2, <3>1
    <3> QED BY <2>4, <3>2 DEF Leaf
  <2> QED BY <2>3, <2>4
<1>13. Flagged(mem, m2, max_addr, Range(tables), live, at, {page}, on, off)
  BY <1>8, <1>9, <1>10, <1>11, <1>12 DEF Flagged
<1>14. \A p \in Frame \ Range(tables) : p # page => m2[p] = mem[p]
  BY <1>4, <1>7
<1> QED BY <1>7, <1>13, <1>14 DEF PageLinked

\* Once our tables are in force, flags of memory's pages change without harm.
LEMMA FlaggedKeeps ==
  ASSUME Apart, TypeOK, CourseInv, pc \in {"reclaim", "run"}, pc' \in {"reclaim", "map_walk"},
         NEW live \in [0 .. 3 -> SUBSET Nat], NEW at, TablesInv(live, at),
         NEW vs, NEW on, NEW off,
         Flagged(mem, mem', max_addr, Range(tables), live, at, vs, on, off),
         UNCHANGED <<pml4_table, max_addr, tables, mapped>>,
         "NX" \notin off, \A v \in vs : v \in Code => "W" \notin on,
         NULL \notin vs
  PROVE  /\ Tree(mem', pml4_table', Range(tables'), live, at)
         /\ Leaves(mem', max_addr', mapped', live, at)
         /\ Orphans(mem', Range(tables'), live, at)
         /\ BuildInv(live)' /\ CoverInv(live)' /\ LargeInv(live, at)'
         /\ PermissionsInv(at)' /\ NullInv(at)'
<1>1. /\ Tree(mem', pml4_table', Range(tables'), live, at)
      /\ Leaves(mem', max_addr', mapped', live, at)
      /\ Orphans(mem', Range(tables'), live, at)
  BY FlaggedTables
<1>2. /\ pc \notin {"list", "tables", "permissions", "framebuffer", "framebuffer_walk"}
      /\ pc' \notin {"list", "tables", "permissions", "framebuffer", "framebuffer_walk"}
  OBVIOUS
<1>3. BuildInv(live)' /\ CoverInv(live)'
  BY <1>2 DEF BuildInv, CoverInv, TablesInv
<1>4. LargeInv(live, at)'
  <2> SUFFICES ASSUME NEW x \in LargeSlots
               PROVE  /\ x \div Fanout \in live[1]
                      /\ mem'[at[1][x \div Fanout]][x % Fanout] = LargeWord(x)
    BY DEF LargeInv
  <2>1. /\ x \div Fanout \in live[1]
        /\ mem[at[1][x \div Fanout]][x % Fanout] = LargeWord(x)
    BY <1>2 DEF TablesInv, LargeInv
  <2>2. 1 \in 1 .. 3
    OBVIOUS
  <2>3. mem'[at[1][x \div Fanout]] = mem[at[1][x \div Fanout]]
    BY <2>1, <2>2 DEF Flagged
  <2> QED BY <2>1, <2>3
<1>5. PermissionsInv(at)'
  <2> SUFFICES ASSUME NEW k \in DOMAIN MemoryMap, NEW v \in InDescriptor(MemoryMap[k])
               PROVE  IF IsCode(MemoryMap[k]) THEN "W" \notin Leaf(mem', at, v).flags
                      ELSE MemoryMap[k].type # "Conventional" => "NX" \in Leaf(mem', at, v).flags
    BY DEF PermissionsInv
  <2>1. KeepsProtection(mem', live, at)
    BY <1>2, FlaggedPermissions
  <2>2. /\ IsCode(MemoryMap[k]) /\ "W" \notin Leaf(mem, at, v).flags => "W" \notin Leaf(mem', at, v).flags
        /\ "NX" \in Leaf(mem, at, v).flags => "NX" \in Leaf(mem', at, v).flags
    BY <2>1 DEF KeepsProtection
  <2> QED BY <1>2, <2>2 DEF TablesInv, PermissionsInv
<1>6. NullInv(at)'
  <2>1. max_addr \in Nat \ {0} /\ NULL \in 0 .. max_addr - 1
    <3>1. max_addr \in Nat \ {0}
      BY MemoryIs
    <3> QED BY <3>1 DEF NULL
  <2>2. Up(NULL, 1) \in live[0]
    <3>1. \A l \in 0 .. 3 : Up(NULL, l + 1) \in live[l]
      BY <1>2, <2>1, LargeIs DEF TablesInv, CoverInv
    <3>2. 0 \in 0 .. 3 /\ 0 + 1 = 1
      OBVIOUS
    <3> QED BY <3>1, <3>2
  <2>3. Leaf(mem', at, NULL) = Leaf(mem, at, NULL)
    BY <2>1, <2>2 DEF Flagged
  <2> QED BY <1>2, <2>3 DEF TablesInv, NullInv
<1> QED BY <1>1, <1>3, <1>4, <1>5, <1>6

\* The pages of memory have entries of their own.
LEMMA InTables ==
  ASSUME Apart, TypeOK, CourseInv, pc \notin {"list", "tables", "permissions"},
         NEW live, NEW at, TablesInv(live, at), NEW p \in Described
  PROVE  /\ p \in Nat /\ p < max_addr /\ p \in 0 .. max_addr - 1 /\ Up(p, 1) \notin LargeSlots
         /\ \A l \in 0 .. 3 : Up(p, l + 1) \in live[l]
         /\ Up(p, 1) \in live[0]
<1>1. PICK k \in DOMAIN MemoryMap : p \in InDescriptor(MemoryMap[k])
  BY PagesAre DEF Described
<1>2. p \in 0 .. max_addr - 1 /\ max_addr \in Nat
  BY <1>1, MemoryIs
<1>3. Up(p, 1) \notin LargeSlots
  BY <1>1, LargeIs
<1>4. \A l \in 0 .. 3 : Up(p, l + 1) \in live[l]
  BY <1>2, <1>3 DEF TablesInv, CoverInv
<1>5. 0 \in 0 .. 3 /\ 0 + 1 = 1
  OBVIOUS
<1> QED BY <1>2, <1>3, <1>4, <1>5

\* The next page of a loop over descriptors.
LEMMA NextPageIs ==
  ASSUME NEW type, NextPage(type), TypeOK, n \in DOMAIN MemoryMap, j < MemoryMap[n].pages
  PROVE  /\ n' \in Nat /\ j' \in Nat /\ n' >= 1
         /\ n' <= Len(MemoryMap) => j' < MemoryMap[n'].pages
         /\ n' > Len(MemoryMap) => j' = 0
<1>1. n \in Nat /\ j \in Nat
  BY DEF TypeOK
<1>2. CASE MemoryMap[n].type = type /\ j + 1 < MemoryMap[n].pages
  BY <1>1, <1>2, MapIs DEF NextPage
<1>3. CASE ~ (MemoryMap[n].type = type /\ j + 1 < MemoryMap[n].pages)
  <2>1. j' = 0 /\ n' = n + 1
    BY <1>3 DEF NextPage
  <2>2. n' <= Len(MemoryMap) => n' \in DOMAIN MemoryMap
    BY <1>1, <2>1, MapIs
  <2> QED BY <1>1, <2>1, <2>2, MapIs
<1> QED BY <1>2, <1>3

LEMMA ReclaimPageKeeps ==
  ASSUME Apart, TypeOK, CourseInv, ListInv, ReclaimPage,
         NEW live \in [0 .. 3 -> SUBSET Nat], NEW at, TablesInv(live, at)
  PROVE  TypeOK' /\ CourseInv' /\ ListInv' /\ TablesInv(live, at)'
<1> DEFINE d == MemoryMap[n]
           page == d.start + j
           w == Word(first_free_page, {})
           boot == "BootServicesCode"
<1>1. /\ n \in DOMAIN MemoryMap /\ j \in Nat /\ n \in Nat /\ j < d.pages /\ pc = "reclaim" /\ pc' = "reclaim"
      /\ UNCHANGED <<pml4_table, max_addr, cr3, cpu, job, size, tables, mapped>>
      /\ NextPage(boot) /\ mapped = {}
  <2>1. n \in Nat /\ j \in Nat
    BY DEF TypeOK
  <2>2. n >= 1 /\ j < d.pages
    BY DEF ReclaimPage, At, CourseInv, LoopPcs
  <2>3. n \in 1 .. Len(MemoryMap)
    BY <2>1, <2>2, MapIs DEF ReclaimPage, At
  <2> QED BY <2>1, <2>2, <2>3, MapIs DEF ReclaimPage, At, CourseInv
<1>2. /\ n' \in Nat /\ j' \in Nat /\ n' >= 1
      /\ n' <= Len(MemoryMap) => j' < MemoryMap[n'].pages
      /\ n' > Len(MemoryMap) => j' = 0
  BY <1>1, NextPageIs
<1>3. /\ d.type = boot =>
           /\ Walked(boot, n', j') = Walked(boot, n, j) \cup {page}
           /\ page \notin Walked(boot, n, j)
      /\ d.type # boot => Walked(boot, n', j') = Walked(boot, n, j)
      /\ page \in InDescriptor(d)
  <2>1. IF d.type = boot /\ j + 1 < d.pages THEN j' = j + 1 /\ n' = n ELSE j' = 0 /\ n' = n + 1
    BY <1>1 DEF NextPage
  <2> HIDE DEF boot
  <2> QED BY <1>1, <2>1, WalkedStep
<1>4. /\ Managed = Conventional \cup (Walked(boot, n, j) \ {NULL})
      /\ Managed' = Conventional \cup (Walked(boot, n', j') \ {NULL})
  <2>1. Managed = Conventional \cup (Walked(boot, n, j) \ {NULL})
    BY <1>1, ManagedIs
  <2>2. Managed' = Conventional \cup (Walked(boot, n', j') \ {NULL})
    BY <1>1 DEF Managed, Passed, Walked, Conventional, PagesOf
  <2> QED BY <2>1, <2>2
<1>5. DataPages = {} /\ DataPages' = {}
  BY <1>1 DEF DataPages
<1>6. CourseInv'
  BY <1>1, <1>2 DEF CourseInv, LoopPcs, WalkPcs
<1>7. mem \in Memory /\ first_free_page \in Frame /\ w \in WordSet
      /\ w.frame = first_free_page /\ w.flags = {} /\ Range(tables) \subseteq Frame
  BY MemoryType, FrameNat, WordIs
<1>8. WalkInv(live, at)' /\ MappedInv(live, at)'
  BY <1>1 DEF WalkInv, WalkPcs, MappedInv
<1>9. CASE d.type = boot /\ page # NULL
  <2>1. /\ mem' = Relink(mem, page, w, EntryFor(page), {}, {"P"})
        /\ first_free_page' = page /\ stale' = stale \cup {page}
    BY <1>9 DEF ReclaimPage, Relink
  <2> HIDE DEF page, w
  <2>2. page \in Described /\ page \in Frame /\ page \in BootCode /\ page \notin Conventional
    BY <1>1, <1>3, <1>9, PagesApart
  <2>3. page \notin Managed /\ Managed' = Managed \cup {page}
    BY <1>3, <1>4, <1>9, <2>2
  <2>4. page \notin Range(tables) /\ page \notin FreePages
        /\ (\A i \in 0 .. Fanout - 1 : "P" \notin mem[page][i].flags)
        /\ Range(tables) \subseteq Managed
        /\ Links(mem, first_free_page, FreePages)
    BY <2>2, <2>3 DEF ListInv, FreePages
  <2>5. page < max_addr /\ Up(page, 1) \in live[0]
    BY <1>1, <2>2, InTables
  <2> DEFINE on == {}
             off == {"P"}
             vs == {page}
  <2>6. on \in SUBSET WordFlags /\ "NX" \notin off /\ (\A v \in vs : v \in Code => "W" \notin on)
        /\ NULL \notin vs
    BY <1>9
  <2>7. mem' = Relink(mem, page, w, EntryFor(page), on, off)
    BY <2>1
  <2>7a. \A m2 : PageLinked(m2, live, at, page, w, on, off) =>
                   Flagged(mem, m2, max_addr, Range(tables), live, at, vs, on, off)
    BY DEF PageLinked
  <2> HIDE DEF on, off, vs
  <2>8. PageLinked(mem', live, at, page, w, on, off)
    BY <1>7, <2>2, <2>4, <2>5, <2>6, <2>7, PageLinks
  <2>9. Flagged(mem, mem', max_addr, Range(tables), live, at, vs, on, off)
    BY <2>7a, <2>8
  <2>10. /\ mem' \in Memory /\ mem'[page][0] = w
         /\ \A p \in Frame \ Range(tables) : p # page => mem'[p] = mem[p]
         /\ \A i \in 0 .. Fanout - 1 : i # 0 => mem'[page][i] = mem[page][i]
    BY <2>8 DEF PageLinked
  <2>11. TypeOK'
    <3>1. first_free_page' \in Frame /\ stale' \subseteq Frame /\ tables' \in Seq(Frame) /\ {n', j'} \subseteq Nat
          /\ job' \in Jobs /\ size' \in [Regions -> 0 .. MaxMapped] /\ \A m \in mapped' : m \in Nat \X Frame
      BY <1>1, <1>2, <2>1, <2>2 DEF TypeOK, Jobs
    <3> QED BY <1>1, <2>10, <3>1, TypeStep
  <2>12. FreePages' = FreePages \cup {page}
    BY <1>1, <1>5, <2>3, <2>4 DEF FreePages
  <2>13. NULL \notin FreePages /\ FreePages \subseteq Frame
    <3>1. Managed \subseteq Frame /\ NULL \notin Managed
      BY <1>4, PagesApart DEF Walked
    <3> QED BY <3>1 DEF FreePages
  <2>14. Links(mem', page, FreePages \cup {page})
    <3>1. \A p \in FreePages : mem'[p][0].frame = mem[p][0].frame
      <4>1. \A p \in FreePages : p \in Frame \ Range(tables) /\ p # page
        BY <2>4, <2>13 DEF FreePages
      <4> QED BY <2>10, <4>1
    <3>2. mem'[page][0].frame = first_free_page
      BY <1>7, <2>10
    <3> QED BY <1>9, <2>4, <2>13, <3>1, <3>2, LinksPush
  <2>15. ListInv'
    <3>1. \A p \in Frame \ Range(tables) : \A i \in 0 .. Fanout - 1 : "P" \notin mem'[p][i].flags
      <4> SUFFICES ASSUME NEW p \in Frame \ Range(tables), NEW i \in 0 .. Fanout - 1
                   PROVE  "P" \notin mem'[p][i].flags
        OBVIOUS
      <4>1. CASE p # page
        BY <2>10, <4>1 DEF ListInv
      <4>2. CASE p = page
        BY <1>7, <2>4, <2>10, <4>2
      <4> QED BY <4>1, <4>2
    <3>2. IsInjective(tables)'
      BY <1>1 DEF ListInv, IsInjective
    <3> QED BY <1>1, <1>5, <2>1, <2>3, <2>4, <2>12, <2>14, <3>1, <3>2 DEF ListInv
  <2>16. /\ Tree(mem', pml4_table', Range(tables'), live, at)
         /\ Leaves(mem', max_addr', mapped', live, at)
         /\ Orphans(mem', Range(tables'), live, at)
         /\ BuildInv(live)' /\ CoverInv(live)' /\ LargeInv(live, at)'
         /\ PermissionsInv(at)' /\ NullInv(at)'
    BY <1>1, <2>6, <2>9, FlaggedKeeps
  <2> QED BY <1>6, <1>8, <2>11, <2>15, <2>16 DEF TablesInv
<1>10. CASE ~ (d.type = boot /\ page # NULL)
  <2>1. UNCHANGED <<mem, stale, first_free_page>>
    BY <1>10 DEF ReclaimPage
  <2>2. Managed' = Managed
    BY <1>3, <1>4, <1>10
  <2>3. ListInv'
    BY <1>1, <1>5, <2>1, <2>2, ListKept
  <2>4. TypeOK'
    <3>1. stale' \subseteq Frame /\ {n', j'} \subseteq Nat
          /\ job' \in [va : Nat, page : Frame, cur : Frame, l : 0 .. 3, level : 0 .. 1]
      BY <1>1, <1>2, <2>1 DEF TypeOK
    <3>2. cr3' \in BOOLEAN /\ cpu' \in {"run", "oom", "pf"}
      BY <1>1, Zenon DEF TypeOK
    <3> QED BY <1>1, <2>1, <3>1, <3>2, TypeKept
  <2>5. Tree(mem', pml4_table', Range(tables'), live, at) /\ Leaves(mem', max_addr', mapped', live, at)
        /\ Orphans(mem', Range(tables'), live, at)
    BY <1>1, <2>1 DEF TablesInv
  <2>6. BuildInv(live)' /\ CoverInv(live)' /\ LargeInv(live, at)'
    BY <1>1, <2>1 DEF TablesInv, BuildInv, CoverInv, LargeInv
  <2>7. PermissionsInv(at)' /\ NullInv(at)'
    BY <1>1, <2>1 DEF TablesInv, PermissionsInv, NullInv, Leaf
  <2> QED BY <1>6, <1>8, <2>3, <2>4, <2>5, <2>6, <2>7 DEF TablesInv
<1> QED BY <1>9, <1>10

LEMMA AllocatePageKeeps ==
  ASSUME Apart, TypeOK, CourseInv, ListInv, NEW r \in Regions, AllocatePage(r),
         NEW live \in [0 .. 3 -> SUBSET Nat], NEW at, TablesInv(live, at)
  PROVE  TypeOK' /\ CourseInv' /\ ListInv' /\ TablesInv(live, at)'
<1> DEFINE ret == first_free_page
           w == Word(NULL, {})
           va == RegionBase[r] + size[r]
           walk == [va |-> va, page |-> ret, cur |-> pml4_table, l |-> 3, level |-> 0]
           on == {"P", "W", "NX"}
           off == {}
           vs == {ret}
<1>1. /\ pc = "run" /\ pc' = "map_walk" /\ size[r] < MaxMapped /\ ret # NULL
      /\ mem' = Unlink(mem, ret, w, EntryFor(ret), on, off)
      /\ stale' = stale \ {ret} /\ first_free_page' = mem[ret][0].frame
      /\ job' = walk /\ size' = [size EXCEPT ![r] = @ + 1]
      /\ UNCHANGED <<pml4_table, max_addr, cr3, cpu, n, j, tables, mapped>>
  BY DEF AllocatePage, StartWalk, Unlink
<1>2. /\ mem \in Memory /\ w \in WordSet /\ w.frame = NULL /\ w.flags = {}
      /\ Range(tables) \subseteq Frame /\ pml4_table \in Frame /\ NULL \in Frame
      /\ on \in SUBSET WordFlags /\ "NX" \notin off
  <2>1. NULL \in Nat /\ {} \in SUBSET WordFlags /\ {"P", "W", "NX"} \in SUBSET WordFlags
    BY DEF NULL, WordFlags
  <2> QED BY <2>1, MemoryType, WordIs, PagesAre
<1>2a. \A v : v \in vs <=> v = ret
  OBVIOUS
<1>2b. \A m2 : PageLinked(m2, live, at, ret, w, on, off) =>
                 Flagged(mem, m2, max_addr, Range(tables), live, at, vs, on, off)
  BY DEF PageLinked
<1>2c. /\ walk.va = va /\ walk.page = ret /\ walk.cur = pml4_table /\ walk.l = 3 /\ walk.level = 0
       /\ va \in Nat /\ ret \in Frame => walk \in Jobs
  BY <1>2 DEF Jobs
<1> HIDE DEF ret, w, on, off, vs, walk
<1>3. Managed = Conventional \cup (BootCode \ {NULL}) /\ Managed' = Managed
  <2>1. Managed = Conventional \cup (BootCode \ {NULL})
    BY <1>1, ManagedIs
  <2>2. Managed' = Conventional \cup (BootCode \ {NULL})
    BY <1>1 DEF Managed, Passed, Conventional, BootCode, PagesOf
  <2> QED BY <2>1, <2>2
<1>4. /\ ret \in FreePages /\ ret \in Managed /\ ret \notin Range(tables) /\ ret \notin DataPages
      /\ \A i \in 0 .. Fanout - 1 : "P" \notin mem[ret][i].flags
  BY <1>1, HeadIs DEF ret
<1>5. ret \in Frame /\ ret \in Described /\ ret \notin Code
  <2>1. ret \in Described /\ ret \in Frame /\ ret \in Conventional \cup BootCode
    BY <1>3, <1>4, PagesApart
  <2>2. ret \notin Code
    <3> SUFFICES ASSUME NEW k \in DOMAIN MemoryMap, MemoryMap[k].type \in CodeTypes,
                        ret \in InDescriptor(MemoryMap[k])
                 PROVE  FALSE
      BY PagesAre DEF Code
    <3>1. MemoryMap[k].type # "Conventional" /\ MemoryMap[k].type # "BootServicesCode"
      BY DEF CodeTypes
    <3> QED BY <2>1, <3>1, PagesApart
  <2> QED BY <2>1, <2>2
<1>6. ret < max_addr /\ Up(ret, 1) \in live[0]
  BY <1>1, <1>5, InTables
<1>7. PageLinked(mem', live, at, ret, w, on, off)
  BY <1>1, <1>2, <1>4, <1>5, <1>6, PageLinks
<1>8. Flagged(mem, mem', max_addr, Range(tables), live, at, vs, on, off)
  BY <1>2b, <1>7
<1>9. /\ mem' \in Memory /\ mem'[ret][0] = w
      /\ \A p \in Frame \ Range(tables) : p # ret => mem'[p] = mem[p]
      /\ \A i \in 0 .. Fanout - 1 : i # 0 => mem'[ret][i] = mem[ret][i]
  BY <1>7 DEF PageLinked
<1>10. /\ Tree(mem', pml4_table', Range(tables'), live, at)
       /\ Leaves(mem', max_addr', mapped', live, at)
       /\ Orphans(mem', Range(tables'), live, at)
       /\ BuildInv(live)' /\ CoverInv(live)' /\ LargeInv(live, at)'
       /\ PermissionsInv(at)' /\ NullInv(at)'
  <2>1. (\A v \in vs : v \in Code => "W" \notin on) /\ NULL \notin vs
    BY <1>1, <1>2a, <1>5
  <2> QED BY <1>1, <1>2, <1>8, <2>1, FlaggedKeeps
<1>11. /\ size[r] \in Nat /\ MaxMapped \in Nat /\ RegionBase[r] \in Nat /\ size \in [Regions -> 0 .. MaxMapped]
       /\ va \in Nat /\ size[r] \in 0 .. MaxMapped - 1
  <2>1. size \in [Regions -> 0 .. MaxMapped] /\ MaxMapped \in Nat /\ RegionBase[r] \in Nat
    BY PagingAssumption DEF TypeOK
  <2> QED BY <1>1, <2>1
<1>12. size' \in [Regions -> 0 .. MaxMapped] /\ size'[r] = size[r] + 1
       /\ \A s \in Regions : s # r => size'[s] = size[s]
  BY <1>1, <1>11
<1>13. Links(mem, ret, FreePages) /\ NULL \notin FreePages /\ FreePages \subseteq Frame
  <2>1. Links(mem, ret, FreePages)
    BY DEF ListInv, ret
  <2>2. Managed \subseteq Frame /\ NULL \notin Managed
    BY <1>3, PagesApart
  <2> QED BY <2>1, <2>2 DEF FreePages
<1>14. first_free_page' \in Frame
  BY <1>1, <1>2, <1>4, <1>13 DEF Links
<1>15. TypeOK'
  <2>1. stale' \subseteq Frame /\ tables' \in Seq(Frame) /\ {n', j'} \subseteq Nat
        /\ \A m \in mapped' : m \in Nat \X Frame
    BY <1>1 DEF TypeOK
  <2>2. job' \in Jobs
    BY <1>1, <1>2c, <1>5, <1>11
  <2> QED BY <1>1, <1>9, <1>12, <1>14, <2>1, <2>2, TypeStep
<1>16. CourseInv'
  BY <1>1 DEF CourseInv, LoopPcs, WalkPcs
<1>17. DataPages' = DataPages \cup {ret}
  <2>1. DataPages = {m[2] : m \in mapped} /\ DataPages' = {m[2] : m \in mapped} \cup {job'.page}
    BY <1>1 DEF DataPages
  <2>2. job'.page = ret
    BY <1>1, <1>2c
  <2> QED BY <2>1, <2>2
<1>18. FreePages' = FreePages \ {ret}
  BY <1>1, <1>3, <1>17 DEF FreePages
<1>19. ListInv'
  <2>1. Links(mem', first_free_page', FreePages')
    <3>1. \A p \in FreePages \ {ret} : mem'[p][0].frame = mem[p][0].frame
      <4>1. \A p \in FreePages \ {ret} : p \in Frame \ Range(tables) /\ p # ret
        BY <1>13 DEF FreePages
      <4> QED BY <1>9, <4>1
    <3>2. Links(mem', mem[ret][0].frame, FreePages \ {ret})
      BY <1>1, <1>13, <3>1, LinksPop
    <3> QED BY <1>1, <1>18, <3>2
  <2>2. \A p \in Frame \ Range(tables) : \A i \in 0 .. Fanout - 1 : "P" \notin mem'[p][i].flags
    <3> SUFFICES ASSUME NEW p \in Frame \ Range(tables), NEW i \in 0 .. Fanout - 1
                 PROVE  "P" \notin mem'[p][i].flags
      OBVIOUS
    <3>1. CASE p # ret
      BY <1>9, <3>1 DEF ListInv
    <3>2. CASE p = ret
      BY <1>2, <1>4, <1>9, <3>2
    <3> QED BY <3>1, <3>2
  <2>3. IsInjective(tables)'
    BY <1>1 DEF ListInv, IsInjective
  <2>4. Range(tables) \cup DataPages \subseteq Managed /\ Range(tables) \cap DataPages = {}
    BY DEF ListInv
  <2>5. Range(tables') = Range(tables)
    BY <1>1
  <2>6. (Range(tables) \cup DataPages \subseteq Managed)' /\ (Range(tables) \cap DataPages = {})'
    BY <1>3, <1>4, <1>17, <2>4, <2>5
  <2> QED BY <1>1, <2>1, <2>2, <2>3, <2>6 DEF ListInv
<1>20. WalkInv(live, at)'
  <2>1. 0 \in live[3] /\ at[3][0] = pml4_table
    BY <1>1 DEF TablesInv, CoverInv, Tree
  <2>2. Up(va, 4) = 0 /\ va \in RegionPages(r)
    BY <1>1, <1>11, RegionsAbove
  <2>3. 3 + 1 = 4
    OBVIOUS
  <2>4. job'.va = va /\ job'.cur = pml4_table /\ job'.l = 3 /\ job'.level = 0
    BY <1>1, <1>2c
  <2>5. job'.level <= job'.l /\ Up(job'.va, job'.l + 1) \in live[job'.l]
        /\ job'.cur = at[job'.l][Up(job'.va, job'.l + 1)]
    BY <2>1, <2>2, <2>3, <2>4
  <2>6. size'[r] > 0 /\ va = RegionBase[r] + size'[r] - 1
    BY <1>11, <1>12
  <2>7. ASSUME NEW e \in mapped PROVE e[1] # va
    <3>1. PICK s \in Regions, k \in Nat : k < size[s] /\ e[1] = RegionBase[s] + k
      BY DEF TablesInv, MappedInv
    <3>2. CASE s = r
      BY <1>11, <3>1, <3>2
    <3>3. CASE s # r
      <4>1. size[s] \in 0 .. MaxMapped
        BY <1>11
      <4>2. k \in 0 .. MaxMapped - 1
        BY <1>11, <3>1, <4>1
      <4>3. e[1] \in RegionPages(s)
        BY <1>1, <3>1, <4>2, RegionsAbove
      <4>4. RegionPages(r) \cap RegionPages(s) = {}
        BY <3>3 DEF Apart
      <4> QED BY <2>2, <4>3, <4>4
    <3> QED BY <3>2, <3>3
  <2> HIDE DEF va
  <2>8. /\ job'.level = 0
        /\ \E s \in Regions : size'[s] > 0 /\ job'.va = RegionBase[s] + size'[s] - 1
        /\ \A e \in mapped' : e[1] # job'.va
    BY <1>1, <2>4, <2>6, <2>7
  <2> QED BY <1>1, <2>5, <2>8 DEF WalkInv
<1>21. MappedInv(live, at)'
  <2> SUFFICES ASSUME NEW e \in mapped
               PROVE  /\ \E s \in Regions, k \in Nat : k < size'[s] /\ e[1] = RegionBase[s] + k
                      /\ \A l \in 0 .. 3 : Up(e[1], l + 1) \in live[l]
                      /\ Leaf(mem', at, e[1]).frame = e[2] /\ "P" \in Leaf(mem', at, e[1]).flags
    BY <1>1 DEF MappedInv
  <2>1. /\ \E s \in Regions, k \in Nat : k < size[s] /\ e[1] = RegionBase[s] + k
        /\ \A l \in 0 .. 3 : Up(e[1], l + 1) \in live[l]
        /\ Leaf(mem, at, e[1]).frame = e[2] /\ "P" \in Leaf(mem, at, e[1]).flags
    BY DEF TablesInv, MappedInv
  <2>2. PICK s \in Regions, k \in Nat : k < size[s] /\ e[1] = RegionBase[s] + k
    BY <2>1
  <2>3. k < size'[s]
    BY <1>11, <1>12, <2>2
  <2>4. Leaf(mem', at, e[1]) = Leaf(mem, at, e[1])
    BY <1>1, <1>8, FlaggedMapped
  <2> QED BY <2>1, <2>2, <2>3, <2>4
<1> QED BY <1>10, <1>15, <1>16, <1>19, <1>20, <1>21 DEF TablesInv

-----------------------------------------------------------------------------
(* create_memory_entry_for and map_page.                                   *)

\* A walk is at the table of its level on the way to its address.
LEMMA WalkIs ==
  ASSUME Apart, TypeOK, CourseInv, pc \in WalkPcs, NEW live \in [0 .. 3 -> SUBSET Nat], NEW at,
         TablesInv(live, at)
  PROVE  /\ job.va \in Nat /\ job.l \in 0 .. 3 /\ job.level \in 0 .. 1 /\ job.level <= job.l
         /\ job.page \in Frame /\ n \in Nat /\ max_addr \in Nat
         /\ Up(job.va, job.l + 1) \in live[job.l]
         /\ job.cur = at[job.l][Up(job.va, job.l + 1)]
         /\ job.cur \in Range(tables) /\ job.cur \in Frame
         /\ pc = "framebuffer_walk" =>
              /\ job.level = 1 /\ Up(job.va, 1) \in LargeSlots /\ job.va = Fanout * Up(job.va, 1)
              /\ job.va = FrameBuffer.base + n /\ mapped = {}
         /\ pc = "map_walk" =>
              /\ job.level = 0 /\ job.va >= max_addr /\ Fanout * Up(job.va, 1) >= max_addr
              /\ Up(job.va, 1) \notin LargeSlots
<1>1. /\ job.va \in Nat /\ job.l \in 0 .. 3 /\ job.level \in 0 .. 1 /\ job.page \in Frame
      /\ n \in Nat /\ max_addr \in Nat /\ size \in [Regions -> 0 .. MaxMapped]
  BY DEF TypeOK
<1>2. /\ job.level <= job.l
      /\ Up(job.va, job.l + 1) \in live[job.l]
      /\ job.cur = at[job.l][Up(job.va, job.l + 1)]
      /\ pc = "framebuffer_walk" =>
           job.level = 1 /\ job.va = FrameBuffer.base + n /\ n <= FrameBuffer.size
      /\ pc = "map_walk" =>
           /\ job.level = 0
           /\ \E r \in Regions : size[r] > 0 /\ job.va = RegionBase[r] + size[r] - 1
  BY DEF TablesInv, WalkInv
<1>3. job.cur \in Range(tables) /\ job.cur \in Frame
  <2>1. job.cur \in Range(tables)
    <3>1. \A l \in 0 .. 3 : \A q \in live[l] : at[l][q] \in Range(tables)
      BY DEF TablesInv, Tree
    <3> QED BY <1>1, <1>2, <3>1
  <2> QED BY <2>1, MemoryType
<1>4. ASSUME pc = "framebuffer_walk"
      PROVE  Up(job.va, 1) \in LargeSlots /\ job.va = Fanout * Up(job.va, 1) /\ mapped = {}
  <2> DEFINE b == FrameBuffer.base \div Fanout
             c == FrameBuffer.size \div Fanout
             k == n \div Fanout
  <2>1. /\ FrameBuffer.base \in Nat /\ FrameBuffer.size \in Nat /\ FrameBuffer.base % Fanout = 0
        /\ n % Fanout = 0 /\ n <= FrameBuffer.size /\ job.va = FrameBuffer.base + n /\ mapped = {}
    BY <1>2, <1>4, FrameBufferIs DEF Apart, CourseInv
  <2>2. b \in Nat /\ c \in Nat /\ k \in Nat /\ k <= c /\ Fanout * b \in Nat /\ Fanout * k \in Nat
        /\ FrameBuffer.base = Fanout * b /\ n = Fanout * k
    <3>1. b \in Nat /\ FrameBuffer.base = (Fanout * b) + 0 /\ c \in Nat
      BY <2>1, DivMod
    <3>2. k \in Nat /\ n = (Fanout * k) + 0
      BY <1>1, <2>1, DivMod
    <3>3. k <= c
      BY <1>1, <2>1, DivMonotone
    <3> HIDE DEF b, c, k
    <3>4. Fanout * b \in Nat /\ Fanout * k \in Nat
      BY <3>1, <3>2, FanoutType
    <3> QED BY <3>1, <3>2, <3>3, <3>4
  <2>3. LargeSlots = b .. b + c
    BY DEF LargeSlots
  <2> HIDE DEF b, c, k
  <2>4. Fanout * (b + k) = (Fanout * b) + (Fanout * k) /\ b + k \in Nat
    BY <2>2, FanoutType
  <2>5. job.va = (Fanout * (b + k)) + 0 /\ 0 \in 0 .. Fanout - 1
    BY <2>1, <2>2, <2>4, FanoutType
  <2>6. Up(job.va, 1) = b + k
    BY <1>1, <2>4, <2>5, AddressIs
  <2> QED BY <2>1, <2>2, <2>3, <2>4, <2>6
<1>5. ASSUME pc = "map_walk"
      PROVE  job.va >= max_addr /\ Fanout * Up(job.va, 1) >= max_addr /\ Up(job.va, 1) \notin LargeSlots
  <2>1. PICK r \in Regions : size[r] > 0 /\ job.va = RegionBase[r] + size[r] - 1
    BY <1>2, <1>5
  <2>2. size[r] \in 0 .. MaxMapped /\ MaxMapped \in Nat /\ RegionBase[r] \in Nat
    BY <1>1, PagingAssumption
  <2>3. size[r] - 1 \in 0 .. MaxMapped - 1 /\ job.va = RegionBase[r] + (size[r] - 1)
    BY <2>1, <2>2
  <2> QED BY <1>5, <2>3, RegionsAbove
<1> QED BY <1>1, <1>2, <1>3, <1>4, <1>5

\* What a walk leaves alone: tables of other places.
LEMMA Others ==
  ASSUME NEW m, NEW root, NEW pool, NEW live, NEW at, Tree(m, root, pool, live, at),
         NEW l \in 0 .. 3, NEW q \in live[l], NEW k \in 0 .. 3, NEW r \in live[k],
         k # l \/ r # q
  PROVE  at[k][r] # at[l][q] /\ at[k][r] \in pool
BY DEF Tree

LEMMA SetFrameBufferEntryKeeps ==
  ASSUME Apart, TypeOK, CourseInv, ListInv, SetFrameBufferEntry,
         NEW live \in [0 .. 3 -> SUBSET Nat], NEW at, TablesInv(live, at)
  PROVE  /\ TypeOK' /\ CourseInv' /\ ListInv'
         /\ \E live2 \in [0 .. 3 -> SUBSET Nat] : TablesInv(live2, at)'
<1> DEFINE x == Up(job.va, 1)
           cur == job.cur
           w == Word(job.va, {"P", "W", "PS"})
<1>1. /\ pc = "framebuffer_walk" /\ pc' = "framebuffer" /\ job.l = job.level
      /\ mem' = [mem EXCEPT ![cur][Index(job.va, 1)] = w] /\ n' = n + Fanout
      /\ UNCHANGED <<first_free_page, pml4_table, max_addr, cr3, stale, cpu,
                     j, job, size, tables, mapped>>
  BY DEF SetFrameBufferEntry
<1>2. /\ job.va \in Nat /\ job.l = 1 /\ Up(job.va, 2) \in live[1] /\ cur = at[1][Up(job.va, 2)]
      /\ cur \in Range(tables) /\ cur \in Frame /\ n \in Nat /\ max_addr \in Nat
      /\ x \in LargeSlots /\ job.va = Fanout * x /\ job.va = FrameBuffer.base + n /\ mapped = {}
  <2>1. pc \in WalkPcs
    BY <1>1 DEF WalkPcs
  <2>2. 1 + 1 = 2
    OBVIOUS
  <2> QED BY <1>1, <2>1, <2>2, WalkIs
<1>3. /\ x \in Nat /\ x \div Fanout = Up(job.va, 2) /\ x % Fanout = Index(job.va, 1)
      /\ x % Fanout \in 0 .. Fanout - 1
  <2>1. Up(job.va, 1 + 1) = Up(job.va, 1) \div Fanout /\ 1 + 1 = 2
    BY <1>2, UpIs
  <2>2. x \in Nat
    BY <1>2, LargeSlotsType
  <2> QED BY <2>1, <2>2, DivMod DEF Index
<1>4. w = LargeWord(x) /\ w \in WordSet
  <2>1. w = LargeWord(x)
    BY <1>2 DEF LargeWord
  <2>2. {"P", "W", "PS"} \in SUBSET WordFlags
    BY DEF WordFlags
  <2> QED BY <1>2, <2>1, <2>2, WordIs
<1>4a. mem \in Memory /\ Range(tables) \subseteq Frame /\ Tree(mem, pml4_table, Range(tables), live, at)
  BY MemoryType DEF TablesInv
<1>4b. mem' = Put(mem, cur, x % Fanout, w)
  BY <1>1, <1>3 DEF Put
<1> HIDE DEF x, w, cur
<1>5. IsPut(mem, mem', cur, x % Fanout, w)
  BY <1>2, <1>3, <1>4, <1>4a, <1>4b, PutIs
<1>6. /\ mem' \in Memory /\ mem'[cur][x % Fanout] = w
      /\ \A p \in Frame, i \in 0 .. Fanout - 1 : p # cur \/ i # x % Fanout => mem'[p][i] = mem[p][i]
      /\ \A p \in Frame : p # cur => mem'[p] = mem[p]
  BY <1>5 DEF IsPut
<1>7. PICK live2 \in [0 .. 3 -> SUBSET Nat] : live2 = LessLive(live, x)
  BY DEF LessLive
<1>8. /\ \A k \in 1 .. 3 : live2[k] = live[k]
      /\ live2[0] = live[0] \ {x}
  BY <1>7 DEF LessLive
<1>9. Tree(mem', pml4_table', Range(tables'), live2, at)
  <2>1. mem'[at[1][x \div Fanout]][x % Fanout] = LargeWord(x)
    BY <1>2, <1>3, <1>4, <1>6
  <2>2. \A t \in Range(tables), i \in 0 .. Fanout - 1 :
          t # at[1][x \div Fanout] \/ i # x % Fanout => mem'[t][i] = mem[t][i]
    BY <1>2, <1>3, <1>4a, <1>6
  <2>3. Tree(mem', pml4_table, Range(tables), live2, at)
    BY <1>2, <1>3, <1>4a, <1>7, <2>1, <2>2, TreeLarge
  <2> QED BY <1>1, <2>3
<1>10. \A r \in live[0] : at[0][r] # cur /\ at[0][r] \in Range(tables) /\ mem'[at[0][r]] = mem[at[0][r]]
  <2> SUFFICES ASSUME NEW r \in live[0]
               PROVE  at[0][r] # cur /\ at[0][r] \in Range(tables)
    BY <1>4a, <1>6
  <2>1. 0 \in 0 .. 3 /\ 1 \in 0 .. 3 /\ 0 # 1
    OBVIOUS
  <2>2. Up(job.va, 2) \in live[1] /\ cur = at[1][Up(job.va, 2)]
    BY <1>2
  <2> QED BY <1>4a, <2>1, <2>2, Others
<1>11. Leaves(mem', max_addr', mapped', live2, at)
  <2>1. Leaves(mem, max_addr, mapped, live, at)
    BY DEF TablesInv
  <2> QED BY <1>1, <1>8, <1>10, <2>1 DEF Leaves
<1>12. Orphans(mem', Range(tables'), live2, at)
  <2> SUFFICES ASSUME NEW t \in Range(tables), \A l \in 0 .. 3 : \A r \in live2[l] : t # at[l][r],
                      NEW i \in 0 .. Fanout - 1, "P" \in mem'[t][i].flags
               PROVE  mem'[t][i].frame \notin Described
    BY <1>1 DEF Orphans
  <2>1. t # cur
    <3>1. 1 \in 0 .. 3 /\ 1 \in 1 .. 3
      OBVIOUS
    <3> QED BY <1>2, <1>8, <3>1
  <2>2. mem'[t] = mem[t]
    BY <1>4a, <1>6, <2>1
  <2>3. CASE x \in live[0] /\ t = at[0][x]
    <3>1. (Fanout * x) + i \in Nat /\ Up((Fanout * x) + i, 1) = x
      <4>1. (Fanout * x) + i \in Nat
        BY <1>3, PlaceIs
      <4> QED BY <1>3, <4>1, AddressIs
    <3>2. (Fanout * x) + i \notin Described
      BY <1>2, <3>1, LargeIs, PagesAre DEF Described
    <3>3. Leaves(mem, max_addr, mapped, live, at)
      BY DEF TablesInv
    <3>4. CASE (Fanout * x) + i < max_addr
      BY <2>2, <2>3, <3>2, <3>3, <3>4 DEF Leaves
    <3>5. CASE ~ (Fanout * x) + i < max_addr
      <4>1. (Fanout * x) + i >= max_addr
        BY <1>2, <3>1, <3>5
      <4>2. <<(Fanout * x) + i, mem[at[0][x]][i].frame>> \in mapped
        BY <2>2, <2>3, <3>3, <4>1 DEF Leaves
      <4> QED BY <1>2, <4>2
    <3> QED BY <3>4, <3>5
  <2>4. CASE ~ (x \in live[0] /\ t = at[0][x])
    <3>1. \A l \in 0 .. 3 : \A r \in live[l] : t # at[l][r]
      <4> SUFFICES ASSUME NEW l \in 0 .. 3, NEW r \in live[l] PROVE t # at[l][r]
        OBVIOUS
      <4>1. CASE l = 0
        BY <1>8, <2>4, <4>1
      <4>2. CASE l # 0
        <5>1. l \in 1 .. 3
          BY <4>2
        <5> QED BY <1>8, <5>1
      <4> QED BY <4>1, <4>2
    <3> QED BY <2>2, <3>1 DEF TablesInv, Orphans
  <2> QED BY <2>3, <2>4
<1>13. CoverInv(live2)'
  <2>1. 0 \in live[3] /\ \A v \in 0 .. max_addr - 1 :
           Up(v, 1) \notin LargeSlots => \A l \in 0 .. 3 : Up(v, l + 1) \in live[l]
    BY <1>1 DEF TablesInv, CoverInv
  <2> SUFFICES ASSUME NEW v \in 0 .. max_addr - 1, Up(v, 1) \notin LargeSlots, NEW l \in 0 .. 3
               PROVE  Up(v, l + 1) \in live2[l]
    <3>1. 0 \in live2[3]
      BY <1>8, <2>1
    <3> QED BY <1>1, <3>1 DEF CoverInv
  <2>2. CASE l = 0
    <3>1. 0 + 1 = 1
      OBVIOUS
    <3> QED BY <1>2, <1>8, <2>1, <2>2, <3>1
  <2>3. CASE l # 0
    <3>1. l \in 1 .. 3
      BY <2>3
    <3> QED BY <1>8, <2>1, <3>1
  <2> QED BY <2>2, <2>3
<1>14. LargeInv(live2, at)'
  <2> SUFFICES ASSUME NEW y \in LargeSlots, Fanout * y < FrameBuffer.base + (n + Fanout)
               PROVE  /\ y \div Fanout \in live[1]
                      /\ mem'[at[1][y \div Fanout]][y % Fanout] = LargeWord(y)
    <3>1. live2[1] = live[1]
      BY <1>8
    <3> QED BY <1>1, <3>1 DEF LargeInv
  <2>0. y \in Nat /\ Fanout * y \in Nat /\ FrameBuffer.base \in Nat /\ Fanout * x \in Nat /\ Fanout \in Nat
    BY <1>2, LargeIs, FrameBufferIs, FanoutType
  <2>1. CASE y = x
    BY <1>2, <1>3, <1>4, <1>6, <2>1
  <2>2. CASE y # x
    <3>1. Fanout * y < FrameBuffer.base + n
      <4> SUFFICES ASSUME Fanout * y >= FrameBuffer.base + n PROVE FALSE
        BY <1>2, <2>0
      <4>1. PICK i \in 0 .. Fanout - 1 : Fanout * y = (Fanout * x) + i
        <5>1. /\ (Fanout * y) - (Fanout * x) \in 0 .. Fanout - 1
              /\ Fanout * y = (Fanout * x) + ((Fanout * y) - (Fanout * x))
          BY <1>2, <2>0
        <5> QED BY <5>1
      <4>2. Fanout * y = (Fanout * y) + 0 /\ 0 \in 0 .. Fanout - 1
        BY <2>0, FrameNat
      <4>3. (Fanout * y) \div Fanout = y
        BY <2>0, <4>2, DivModUnique
      <4>4. (Fanout * y) \div Fanout = x
        BY <1>3, <4>1, DivModUnique
      <4> QED BY <2>2, <4>3, <4>4
    <3>2. y \div Fanout \in live[1] /\ mem[at[1][y \div Fanout]][y % Fanout] = LargeWord(y)
      BY <1>1, <3>1 DEF TablesInv, LargeInv
    <3>3. y % Fanout \in 0 .. Fanout - 1 /\ (y \div Fanout # x \div Fanout \/ y % Fanout # x % Fanout)
      BY <1>3, <2>0, <2>2, DivMod
    <3>4. 1 \in 0 .. 3 /\ at[1][y \div Fanout] \in Range(tables)
      <4>1. 1 \in 0 .. 3
        OBVIOUS
      <4> QED BY <1>4a, <3>2, <4>1 DEF Tree
    <3>5. at[1][y \div Fanout] # cur \/ y % Fanout # x % Fanout
      BY <1>2, <1>3, <1>4a, <3>2, <3>3, <3>4, Others
    <3> QED BY <1>4a, <1>6, <3>2, <3>3, <3>4, <3>5
  <2> QED BY <2>1, <2>2
<1>15. PermissionsInv(at)'
  <2> SUFFICES ASSUME NEW k \in DOMAIN MemoryMap, NEW v \in InDescriptor(MemoryMap[k])
               PROVE  Leaf(mem', at, v) = Leaf(mem, at, v)
    BY <1>1 DEF TablesInv, PermissionsInv
  <2>1. v \in Described
    BY PagesAre DEF Described
  <2>2. Up(v, 1) \in live[0]
    BY <1>1, <2>1, InTables
  <2> QED BY <1>10, <2>2 DEF Leaf
<1>16. NullInv(at)'
  <2>1. Up(NULL, 1) \in live[0]
    <3>1. NULL \in 0 .. max_addr - 1
      <4>1. max_addr \in Nat \ {0}
        BY <1>1, MemoryIs
      <4> QED BY <4>1 DEF NULL
    <3>2. \A l \in 0 .. 3 : Up(NULL, l + 1) \in live[l]
      BY <1>1, <3>1, LargeIs DEF TablesInv, CoverInv
    <3>3. 0 \in 0 .. 3 /\ 0 + 1 = 1
      OBVIOUS
    <3> QED BY <3>2, <3>3
  <2> QED BY <1>1, <1>10, <2>1 DEF TablesInv, NullInv, Leaf
<1>17. BuildInv(live2)' /\ WalkInv(live2, at)' /\ MappedInv(live2, at)'
  BY <1>1, <1>2 DEF BuildInv, WalkInv, WalkPcs, MappedInv
<1>18. TablesInv(live2, at)'
  BY <1>9, <1>11, <1>12, <1>13, <1>14, <1>15, <1>16, <1>17 DEF TablesInv
<1>19. TypeOK'
  <2>1. first_free_page' \in Frame /\ stale' \subseteq Frame /\ tables' \in Seq(Frame) /\ {n', j'} \subseteq Nat
        /\ job' \in Jobs /\ size' \in [Regions -> 0 .. MaxMapped] /\ \A m \in mapped' : m \in Nat \X Frame
    BY <1>1, <1>2, FanoutType, SMTT(30) DEF TypeOK, Jobs
  <2> QED BY <1>1, <1>6, <2>1, TypeStep
<1>20. CourseInv'
  <2>1. n' % Fanout = 0
    BY <1>1, <1>2, DivTable DEF CourseInv
  <2> QED BY <1>1, <2>1 DEF CourseInv, LoopPcs, WalkPcs
<1>21. ListInv'
  <2>1. Managed' = Managed
    BY <1>1 DEF Managed, Passed
  <2>2. DataPages' = DataPages
    BY <1>1 DEF DataPages
  <2>3. FreePages \subseteq Frame
    BY <1>1, ManagedIs, PagesApart DEF FreePages
  <2>4. \A p \in Frame \ Range(tables) : mem'[p] = mem[p]
    BY <1>2, <1>6
  <2> QED BY <1>1, <2>1, <2>2, <2>3, <2>4, EntriesList
<1> QED BY <1>18, <1>19, <1>20, <1>21

\* The entry that a walk looks at leads to the next table of its address, or nowhere.
LEMMA WalkEntry ==
  ASSUME Apart, TypeOK, CourseInv, pc \in WalkPcs, NEW live \in [0 .. 3 -> SUBSET Nat], NEW at,
         TablesInv(live, at), job.l > job.level
  PROVE  /\ job.l \in 1 .. 3 /\ job.l - 1 \in 0 .. 2 /\ (job.l - 1) + 1 = job.l
         /\ job.l - 1 \in 0 .. 3 /\ job.level <= job.l - 1
         /\ Up(job.va, job.l) \in Nat /\ Index(job.va, job.l) \in 0 .. Fanout - 1
         /\ Up(job.va, job.l) \div Fanout = Up(job.va, job.l + 1)
         /\ Up(job.va, job.l) % Fanout = Index(job.va, job.l)
         /\ "P" \in mem[job.cur][Index(job.va, job.l)].flags <=> Up(job.va, job.l) \in live[job.l - 1]
         /\ "P" \in mem[job.cur][Index(job.va, job.l)].flags =>
              mem[job.cur][Index(job.va, job.l)].frame = at[job.l - 1][Up(job.va, job.l)]
<1> DEFINE va == job.va
           l == job.l
           q == Up(va, l)
           i == Index(va, l)
<1>1. /\ va \in Nat /\ l \in 1 .. 3 /\ l - 1 \in 0 .. 2 /\ l - 1 \in 0 .. 3 /\ (l - 1) + 1 = l
      /\ job.level <= l - 1 /\ l \in 0 .. 3 /\ (l - 1) + 2 = l + 1
      /\ Up(va, l + 1) \in live[l] /\ job.cur = at[l][Up(va, l + 1)]
      /\ l = 1 => pc = "map_walk" /\ Up(va, 1) \notin LargeSlots
  <2>1. /\ va \in Nat /\ l \in 0 .. 3 /\ job.level \in 0 .. 1 /\ l > job.level
        /\ Up(va, l + 1) \in live[l] /\ job.cur = at[l][Up(va, l + 1)]
    BY WalkIs
  <2>2. l = 1 => pc = "map_walk" /\ Up(va, 1) \notin LargeSlots
    <3>1. pc = "framebuffer_walk" => job.level = 1
      BY WalkIs
    <3>2. l = 1 => pc = "map_walk"
      BY <2>1, <3>1 DEF WalkPcs
    <3> QED BY <3>2, WalkIs
  <2> HIDE DEF l, va
  <2> QED BY <2>1, <2>2
<1>2. /\ q \in Nat /\ i \in 0 .. Fanout - 1 /\ q = (Fanout * Up(va, l + 1)) + i
      /\ q \div Fanout = Up(va, l + 1) /\ q % Fanout = i
  <2>1. /\ q \in Nat /\ i \in 0 .. Fanout - 1 /\ q = (Fanout * Up(va, l + 1)) + i
        /\ Up(va, l + 1) = q \div Fanout
    BY <1>1, IndexIs
  <2>2. q % Fanout = i
    BY DEF Index
  <2> QED BY <2>1, <2>2
<1>3. Tree(mem, pml4_table, Range(tables), live, at)
  BY DEF TablesInv
<1> HIDE DEF va, l, q, i
<1>4. q \in live[l - 1] => /\ "P" \in mem[job.cur][i].flags
                           /\ mem[job.cur][i].frame = at[l - 1][q]
  <2>1. \A k \in 0 .. 2 : \A r \in live[k] :
          /\ mem[at[k + 1][r \div Fanout]][r % Fanout].frame = at[k][r]
          /\ "P" \in mem[at[k + 1][r \div Fanout]][r % Fanout].flags
    BY <1>3 DEF Tree
  <2> QED BY <1>1, <1>2, <2>1, SMTT(30)
<1>5. "P" \in mem[job.cur][i].flags => q \in live[l - 1]
  <2>1. \A k \in 1 .. 3 : \A r \in live[k], c \in 0 .. Fanout - 1 :
          "P" \in mem[at[k][r]][c].flags =>
            (Fanout * r) + c \in live[k - 1] \/ (k = 1 /\ (Fanout * r) + c \in LargeSlots)
    BY <1>3 DEF Tree
  <2>2. l = 1 => q \notin LargeSlots
    BY <1>1 DEF q
  <2> QED BY <1>1, <1>2, <2>1, <2>2
<1> QED BY <1>1, <1>2, <1>4, <1>5 DEF va, l, q, i

\* The entry is there: the walk goes on at the table it leads to.
LEMMA DescendKeeps ==
  ASSUME Apart, TypeOK, CourseInv, ListInv, pc \in WalkPcs, job.l > job.level,
         "P" \in mem[job.cur][Index(job.va, job.l)].flags,
         NEW frame, frame = mem[job.cur][Index(job.va, job.l)].frame,
         job' = [job EXCEPT !.cur = frame, !.l = @ - 1],
         UNCHANGED <<mem, first_free_page, pml4_table, max_addr, cr3, stale, cpu, pc, n, j,
                     size, tables, mapped>>,
         NEW live \in [0 .. 3 -> SUBSET Nat], NEW at \in [0 .. 3 -> [Nat -> Frame]],
         TablesInv(live, at)
  PROVE  TypeOK' /\ CourseInv' /\ ListInv' /\ TablesInv(live, at)'
<1>1. /\ job.l - 1 \in 0 .. 3 /\ job.level <= job.l - 1 /\ (job.l - 1) + 1 = job.l
      /\ Up(job.va, job.l) \in live[job.l - 1] /\ Up(job.va, job.l) \in Nat
      /\ frame = at[job.l - 1][Up(job.va, job.l)]
  BY WalkEntry
<1>2. frame \in Frame
  BY <1>1
<1>3. job \in [va : Nat, page : Frame, cur : Frame, l : 0 .. 3, level : 0 .. 1]
  BY DEF TypeOK
<1>4. /\ job' \in [va : Nat, page : Frame, cur : Frame, l : 0 .. 3, level : 0 .. 1]
      /\ job'.va = job.va /\ job'.page = job.page /\ job'.cur = frame /\ job'.l = job.l - 1
      /\ job'.level = job.level
  BY <1>1, <1>2, <1>3
<1>5. TypeOK'
  <2>1. stale' \subseteq Frame /\ {n', j'} \subseteq Nat
    BY DEF TypeOK
  <2>2. cr3' \in BOOLEAN /\ cpu' \in {"run", "oom", "pf"}
    BY Zenon DEF TypeOK
  <2> QED BY <1>4, <2>1, <2>2, TypeKept
<1>6. CourseInv'
  BY DEF CourseInv
<1>7. ListInv'
  <2>1. Managed' = Managed
    BY DEF Managed, Passed
  <2>2. DataPages' = DataPages
    BY <1>4 DEF DataPages
  <2> QED BY <2>1, <2>2, ListKept
<1>8. /\ Tree(mem', pml4_table', Range(tables'), live, at)
      /\ Leaves(mem', max_addr', mapped', live, at)
      /\ Orphans(mem', Range(tables'), live, at)
  BY DEF TablesInv
<1>9. BuildInv(live)' /\ CoverInv(live)' /\ LargeInv(live, at)'
  BY DEF TablesInv, BuildInv, CoverInv, LargeInv
<1>10. PermissionsInv(at)' /\ NullInv(at)' /\ MappedInv(live, at)'
  BY DEF TablesInv, PermissionsInv, NullInv, Leaf, MappedInv
<1>11. WalkInv(live, at)'
  <2>1. /\ pc = "framebuffer_walk" =>
             job.level = 1 /\ job.va = FrameBuffer.base + n /\ n <= FrameBuffer.size
        /\ pc = "map_walk" =>
             /\ job.level = 0
             /\ \E r \in Regions : size[r] > 0 /\ job.va = RegionBase[r] + size[r] - 1
             /\ \A e \in mapped : e[1] # job.va
    BY DEF TablesInv, WalkInv
  <2>2. /\ job'.level <= job'.l /\ Up(job'.va, job'.l + 1) \in live[job'.l]
        /\ job'.cur = at[job'.l][Up(job'.va, job'.l + 1)]
    BY <1>1, <1>4
  <2> QED BY <1>4, <2>1, <2>2 DEF WalkInv
<1> QED BY <1>5, <1>6, <1>7, <1>8, <1>9, <1>10, <1>11 DEF TablesInv

\* There is none: a new table, all of its entries empty, takes the place.
ZeroPage == [k \in 0 .. Fanout - 1 |-> Word(NULL, {})]

LEMMA CreateKeeps ==
  ASSUME Apart, TypeOK, CourseInv, ListInv, pc \in WalkPcs, job.l > job.level,
         "P" \notin mem[job.cur][Index(job.va, job.l)].flags, first_free_page # NULL,
         first_free_page' = mem[first_free_page][0].frame,
         mem' = Fill(mem, first_free_page, ZeroPage, job.cur, Index(job.va, job.l),
                     Word(first_free_page, {"P", "W"})),
         tables' = Append(tables, first_free_page),
         job' = [job EXCEPT !.cur = first_free_page, !.l = @ - 1],
         UNCHANGED <<pml4_table, max_addr, cr3, stale, cpu, pc, n, j, size, mapped>>,
         NEW live \in [0 .. 3 -> SUBSET Nat], NEW at \in [0 .. 3 -> [Nat -> Frame]],
         TablesInv(live, at)
  PROVE  /\ TypeOK' /\ CourseInv' /\ ListInv'
         /\ \E live2 \in [0 .. 3 -> SUBSET Nat], at2 \in [0 .. 3 -> [Nat -> Frame]] :
              TablesInv(live2, at2)'
<1> DEFINE new == first_free_page
           cur == job.cur
           l == job.l - 1
           q == Up(job.va, job.l)
           i == Index(job.va, job.l)
           flags == {"P", "W"}
           w == Word(new, flags)
           pool == Range(tables)
<1>1. /\ l \in 0 .. 2 /\ l \in 0 .. 3 /\ l + 1 = job.l /\ l + 1 \in 0 .. 3 /\ l + 1 \in 1 .. 3
      /\ job.level <= l /\ q \in Nat /\ i \in 0 .. Fanout - 1
      /\ q \div Fanout = Up(job.va, job.l + 1) /\ q % Fanout = i /\ q \notin live[l]
  <2>1. /\ job.l \in 1 .. 3 /\ l \in 0 .. 2 /\ l + 1 = job.l /\ l \in 0 .. 3
        /\ job.level <= l /\ q \in Nat /\ i \in 0 .. Fanout - 1
        /\ q \div Fanout = Up(job.va, job.l + 1) /\ q % Fanout = i
    BY WalkEntry
  <2>2. q \notin live[l]
    BY WalkEntry
  <2> HIDE DEF l, q, i
  <2> QED BY <2>1, <2>2
<1>2. /\ q \div Fanout \in live[l + 1] /\ cur = at[l + 1][q \div Fanout]
      /\ cur \in pool /\ cur \in Frame /\ max_addr \in Nat /\ n \in Nat
  BY <1>1, WalkIs
<1>3. /\ new \in Frame /\ new \notin pool /\ new \notin DataPages /\ new \in FreePages /\ new \in Managed
      /\ \A k \in 0 .. Fanout - 1 : "P" \notin mem[new][k].flags
  BY HeadIs, MemoryType
<1>4. /\ mem \in Memory /\ pool \subseteq Frame /\ Tree(mem, pml4_table, pool, live, at)
      /\ tables \in Seq(Frame)
  BY MemoryType DEF TablesInv
<1>5. /\ tables' \in Seq(Frame) /\ Range(tables') = pool \cup {new} /\ IsInjective(tables')
  <2>1. IsInjective(tables)
    BY DEF ListInv
  <2> QED BY <1>3, <1>4, <2>1, AppendIs
<1>6. /\ ZeroPage \in Page /\ w \in WordSet /\ w.frame = new /\ w.flags = flags
      /\ "P" \in flags /\ "PS" \notin flags
      /\ \A k \in 0 .. Fanout - 1 : ZeroPage[k] = Word(NULL, {}) /\ "P" \notin ZeroPage[k].flags
  <2>1. Word(NULL, {}) \in WordSet /\ Word(NULL, {}).flags = {}
    <3>1. NULL \in Nat
      BY DEF NULL
    <3> QED BY <3>1, WordIs
  <2>2. flags \in SUBSET WordFlags /\ "P" \in flags /\ "PS" \notin flags
    BY DEF WordFlags
  <2>3. new \in Nat
    BY <1>3, FrameNat
  <2>4. w \in WordSet /\ w.frame = new /\ w.flags = flags
    BY <2>2, <2>3, WordIs
  <2> HIDE DEF flags, w
  <2> QED BY <2>1, <2>2, <2>4 DEF ZeroPage, Page
<1>7. mem' = Fill(mem, new, ZeroPage, cur, i, w)
  OBVIOUS
<1>7a. /\ first_free_page' = mem[new][0].frame
       /\ job' = [job EXCEPT !.cur = new, !.l = l]
       /\ UNCHANGED <<pml4_table, max_addr, cr3, stale, cpu, pc, n, j, size, mapped>>
       /\ pc \in WalkPcs
  OBVIOUS
<1>7b. Links(mem, new, FreePages)
  BY DEF ListInv
<1> HIDE DEF new, cur, l, q, i, flags, w, pool
<1>8. IsFilled(mem, mem', new, ZeroPage, cur, i, w)
  BY <1>1, <1>2, <1>3, <1>4, <1>6, <1>7, WritePage
<1>9. /\ mem' \in Memory /\ mem'[new] = ZeroPage /\ mem'[cur][i] = w
      /\ \A p \in Frame : p # new /\ p # cur => mem'[p] = mem[p]
      /\ \A k \in 0 .. Fanout - 1 : k # i => mem'[cur][k] = mem[cur][k]
  BY <1>8 DEF IsFilled
<1>10. IsMore(live, at, l, q, new, MoreLive(live, l, q), MoreAt(at, l, q, new))
  BY <1>1, <1>3, MoreIs
<1>11. PICK live2 \in [0 .. 3 -> SUBSET Nat], at2 \in [0 .. 3 -> [Nat -> Frame]] :
         live2 = MoreLive(live, l, q) /\ at2 = MoreAt(at, l, q, new)
  <2>1. /\ MoreLive(live, l, q) \in [0 .. 3 -> SUBSET Nat]
        /\ MoreAt(at, l, q, new) \in [0 .. 3 -> [Nat -> Frame]]
    BY <1>10 DEF IsMore
  <2> QED BY <2>1
<1>12. IsMore(live, at, l, q, new, live2, at2)
  BY <1>10, <1>11
<1>13. /\ at2[l][q] = new /\ q \in live2[l]
       /\ \A k \in 0 .. 3 : /\ live[k] \subseteq live2[k]
                            /\ \A r \in live2[k] : r \in live[k] \/ (k = l /\ r = q)
                            /\ \A r \in live[k] : r \in Nat /\ at2[k][r] = at[k][r]
  BY <1>12 DEF IsMore
<1>14. Enters(mem, mem', pool, at, l, q, new, flags)
  <2>1. \A t \in pool, k \in 0 .. Fanout - 1 : t # cur \/ k # i => mem'[t][k] = mem[t][k]
    BY <1>3, <1>4, <1>9
  <2>2. \A k \in 0 .. Fanout - 1 : "P" \notin mem'[new][k].flags
    BY <1>6, <1>9
  <2>3. mem'[cur][i] = Word(new, flags)
    BY <1>9 DEF w
  <2> QED BY <1>1, <1>2, <2>1, <2>2, <2>3 DEF Enters
<1>15. Tree(mem', pml4_table', Range(tables'), live2, at2)
  <2>1. Tree(mem', pml4_table, pool \cup {new}, live2, at2)
    BY <1>1, <1>2, <1>3, <1>4, <1>6, <1>11, <1>14, TreeGrows
  <2> QED BY <1>5, <1>7a, <2>1
<1>16. \A r \in live[0] : at2[0][r] = at[0][r] /\ mem'[at[0][r]] = mem[at[0][r]]
  <2> SUFFICES ASSUME NEW r \in live[0] PROVE at[0][r] # cur /\ at[0][r] \in pool
    <3>1. 0 \in 0 .. 3
      OBVIOUS
    <3> QED BY <1>3, <1>4, <1>9, <1>13, <3>1
  <2>1. 0 \in 0 .. 3 /\ 0 # l + 1
    BY <1>1
  <2> QED BY <1>1, <1>2, <1>4, <2>1, Others, SMTT(30)
<1>17. Leaves(mem', max_addr', mapped', live2, at2)
  <2> SUFFICES ASSUME NEW r \in live2[0], NEW k \in 0 .. Fanout - 1
               PROVE  LET u == mem'[at2[0][r]][k] IN
                      /\ (Fanout * r) + k < max_addr => u.frame = (Fanout * r) + k
                      /\ (Fanout * r) + k >= max_addr /\ "P" \in u.flags =>
                           <<(Fanout * r) + k, u.frame>> \in mapped
                      /\ Fanout * r >= max_addr /\ "P" \notin u.flags => u = Word(NULL, {})
    BY <1>7a, SMTT(30) DEF Leaves
  <2>1. CASE r \in live[0]
    <3>1. mem'[at2[0][r]] = mem[at[0][r]]
      BY <1>16, <2>1
    <3>2. Leaves(mem, max_addr, mapped, live, at)
      BY DEF TablesInv
    <3> QED BY <2>1, <3>1, <3>2 DEF Leaves
  <2>2. CASE r \notin live[0]
    <3>1. l = 0 /\ r = q
      <4>1. 0 \in 0 .. 3
        OBVIOUS
      <4> QED BY <1>13, <2>2, <4>1
    <3>2. mem'[at2[0][r]][k] = Word(NULL, {}) /\ "P" \notin mem'[at2[0][r]][k].flags
      BY <1>6, <1>9, <1>13, <3>1
    <3>3. q = Up(job.va, 1) /\ job.level = 0
      <4>1. job.l = 1
        <5>1. l + 1 = job.l /\ l = 0
          BY <1>1, <3>1
        <5> QED BY <5>1
      <4>2. job.level \in 0 .. 1 /\ job.level <= l
        <5>1. job.level \in 0 .. 1
          BY WalkIs
        <5> QED BY <1>1, <5>1
      <4>3. job.level = 0
        BY <3>1, <4>2
      <4> QED BY <3>1, <4>1, <4>3 DEF q
    <3>4. pc = "map_walk"
      <4>1. pc = "framebuffer_walk" => job.level = 1
        BY WalkIs
      <4> QED BY <3>3, <4>1 DEF WalkPcs
    <3>5. Fanout * r >= max_addr
      BY <3>1, <3>3, <3>4, WalkIs
    <3>6. ~ (Fanout * r) + k < max_addr
      <4>1. Fanout * r \in Nat /\ k \in Nat
        BY <1>1, <3>1, FanoutType
      <4> QED BY <1>2, <3>5, <4>1
    <3> QED BY <3>2, <3>6
  <2> QED BY <2>1, <2>2
<1>18. Orphans(mem', Range(tables'), live2, at2)
  <2> SUFFICES ASSUME NEW t \in Range(tables'), \A k \in 0 .. 3 : \A r \in live2[k] : t # at2[k][r],
                      NEW c \in 0 .. Fanout - 1, "P" \in mem'[t][c].flags
               PROVE  mem'[t][c].frame \notin Described
    BY DEF Orphans
  <2>1. t \in pool /\ t # new
    BY <1>1, <1>5, <1>13
  <2>2. \A k \in 0 .. 3 : \A r \in live[k] : t # at[k][r]
    BY <1>13
  <2>3. mem'[t] = mem[t]
    BY <1>1, <1>2, <1>4, <1>9, <2>1, <2>2
  <2> QED BY <2>1, <2>2, <2>3 DEF TablesInv, Orphans, pool
<1>19. BuildInv(live2)' /\ CoverInv(live2)'
  <2>1. CoverInv(live)
    BY DEF TablesInv
  <2>2. CoverInv(live2)'
    BY <1>7a, <1>13, <2>1 DEF CoverInv
  <2> QED BY <1>7a, <2>2 DEF BuildInv, WalkPcs
<1>20. LargeInv(live2, at2)'
  <2> SUFFICES ASSUME NEW y \in LargeSlots,
                      pc \in {"framebuffer", "framebuffer_walk"} => Fanout * y < FrameBuffer.base + n
               PROVE  /\ y \div Fanout \in live2[1]
                      /\ mem'[at2[1][y \div Fanout]][y % Fanout] = LargeWord(y)
    BY <1>7a DEF LargeInv
  <2>1. y \div Fanout \in live[1] /\ mem[at[1][y \div Fanout]][y % Fanout] = LargeWord(y)
    BY <1>7a DEF TablesInv, LargeInv, WalkPcs
  <2>2. 1 \in 0 .. 3 /\ y \div Fanout \in live2[1] /\ at2[1][y \div Fanout] = at[1][y \div Fanout]
    <3>1. 1 \in 0 .. 3
      OBVIOUS
    <3> QED BY <1>13, <2>1, <3>1
  <2>3. at[1][y \div Fanout] \in pool /\ y % Fanout \in 0 .. Fanout - 1
    <3>1. y \in Nat
      BY LargeSlotsType
    <3>2. at[1][y \div Fanout] \in pool
      BY <1>4, <2>1, <2>2 DEF Tree
    <3> QED BY <3>1, <3>2, DivMod
  <2>4. ~ (at[1][y \div Fanout] = cur /\ y % Fanout = i)
    <3>1. "P" \in LargeWord(y).flags
      BY DEF LargeWord, Word
    <3>2. "P" \notin mem[cur][i].flags
      BY DEF cur, i
    <3> QED BY <2>1, <3>1, <3>2
  <2>5. mem'[at[1][y \div Fanout]][y % Fanout] = mem[at[1][y \div Fanout]][y % Fanout]
    BY <1>3, <1>4, <1>9, <2>3, <2>4
  <2> QED BY <2>1, <2>2, <2>5
<1>21. PermissionsInv(at2)'
  <2> SUFFICES ASSUME NEW k \in DOMAIN MemoryMap, NEW v \in InDescriptor(MemoryMap[k])
               PROVE  Leaf(mem', at2, v) = Leaf(mem, at, v)
    BY <1>7a DEF TablesInv, PermissionsInv, WalkPcs
  <2>1. v \in Described
    BY PagesApart
  <2>2. Up(v, 1) \in live[0]
    BY <1>7a, <2>1, InTables DEF WalkPcs
  <2> QED BY <1>16, <2>2 DEF Leaf
<1>22. NullInv(at2)'
  <2>1. Up(NULL, 1) \in live[0]
    <3>1. NULL \in 0 .. max_addr - 1
      <4>1. max_addr \in Nat \ {0}
        BY <1>7a, MemoryIs DEF WalkPcs
      <4> QED BY <4>1 DEF NULL
    <3>2. \A k \in 0 .. 3 : Up(NULL, k + 1) \in live[k]
      BY <1>7a, <3>1, LargeIs DEF TablesInv, CoverInv, WalkPcs
    <3>3. 0 \in 0 .. 3 /\ 0 + 1 = 1
      OBVIOUS
    <3> QED BY <3>2, <3>3
  <2> QED BY <1>7a, <1>16, <2>1 DEF TablesInv, NullInv, Leaf, WalkPcs
<1>23. /\ job' \in Jobs /\ job'.va = job.va /\ job'.page = job.page /\ job'.cur = new /\ job'.l = l
       /\ job'.level = job.level
  <2>1. job \in Jobs
    BY DEF TypeOK, Jobs
  <2> QED BY <1>1, <1>3, <1>7a, <2>1 DEF Jobs
<1>24. WalkInv(live2, at2)'
  <2>1. /\ pc = "framebuffer_walk" =>
             job.level = 1 /\ job.va = FrameBuffer.base + n /\ n <= FrameBuffer.size
        /\ pc = "map_walk" =>
             /\ job.level = 0
             /\ \E r \in Regions : size[r] > 0 /\ job.va = RegionBase[r] + size[r] - 1
             /\ \A e \in mapped : e[1] # job.va
    BY <1>7a DEF TablesInv, WalkInv
  <2>2. q = Up(job'.va, job'.l + 1)
    BY <1>1, <1>23 DEF q
  <2>3. /\ job'.level <= job'.l /\ Up(job'.va, job'.l + 1) \in live2[job'.l]
        /\ job'.cur = at2[job'.l][Up(job'.va, job'.l + 1)]
    BY <1>1, <1>13, <1>23, <2>2
  <2> QED BY <1>7a, <1>23, <2>1, <2>3 DEF WalkInv
<1>25. MappedInv(live2, at2)'
  <2>1. \A e \in mapped : /\ \E r \in Regions, k \in Nat : k < size[r] /\ e[1] = RegionBase[r] + k
                          /\ \A k \in 0 .. 3 : Up(e[1], k + 1) \in live[k]
                          /\ Leaf(mem, at, e[1]).frame = e[2]
                          /\ "P" \in Leaf(mem, at, e[1]).flags
    BY DEF TablesInv, MappedInv
  <2>2. ASSUME NEW e \in mapped
        PROVE  Leaf(mem', at2, e[1]) = Leaf(mem, at, e[1]) /\ \A k \in 0 .. 3 : Up(e[1], k + 1) \in live2[k]
    <3>1. 0 \in 0 .. 3 /\ 0 + 1 = 1
      OBVIOUS
    <3>2. Up(e[1], 1) \in live[0]
      BY <2>1, <3>1
    <3>3. Leaf(mem', at2, e[1]) = Leaf(mem, at, e[1])
      BY <1>16, <3>2 DEF Leaf
    <3> QED BY <1>13, <2>1, <3>3
  <2>3. mapped' = mapped /\ size' = size
    BY <1>7a
  <2>4. \A e \in mapped : /\ \E r \in Regions, k \in Nat : k < size[r] /\ e[1] = RegionBase[r] + k
                          /\ \A k \in 0 .. 3 : Up(e[1], k + 1) \in live2[k]
                          /\ Leaf(mem', at2, e[1]).frame = e[2]
                          /\ "P" \in Leaf(mem', at2, e[1]).flags
    BY <2>1, <2>2
  <2> QED BY <2>3, <2>4 DEF MappedInv
<1>26. TablesInv(live2, at2)'
  BY <1>15, <1>17, <1>18, <1>19, <1>20, <1>21, <1>22, <1>24, <1>25 DEF TablesInv
<1>27. Managed' = Managed /\ Managed \subseteq Frame /\ NULL \notin Managed
  <2>1. Managed' = Managed
    BY <1>7a DEF Managed, Passed
  <2>2. Managed \subseteq Conventional \cup (BootCode \ {NULL})
    BY <1>7a, ManagedIs DEF WalkPcs
  <2> QED BY <2>1, <2>2, PagesApart
<1>28. DataPages' = DataPages
  BY <1>7a, <1>23 DEF DataPages
<1>29. FreePages' = FreePages \ {new} /\ NULL \notin FreePages /\ FreePages \subseteq Frame
  BY <1>5, <1>27, <1>28 DEF FreePages, pool
<1>30. first_free_page' \in Frame
  <2>1. mem[new][0].frame \in FreePages \cup {NULL}
    BY <1>3, <1>7b DEF Links
  <2> QED BY <1>7a, <1>29, <2>1, PagesAre
<1>31. TypeOK'
  <2>1. stale' \subseteq Frame /\ {n', j'} \subseteq Nat
        /\ size' \in [Regions -> 0 .. MaxMapped] /\ \A m \in mapped' : m \in Nat \X Frame
    BY <1>7a DEF TypeOK
  <2> QED BY <1>5, <1>7a, <1>9, <1>23, <1>30, <2>1, TypeStep
<1>32. CourseInv'
  BY <1>7a DEF CourseInv, WalkPcs
<1>33. ListInv'
  <2>0. \A p \in Frame \ Range(tables') : mem'[p] = mem[p] /\ p \in Frame \ pool
    BY <1>2, <1>5, <1>9
  <2>1. Links(mem', first_free_page', FreePages')
    <3>1. \A p \in FreePages \ {new} : mem'[p][0].frame = mem[p][0].frame
      <4>1. \A p \in FreePages \ {new} : p \in Frame \ Range(tables')
        BY <1>5, <1>29 DEF FreePages, pool
      <4> QED BY <2>0, <4>1
    <3>2. new # NULL
      BY <1>3, <1>29
    <3>3. Links(mem', mem[new][0].frame, FreePages \ {new})
      BY <1>7b, <1>29, <3>1, <3>2, LinksPop
    <3> QED BY <1>7a, <1>29, <3>3
  <2>2. \A p \in Frame \ Range(tables') : \A k \in 0 .. Fanout - 1 : "P" \notin mem'[p][k].flags
    BY <2>0 DEF ListInv, pool
  <2>3. pool \cup DataPages \subseteq Managed /\ pool \cap DataPages = {}
    BY DEF ListInv, pool
  <2>4. (Range(tables) \cup DataPages \subseteq Managed)' /\ (Range(tables) \cap DataPages = {})'
    BY <1>3, <1>5, <1>27, <1>28, <2>3
  <2>5. IsInjective(tables)'
    BY <1>5
  <2> QED BY <2>1, <2>2, <2>4, <2>5 DEF ListInv
<1> QED BY <1>26, <1>31, <1>32, <1>33

LEMMA WalkDownKeeps ==
  ASSUME Apart, TypeOK, CourseInv, ListInv, WalkDown,
         NEW live \in [0 .. 3 -> SUBSET Nat], NEW at \in [0 .. 3 -> [Nat -> Frame]],
         TablesInv(live, at)
  PROVE  /\ TypeOK' /\ CourseInv' /\ ListInv'
         /\ \E live2 \in [0 .. 3 -> SUBSET Nat], at2 \in [0 .. 3 -> [Nat -> Frame]] :
              TablesInv(live2, at2)'
<1> DEFINE entry == mem[job.cur][Index(job.va, job.l)]
<1>1. pc \in WalkPcs /\ job.l > job.level
  BY DEF WalkDown, WalkPcs
<1>2. CASE Halt("pf")
  BY <1>2, HaltKeeps
<1>3. CASE /\ "P" \in entry.flags /\ job' = [job EXCEPT !.cur = entry.frame, !.l = @ - 1]
           /\ UNCHANGED <<mem, first_free_page, pml4_table, max_addr, cr3, stale, cpu, pc, n, j,
                          size, tables, mapped>>
  <2>1. TypeOK' /\ CourseInv' /\ ListInv' /\ TablesInv(live, at)'
    BY <1>1, <1>3, DescendKeeps
  <2> QED BY <2>1
<1>4. CASE /\ "P" \notin entry.flags /\ first_free_page # NULL
           /\ first_free_page' = mem[first_free_page][0].frame
           /\ mem' = Fill(mem, first_free_page, ZeroPage, job.cur, Index(job.va, job.l),
                          Word(first_free_page, {"P", "W"}))
           /\ tables' = Append(tables, first_free_page)
           /\ job' = [job EXCEPT !.cur = first_free_page, !.l = @ - 1]
           /\ UNCHANGED <<pml4_table, max_addr, cr3, stale, cpu, pc, n, j, size, mapped>>
  BY <1>1, <1>4, CreateKeeps
<1> QED BY <1>2, <1>3, <1>4 DEF WalkDown, Fill, ZeroPage

LEMMA OutOfMemoryKeeps ==
  ASSUME TypeOK, CourseInv, ListInv, OutOfMemory
  PROVE  /\ TypeOK' /\ CourseInv' /\ ListInv'
         /\ \A live, at : TablesInv(live, at) => TablesInv(live, at)'
<1>1. Halt("oom")
  BY DEF OutOfMemory
<1> QED BY <1>1, HaltKeeps

\* An empty word has no bits to keep.
LEMMA BitOrZero ==
  ASSUME NEW b \in Nat
  PROVE  BitOr(0, b) = b
<1> DEFINE body(f, x, y) ==
             IF x = 0 \/ y = 0 THEN x + y
             ELSE 2 * f[x \div 2][y \div 2] + (IF x % 2 = 1 \/ y % 2 = 1 THEN 1 ELSE 0)
           Is(f) == f = [x \in 0 .. 0 |-> [y \in 0 .. b |-> body(f, x, y)]]
           g == [x \in 0 .. 0 |-> [y \in 0 .. b |-> y]]
           or == CHOOSE f : Is(f)
<1>1. Is(g)
  <2>1. \A x \in 0 .. 0, y \in 0 .. b : body(g, x, y) = y
    OBVIOUS
  <2> HIDE DEF body
  <2>2. \A x \in 0 .. 0 : [y \in 0 .. b |-> body(g, x, y)] = [y \in 0 .. b |-> y]
    BY <2>1
  <2> QED BY <2>2
<1> HIDE DEF g
<1>2. Is(or)
  BY <1>1
<1>3. BitOr(0, b) = or[0][b]
  BY DEF BitOr
<1> HIDE DEF or
<1>4. or[0][b] = body(or, 0, b)
  <2> HIDE DEF body
  <2>1. or[0] = [y \in 0 .. b |-> body(or, 0, y)]
    BY <1>2
  <2> QED BY <2>1
<1> QED BY <1>3, <1>4

LEMMA MapWordIs ==
  ASSUME NEW page \in Frame
  PROVE  /\ MapWord(Word(NULL, {}), page) \in WordSet
         /\ MapWord(Word(NULL, {}), page).frame = page
         /\ "P" \in MapWord(Word(NULL, {}), page).flags
<1> DEFINE w == Word(page, {})
           on == {"P", "W"}
           off == {"NX"}
<1>1. page \in Nat
  BY FrameNat
<1>2. [Word(NULL, {}) EXCEPT !.frame = BitOr(@, page)] = Word(page, {})
  <2>1. BitOr(NULL, page) = page
    BY <1>1, BitOrZero DEF NULL
  <2> QED BY <2>1 DEF Word
<1>3. w \in WordSet /\ w.frame = page
  BY <1>1, WordIs
<1>4. on \in SUBSET WordFlags /\ "P" \in on
  BY DEF WordFlags
<1>5. MapWord(Word(NULL, {}), page) = Flags(w, on, off)
  BY <1>2 DEF MapWord
<1> HIDE DEF w, on, off
<1> QED BY <1>3, <1>4, <1>5, FlagsAre

LEMMA SetMapEntryKeeps ==
  ASSUME Apart, TypeOK, CourseInv, ListInv, SetMapEntry,
         NEW live \in [0 .. 3 -> SUBSET Nat], NEW at, TablesInv(live, at)
  PROVE  TypeOK' /\ CourseInv' /\ ListInv' /\ TablesInv(live, at)'
<1>1. CASE Halt("pf")
  BY <1>1, HaltKeeps
<1> DEFINE va == job.va
           page == job.page
           cur == job.cur
           r == Up(va, 1)
           i == Index(va, 0)
           w == MapWord(mem[cur][i], page)
           m2 == mem'
           done == mapped'
<1>2. SUFFICES ASSUME ~ Halt("pf") PROVE TypeOK' /\ CourseInv' /\ ListInv' /\ TablesInv(live, at)'
  BY <1>1
<1>3. /\ pc = "map_walk" /\ pc' = "run" /\ job.l = job.level
      /\ mem' = Put(mem, cur, i, w) /\ done = mapped \cup {<<va, page>>}
      /\ UNCHANGED <<first_free_page, pml4_table, max_addr, cr3, stale, cpu, n, j, job, size, tables>>
  BY <1>2 DEF SetMapEntry, Put
<1>4. /\ va \in Nat /\ page \in Frame /\ max_addr \in Nat /\ n \in Nat
      /\ r \in live[0] /\ cur = at[0][r] /\ cur \in Range(tables) /\ cur \in Frame
      /\ va >= max_addr /\ Fanout * r >= max_addr
  <2>1. pc \in WalkPcs
    BY <1>3 DEF WalkPcs
  <2>2. job.level = 0 /\ 0 + 1 = 1
    BY <1>3, <2>1, WalkIs
  <2> QED BY <1>3, <2>1, <2>2, WalkIs
<1>5. r \in Nat /\ i \in 0 .. Fanout - 1 /\ va = (Fanout * r) + i
  BY <1>4, AddressIs
<1>6. /\ mem \in Memory /\ Range(tables) \subseteq Frame /\ Tree(mem, pml4_table, Range(tables), live, at)
      /\ Leaves(mem, max_addr, mapped, live, at)
  BY MemoryType DEF TablesInv
<1>7. /\ \E s \in Regions : size[s] > 0 /\ va = RegionBase[s] + size[s] - 1
      /\ \A e \in mapped : e[1] # va
  BY <1>3 DEF TablesInv, WalkInv, WalkPcs
<1> HIDE DEF va, page, cur, r, i, w, m2, done
<1>8. mem[cur][i] = Word(NULL, {})
  <2>1. "P" \notin mem[cur][i].flags
    <3> SUFFICES ASSUME "P" \in mem[cur][i].flags PROVE FALSE
      OBVIOUS
    <3>1. <<va, mem[cur][i].frame>> \in mapped
      BY <1>4, <1>5, <1>6 DEF Leaves
    <3> QED BY <1>7, <3>1
  <2> QED BY <1>4, <1>5, <1>6, <2>1 DEF Leaves
<1>9. w \in WordSet /\ w.frame = page /\ "P" \in w.flags
  BY <1>4, <1>8, MapWordIs DEF w
<1>10. IsPut(mem, m2, cur, i, w)
  BY <1>3, <1>4, <1>5, <1>6, <1>9, PutIs DEF m2
<1>11. /\ m2 \in Memory /\ m2[cur][i] = w
       /\ \A p \in Frame, k \in 0 .. Fanout - 1 : p # cur \/ k # i => m2[p][k] = mem[p][k]
       /\ \A p \in Frame : p # cur => m2[p] = mem[p]
  BY <1>10 DEF IsPut
\* The entries of other addresses, and the tables above, stay what they are.
<1>12. \A l \in 1 .. 3 : \A q \in live[l] : at[l][q] \in Frame /\ m2[at[l][q]] = mem[at[l][q]]
  <2> SUFFICES ASSUME NEW l \in 1 .. 3, NEW q \in live[l] PROVE at[l][q] \in Frame /\ at[l][q] # cur
    BY <1>11
  <2>1. l \in 0 .. 3 /\ 0 \in 0 .. 3 /\ l # 0
    OBVIOUS
  <2> QED BY <1>4, <1>6, <2>1, Others
<1>13. \A q \in live[0], k \in 0 .. Fanout - 1 : q # r \/ k # i => m2[at[0][q]][k] = mem[at[0][q]][k]
  <2> SUFFICES ASSUME NEW q \in live[0], NEW k \in 0 .. Fanout - 1, q # r \/ k # i
               PROVE  at[0][q] \in Frame /\ (at[0][q] # cur \/ k # i)
    BY <1>11
  <2>1. 0 \in 0 .. 3
    OBVIOUS
  <2>2. at[0][q] \in Frame
    BY <1>6, <2>1 DEF Tree
  <2>3. q # r => at[0][q] # cur
    BY <1>4, <1>6, <2>1, Others
  <2> QED BY <2>2, <2>3
<1>14. \A v \in Nat : Up(v, 1) \in live[0] /\ v # va => Leaf(m2, at, v) = Leaf(mem, at, v)
  <2> SUFFICES ASSUME NEW v \in Nat, Up(v, 1) \in live[0], v # va
               PROVE  m2[at[0][Up(v, 1)]][Index(v, 0)] = mem[at[0][Up(v, 1)]][Index(v, 0)]
    BY DEF Leaf
  <2>1. v = (Fanout * Up(v, 1)) + Index(v, 0) /\ Index(v, 0) \in 0 .. Fanout - 1
    BY AddressIs
  <2>2. Up(v, 1) # r \/ Index(v, 0) # i
    BY <1>5, <2>1
  <2> QED BY <1>13, <2>1, <2>2
<1>15. Leaf(m2, at, va) = w
  BY <1>4, <1>11 DEF Leaf, r, i
<1>16. TypeOK'
  <2>1. /\ first_free_page' \in Frame /\ stale' \subseteq Frame /\ tables' \in Seq(Frame)
        /\ {n', j'} \subseteq Nat /\ job' \in Jobs /\ size' \in [Regions -> 0 .. MaxMapped]
    BY <1>3 DEF TypeOK, Jobs
  <2>2. \A m \in mapped' : m \in Nat \X Frame
    <3>1. \A m \in mapped : m \in Nat \X Frame
      BY DEF TypeOK
    <3> QED BY <1>3, <1>4, <3>1 DEF done
  <2> QED BY <1>3, <1>11, <2>1, <2>2, TypeStep DEF m2
<1>17. CourseInv'
  BY <1>3 DEF CourseInv, LoopPcs, WalkPcs
<1>18. ListInv'
  <2>1. Managed = Conventional \cup (BootCode \ {NULL})
    BY <1>3, ManagedIs
  <2>2. Managed' = Managed
    BY <1>3, <2>1 DEF Managed, Passed, Conventional, BootCode, PagesOf
  <2>3. DataPages' = DataPages
    <3>1. DataPages = {m[2] : m \in mapped} \cup {page}
      BY <1>3 DEF DataPages, page
    <3>2. DataPages' = {m[2] : m \in done}
      BY <1>3 DEF DataPages, done
    <3>3. \A p : p \in {m[2] : m \in done} <=> p \in {m[2] : m \in mapped} \/ p = page
      <4>1. \A m : m \in done <=> m \in mapped \/ m = <<va, page>>
        BY <1>3
      <4>2. <<va, page>>[2] = page
        OBVIOUS
      <4> QED BY <4>1, <4>2
    <3> QED BY <1>3, <3>1, <3>2, <3>3
  <2>4. FreePages \subseteq Frame
    BY <2>1, PagesApart DEF FreePages
  <2>5. \A p \in Frame \ Range(tables) : mem'[p] = mem[p]
    BY <1>4, <1>11 DEF m2
  <2> QED BY <1>3, <2>2, <2>3, <2>4, <2>5, EntriesList
<1>19. Tree(mem', pml4_table', Range(tables'), live, at)
  BY <1>3, <1>6, <1>12, TreeKept DEF m2
<1>20. Leaves(mem', max_addr', mapped', live, at)
  <2> SUFFICES ASSUME NEW q \in live[0], NEW k \in 0 .. Fanout - 1
               PROVE  LET u == m2[at[0][q]][k] IN
                      /\ (Fanout * q) + k < max_addr => u.frame = (Fanout * q) + k
                      /\ (Fanout * q) + k >= max_addr /\ "P" \in u.flags =>
                           <<(Fanout * q) + k, u.frame>> \in done
                      /\ Fanout * q >= max_addr /\ "P" \notin u.flags => u = Word(NULL, {})
    BY <1>3 DEF Leaves, m2, done
  <2>1. CASE q = r /\ k = i
    <3>1. m2[at[0][q]][k] = w /\ (Fanout * q) + k = va
      BY <1>4, <1>5, <1>11, <2>1
    <3>2. <<va, page>> \in done /\ ~ va < max_addr
      BY <1>3, <1>4
    <3> QED BY <1>9, <3>1, <3>2
  <2>2. CASE q # r \/ k # i
    <3>1. m2[at[0][q]][k] = mem[at[0][q]][k]
      BY <1>13, <2>2
    <3> QED BY <1>3, <1>6, <3>1 DEF Leaves
  <2> QED BY <2>1, <2>2
<1>21. Orphans(mem', Range(tables'), live, at)
  <2> SUFFICES ASSUME NEW t \in Range(tables), \A l \in 0 .. 3 : \A q \in live[l] : t # at[l][q],
                      NEW k \in 0 .. Fanout - 1, "P" \in m2[t][k].flags
               PROVE  m2[t][k].frame \notin Described
    BY <1>3 DEF Orphans, m2
  <2>1. 0 \in 0 .. 3
    OBVIOUS
  <2>2. m2[t] = mem[t]
    BY <1>4, <1>6, <1>11, <2>1
  <2> QED BY <2>2 DEF TablesInv, Orphans
<1>22. BuildInv(live)' /\ CoverInv(live)' /\ WalkInv(live, at)'
  BY <1>3 DEF TablesInv, BuildInv, CoverInv, WalkInv, WalkPcs
<1>23. LargeInv(live, at)'
  <2> SUFFICES ASSUME NEW y \in LargeSlots
               PROVE  /\ y \div Fanout \in live[1]
                      /\ m2[at[1][y \div Fanout]][y % Fanout] = LargeWord(y)
    BY <1>3 DEF LargeInv, m2
  <2>1. y \div Fanout \in live[1] /\ mem[at[1][y \div Fanout]][y % Fanout] = LargeWord(y)
    BY <1>3 DEF TablesInv, LargeInv
  <2>2. 1 \in 1 .. 3
    OBVIOUS
  <2> QED BY <1>12, <2>1, <2>2
<1>24. PermissionsInv(at)'
  <2>1. ASSUME NEW k \in DOMAIN MemoryMap, NEW v \in InDescriptor(MemoryMap[k])
        PROVE  Leaf(m2, at, v) = Leaf(mem, at, v)
    <3>1. v \in Described
      BY PagesApart
    <3>2. v \in Nat /\ v < max_addr /\ Up(v, 1) \in live[0]
      BY <1>3, <3>1, InTables
    <3> QED BY <1>4, <1>14, <3>2
  <2> QED BY <1>3, <2>1 DEF TablesInv, PermissionsInv, m2
<1>25. NullInv(at)'
  <2>1. Up(NULL, 1) \in live[0] /\ NULL \in Nat /\ NULL < max_addr
    <3>1. NULL \in 0 .. max_addr - 1 /\ NULL \in Nat /\ NULL < max_addr
      <4>1. max_addr \in Nat \ {0}
        BY <1>3, MemoryIs
      <4> QED BY <4>1 DEF NULL
    <3>2. \A l \in 0 .. 3 : Up(NULL, l + 1) \in live[l]
      BY <1>3, <3>1, LargeIs DEF TablesInv, CoverInv
    <3>3. 0 \in 0 .. 3 /\ 0 + 1 = 1
      OBVIOUS
    <3> QED BY <3>1, <3>2, <3>3
  <2>2. Leaf(m2, at, NULL) = Leaf(mem, at, NULL)
    BY <1>4, <1>14, <2>1
  <2> QED BY <1>3, <2>2 DEF TablesInv, NullInv, m2
<1>26. MappedInv(live, at)'
  <2>1. \A e \in mapped : /\ \E s \in Regions, k \in Nat : k < size[s] /\ e[1] = RegionBase[s] + k
                          /\ \A l \in 0 .. 3 : Up(e[1], l + 1) \in live[l]
                          /\ Leaf(mem, at, e[1]).frame = e[2]
                          /\ "P" \in Leaf(mem, at, e[1]).flags
    BY DEF TablesInv, MappedInv
  <2>2. ASSUME NEW e \in mapped PROVE Leaf(m2, at, e[1]) = Leaf(mem, at, e[1])
    <3>1. e[1] \in Nat /\ Up(e[1], 1) \in live[0] /\ e[1] # va
      BY <1>3, <1>7, MappedAbove
    <3> QED BY <1>14, <3>1
  <2>3. \E s \in Regions, k \in Nat : k < size[s] /\ va = RegionBase[s] + k
    <3>1. PICK s \in Regions : size[s] > 0 /\ va = RegionBase[s] + size[s] - 1
      BY <1>7
    <3>2. size[s] \in Nat /\ RegionBase[s] \in Nat
      BY MapIs, PagingAssumption DEF TypeOK
    <3>3. size[s] - 1 \in Nat /\ size[s] - 1 < size[s] /\ va = RegionBase[s] + (size[s] - 1)
      BY <3>1, <3>2
    <3> QED BY <3>3
  <2>4. \A l \in 0 .. 3 : Up(va, l + 1) \in live[l]
    <3>1. 0 \in 0 .. 3 /\ 0 + 1 = 1 /\ \A l \in 0 .. 3 : l = 0 \/ l \in 0 + 1 .. 3
      OBVIOUS
    <3>2. Up(va, 0 + 1) \in live[0]
      BY <1>4, <3>1 DEF r
    <3>3. \A l \in 0 + 1 .. 3 : Up(va, l + 1) \in live[l]
      BY <1>4, <1>6, <3>1, <3>2, OnPath
    <3> QED BY <3>1, <3>2, <3>3
  <2>5. \A e \in done : /\ \E s \in Regions, k \in Nat : k < size[s] /\ e[1] = RegionBase[s] + k
                        /\ \A l \in 0 .. 3 : Up(e[1], l + 1) \in live[l]
                        /\ Leaf(m2, at, e[1]).frame = e[2]
                        /\ "P" \in Leaf(m2, at, e[1]).flags
    <3> SUFFICES ASSUME NEW e \in done
                 PROVE  /\ \E s \in Regions, k \in Nat : k < size[s] /\ e[1] = RegionBase[s] + k
                        /\ \A l \in 0 .. 3 : Up(e[1], l + 1) \in live[l]
                        /\ Leaf(m2, at, e[1]).frame = e[2]
                        /\ "P" \in Leaf(m2, at, e[1]).flags
      OBVIOUS
    <3>1. CASE e \in mapped
      BY <2>1, <2>2, <3>1
    <3>2. CASE e = <<va, page>>
      <4>1. e[1] = va /\ e[2] = page
        BY <3>2
      <4> QED BY <1>9, <1>15, <2>3, <2>4, <4>1
    <3> QED BY <1>3, <3>1, <3>2
  <2>6. size' = size
    BY <1>3
  <2> QED BY <2>5, <2>6 DEF MappedInv, m2, done
<1>27. TablesInv(live, at)'
  BY <1>19, <1>20, <1>21, <1>22, <1>23, <1>24, <1>25, <1>26 DEF TablesInv
<1> QED BY <1>16, <1>17, <1>18, <1>27

-----------------------------------------------------------------------------
(* The invariant.                                                          *)

\* The tables there are, and where.
Tabled == \E live \in [0 .. 3 -> SUBSET Nat], at \in [0 .. 3 -> [Nat -> Frame]] : TablesInv(live, at)

LEMMA NextKeeps ==
  ASSUME Apart, TypeOK, CourseInv, ListInv, Next,
         NEW live \in [0 .. 3 -> SUBSET Nat], NEW at \in [0 .. 3 -> [Nat -> Frame]],
         TablesInv(live, at)
  PROVE  TypeOK' /\ CourseInv' /\ ListInv' /\ Tabled'
<1>1. TablesInv(live, at)' => Tabled'
  BY DEF Tabled
<1>2. (\E live2 \in [0 .. 3 -> SUBSET Nat], at2 \in [0 .. 3 -> [Nat -> Frame]] : TablesInv(live2, at2)')
        => Tabled'
  BY DEF Tabled
<1>3. CASE ListPage
  BY <1>1, <1>3, ListPageKeeps, ListPageKeepsTables
<1>4. CASE ListBuilt
  BY <1>1, <1>4, ListBuiltKeeps
<1>5. CASE TablesBuilt
  BY <1>1, <1>5, TablesBuiltKeeps
<1>6. CASE LoadCr3
  BY <1>1, <1>6, LoadCr3Keeps
<1>7. CASE InitDone
  BY <1>1, <1>7, InitDoneKeeps
<1>8. CASE MapFrameBuffer
  BY <1>1, <1>8, MapFrameBufferKeeps
<1>9. CASE SetPermissions
  BY <1>1, <1>9, SetPermissionsKeeps
<1>10. CASE UnmapNull
  BY <1>1, <1>10, UnmapNullKeeps
<1>11. CASE ReclaimPage
  BY <1>1, <1>11, ReclaimPageKeeps
<1>12. CASE SetMapEntry
  BY <1>1, <1>12, SetMapEntryKeeps
<1>13. CASE AllocateTable
  BY <1>2, <1>13, AllocateTableKeeps, AllocateTableKeepsTables
<1>14. CASE SetFrameBufferEntry
  <2>1. /\ TypeOK' /\ CourseInv' /\ ListInv'
        /\ \E live2 \in [0 .. 3 -> SUBSET Nat] : TablesInv(live2, at)'
    BY <1>14, SetFrameBufferEntryKeeps
  <2> QED BY <1>2, <2>1
<1>15. CASE OutOfMemory
  BY <1>1, <1>15, OutOfMemoryKeeps
<1>16. CASE EvictTlb
  BY <1>1, <1>16, EvictTlbKeeps
<1>17. CASE WalkDown
  BY <1>2, <1>17, WalkDownKeeps
<1>18. CASE \E r \in Regions : AllocatePage(r)
  BY <1>1, <1>18, AllocatePageKeeps
<1> QED BY <1>3, <1>4, <1>5, <1>6, <1>7, <1>8, <1>9, <1>10, <1>11, <1>12, <1>13, <1>14, <1>15, <1>16, <1>17, <1>18 DEF Next

LEMMA StutterKeeps ==
  ASSUME Inv, UNCHANGED vars
  PROVE  Inv'
<1>1. UNCHANGED <<mem, first_free_page, pml4_table, max_addr, cr3, stale, cpu, pc, n, j, job, size,
                  tables, mapped>>
  BY DEF vars
<1>2. TypeOK'
  <2>1. stale' \subseteq Frame /\ {n', j'} \subseteq Nat
        /\ job' \in [va : Nat, page : Frame, cur : Frame, l : 0 .. 3, level : 0 .. 1]
    BY <1>1 DEF TypeOK, Inv
  <2>2. cr3' \in BOOLEAN /\ cpu' \in {"run", "oom", "pf"}
    BY <1>1, Zenon DEF TypeOK, Inv
  <2> QED BY <1>1, <2>1, <2>2, TypeKept DEF Inv
<1>3. CourseInv'
  BY <1>1 DEF CourseInv, Inv
<1>4. ListInv'
  <2>1. Managed' = Managed /\ DataPages' = DataPages
    BY <1>1 DEF Managed, Passed, DataPages
  <2> QED BY <1>1, <2>1, ListKept DEF Inv
<1>5. PICK live \in [0 .. 3 -> SUBSET Nat], at \in [0 .. 3 -> [Nat -> Frame]] : TablesInv(live, at)
  BY DEF Inv
<1>6. TablesInv(live, at)'
  BY <1>1, <1>5, TablesSame
<1> QED BY <1>2, <1>3, <1>4, <1>6 DEF Inv

LEMMA InvHolds == ASSUME Apart, Blank PROVE Spec => []Inv
<1>1. Init => Inv
  BY InitEstablishes
<1>2. Inv /\ [Next]_vars => Inv'
  <2> SUFFICES ASSUME Inv, [Next]_vars PROVE Inv'
    OBVIOUS
  <2>1. CASE Next
    <3>1. PICK live \in [0 .. 3 -> SUBSET Nat], at \in [0 .. 3 -> [Nat -> Frame]] : TablesInv(live, at)
      BY DEF Inv
    <3>2. TypeOK' /\ CourseInv' /\ ListInv' /\ Tabled'
      BY <2>1, <3>1, NextKeeps DEF Inv
    <3> QED BY <3>2 DEF Inv, Tabled
  <2>2. CASE UNCHANGED vars
    BY <2>2, StutterKeeps
  <2> QED BY <2>1, <2>2
<1> QED BY <1>1, <1>2, PTL DEF Spec

\* The variables of the kernel have their types: every address stays in physical memory
\* and every call in the tables (memory.h:48, memory.c:340).
THEOREM TypeCorrect == Apart /\ Blank => (Spec => []TypeOK)
<1> SUFFICES ASSUME Apart, Blank PROVE Spec => []TypeOK
  OBVIOUS
<1>1. Inv => TypeOK
  BY DEF Inv
<1> QED BY <1>1, InvHolds, PTL

-----------------------------------------------------------------------------
(* What the invariant says of translations.                                *)

LEMMA EntryAtIs ==
  ASSUME NEW v, NEW l
  PROVE  EntryAt(v, l) = mem[Path(mem, pml4_table, v)[l]][Index(v, l)]
BY DEF EntryAt, TableFor

\* An address with tables of its own has the translation of its entry.
LEMMA TranslateSmall ==
  ASSUME NEW live, NEW at, TablesInv(live, at), NEW v \in Nat, Up(v, 1) \in live[0],
         Leaf(mem, at, v).frame \in Nat
  PROVE  /\ Entry(v) = Leaf(mem, at, v)
         /\ Translate(v) = IF "P" \in Leaf(mem, at, v).flags THEN {Leaf(mem, at, v).frame} ELSE {}
<1> DEFINE leaf == Leaf(mem, at, v)
           path == Path(mem, pml4_table, v)
<1>1. Tree(mem, pml4_table, Range(tables), live, at)
  BY DEF TablesInv
<1>2. 0 \in 0 .. 3 /\ 0 + 1 = 1 /\ \A k \in 0 .. 3 : k = 0 \/ k \in 0 + 1 .. 3
  OBVIOUS
<1>3. /\ path[0] = at[0][Up(v, 1)]
      /\ \A k \in 0 + 1 .. 3 : /\ "P" \in mem[path[k]][Index(v, k)].flags
                               /\ "PS" \notin mem[path[k]][Index(v, k)].flags
  BY <1>1, <1>2, OnPath
<1>4. EntryAt(v, 0) = leaf
  BY <1>3, EntryAtIs DEF Leaf
<1>5. \A k \in 0 + 1 .. 3 : "P" \in EntryAt(v, k).flags /\ "PS" \notin EntryAt(v, k).flags
  BY <1>3, EntryAtIs
<1>6. "PS" \notin EntryAt(v, 1).flags
  BY <1>5
<1>7. (\A k \in 0 .. 3 : "P" \in EntryAt(v, k).flags) <=> "P" \in leaf.flags
  BY <1>2, <1>4, <1>5
<1>8. leaf.frame + 0 = leaf.frame
  OBVIOUS
<1> HIDE DEF leaf, path
<1>9. Translate(v) = IF "P" \in leaf.flags THEN {leaf.frame} ELSE {}
  BY <1>4, <1>6, <1>7, <1>8 DEF Translate
<1>10. Entry(v) = leaf
  BY <1>4 DEF Entry
<1> QED BY <1>9, <1>10 DEF leaf

\* One of the framebuffer's has its own.
LEMMA TranslateLarge ==
  ASSUME Apart, NEW live, NEW at, TablesInv(live, at), NEW v \in Nat, Up(v, 1) \in LargeSlots,
         Up(v, 1) \div Fanout \in live[1],
         mem[at[1][Up(v, 1) \div Fanout]][Up(v, 1) % Fanout] = LargeWord(Up(v, 1))
  PROVE  Translate(v) = {v}
<1> DEFINE path == Path(mem, pml4_table, v)
           w == LargeWord(Up(v, 1))
<1>1. Tree(mem, pml4_table, Range(tables), live, at)
  BY DEF TablesInv
<1>2. /\ Up(v, 2) = Up(v, 1) \div Fanout /\ Index(v, 1) = Up(v, 1) % Fanout
  <2>1. 1 \in 0 .. 3 /\ 1 + 1 = 2
    OBVIOUS
  <2> QED BY <2>1, UpIs DEF Index
<1>3. 1 \in 0 .. 3 /\ 1 + 1 = 2 /\ \A k \in 1 .. 3 : k = 1 \/ k \in 1 + 1 .. 3
  OBVIOUS
<1>4. /\ path[1] = at[1][Up(v, 2)]
      /\ \A k \in 1 + 1 .. 3 : "P" \in mem[path[k]][Index(v, k)].flags
  BY <1>1, <1>2, <1>3, OnPath
<1>5. EntryAt(v, 1) = w
  BY <1>2, <1>4, EntryAtIs
<1>6. w.frame = Fanout * Up(v, 1) /\ "P" \in w.flags /\ "PS" \in w.flags
  BY DEF LargeWord, Word
<1>7. \A k \in 1 .. 3 : "P" \in EntryAt(v, k).flags
  BY <1>3, <1>4, <1>5, <1>6, EntryAtIs
<1>8. w.frame + (v % Fanout) = v
  <2>1. Index(v, 0) = v % Fanout
    BY UpIs DEF Index
  <2> QED BY <1>6, <2>1, AddressIs
<1> HIDE DEF w, path
<1> QED BY <1>5, <1>6, <1>7, <1>8 DEF Translate

LEMMA Translations ==
  ASSUME Apart, Inv, cr3
  PROVE  TranslationSound
<1>1. PICK live \in [0 .. 3 -> SUBSET Nat], at \in [0 .. 3 -> [Nat -> Frame]] : TablesInv(live, at)
  BY DEF Inv
<1>2. TypeOK /\ CourseInv /\ pc \in {"reclaim", "run", "map_walk"} /\ max_addr \in Nat \ {0}
  <2>1. TypeOK /\ CourseInv
    BY DEF Inv
  <2>2. pc \in {"reclaim", "run", "map_walk"}
    BY <2>1 DEF CourseInv
  <2> QED BY <2>1, <2>2, MemoryIs
<1>3. \A x \in LargeSlots : /\ x \div Fanout \in live[1]
                            /\ mem[at[1][x \div Fanout]][x % Fanout] = LargeWord(x)
  BY <1>1, <1>2 DEF TablesInv, LargeInv
<1>4. ASSUME NEW v \in 0 .. max_addr - 1, Up(v, 1) \notin LargeSlots
      PROVE  v \in Nat /\ Up(v, 1) \in live[0] /\ Leaf(mem, at, v).frame = v
  <2>1. \A l \in 0 .. 3 : Up(v, l + 1) \in live[l]
    BY <1>1, <1>2, <1>4 DEF TablesInv, CoverInv
  <2>2. 0 \in 0 .. 3 /\ 0 + 1 = 1
    OBVIOUS
  <2>3. v \in Nat /\ v < max_addr /\ Up(v, 1) \in live[0]
    BY <1>2, <2>1, <2>2
  <2>4. v = (Fanout * Up(v, 1)) + Index(v, 0) /\ Index(v, 0) \in 0 .. Fanout - 1
    BY <2>3, AddressIs
  <2> QED BY <1>1, <2>3, <2>4 DEF TablesInv, Leaves, Leaf
<1>5. ASSUME NEW v \in 0 .. max_addr - 1 PROVE Translate(v) \subseteq {v}
  <2>0. v \in Nat
    BY <1>2
  <2>1. CASE Up(v, 1) \in LargeSlots
    BY <1>1, <1>3, <2>0, <2>1, TranslateLarge
  <2>2. CASE Up(v, 1) \notin LargeSlots
    BY <1>1, <1>4, <2>0, <2>2, TranslateSmall
  <2> QED BY <2>1, <2>2
<1>6. Translate(NULL) = {}
  <2>1. NULL \in 0 .. max_addr - 1 /\ Up(NULL, 1) \notin LargeSlots
    BY <1>2, LargeIs DEF NULL
  <2>2. NULL \in Nat /\ Up(NULL, 1) \in live[0] /\ Leaf(mem, at, NULL).frame \in Nat
    BY <1>4, <2>1
  <2>3. "P" \notin Leaf(mem, at, NULL).flags
    BY <1>1, <1>2 DEF TablesInv, NullInv
  <2> QED BY <1>1, <2>2, <2>3, TranslateSmall
<1>7. ASSUME NEW i \in 0 .. FrameBuffer.size - 1
      PROVE  Translate(FrameBuffer.base + i) = {FrameBuffer.base + i}
  <2> DEFINE v == FrameBuffer.base + i
             b == FrameBuffer.base \div Fanout
             c == i \div Fanout
  <2>1. /\ FrameBuffer.base \in Nat /\ FrameBuffer.size \in Nat /\ FrameBuffer.base % Fanout = 0
        /\ i \in Nat /\ i <= FrameBuffer.size /\ v \in Nat
    BY FrameBufferIs DEF Apart
  <2>2. /\ b \in Nat /\ FrameBuffer.base = (Fanout * b) + 0
        /\ c \in Nat /\ i = (Fanout * c) + (i % Fanout) /\ i % Fanout \in 0 .. Fanout - 1
    BY <2>1, DivMod
  <2>3. c <= FrameBuffer.size \div Fanout /\ FrameBuffer.size \div Fanout \in Nat
    BY <2>1, DivMonotone, DivMod
  <2>4. LargeSlots = b .. b + (FrameBuffer.size \div Fanout)
    BY DEF LargeSlots
  <2>5. v = FrameBuffer.base + i
    OBVIOUS
  <2> HIDE DEF v, b, c
  <2>6. Fanout * (b + c) = (Fanout * b) + (Fanout * c) /\ b + c \in Nat
        /\ Fanout * b \in Nat /\ Fanout * c \in Nat
    BY <2>2, FanoutType
  <2>7. v = (Fanout * (b + c)) + (i % Fanout)
    BY <2>2, <2>5, <2>6
  <2>8. Up(v, 1) = b + c
    BY <2>1, <2>2, <2>6, <2>7, AddressIs
  <2>9. Up(v, 1) \in LargeSlots
    BY <2>2, <2>3, <2>4, <2>8
  <2>10. Translate(v) = {v}
    BY <1>1, <1>3, <2>1, <2>9, TranslateLarge
  <2> QED BY <2>10 DEF v
<1>8. ASSUME NEW e \in mapped PROVE Translate(e[1]) = {e[2]}
  <2>1. e[1] \in Nat /\ Up(e[1], 1) \in live[0]
    BY <1>1, <1>2, MappedAbove
  <2>2. e[2] \in Nat
    BY <1>2, FrameNat DEF TypeOK
  <2>3. Leaf(mem, at, e[1]).frame = e[2] /\ "P" \in Leaf(mem, at, e[1]).flags
    BY <1>1 DEF TablesInv, MappedInv
  <2> QED BY <1>1, <2>1, <2>2, <2>3, TranslateSmall
<1> QED BY <1>5, <1>6, <1>7, <1>8 DEF TranslationSound

\* Of two pages that one table leads to, the places are known.
LEMMA PointerIs ==
  ASSUME Apart, TypeOK, CourseInv, ListInv,
         NEW live \in [0 .. 3 -> SUBSET Nat], NEW at, TablesInv(live, at),
         NEW t \in Range(tables), NEW i \in 0 .. Fanout - 1, "P" \in mem[t][i].flags,
         mem[t][i].frame \in Range(tables), ~ \E v \in 0 .. max_addr - 1 : EntryFor(v) = <<t, i>>
  PROVE  \E l \in 1 .. 3 : \E q \in live[l] :
           t = at[l][q] /\ (Fanout * q) + i \in live[l - 1] /\ mem[t][i].frame = at[l - 1][(Fanout * q) + i]
<1> DEFINE frame == mem[t][i].frame
<1>1. /\ Tree(mem, pml4_table, Range(tables), live, at)
      /\ Leaves(mem, max_addr, mapped, live, at) /\ Orphans(mem, Range(tables), live, at)
      /\ max_addr \in Nat
  BY DEF TablesInv, TypeOK
<1>2. frame \in Described /\ frame \notin DataPages
  <2>1. Managed \subseteq Described
    <3>1. Walked("Conventional", n, j) \subseteq Conventional
      BY DEF Walked, Conventional, PagesOf
    <3>2. Walked("BootServicesCode", n, j) \subseteq BootCode
      BY DEF Walked, BootCode, PagesOf
    <3> QED BY <3>1, <3>2, ManagedIs, PagesApart
  <2> QED BY <2>1 DEF ListInv
<1>3. PICK l \in 0 .. 3 : \E q \in live[l] : t = at[l][q]
  BY <1>1, <1>2 DEF Orphans
<1>4. PICK q \in live[l] : t = at[l][q]
  BY <1>3
<1>5. q \in Nat
  BY <1>3, <1>4
<1>6. l # 0
  <2> SUFFICES ASSUME l = 0 PROVE FALSE
    OBVIOUS
  <2> DEFINE v == (Fanout * q) + i
  <2>1. v \in Nat /\ Up(v, 1) = q /\ Index(v, 0) = i
    <3>1. v \in Nat
      BY <1>5, PlaceIs
    <3> QED BY <1>5, <3>1, AddressIs
  <2>2. EntryFor(v) = <<t, i>>
    BY <1>4, <2>1, EntryForIs
  <2>3. v >= max_addr
    BY <1>1, <2>1, <2>2
  <2>4. <<v, frame>> \in mapped
    BY <1>1, <1>4, <2>3 DEF Leaves
  <2>5. frame \in DataPages
    BY <2>4 DEF DataPages
  <2> QED BY <1>2, <2>5
<1>7. l \in 1 .. 3
  BY <1>6
<1>8. (Fanout * q) + i \in live[l - 1]
  <2> SUFFICES ASSUME (Fanout * q) + i \notin live[l - 1] PROVE FALSE
    OBVIOUS
  <2>1. (Fanout * q) + i \in LargeSlots /\ mem[t][i] = LargeWord((Fanout * q) + i)
    <3>1. \A k \in 1 .. 3 : \A r \in live[k], c \in 0 .. Fanout - 1 :
            "P" \in mem[at[k][r]][c].flags =>
              \/ (Fanout * r) + c \in live[k - 1]
              \/ (Fanout * r) + c \in LargeSlots /\ mem[at[k][r]][c] = LargeWord((Fanout * r) + c)
      BY <1>1, SMTT(30) DEF Tree
    <3> QED BY <1>4, <1>7, <3>1
  <2>2. frame = Fanout * ((Fanout * q) + i)
    BY <2>1 DEF LargeWord, Word
  <2> QED BY <1>2, <2>1, <2>2, LargeIs
<1>9. frame = at[l - 1][(Fanout * q) + i]
  <2> DEFINE x == (Fanout * q) + i
             k == l - 1
  <2>1. k \in 0 .. 2 /\ k + 1 = l
    BY <1>7
  <2>2. x \div Fanout = q /\ x % Fanout = i
    BY <1>5, PlaceIs
  <2>3. x \in live[k]
    BY <1>8
  <2> HIDE DEF x, k
  <2>4. mem[at[k + 1][x \div Fanout]][x % Fanout].frame = at[k][x]
    BY <1>1, <2>1, <2>3 DEF Tree
  <2>5. frame = at[k][x]
    BY <1>4, <2>1, <2>2, <2>4
  <2> QED BY <2>5 DEF x, k
<1> QED BY <1>4, <1>7, <1>8, <1>9

LEMMA Pointers ==
  ASSUME Apart, Inv
  PROVE  TablesAreATree
<1> DEFINE pointers == {e \in Range(tables) \X (0 .. Fanout - 1) :
                          /\ "P" \in mem[e[1]][e[2]].flags
                          /\ mem[e[1]][e[2]].frame \in Range(tables)
                          /\ ~ \E v \in 0 .. max_addr - 1 : EntryFor(v) = e}
<1>1. PICK live \in [0 .. 3 -> SUBSET Nat], at \in [0 .. 3 -> [Nat -> Frame]] : TablesInv(live, at)
  BY DEF Inv
<1>2. TypeOK /\ CourseInv /\ ListInv /\ Tree(mem, pml4_table, Range(tables), live, at)
  BY <1>1 DEF Inv, TablesInv
<1>3. IsInjective(tables) /\ Range(tables) \cap DataPages = {}
  BY <1>2 DEF ListInv
<1>4. ASSUME NEW a \in pointers
      PROVE  /\ a[2] \in 0 .. Fanout - 1 /\ a = <<a[1], a[2]>>
             /\ \E l \in 1 .. 3 : \E q \in live[l] :
                  /\ a[1] = at[l][q] /\ (Fanout * q) + a[2] \in live[l - 1]
                  /\ mem[a[1]][a[2]].frame = at[l - 1][(Fanout * q) + a[2]]
  <2>1. a[1] \in Range(tables) /\ a[2] \in 0 .. Fanout - 1 /\ a = <<a[1], a[2]>>
    OBVIOUS
  <2>2. /\ "P" \in mem[a[1]][a[2]].flags /\ mem[a[1]][a[2]].frame \in Range(tables)
        /\ ~ \E v \in 0 .. max_addr - 1 : EntryFor(v) = <<a[1], a[2]>>
    BY <2>1
  <2> QED BY <1>1, <1>2, <2>1, <2>2, PointerIs, SMTT(30)
<1> HIDE DEF pointers
<1>5. ASSUME NEW a \in pointers, NEW b \in pointers, mem[a[1]][a[2]].frame = mem[b[1]][b[2]].frame
      PROVE  a = b
  <2>1. PICK l \in 1 .. 3 : \E q \in live[l] :
          /\ a[1] = at[l][q] /\ (Fanout * q) + a[2] \in live[l - 1]
          /\ mem[a[1]][a[2]].frame = at[l - 1][(Fanout * q) + a[2]]
    BY <1>4
  <2>1a. PICK q \in live[l] :
          /\ a[1] = at[l][q] /\ (Fanout * q) + a[2] \in live[l - 1]
          /\ mem[a[1]][a[2]].frame = at[l - 1][(Fanout * q) + a[2]]
    BY <2>1
  <2>2. PICK k \in 1 .. 3 : \E r \in live[k] :
          /\ b[1] = at[k][r] /\ (Fanout * r) + b[2] \in live[k - 1]
          /\ mem[b[1]][b[2]].frame = at[k - 1][(Fanout * r) + b[2]]
    BY <1>4
  <2>2a. PICK r \in live[k] :
          /\ b[1] = at[k][r] /\ (Fanout * r) + b[2] \in live[k - 1]
          /\ mem[b[1]][b[2]].frame = at[k - 1][(Fanout * r) + b[2]]
    BY <2>2
  <2>3. q \in Nat /\ r \in Nat /\ l - 1 \in 0 .. 3 /\ k - 1 \in 0 .. 3
    OBVIOUS
  <2>4. at[l - 1][(Fanout * q) + a[2]] = at[k - 1][(Fanout * r) + b[2]]
    BY <1>5, <2>1a, <2>2a
  <2>5. l - 1 = k - 1 /\ (Fanout * q) + a[2] = (Fanout * r) + b[2]
    <3>1. \A c, d \in 0 .. 3 : \A x \in live[c], y \in live[d] : at[c][x] = at[d][y] => c = d /\ x = y
      BY <1>2 DEF Tree
    <3> QED BY <2>1a, <2>2a, <2>3, <2>4, <3>1
  <2>6. l = k
    BY <2>5
  <2>7. a[2] \in 0 .. Fanout - 1 /\ b[2] \in 0 .. Fanout - 1 /\ a = <<a[1], a[2]>> /\ b = <<b[1], b[2]>>
    BY <1>4
  <2>8. q = r /\ a[2] = b[2]
    BY <2>3, <2>5, <2>7, DivModUnique
  <2> QED BY <2>1a, <2>2a, <2>6, <2>7, <2>8
<1> QED BY <1>3, <1>5 DEF TablesAreATree, pointers

LEMMA Protection ==
  ASSUME Apart, Inv, cr3, NEW v \in Described \ (Conventional \cup BootCode)
  PROVE  IF v \in Code THEN "W" \notin Entry(v).flags ELSE "NX" \in Entry(v).flags
<1>1. PICK live \in [0 .. 3 -> SUBSET Nat], at \in [0 .. 3 -> [Nat -> Frame]] : TablesInv(live, at)
  BY DEF Inv
<1>2. TypeOK /\ CourseInv /\ pc \in {"reclaim", "run", "map_walk"}
  BY DEF Inv, CourseInv
<1>3. v \in Nat /\ v < max_addr /\ Up(v, 1) \in live[0]
  BY <1>1, <1>2, InTables
<1>4. Leaf(mem, at, v).frame = v
  <2>1. v = (Fanout * Up(v, 1)) + Index(v, 0) /\ Index(v, 0) \in 0 .. Fanout - 1
    BY <1>3, AddressIs
  <2>2. \A q \in live[0], i \in 0 .. Fanout - 1 :
          (Fanout * q) + i < max_addr => mem[at[0][q]][i].frame = (Fanout * q) + i
    BY <1>1 DEF TablesInv, Leaves
  <2> QED BY <1>3, <2>1, <2>2 DEF Leaf
<1>5. Entry(v) = Leaf(mem, at, v)
  BY <1>1, <1>3, <1>4, TranslateSmall
<1>6. PICK k \in DOMAIN MemoryMap : v \in InDescriptor(MemoryMap[k])
  BY PagesAre DEF Described
<1>7. v \in Code <=> IsCode(MemoryMap[k])
  BY <1>6, PagesAre DEF Code, IsCode
<1>8. MemoryMap[k].type # "Conventional"
  BY <1>6, PagesApart
<1>9. IF IsCode(MemoryMap[k]) THEN "W" \notin Leaf(mem, at, v).flags
      ELSE MemoryMap[k].type # "Conventional" => "NX" \in Leaf(mem, at, v).flags
  BY <1>1, <1>2, <1>6 DEF TablesInv, PermissionsInv
<1> QED BY <1>5, <1>7, <1>8, <1>9

\* If memory ends below the regions, a conventional descriptor is not the last one, the
\* framebuffer has large pages of its own, and free memory no present bits: from the moment
\* the kernel's own tables are in force, memory is at its own address or unmapped, NULL is
\* unmapped, the framebuffer is where it is, and every page that map_page was given is where
\* it was put (memory.h:48); no later step takes any of this back.
THEOREM TranslationIsSound == Apart /\ Blank => (Spec => []TranslationSound)
<1> SUFFICES ASSUME Apart, Blank PROVE Spec => []TranslationSound
  OBVIOUS
<1>1. Inv => TranslationSound
  BY Translations DEF TranslationSound
<1> QED BY <1>1, InvHolds, PTL

\* No page is taken for a table twice or handed out as data as well, and the tables above
\* the entries of memory hang together as a tree, even while the framebuffer's entries
\* replace tables of it (allocate_page_inner, allocate_tables, create_memory_entry_for).
THEOREM TablesStayATree == Apart /\ Blank => (Spec => []TablesAreATree)
<1> SUFFICES ASSUME Apart, Blank PROVE Spec => []TablesAreATree
  OBVIOUS
<1>1. Inv => TablesAreATree
  BY Pointers
<1> QED BY <1>1, InvHolds, PTL

\* create_memory_entry_for never follows an entry that does not lead to a table, be it a
\* large page, the first entry of an address, or the link of a page that was free, except
\* one that the firmware left there (memory.c:340, 307-318).
THEOREM WalkInTables == Apart => (Spec => []WalkStaysInTables)
<1> SUFFICES ASSUME Apart PROVE Spec => []WalkStaysInTables
  OBVIOUS
<1>1. CASE Blank
  <2>1. Inv => WalkStaysInTables
    <3> SUFFICES ASSUME Inv, pc \in WalkPcs PROVE job.cur \in Range(tables)
      BY DEF WalkStaysInTables, EntriesLeadToTables, WalkPcs
    <3>1. PICK live \in [0 .. 3 -> SUBSET Nat], at \in [0 .. 3 -> [Nat -> Frame]] : TablesInv(live, at)
      BY DEF Inv
    <3> QED BY <3>1, WalkIs DEF Inv
  <2>2. Spec => []Inv
    BY <1>1, InvHolds
  <2> QED BY <2>1, <2>2, PTL
<1>2. CASE ~Blank
  <2>1. WalkStaysInTables
    BY <1>2 DEF WalkStaysInTables
  <2> QED BY <2>1, PTL
<1> QED BY <1>1, <1>2

\* Code that the memory map describes stays not writeable, and what it describes that is
\* neither code nor conventional nor reclaimed stays not executable, whatever is allocated
\* and mapped later (memory.c:167).
THEOREM Protected == Apart /\ Blank => (Spec => []CodeAndDataProtected)
<1> SUFFICES ASSUME Apart, Blank PROVE Spec => []CodeAndDataProtected
  OBVIOUS
<1>1. Inv => CodeAndDataProtected
  BY Protection DEF CodeAndDataProtected
<1> QED BY <1>1, InvHolds, PTL
=============================================================================
