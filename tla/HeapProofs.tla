----------------------------- MODULE HeapProofs -----------------------------
(***************************************************************************)
(* The invariants of the heap, for every size of page and of memory.       *)
(*                                                                         *)
(* The free list is a function of memory that is followed from freep, so   *)
(* the proofs need induction, over the steps of a walk and over the        *)
(* addresses of the blocks.  It is had from the well-foundedness of the    *)
(* naturals, for sets in place of predicates.                              *)
(***************************************************************************)
EXTENDS Heap, FiniteSetTheorems, TLAPS

-----------------------------------------------------------------------------
(* Naturals.                                                               *)

\* Every set of naturals that is not empty has a least element.
LEMMA MinNat ==
  ASSUME NEW T \in SUBSET Nat, T # {}
  PROVE  \E x \in T : \A y \in T : x <= y
<1> DEFINE R == {p \in Nat \X Nat : p[1] < p[2]}
<1>1. IsWellFoundedOn(R, Nat)
  BY NatLessThanWellFounded DEF OpToRel
<1>2. \A x, y \in Nat : x < y => <<x, y>> \in R
  OBVIOUS
<1>3. PICK x \in T : \A y \in T : <<y, x>> \notin R
  <2> HIDE DEF R
  <2> QED BY <1>1, WFMin
<1>4. ASSUME NEW y \in T PROVE x <= y
  <2> HIDE DEF R
  <2>1. x \in Nat /\ y \in Nat /\ ~(y < x)
    BY <1>2, <1>3
  <2> QED BY <2>1
<1> QED BY <1>4

\* Induction: a set with 0, and with k + 1 whenever it has k, has every natural.
LEMMA SetInduction ==
  ASSUME NEW S, 0 \in S, \A k \in Nat : k \in S => k + 1 \in S
  PROVE  \A k \in Nat : k \in S
<1> SUFFICES ASSUME NEW k \in Nat, k \notin S PROVE FALSE
  OBVIOUS
<1> DEFINE T == {n \in Nat : n \notin S}
<1>1. PICK x \in T : \A y \in T : x <= y
  <2>1. T \in SUBSET Nat /\ T # {}
    OBVIOUS
  <2> HIDE DEF T
  <2> QED BY <2>1, MinNat
<1>2. x # 0 /\ x \in Nat
  OBVIOUS
<1>3. x - 1 \in Nat /\ x - 1 \in S
  BY <1>1, <1>2
<1>4. (x - 1) + 1 \in S
  BY <1>3
<1> QED BY <1>2, <1>4

\* Every bounded set of naturals that is not empty has a greatest element.
LEMMA MaxNat ==
  ASSUME NEW T \in SUBSET Nat, T # {}, NEW n \in Nat, \A x \in T : x <= n
  PROVE  \E x \in T : \A y \in T : y <= x
<1> DEFINE D == {n - x : x \in T}
<1>1. D \in SUBSET Nat /\ D # {}
  <2>1. ASSUME NEW x \in T PROVE n - x \in Nat
    <3>1. x \in Nat /\ x <= n
      OBVIOUS
    <3> QED BY <3>1
  <2> QED BY <2>1
<1>2. PICK d \in D : \A y \in D : d <= y
  <2> HIDE DEF D
  <2> QED BY <1>1, MinNat
<1>3. PICK x \in T : d = n - x
  OBVIOUS
<1>4. ASSUME NEW y \in T PROVE y <= x
  <2>1. n - y \in D
    OBVIOUS
  <2>2. d <= n - y
    BY <1>2, <2>1
  <2> QED BY <1>3, <2>2
<1> QED BY <1>4

\* Min of the community modules, for naturals.
LEMMA MinProperties ==
  ASSUME NEW T \in SUBSET Nat, T # {}
  PROVE  Min(T) \in T /\ \A y \in T : Min(T) <= y
BY MinNat DEF Min

-----------------------------------------------------------------------------
(* A walk.                                                                 *)

\* What the first n steps of a walk from start are.
IsWalk(m, start, n, f) ==
  /\ f \in [0 .. n -> Address]
  /\ f[0] = start
  /\ \A i \in 0 .. n - 1 : f[i + 1] = m[f[i]]

\* Two walks from the same start agree as far as both go.
LEMMA WalksAgree ==
  ASSUME NEW m, NEW start, NEW n \in Nat, NEW k \in Nat, n <= k,
         NEW f, IsWalk(m, start, n, f), NEW g, IsWalk(m, start, k, g)
  PROVE  \A i \in 0 .. n : f[i] = g[i]
<1> DEFINE S == {i \in Nat : i <= n => f[i] = g[i]}
<1>1. 0 \in S
  BY DEF IsWalk
<1>2. ASSUME NEW i \in Nat, i \in S PROVE i + 1 \in S
  <2>1. SUFFICES ASSUME i + 1 <= n PROVE f[i + 1] = g[i + 1]
    OBVIOUS
  <2>2. i \in 0 .. n - 1 /\ i \in 0 .. k - 1 /\ f[i] = g[i]
    BY <1>2, <2>1
  <2> QED BY <2>2 DEF IsWalk
<1>3. \A i \in Nat : i \in S
  <2> HIDE DEF S
  <2> QED BY <1>1, <1>2, SetInduction
<1> QED BY <1>3

\* A walk can be continued without end.
LEMMA WalkExists ==
  ASSUME NEW m \in [Address -> Address], NEW start \in Address
  PROVE  \E f \in [Nat -> Address] :
           f = [i \in Nat |-> IF i = 0 THEN start ELSE m[f[i - 1]]]
<1> DEFINE S == {n \in Nat : \E f : IsWalk(m, start, n, f)}
<1>1. 0 \in S
  <2>1. IsWalk(m, start, 0, [i \in 0 .. 0 |-> start])
    BY DEF IsWalk
  <2> QED BY <2>1
<1>2. ASSUME NEW n \in Nat, n \in S PROVE n + 1 \in S
  <2>1. PICK f : IsWalk(m, start, n, f)
    BY <1>2
  <2> DEFINE g == [i \in 0 .. n + 1 |-> IF i = n + 1 THEN m[f[n]] ELSE f[i]]
  <2>2. f \in [0 .. n -> Address] /\ f[n] \in Address /\ m[f[n]] \in Address
    BY <2>1 DEF IsWalk
  <2>3. g \in [0 .. n + 1 -> Address] /\ g[0] = start
    BY <2>1, <2>2 DEF IsWalk
  <2>4. ASSUME NEW i \in 0 .. n PROVE g[i + 1] = m[g[i]]
    <3>1. CASE i = n
      BY <3>1
    <3>2. CASE i # n
      <4>1. i \in 0 .. n - 1
        BY <3>2
      <4> QED BY <4>1, <2>1 DEF IsWalk
    <3> QED BY <3>1, <3>2
  <2>5. IsWalk(m, start, n + 1, g)
    <3> HIDE DEF g
    <3>1. (n + 1) - 1 = n
      OBVIOUS
    <3> QED BY <2>3, <2>4, <3>1 DEF IsWalk
  <2> QED BY <2>5
<1>3. \A n \in Nat : n \in S
  <2> HIDE DEF S
  <2> QED BY <1>1, <1>2, SetInduction
<1> DEFINE W(n) == CHOOSE f : IsWalk(m, start, n, f)
           h == [n \in Nat |-> W(n)[n]]
<1>4. ASSUME NEW n \in Nat PROVE IsWalk(m, start, n, W(n))
  BY <1>3
<1>5. ASSUME NEW n \in Nat PROVE W(n)[n] \in Address
  <2> HIDE DEF W
  <2> QED BY <1>4 DEF IsWalk
<1>6. W(0)[0] = start
  <2> HIDE DEF W
  <2> QED BY <1>4 DEF IsWalk
<1>7. ASSUME NEW n \in Nat, n # 0 PROVE W(n)[n] = m[W(n - 1)[n - 1]]
  <2> HIDE DEF W
  <2>1. n - 1 \in Nat /\ n - 1 <= n /\ n - 1 \in 0 .. n - 1 /\ (n - 1) + 1 = n
    BY <1>7
  <2>2. W(n)[n] = m[W(n)[n - 1]]
    BY <1>4, <2>1 DEF IsWalk
  <2>3. IsWalk(m, start, n - 1, W(n - 1)) /\ IsWalk(m, start, n, W(n))
    BY <1>4, <2>1
  <2>4. W(n - 1)[n - 1] = W(n)[n - 1]
    BY <2>1, <2>3, WalksAgree
  <2> QED BY <2>2, <2>4
<1>8. h \in [Nat -> Address]
  <2> HIDE DEF W
  <2> QED BY <1>5
<1>9. ASSUME NEW i \in Nat
      PROVE  h[i] = IF i = 0 THEN start ELSE m[h[i - 1]]
  <2> HIDE DEF W
  <2> QED BY <1>6, <1>7
<1>10. h = [i \in Nat |-> IF i = 0 THEN start ELSE m[h[i - 1]]]
  <2> HIDE DEF W
  <2>1. h = [i \in Nat |-> h[i]]
    OBVIOUS
  <2> HIDE DEF h
  <2> QED BY <1>9, <2>1
<1> HIDE DEF h
<1> QED BY <1>8, <1>10

\* The walk of the model, step by step.
LEMMA WalkSteps ==
  ASSUME NEW m \in [Address -> Address], NEW start \in Address
  PROVE  /\ Walk(m, start) \in [Nat -> Address]
         /\ Walk(m, start)[0] = start
         /\ \A i \in Nat : Walk(m, start)[i + 1] = m[Walk(m, start)[i]]
<1> DEFINE P(f) == f = [i \in Nat |-> IF i = 0 THEN start ELSE m[f[i - 1]]]
           w == Walk(m, start)
<1>1. \E f \in [Nat -> Address] : P(f)
  BY WalkExists
<1>2. w = CHOOSE f : P(f)
  BY DEF Walk, Next_
<1>3. P(w)
  <2> HIDE DEF w, P
  <2> QED BY <1>1, <1>2
<1>4. w[0] = start /\ \A i \in Nat : w[i + 1] = m[w[i]]
  <2> HIDE DEF w
  <2>1. w[0] = start
    BY <1>3
  <2>2. ASSUME NEW i \in Nat PROVE w[i + 1] = m[w[i]]
    <3>1. i + 1 \in Nat /\ i + 1 # 0 /\ (i + 1) - 1 = i
      OBVIOUS
    <3> QED BY <1>3, <3>1
  <2> QED BY <2>1, <2>2
<1>5. w \in [Nat -> Address]
  <2> HIDE DEF w
  <2> DEFINE S == {i \in Nat : w[i] \in Address}
  <2>1. 0 \in S
    BY <1>4
  <2>2. ASSUME NEW i \in Nat, i \in S PROVE i + 1 \in S
    BY <1>4, <2>2
  <2>3. \A i \in Nat : i \in S
    <3> HIDE DEF S
    <3> QED BY <2>1, <2>2, SetInduction
  <2>4. w = [i \in Nat |-> w[i]]
    BY <1>3
  <2> QED BY <2>3, <2>4
<1> QED BY <1>4, <1>5

-----------------------------------------------------------------------------
(* The free list.                                                          *)

LEMMA Constants ==
  /\ M \in Nat /\ PAGE \in Nat /\ HEAP \in Nat /\ MaxPages \in Nat
  /\ PAGE * MaxPages \in Nat
  /\ 2 <= PAGE /\ 3 <= HEAP /\ HEAP + PAGE * MaxPages + 2 < M
  /\ Sizes \subseteq 0 .. M - 1
<1>1. M \in Nat /\ PAGE \in Nat /\ HEAP \in Nat /\ MaxPages \in Nat
  BY HeapAssumption DEF HeapAssumption
<1>2. PAGE * MaxPages \in Nat
  BY <1>1
<1> QED BY <1>1, <1>2, HeapAssumption DEF HeapAssumption, HDR, base

\* The blocks F are linked by m in the order of addresses, and the last to base.
Cyclic(m, F) ==
  /\ base \in F
  /\ \A f \in F : m[f] \in F
  /\ \A f, g \in F : f < g => f < m[f] /\ m[f] <= g
  /\ \A f \in F : (\A g \in F : g <= f) => m[f] = base

\* Where the headers of free blocks can be.
Placed(F) ==
  /\ \A f \in F : f = base \/ f \in HEAP .. HEAP + PAGE * MaxPages - HDR
  /\ \A f, g \in F : f < g => f + HDR <= g

LEMMA PlacedInAddress ==
  ASSUME NEW F, Placed(F)
  PROVE  F \subseteq Address /\ F \subseteq Nat /\ \A f \in F : base <= f /\ f <= M
<1>1. ASSUME NEW f \in F PROVE f \in Nat /\ f < M /\ base <= f
  BY Constants DEF Placed, base, HDR
<1> QED BY <1>1, Constants DEF Address

\* A part of the list that a walk does not leave is the whole list.
LEMMA ClosedIsAll ==
  ASSUME NEW m, NEW F, Placed(F), Cyclic(m, F),
         NEW B \in SUBSET F, B # {}, \A f \in B : m[f] \in B
  PROVE  B = F
<1>1. F \subseteq Nat /\ M \in Nat /\ \A f \in F : base <= f /\ f <= M
  BY PlacedInAddress, Constants
<1>2. base \in B
  <2>1. B \in SUBSET Nat /\ \A f \in B : f <= M
    BY <1>1
  <2>2. PICK y \in B : \A f \in B : f <= y
    BY <2>1, <1>1, MaxNat
  <2>3. m[y] \in B /\ m[y] <= y /\ y \in Nat /\ m[y] \in Nat
    BY <2>1, <2>2
  <2>4. ASSUME NEW g \in F PROVE g <= y
    <3>1. g \in Nat /\ ~(y < g)
      BY <1>1, <2>3 DEF Cyclic
    <3> QED BY <3>1, <2>3
  <2> QED BY <2>3, <2>4 DEF Cyclic
<1>3. SUFFICES ASSUME F \ B # {} PROVE FALSE
  OBVIOUS
<1>4. PICK z \in F \ B : \A f \in F \ B : z <= f
  <2>1. F \ B \in SUBSET Nat
    BY <1>1
  <2> QED BY <2>1, <1>3, MinNat
<1> DEFINE Below == {f \in F : f < z}
<1>5. base \in Nat /\ z \in Nat /\ base < z
  BY <1>1, <1>2, <1>4 DEF base
<1>6. PICK p \in Below : \A f \in Below : f <= p
  <2>1. Below \in SUBSET Nat /\ Below # {} /\ \A f \in Below : f <= M
    BY <1>1, <1>5, <1>2
  <2> HIDE DEF Below
  <2> QED BY <2>1, <1>1, MaxNat
<1>7. p \in F /\ p < z /\ p \in Nat
  BY <1>1
<1>8. p \in B
  BY <1>4, <1>5, <1>7
<1>9. m[p] \in B /\ m[p] \in F /\ m[p] \in Nat /\ p < m[p] /\ m[p] <= z
  BY <1>1, <1>7, <1>8, <1>4 DEF Cyclic
<1>10. m[p] # z
  BY <1>4, <1>9
<1>11. m[p] \in Below
  BY <1>9, <1>10, <1>5
<1>12. m[p] <= p
  BY <1>6, <1>11
<1> QED BY <1>7, <1>9, <1>12

\* There is room for no more than MaxBlocks headers, base included.
Slot(f) == IF f = base THEN (PAGE * MaxPages) \div HDR ELSE (f - HEAP) \div HDR

LEMMA SlotInjective ==
  ASSUME NEW F, Placed(F), NEW f \in F, NEW g \in F
  PROVE  /\ Slot(f) \in 0 .. (PAGE * MaxPages) \div HDR
         /\ Slot(f) = Slot(g) => f = g
<1> DEFINE P == PAGE * MaxPages
<1>1. P \in Nat /\ HEAP \in Nat /\ 3 <= HEAP
  BY Constants
<1>2. ASSUME NEW h \in F PROVE h = base \/ (h \in HEAP .. HEAP + P - 2)
  BY DEF Placed, HDR
<1>3. f < g => f + 2 <= g
  BY DEF Placed, HDR
<1>4. g < f => g + 2 <= f
  BY DEF Placed, HDR
<1> HIDE DEF P
<1>5. ASSUME NEW h \in F PROVE Slot(h) = IF h = base THEN P \div 2 ELSE (h - HEAP) \div 2
  BY DEF Slot, P, HDR
<1>6. ASSUME NEW h \in F PROVE Slot(h) \in 0 .. P \div 2
  BY <1>1, <1>2, <1>5
<1>7. ASSUME Slot(f) = Slot(g) PROVE f = g
  <2>1. CASE f = base
    BY <1>1, <1>2, <1>5, <1>7, <2>1 DEF base
  <2>2. CASE g = base
    BY <1>1, <1>2, <1>5, <1>7, <2>2 DEF base
  <2>3. CASE f # base /\ g # base
    BY <1>1, <1>2, <1>3, <1>4, <1>5, <1>7, <2>3
  <2> QED BY <2>1, <2>2, <2>3
<1> QED BY <1>6, <1>7 DEF P, HDR

\* What MaxBlocks steps from a block visit is the whole list, and they come back to it.
LEMMA BlocksFromIsAll ==
  ASSUME NEW m \in [Address -> Address], NEW F, Placed(F), Cyclic(m, F), NEW start \in F
  PROVE  /\ BlocksFrom(m, start) = F
         /\ \E k \in 1 .. MaxBlocks : Walk(m, start)[k] = start
<1> DEFINE w == Walk(m, start)
           N == MaxBlocks
           T == 0 .. (PAGE * MaxPages) \div HDR
<1>1. F \subseteq Address
  BY PlacedInAddress
<1>2. w[0] = start /\ \A i \in Nat : w[i + 1] = m[w[i]]
  BY <1>1, WalkSteps
<1> HIDE DEF w
<1>3. \A i \in Nat : w[i] \in F
  <2> DEFINE S == {i \in Nat : w[i] \in F}
  <2>1. 0 \in S
    BY <1>2
  <2>2. ASSUME NEW i \in Nat, i \in S PROVE i + 1 \in S
    BY <1>2, <2>2 DEF Cyclic
  <2>3. \A i \in Nat : i \in S
    <3> HIDE DEF S
    <3> QED BY <2>1, <2>2, SetInduction
  <2> QED BY <2>3
<1>4. (PAGE * MaxPages) \div HDR \in Nat /\ N \in Nat /\ N = (PAGE * MaxPages) \div HDR + 1
  BY Constants DEF MaxBlocks, HDR
<1> HIDE DEF N
<1>5. PICK i, j \in 0 .. N : i < j /\ w[i] = w[j]
  <2> DEFINE f == [i \in 0 .. N |-> Slot(w[i])]
  <2>1. f \in [0 .. N -> T]
    BY <1>3, <1>4, SlotInjective
  <2>2. IsFiniteSet(0 .. N) /\ Cardinality(0 .. N) = N + 1
    BY <1>4, FS_Interval
  <2>3. IsFiniteSet(T) /\ Cardinality(T) = N
    BY <1>4, FS_Interval
  <2>4. Cardinality(T) < Cardinality(0 .. N)
    BY <2>2, <2>3, <1>4
  <2>5. PICK x, y \in 0 .. N : x # y /\ f[x] = f[y]
    <3> HIDE DEF f, T
    <3> QED BY <2>1, <2>2, <2>3, <2>4, FS_PigeonHole
  <2>6. w[x] = w[y]
    <3>1. Slot(w[x]) = Slot(w[y]) /\ w[x] \in F /\ w[y] \in F
      BY <2>5, <1>3, <1>4
    <3> QED BY <3>1, SlotInjective
  <2>7. x < y \/ y < x
    BY <2>5, <1>4
  <2> QED BY <2>6, <2>7
<1> DEFINE B == {w[k] : k \in i .. j - 1}
<1>6. B \in SUBSET F /\ B # {}
  BY <1>3, <1>4, <1>5
<1>7. ASSUME NEW f \in B PROVE m[f] \in B
  <2>1. PICK k \in i .. j - 1 : f = w[k]
    OBVIOUS
  <2>2. k \in Nat /\ m[f] = w[k + 1]
    BY <2>1, <1>2, <1>4
  <2>3. CASE k + 1 = j
    BY <2>2, <2>3, <1>4, <1>5
  <2>4. CASE k + 1 # j
    <3>1. k + 1 \in i .. j - 1
      BY <2>1, <2>2, <2>4, <1>4
    <3> QED BY <2>2, <3>1
  <2> QED BY <2>3, <2>4
<1>8. B = F
  <2> HIDE DEF B
  <2> QED BY <1>6, <1>7, ClosedIsAll
<1>9. BlocksFrom(m, start) = {w[k] : k \in 0 .. N}
  BY DEF BlocksFrom, w, N
<1>10. B \subseteq BlocksFrom(m, start)
  BY <1>4, <1>9
<1>11. BlocksFrom(m, start) \subseteq F
  BY <1>3, <1>4, <1>9
<1>12. PICK k \in i .. j - 1 : w[k] = start
  BY <1>8
<1>13. \E l \in 1 .. N : w[l] = start
  <2>1. CASE k = 0
    <3>1. i = 0 /\ j \in 1 .. N
      BY <1>4, <1>5, <1>12, <2>1
    <3> QED BY <1>5, <1>12, <2>1, <3>1
  <2>2. CASE k # 0
    <3>1. k \in 1 .. N
      BY <1>4, <1>5, <1>12, <2>2
    <3> QED BY <1>12, <3>1
  <2> QED BY <2>1, <2>2
<1> QED BY <1>8, <1>10, <1>11, <1>13 DEF w, N

\* The order of the list depends on the links of its blocks alone.
LEMMA CyclicSame ==
  ASSUME NEW m, NEW n, NEW F, Cyclic(m, F), \A f \in F : n[f] = m[f]
  PROVE  Cyclic(n, F)
BY DEF Cyclic

\* A block is taken out behind p.
LEMMA CyclicRemove ==
  ASSUME NEW m, NEW n, NEW F, Placed(F), Cyclic(m, F),
         NEW p \in F, m[p] # base,
         n[p] = m[m[p]], \A f \in F \ {p, m[p]} : n[f] = m[f]
  PROVE  Cyclic(n, F \ {m[p]}) /\ p < m[p]
<1> DEFINE c == m[p]
           G == F \ {c}
<1>1. c \in F
  BY DEF Cyclic
<1> HIDE DEF c
<1>2. F \subseteq Nat
  BY PlacedInAddress
<1>3. ASSUME NEW f \in F, f # p, m[f] = c PROVE FALSE
  <2>1. f < p \/ p < f
    BY <1>2, <1>3
  <2>2. CASE f < p
    <3>1. m[f] <= p /\ f < m[f]
      BY <2>2 DEF Cyclic
    <3>2. ~(\A g \in F : g <= p)
      BY DEF Cyclic, c
    <3>3. p < c
      BY <3>2, <1>2 DEF Cyclic, c
    <3> QED BY <3>1, <3>3, <1>1, <1>2, <1>3
  <2>3. CASE p < f
    <3>1. c <= f /\ p < c
      BY <2>3 DEF Cyclic, c
    <3>2. ~(\A g \in F : g <= f)
      BY <1>3 DEF Cyclic, c
    <3>3. f < m[f]
      BY <3>2, <1>2 DEF Cyclic
    <3> QED BY <3>1, <3>3, <1>1, <1>2, <1>3
  <2> QED BY <2>1, <2>2, <2>3
<1>4. p < c
  <2>1. ~(\A g \in F : g <= p)
    BY DEF Cyclic, c
  <2> QED BY <2>1, <1>2 DEF Cyclic, c
<1>5. \A g \in F : p < g => c <= g
  BY DEF Cyclic, c
<1>6. m[c] \in F /\ m[c] # c
  <2>1. CASE \A g \in F : g <= c
    BY <2>1, <1>1 DEF Cyclic, c
  <2>2. CASE \E g \in F : c < g
    BY <2>2, <1>1, <1>2 DEF Cyclic
  <2> QED BY <2>1, <2>2, <1>1, <1>2
<1>7. base \in G
  BY DEF Cyclic, c
<1>8. n[p] = m[c] /\ \A f \in G : f # p => n[f] = m[f]
  BY DEF c
<1>9. \A f \in G : n[f] \in G
  BY <1>3, <1>6, <1>8 DEF Cyclic
<1>10. ASSUME NEW f \in G, NEW g \in G, f < g PROVE f < n[f] /\ n[f] <= g
  <2>1. CASE f = p
    <3>1. c < g
      BY <1>1, <1>2, <1>5, <1>10, <2>1
    <3>2. c < m[c] /\ m[c] <= g
      BY <1>1, <3>1 DEF Cyclic
    <3>3. p \in Nat /\ c \in Nat /\ m[c] \in Nat
      BY <1>1, <1>2, <1>6
    <3>4. n[f] = m[c] /\ f = p
      BY <1>8, <2>1
    <3>5. p < m[c]
      BY <1>4, <3>2, <3>3
    <3> QED BY <3>2, <3>4, <3>5
  <2>2. CASE f # p
    BY <1>8, <1>10, <2>2 DEF Cyclic
  <2> QED BY <2>1, <2>2
<1>11. ASSUME NEW f \in G, \A g \in G : g <= f PROVE n[f] = base
  <2>1. p \in G /\ p <= f
    BY <1>1, <1>2, <1>4, <1>11
  <2>2. CASE f = p
    <3>1. \A g \in F : g <= c
      BY <1>1, <1>2, <1>4, <1>11, <2>2
    <3> QED BY <1>1, <1>8, <2>2, <3>1 DEF Cyclic
  <2>3. CASE f # p
    <3>1. c <= f
      BY <1>2, <1>5, <2>1, <2>3
    <3>2. \A g \in F : g <= f
      BY <1>11, <3>1
    <3> QED BY <1>8, <2>3, <3>2 DEF Cyclic
  <2> QED BY <2>2, <2>3
<1>12. Cyclic(n, G)
  <2> HIDE DEF G
  <2> QED BY <1>7, <1>9, <1>10, <1>11 DEF Cyclic
<1> QED BY <1>12, <1>4 DEF c

\* A block joins the list behind p.
LEMMA CyclicInsert ==
  ASSUME NEW m, NEW n, NEW F, Placed(F), Cyclic(m, F),
         NEW p \in F, NEW x \in Nat, x \notin F,
         p < x, m[p] = base \/ x < m[p],
         n[p] = x, n[x] = m[p], \A f \in F \ {p} : n[f] = m[f]
  PROVE  Cyclic(n, F \cup {x})
<1> DEFINE G == F \cup {x}
<1>1. F \subseteq Nat /\ \A f \in F : base <= f
  BY PlacedInAddress
<1>2. p \in Nat /\ m[p] \in F /\ m[p] \in Nat /\ p # x
  BY <1>1 DEF Cyclic
<1>3. base \in G
  BY DEF Cyclic
<1>4. \A f \in G : n[f] \in G
  BY DEF Cyclic
<1>5. \A g \in F : p < g => x < g
  <2> SUFFICES ASSUME NEW g \in F, p < g PROVE x < g
    OBVIOUS
  <2>1. p < m[p] /\ m[p] <= g
    BY DEF Cyclic
  <2>2. m[p] # base
    BY <1>1, <1>2, <2>1 DEF base
  <2> QED BY <1>1, <1>2, <2>1, <2>2
<1>6. ASSUME NEW f \in G, NEW g \in G, f < g PROVE f < n[f] /\ n[f] <= g
  <2>1. CASE f = x
    <3>1. g \in F /\ p < g /\ g \in Nat
      BY <1>1, <1>2, <1>6, <2>1
    <3>2. p < m[p] /\ m[p] <= g
      BY <3>1 DEF Cyclic
    <3>3. m[p] # base
      BY <1>1, <1>2, <3>2 DEF base
    <3> QED BY <2>1, <3>2, <3>3
  <2>2. CASE f = p
    <3>1. g = x \/ x < g
      BY <1>5, <1>6, <2>2
    <3> QED BY <2>2, <3>1, <1>1
  <2>3. CASE f \in F /\ f # p
    <3>1. CASE g = x
      <4>1. f < p
        <5>1. f \in Nat /\ ~(p < f)
          BY <1>1, <1>5, <1>6, <2>3, <3>1
        <5> QED BY <5>1, <1>2, <2>3
      <4>2. f < m[f] /\ m[f] <= p /\ m[f] \in F
        BY <2>3, <4>1 DEF Cyclic
      <4>3. n[f] = m[f] /\ m[f] \in Nat /\ f \in Nat
        BY <1>1, <2>3, <4>2
      <4>4. m[f] <= x
        BY <1>2, <4>2, <4>3
      <4> QED BY <3>1, <4>2, <4>3, <4>4
    <3>2. CASE g \in F
      BY <1>6, <2>3, <3>2 DEF Cyclic
    <3> QED BY <3>1, <3>2
  <2> QED BY <2>1, <2>2, <2>3
<1>7. ASSUME NEW f \in G, \A g \in G : g <= f PROVE n[f] = base
  <2>1. CASE f = x
    <3>1. ~(x < m[p])
      BY <1>2, <1>7, <2>1
    <3> QED BY <2>1, <3>1
  <2>2. CASE f \in F
    <3>1. x <= f /\ f \in Nat /\ f # p
      BY <1>1, <1>2, <1>7, <2>2
    <3>2. \A g \in F : g <= f
      BY <1>7
    <3> QED BY <2>2, <3>1, <3>2 DEF Cyclic
  <2> QED BY <2>1, <2>2
<1> QED
  <2> HIDE DEF G
  <2>1. Cyclic(n, G)
    BY <1>3, <1>4, <1>6, <1>7 DEF Cyclic
  <2> QED BY <2>1 DEF G

-----------------------------------------------------------------------------
(* The blocks of the heap.                                                 *)

LEMMA ModFacts ==
  /\ \A a \in Int : a % M \in Address
  /\ \A a \in Address : a % M = a /\ (a + M) % M = a
<1>1. M \in Nat /\ M > 0
  BY Constants
<1>2. \A a \in Int : a % M \in 0 .. M - 1
  BY <1>1
<1>3. \A a \in 0 .. M - 1 : a % M = a
  BY <1>1
<1>4. \A a \in 0 .. M - 1 : (a + M) % M = a
  BY <1>1
<1> QED BY <1>2, <1>3, <1>4 DEF Address

\* The sum of two words is a word.
LEMMA SumType ==
  ASSUME NEW a \in Address, NEW b \in Address
  PROVE  (a + b) % M \in Address /\ (a + 1) % M \in Address
<1> DEFINE c == a + b
           d == a + 1
<1>1. c \in Int /\ d \in Int
  BY Constants DEF Address
<1> HIDE DEF c, d
<1>2. c % M \in Address /\ d % M \in Address
  BY <1>1, ModFacts
<1> QED BY <1>2 DEF c, d

LEMMA FieldTypes ==
  ASSUME NEW m \in [Address -> Address], NEW a \in Address
  PROVE  Next_(m, a) \in Address /\ Size(m, a) \in Address
<1> DEFINE c == (a + 1) % M
<1>1. c \in Address
  BY SumType
<1> HIDE DEF c
<1>2. m[c] \in Address /\ m[a] \in Address
  BY <1>1
<1> QED BY <1>2 DEF Next_, Size, c

PageEnds == {HEAP + PAGE * p : p \in 0 .. MaxPages}

LEMMA PageEndFacts ==
  ASSUME NEW e \in PageEnds
  PROVE  e \in Nat /\ HEAP <= e /\ e <= HEAP + PAGE * MaxPages /\ e + 2 < M
<1>1. PICK p \in 0 .. MaxPages : e = HEAP + PAGE * p
  BY DEF PageEnds
<1>2. p \in Nat /\ p <= MaxPages /\ PAGE \in Nat /\ MaxPages \in Nat /\ HEAP \in Nat
  BY Constants
<1>3. PAGE * p \in Nat
  BY <1>2
<1>4. PAGE * p <= PAGE * MaxPages
  BY <1>2
<1> QED BY <1>1, <1>2, <1>3, <1>4, Constants

HeadersOf(L) == {HeaderOf(b) : b \in L}
Heads(F, L) == (F \ {base}) \cup HeadersOf(L)

\* The block at h reaches n, the next header or the end e of the heap.  A block that
\* morecore made and no one has split or taken ends with its last page: its size
\* counts its header.  The size of any other is that of its payload.
Block(m, F, L, e, h, n) ==
  /\ n \in Heads(F, L) \cup {e}
  /\ h + HDR <= n
  /\ \A a \in Heads(F, L) : h < a => n <= a
  /\ \/ n \in Heads(F, L) /\ n = h + HDR + m[h + 1]
     \/ n \in PageEnds /\ n = h + m[h + 1] /\ h \notin HeadersOf(L)

\* The heap up to e is made of blocks, F the free ones, L the ones in use.
Shape(m, F, L, fp, e) ==
  /\ e \in PageEnds
  /\ fp \in F
  /\ Cyclic(m, F)
  /\ m[base + 1] = 0
  /\ Heads(F, L) \subseteq HEAP .. e - 1
  /\ \A h \in Heads(F, L) : \E n : Block(m, F, L, e, h, n)
  /\ \A b \in L : /\ HeaderOf(b) \notin F
                  /\ b.ptr = HeaderOf(b) + HDR
                  /\ m[HeaderOf(b) + 1] = b.size
  /\ \A b, c \in L : HeaderOf(b) = HeaderOf(c) => b = c

LEMMA ShapeFacts ==
  ASSUME NEW m, NEW F, NEW L, NEW fp, NEW e, Shape(m, F, L, fp, e)
  PROVE  /\ e \in Nat /\ HEAP <= e /\ e <= HEAP + PAGE * MaxPages /\ e + 2 < M
         /\ \A h \in Heads(F, L) : h \in Nat /\ 3 <= h /\ HEAP <= h /\ h + 2 <= e
         /\ \A a, h \in Heads(F, L) : h < a => h + 2 <= a
         /\ \A h \in Heads(F, L), p \in F : h + 1 # p /\ (p # h => p + 1 # h)
         /\ Placed(F)
<1>1. e \in PageEnds
  BY DEF Shape
<1>2. e \in Nat /\ HEAP <= e /\ e <= HEAP + PAGE * MaxPages /\ e + 2 < M
  BY <1>1, PageEndFacts
<1>3. ASSUME NEW h \in Heads(F, L) PROVE h \in Nat /\ 3 <= h /\ HEAP <= h /\ h < e
  <2>1. h \in HEAP .. e - 1
    BY DEF Shape
  <2> QED BY <2>1, <1>2, Constants
<1>4. ASSUME NEW h \in Heads(F, L) PROVE h + 2 <= e
  <2>1. PICK n : Block(m, F, L, e, h, n)
    BY DEF Shape
  <2>2. h + 2 <= n /\ (n = e \/ n \in Heads(F, L))
    BY <2>1 DEF Block, HDR
  <2> QED BY <1>2, <1>3, <2>2
<1>5. ASSUME NEW a \in Heads(F, L), NEW h \in Heads(F, L), h < a PROVE h + 2 <= a
  <2>1. PICK n : Block(m, F, L, e, h, n)
    BY DEF Shape
  <2>2. h + 2 <= n /\ (n = e \/ n \in Heads(F, L)) /\ n <= a
    BY <1>5, <2>1 DEF Block, HDR
  <2> QED BY <1>2, <1>3, <2>2
<1>6. \A f \in F : f = base \/ f \in Heads(F, L)
  BY DEF Heads
<1>7. ASSUME NEW h \in Heads(F, L), NEW p \in F
      PROVE  h + 1 # p /\ (p # h => p + 1 # h)
  <2>1. CASE p = base
    BY <2>1, <1>3 DEF base
  <2>2. CASE p \in Heads(F, L)
    <3>1. p \in Nat /\ h \in Nat /\ (p < h => p + 2 <= h) /\ (h < p => h + 2 <= p)
      BY <1>3, <1>5, <2>2
    <3> QED BY <3>1
  <2> QED BY <2>1, <2>2, <1>6
<1>8. Placed(F)
  <2>1. ASSUME NEW f \in F
        PROVE  f = base \/ f \in HEAP .. HEAP + PAGE * MaxPages - HDR
    <3>1. CASE f \in Heads(F, L)
      <4>1. f \in Nat /\ HEAP <= f /\ f + 2 <= HEAP + PAGE * MaxPages
        BY <1>2, <1>3, <1>4, <3>1, Constants
      <4> QED BY <4>1, Constants DEF HDR
    <3> QED BY <3>1, <1>6
  <2>2. ASSUME NEW f \in F, NEW g \in F, f < g PROVE f + HDR <= g
    <3>1. CASE f = base
      <4>1. g \in Heads(F, L)
        BY <1>6, <2>2, <3>1 DEF base
      <4> QED BY <1>3, <3>1, <4>1 DEF base, HDR
    <3>2. CASE f \in Heads(F, L)
      <4>1. g \in Heads(F, L)
        BY <1>3, <1>6, <2>2, <3>2 DEF base
      <4> QED BY <1>5, <2>2, <3>2, <4>1 DEF HDR
    <3> QED BY <3>1, <3>2, <1>6
  <2> QED BY <2>1, <2>2 DEF Placed
<1> QED BY <1>2, <1>3, <1>4, <1>5, <1>7, <1>8

\* What lies between h and k is memory of the block at h.
Fits(F, L, e, h, k) == k <= e /\ \A a \in Heads(F, L) : h < a => k <= a

\* A block of the size asked for is taken from behind p.
LEMMA TakenWhole ==
  ASSUME NEW m, NEW n, NEW F, NEW L, NEW fp, NEW e, Shape(m, F, L, fp, e),
         NEW p \in F, m[p] # base, NEW w \in Nat, m[m[p] + 1] = w,
         Fits(F, L, e, m[p], m[p] + HDR + w),
         n[p] = m[m[p]], \A a \in Address \ {p} : n[a] = m[a],
         NEW b, b.ptr = m[p] + HDR, b.size = w, HeaderOf(b) = m[p]
  PROVE  Shape(n, F \ {m[p]}, L \cup {b}, p, e)
<1> DEFINE c == m[p]
           G == F \ {c}
           K == L \cup {b}
           H == Heads(F, L)
<1>1. /\ e \in Nat /\ e + 2 < M
      /\ \A h \in H : h \in Nat /\ 3 <= h /\ HEAP <= h /\ h + 2 <= e
      /\ \A h \in H, f \in F : h + 1 # f
      /\ Placed(F) /\ M \in Nat
  BY ShapeFacts, Constants
<1>2. F \subseteq Address /\ F \subseteq Nat
  BY <1>1, PlacedInAddress
<1>3. Cyclic(m, F) /\ c \in F /\ c \in H
  BY DEF Shape, Cyclic, Heads
<1>4. Cyclic(n, G) /\ p < c
  <2>1. \A f \in F \ {p, m[p]} : n[f] = m[f]
    BY <1>2
  <2> QED BY <1>1, <1>3, <2>1, CyclicRemove
<1> HIDE DEF c
<1>5. p \in G
  BY <1>2, <1>3, <1>4
<1>6. Heads(G, K) = H /\ HeadersOf(K) = HeadersOf(L) \cup {c}
  BY <1>3 DEF Heads, HeadersOf, c
<1> HIDE DEF G, K, H
<1>7. \A h \in H : h + 1 \in Address \ {p} /\ n[h + 1] = m[h + 1]
  <2> SUFFICES ASSUME NEW h \in H PROVE h + 1 \in Address \ {p}
    OBVIOUS
  <2>1. h + 1 # p
    BY <1>1
  <2>2. h + 1 \in 0 .. M - 1
    BY <1>1
  <2> QED BY <2>1, <2>2 DEF Address
<1>8. n[base + 1] = 0
  <2>1. base + 1 \in Address /\ base + 1 # p
    <3>1. p = base \/ p \in H
      BY DEF Heads, H
    <3> QED BY <3>1, <1>1, Constants DEF base, Address
  <2> QED BY <2>1 DEF Shape
<1>9. ASSUME NEW h \in H PROVE \E k : Block(n, G, K, e, h, k)
  <2>1. PICK k : Block(m, F, L, e, h, k)
    BY DEF Shape, H
  <2>2. /\ k \in H \cup {e} /\ h + HDR <= k /\ \A a \in H : h < a => k <= a
        /\ \/ k \in H /\ k = h + HDR + m[h + 1]
           \/ k \in PageEnds /\ k = h + m[h + 1] /\ h \notin HeadersOf(L)
    BY <2>1 DEF Block, H
  <2>3. CASE h = c
    <3>1. ~(k = h + m[h + 1])
      <4>1. h + HDR + w <= k
        BY <2>2, <2>3, <1>1 DEF Fits, H, c, HDR
      <4>2. m[h + 1] = w /\ h \in Nat
        BY <2>3, <1>1 DEF c
      <4> QED BY <4>1, <4>2 DEF HDR
    <3>2. k \in H /\ k = h + HDR + n[h + 1]
      BY <1>7, <2>2, <3>1
    <3> QED BY <1>6, <2>2, <3>2 DEF Block
  <2>4. CASE h # c
    <3>1. n[h + 1] = m[h + 1]
      BY <1>7
    <3> QED BY <1>6, <2>2, <2>4, <3>1 DEF Block
  <2> QED BY <2>3, <2>4
<1>10. ASSUME NEW d \in L
       PROVE  /\ HeaderOf(d) \notin F /\ HeaderOf(d) # c
              /\ d.ptr = HeaderOf(d) + HDR /\ n[HeaderOf(d) + 1] = d.size
  <2>1. HeaderOf(d) \in H
    BY DEF H, Heads, HeadersOf
  <2>2. /\ HeaderOf(d) \notin F
        /\ d.ptr = HeaderOf(d) + HDR /\ m[HeaderOf(d) + 1] = d.size
    BY DEF Shape
  <2> QED BY <1>3, <1>7, <2>1, <2>2
<1>11. /\ HeaderOf(b) = c /\ c \notin G /\ b.ptr = HeaderOf(b) + HDR
       /\ n[HeaderOf(b) + 1] = b.size
  BY <1>3, <1>7 DEF c, G
<1>12. \A d \in K : /\ HeaderOf(d) \notin G
                    /\ d.ptr = HeaderOf(d) + HDR
                    /\ n[HeaderOf(d) + 1] = d.size
  BY <1>10, <1>11 DEF K, G
<1>13. \A d, f \in K : HeaderOf(d) = HeaderOf(f) => d = f
  <2>1. \A d, f \in L : HeaderOf(d) = HeaderOf(f) => d = f
    BY DEF Shape
  <2> QED BY <2>1, <1>10, <1>11 DEF K
<1>14. Shape(n, G, K, p, e)
  <2>1. e \in PageEnds /\ H \subseteq HEAP .. e - 1
    BY DEF Shape, H
  <2> QED BY <2>1, <1>4, <1>5, <1>6, <1>8, <1>9, <1>12, <1>13 DEF Shape
<1> QED BY <1>14 DEF G, K, c

\* A larger block is taken from behind p, and the rest of it stays in the list.
LEMMA TakenSplit ==
  ASSUME NEW m, NEW n, NEW F, NEW L, NEW fp, NEW e, Shape(m, F, L, fp, e),
         NEW p \in F, m[p] # base, NEW w \in Nat, NEW r, r = m[p] + HDR + w,
         m[m[p] + 1] \in Nat, m[m[p] + 1] > w,
         Fits(F, L, e, m[p], r + HDR),
         n[m[p] + 1] = w, n[p] = r, n[r] = m[m[p]],
         n[r + 1] = m[m[p] + 1] - (w + HDR),
         \A a \in Address \ {m[p] + 1, p, r, r + 1} : n[a] = m[a],
         NEW b, b.ptr = m[p] + HDR, b.size = w, HeaderOf(b) = m[p]
  PROVE  Shape(n, (F \ {m[p]}) \cup {r}, L \cup {b}, p, e)
<1> DEFINE c == m[p]
           s == m[c + 1]
           G == (F \ {c}) \cup {r}
           K == L \cup {b}
           H == Heads(F, L)
           I == Heads(G, K)
<1>1. /\ e \in Nat /\ e + 2 < M
      /\ \A h \in H : h \in Nat /\ 3 <= h /\ HEAP <= h /\ h + 2 <= e
      /\ \A a, h \in H : h < a => h + 2 <= a
      /\ \A h \in H, f \in F : h + 1 # f /\ (f # h => f + 1 # h)
      /\ Placed(F) /\ M \in Nat /\ HEAP \in Nat
  BY ShapeFacts, Constants
<1>2. F \subseteq Address /\ F \subseteq Nat /\ base \in F /\ \A f \in F : f = base \/ f \in H
  BY <1>1, PlacedInAddress DEF Shape, Cyclic, Heads
<1>3. Cyclic(m, F) /\ c \in F /\ c \in H
  BY DEF Shape, Cyclic, Heads
<1>4. /\ c \in Nat /\ r \in Nat /\ s \in Nat /\ r = c + 2 + w /\ w < s
      /\ r + 2 <= e /\ \A a \in H : c < a => r + 2 <= a
  BY <1>1, <1>3 DEF HDR, Fits
<1>5. r \notin H /\ r # base /\ r \notin F /\ c < r /\ 3 <= c
  <2>1. c < r /\ 3 <= c
    BY <1>1, <1>3, <1>4
  <2>2. r \notin H
    BY <1>4, <2>1
  <2> QED BY <1>2, <2>1, <2>2, <1>4 DEF base
<1>6. Cyclic(n, G) /\ p < c
  \* c is taken out, then r is put in at its place.
  <2> DEFINE o == [a \in F |-> IF a = p THEN m[c] ELSE m[a]]
  <2>1. Cyclic(o, F \ {c}) /\ p < c
    <3>1. o[p] = m[m[p]] /\ \A f \in F \ {p, m[p]} : o[f] = m[f]
      OBVIOUS
    <3> HIDE DEF o
    <3> QED BY <1>1, <1>3, <3>1, CyclicRemove
  <2>2. p \in F \ {c} /\ p < r
    BY <1>2, <1>3, <1>4, <1>5, <2>1
  <2>3. o[p] = m[c] /\ \A f \in F \ {p} : o[f] = m[f]
    OBVIOUS
  <2>4. m[c] = base \/ r < m[c]
    <3>1. CASE \A g \in F : g <= c
      BY <1>3, <3>1 DEF Cyclic
    <3>2. CASE \E g \in F : c < g
      <4>1. c < m[c] /\ m[c] \in F
        BY <1>3, <3>2 DEF Cyclic
      <4>2. m[c] \in H => r + 2 <= m[c] /\ m[c] \in Nat
        BY <1>1, <1>4, <4>1
      <4>3. m[c] = base \/ m[c] \in H
        BY <1>2, <4>1
      <4>4. CASE m[c] \in H
        <5>1. m[c] \in Nat /\ r + 2 <= m[c] /\ r \in Nat
          BY <1>4, <4>2, <4>4
        <5>2. r < m[c]
          <6> HIDE DEF c
          <6> QED BY <5>1
        <5> QED BY <5>2
      <4> QED BY <4>3, <4>4
    <3>3. (\A g \in F : g <= c) \/ (\E g \in F : c < g)
      BY <1>2, <1>4
    <3> QED BY <3>1, <3>2, <3>3
  <2>5. \A f \in F \ {p, c} : n[f] = m[f]
    <3> SUFFICES ASSUME NEW f \in F, f # p, f # c
                 PROVE  f \in Address \ {m[p] + 1, p, r, r + 1}
      OBVIOUS
    <3>1. f # c + 1 /\ f # r
      BY <1>1, <1>3, <1>5
    <3>2. f # r + 1
      <4>1. CASE f = base
        BY <1>4, <1>5, <4>1 DEF base
      <4>2. CASE f \in H
        BY <1>1, <1>4, <4>2
      <4> QED BY <1>2, <4>1, <4>2
    <3> QED BY <1>2, <3>1, <3>2
  <2>6. Placed(F \ {c})
    BY <1>1 DEF Placed
  <2>7. /\ r \notin F \ {c} /\ (o[p] = base \/ r < o[p]) /\ n[p] = r /\ n[r] = o[p]
        /\ \A f \in (F \ {c}) \ {p} : n[f] = o[f]
    BY <1>5, <2>3, <2>4, <2>5
  <2> HIDE DEF o, c
  <2>8. Cyclic(n, (F \ {c}) \cup {r})
    BY <1>4, <2>1, <2>2, <2>6, <2>7, CyclicInsert
  <2> QED BY <2>1, <2>8
<1> HIDE DEF c, s
<1>7. p \in G
  BY <1>2, <1>3, <1>6
<1>8. I = H \cup {r} /\ HeadersOf(K) = HeadersOf(L) \cup {c}
  BY <1>3, <1>5 DEF Heads, HeadersOf, c
<1>9. ASSUME NEW h \in H, h # c PROVE n[h + 1] = m[h + 1]
  <2>1. h \in Nat /\ h + 1 \in Nat /\ h + 1 < M /\ (h < c => h + 2 <= c) /\ (c < h => r + 2 <= h)
    BY <1>1, <1>3, <1>4
  <2>2. h + 1 # p /\ h + 1 # c + 1 /\ h + 1 # r /\ h + 1 # r + 1
    BY <1>1, <1>4, <1>5, <1>9, <2>1
  <2>3. h + 1 \in Address
    BY <2>1, <1>1 DEF Address
  <2> QED BY <2>2, <2>3 DEF c
<1>10. n[base + 1] = 0
  <2>1. base + 1 # p /\ base + 1 # c + 1 /\ base + 1 # r /\ base + 1 # r + 1
    <3>1. p = base \/ (p \in Nat /\ 3 <= p)
      BY <1>1, <1>2
    <3> QED BY <1>4, <1>5, <3>1 DEF base
  <2>2. base + 1 \in Address
    BY <1>1, Constants DEF base, Address
  <2> QED BY <2>1, <2>2 DEF Shape, c
<1>11. PICK k : Block(m, F, L, e, c, k)
  BY <1>3 DEF Shape
<1>12. /\ k \in H \cup {e} /\ \A a \in H : c < a => k <= a
       /\ \/ k \in H /\ k = c + 2 + s
          \/ k \in PageEnds /\ k = c + s
       /\ k \in Nat /\ r + 2 <= k
  <2>1. /\ k \in H \cup {e} /\ \A a \in H : c < a => k <= a
        /\ \/ k \in H /\ k = c + 2 + s
           \/ k \in PageEnds /\ k = c + s
        /\ c + 2 <= k
    BY <1>11 DEF Block, HDR, s
  <2>2. k \in Nat /\ r + 2 <= k
    BY <1>1, <1>4, <2>1
  <2> QED BY <2>1, <2>2
<1> HIDE DEF G, K, I, H
<1>13. Block(n, G, K, e, r, k)
  <2>1. /\ k \in I \cup {e} /\ r + HDR <= k
        /\ \A a \in I : r < a => k <= a
    BY <1>4, <1>5, <1>8, <1>12, <1>1 DEF HDR
  <2>2. n[r + 1] = s - (w + 2)
    BY DEF s, c, HDR
  <2>3. \/ k \in I /\ k = r + HDR + n[r + 1]
        \/ k \in PageEnds /\ k = r + n[r + 1] /\ r \notin HeadersOf(K)
    <3>1. CASE k \in H /\ k = c + 2 + s
      BY <1>4, <1>8, <2>2, <3>1 DEF HDR
    <3>2. CASE k \in PageEnds /\ k = c + s
      <4>1. r \notin HeadersOf(K)
        BY <1>4, <1>5, <1>8 DEF H, Heads
      <4>2. k = r + n[r + 1]
        BY <1>4, <2>2, <3>2
      <4> QED BY <3>2, <4>1, <4>2
    <3> QED BY <1>12, <3>1, <3>2
  <2> QED BY <2>1, <2>3 DEF Block, I
<1>14. Block(n, G, K, e, c, r)
  <2>1. /\ r \in I /\ c + HDR <= r /\ r = c + HDR + n[c + 1]
    BY <1>4, <1>8 DEF HDR, c
  <2>2. \A a \in I : c < a => r <= a
    BY <1>1, <1>4, <1>8
  <2> QED BY <2>1, <2>2 DEF Block, I
<1>15. ASSUME NEW h \in H, h # c PROVE \E j : Block(n, G, K, e, h, j)
  <2>1. PICK j : Block(m, F, L, e, h, j)
    BY DEF Shape, H
  <2>2. /\ j \in H \cup {e} /\ h + HDR <= j /\ \A a \in H : h < a => j <= a
        /\ \/ j \in H /\ j = h + HDR + m[h + 1]
           \/ j \in PageEnds /\ j = h + m[h + 1] /\ h \notin HeadersOf(L)
    BY <2>1 DEF Block, H
  <2>3. h < r => j <= r
    <3>1. h < r => h < c
      BY <1>1, <1>3, <1>4, <1>15
    <3>2. h < c => j <= c
      BY <1>3, <2>2
    <3>3. j \in Nat
      BY <1>1, <2>2
    <3> QED BY <1>4, <1>5, <3>1, <3>2, <3>3
  <2>4. \A a \in I : h < a => j <= a
    BY <1>8, <2>2, <2>3
  <2>5. /\ j \in I \cup {e}
        /\ \/ j \in I /\ j = h + HDR + n[h + 1]
           \/ j \in PageEnds /\ j = h + n[h + 1] /\ h \notin HeadersOf(K)
    BY <1>8, <1>9, <1>15, <2>2
  <2> QED BY <2>2, <2>4, <2>5 DEF Block, I
<1>16. \A h \in I : \E j : Block(n, G, K, e, h, j)
  BY <1>8, <1>13, <1>14, <1>15
<1>17. ASSUME NEW d \in L
       PROVE  /\ HeaderOf(d) \notin F /\ HeaderOf(d) # c /\ HeaderOf(d) # r
              /\ d.ptr = HeaderOf(d) + HDR /\ n[HeaderOf(d) + 1] = d.size
  <2>1. HeaderOf(d) \in H
    BY DEF H, Heads, HeadersOf
  <2>2. /\ HeaderOf(d) \notin F
        /\ d.ptr = HeaderOf(d) + HDR /\ m[HeaderOf(d) + 1] = d.size
    BY DEF Shape
  <2> QED BY <1>3, <1>5, <1>9, <2>1, <2>2
<1>18. /\ HeaderOf(b) = c /\ c \notin G /\ b.ptr = HeaderOf(b) + HDR
       /\ n[HeaderOf(b) + 1] = b.size
  BY <1>4, <1>5 DEF c, G
<1>19. \A d \in K : /\ HeaderOf(d) \notin G
                    /\ d.ptr = HeaderOf(d) + HDR
                    /\ n[HeaderOf(d) + 1] = d.size
  BY <1>17, <1>18 DEF K, G
<1>20. \A d, f \in K : HeaderOf(d) = HeaderOf(f) => d = f
  <2>1. \A d, f \in L : HeaderOf(d) = HeaderOf(f) => d = f
    BY DEF Shape
  <2> QED BY <2>1, <1>17, <1>18 DEF K
<1>21. I \subseteq HEAP .. e - 1
  <2>1. H \subseteq HEAP .. e - 1
    BY DEF Shape, H
  <2>2. HEAP <= c
    BY <1>1, <1>3
  <2>3. r \in HEAP .. e - 1
    BY <1>1, <1>4, <1>5, <2>2
  <2> QED BY <1>8, <2>1, <2>3
<1>22. Shape(n, G, K, p, e)
  <2>1. e \in PageEnds
    BY DEF Shape
  <2> QED BY <2>1, <1>6, <1>7, <1>10, <1>16, <1>19, <1>20, <1>21 DEF Shape, I
<1> QED BY <1>22 DEF G, K, c

\* A block of k bytes that morecore makes at the end of the heap joins the list.
LEMMA NewInserted ==
  ASSUME NEW m, NEW n, NEW F, NEW L, NEW fp, NEW e, Shape(m, F, L, fp, e),
         NEW p \in F, p < e, m[p] = base \/ e < m[p],
         NEW k \in Nat, 2 <= k, e + k \in PageEnds,
         n[p] = e, n[e] = m[p], n[e + 1] = k,
         \A a \in Address \ {p, e, e + 1} : n[a] = m[a]
  PROVE  Shape(n, F \cup {e}, L, p, e + k)
<1> DEFINE G == F \cup {e}
           H == Heads(F, L)
           I == Heads(G, L)
<1>1. /\ e \in Nat /\ e + 2 < M /\ 3 <= e /\ HEAP <= e /\ HEAP \in Nat
      /\ \A h \in H : h \in Nat /\ 3 <= h /\ HEAP <= h /\ h + 2 <= e
      /\ \A h \in H, f \in F : h + 1 # f
      /\ Placed(F) /\ M \in Nat
  BY ShapeFacts, Constants
<1>2. F \subseteq Address /\ F \subseteq Nat /\ base \in F /\ \A f \in F : f = base \/ f \in H
  BY <1>1, PlacedInAddress DEF Shape, Cyclic, Heads
<1>3. e \notin H /\ e # base /\ e \notin F
  BY <1>1, <1>2 DEF base
<1>4. Cyclic(n, G)
  <2>1. \A f \in F \ {p} : n[f] = m[f]
    <3> SUFFICES ASSUME NEW f \in F, f # p PROVE f \in Address \ {p, e, e + 1}
      OBVIOUS
    <3>1. f # e /\ f # e + 1
      BY <1>1, <1>2, <1>3 DEF base
    <3> QED BY <1>2, <3>1
  <2> QED BY <1>1, <1>3, <2>1, CyclicInsert DEF Shape
<1>5. I = H \cup {e}
  BY <1>3 DEF Heads
<1>6. ASSUME NEW h \in H PROVE n[h + 1] = m[h + 1]
  <2>1. h + 1 # p /\ h + 1 # e /\ h + 1 # e + 1 /\ h + 1 \in Address
    BY <1>1 DEF Address
  <2> QED BY <2>1
<1>7. n[base + 1] = 0
  <2>1. base + 1 # p /\ base + 1 # e /\ base + 1 # e + 1
    BY <1>1, <1>2 DEF base
  <2>2. base + 1 \in Address
    BY <1>1, Constants DEF base, Address
  <2> QED BY <2>1, <2>2 DEF Shape
<1> HIDE DEF G, I, H
<1>8. e \notin HeadersOf(L) /\ HeadersOf(L) \subseteq H
  BY <1>3 DEF H, Heads
<1>9. Block(n, G, L, e + k, e, e + k)
  <2>1. \A a \in I : ~(e < a)
    BY <1>1, <1>5
  <2>2. e + HDR <= e + k /\ e + k = e + n[e + 1]
    BY <1>1 DEF HDR
  <2> QED BY <1>8, <2>1, <2>2 DEF Block, I
<1>10. ASSUME NEW h \in H PROVE \E j : Block(n, G, L, e + k, h, j)
  <2>1. PICK j : Block(m, F, L, e, h, j)
    BY DEF Shape, H
  <2>2. /\ j \in H \cup {e} /\ h + HDR <= j /\ \A a \in H : h < a => j <= a
        /\ \/ j \in H /\ j = h + HDR + m[h + 1]
           \/ j \in PageEnds /\ j = h + m[h + 1] /\ h \notin HeadersOf(L)
    BY <2>1 DEF Block, H
  <2>3. j <= e
    BY <1>1, <2>2
  <2>4. \A a \in I : h < a => j <= a
    BY <1>5, <2>2, <2>3
  <2> QED BY <1>5, <1>6, <2>2, <2>4 DEF Block, I
<1>11. \A h \in I : \E j : Block(n, G, L, e + k, h, j)
  BY <1>5, <1>9, <1>10
<1>12. ASSUME NEW d \in L
       PROVE  /\ HeaderOf(d) \notin G
              /\ d.ptr = HeaderOf(d) + HDR /\ n[HeaderOf(d) + 1] = d.size
  <2>1. HeaderOf(d) \in H
    BY <1>8 DEF HeadersOf
  <2>2. /\ HeaderOf(d) \notin F
        /\ d.ptr = HeaderOf(d) + HDR /\ m[HeaderOf(d) + 1] = d.size
    BY DEF Shape
  <2> QED BY <1>3, <1>6, <2>1, <2>2 DEF G
<1>13. I \subseteq HEAP .. (e + k) - 1
  BY <1>1, <1>5
<1>14. Shape(n, G, L, p, e + k)
  <2>1. p \in G /\ \A b, c \in L : HeaderOf(b) = HeaderOf(c) => b = c
    BY DEF Shape, G
  <2> QED BY <2>1, <1>4, <1>7, <1>11, <1>12, <1>13 DEF Shape, I
<1> QED BY <1>14 DEF G

\* The header of a block in use joins the list.
LEMMA FreedInserted ==
  ASSUME NEW m, NEW n, NEW F, NEW L, NEW fp, NEW e, Shape(m, F, L, fp, e),
         NEW b \in L, NEW x, x = HeaderOf(b),
         NEW p \in F, p < x, m[p] = base \/ x < m[p],
         n[p] = x, n[x] = m[p],
         \A a \in Address \ {p, x} : n[a] = m[a]
  PROVE  Shape(n, F \cup {x}, L \ {b}, p, e)
<1> DEFINE G == F \cup {x}
           K == L \ {b}
           H == Heads(F, L)
<1>1. /\ e \in Nat /\ e + 2 < M
      /\ \A h \in H : h \in Nat /\ 3 <= h /\ HEAP <= h /\ h + 2 <= e
      /\ \A h \in H, f \in F : h + 1 # f
      /\ \A a, h \in H : h < a => h + 2 <= a
      /\ Placed(F) /\ M \in Nat
  BY ShapeFacts, Constants
<1>2. F \subseteq Address /\ F \subseteq Nat /\ base \in F /\ \A f \in F : f = base \/ f \in H
  BY <1>1, PlacedInAddress DEF Shape, Cyclic, Heads
<1>3. x \in H /\ x \in Nat /\ x # base /\ x \notin F
  <2>1. x \in H /\ x \notin F
    BY DEF Shape, Heads, HeadersOf
  <2> QED BY <1>1, <2>1 DEF base
<1>4. Cyclic(n, G)
  <2>1. \A f \in F \ {p} : n[f] = m[f]
    BY <1>2, <1>3
  <2> QED BY <1>1, <1>3, <2>1, CyclicInsert DEF Shape
<1>5. Heads(G, K) = H /\ HeadersOf(K) \subseteq HeadersOf(L)
  <2>1. HeadersOf(K) \subseteq HeadersOf(L) /\ HeadersOf(L) \subseteq HeadersOf(K) \cup {x}
    BY DEF HeadersOf
  <2> QED BY <1>3, <2>1 DEF Heads
<1>6. ASSUME NEW h \in H PROVE n[h + 1] = m[h + 1]
  <2>1. h + 1 # p /\ h + 1 \in Address
    BY <1>1 DEF Address
  <2>2. h + 1 # x
    BY <1>1, <1>3
  <2> QED BY <2>1, <2>2
<1>7. n[base + 1] = 0
  <2>1. base + 1 # p /\ base + 1 # x
    BY <1>1, <1>2, <1>3 DEF base
  <2>2. base + 1 \in Address
    BY <1>1, Constants DEF base, Address
  <2> QED BY <2>1, <2>2 DEF Shape
<1> HIDE DEF G, K, H
<1>8. ASSUME NEW h \in H PROVE \E j : Block(n, G, K, e, h, j)
  <2>1. PICK j : Block(m, F, L, e, h, j)
    BY DEF Shape, H
  <2>2. /\ j \in H \cup {e} /\ h + HDR <= j /\ \A a \in H : h < a => j <= a
        /\ \/ j \in H /\ j = h + HDR + m[h + 1]
           \/ j \in PageEnds /\ j = h + m[h + 1] /\ h \notin HeadersOf(L)
    BY <2>1 DEF Block, H
  <2>3. n[h + 1] = m[h + 1]
    BY <1>6
  <2> QED BY <1>5, <2>2, <2>3 DEF Block
<1>9. ASSUME NEW d \in K
      PROVE  /\ HeaderOf(d) \notin G
             /\ d.ptr = HeaderOf(d) + HDR /\ n[HeaderOf(d) + 1] = d.size
  <2>1. d \in L /\ d # b
    BY DEF K
  <2>2. HeaderOf(d) \in H
    BY <2>1 DEF H, Heads, HeadersOf
  <2>3. /\ HeaderOf(d) \notin F /\ HeaderOf(d) # x
        /\ d.ptr = HeaderOf(d) + HDR /\ m[HeaderOf(d) + 1] = d.size
    BY <2>1 DEF Shape
  <2> QED BY <1>6, <2>2, <2>3 DEF G
<1>10. Shape(n, G, K, p, e)
  <2>1. /\ p \in G /\ e \in PageEnds /\ H \subseteq HEAP .. e - 1
        /\ \A d, c \in K : HeaderOf(d) = HeaderOf(c) => d = c
    BY DEF Shape, G, K, H
  <2> QED BY <2>1, <1>4, <1>5, <1>7, <1>8, <1>9 DEF Shape
<1> QED BY <1>10 DEF G, K

-----------------------------------------------------------------------------
(* The loops.                                                              *)

LEMMA NodeFacts ==
  ASSUME NEW m \in [Address -> Address], freep \in Address
  PROVE  /\ MaxBlocks \in Nat
         /\ \A k \in Nat : Node(m, k) \in Address /\ Node(m, k + 1) = m[Node(m, k)]
<1>1. MaxBlocks \in Nat
  BY Constants DEF MaxBlocks, HDR
<1> QED BY <1>1, WalkSteps DEF Node

\* The search of kmalloc ends at a block and knows the one before it.
LEMMA StopFacts ==
  ASSUME mem \in [Address -> Address], freep \in Address, Stops # {}
  PROVE  /\ Min(Stops) \in Stops
         /\ Node(mem, Min(Stops) - 1) \in Address
         /\ \E k \in 0 .. MaxBlocks : Node(mem, Min(Stops) - 1) = Node(mem, k)
         /\ Node(mem, Min(Stops)) = mem[Node(mem, Min(Stops) - 1)]
<1>1. MaxBlocks \in Nat
  BY NodeFacts
<1>2. Stops \in SUBSET Nat /\ \A k \in Stops : k \in 1 .. MaxBlocks
  BY <1>1 DEF Stops
<1>3. Min(Stops) \in Stops
  BY <1>2, MinProperties
<1> DEFINE j == Min(Stops)
<1>4. j - 1 \in Nat /\ j - 1 \in 0 .. MaxBlocks /\ (j - 1) + 1 = j
  <2>1. j \in 1 .. MaxBlocks
    BY <1>2, <1>3
  <2> HIDE DEF j
  <2> QED BY <1>1, <2>1
<1>5. Node(mem, (Min(Stops) - 1) + 1) = mem[Node(mem, Min(Stops) - 1)]
  BY <1>4, NodeFacts
<1> QED BY <1>3, <1>4, <1>5, NodeFacts

LEMMA PlaceFacts ==
  ASSUME NEW m \in [Address -> Address], freep \in Address,
         NEW x, Places(m, x) # {}
  PROVE  Min(Places(m, x)) \in Places(m, x) /\ Node(m, Min(Places(m, x))) \in Address
<1>1. MaxBlocks \in Nat
  BY NodeFacts
<1>2. Places(m, x) \in SUBSET Nat
  BY <1>1 DEF Places
<1>3. Min(Places(m, x)) \in Places(m, x)
  BY <1>2, MinProperties
<1> QED BY <1>2, <1>3, NodeFacts

LEMMA InsertedType ==
  ASSUME NEW m \in [Address -> Address], NEW x \in Address, NEW c \in Address
  PROVE  Inserted(m, x, c) \in [Address -> Address]
<1> DEFINE next == Next_(m, c)
           joined == IF Meets(m, x, next)
                     THEN [m EXCEPT ![x + 1] = (@ + Size(m, next)) % M,
                                    ![x] = Next_(m, next)]
                     ELSE [m EXCEPT ![x] = next]
<1>1. next \in Address
  BY FieldTypes
<1> HIDE DEF next
<1>2. Next_(m, next) \in Address /\ Size(m, next) \in Address
  BY <1>1, FieldTypes
<1>3. joined \in [Address -> Address]
  <2>1. CASE Meets(m, x, next)
    <3> DEFINE v == (m[x + 1] + Size(m, next)) % M
    <3>1. x + 1 \in Address => v \in Address
      BY <1>2, SumType
    <3>2. joined = [m EXCEPT ![x + 1] = v, ![x] = Next_(m, next)]
      BY <2>1
    <3> HIDE DEF v, joined
    <3> QED BY <1>2, <3>1, <3>2
  <2>2. CASE ~Meets(m, x, next)
    BY <1>1, <2>2
  <2> QED BY <2>1, <2>2
<1> HIDE DEF joined
<1>4. Size(joined, x) \in Address /\ Next_(joined, x) \in Address
  BY <1>3, FieldTypes
<1>5. CASE Meets(joined, c, x)
  <2> DEFINE v == (joined[c + 1] + Size(joined, x)) % M
  <2>1. c + 1 \in Address => v \in Address
    BY <1>3, <1>4, SumType
  <2>2. Inserted(m, x, c) = [joined EXCEPT ![c + 1] = v, ![c] = Next_(joined, x)]
    BY <1>5 DEF Inserted, joined, next
  <2> HIDE DEF v
  <2> QED BY <1>3, <1>4, <2>1, <2>2
<1>6. CASE ~Meets(joined, c, x)
  <2>1. Inserted(m, x, c) = [joined EXCEPT ![c] = x]
    BY <1>6 DEF Inserted, joined, next
  <2> QED BY <1>3, <2>1
<1> QED BY <1>5, <1>6

\* kfree's loop ends, behind the last block below the one it is given.
LEMMA PlaceFound ==
  ASSUME NEW m \in [Address -> Address], NEW F, Placed(F), Cyclic(m, F), freep \in F,
         NEW x \in Nat, base < x, x \notin F
  PROVE  LET c == Node(m, Min(Places(m, x))) IN
         /\ Places(m, x) # {}
         /\ c \in F /\ c < x /\ (m[c] = base \/ x < m[c])
<1>1. /\ F \subseteq Address /\ F \subseteq Nat /\ M \in Nat
      /\ \A f \in F : base <= f /\ f <= M
  BY PlacedInAddress, Constants
<1>2. \A f \in F : \E k \in 0 .. MaxBlocks : f = Node(m, k)
  <2>1. BlocksFrom(m, freep) = F
    BY BlocksFromIsAll
  <2> QED BY <2>1 DEF BlocksFrom, Node
<1>3. \A k \in 0 .. MaxBlocks : Node(m, k) \in F
  <2>1. BlocksFrom(m, freep) = F
    BY BlocksFromIsAll
  <2> QED BY <2>1 DEF BlocksFrom, Node
<1>4. Places(m, x) # {}
  <2> DEFINE Below == {f \in F : f < x}
  <2>1. Below \in SUBSET Nat /\ base \in Below /\ \A f \in Below : f <= M
    BY <1>1 DEF Cyclic
  <2>2. PICK p \in Below : \A f \in Below : f <= p
    <3> HIDE DEF Below
    <3> QED BY <2>1, <1>1, MaxNat
  <2>3. p \in F /\ p < x /\ p \in Nat /\ m[p] \in F /\ m[p] \in Nat
    BY <1>1 DEF Cyclic
  <2>4. m[p] < x => m[p] <= p
    BY <2>2, <2>3
  <2>5. m[p] # x
    BY <2>3
  <2>6. PICK k \in 0 .. MaxBlocks : p = Node(m, k)
    BY <1>2, <2>3
  <2>7. \/ p < x /\ x < m[p]
        \/ p >= m[p] /\ (p < x \/ x < m[p])
    BY <2>3, <2>4, <2>5
  <2>8. k \in Places(m, x)
    BY <2>6, <2>7 DEF Places, Next_
  <2> QED BY <2>8
<1> DEFINE k == Min(Places(m, x))
           c == Node(m, k)
<1>5. k \in Places(m, x)
  BY <1>1, <1>4, PlaceFacts
<1> HIDE DEF k
<1>6. /\ c \in F
      /\ \/ c < x /\ x < m[c]
         \/ c >= m[c] /\ (c < x \/ x < m[c])
  BY <1>3, <1>5 DEF Places, Next_
<1> HIDE DEF c
<1>7. c \in Nat /\ m[c] \in F /\ m[c] \in Nat
  BY <1>1, <1>6 DEF Cyclic
<1>8. ASSUME c >= m[c] PROVE m[c] = base /\ c < x
  <2>1. \A g \in F : g <= c
    <3> SUFFICES ASSUME NEW g \in F, ~(g <= c) PROVE FALSE
      OBVIOUS
    <3>1. c < g
      BY <1>1, <1>7
    <3>2. c < m[c]
      BY <1>6, <3>1 DEF Cyclic
    <3> QED BY <1>7, <1>8, <3>2
  <2>2. m[c] = base
    BY <1>6, <2>1 DEF Cyclic
  <2> QED BY <1>6, <1>7, <2>2 DEF base
<1> QED BY <1>4, <1>6, <1>8 DEF k, c

\* What kfree writes when nothing is merged.
LEMMA InsertedPlainly ==
  ASSUME NEW m \in [Address -> Address], NEW x \in Address, NEW c \in Address,
         c # x, (c + 1) % M # x,
         ~Meets(m, x, Next_(m, c)), ~Meets(m, c, x)
  PROVE  LET n == Inserted(m, x, c) IN
         n[c] = x /\ n[x] = m[c] /\ \A a \in Address \ {c, x} : n[a] = m[a]
<1> DEFINE joined == [m EXCEPT ![x] = Next_(m, c)]
<1>1. (c + 1) % M \in Address
  BY SumType
<1>2. joined[(c + 1) % M] = m[(c + 1) % M]
  BY <1>1
<1>3. ~Meets(joined, c, x)
  <2> HIDE DEF joined
  <2> QED BY <1>2 DEF Meets, Size
<1>4. Inserted(m, x, c) = [joined EXCEPT ![c] = x]
  BY <1>3 DEF Inserted
<1> QED BY <1>4 DEF Next_

-----------------------------------------------------------------------------
(* Types.                                                                  *)

BrkBounded == brk <= HEAP + PAGE * MaxPages

LEMMA AddressFacts ==
  /\ Address \subseteq Nat /\ Sizes \subseteq Address
  /\ NULL \in Address /\ base \in Address /\ base + 1 \in Address
  /\ HEAP \in Address /\ HEAP + PAGE * MaxPages \in Address
BY Constants DEF Address, NULL, base

LEMMA InitTypes == Init => TypeOK /\ BrkBounded
<1> SUFFICES ASSUME Init PROVE TypeOK /\ BrkBounded
  OBVIOUS
<1>1. mem \in [Address -> Address]
  BY AddressFacts DEF Init, NULL
<1>2. BrkBounded
  BY Constants DEF Init, BrkBounded
<1> QED BY <1>1, <1>2, AddressFacts DEF Init, TypeOK

LEMMA InsertTypes ==
  ASSUME TypeOK, NEW m \in [Address -> Address], NEW x \in Address, Insert(m, x)
  PROVE  /\ mem' \in [Address -> Address] /\ freep' \in Address
         /\ cpu' \in {"run", "oom", "pf", "spin"} /\ sound' \in BOOLEAN
<1>1. CASE Places(m, x) = {}
  BY <1>1 DEF Insert, TypeOK
<1>2. CASE Places(m, x) # {}
  <2> DEFINE c == Node(m, Min(Places(m, x)))
  <2>1. c \in Address
    BY <1>2, PlaceFacts DEF TypeOK
  <2> HIDE DEF c
  <2>2. /\ mem' = Inserted(m, x, c) /\ freep' = c /\ UNCHANGED cpu
        /\ sound' \in BOOLEAN
    BY <1>2 DEF Insert, c
  <2> QED BY <2>1, <2>2, InsertedType DEF TypeOK
<1> QED BY <1>1, <1>2

LEMMA KmallocTypes ==
  ASSUME TypeOK, BrkBounded, NEW nbytes \in Sizes, Kmalloc(nbytes)
  PROVE  TypeOK' /\ BrkBounded'
<1>1. mem' \in [Address -> Address] /\ freep' \in Address
  BY AddressFacts DEF Kmalloc, TypeOK, NULL
<1>2. want' \in Sizes
  BY DEF Kmalloc
<1> QED BY <1>1, <1>2 DEF Kmalloc, TypeOK, BrkBounded

LEMMA TakeBlockTypes ==
  ASSUME TypeOK, BrkBounded, TakeBlock
  PROVE  TypeOK' /\ BrkBounded'
<1> DEFINE prevp == Node(mem, Min(Stops) - 1)
           currp == Node(mem, Min(Stops))
           gap == want + HDR
           rest == (currp + gap) % M
           size == (Size(mem, currp) + M - gap) % M
           exact == Size(mem, currp) = want
           b == [ptr |-> (currp + HDR) % M, size |-> want]
<1>1. mem \in [Address -> Address] /\ freep \in Address /\ want \in Sizes /\ want \in Address
  BY AddressFacts DEF TakeBlock, Split, TypeOK
<1>2. prevp \in Address /\ currp \in Address
  BY <1>1, StopFacts DEF TakeBlock, Split, LargeEnough
<1> HIDE DEF prevp, currp
<1>3. Next_(mem, currp) \in Address /\ Size(mem, currp) \in Address
  BY <1>1, <1>2, FieldTypes
<1>4. rest \in Address /\ size \in Address /\ (currp + HDR) % M \in Address
  <2>1. currp \in Nat /\ Size(mem, currp) \in Nat /\ want \in Nat /\ M \in Nat
    BY <1>1, <1>2, <1>3, AddressFacts, Constants
  <2>2. currp + gap \in Int /\ Size(mem, currp) + M - gap \in Int /\ currp + HDR \in Int
    BY <2>1 DEF HDR
  <2> QED BY <2>2, ModFacts
<1>5. /\ mem' = IF exact THEN [mem EXCEPT ![prevp] = Next_(mem, currp)]
                ELSE [mem EXCEPT ![currp + 1] = want,
                                 ![prevp] = rest,
                                 ![rest] = Next_(mem, currp),
                                 ![(rest + 1) % M] = size]
      /\ cpu' \in {"run", "pf"} /\ freep' = prevp /\ want' = Idle
      /\ live' = live \cup {b} /\ sound' \in BOOLEAN /\ brk' = brk
  BY DEF TakeBlock, Split, prevp, currp
<1> HIDE DEF rest, size, exact, gap
<1>6. mem' \in [Address -> Address]
  <2>1. CASE exact
    BY <1>1, <1>3, <1>5, <2>1
  <2>2. CASE ~exact
    <3> DEFINE m1 == [mem EXCEPT ![currp + 1] = want]
               m2 == [m1 EXCEPT ![prevp] = rest]
               m3 == [m2 EXCEPT ![rest] = Next_(mem, currp)]
               m4 == [m3 EXCEPT ![(rest + 1) % M] = size]
    <3>1. mem' = m4
      BY <1>5, <2>2
    <3>2. m1 \in [Address -> Address]
      BY <1>1
    <3> HIDE DEF m1
    <3>3. m2 \in [Address -> Address]
      BY <1>4, <3>2
    <3> HIDE DEF m2
    <3>4. m3 \in [Address -> Address]
      BY <1>3, <3>3
    <3> HIDE DEF m3
    <3>5. m4 \in [Address -> Address]
      BY <1>4, <3>4
    <3> QED BY <3>1, <3>5
  <2> QED BY <2>1, <2>2
<1>7. live' \subseteq [ptr : Address, size : Sizes]
  <2>1. b \in [ptr : Address, size : Sizes]
    BY <1>1, <1>4
  <2> HIDE DEF b
  <2> QED BY <1>5, <2>1 DEF TypeOK
<1> QED BY <1>2, <1>5, <1>6, <1>7 DEF TypeOK, BrkBounded

LEMMA MorecoreTypes ==
  ASSUME TypeOK, BrkBounded, Morecore
  PROVE  TypeOK' /\ BrkBounded'
<1> DEFINE pages == ((want + HDR - 1) % M) \div PAGE + 1
           new == PAGE * pages
<1>1. mem \in [Address -> Address] /\ brk \in Address /\ want \in Nat
  BY AddressFacts DEF TypeOK, Morecore
<1>2. pages \in Nat /\ PAGE \in Nat
  <2> DEFINE q == (want + HDR - 1) % M
  <2>1. q \in Nat
    <3>1. want + HDR - 1 \in Int
      BY <1>1 DEF HDR
    <3> QED BY <3>1, ModFacts, AddressFacts
  <2> HIDE DEF q
  <2>2. q \div PAGE + 1 \in Nat /\ PAGE \in Nat
    BY <2>1, Constants
  <2> QED BY <2>2 DEF q
<1> HIDE DEF pages
<1>3. new \in Nat
  BY <1>2
<1>4. UNCHANGED <<want, live>>
  BY DEF Morecore
<1>5. CASE Stops # {} /\ brk + new > HEAP + PAGE * MaxPages
  <2>1. cpu' = "oom" /\ brk' = HEAP + PAGE * MaxPages /\ UNCHANGED <<mem, freep, sound>>
    BY <1>5 DEF Morecore, pages
  <2>2. brk' \in Address /\ BrkBounded'
    BY <2>1, AddressFacts DEF BrkBounded
  <2> QED BY <1>4, <2>1, <2>2 DEF TypeOK
<1>6. CASE Stops # {} /\ ~(brk + new > HEAP + PAGE * MaxPages)
  <2>1. brk' = brk + new /\ Insert([mem EXCEPT ![brk + 1] = new], brk)
    BY <1>6 DEF Morecore, pages
  <2> HIDE DEF new
  <2>2. brk + new \in Nat /\ brk + new <= HEAP + PAGE * MaxPages /\ new \in Address
    BY <1>1, <1>3, <1>6, Constants DEF Address
  <2>3. brk' \in Address /\ BrkBounded'
    BY <2>1, <2>2, Constants DEF Address, BrkBounded
  <2>4. [mem EXCEPT ![brk + 1] = new] \in [Address -> Address]
    BY <1>1, <2>2
  <2>5. /\ mem' \in [Address -> Address] /\ freep' \in Address
        /\ cpu' \in {"run", "oom", "pf", "spin"} /\ sound' \in BOOLEAN
    BY <1>1, <2>1, <2>4, InsertTypes
  <2> QED BY <1>4, <2>3, <2>5 DEF TypeOK
<1>7. CASE Stops = {}
  <2>1. cpu' = "spin" /\ UNCHANGED <<mem, freep, brk, sound>>
    BY <1>7 DEF Morecore
  <2> QED BY <1>4, <2>1 DEF TypeOK, BrkBounded
<1> QED BY <1>5, <1>6, <1>7

LEMMA KfreeTypes ==
  ASSUME TypeOK, BrkBounded, NEW b \in live, Kfree(b)
  PROVE  TypeOK' /\ BrkBounded'
<1>1. HeaderOf(b) \in Address
  <2>1. b.ptr \in Nat /\ M \in Nat
    BY AddressFacts, Constants DEF TypeOK
  <2>2. b.ptr + M - HDR \in Int
    BY <2>1 DEF HDR
  <2> QED BY <2>2, ModFacts DEF HeaderOf
<1>2. /\ mem' \in [Address -> Address] /\ freep' \in Address
      /\ cpu' \in {"run", "oom", "pf", "spin"} /\ sound' \in BOOLEAN
  <2>1. mem \in [Address -> Address]
    BY DEF TypeOK
  <2> QED BY <1>1, <2>1, InsertTypes DEF Kfree
<1> QED BY <1>2 DEF Kfree, TypeOK, BrkBounded

LEMMA TypesKept == TypeOK /\ BrkBounded /\ [Next]_vars => TypeOK' /\ BrkBounded'
<1> SUFFICES ASSUME TypeOK, BrkBounded, [Next]_vars PROVE TypeOK' /\ BrkBounded'
  OBVIOUS
<1>1. CASE \E nbytes \in Sizes : Kmalloc(nbytes)
  BY <1>1, KmallocTypes
<1>2. CASE TakeBlock
  BY <1>2, TakeBlockTypes
<1>3. CASE Morecore
  BY <1>3, MorecoreTypes
<1>4. CASE \E b \in live : Kfree(b)
  BY <1>4, KfreeTypes
<1>5. CASE UNCHANGED vars
  BY <1>5 DEF vars, TypeOK, BrkBounded
<1> QED BY <1>1, <1>2, <1>3, <1>4, <1>5 DEF Next

\* Every word of memory, every pointer and every size stays within a machine word,
\* whatever the callers ask for and however the pointer arithmetic wraps.
THEOREM TypeCorrect == Spec => []TypeOK
<1>1. Spec => [](TypeOK /\ BrkBounded)
  BY InitTypes, TypesKept, PTL DEF Spec
<1> QED BY <1>1, PTL

-----------------------------------------------------------------------------
(* The heap stays whole while it is sound.                                 *)

\* The heap up to top is made of blocks, and top is brk unless a call ended out of
\* memory, with pages mapped that belong to no block.
Intact ==
  IF freep = NULL THEN live = {} /\ brk = HEAP /\ want = Idle
  ELSE \E top \in PageEnds : /\ top <= brk
                             /\ cpu = "run" => top = brk
                             /\ Shape(mem, FreeBlocks, live, freep, top)

HeapInv ==
  /\ TypeOK /\ BrkBounded
  /\ sound => cpu \in {"run", "oom"} /\ Intact

LEMMA FreeListIs ==
  ASSUME NEW m \in [Address -> Address], NEW F, NEW L, NEW fp, NEW e, Shape(m, F, L, fp, e)
  PROVE  BlocksFrom(m, fp) = F /\ fp # NULL /\ fp \in Address
<1>1. Placed(F) /\ fp \in F /\ Cyclic(m, F)
  BY ShapeFacts DEF Shape
<1>2. BlocksFrom(m, fp) = F
  BY <1>1, BlocksFromIsAll
<1>3. base <= fp /\ fp \in Address
  BY <1>1, PlacedInAddress
<1> QED BY <1>2, <1>3 DEF base, NULL

\* End is where the next header is, or the end of the heap.
LEMMA EndFits ==
  ASSUME brk \in Nat, Headers \subseteq Nat, NEW h, NEW k \in Nat, k <= End(h)
  PROVE  k <= brk /\ \A a \in Headers : h < a => k <= a
<1> DEFINE S == {a \in Headers : a > h} \cup {brk}
<1>1. Min(S) \in S /\ \A a \in S : Min(S) <= a
  <2>1. S \in SUBSET Nat /\ S # {}
    OBVIOUS
  <2> HIDE DEF S
  <2> QED BY <2>1, MinProperties
<1>2. k <= Min(S) /\ Min(S) \in Nat
  BY <1>1 DEF End
<1>3. \A a \in S : k <= a
  <2> SUFFICES ASSUME NEW a \in S PROVE k <= a
    OBVIOUS
  <2>1. a \in Nat /\ Min(S) <= a
    BY <1>1
  <2> HIDE DEF S
  <2> QED BY <1>2, <2>1
<1> QED BY <1>3

LEMMA KmallocIntact ==
  ASSUME HeapInv, NEW nbytes \in Sizes, Kmalloc(nbytes), sound'
  PROVE  cpu' \in {"run", "oom"} /\ Intact'
<1>1. /\ TypeOK /\ cpu = "run" /\ Intact
      /\ cpu' = cpu /\ live' = live /\ brk' = brk
  BY DEF HeapInv, Kmalloc
<1>2. CASE freep # NULL
  <2>1. mem' = mem /\ freep' = freep
    BY <1>2 DEF Kmalloc
  <2> QED BY <1>1, <1>2, <2>1 DEF Intact, FreeBlocks
<1>3. CASE freep = NULL
  <2>1. live = {} /\ brk = HEAP
    BY <1>1, <1>3 DEF Intact
  <2>2. freep' = base /\ mem' = [mem EXCEPT ![base] = base, ![base + 1] = 0]
    BY <1>3 DEF Kmalloc
  <2>3. mem' \in [Address -> Address] /\ mem'[base] = base /\ mem'[base + 1] = 0
    BY <1>1, <2>2, AddressFacts DEF TypeOK, base, NULL
  <2>4. HEAP \in PageEnds
    <3>1. 0 \in 0 .. MaxPages /\ HEAP = HEAP + PAGE * 0
      BY Constants
    <3> QED BY <3>1 DEF PageEnds
  <2>5. Cyclic(mem', {base})
    BY <2>3 DEF Cyclic, base
  <2>6. Heads({base}, {}) = {}
    BY DEF Heads, HeadersOf
  <2>7. Shape(mem', {base}, {}, base, HEAP)
    BY <2>3, <2>4, <2>5, <2>6 DEF Shape
  <2>8. BlocksFrom(mem', base) = {base} /\ base # NULL
    BY <2>3, <2>7, FreeListIs
  <2>9. FreeBlocks' = {base}
    BY <2>2, <2>8 DEF FreeBlocks
  <2>10. HEAP <= HEAP
    BY Constants
  <2> QED BY <1>1, <2>1, <2>2, <2>4, <2>7, <2>8, <2>9, <2>10 DEF Intact
<1> QED BY <1>2, <1>3

LEMMA TakeBlockIntact ==
  ASSUME HeapInv, TakeBlock, sound'
  PROVE  cpu' \in {"run", "oom"} /\ Intact'
<1> DEFINE F == FreeBlocks
           H == Heads(F, live)
           p == Node(mem, Min(Stops) - 1)
           c == Node(mem, Min(Stops))
           s == Size(mem, c)
           gap == want + HDR
           rest == (c + gap) % M
           size == (s + M - gap) % M
           exact == s = want
           b == [ptr |-> (c + HDR) % M, size |-> want]
<1>1. /\ cpu = "run" /\ want # Idle /\ LargeEnough
      /\ mem' = IF exact THEN [mem EXCEPT ![p] = Next_(mem, c)]
                ELSE [mem EXCEPT ![c + 1] = want,
                                 ![p] = rest,
                                 ![rest] = Next_(mem, c),
                                 ![(rest + 1) % M] = size]
      /\ cpu' = IF exact \/ (Mapped(rest) /\ Mapped(rest + 1)) THEN "run" ELSE "pf"
      /\ freep' = p /\ live' = live \cup {b} /\ brk' = brk
  BY DEF TakeBlock, Split
<1>2. /\ sound /\ c # base
      /\ (IF exact THEN c ELSE rest) + HDR <= End(c)
      /\ c + HDR + want <= End(c)
  BY DEF TakeBlock, Split
<1>3. TypeOK /\ Intact /\ mem \in [Address -> Address] /\ freep \in Address
  BY <1>2 DEF HeapInv, TypeOK
<1>4. want \in Nat /\ want \in Address /\ brk \in Nat
  BY <1>1, <1>3, AddressFacts DEF TypeOK, NULL
<1>5. freep # NULL
  BY <1>1, <1>3, <1>4 DEF Intact
<1>6. Shape(mem, F, live, freep, brk) /\ brk \in PageEnds
  BY <1>1, <1>3, <1>5 DEF Intact
<1>7. /\ brk + 2 < M /\ M \in Nat /\ HEAP \in Nat
      /\ \A h \in H : h \in Nat /\ 3 <= h /\ HEAP <= h /\ h + 2 <= brk
      /\ \A h \in H, f \in F : h + 1 # f /\ (f # h => f + 1 # h)
      /\ Placed(F)
  BY <1>6, ShapeFacts, Constants
<1>8. F \subseteq Address /\ F \subseteq Nat
  BY <1>7, PlacedInAddress
<1>9. F = BlocksFrom(mem, freep) /\ Headers = H
  BY <1>5 DEF FreeBlocks, Headers, Heads, HeadersOf
<1>10. p \in F /\ c = mem[p] /\ s >= want
  <2>1. Stops # {}
    BY <1>1 DEF LargeEnough
  <2>2. c = mem[p] /\ \E k \in 0 .. MaxBlocks : p = Node(mem, k)
    BY <1>3, <2>1, StopFacts
  <2>3. s >= want
    BY <1>1 DEF LargeEnough
  <2> QED BY <1>9, <2>2, <2>3 DEF BlocksFrom, Node
<1> HIDE DEF F, p, c
<1>11. c \in F /\ Cyclic(mem, F) /\ mem[base + 1] = 0
  BY <1>6, <1>10 DEF Shape, Cyclic
<1>12. s \in Nat /\ s = mem[c + 1] /\ c \in Nat
  <2>1. c + 1 \in Address
    <3>1. c = base \/ c \in H
      BY <1>11 DEF Heads
    <3>2. CASE c = base
      BY <3>2, AddressFacts
    <3>3. CASE c \in H
      <4>1. c \in Nat /\ c + 2 <= brk
        BY <1>7, <3>3
      <4> QED BY <1>4, <1>7, <4>1 DEF Address
    <3> QED BY <3>1, <3>2, <3>3
  <2>2. (c + 1) % M = c + 1
    BY <2>1, ModFacts
  <2>3. s = mem[c + 1]
    BY <2>2 DEF Size
  <2> QED BY <1>3, <1>8, <1>11, <2>1, <2>3, AddressFacts
<1> HIDE DEF s
<1>13. c # base /\ c \in H
  BY <1>2, <1>11 DEF Heads
<1>14. /\ c \in Nat /\ 3 <= c /\ HEAP <= c /\ c + 2 <= brk
       /\ (c + HDR) % M = c + HDR /\ HeaderOf(b) = c
  <2>1. c \in Nat /\ 3 <= c /\ HEAP <= c /\ c + 2 <= brk
    BY <1>7, <1>13
  <2>2. c + HDR \in Address /\ c \in Address
    BY <1>4, <1>7, <2>1 DEF HDR, Address
  <2>3. (c + HDR) % M = c + HDR /\ (c + M) % M = c
    BY <2>2, ModFacts
  <2>4. c + HDR + M - HDR = c + M
    BY <2>1, <1>7 DEF HDR
  <2> QED BY <2>1, <2>3, <2>4 DEF HeaderOf
<1>15. b.ptr = c + HDR /\ b.size = want
  BY <1>14
<1>16. Headers \subseteq Nat
  BY <1>7, <1>9
<1>17. c + HDR + want <= brk /\ \A a \in H : c < a => c + HDR + want <= a
  <2>1. c + HDR + want \in Nat
    BY <1>4, <1>14 DEF HDR
  <2> QED BY <1>2, <1>4, <1>9, <1>16, <2>1, EndFits
<1>18. Next_(mem, c) = mem[c] /\ mem[c] \in Address
  BY <1>3, <1>8, <1>11 DEF Next_
<1>19. p < c /\ p \in Nat /\ p \in Address
  <2>1. ~(\A g \in F : g <= p)
    BY <1>6, <1>10, <1>11, <1>13 DEF Cyclic
  <2> QED BY <2>1, <1>8, <1>10, <1>11 DEF Cyclic
<1>20. mem' \in [Address -> Address]
  <2>1. BrkBounded
    BY DEF HeapInv
  <2> QED BY <1>3, <2>1, TakeBlockTypes DEF TypeOK
\* It is enough that the new free list and the new blocks have the shape.
<1>21. ASSUME NEW G, Shape(mem', G, live', freep', brk), cpu' = "run"
       PROVE  cpu' \in {"run", "oom"} /\ Intact'
  <2>1. BlocksFrom(mem', freep') = G /\ freep' # NULL
    BY <1>20, <1>21, FreeListIs
  <2>2. FreeBlocks' = G
    BY <2>1 DEF FreeBlocks
  <2>3. brk' <= brk'
    BY <1>1, <1>4
  <2> QED BY <1>1, <1>6, <1>21, <2>1, <2>2, <2>3 DEF Intact
<1>22. CASE exact
  <2>1. mem' = [mem EXCEPT ![p] = mem[c]] /\ cpu' = "run"
    BY <1>1, <1>18, <1>22
  <2>2. mem'[p] = mem[mem[p]] /\ \A a \in Address \ {p} : mem'[a] = mem[a]
    BY <1>3, <1>10, <1>19, <2>1
  <2>3. mem[mem[p] + 1] = want /\ mem[p] # base
    BY <1>10, <1>12, <1>13, <1>22
  <2>4. Fits(F, live, brk, mem[p], mem[p] + HDR + want)
    BY <1>10, <1>17 DEF Fits
  <2>5. b.ptr = mem[p] + HDR /\ HeaderOf(b) = mem[p]
    BY <1>10, <1>14, <1>15
  <2> HIDE DEF b, H
  <2>6. Shape(mem', F \ {mem[p]}, live \cup {b}, p, brk)
    BY <1>4, <1>6, <1>10, <1>15, <2>2, <2>3, <2>4, <2>5, TakenWhole
  <2> QED BY <1>1, <1>21, <2>1, <2>6
<1>23. CASE ~exact
  <2> DEFINE r == c + HDR + want
  <2>1. r \in Nat /\ r = c + gap /\ r \in Address /\ want < s
    <3>1. r \in Nat /\ r = c + gap
      BY <1>4, <1>14 DEF HDR
    <3>2. r < M
      BY <1>4, <1>7, <1>17, <3>1
    <3> QED BY <1>4, <1>7, <1>10, <1>12, <1>23, <3>1, <3>2 DEF Address
  <2>2. rest = r
    BY <2>1, ModFacts
  <2>3. r + HDR <= brk /\ \A a \in H : c < a => r + HDR <= a
    <3>1. r + HDR \in Nat /\ r + HDR <= End(c)
      BY <1>2, <1>23, <2>1, <2>2 DEF HDR
    <3> QED BY <1>4, <1>9, <1>16, <3>1, EndFits
  <2> HIDE DEF r
  <2>4. r + 1 \in Address /\ (r + 1) % M = r + 1
    <3>1. r + 1 \in Address
      BY <1>4, <1>7, <2>1, <2>3 DEF Address, HDR
    <3> QED BY <3>1, ModFacts
  <2>5. gap <= s
    <3>1. PICK k : Block(mem, F, live, brk, c, k)
      BY <1>6, <1>13 DEF Shape
    <3>2. /\ k = brk \/ k \in H
          /\ \A a \in H : c < a => k <= a
          /\ c + HDR <= k
          /\ k = c + HDR + s \/ k = c + s
      BY <1>12, <3>1 DEF Block
    <3>3. k \in Nat /\ c < k
      BY <1>4, <1>7, <1>14, <3>2 DEF HDR
    <3>4. r + HDR <= k
      BY <2>3, <3>2, <3>3
    <3> QED BY <1>4, <1>12, <2>1, <3>2, <3>3, <3>4 DEF HDR
  <2>6. size = s - gap
    <3> DEFINE d == s - gap
    <3>1. s + M - gap = d + M /\ d \in Nat
      BY <1>4, <1>7, <1>12, <2>5 DEF HDR
    <3>2. d < M
      <4>1. s \in Address
        BY <1>3, <1>8, <1>11, FieldTypes DEF s
      <4>2. s < M
        BY <1>7, <4>1 DEF Address
      <4> QED BY <1>4, <1>12, <4>2, <1>7 DEF HDR
    <3>3. d \in Address
      BY <3>1, <3>2, <1>7 DEF Address
    <3>4. (d + M) % M = d
      BY <3>3, ModFacts
    <3> QED BY <3>1, <3>4
  <2>7. mem' = [mem EXCEPT ![c + 1] = want, ![p] = r, ![r] = mem[c], ![r + 1] = s - gap]
    BY <1>1, <1>18, <1>23, <2>2, <2>4, <2>6
  <2>8. c + 1 \in Address /\ c + 1 # p /\ c + 1 # r /\ c + 1 # r + 1 /\ p # r /\ p # r + 1
    <3>1. c + 1 \in Address
      BY <1>4, <1>7, <1>14 DEF Address
    <3>2. c + 1 < r
      BY <1>1, <1>4, <1>14, <2>1 DEF HDR
    <3> QED BY <3>1, <3>2, <1>14, <1>19, <2>1
  <2>9. /\ mem'[c + 1] = want /\ mem'[p] = r /\ mem'[r] = mem[c]
        /\ mem'[r + 1] = s - gap
        /\ \A a \in Address \ {c + 1, p, r, r + 1} : mem'[a] = mem[a]
    <3> HIDE DEF gap, exact, rest, size
    <3>1. r \in Nat
      BY <2>1
    <3>2. r # r + 1
      BY <3>1
    <3> QED BY <1>3, <1>19, <2>1, <2>4, <2>7, <2>8, <3>2
  <2>10. cpu' = "run"
    <3>1. Mapped(r) /\ Mapped(r + 1)
      BY <1>4, <1>7, <1>14, <2>1, <2>3 DEF Mapped, HDR
    <3> QED BY <1>1, <2>2, <3>1
  <2>11. Fits(F, live, brk, mem[p], r + HDR)
    BY <1>10, <2>3 DEF Fits
  <2>12. /\ mem[p] # base /\ mem[mem[p] + 1] \in Nat /\ mem[mem[p] + 1] > want
         /\ r = mem[p] + HDR + want
         /\ mem'[mem[p] + 1] = want /\ mem'[p] = r /\ mem'[r] = mem[mem[p]]
         /\ mem'[r + 1] = mem[mem[p] + 1] - (want + HDR)
         /\ \A a \in Address \ {mem[p] + 1, p, r, r + 1} : mem'[a] = mem[a]
    BY <1>10, <1>12, <1>13, <2>1, <2>9, <1>4 DEF r
  <2>13. b.ptr = mem[p] + HDR /\ HeaderOf(b) = mem[p]
    BY <1>10, <1>14, <1>15
  <2> HIDE DEF b, H, exact, size, rest, gap
  <2>14. Shape(mem', (F \ {mem[p]}) \cup {r}, live \cup {b}, p, brk)
    BY <1>4, <1>6, <1>10, <1>15, <2>11, <2>12, <2>13, TakenSplit
  <2> QED BY <1>1, <1>21, <2>10, <2>14
<1> QED BY <1>22, <1>23

\* What kfree's insertion does while no step is unsound: nothing is merged.
LEMMA InsertSound ==
  ASSUME NEW m \in [Address -> Address], NEW F, Placed(F), Cyclic(m, F), freep \in F,
         NEW x \in Address, base + 1 < x, x \notin F, \A f \in F : f + 1 # x,
         Insert(m, x), sound'
  PROVE  /\ sound /\ cpu' = cpu
         /\ \E c \in F : /\ c < x /\ (m[c] = base \/ x < m[c])
                         /\ freep' = c /\ mem'[c] = x /\ mem'[x] = m[c]
                         /\ \A a \in Address \ {c, x} : mem'[a] = m[a]
<1> DEFINE c == Node(m, Min(Places(m, x)))
<1>1. F \subseteq Address /\ F \subseteq Nat /\ x \in Nat /\ base < x
  BY PlacedInAddress, AddressFacts DEF base
<1>2. Places(m, x) # {} /\ c \in F /\ c < x /\ (m[c] = base \/ x < m[c])
  BY <1>1, PlaceFound
<1>3. /\ mem' = Inserted(m, x, c) /\ freep' = c /\ cpu' = cpu
      /\ sound /\ ~Meets(m, x, Next_(m, c)) /\ ~Meets(m, c, x)
  BY <1>2 DEF Insert
<1> HIDE DEF c
<1>4. c \in Address /\ c # x /\ (c + 1) % M # x
  <2>1. c + 1 \in Address /\ c \in Nat
    <3>1. c < x /\ x < M /\ c \in Nat
      BY <1>1, <1>2, Constants DEF Address
    <3> QED BY <3>1, <1>1, Constants DEF Address
  <2>2. (c + 1) % M = c + 1
    BY <2>1, ModFacts
  <2>3. c # x
    BY <1>1, <1>2
  <2> QED BY <1>1, <1>2, <2>2, <2>3
<1>5. mem'[c] = x /\ mem'[x] = m[c] /\ \A a \in Address \ {c, x} : mem'[a] = m[a]
  BY <1>3, <1>4, InsertedPlainly
<1> QED BY <1>2, <1>3, <1>5

\* kmalloc's search ends: the list comes round to freep.
LEMMA SearchEnds ==
  ASSUME HeapInv, sound, freep # NULL
  PROVE  Stops # {}
<1>1. PICK top \in PageEnds : Shape(mem, FreeBlocks, live, freep, top)
  BY DEF HeapInv, Intact
<1>2. Placed(FreeBlocks) /\ Cyclic(mem, FreeBlocks) /\ freep \in FreeBlocks
  BY <1>1, ShapeFacts DEF Shape
<1>3. PICK k \in 1 .. MaxBlocks : Walk(mem, freep)[k] = freep
  BY <1>2, BlocksFromIsAll DEF HeapInv, TypeOK
<1> QED BY <1>3 DEF Stops, Node

LEMMA MorecoreIntact ==
  ASSUME HeapInv, Morecore, sound'
  PROVE  cpu' \in {"run", "oom"} /\ Intact'
<1> DEFINE F == FreeBlocks
           pages == ((want + HDR - 1) % M) \div PAGE + 1
           new == PAGE * pages
<1>1. cpu = "run" /\ want # Idle /\ live' = live /\ TypeOK /\ BrkBounded
  BY DEF Morecore, HeapInv
<1>2. mem \in [Address -> Address] /\ brk \in Nat /\ want \in Nat /\ freep \in Address
  BY <1>1, AddressFacts DEF TypeOK, NULL
<1>3. pages \in Nat /\ 1 <= pages /\ PAGE \in Nat /\ 2 <= PAGE
  <2> DEFINE q == (want + HDR - 1) % M
  <2>1. q \in Nat
    <3>1. want + HDR - 1 \in Int
      BY <1>2 DEF HDR
    <3> QED BY <3>1, ModFacts, AddressFacts
  <2> HIDE DEF q
  <2>2. q \div PAGE \in Nat /\ PAGE \in Nat /\ 2 <= PAGE
    BY <2>1, Constants
  <2>3. q \div PAGE + 1 \in Nat /\ 1 <= q \div PAGE + 1
    BY <2>2
  <2> QED BY <2>2, <2>3 DEF q
<1> HIDE DEF pages
<1>4. CASE Stops # {} /\ brk + new > HEAP + PAGE * MaxPages
  <2>1. cpu' = "oom" /\ brk' = HEAP + PAGE * MaxPages /\ UNCHANGED <<mem, freep, sound>>
    BY <1>4 DEF Morecore, pages
  <2>2. Intact
    BY <2>1 DEF HeapInv
  <2>3. freep # NULL
    BY <1>1, <1>2, <2>2 DEF Intact
  <2>4. PICK top \in PageEnds : /\ top <= brk
                                /\ Shape(mem, FreeBlocks, live, freep, top)
    BY <2>2, <2>3 DEF Intact
  <2>5. top <= brk'
    BY <2>1, <2>4, PageEndFacts
  <2>6. FreeBlocks' = FreeBlocks
    BY <2>1 DEF FreeBlocks
  <2> QED BY <1>1, <2>1, <2>3, <2>4, <2>5, <2>6 DEF Intact
<1>5. CASE Stops # {} /\ ~(brk + new > HEAP + PAGE * MaxPages)
  <2> DEFINE m1 == [mem EXCEPT ![brk + 1] = new]
  <2>1. brk' = brk + new /\ Insert(m1, brk)
    BY <1>5 DEF Morecore, pages
  <2>2. new \in Nat /\ 2 <= new
    BY <1>3
  <2>3. brk + new <= HEAP + PAGE * MaxPages /\ new \in Address
    <3> HIDE DEF new
    <3> QED BY <1>2, <1>5, <2>2, Constants DEF Address
  <2>4. sound
    BY <2>1 DEF Insert
  <2>5. Intact
    BY <2>4 DEF HeapInv
  <2>6. freep # NULL
    BY <1>1, <1>2, <2>5 DEF Intact
  <2>7. Shape(mem, F, live, freep, brk) /\ brk \in PageEnds
    BY <1>1, <2>5, <2>6 DEF Intact
  <2> HIDE DEF F
  <2>8. /\ brk + 2 < M /\ 3 <= brk /\ Placed(F) /\ M \in Nat
        /\ \A h \in Heads(F, live) : h \in Nat /\ h + 2 <= brk
    BY <2>7, ShapeFacts, Constants
  <2>9. /\ \A f \in F : f = base \/ f \in Heads(F, live)
        /\ freep \in F /\ Cyclic(mem, F)
    BY <2>7 DEF Heads, Shape
  <2>10. \A f \in F : f # brk /\ f + 1 # brk /\ f # brk + 1
    BY <1>2, <2>8, <2>9 DEF base
  <2>11. brk + new \in PageEnds
    <3>1. PICK q \in 0 .. MaxPages : brk = HEAP + PAGE * q
      BY <2>7 DEF PageEnds
    <3>2. q + pages \in Nat /\ PAGE * (q + pages) = PAGE * q + PAGE * pages
      BY <1>3, <3>1
    <3>3. PAGE * (q + pages) <= PAGE * MaxPages
      BY <1>3, <2>3, <3>1, <3>2, Constants
    <3>4. q + pages <= MaxPages
      <4> SUFFICES ASSUME MaxPages + 1 <= q + pages PROVE FALSE
        BY <3>2, Constants
      <4>1. PAGE * (MaxPages + 1) <= PAGE * (q + pages)
        BY <1>3, <3>2, Constants
      <4>2. PAGE * (MaxPages + 1) = PAGE * MaxPages + PAGE
        BY <1>3, Constants
      <4>3. PAGE * MaxPages \in Nat
        BY Constants
      <4> HIDE DEF new
      <4> QED BY <1>3, <3>2, <3>3, <4>1, <4>2, <4>3
    <3>5. q + pages \in 0 .. MaxPages
      BY <3>2, <3>4, Constants
    <3>6. brk + new = HEAP + PAGE * (q + pages)
      BY <1>3, <3>1, <3>2, Constants
    <3> QED BY <3>5, <3>6 DEF PageEnds
  <2> HIDE DEF new
  <2>12. brk \in Address /\ brk + 1 \in Address /\ base + 1 < brk /\ brk # brk + 1
    BY <1>2, <2>8 DEF Address, base
  <2>13. /\ m1 \in [Address -> Address] /\ m1[brk + 1] = new
         /\ \A a \in Address \ {brk + 1} : m1[a] = mem[a]
    BY <1>2, <2>3, <2>12
  <2>14. Cyclic(m1, F)
    <3>1. F \subseteq Address
      BY <2>8, PlacedInAddress
    <3>2. \A f \in F : m1[f] = mem[f]
      BY <2>10, <2>13, <3>1
    <3> HIDE DEF m1
    <3> QED BY <2>9, <3>2, CyclicSame
  <2> HIDE DEF m1
  <2>15. /\ cpu' = cpu
         /\ \E c \in F : /\ c < brk /\ (m1[c] = base \/ brk < m1[c])
                         /\ freep' = c /\ mem'[c] = brk /\ mem'[brk] = m1[c]
                         /\ \A a \in Address \ {c, brk} : mem'[a] = m1[a]
    BY <2>1, <2>8, <2>9, <2>10, <2>12, <2>13, <2>14, InsertSound
  <2>16. PICK c \in F : /\ c < brk /\ (m1[c] = base \/ brk < m1[c])
                        /\ freep' = c /\ mem'[c] = brk /\ mem'[brk] = m1[c]
                        /\ \A a \in Address \ {c, brk} : mem'[a] = m1[a]
    BY <2>15
  <2>17. m1[c] = mem[c] /\ c # brk + 1
    <3>1. c \in Address
      BY <2>8, PlacedInAddress
    <3> QED BY <2>10, <2>13, <3>1
  <2>18. /\ mem'[c] = brk /\ mem'[brk] = mem[c] /\ mem'[brk + 1] = new
         /\ \A a \in Address \ {c, brk, brk + 1} : mem'[a] = mem[a]
    BY <2>12, <2>13, <2>16, <2>17
  <2>19. Shape(mem', F \cup {brk}, live, c, brk + new)
    BY <2>2, <2>7, <2>11, <2>16, <2>17, <2>18, NewInserted
  <2>20. mem' \in [Address -> Address]
    BY <1>1, MorecoreTypes DEF TypeOK
  <2>21. FreeBlocks' = F \cup {brk} /\ freep' # NULL
    BY <2>16, <2>19, <2>20, FreeListIs DEF FreeBlocks
  <2>22. brk' \in PageEnds /\ brk' <= brk'
    BY <1>2, <2>1, <2>2, <2>11
  <2> QED BY <1>1, <2>1, <2>15, <2>16, <2>19, <2>21, <2>22 DEF Intact
<1>6. CASE Stops = {}
  <2>1. sound
    BY <1>6 DEF Morecore
  <2>2. freep # NULL
    BY <1>1, <1>2, <2>1 DEF HeapInv, Intact
  <2> QED BY <1>6, <2>1, <2>2, SearchEnds
<1> QED BY <1>4, <1>5, <1>6

LEMMA KfreeIntact ==
  ASSUME HeapInv, NEW b \in live, Kfree(b), sound'
  PROVE  cpu' \in {"run", "oom"} /\ Intact'
<1> DEFINE F == FreeBlocks
           x == HeaderOf(b)
<1>1. /\ cpu = "run" /\ want = Idle /\ TypeOK /\ BrkBounded
      /\ live' = live \ {b} /\ brk' = brk /\ Insert(mem, x)
  BY DEF Kfree, HeapInv
<1>2. mem \in [Address -> Address] /\ freep \in Address /\ brk \in Nat
  BY <1>1, AddressFacts DEF TypeOK
<1>3. sound
  BY <1>1 DEF Insert
<1>4. Intact
  BY <1>3 DEF HeapInv
<1>5. freep # NULL
  BY <1>4 DEF Intact
<1>6. Shape(mem, F, live, freep, brk) /\ brk \in PageEnds
  BY <1>1, <1>4, <1>5 DEF Intact
<1> HIDE DEF F
<1>7. /\ brk + 2 < M /\ Placed(F) /\ M \in Nat
      /\ \A h \in Heads(F, live) : h \in Nat /\ 3 <= h /\ h + 2 <= brk
      /\ \A h \in Heads(F, live), f \in F : f # h => f + 1 # h
  BY <1>6, ShapeFacts, Constants
<1>8. x \in Heads(F, live) /\ x \notin F /\ freep \in F /\ Cyclic(mem, F)
  BY <1>6 DEF Heads, HeadersOf, Shape
<1> HIDE DEF x
<1>9. x \in Address /\ base + 1 < x /\ \A f \in F : f + 1 # x
  <2>1. x \in Nat /\ 3 <= x /\ x + 2 <= brk
    BY <1>7, <1>8
  <2> QED BY <1>2, <1>7, <1>8, <2>1 DEF Address, base
<1>10. /\ cpu' = cpu
       /\ \E c \in F : /\ c < x /\ (mem[c] = base \/ x < mem[c])
                       /\ freep' = c /\ mem'[c] = x /\ mem'[x] = mem[c]
                       /\ \A a \in Address \ {c, x} : mem'[a] = mem[a]
  BY <1>1, <1>2, <1>7, <1>8, <1>9, InsertSound
<1>11. PICK c \in F : /\ c < x /\ (mem[c] = base \/ x < mem[c])
                      /\ freep' = c /\ mem'[c] = x /\ mem'[x] = mem[c]
                      /\ \A a \in Address \ {c, x} : mem'[a] = mem[a]
  BY <1>10
<1>12. Shape(mem', F \cup {x}, live \ {b}, c, brk)
  BY <1>6, <1>11, FreedInserted DEF x
<1>13. mem' \in [Address -> Address]
  BY <1>1, KfreeTypes DEF TypeOK
<1>14. FreeBlocks' = F \cup {x} /\ freep' # NULL
  BY <1>11, <1>12, <1>13, FreeListIs DEF FreeBlocks
<1>15. brk' <= brk'
  BY <1>1, <1>2
<1> QED BY <1>1, <1>6, <1>10, <1>11, <1>12, <1>14, <1>15 DEF Intact

LEMMA HeapInvHolds == Spec => []HeapInv
<1>1. Init => HeapInv
  <2> SUFFICES ASSUME Init PROVE HeapInv
    OBVIOUS
  <2>1. cpu \in {"run", "oom"} /\ Intact
    BY DEF Init, Intact
  <2> QED BY <2>1, InitTypes DEF HeapInv
<1>2. HeapInv /\ [Next]_vars => HeapInv'
  <2> SUFFICES ASSUME HeapInv, [Next]_vars PROVE HeapInv'
    OBVIOUS
  <2>1. TypeOK' /\ BrkBounded'
    BY TypesKept DEF HeapInv
  <2>2. ASSUME sound' PROVE cpu' \in {"run", "oom"} /\ Intact'
    <3>1. CASE \E nbytes \in Sizes : Kmalloc(nbytes)
      BY <2>2, <3>1, KmallocIntact
    <3>2. CASE TakeBlock
      BY <2>2, <3>2, TakeBlockIntact
    <3>3. CASE Morecore
      BY <2>2, <3>3, MorecoreIntact
    <3>4. CASE \E b \in live : Kfree(b)
      BY <2>2, <3>4, KfreeIntact
    <3>5. CASE UNCHANGED vars
      BY <2>2, <3>5 DEF vars, HeapInv, Intact, FreeBlocks
    <3> QED BY <3>1, <3>2, <3>3, <3>4, <3>5 DEF Next
  <2> QED BY <2>1, <2>2 DEF HeapInv
<1> QED BY <1>1, <1>2, PTL DEF Spec

-----------------------------------------------------------------------------
(* What it means for the callers.                                          *)

\* A heap with a free list, with the next header or the end behind each of its blocks.
LEMMA IntactFacts ==
  ASSUME HeapInv, sound, freep # NULL
  PROVE  \E top \in Nat :
           /\ HEAP <= top /\ top <= brk /\ top + 2 < M
           /\ Shape(mem, FreeBlocks, live, freep, top)
           /\ Headers = Heads(FreeBlocks, live)
           /\ \A h \in Headers : h \in Nat /\ 3 <= h /\ HEAP <= h /\ h + 2 <= top
           /\ \A h \in Headers : Size(mem, h) = mem[h + 1]
<1>1. PICK top \in PageEnds : top <= brk /\ Shape(mem, FreeBlocks, live, freep, top)
  BY DEF HeapInv, Intact
<1>2. Headers = Heads(FreeBlocks, live)
  BY DEF Headers, Heads, HeadersOf
<1>3. /\ top \in Nat /\ HEAP <= top /\ top + 2 < M
      /\ \A h \in Headers : h \in Nat /\ 3 <= h /\ HEAP <= h /\ h + 2 <= top
  BY <1>1, <1>2, ShapeFacts
<1>4. ASSUME NEW h \in Headers PROVE Size(mem, h) = mem[h + 1]
  <2>1. h + 1 \in Address
    BY <1>3, Constants DEF Address
  <2>2. (h + 1) % M = h + 1
    BY <2>1, ModFacts
  <2> QED BY <2>2 DEF Size
<1> QED BY <1>1, <1>2, <1>3, <1>4

\* While the heap is sound, a block handed out belongs to its caller alone: every byte
\* is mapped and outside every other block and header (memory.c:533).
THEOREM BlocksAreTheCallers == Spec => []BlocksDisjointWhileSound
<1>1. HeapInv => BlocksDisjointWhileSound
  <2> SUFFICES ASSUME HeapInv, sound, NEW b \in live
               PROVE  /\ \A a \in Payload(b) : Mapped(a)
                      /\ \A c \in live \ {b} :
                           Payload(b) \cap (Header(HeaderOf(c)) \cup Payload(c)) = {}
                      /\ \A f \in FreeBlocks :
                           (Header(HeaderOf(b)) \cup Payload(b)) \cap Header(f) = {}
    BY DEF BlocksDisjointWhileSound, BlocksDisjoint
  <2>1. freep # NULL
    BY DEF HeapInv, Intact
  <2>2. PICK top \in Nat :
          /\ HEAP <= top /\ top <= brk /\ top + 2 < M
          /\ Shape(mem, FreeBlocks, live, freep, top)
          /\ Headers = Heads(FreeBlocks, live)
          /\ \A h \in Headers : h \in Nat /\ 3 <= h /\ HEAP <= h /\ h + 2 <= top
    BY <2>1, IntactFacts
  <2>3. brk \in Nat /\ HEAP \in Nat
    BY AddressFacts, Constants DEF HeapInv, TypeOK
  \* A block in use, and the memory behind its header.
  <2>4. ASSUME NEW c \in live
        PROVE  /\ HeaderOf(c) \in Headers /\ HeaderOf(c) \notin FreeBlocks
               /\ c.ptr = HeaderOf(c) + 2 /\ c.size \in Nat
               /\ c.ptr + c.size <= top
               /\ \A a \in Headers : HeaderOf(c) < a => c.ptr + c.size <= a
    <3> DEFINE h == HeaderOf(c)
    <3>1. h \in Headers /\ h \in HeadersOf(live)
      BY DEF Headers, HeadersOf
    <3>2. h \notin FreeBlocks /\ c.ptr = h + 2 /\ mem[h + 1] = c.size
      BY <2>2 DEF Shape, HDR
    <3>3. c.size \in Nat
      BY AddressFacts DEF HeapInv, TypeOK
    <3>4. PICK n : Block(mem, FreeBlocks, live, top, h, n)
      BY <2>2, <3>1 DEF Shape
    <3>5. n \in Headers /\ n = h + 2 + c.size /\ \A a \in Headers : h < a => n <= a
      BY <2>2, <3>1, <3>2, <3>4 DEF Block, HDR
    <3> HIDE DEF h
    <3>6. n = c.ptr + c.size /\ n <= top
      BY <2>2, <3>1, <3>2, <3>3, <3>5
    <3> QED BY <3>1, <3>2, <3>3, <3>5, <3>6 DEF h
  <2>5. \A a \in Payload(b) : Mapped(a)
    <3> SUFFICES ASSUME NEW a \in Payload(b) PROVE Mapped(a)
      OBVIOUS
    <3>1. HeaderOf(b) \in Nat /\ HEAP <= HeaderOf(b)
      BY <2>2, <2>4
    <3>2. a \in Int /\ b.ptr <= a /\ a <= b.ptr + b.size - 1
      BY <2>4, <3>1 DEF Payload
    <3>3. a \in HEAP .. brk - 1
      BY <2>2, <2>3, <2>4, <3>1, <3>2
    <3> QED BY <3>3 DEF Mapped
  <2>6. ASSUME NEW c \in live \ {b}
        PROVE  Payload(b) \cap (Header(HeaderOf(c)) \cup Payload(c)) = {}
    <3>1. /\ HeaderOf(b) \in Nat /\ HeaderOf(c) \in Nat /\ HeaderOf(b) # HeaderOf(c)
      BY <2>2, <2>4, <2>6 DEF Shape
    <3>2. b.ptr = HeaderOf(b) + 2 /\ c.ptr = HeaderOf(c) + 2 /\ b.size \in Nat /\ c.size \in Nat
      BY <2>4
    <3>3. CASE HeaderOf(b) < HeaderOf(c)
      <4>1. b.ptr + b.size <= HeaderOf(c)
        BY <2>4, <3>3
      <4> QED BY <3>1, <3>2, <4>1 DEF Payload, Header, HDR
    <3>4. CASE HeaderOf(c) < HeaderOf(b)
      <4>1. c.ptr + c.size <= HeaderOf(b)
        BY <2>4, <3>4
      <4> QED BY <3>1, <3>2, <4>1 DEF Payload, Header, HDR
    <3> QED BY <3>1, <3>3, <3>4
  <2>7. ASSUME NEW f \in FreeBlocks
        PROVE  (Header(HeaderOf(b)) \cup Payload(b)) \cap Header(f) = {}
    <3>1. HeaderOf(b) \in Nat /\ 3 <= HeaderOf(b) /\ b.ptr = HeaderOf(b) + 2 /\ b.size \in Nat
      BY <2>2, <2>4
    <3>2. CASE f = base
      BY <3>1, <3>2 DEF Payload, Header, HDR, base
    <3>3. CASE f # base
      <4>1. f \in Headers /\ f \in Nat /\ f # HeaderOf(b)
        BY <2>2, <2>4, <3>3 DEF Headers
      <4>2. CASE f < HeaderOf(b)
        <5>1. f + 2 <= HeaderOf(b)
          BY <2>2, <2>4, <4>1, <4>2, ShapeFacts
        <5> QED BY <3>1, <4>1, <5>1 DEF Payload, Header, HDR
      <4>3. CASE HeaderOf(b) < f
        <5>1. b.ptr + b.size <= f
          BY <2>4, <4>1, <4>3
        <5> QED BY <3>1, <4>1, <5>1 DEF Payload, Header, HDR
      <4> QED BY <3>1, <4>1, <4>2, <4>3
    <3> QED BY <3>2, <3>3
  <2> QED BY <2>5, <2>6, <2>7
<1> QED BY <1>1, HeapInvHolds, PTL

\* While the heap is sound, the free list is a single cycle through base, all of it in
\* mapped memory: the loops of kmalloc and kfree read nothing else (memory.c:534, 603).
THEOREM ListIsCircular == Spec => []ListCircular
<1>1. HeapInv => ListCircular
  <2> SUFFICES ASSUME HeapInv, sound, freep # NULL
               PROVE  /\ base \in FreeBlocks
                      /\ \A f \in FreeBlocks : \A a \in Header(f) : Mapped(a)
                      /\ Cardinality({f \in FreeBlocks : Next_(mem, f) <= f}) = 1
    BY DEF ListCircular
  <2>1. PICK top \in Nat :
          /\ HEAP <= top /\ top <= brk /\ top + 2 < M
          /\ Shape(mem, FreeBlocks, live, freep, top)
          /\ Headers = Heads(FreeBlocks, live)
          /\ \A h \in Headers : h \in Nat /\ 3 <= h /\ HEAP <= h /\ h + 2 <= top
    BY IntactFacts
  <2>2. brk \in Nat /\ HEAP \in Nat /\ M \in Nat
    BY AddressFacts, Constants DEF HeapInv, TypeOK
  <2>3. Cyclic(mem, FreeBlocks) /\ Placed(FreeBlocks) /\ base \in FreeBlocks
    BY <2>1, ShapeFacts DEF Shape, Cyclic
  <2>4. FreeBlocks \in SUBSET Nat /\ \A f \in FreeBlocks : base <= f /\ f <= M
    BY <2>3, PlacedInAddress
  <2>5. \A f \in FreeBlocks : \A a \in Header(f) : Mapped(a)
    <3> SUFFICES ASSUME NEW f \in FreeBlocks, NEW a \in Header(f) PROVE Mapped(a)
      OBVIOUS
    <3>1. CASE f = base
      BY <3>1 DEF Mapped, Header
    <3>2. CASE f # base
      <4>1. f \in Nat /\ HEAP <= f /\ f + 2 <= top
        BY <2>1, <3>2 DEF Headers
      <4>2. a \in HEAP .. brk - 1
        BY <2>1, <2>2, <4>1 DEF Header, HDR
      <4> QED BY <4>2 DEF Mapped
    <3> QED BY <3>1, <3>2
  <2>6. PICK x \in FreeBlocks : \A f \in FreeBlocks : f <= x
    BY <2>2, <2>3, <2>4, MaxNat
  <2>7. ASSUME NEW f \in FreeBlocks PROVE Next_(mem, f) <= f <=> f = x
    <3>1. CASE f = x
      <4>1. mem[x] = base
        BY <2>3, <2>6 DEF Cyclic
      <4> QED BY <2>4, <3>1, <4>1 DEF Next_
    <3>2. CASE f # x
      <4>1. f < x
        BY <2>4, <2>6, <3>2
      <4>2. f < mem[f] /\ mem[f] \in FreeBlocks
        BY <2>3, <4>1 DEF Cyclic
      <4>3. f \in Nat /\ mem[f] \in Nat
        BY <2>4, <4>2
      <4> QED BY <3>2, <4>2, <4>3 DEF Next_
    <3> QED BY <3>1, <3>2
  <2>8. {f \in FreeBlocks : Next_(mem, f) <= f} = {x}
    BY <2>6, <2>7
  <2> QED BY <2>3, <2>5, <2>8, FS_Singleton
<1> QED BY <1>1, HeapInvHolds, PTL

\* While the heap is sound, no memory drops out of sight between the blocks: behind
\* every block lies the next, or the end of what morecore got.
THEOREM NothingIsLost == Spec => []NothingLost
<1>1. HeapInv => NothingLost
  <2> SUFFICES ASSUME HeapInv, sound, NEW h \in Headers
               PROVE  \/ (h + HDR + Size(mem, h)) \in Headers
                      \/ (h + Size(mem, h)) \in PageEnds
    BY DEF NothingLost, PageEnds
  <2>1. freep # NULL
    BY DEF Headers, FreeBlocks, HeapInv, Intact
  <2>2. PICK top \in Nat :
          /\ Shape(mem, FreeBlocks, live, freep, top)
          /\ Headers = Heads(FreeBlocks, live)
          /\ Size(mem, h) = mem[h + 1]
    BY <2>1, IntactFacts
  <2>3. PICK n : Block(mem, FreeBlocks, live, top, h, n)
    BY <2>2 DEF Shape
  <2> QED BY <2>2, <2>3 DEF Block
<1> QED BY <1>1, HeapInvHolds, PTL

\* While the heap is sound, kmalloc's search comes to an end and kfree finds a place for
\* every block (memory.c:534, 603).
THEOREM LoopsEnd == Spec => []NeverSpins
<1>1. HeapInv => NeverSpins
  BY DEF HeapInv, NeverSpins
<1> QED BY <1>1, HeapInvHolds, PTL
=============================================================================
