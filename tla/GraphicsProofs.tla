--------------------------- MODULE GraphicsProofs ---------------------------
(***************************************************************************)
(* For every size that is looked for and all tables of modes: the search   *)
(* of Graphics ends with the best mode that it may take, or where it began. *)
(***************************************************************************)
EXTENDS Graphics, FiniteSetTheorems, TLAPS

\* The invariant of the loop: mode is the choice among the modes before i.
BestSoFar ==
  /\ best = modes[mode]
  /\ \A j \in DOMAIN modes : j < i =>
       /\ ~Perfect(modes[j])
       /\ Acceptable(modes[j]) =>
            /\ modes[j].h <= modes[mode].h
            /\ j < mode /\ mode # firmware => modes[j].h < modes[mode].h
  /\ mode # firmware =>
       /\ mode < i
       /\ Acceptable(modes[mode]) /\ modes[mode].h > modes[firmware].h

\* m is the first perfect mode.
FirstPerfect(m) ==
  /\ Perfect(modes[m])
  /\ \A j \in DOMAIN modes : j < m => ~Perfect(modes[j])

\* No mode is perfect, and m is the first of the highest acceptable modes, or the
\* firmware's own mode if none of them is higher than that, acceptable itself or not.
FirstHighest(m) ==
  /\ \A j \in DOMAIN modes :
       /\ ~Perfect(modes[j])
       /\ Acceptable(modes[j]) =>
            /\ modes[j].h <= modes[m].h
            /\ j < m /\ m # firmware => modes[j].h < modes[m].h
  /\ m # firmware => Acceptable(modes[m]) /\ modes[m].h > modes[firmware].h

\* The mode that the loop ends with, in so many words.
Selected ==
  /\ pc \in {"chosen", "done"} =>
       /\ FirstPerfect(mode) \/ FirstHighest(mode)
       /\ output_mode = modes[mode]
  /\ pc = "done" => current = mode

IInv ==
  /\ TypeOK
  /\ pc = "query" => mode = firmware /\ i = 0
  /\ pc = "search" => BestSoFar
  /\ Selected

\* A table of modes is a function on the numbers below some bound, of modes whose
\* height is a number.
LEMMA Tables ==
  ASSUME modes \in ModeTables
  PROVE  \E max \in Nat \ {0} :
           /\ DOMAIN modes = 0 .. max - 1
           /\ \A j \in DOMAIN modes : modes[j] \in Mode /\ modes[j].h \in Nat
<1> DEFINE max == Cardinality(DOMAIN modes)
<1>1. DOMAIN modes = 0 .. max - 1 /\ max \in Nat
  BY GraphicsAssumption, FS_CardinalityType
<1>2. max # 0 /\ \A j \in DOMAIN modes : modes[j] \in Mode
  BY GraphicsAssumption, <1>1
<1>3. \A m \in Mode : m.h \in Nat
  BY DEF Mode
<1> QED BY <1>1, <1>2, <1>3

\* The initial states satisfy the invariant.
LEMMA InitInvariant == Init => IInv
<1> SUFFICES ASSUME Init PROVE IInv
  OBVIOUS
<1>1. PICK max \in Nat \ {0} : DOMAIN modes = 0 .. max - 1
  BY Tables DEF Init
<1>2. Zero \in Mode
  BY DEF Zero, Mode
<1> QED BY <1>1, <1>2 DEF Init, IInv, TypeOK, Selected

\* Every step keeps it.
LEMMA StepInvariant == IInv /\ [Next]_vars => IInv'
<1> SUFFICES ASSUME IInv, [Next]_vars PROVE IInv'
  OBVIOUS
<1>1. PICK max \in Nat \ {0} :
        /\ DOMAIN modes = 0 .. max - 1
        /\ \A j \in DOMAIN modes : modes[j] \in Mode /\ modes[j].h \in Nat
  BY Tables DEF IInv, TypeOK
<1>2. CASE QueryCurrent
  <2>1. TypeOK'
    BY <1>1, <1>2 DEF IInv, TypeOK, QueryCurrent
  <2>2. BestSoFar'
    BY <1>1, <1>2 DEF IInv, TypeOK, QueryCurrent, BestSoFar, Acceptable, Perfect
  <2> QED BY <1>2, <2>1, <2>2 DEF IInv, QueryCurrent, Selected
<1>3. CASE TakePerfect
  <2>1. TypeOK'
    BY <1>1, <1>3 DEF IInv, TypeOK, TakePerfect
  <2>2. FirstPerfect(i)
    BY <1>1, <1>3 DEF IInv, TakePerfect, BestSoFar, FirstPerfect
  <2>3. FirstPerfect(mode)'
    BY <1>3, <2>2 DEF TakePerfect, FirstPerfect, Perfect, Acceptable
  <2> QED BY <1>3, <2>1, <2>3 DEF IInv, TakePerfect, Selected
<1>4. CASE TakeBetter
  <2>1. TypeOK'
    BY <1>1, <1>4 DEF IInv, TypeOK, TakeBetter
  <2>2. BestSoFar /\ i \in 0 .. max - 1 /\ firmware \in 0 .. max - 1 /\ mode \in 0 .. max - 1
    BY <1>1, <1>4 DEF IInv, TypeOK, TakeBetter
  <2>3. /\ Acceptable(modes[i]) /\ ~Perfect(modes[i])
        /\ modes[i].h > modes[mode].h
    BY <1>4, <2>2 DEF TakeBetter, Better, BestSoFar
  <2>4. modes[i].h > modes[firmware].h
    BY <1>1, <2>2, <2>3 DEF BestSoFar
  <2>5. \A j \in DOMAIN modes : j < i + 1 =>
          /\ ~Perfect(modes[j])
          /\ Acceptable(modes[j]) =>
               /\ modes[j].h <= modes[i].h
               /\ j < i => modes[j].h < modes[i].h
    <3> SUFFICES ASSUME NEW j \in 0 .. max - 1, j < i + 1
                 PROVE  /\ ~Perfect(modes[j])
                        /\ Acceptable(modes[j]) =>
                             /\ modes[j].h <= modes[i].h
                             /\ j < i => modes[j].h < modes[i].h
      BY <1>1
    <3>1. CASE j = i
      BY <1>1, <2>2, <2>3, <3>1
    <3>2. CASE j < i
      BY <1>1, <2>2, <2>3, <3>2 DEF BestSoFar
    <3> QED BY <2>2, <3>1, <3>2
  <2>6. BestSoFar'
    BY <1>1, <1>4, <2>2, <2>3, <2>4, <2>5 DEF TakeBetter, BestSoFar, Acceptable, Perfect
  <2> QED BY <1>4, <2>1, <2>6 DEF IInv, TakeBetter, Selected
<1>5. CASE Skip
  <2>1. TypeOK'
    BY <1>1, <1>5 DEF IInv, TypeOK, Skip
  <2>2. BestSoFar /\ i \in 0 .. max - 1 /\ mode \in 0 .. max - 1
    BY <1>1, <1>5 DEF IInv, TypeOK, Skip
  <2>3. ~Perfect(modes[i]) /\ (Acceptable(modes[i]) => modes[i].h <= modes[mode].h)
    BY <1>1, <1>5, <2>2 DEF Skip, Better, BestSoFar
  <2>4. \A j \in DOMAIN modes : j < i + 1 =>
          /\ ~Perfect(modes[j])
          /\ Acceptable(modes[j]) =>
               /\ modes[j].h <= modes[mode].h
               /\ j < mode /\ mode # firmware => modes[j].h < modes[mode].h
    <3> SUFFICES ASSUME NEW j \in 0 .. max - 1, j < i + 1
                 PROVE  /\ ~Perfect(modes[j])
                        /\ Acceptable(modes[j]) =>
                             /\ modes[j].h <= modes[mode].h
                             /\ j < mode /\ mode # firmware => modes[j].h < modes[mode].h
      BY <1>1
    <3>1. CASE j = i
      BY <1>1, <2>2, <2>3, <3>1 DEF BestSoFar
    <3>2. CASE j < i
      BY <1>1, <2>2, <3>2 DEF BestSoFar
    <3> QED BY <2>2, <3>1, <3>2
  <2>5. BestSoFar'
    BY <1>1, <1>5, <2>2, <2>4 DEF Skip, BestSoFar, Acceptable, Perfect
  <2> QED BY <1>5, <2>1, <2>5 DEF IInv, Skip, Selected
<1>6. CASE NoMoreModes
  <2>1. TypeOK'
    BY <1>1, <1>6 DEF IInv, TypeOK, NoMoreModes
  <2>2. BestSoFar /\ \A j \in DOMAIN modes : j < i
    BY <1>1, <1>6 DEF IInv, TypeOK, NoMoreModes
  <2>3. FirstHighest(mode) /\ best = modes[mode]
    BY <2>2 DEF BestSoFar, FirstHighest
  <2>4. FirstHighest(mode)' /\ output_mode' = modes'[mode']
    BY <1>6, <2>3 DEF NoMoreModes, FirstHighest, Perfect, Acceptable
  <2> QED BY <1>6, <2>1, <2>4 DEF IInv, NoMoreModes, Selected
<1>7. CASE SetMode
  BY <1>7 DEF IInv, TypeOK, SetMode, Selected, FirstPerfect, FirstHighest, Perfect, Acceptable
<1>8. CASE Fail
  BY <1>8 DEF IInv, TypeOK, Fail, Selected
<1>9. CASE UNCHANGED vars
  BY <1>9 DEF vars, IInv, TypeOK, BestSoFar, Selected, FirstPerfect, FirstHighest,
              Perfect, Acceptable
<1> QED BY <1>2, <1>3, <1>4, <1>5, <1>6, <1>7, <1>8, <1>9 DEF Next

\* The invariant holds in every reachable state.
THEOREM Invariant == Spec => []IInv
BY InitInvariant, StepInvariant, PTL DEF Spec

\* The variables keep their types (graphics.c:5-68).
THEOREM TypeCorrect == Spec => []TypeOK
<1>1. IInv => TypeOK
  BY DEF IInv
<1> QED BY Invariant, <1>1, PTL

\* That mode is the one SelectsBestMode asks for.
LEMMA SelectedIsBest == IInv => SelectsBestMode
<1> SUFFICES ASSUME IInv, pc \in {"chosen", "done"}
             PROVE  /\ (\E j \in DOMAIN modes : Perfect(modes[j])) => Perfect(modes[mode])
                    /\ mode # firmware \/ Acceptable(modes[firmware]) => Acceptable(modes[mode])
                    /\ Acceptable(modes[mode]) =>
                         \A j \in DOMAIN modes : Acceptable(modes[j]) => modes[j].h <= modes[mode].h
  BY DEF IInv, Selected, SelectsBestMode
<1>1. CASE FirstPerfect(mode)
  <2>1. Perfect(modes[mode]) /\ Acceptable(modes[mode]) /\ modes[mode].h = H
    BY <1>1 DEF FirstPerfect, Perfect
  <2>2. \A j \in DOMAIN modes : Acceptable(modes[j]) => modes[j].h <= H
    BY DEF Acceptable
  <2> QED BY <2>1, <2>2
<1>2. CASE FirstHighest(mode)
  BY <1>2 DEF FirstHighest
<1> QED BY <1>1, <1>2 DEF IInv, Selected

\* Whatever modes the firmware offers, select_mode returns one of the right size if there
\* is one, and else the highest of those that can be used unless it stays in a mode that
\* cannot; and the kernel knows what it is (graphics.c:26-68).
THEOREM SelectionCorrect == Spec => []SelectsBestMode
BY Invariant, SelectedIsBest, PTL
=============================================================================
