------------------------------ MODULE Graphics ------------------------------
(***************************************************************************)
(* init_graphics and select_mode of src/src/graphics.c: the search for a   *)
(* video mode among those the firmware offers, one mode per step.          *)
(***************************************************************************)
EXTENDS Naturals, FiniteSets

CONSTANTS
  W, H,       \* GRAPHICS_MOST_APPROPRIATE_W and _H
  ModeTables  \* what firmware may offer: functions from mode numbers to modes

\* rgb: RGB or BGR with 8 bits for each; stride: pixels of a line, w of them seen.
Mode == [rgb : BOOLEAN, w : Nat, h : Nat, stride : Nat]
Zero == [rgb |-> FALSE, w |-> 0, h |-> 0, stride |-> 0]

ASSUME GraphicsAssumption ==
  /\ W \in Nat /\ H \in Nat
  /\ \A m \in ModeTables :
       /\ m \in [DOMAIN m -> Mode]
       /\ IsFiniteSet(DOMAIN m) /\ DOMAIN m # {}
       /\ DOMAIN m = 0 .. Cardinality(DOMAIN m) - 1

VARIABLES
  modes, firmware,  \* constant: the modes of this machine, the one it starts in
  current,          \* the mode the screen is in
  mode, best,       \* select_mode's choice so far, and most_appropriate_info
  i,
  pc,               \* "query", "search", "chosen", "done" or "failed"
  output_mode       \* of struct graphics: what set_pixel goes by

vars == <<modes, firmware, current, mode, best, i, pc, output_mode>>

Init ==
  /\ modes \in ModeTables
  /\ firmware \in DOMAIN modes
  /\ current = firmware /\ mode = firmware
  /\ best = Zero /\ output_mode = Zero
  /\ i = 0
  /\ pc = "query"

QueryCurrent ==
  /\ pc = "query"
  /\ best' = modes[mode]
  /\ pc' = "search"
  /\ UNCHANGED <<modes, firmware, current, mode, i, output_mode>>

\* An RGB or BGR mode no larger than wanted, and one of exactly the size wanted.
Acceptable(m) == m.rgb /\ m.w <= W /\ m.h <= H
Perfect(m) == Acceptable(m) /\ m.w = W /\ m.h = H

\* Mutant of Better: the size is not looked at.
BetterOfAnySize(m) == m.rgb /\ m.h > best.h

\* The mode is preferred to the best so far.
Better(m) == Acceptable(m) /\ m.h > best.h

TakePerfect ==
  /\ pc = "search" /\ i \in DOMAIN modes
  /\ Perfect(modes[i])
  /\ best' = modes[i] /\ mode' = i /\ output_mode' = modes[i]
  /\ pc' = "chosen"
  /\ UNCHANGED <<modes, firmware, current, i>>

\* Mutant of TakeBetter: i is counted up first.
TakeBetterLate ==
  /\ pc = "search" /\ i \in DOMAIN modes
  /\ Better(modes[i]) /\ ~Perfect(modes[i])
  /\ best' = modes[i] /\ mode' = i + 1
  /\ i' = i + 1
  /\ UNCHANGED <<modes, firmware, current, pc, output_mode>>

TakeBetter ==
  /\ pc = "search" /\ i \in DOMAIN modes
  /\ Better(modes[i]) /\ ~Perfect(modes[i])
  /\ best' = modes[i] /\ mode' = i
  /\ i' = i + 1
  /\ UNCHANGED <<modes, firmware, current, pc, output_mode>>

Skip ==
  /\ pc = "search" /\ i \in DOMAIN modes
  /\ ~Better(modes[i]) /\ ~Perfect(modes[i])
  /\ i' = i + 1
  /\ UNCHANGED <<modes, firmware, current, mode, best, pc, output_mode>>

NoMoreModes ==
  /\ pc = "search" /\ i \notin DOMAIN modes
  /\ output_mode' = best
  /\ pc' = "chosen"
  /\ UNCHANGED <<modes, firmware, current, mode, best, i>>

SetMode ==
  /\ pc = "chosen"
  /\ current' = mode
  /\ pc' = "done"
  /\ UNCHANGED <<modes, firmware, mode, best, i, output_mode>>

\* LocateProtocol, QueryMode or SetMode reports an error: so does init_graphics.
Fail ==
  /\ pc \in {"query", "search", "chosen"}
  /\ pc' = "failed"
  /\ UNCHANGED <<modes, firmware, current, mode, best, i, output_mode>>

Next ==
  \/ QueryCurrent \/ TakePerfect \/ TakeBetter \/ Skip \/ NoMoreModes \/ SetMode \/ Fail

Spec == Init /\ [][Next]_vars

-----------------------------------------------------------------------------

TypeOK ==
  /\ modes \in ModeTables
  /\ {firmware, current, mode} \subseteq DOMAIN modes
  /\ best \in Mode /\ output_mode \in Mode
  /\ i \in Nat
  /\ pc \in {"query", "search", "chosen", "done", "failed"}

\* What select_mode returns: a mode of just the right size if there is one, however
\* late in the list; else no mode that cannot be used, but for the one the screen is in
\* already, and of those that can the highest; the kernel then knows the mode the screen
\* is in.  Which of the two to take, a lower mode or to stay in one that cannot be used,
\* is not said here but by AcceptedMode (graphics.c:18, 42-67).
SelectsBestMode ==
  /\ pc \in {"chosen", "done"} =>
       /\ (\E j \in DOMAIN modes : Perfect(modes[j])) => Perfect(modes[mode])
       /\ mode # firmware \/ Acceptable(modes[firmware]) => Acceptable(modes[mode])
       /\ Acceptable(modes[mode]) =>
            \A j \in DOMAIN modes : Acceptable(modes[j]) => modes[j].h <= modes[mode].h
       /\ output_mode = modes[mode]
  /\ pc = "done" => current = mode

\* graphics.c:43, 48: "We only accept RGB or BGR 8 bit colorspaces", and a mode larger
\* than wanted "we cannot use".
AcceptedMode ==
  pc = "done" /\ (\E j \in DOMAIN modes : Acceptable(modes[j])) =>
    Acceptable(modes[current])
=============================================================================
