------------------------- MODULE InitProgramProofs -------------------------
(***************************************************************************)
(* The two processes of init.s, on a table of two slots or more and on     *)
(* every screen: they print their marks in order, and the flag is drawn    *)
(* inside the framebuffer of a screen that can show it.                    *)
(***************************************************************************)
EXTENDS InitProgram, GraphicsProofs, SequenceTheorems

Marks == {"+", "*", "-", "@", "flag", "PF"}

-----------------------------------------------------------------------------
(* Marks.                                                                  *)

\* The first k of the marks.
Prefix(k) == SubSeq(Turns, 1, k)

LEMMA TurnMarks ==
  /\ Turns \in Seq(Marks) /\ Len(Turns) = 6
  /\ Turns[1] = "+" /\ Turns[2] = "+" /\ Turns[3] = "*"
  /\ Turns[4] = "-" /\ Turns[5] = "flag" /\ Turns[6] = "@"
  /\ \A j \in 1 .. 6 : Turns[j] \in Marks
BY DEF Turns, Marks

LEMMA PrefixFacts ==
  ASSUME NEW k \in 0 .. 6
  PROVE  /\ Prefix(k) \in Seq(Marks) /\ Len(Prefix(k)) = k
         /\ \A j \in 1 .. k : Prefix(k)[j] = Turns[j]
<1>1. \A j \in 1 .. k : Turns[j] \in Marks
  BY TurnMarks
<1>2. /\ SubSeq(Turns, 1, k) \in Seq(Marks)
      /\ Len(SubSeq(Turns, 1, k)) = IF 1 <= k THEN k - 1 + 1 ELSE 0
      /\ \A j \in 1 .. k - 1 + 1 : SubSeq(Turns, 1, k)[j] = Turns[1 + j - 1]
  BY <1>1, SubSeqProperties
<1> HIDE DEF Prefix
<1>3. \A j \in 1 .. k : j \in 1 .. k - 1 + 1 /\ 1 + j - 1 = j
  OBVIOUS
<1>4. (IF 1 <= k THEN k - 1 + 1 ELSE 0) = k
  OBVIOUS
<1> QED BY <1>2, <1>3, <1>4 DEF Prefix

\* One mark more; all of them; none.
LEMMA NextMark ==
  ASSUME NEW k \in 0 .. 5
  PROVE  Append(Prefix(k), Turns[k + 1]) = Prefix(k + 1)
<1> DEFINE s == Append(Prefix(k), Turns[k + 1])
           t == Prefix(k + 1)
<1>1. /\ Prefix(k) \in Seq(Marks) /\ Len(Prefix(k)) = k
      /\ \A j \in 1 .. k : Prefix(k)[j] = Turns[j]
  <2>1. k \in 0 .. 6
    OBVIOUS
  <2> QED BY <2>1, PrefixFacts
<1>2. /\ t \in Seq(Marks) /\ Len(t) = k + 1
      /\ \A j \in 1 .. k + 1 : t[j] = Turns[j]
  <2>1. k + 1 \in 0 .. 6
    OBVIOUS
  <2> QED BY <2>1, PrefixFacts
<1>3. Turns[k + 1] \in Marks
  <2>1. k + 1 \in 1 .. 6
    OBVIOUS
  <2> QED BY <2>1, TurnMarks
<1>4. /\ s \in Seq(Marks) /\ Len(s) = k + 1
      /\ \A j \in 1 .. k : s[j] = Prefix(k)[j]
      /\ s[k + 1] = Turns[k + 1]
  BY <1>1, <1>3, AppendProperties
<1> HIDE DEF s, t
<1>5. \A j \in 1 .. Len(s) : s[j] = t[j]
  BY <1>1, <1>2, <1>4
<1>6. s = t
  BY <1>2, <1>4, <1>5, SeqEqual
<1> QED BY <1>6 DEF s, t

LEMMA AllMarks == Prefix(6) = Turns /\ Prefix(0) = <<>>
<1>1. SubSeq(Turns, 1, Len(Turns)) = Turns
  BY TurnMarks, SubSeqFull
<1>2. SubSeq(Turns, 1, 0) = <<>>
  BY SubSeqEmpty
<1> QED BY <1>1, <1>2, TurnMarks DEF Prefix

\* What has been printed is in order, before and after a fault.
LEMMA PrefixInOrder ==
  ASSUME NEW k \in 0 .. 6
  PROVE  IsPrefix(Prefix(k), Turns)
<1>1. Prefix(k) \in Seq(Marks) /\ Len(Prefix(k)) = k
  BY PrefixFacts
<1>2. SubSeq(Prefix(k), 1, k) = Prefix(k)
  BY <1>1, SubSeqFull
<1> QED BY <1>1, <1>2, TurnMarks DEF IsPrefix, Prefix

LEMMA FrontOfAppend ==
  ASSUME NEW s \in Seq(Marks), NEW e \in Marks
  PROVE  /\ Append(s, e) \in Seq(Marks)
         /\ Last(Append(s, e)) = e /\ Front(Append(s, e)) = s
<1> DEFINE k == Len(s)
           u == Append(s, e)
           t == SubSeq(u, 1, k)
<1>1. /\ u \in Seq(Marks) /\ Len(u) = k + 1 /\ k \in Nat
      /\ \A j \in 1 .. k : u[j] = s[j]
      /\ u[k + 1] = e
  BY AppendProperties
<1> HIDE DEF u
<1>2. \A j \in 1 .. k : u[j] \in Marks
  BY <1>1
<1>3. /\ t \in Seq(Marks) /\ Len(t) = (IF 1 <= k THEN k - 1 + 1 ELSE 0)
      /\ \A j \in 1 .. k - 1 + 1 : t[j] = u[1 + j - 1]
  BY <1>1, <1>2, SubSeqProperties
<1> HIDE DEF t
<1>4. Len(t) = k /\ \A j \in 1 .. k : t[j] = s[j]
  <2>1. \A j \in 1 .. k : j \in 1 .. k - 1 + 1 /\ 1 + j - 1 = j
    BY <1>1
  <2>2. (IF 1 <= k THEN k - 1 + 1 ELSE 0) = k
    BY <1>1
  <2> QED BY <1>1, <1>3, <2>1, <2>2
<1>5. t = s
  BY <1>3, <1>4, SeqEqual
<1>6. (k + 1) - 1 = k
  BY <1>1
<1> QED BY <1>1, <1>5, <1>6 DEF Last, Front, t, u

LEMMA FaultInOrder ==
  ASSUME NEW k \in 0 .. 6, NEW marks, marks = Append(Prefix(k), "PF")
  PROVE  marks \in Seq(Marks) /\ Last(marks) = "PF" /\ IsPrefix(Front(marks), Turns)
<1>1. Prefix(k) \in Seq(Marks) /\ "PF" \in Marks
  BY PrefixFacts DEF Marks
<1>2. marks \in Seq(Marks) /\ Last(marks) = "PF" /\ Front(marks) = Prefix(k)
  BY <1>1, FrontOfAppend
<1> QED BY <1>2, PrefixInOrder

-----------------------------------------------------------------------------
(* Where the processes are.                                                *)

\* The process that runs goes on at a with the stack s, in the INT t, and k marks are
\* printed; it is alone, or it is process p and the other one is to go on at b with r.
At(a, s, t, k) ==
  ip = a /\ sp = s /\ trap = t /\ log = Prefix(k)

Alone(a, s, t, k) ==
  /\ At(a, s, t, k)
  /\ forks = 0 /\ running_processes = {0} /\ current_process = 0

Both(p, a, s, t, k, b, r) ==
  /\ At(a, s, t, k)
  /\ forks = 1 /\ running_processes = {0, 1} /\ current_process = p
  /\ ps[1 - p] = [ip |-> b, sp |-> r]

\* The course of the program, with one line for each block and the INT it ends with.
Course ==
  \/ Alone(1, 0, None, 0) \/ Alone(2, 1, 34, 0)
  \/ Alone(2, 1, None, 0) \/ Alone(3, 1, 35, 0)
  \/ Both(0, 3, 1, None, 0, 8, 0) \/ Both(0, 4, 1, 36, 1, 8, 0)
  \/ Both(1, 8, 0, None, 1, 4, 1) \/ Both(1, 9, 2, 36, 2, 4, 1)
  \/ Both(0, 4, 1, None, 2, 9, 2) \/ Both(0, 5, 1, 36, 3, 9, 2)
  \/ Both(1, 9, 2, None, 3, 5, 1) \/ Both(1, 10, 2, 39, 4, 5, 1)
  \/ Both(1, 10, 2, None, 5, 5, 1) \/ Both(1, 10, 2, 36, 5, 5, 1)
  \/ Both(0, 5, 1, None, 5, 10, 2) \/ Both(0, 6, 1, 37, 5, 10, 2)
  \/ Both(0, 6, 1, None, 5, 10, 2) \/ Both(0, 7, 1, 34, 5, 10, 2)
  \/ Both(0, 7, 1, None, 6, 10, 2) \/ Both(0, 7, 1, 38, 6, 10, 2)

\* When the processor has stopped nothing more happens.
CourseInv == IF cpu = "run" THEN Course ELSE MarksInOrder /\ log \in Seq(Marks)

LEMMA MarksPrinted ==
  /\ Append(Prefix(0), "+") = Prefix(1) /\ Append(Prefix(1), "+") = Prefix(2)
  /\ Append(Prefix(2), "*") = Prefix(3) /\ Append(Prefix(3), "-") = Prefix(4)
  /\ Append(Prefix(4), "flag") = Prefix(5) /\ Append(Prefix(5), "@") = Prefix(6)
<1>1. \A k \in 0 .. 5 : Append(Prefix(k), Turns[k + 1]) = Prefix(k + 1)
  BY NextMark
<1> QED BY <1>1, TurnMarks

\* Program, block by block.
LEMMA SevenAndThree ==
  ASSUME NEW a1, NEW a2, NEW a3, NEW a4, NEW a5, NEW a6, NEW a7, NEW b1, NEW b2, NEW b3,
         NEW c, c = <<a1, a2, a3, a4, a5, a6, a7>> \o <<b1, b2, b3>>
  PROVE  /\ DOMAIN c = 1 .. 10
         /\ c[1] = a1 /\ c[2] = a2 /\ c[3] = a3 /\ c[4] = a4 /\ c[5] = a5
         /\ c[6] = a6 /\ c[7] = a7 /\ c[8] = b1 /\ c[9] = b2 /\ c[10] = b3
OBVIOUS

LEMMA Blocks ==
  /\ DOMAIN Program = 1 .. 10
  /\ Program[1] = Block(1, "", 34, 2) /\ Program[2] = Block(0, "", 35, 3)
  /\ Program[3] = Block(0, "+", 36, 4) /\ Program[4] = Block(0, "*", 36, 5)
  /\ Program[5] = Block(0, "", 37, 6) /\ Program[6] = Block(0, "", 34, 7)
  /\ Program[7] = Block(0, "", 38, 7) /\ Program[8] = Block(2, "+", 36, 9)
  /\ Program[9] = Block(0, "-", 39, 10) /\ Program[10] = Block(0, "", 36, 10)
<1>1. PICK a1, a2, a3, a4, a5, a6, a7, b1, b2, b3 :
        /\ a1 = Block(1, "", 34, 2) /\ a2 = Block(0, "", 35, 3) /\ a3 = Block(0, "+", 36, 4)
        /\ a4 = Block(0, "*", 36, 5) /\ a5 = Block(0, "", 37, 6) /\ a6 = Block(0, "", 34, 7)
        /\ a7 = Block(0, "", 38, 7)
        /\ b1 = Block(2, "+", 36, 9) /\ b2 = Block(0, "-", 39, 10) /\ b3 = Block(0, "", 36, 10)
  BY Zenon
<1>2. Program = <<a1, a2, a3, a4, a5, a6, a7>> \o <<b1, b2, b3>>
  BY <1>1, Zenon DEF Program, Main, Other
<1>3. /\ DOMAIN Program = 1 .. 10
      /\ Program[1] = a1 /\ Program[2] = a2 /\ Program[3] = a3 /\ Program[4] = a4
      /\ Program[5] = a5 /\ Program[6] = a6 /\ Program[7] = a7
      /\ Program[8] = b1 /\ Program[9] = b2 /\ Program[10] = b3
  BY <1>2, SevenAndThree
<1> QED BY <1>1, <1>3, Zenon

\* A process runs up to its next INT.
LEMMA BlockRun ==
  ASSUME Run, NEW stack, NEW mark, NEW int, NEW next, Program[ip] = Block(stack, mark, int, next)
  PROVE  /\ ip' = next /\ trap' = int
         /\ stack = 0 => sp' = sp
         /\ stack # 0 => sp' = stack
         /\ mark = "" => log' = log
         /\ mark # "" => log' = Append(log, mark)
         /\ UNCHANGED <<ps, current_process, running_processes, forks>>
<1> DEFINE b == Program[ip]
<1>1. b.stack = stack /\ b.mark = mark /\ b.int = int /\ b.next = next
  BY DEF Block
<1>2. /\ ip' = b.next /\ sp' = (IF b.stack = 0 THEN sp ELSE b.stack) /\ trap' = b.int
      /\ UNCHANGED <<ps, current_process, running_processes, forks>>
  BY DEF Run, P!Execute
<1>3. log' = (IF b.mark = "" THEN log ELSE Append(log, b.mark))
  BY DEF Run, Logged
<1> HIDE DEF b
<1> QED BY <1>1, <1>2, <1>3

LEMMA RunStep ==
  ASSUME Course, Run
  PROVE  Course'
<1>0. 1 # 0
  OBVIOUS
<1>1. trap = None
  BY DEF Run
<1> USE DEF Alone, Both, At, None
<1>2. CASE Alone(1, 0, None, 0)
  <2>1. Program[ip] = Block(1, "", 34, 2)
    BY <1>2, Blocks
  <2>2. /\ ip' = 2 /\ sp' = 1 /\ trap' = 34
        /\ log' = log
        /\ UNCHANGED <<ps, current_process, running_processes, forks>>
    BY <1>0, <2>1, BlockRun, Zenon
  <2>3. Alone(2, 1, 34, 0)'
    BY <1>2, <2>2
  <2> QED BY <2>3 DEF Course
<1>3. CASE Alone(2, 1, None, 0)
  <2>1. Program[ip] = Block(0, "", 35, 3)
    BY <1>3, Blocks
  <2>2. /\ ip' = 3 /\ sp' = sp /\ trap' = 35
        /\ log' = log
        /\ UNCHANGED <<ps, current_process, running_processes, forks>>
    BY <2>1, BlockRun, Zenon
  <2>3. Alone(3, 1, 35, 0)'
    BY <1>3, <2>2
  <2> QED BY <2>3 DEF Course
<1>4. CASE Both(0, 3, 1, None, 0, 8, 0)
  <2>1. Program[ip] = Block(0, "+", 36, 4)
    BY <1>4, Blocks
  <2>2. /\ ip' = 4 /\ sp' = sp /\ trap' = 36
        /\ log' = Append(log, "+")
        /\ UNCHANGED <<ps, current_process, running_processes, forks>>
    BY <2>1, BlockRun, Zenon
  <2>3. Both(0, 4, 1, 36, 1, 8, 0)'
    BY <1>4, <2>2, MarksPrinted
  <2> QED BY <2>3 DEF Course
<1>5. CASE Both(1, 8, 0, None, 1, 4, 1)
  <2>1. Program[ip] = Block(2, "+", 36, 9)
    BY <1>5, Blocks
  <2>2. /\ ip' = 9 /\ trap' = 36 /\ log' = Append(log, "+")
        /\ UNCHANGED <<ps, current_process, running_processes, forks>>
    BY <2>1, BlockRun, Zenon
  <2>3. sp' = 2
    <3>1. 2 # 0 => sp' = 2
      BY <2>1, BlockRun, Zenon
    <3> QED BY <3>1
  <2>4. Both(1, 9, 2, 36, 2, 4, 1)'
    BY <1>5, <2>2, <2>3, MarksPrinted
  <2> QED BY <2>4 DEF Course
<1>6. CASE Both(0, 4, 1, None, 2, 9, 2)
  <2>1. Program[ip] = Block(0, "*", 36, 5)
    BY <1>6, Blocks
  <2>2. /\ ip' = 5 /\ sp' = sp /\ trap' = 36
        /\ log' = Append(log, "*")
        /\ UNCHANGED <<ps, current_process, running_processes, forks>>
    BY <2>1, BlockRun, Zenon
  <2>3. Both(0, 5, 1, 36, 3, 9, 2)'
    BY <1>6, <2>2, MarksPrinted
  <2> QED BY <2>3 DEF Course
<1>7. CASE Both(1, 9, 2, None, 3, 5, 1)
  <2>1. Program[ip] = Block(0, "-", 39, 10)
    BY <1>7, Blocks
  <2>2. /\ ip' = 10 /\ sp' = sp /\ trap' = 39
        /\ log' = Append(log, "-")
        /\ UNCHANGED <<ps, current_process, running_processes, forks>>
    BY <2>1, BlockRun, Zenon
  <2>3. Both(1, 10, 2, 39, 4, 5, 1)'
    BY <1>7, <2>2, MarksPrinted
  <2> QED BY <2>3 DEF Course
<1>8. CASE Both(1, 10, 2, None, 5, 5, 1)
  <2>1. Program[ip] = Block(0, "", 36, 10)
    BY <1>8, Blocks
  <2>2. /\ ip' = 10 /\ sp' = sp /\ trap' = 36
        /\ log' = log
        /\ UNCHANGED <<ps, current_process, running_processes, forks>>
    BY <2>1, BlockRun, Zenon
  <2>3. Both(1, 10, 2, 36, 5, 5, 1)'
    BY <1>8, <2>2
  <2> QED BY <2>3 DEF Course
<1>9. CASE Both(0, 5, 1, None, 5, 10, 2)
  <2>1. Program[ip] = Block(0, "", 37, 6)
    BY <1>9, Blocks
  <2>2. /\ ip' = 6 /\ sp' = sp /\ trap' = 37
        /\ log' = log
        /\ UNCHANGED <<ps, current_process, running_processes, forks>>
    BY <2>1, BlockRun, Zenon
  <2>3. Both(0, 6, 1, 37, 5, 10, 2)'
    BY <1>9, <2>2
  <2> QED BY <2>3 DEF Course
<1>10. CASE Both(0, 6, 1, None, 5, 10, 2)
  <2>1. Program[ip] = Block(0, "", 34, 7)
    BY <1>10, Blocks
  <2>2. /\ ip' = 7 /\ sp' = sp /\ trap' = 34
        /\ log' = log
        /\ UNCHANGED <<ps, current_process, running_processes, forks>>
    BY <2>1, BlockRun, Zenon
  <2>3. Both(0, 7, 1, 34, 5, 10, 2)'
    BY <1>10, <2>2
  <2> QED BY <2>3 DEF Course
<1>11. CASE Both(0, 7, 1, None, 6, 10, 2)
  <2>1. Program[ip] = Block(0, "", 38, 7)
    BY <1>11, Blocks
  <2>2. /\ ip' = 7 /\ sp' = sp /\ trap' = 38
        /\ log' = log
        /\ UNCHANGED <<ps, current_process, running_processes, forks>>
    BY <2>1, BlockRun, Zenon
  <2>3. Both(0, 7, 1, 38, 6, 10, 2)'
    BY <1>11, <2>2
  <2> QED BY <2>3 DEF Course
<1> QED BY <1>1, <1>2, <1>3, <1>4, <1>5, <1>6, <1>7, <1>8, <1>9, <1>10, <1>11 DEF Course

\* INT 35 takes slot 1, which is the first one free.
LEMMA ForkStep ==
  ASSUME Course, int35, P!TypeOK
  PROVE  Course'
<1>1. trap = 35 /\ trap' = None /\ UNCHANGED log
  BY DEF int35, Handles
<1>2. Alone(3, 1, 35, 0)
  BY <1>1 DEF Course, Alone, Both, At, None
<1>3. NSLOTS \in Nat /\ NSLOTS >= 2
  BY InitProgramAssumption
<1> DEFINE Free(s) == /\ s \notin running_processes
                      /\ \A t \in 0 .. s - 1 : t \in running_processes
<1>4. P!AvailableSlot = CHOOSE s \in 0 .. NSLOTS : Free(s)
  BY DEF P!AvailableSlot
<1>5. running_processes = {0}
  BY <1>2 DEF Alone
<1>6. Free(1) /\ 1 \in 0 .. NSLOTS /\ \A s \in 0 .. NSLOTS : Free(s) => s = 1
  BY <1>3, <1>5
<1> HIDE DEF Free
<1>7. P!AvailableSlot = 1
  BY <1>4, <1>6
<1>8. 1 \in P!Slot
  BY <1>3 DEF P!Slot
<1>9. /\ forks' = forks + 1
      /\ running_processes' = running_processes \cup {1}
      /\ ps' = [ps EXCEPT ![1] = P!Fresh(another_app)]
      /\ UNCHANGED <<current_process, ip, sp>>
  BY <1>7, <1>8 DEF int35, P!Fork
<1>10. ps'[1] = [ip |-> 8, sp |-> 0]
  BY <1>8, <1>9 DEF P!TypeOK, P!Fresh, another_app
<1>11. /\ forks' = 1 /\ running_processes' = {0, 1} /\ current_process' = 0
       /\ ip' = 3 /\ sp' = 1 /\ trap' = None /\ log' = Prefix(0)
  BY <1>1, <1>2, <1>9 DEF Alone, At
<1>12. ps'[1 - 0] = [ip |-> 8, sp |-> 0]
  BY <1>10
<1>13. Both(0, 3, 1, None, 0, 8, 0)'
  BY <1>11, <1>12 DEF Both, At
<1> QED BY <1>13 DEF Course

\* INT 36 goes on with the other process.
LEMMA TheOther ==
  ASSUME running_processes = {0, 1}, NEW p \in {0, 1}, current_process = p
  PROVE  P!NextCurrent = 1 - p
<1> DEFINE n == IF p = 0 THEN 1 ELSE NSLOTS - 1
           Fits(d) == /\ P!Ahead(d) \in running_processes
                      /\ \A c \in 1 .. d - 1 : P!Ahead(c) \notin running_processes
<1>1. NSLOTS \in Nat /\ NSLOTS >= 2 /\ n \in 1 .. NSLOTS
  BY InitProgramAssumption
<1>2. \A c \in 1 .. NSLOTS : P!Ahead(c) = IF p + c < NSLOTS THEN p + c ELSE p + c - NSLOTS
  BY <1>1 DEF P!Ahead
<1>3. P!Ahead(n) = 1 - p
  BY <1>1, <1>2
<1>4. Fits(n)
  BY <1>1, <1>2
<1>5. \A d \in 1 .. NSLOTS : Fits(d) => d = n
  <2>1. SUFFICES ASSUME NEW d \in 1 .. NSLOTS, Fits(d), d # n
                 PROVE  FALSE
    OBVIOUS
  <2>2. CASE d < n
    BY <1>1, <1>2, <2>1, <2>2
  <2>3. CASE d > n
    BY <1>1, <1>4, <2>1, <2>3
  <2> QED BY <1>1, <2>1, <2>2, <2>3
<1>6. P!NextCurrent = P!Ahead(CHOOSE d \in 1 .. NSLOTS : Fits(d))
  BY DEF P!NextCurrent
<1> HIDE DEF Fits, n
<1>7. (CHOOSE d \in 1 .. NSLOTS : Fits(d)) = n
  BY <1>1, <1>4, <1>5
<1> QED BY <1>3, <1>6, <1>7

LEMMA YieldStep ==
  ASSUME int36, P!TypeOK, NEW p \in {0, 1}, NEW a, NEW s, NEW k, NEW b, NEW r,
         Both(p, a, s, 36, k, b, r)
  PROVE  Both(1 - p, b, r, None, k, a, s)'
<1> DEFINE saved == [ps EXCEPT ![current_process] = [ip |-> ip, sp |-> sp]]
<1>1. /\ trap' = None /\ UNCHANGED <<log, forks, running_processes>>
  BY DEF int36, Handles, P!Yield
<1>2. /\ running_processes = {0, 1} /\ current_process = p /\ ip = a /\ sp = s
      /\ forks = 1 /\ log = Prefix(k) /\ ps[1 - p] = [ip |-> b, sp |-> r]
  BY DEF Both, At
<1>3. P!NextCurrent = 1 - p
  BY <1>2, TheOther
<1>4. ps' = saved /\ current_process' = 1 - p /\ ip' = saved[1 - p].ip /\ sp' = saved[1 - p].sp
  BY <1>2, <1>3 DEF int36, P!Yield
<1>5. p \in P!Slot /\ 1 - p \in P!Slot /\ 1 - p # p /\ 1 - (1 - p) = p
  BY InitProgramAssumption DEF P!Slot
<1>6. saved[p] = [ip |-> a, sp |-> s] /\ saved[1 - p] = [ip |-> b, sp |-> r]
  <2>1. DOMAIN ps = P!Slot
    BY DEF P!TypeOK
  <2> QED BY <1>2, <1>5, <2>1
<1> HIDE DEF saved
<1>7. ip' = b /\ sp' = r
  BY <1>4, <1>6
<1>8. ps'[1 - (1 - p)] = [ip |-> a, sp |-> s]
  BY <1>4, <1>5, <1>6
<1> QED BY <1>1, <1>2, <1>4, <1>7, <1>8 DEF Both, At

\* At every place a number of marks is printed, and where it stops there they are in order.
LEMMA MarksSoFar ==
  ASSUME Course
  PROVE  \E k \in 0 .. 6 : log = Prefix(k)
BY DEF Course, Alone, Both, At

LEMMA StopInOrder ==
  ASSUME NEW k \in 0 .. 6, log' = Prefix(k), cpu' # "run", cpu' = "off" => k = 6
  PROVE  CourseInv'
<1>1. IsPrefix(log', Turns) /\ log' \in Seq(Marks)
  BY PrefixInOrder, PrefixFacts
<1>2. cpu' = "off" => log' = Turns
  BY AllMarks
<1>3. MarksInOrder'
  BY <1>1, <1>2 DEF MarksInOrder, Expected
<1> QED BY <1>1, <1>3 DEF CourseInv

LEMMA FaultStep ==
  ASSUME NEW k \in 0 .. 6, log = Prefix(k), PageFault
  PROVE  CourseInv'
<1>1. cpu' = "halted" /\ log' = Append(Prefix(k), "PF")
  BY DEF PageFault, P!Stop, Logged
<1>2. log' \in Seq(Marks) /\ Last(log') = "PF" /\ IsPrefix(Front(log'), Turns)
  BY <1>1, FaultInOrder
<1>3. MarksInOrder'
  BY <1>1, <1>2 DEF MarksInOrder, Expected
<1> QED BY <1>1, <1>2, <1>3 DEF CourseInv

\* INT 34 faults, prints nothing or prints what int37's block got; INT 37 may stop the
\* machine; INT 38 does; INT 39 draws the flag, or faults.
LEMMA OtherSteps ==
  ASSUME Course, cpu = "run", int34 \/ int37 \/ int38 \/ int39
  PROVE  CourseInv'
<1> USE DEF Alone, Both, At, None, Handles
<1>0. PICK k \in 0 .. 6 : log = Prefix(k)
  BY MarksSoFar
<1>1. CASE int34
  <2>1. trap = 34 /\ trap' = None
    BY <1>1 DEF int34
  <2>2. CASE Alone(2, 1, 34, 0)
    <3>1. CASE UNCHANGED <<table, log>>
      <4>1. Alone(2, 1, None, 0)'
        BY <2>1, <2>2, <3>1 DEF table
      <4> QED BY <3>1, <4>1 DEF Course, CourseInv, table
    <3>2. CASE PageFault
      BY <1>0, <3>2, FaultStep
    <3>3. UNCHANGED <<table, log>> \/ PageFault
      BY <1>1, <2>2 DEF int34
    <3> QED BY <3>1, <3>2, <3>3
  <2>3. CASE Both(0, 7, 1, 34, 5, 10, 2)
    <3>1. Logged("@") /\ UNCHANGED table
      BY <1>1, <2>3 DEF int34
    <3>2. log' = Prefix(6)
      BY <2>3, <3>1, MarksPrinted DEF Logged
    <3>3. Both(0, 7, 1, None, 6, 10, 2)'
      BY <2>1, <2>3, <3>1, <3>2 DEF table
    <3> QED BY <3>1, <3>3 DEF Course, CourseInv, table
  <2> QED BY <2>1, <2>2, <2>3 DEF Course
<1>2. CASE int37
  <2>1. trap = 37 /\ trap' = None /\ UNCHANGED log
    BY <1>2 DEF int37
  <2>2. Both(0, 6, 1, 37, 5, 10, 2)
    BY <2>1 DEF Course
  <2>3. CASE UNCHANGED table
    <3>1. Both(0, 6, 1, None, 5, 10, 2)'
      BY <2>1, <2>2, <2>3 DEF table
    <3> QED BY <2>3, <3>1 DEF Course, CourseInv, table
  <2>4. CASE P!Stop("halted")
    BY <1>0, <2>1, <2>4, StopInOrder DEF P!Stop
  <2> QED BY <1>2, <2>3, <2>4 DEF int37
<1>3. CASE int38
  <2>1. trap = 38 /\ UNCHANGED log /\ cpu' = "off"
    BY <1>3 DEF int38, P!Stop
  <2>2. Both(0, 7, 1, 38, 6, 10, 2)
    BY <2>1 DEF Course
  <2>3. 6 \in 0 .. 6 /\ log' = Prefix(6)
    BY <2>1, <2>2
  <2> QED BY <2>1, <2>3, StopInOrder
<1>4. CASE int39
  <2>1. trap = 39 /\ trap' = None
    BY <1>4 DEF int39
  <2>2. Both(1, 10, 2, 39, 4, 5, 1)
    BY <2>1 DEF Course
  <2>3. CASE PageFault
    BY <1>0, <2>3, FaultStep
  <2>4. CASE Logged("flag") /\ UNCHANGED table
    <3>1. log' = Prefix(5)
      BY <2>2, <2>4, MarksPrinted DEF Logged
    <3>2. Both(1, 10, 2, None, 5, 5, 1)'
      BY <2>1, <2>2, <2>4, <3>1 DEF table
    <3> QED BY <2>4, <3>2 DEF Course, CourseInv, table
  <2> QED BY <1>4, <2>3, <2>4 DEF int39
<1> QED BY <1>1, <1>2, <1>3, <1>4

\* INT 36 comes at four places, and one more when another_app has done its work.
LEMMA YieldsStep ==
  ASSUME Course, int36, P!TypeOK
  PROVE  Course' /\ current_process' \in {0, 1} /\ ip' \in 1 .. 10 /\ sp' \in {0, 1, 2}
<1>1. trap = 36
  BY DEF int36, Handles
<1>2. 1 - 0 = 1 /\ 1 - 1 = 0
  OBVIOUS
<1>3. \/ Both(0, 4, 1, 36, 1, 8, 0) \/ Both(1, 9, 2, 36, 2, 4, 1)
      \/ Both(0, 5, 1, 36, 3, 9, 2) \/ Both(1, 10, 2, 36, 5, 5, 1)
  BY <1>1 DEF Course, Alone, Both, At, None
<1>4. CASE Both(0, 4, 1, 36, 1, 8, 0)
  <2>1. Both(1, 8, 0, None, 1, 4, 1)'
    BY <1>2, <1>4, YieldStep
  <2> QED BY <2>1 DEF Course, Both, At
<1>5. CASE Both(1, 9, 2, 36, 2, 4, 1)
  <2>1. Both(0, 4, 1, None, 2, 9, 2)'
    BY <1>2, <1>5, YieldStep
  <2> QED BY <2>1 DEF Course, Both, At
<1>6. CASE Both(0, 5, 1, 36, 3, 9, 2)
  <2>1. Both(1, 9, 2, None, 3, 5, 1)'
    BY <1>2, <1>6, YieldStep
  <2> QED BY <2>1 DEF Course, Both, At
<1>7. CASE Both(1, 10, 2, 36, 5, 5, 1)
  <2>1. Both(0, 5, 1, None, 5, 10, 2)'
    BY <1>2, <1>7, YieldStep
  <2> QED BY <2>1 DEF Course, Both, At
<1> QED BY <1>3, <1>4, <1>5, <1>6, <1>7

-----------------------------------------------------------------------------
(* The invariant.                                                          *)

TableInv == P!TypeOK /\ trap \in {None} \cup 34 .. 39 /\ rdx \in {0, 1} /\ stray \in BOOLEAN

SystemInv == IInv /\ TableInv /\ CourseInv /\ FlagFitsTheScreen

\* The mode of a screen that can show the flag is of its size, and the last pixel of the
\* flag is one of the framebuffer.
LEMMA LastPixelOnScreen ==
  ASSUME IInv, pc = "done",
         NEW m \in DOMAIN modes, modes[m].rgb, modes[m].w = W, modes[m].h = H
  PROVE  LastPixel < Pixels(modes[current])
<1>1. W \in Nat /\ H \in Nat
  BY GraphicsAssumption
<1>2. Perfect(modes[m])
  BY <1>1 DEF Perfect, Acceptable
<1>3. ~FirstHighest(mode)
  BY <1>2 DEF FirstHighest
<1>4. FirstPerfect(mode) /\ output_mode = modes[mode] /\ current = mode
  BY <1>3 DEF IInv, Selected
<1> DEFINE a == modes[mode].stride
<1>5. modes[mode].rgb /\ modes[mode].w = W /\ modes[mode].h = H
  BY <1>4 DEF FirstPerfect, Perfect, Acceptable
<1>6. mode \in DOMAIN modes /\ modes \in ModeTables
  BY DEF IInv, TypeOK
<1>7. a \in Nat /\ W <= a
  <2>1. modes[mode] \in Mode
    BY <1>6, Tables
  <2>2. modes[mode].rgb => modes[mode].w <= modes[mode].stride
    BY <1>6, InitProgramAssumption
  <2> QED BY <1>5, <2>1, <2>2 DEF Mode
<1>8. LastPixel = (W - 1) + (H - 1) * a
  BY <1>4 DEF LastPixel, Offset
<1>9. Pixels(modes[current]) = a * H
  BY <1>4, <1>5 DEF Pixels
<1> HIDE DEF a
<1>10. (H - 1) * a = a * H - a
  BY <1>1, <1>7
<1>11. a * H \in Nat
  BY <1>1, <1>7
<1> QED BY <1>1, <1>7, <1>8, <1>9, <1>10, <1>11

LEMMA SystemInitInvariant == SystemInit => SystemInv
<1> SUFFICES ASSUME SystemInit PROVE SystemInv
  OBVIOUS
<1>1. IInv
  BY InitInvariant DEF SystemInit
<1>2. P!TypeOK
  <2>1. NSLOTS \in Nat /\ NSLOTS >= 2
    BY InitProgramAssumption
  <2>2. PICK start \in DOMAIN Program : ps \in [P!Slot -> {P!Fresh(start)}] /\ ip = start
    BY DEF SystemInit, P!Init
  <2>3. P!Fresh(start) \in P!Context
    BY DEF P!Fresh, P!Context
  <2>4. ps \in [P!Slot -> P!Context]
    BY <2>2, <2>3
  <2>5. /\ current_process = 0 /\ running_processes = {0} /\ sp = 0 /\ cpu = "run" /\ forks = 0
    BY DEF SystemInit, P!Init
  <2>6. 0 \in P!Slot
    BY <2>1 DEF P!Slot
  <2> QED BY <2>2, <2>4, <2>5, <2>6 DEF P!TypeOK
<1>3. trap = None /\ rdx \in {0, 1} /\ stray = FALSE /\ log = <<>>
  BY DEF SystemInit
<1>4. CourseInv
  <2>1. Alone(1, 0, None, 0) /\ cpu = "run"
    BY <1>3, AllMarks DEF SystemInit, P!Init, Alone, At
  <2> QED BY <2>1 DEF CourseInv, Course
<1>5. FlagFitsTheScreen
  BY <1>3 DEF FlagFitsTheScreen
<1> QED BY <1>1, <1>2, <1>3, <1>4, <1>5 DEF SystemInv, TableInv

\* Run leaves the processor running, in a context of the table's type.
LEMMA RunTypes ==
  ASSUME SystemInv, Run
  PROVE  TableInv' /\ cpu' = "run"
<1>1. Course /\ cpu = "run" /\ trap = None
  BY DEF SystemInv, CourseInv, Run, Runs
<1>2. /\ UNCHANGED <<ps, current_process, running_processes, cpu, forks>>
      /\ ip' \in DOMAIN Program /\ sp' \in {1, 2}
      /\ rdx' = rdx /\ stray' = stray
  BY DEF Run, P!Execute
<1>3. P!TypeOK'
  BY <1>2 DEF SystemInv, TableInv, P!TypeOK, P!Context, P!Slot
<1>4. trap' \in {None} \cup 34 .. 39
  <2>1. Course'
    BY <1>1, RunStep
  <2> QED BY <2>1 DEF Course, Alone, Both, At, None
<1> QED BY <1>1, <1>2, <1>3, <1>4 DEF SystemInv, TableInv

\* So do the forks and yields of the program: there is a slot for its one fork.
LEMMA ForkTypes ==
  ASSUME SystemInv, int35
  PROVE  TableInv' /\ cpu' = "run"
<1>1. /\ cpu = "run" /\ cpu' = "run" /\ trap' = None
      /\ rdx' = rdx /\ stray' = stray /\ ip' = ip /\ sp' = sp
  BY DEF int35, Handles, Runs, P!Fork
<1>2. forks' = forks + 1 /\ forks < 1
  BY DEF int35, P!Fork
<1>3. another_app \in DOMAIN Program
  <2>1. 8 \in 1 .. 10
    OBVIOUS
  <2> QED BY <2>1, Blocks, Zenon DEF another_app
<1>4. P!Fresh(another_app) \in P!Context
  BY <1>3 DEF P!Fresh, P!Context
<1>5. ps' \in [P!Slot -> P!Context] /\ running_processes' \subseteq P!Slot /\ current_process' \in Nat
  <2> DEFINE slot == P!AvailableSlot
             fresh == P!Fresh(another_app)
  <2>1. \/ /\ slot \in P!Slot
           /\ running_processes' = running_processes \cup {slot}
           /\ ps' = [ps EXCEPT ![slot] = fresh]
           /\ current_process' = current_process
        \/ /\ current_process' = [e \in DOMAIN Program |-> e][another_app]
           /\ running_processes' \in {{}, running_processes}
           /\ ps' = ps
    BY DEF int35, P!Fork
  <2>2. /\ ps \in [P!Slot -> P!Context] /\ running_processes \subseteq P!Slot
        /\ current_process \in Nat
    BY DEF SystemInv, TableInv, P!TypeOK
  <2>3. [e \in DOMAIN Program |-> e][another_app] \in Nat
    BY <1>3 DEF another_app
  <2> HIDE DEF slot, fresh
  <2> QED BY <1>4, <2>1, <2>2, <2>3 DEF fresh
<1>6. P!TypeOK'
  BY <1>1, <1>2, <1>5 DEF SystemInv, TableInv, P!TypeOK, P!Context, P!Slot
<1> QED BY <1>1, <1>6 DEF SystemInv, TableInv

LEMMA YieldTypes ==
  ASSUME SystemInv, int36
  PROVE  TableInv' /\ cpu' = "run"
<1>1. Course /\ cpu = "run" /\ P!TypeOK
  BY DEF int36, Handles, Runs, SystemInv, CourseInv, TableInv
<1>2. current_process' \in {0, 1} /\ ip' \in 1 .. 10 /\ sp' \in {0, 1, 2} /\ Course'
  BY <1>1, YieldsStep
<1>3. ip' \in DOMAIN Program
  BY <1>2, Blocks
<1>4. running_processes # {}
  BY <1>1 DEF int36, Handles, Course, Alone, Both, At, None
<1>5. /\ cpu' = cpu /\ trap' = None /\ rdx' = rdx /\ stray' = stray
      /\ forks' = forks /\ running_processes' = running_processes
      /\ ps' = [ps EXCEPT ![current_process] = [ip |-> ip, sp |-> sp]]
  BY <1>4 DEF int36, Handles, P!Yield
<1>6. [ip |-> ip, sp |-> sp] \in P!Context /\ ps \in [P!Slot -> P!Context]
  BY <1>1 DEF P!TypeOK, P!Context
<1>7. ps' \in [P!Slot -> P!Context]
  <2> HIDE DEF P!Context, P!Slot
  <2> QED BY <1>5, <1>6
<1>8. P!TypeOK'
  BY <1>1, <1>2, <1>3, <1>5, <1>7 DEF P!TypeOK, P!Context, P!Slot
<1> QED BY <1>1, <1>5, <1>8 DEF SystemInv, TableInv

\* The other interrupts at most stop the machine, and draw something stray only on a screen
\* that cannot show the flag.
LEMMA OtherTypes ==
  ASSUME SystemInv, int34 \/ int37 \/ int38 \/ int39
  PROVE  TableInv'
<1>1. trap' = None /\ rdx' = rdx
  BY DEF int34, int37, int38, int39, Handles
<1>2. \/ UNCHANGED table
      \/ /\ UNCHANGED <<ps, current_process, running_processes, ip, sp, forks>>
         /\ cpu' \in {"off", "halted"}
  BY DEF int34, int37, int38, int39, PageFault, P!Stop
<1>3. P!TypeOK'
  BY <1>2 DEF SystemInv, TableInv, P!TypeOK, P!Context, P!Slot, table
<1>4. stray' \in BOOLEAN
  BY Zenon DEF int34, int37, int38, int39, SystemInv, TableInv
<1> QED BY <1>1, <1>3, <1>4 DEF SystemInv, TableInv

LEMMA FlagStep ==
  ASSUME SystemInv, int39
  PROVE  FlagFitsTheScreen'
<1>1. pc = "done" /\ modes' = modes
  BY DEF int39, Handles, Runs, screen, vars
<1>2. SUFFICES ASSUME stray', NEW m \in DOMAIN modes,
                      modes[m].rgb, modes[m].w = W, modes[m].h = H
               PROVE  FALSE
  BY <1>1 DEF FlagFitsTheScreen
<1>3. LastPixel < Pixels(modes[current])
  BY <1>1, <1>2, LastPixelOnScreen DEF SystemInv
<1>4. UNCHANGED stray
  BY <1>3 DEF int39
<1>5. stray
  BY <1>2, <1>4
<1> QED BY <1>2, <1>5 DEF SystemInv, FlagFitsTheScreen

LEMMA SystemStepInvariant ==
  ASSUME SystemInv, [SystemNext]_systemVars
  PROVE  SystemInv'
<1>1. IInv /\ TableInv /\ CourseInv /\ FlagFitsTheScreen
  BY DEF SystemInv
<1>2. ASSUME UNCHANGED screen PROVE IInv'
  BY <1>1, <1>2, StepInvariant DEF screen
<1>3. ASSUME UNCHANGED <<modes, stray>> PROVE FlagFitsTheScreen'
  BY <1>1, <1>3 DEF FlagFitsTheScreen
<1>4. CASE InitGraphics
  <2>1. Next /\ UNCHANGED <<ps, current_process, running_processes, ip, sp, cpu, forks>>
        /\ UNCHANGED <<trap, rdx, log, stray>>
    BY <1>4 DEF InitGraphics, table
  <2>2. IInv'
    BY <1>1, <2>1, StepInvariant
  <2>3. modes' = modes
    BY <2>1 DEF Next, QueryCurrent, TakePerfect, TakeBetter, Skip, NoMoreModes, SetMode, Fail
  <2>4. TableInv'
    BY <1>1, <2>1 DEF TableInv, P!TypeOK, P!Context, P!Slot
  <2>5. CourseInv'
    BY <1>1, <2>1 DEF CourseInv, Course, Alone, Both, At, MarksInOrder
  <2> QED BY <1>3, <2>1, <2>2, <2>3, <2>4, <2>5 DEF SystemInv
<1>5. ASSUME UNCHANGED screen, cpu = "run", Course', cpu' = "run"
      PROVE  CourseInv'
  BY <1>5 DEF CourseInv
<1>6. CASE Run
  <2>1. UNCHANGED <<screen, stray>> /\ cpu = "run" /\ modes' = modes /\ Course
    BY <1>1, <1>6 DEF Run, Runs, screen, vars, CourseInv
  <2>2. TableInv' /\ cpu' = "run"
    BY <1>6, RunTypes
  <2>3. Course'
    BY <1>6, <2>1, RunStep
  <2> QED BY <1>2, <1>3, <1>5, <2>1, <2>2, <2>3 DEF SystemInv
<1>7. CASE KeyPressWithoutStack
  <2>1. /\ UNCHANGED <<screen, trap, rdx, log, stray>> /\ modes' = modes
        /\ UNCHANGED <<ps, current_process, running_processes, ip, sp, forks>>
        /\ cpu = "run" /\ cpu' = "reset"
    BY <1>7 DEF KeyPressWithoutStack, Runs, P!InterruptWithoutStack, screen, vars
  <2>2. TableInv'
    BY <1>1, <2>1 DEF TableInv, P!TypeOK, P!Context, P!Slot
  <2>3. PICK k \in 0 .. 6 : log = Prefix(k)
    BY <1>1, <2>1, MarksSoFar DEF CourseInv
  <2>4. CourseInv'
    BY <2>1, <2>3, StopInOrder
  <2> QED BY <1>2, <1>3, <2>1, <2>2, <2>4 DEF SystemInv
<1>8. CASE int35
  <2>1. UNCHANGED <<screen, stray>> /\ cpu = "run" /\ modes' = modes /\ Course
    BY <1>1, <1>8 DEF int35, Handles, Runs, screen, vars, CourseInv, P!Fork
  <2>2. TableInv' /\ cpu' = "run"
    BY <1>8, ForkTypes
  <2>3. Course'
    BY <1>1, <1>8, <2>1, ForkStep DEF TableInv
  <2> QED BY <1>2, <1>3, <1>5, <2>1, <2>2, <2>3 DEF SystemInv
<1>9. CASE int36
  <2>1. UNCHANGED <<screen, stray>> /\ cpu = "run" /\ modes' = modes /\ Course
    BY <1>1, <1>9 DEF int36, Handles, Runs, screen, vars, CourseInv
  <2>2. TableInv' /\ cpu' = "run"
    BY <1>9, YieldTypes
  <2>3. Course'
    BY <1>1, <1>9, <2>1, YieldsStep DEF TableInv
  <2> QED BY <1>2, <1>3, <1>5, <2>1, <2>2, <2>3 DEF SystemInv
<1>10. CASE int34 \/ int37 \/ int38 \/ int39
  <2>1. UNCHANGED screen /\ cpu = "run" /\ Course
    BY <1>1, <1>10 DEF int34, int37, int38, int39, Handles, Runs, CourseInv
  <2>2. TableInv'
    BY <1>10, OtherTypes
  <2>3. CourseInv'
    BY <1>10, <2>1, OtherSteps
  <2>4. FlagFitsTheScreen'
    <3>1. CASE int39
      BY <3>1, FlagStep
    <3>2. CASE int34 \/ int37 \/ int38
      <4>1. UNCHANGED <<modes, stray>>
        BY <2>1, <3>2 DEF int34, int37, int38, screen, vars
      <4> QED BY <1>3, <4>1
    <3> QED BY <1>10, <3>1, <3>2
  <2> QED BY <1>2, <2>1, <2>2, <2>3, <2>4 DEF SystemInv
<1>11. CASE UNCHANGED systemVars
  <2>1. /\ UNCHANGED <<ps, current_process, running_processes, ip, sp, cpu, forks>>
        /\ UNCHANGED <<screen, trap, rdx, log, stray>> /\ modes' = modes
    BY <1>11 DEF systemVars, table, screen, vars
  <2>2. TableInv'
    BY <1>1, <2>1 DEF TableInv, P!TypeOK, P!Context, P!Slot
  <2>3. CourseInv'
    BY <1>1, <2>1 DEF CourseInv, Course, Alone, Both, At, MarksInOrder
  <2> QED BY <1>2, <1>3, <2>1, <2>2, <2>3 DEF SystemInv
<1> QED BY <1>4, <1>6, <1>7, <1>8, <1>9, <1>10, <1>11 DEF SystemNext

\* The invariant holds in every reachable state.
THEOREM SystemInvariant == SystemSpec => []SystemInv
BY SystemInitInvariant, SystemStepInvariant, PTL DEF SystemSpec

\* The variables keep their types: those of the screen, of the process table and of the
\* program, whose log holds nothing but its marks (graphics.c:5-68, handlers.c:163-291).
THEOREM SystemTypeCorrect == SystemSpec => []SystemTypeOK
<1>1. SystemInv => SystemTypeOK
  <2> SUFFICES ASSUME SystemInv PROVE SystemTypeOK
    OBVIOUS
  <2>1. log \in Seq(Marks)
    <3>1. CASE cpu = "run"
      <4>1. \E k \in 0 .. 6 : log = Prefix(k)
        BY <3>1, MarksSoFar DEF SystemInv, CourseInv
      <4> QED BY <4>1, PrefixFacts
    <3>2. CASE cpu # "run"
      BY <3>2 DEF SystemInv, CourseInv
    <3> QED BY <3>1, <3>2
  <2> QED BY <2>1, Zenon DEF SystemInv, IInv, TableInv, SystemTypeOK, Marks
<1> QED BY SystemInvariant, <1>1, PTL

\* Whatever screen there is and wherever a key press resets the machine or a fault stops it,
\* the marks of the two processes come in the order that init.s is written for, each going
\* on where it yielded, and the power goes off after all of them (handlers.c:163-219).
THEOREM MarksStayInOrder == SystemSpec => []MarksInOrder
<1>1. SystemInv => MarksInOrder
  <2> SUFFICES ASSUME SystemInv PROVE MarksInOrder
    OBVIOUS
  <2>1. CASE cpu = "run"
    <3>1. \E k \in 0 .. 6 : log = Prefix(k)
      BY <2>1, MarksSoFar DEF SystemInv, CourseInv
    <3>2. IsPrefix(log, Turns)
      BY <3>1, PrefixInOrder
    <3> QED BY <2>1, <3>2 DEF MarksInOrder, Expected
  <2>2. CASE cpu # "run"
    BY <2>2 DEF SystemInv, CourseInv
  <2> QED BY <2>1, <2>2
<1> QED BY SystemInvariant, <1>1, PTL

\* For every flag and all tables of modes: where one of the modes is of the flag's size, the
\* one that select_mode settles on holds all of it, even if it comes last in a table whose
\* other modes are larger or have no framebuffer (graphics.c:53-75, handlers.c:267-291).
THEOREM FlagStaysOnScreen == SystemSpec => []FlagFitsTheScreen
<1>1. SystemInv => FlagFitsTheScreen
  BY DEF SystemInv
<1> QED BY SystemInvariant, <1>1, PTL
=============================================================================
