---------------------------- MODULE InitProgram ----------------------------
(***************************************************************************)
(* The program of src/src/init.s: two processes on the process table of    *)
(* Processes, one of which draws a flag on the screen that Graphics set up.*)
(* A step runs one of them up to its next INT, or handles that INT.        *)
(***************************************************************************)
EXTENDS Graphics, Sequences, SequencesExt

CONSTANT
  NSLOTS  \* of Processes; W and H are the size of the flag, too

\* Two processes have slots, and the lines of a framebuffer do not overlap.
ASSUME InitProgramAssumption ==
  /\ NSLOTS \in Nat \ {0, 1}
  /\ \A t \in ModeTables : \A k \in DOMAIN t : t[k].rgb => t[k].w <= t[k].stride

VARIABLES
  ps, current_process, running_processes, ip, sp, cpu, forks,   \* Processes
  trap,  \* the INT being executed, or None
  rdx,   \* whether rdx, as switch_to leaves it, is 0
  log,   \* history: the marks the program printed
  stray  \* history: something was drawn outside the framebuffer

screen == vars
table == <<ps, current_process, running_processes, ip, sp, cpu, forks>>
systemVars == <<screen, table, trap, rdx, log, stray>>

\* What runs between two INTs: the stack it sets up (0: none), the mark it prints
\* ("": none), the INT it ends with and the place it goes on at after that.
Block(stack, mark, int, next) == [stack |-> stack, mark |-> mark, int |-> int, next |-> next]

Main == <<
  Block(1, "", 34, 2),
  Block(0, "", 35, 3),
  Block(0, "+", 36, 4),
  Block(0, "*", 36, 5),
  Block(0, "", 37, 6),
  Block(0, "", 34, 7),
  Block(0, "", 38, 7) >>

\* Mutant of Other: once it has drawn the flag, it waits without yielding.
OtherWaiting == <<Block(2, "+", 36, 9), Block(0, "-", 39, 10), Block(0, "", 0, 10)>>

\* another_app; the last block is b2.
Other == <<Block(2, "+", 36, 9), Block(0, "-", 39, 10), Block(0, "", 36, 10)>>

Program == Main \o Other

another_app == 8

P == INSTANCE Processes WITH
  Ip <- DOMAIN Program, Sp <- {1, 2}, LowByte <- [e \in DOMAIN Program |-> e], MaxForks <- 1

None == 0

SystemInit ==
  /\ Init
  /\ P!Init /\ ip = 1
  /\ trap = None
  /\ rdx \in {0, 1}
  /\ log = <<>>
  /\ stray = FALSE

\* efi_main calls init_graphics long before it starts init.
InitGraphics == Next /\ UNCHANGED <<table, trap, rdx, log, stray>>

Runs == pc = "done" /\ cpu = "run"

Logged(mark) == log' = IF mark = "" THEN log ELSE Append(log, mark)

Run ==
  LET b == Program[ip] IN
  /\ Runs /\ trap = None
  /\ P!Execute
  /\ ip' = b.next
  /\ sp' = IF b.stack = 0 THEN sp ELSE b.stack
  /\ trap' = b.int
  /\ Logged(b.mark)
  /\ UNCHANGED <<screen, rdx, stray>>

\* A key press is harmless once there is a stack (its handler is in Serial and Boot).
KeyPressWithoutStack ==
  /\ Runs /\ trap = None
  /\ P!InterruptWithoutStack
  /\ UNCHANGED <<screen, trap, rdx, log, stray>>

Handles(int) == Runs /\ trap = int /\ trap' = None /\ UNCHANGED rdx

\* pf_handler.
PageFault ==
  /\ P!Stop("halted")
  /\ Logged("PF")

\* INT 34.  Its handler is a function of two arguments, in rcx and rdx.  The first
\* time the program sets rax to the text and rcx to its length, 6: what is printed is
\* the memory at 6, which is not mapped, or nothing if rdx happens to be 0.
int34 ==
  /\ Handles(34)
  /\ IF ip = 2
     THEN IF rdx = 0 THEN UNCHANGED <<table, log>> ELSE PageFault
     ELSE Logged("@") /\ UNCHANGED table
  /\ UNCHANGED <<screen, stray>>

int35 ==
  /\ Handles(35)
  /\ P!Fork(another_app)
  /\ UNCHANGED <<screen, log, stray>>

int36 ==
  /\ Handles(36)
  /\ P!Yield
  /\ UNCHANGED <<screen, log, stray>>

\* INT 37.  kmalloc returns a block, or stops the machine when memory is out.
int37 ==
  /\ Handles(37)
  /\ P!Stop("halted") \/ UNCHANGED table
  /\ UNCHANGED <<screen, log, stray>>

int38 ==
  /\ Handles(38)
  /\ P!Stop("off")
  /\ UNCHANGED <<screen, log, stray>>

\* The pixels of a screen in mode m; where set_pixel puts pixel (x, y) of it.
Pixels(m) == m.stride * m.h
Offset(x, y) == x + y * output_mode.stride

\* Mutant of LastPixel: with the lines numbered from 1.
LastPixelBelow == Offset(W - 1, H)

LastPixel == Offset(W - 1, H - 1)

\* INT 39 draws W by H pixels whatever the mode.  What follows the framebuffer may be
\* mapped: its last large page is, and memory below max_addr.
int39 ==
  /\ Handles(39)
  /\ IF LastPixel < Pixels(modes[current])
     THEN Logged("flag") /\ UNCHANGED <<table, stray>>
     ELSE /\ stray' = TRUE
          /\ \/ Logged("flag") /\ UNCHANGED table
             \/ PageFault
  /\ UNCHANGED screen

SystemNext ==
  \/ InitGraphics \/ Run \/ KeyPressWithoutStack
  \/ int34 \/ int35 \/ int36 \/ int37 \/ int38 \/ int39

\* The firmware answers, and the processor goes on.
SystemSpec == SystemInit /\ [][SystemNext]_systemVars /\ WF_systemVars(SystemNext)

-----------------------------------------------------------------------------

SystemTypeOK ==
  /\ TypeOK /\ P!TypeOK
  /\ trap \in {None} \cup 34 .. 39
  /\ rdx \in {0, 1}
  /\ log \in Seq({"+", "*", "-", "@", "flag", "PF"})
  /\ stray \in BOOLEAN

\* The two processes take turns as init.s is written, each going on where it yielded,
\* whether or not what init.s:13 prints first appears (HelloFirst).  A fault ends the log
\* early; the power goes off only after all of it.
Turns == <<"+", "+", "*", "-", "flag", "@">>
Expected == {Turns, <<"Hello">> \o Turns}
MarksInOrder ==
  \E e \in Expected :
    /\ \/ IsPrefix(log, e)
       \/ Last(log) = "PF" /\ IsPrefix(Front(log), e)
    /\ cpu = "off" => log = e

\* init.s:13, "Try printing something": the text of msg comes before anything else.
HelloFirst == log # <<>> => Head(log) = "Hello"

\* Whatever other modes there are and in whatever order, on a screen that can show
\* the flag all of it is drawn inside the framebuffer (graphics.c:53-66, 71-75;
\* handlers.c:267-291).
FlagFitsTheScreen ==
  stray => \A m \in DOMAIN modes : ~(modes[m].rgb /\ modes[m].w = W /\ modes[m].h = H)

\* init runs to its INT 38, unless the machine faults, runs out of memory or is reset;
\* above all another_app, which never stops yielding, does not keep it from there.
PowersOff == <>(pc = "failed" \/ cpu \in {"off", "halted", "reset"})
=============================================================================
