------------------------------- MODULE Serial -------------------------------
(***************************************************************************)
(* serial_port_write of src/src/serial.c against the 16550 it writes to,   *)
(* with the key press handler of src/src/handlers.c, which prints too, in  *)
(* the middle of a write of the kernel.  A byte is only counted.           *)
(***************************************************************************)
EXTENDS Naturals, Sequences

CONSTANTS
  FifoSize,       \* bytes serial_port_write takes the FIFO to hold: 16
  Lengths,        \* lengths of what the kernel prints
  KeyLengths,     \* lengths of what the handler prints, in order
  Interruptible,  \* {TRUE}: code run with interrupts on; {FALSE}: handlers of INT n
  Uart,           \* the port as the firmware leaves it: [configured, depth]
  MaxKeys         \* bound on the key presses

ASSUME SerialAssumption ==
  /\ FifoSize \in Nat \ {0}
  /\ Lengths \subseteq Nat /\ KeyLengths \in Seq(Nat)
  /\ Interruptible \subseteq BOOLEAN
  /\ Uart \subseteq [configured : BOOLEAN, depth : Nat \ {0}]
  /\ MaxKeys \in Nat

VARIABLES
  pc,       \* of each writer: "idle", "flush", "wait" or "fill"; "init" at first
  size,     \* bytes each has left to write
  index,    \* bytes written since it saw the FIFO empty
  on,       \* the kernel's write may be interrupted
  prints,   \* prints of the handler still to come, <<>> outside it
  depth,    \* bytes the transmit FIFO holds, 1 when it is off
  uart,     \* what the port was set to before init_serial_port
  fifo,     \* bytes in the FIFO
  shifting, \* a byte is in the shift register
  lost,     \* history: writes the port dropped a byte of: <<writer, on>>
  keys      \* history: key presses

vars == <<pc, size, index, on, prints, depth, uart, fifo, shifting, lost, keys>>

Writer == {"kernel", "irq"}

Init ==
  /\ pc = [kernel |-> "init", irq |-> "idle"]
  /\ size = [w \in Writer |-> 0]
  /\ index = [w \in Writer |-> 0]
  /\ on = FALSE
  /\ prints = <<>>
  /\ uart \in Uart
  /\ depth = uart.depth
  /\ fifo \in 0 .. uart.depth /\ shifting \in BOOLEAN
  /\ lost = {}
  /\ keys = 0

\* B_UART_LSR_TEMT, without which there is no B_UART_LSR_TXRDY either.
Empty == fifo = 0 /\ ~shifting

\* The handler runs to its end before the kernel goes on.
Runs(w) == w = "irq" \/ (pc["irq"] = "idle" /\ prints = <<>>)

\* init_serial_port: a port that has the right line control and divisor is left
\* as it is, any other is set up, with an empty FIFO that is on, once it has
\* sent everything.
InitSerialPort ==
  /\ pc["kernel"] = "init"
  /\ IF uart.configured THEN UNCHANGED <<depth, fifo>>
     ELSE Empty /\ depth' = FifoSize /\ fifo' = 0
  /\ pc' = [pc EXCEPT !["kernel"] = "idle"]
  /\ UNCHANGED <<size, index, on, prints, uart, shifting, lost, keys>>

\* serial_port_write(buffer, n) is entered; without bytes it flushes.
Enter(w, n) ==
  /\ pc' = [pc EXCEPT ![w] = IF n = 0 THEN "flush" ELSE "wait"]
  /\ size' = [size EXCEPT ![w] = n]
  /\ index' = [index EXCEPT ![w] = 0]

SerialPrint ==
  /\ pc["kernel"] = "idle" /\ Runs("kernel")
  /\ \E n \in Lengths : Enter("kernel", n)
  /\ on' \in Interruptible
  /\ UNCHANGED <<prints, depth, uart, fifo, shifting, lost, keys>>

\* irq1_handler: it prints one string after the other, and its last write returns
\* before the bytes are out.
KeyPress ==
  /\ on /\ Runs("kernel") /\ pc["kernel"] # "init"
  /\ keys < MaxKeys
  /\ keys' = keys + 1
  /\ prints' = KeyLengths
  /\ UNCHANGED <<pc, size, index, on, depth, uart, fifo, shifting, lost>>

KeyPrint ==
  /\ pc["irq"] = "idle" /\ prints # <<>>
  /\ Enter("irq", Head(prints))
  /\ prints' = Tail(prints)
  /\ UNCHANGED <<on, depth, uart, fifo, shifting, lost, keys>>

\* Mutant of Wait: a write to a busy port does not wait.
WaitNot(w) ==
  /\ pc[w] \in {"wait", "flush"} /\ Runs(w)
  /\ pc' = [pc EXCEPT ![w] = IF pc[w] = "wait" THEN "fill" ELSE "idle"]
  /\ index' = [index EXCEPT ![w] = 0]
  /\ UNCHANGED <<size, on, prints, depth, uart, fifo, shifting, lost, keys>>

\* The loops on the line status register.
Wait(w) ==
  /\ pc[w] \in {"wait", "flush"} /\ Runs(w)
  /\ Empty
  /\ pc' = [pc EXCEPT ![w] = IF pc[w] = "wait" THEN "fill" ELSE "idle"]
  /\ index' = [index EXCEPT ![w] = 0]
  /\ UNCHANGED <<size, on, prints, depth, uart, fifo, shifting, lost, keys>>

\* One byte goes to R_UART_TXBUF, which drops it when it is full; left more bytes
\* are to be written, up to burst at a time.
WriteOne(w, left, burst) ==
  /\ pc[w] = "fill" /\ Runs(w)
  /\ IF fifo < depth THEN fifo' = fifo + 1 /\ UNCHANGED lost
     ELSE lost' = lost \cup {<<w, on>>} /\ UNCHANGED fifo
  /\ size' = [size EXCEPT ![w] = left]
  /\ index' = [index EXCEPT ![w] = @ + 1]
  /\ pc' = [pc EXCEPT ![w] = IF left = 0 THEN "idle"
                             ELSE IF index[w] + 1 < burst THEN "fill" ELSE "wait"]
  /\ UNCHANGED <<on, prints, depth, uart, shifting, keys>>

\* Mutant of WriteByte: index <= fifo_size.
WriteByteTooMany(w) == WriteOne(w, size[w] - 1, FifoSize + 1)

\* Mutant of WriteByte: without size--.
WriteByteForever(w) == WriteOne(w, size[w], FifoSize)

WriteByte(w) == WriteOne(w, size[w] - 1, FifoSize)

\* The port moves a byte to the shift register, and the register sends it.
Load ==
  /\ fifo > 0 /\ ~shifting
  /\ fifo' = fifo - 1 /\ shifting' = TRUE
  /\ UNCHANGED <<pc, size, index, on, prints, depth, uart, lost, keys>>

Send ==
  /\ shifting
  /\ shifting' = FALSE
  /\ UNCHANGED <<pc, size, index, on, prints, depth, uart, fifo, lost, keys>>

Step == InitSerialPort \/ KeyPrint \/ \E w \in Writer : Wait(w) \/ WriteByte(w)

Next == Step \/ SerialPrint \/ KeyPress \/ Load \/ Send

\* The processor goes on and the port sends what it has.
Spec == Init /\ [][Next]_vars /\ WF_vars(Step) /\ WF_vars(Load) /\ WF_vars(Send)

-----------------------------------------------------------------------------

TypeOK ==
  /\ pc \in [Writer -> {"init", "idle", "flush", "wait", "fill"}]
  /\ size \in [Writer -> Nat] /\ index \in [Writer -> 0 .. FifoSize]
  /\ on \in BOOLEAN /\ prints \in Seq(Nat)
  /\ uart \in Uart /\ depth \in {uart.depth, FifoSize}
  /\ fifo \in 0 .. depth /\ shifting \in BOOLEAN
  /\ lost \subseteq Writer \X BOOLEAN
  /\ keys \in 0 .. MaxKeys

\* serial.c:167, "to make sure both the transmit FIFO and shift register empty",
\* then serial.c:170, "Fill then entire Tx FIFO": everything written is sent.
NoByteLost == lost = {}

\* A write loses nothing unless it is the kernel's and may be interrupted: what
\* the handler prints is all sent wherever it interrupted the kernel, as it looks
\* at the FIFO itself and nobody interrupts it, and so is what INT n prints.
OnlyInterruptibleWritesLose == lost \subseteq {<<"kernel", TRUE>>}

\* Every write comes to its end, whichever keys are pressed meanwhile (MaxKeys of
\* them), and so does the handler (serial.c:152, 169): nobody waits for a port
\* that is done.
WritesReturn ==
  /\ (pc["kernel"] # "idle") ~> (pc["kernel"] = "idle")
  /\ (prints # <<>>) ~> (prints = <<>> /\ pc["irq"] = "idle")
=============================================================================
