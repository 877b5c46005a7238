---------------------------- MODULE SerialProofs ----------------------------
(***************************************************************************)
(* For all FIFOs, strings, ports and numbers of key presses: only a write  *)
(* that may be interrupted loses a byte, if a port that is taken as set up *)
(* has its FIFO on.                                                        *)
(***************************************************************************)
EXTENDS Serial, TLAPS

\* init_serial_port looks at the line control and the divisor of a port, not at its FIFO.
FifoOn == \A u \in Uart : u.configured => u.depth = FifoSize

\* A writer has bytes left while it is on its way, and room for one while it fills.
BytesLeft ==
  \A w \in Writer :
    /\ pc[w] \in {"wait", "fill"} => size[w] > 0
    /\ pc[w] = "fill" => index[w] < FifoSize

FifoKnown == pc["kernel"] # "init" => depth = FifoSize

\* The handler does not run in code that interrupts are off in.
HandlerOnlyIfOn ==
  /\ pc["irq"] # "init"
  /\ pc["kernel"] = "init" => on = FALSE
  /\ on = FALSE => pc["irq"] = "idle" /\ prints = <<>>

\* What a writer that fills the FIFO relies on: all that is in it is its own.
OwnBytesOnly ==
  /\ pc["irq"] = "fill" => fifo <= index["irq"]
  /\ on = FALSE /\ pc["kernel"] = "fill" => fifo <= index["kernel"]

IInv ==
  TypeOK /\ BytesLeft /\ FifoKnown /\ HandlerOnlyIfOn /\ OwnBytesOnly /\ OnlyInterruptibleWritesLose

\* The initial states satisfy the invariant.
LEMMA InitInvariant == Init => IInv
<1> SUFFICES ASSUME Init PROVE IInv
  OBVIOUS
<1> USE SerialAssumption DEF Init, Writer
<1>1. TypeOK
  <2>1. pc \in [Writer -> {"init", "idle", "flush", "wait", "fill"}]
    OBVIOUS
  <2>2. /\ size \in [Writer -> Nat] /\ index \in [Writer -> 0 .. FifoSize]
        /\ fifo \in 0 .. depth /\ keys \in 0 .. MaxKeys
    OBVIOUS
  <2>3. on \in BOOLEAN /\ shifting \in BOOLEAN
    OBVIOUS
  <2>4. prints \in Seq(Nat)
    OBVIOUS
  <2>5. lost \subseteq Writer \X BOOLEAN
    OBVIOUS
  <2> QED BY <2>1, <2>2, <2>3, <2>4, <2>5 DEF TypeOK
<1>2. BytesLeft /\ FifoKnown
  BY DEF BytesLeft, FifoKnown
<1>3. HandlerOnlyIfOn /\ OwnBytesOnly /\ OnlyInterruptibleWritesLose
  BY DEF HandlerOnlyIfOn, OwnBytesOnly, OnlyInterruptibleWritesLose
<1> QED BY <1>1, <1>2, <1>3 DEF IInv

\* Every step keeps it.
LEMMA StepInvariant ==
  ASSUME FifoOn, IInv, [Next]_vars
  PROVE  IInv'
<1> USE SerialAssumption DEF Writer
<1>0. TypeOK /\ BytesLeft /\ FifoKnown /\ HandlerOnlyIfOn /\ OwnBytesOnly /\ OnlyInterruptibleWritesLose
  BY DEF IInv
<1>1. CASE InitSerialPort
  <2>1. TypeOK'
    BY <1>1, <1>0 DEF InitSerialPort, FifoOn, Empty, TypeOK
  <2>2. BytesLeft'
    BY <1>1, <1>0 DEF InitSerialPort, FifoOn, Empty, TypeOK, BytesLeft
  <2>3. FifoKnown'
    BY <1>1, <1>0 DEF InitSerialPort, FifoOn, Empty, TypeOK, FifoKnown
  <2>4. HandlerOnlyIfOn'
    BY <1>1, <1>0 DEF InitSerialPort, FifoOn, Empty, TypeOK, HandlerOnlyIfOn
  <2>5. OwnBytesOnly'
    BY <1>1, <1>0 DEF InitSerialPort, FifoOn, Empty, TypeOK, OwnBytesOnly
  <2>6. OnlyInterruptibleWritesLose'
    BY <1>1, <1>0 DEF InitSerialPort, FifoOn, Empty, TypeOK, OnlyInterruptibleWritesLose
  <2> QED BY <2>1, <2>2, <2>3, <2>4, <2>5, <2>6 DEF IInv
<1>2. CASE SerialPrint
  <2>1. TypeOK'
    BY <1>2, <1>0 DEF SerialPrint, Runs, Enter, TypeOK
  <2>2. BytesLeft'
    BY <1>2, <1>0 DEF SerialPrint, Runs, Enter, TypeOK, BytesLeft
  <2>3. FifoKnown'
    BY <1>2, <1>0 DEF SerialPrint, Runs, Enter, TypeOK, FifoKnown
  <2>4. HandlerOnlyIfOn'
    BY <1>2, <1>0 DEF SerialPrint, Runs, Enter, TypeOK, HandlerOnlyIfOn
  <2>5. OwnBytesOnly'
    BY <1>2, <1>0 DEF SerialPrint, Runs, Enter, TypeOK, OwnBytesOnly
  <2>6. OnlyInterruptibleWritesLose'
    BY <1>2, <1>0 DEF SerialPrint, Runs, Enter, TypeOK, OnlyInterruptibleWritesLose
  <2> QED BY <2>1, <2>2, <2>3, <2>4, <2>5, <2>6 DEF IInv
<1>3. CASE KeyPress
  <2>1. TypeOK'
    BY <1>3, <1>0 DEF KeyPress, Runs, TypeOK
  <2>2. BytesLeft'
    BY <1>3, <1>0 DEF KeyPress, Runs, TypeOK, BytesLeft
  <2>3. FifoKnown'
    BY <1>3, <1>0 DEF KeyPress, Runs, TypeOK, FifoKnown
  <2>4. HandlerOnlyIfOn'
    BY <1>3, <1>0 DEF KeyPress, Runs, TypeOK, HandlerOnlyIfOn
  <2>5. OwnBytesOnly'
    BY <1>3, <1>0 DEF KeyPress, Runs, TypeOK, OwnBytesOnly
  <2>6. OnlyInterruptibleWritesLose'
    BY <1>3, <1>0 DEF KeyPress, Runs, TypeOK, OnlyInterruptibleWritesLose
  <2> QED BY <2>1, <2>2, <2>3, <2>4, <2>5, <2>6 DEF IInv
<1>4. CASE KeyPrint
  <2>1. TypeOK'
    BY <1>4, <1>0 DEF KeyPrint, Enter, TypeOK
  <2>2. BytesLeft'
    BY <1>4, <1>0 DEF KeyPrint, Enter, TypeOK, BytesLeft
  <2>3. FifoKnown'
    BY <1>4, <1>0 DEF KeyPrint, Enter, TypeOK, FifoKnown
  <2>4. HandlerOnlyIfOn'
    BY <1>4, <1>0 DEF KeyPrint, Enter, TypeOK, HandlerOnlyIfOn
  <2>5. OwnBytesOnly'
    BY <1>4, <1>0 DEF KeyPrint, Enter, TypeOK, OwnBytesOnly
  <2>6. OnlyInterruptibleWritesLose'
    BY <1>4, <1>0 DEF KeyPrint, Enter, TypeOK, OnlyInterruptibleWritesLose
  <2> QED BY <2>1, <2>2, <2>3, <2>4, <2>5, <2>6 DEF IInv
<1>5. ASSUME NEW w \in Writer, Wait(w)
      PROVE  IInv'
  <2>1. TypeOK'
    BY <1>5, <1>0 DEF Wait, Runs, Empty, TypeOK
  <2>2. BytesLeft'
    BY <1>5, <1>0 DEF Wait, Runs, Empty, TypeOK, BytesLeft
  <2>3. FifoKnown'
    BY <1>5, <1>0 DEF Wait, Runs, Empty, TypeOK, FifoKnown
  <2>4. HandlerOnlyIfOn'
    BY <1>5, <1>0 DEF Wait, Runs, Empty, TypeOK, HandlerOnlyIfOn
  <2>5. OwnBytesOnly'
    BY <1>5, <1>0 DEF Wait, Runs, Empty, TypeOK, OwnBytesOnly
  <2>6. OnlyInterruptibleWritesLose'
    BY <1>5, <1>0 DEF Wait, Runs, Empty, TypeOK, OnlyInterruptibleWritesLose
  <2> QED BY <2>1, <2>2, <2>3, <2>4, <2>5, <2>6 DEF IInv
<1>6. ASSUME NEW w \in Writer, WriteByte(w)
      PROVE  IInv'
  <2> USE <1>0, <1>6
  <2>1. /\ pc[w] = "fill" /\ (w = "kernel" => pc["irq"] = "idle")
        /\ size[w] \in Nat /\ size[w] > 0 /\ index[w] \in Nat /\ index[w] < FifoSize
        /\ depth = FifoSize /\ fifo \in Nat /\ fifo <= depth
    <3>1. pc["kernel"] # "init"
      BY DEF WriteByte, WriteOne, HandlerOnlyIfOn
    <3> QED BY <3>1 DEF WriteByte, WriteOne, Runs, TypeOK, BytesLeft, FifoKnown
  <2>2. /\ size' = [size EXCEPT ![w] = @ - 1] /\ index' = [index EXCEPT ![w] = @ + 1]
        /\ UNCHANGED <<on, prints, depth, uart, shifting, keys>>
    BY DEF WriteByte, WriteOne
  <2>3. pc' = [pc EXCEPT ![w] = pc'[w]] /\ pc'[w] \in {"idle", "fill", "wait"}
    BY DEF WriteByte, WriteOne, TypeOK
  <2>4. \/ fifo < depth /\ fifo' = fifo + 1 /\ lost' = lost
        \/ fifo = depth /\ fifo' = fifo /\ lost' = lost \cup {<<w, on>>}
    <3>1. fifo \in Nat /\ depth \in Nat /\ fifo <= depth
      BY <2>1
    <3> HIDE <1>0
    <3> QED BY <3>1, <1>6 DEF WriteByte, WriteOne
  <2>5. TypeOK'
    <3>1. fifo' \in 0 .. depth'
      BY <2>1, <2>2, <2>4
    <3>2. index' \in [Writer -> 0 .. FifoSize]
      <4>1. index[w] + 1 \in 0 .. FifoSize
        BY <2>1
      <4> QED BY <2>2, <4>1 DEF TypeOK
    <3>3. size' \in [Writer -> Nat]
      <4>1. size[w] - 1 \in Nat
        BY <2>1
      <4> QED BY <2>2, <4>1 DEF TypeOK
    <3>4. lost' \subseteq Writer \X BOOLEAN
      BY <2>4 DEF TypeOK
    <3>5. pc' \in [Writer -> {"init", "idle", "flush", "wait", "fill"}]
      BY <2>3 DEF TypeOK
    <3> QED BY <2>2, <3>1, <3>2, <3>3, <3>4, <3>5 DEF TypeOK
  <2>6. BytesLeft'
    BY DEF WriteByte, WriteOne, TypeOK, BytesLeft
  <2>7. FifoKnown' /\ HandlerOnlyIfOn'
    BY DEF WriteByte, WriteOne, TypeOK, FifoKnown, HandlerOnlyIfOn
  <2>8. OwnBytesOnly'
    <3>1. CASE w = "irq"
      <4>1. on # FALSE
        BY <2>1, <3>1 DEF HandlerOnlyIfOn
      <4>2. fifo' <= index'["irq"]
        BY <2>1, <2>2, <2>3, <2>4, <3>1 DEF OwnBytesOnly, TypeOK
      <4> QED BY <2>2, <2>3, <2>4, <4>1, <4>2 DEF OwnBytesOnly
    <3>2. CASE w = "kernel"
      <4>1. pc'["irq"] = "idle"
        BY <2>1, <2>2, <2>3, <2>4, <3>2 DEF TypeOK
      <4>2. on = FALSE => fifo' <= index'["kernel"]
        BY <2>1, <2>2, <2>3, <2>4, <3>2 DEF OwnBytesOnly, TypeOK
      <4> QED BY <2>2, <2>3, <2>4, <4>1, <4>2 DEF OwnBytesOnly
    <3> QED BY <3>1, <3>2
  <2>9. OnlyInterruptibleWritesLose'
    <3>1. CASE w = "kernel" /\ on = TRUE
      BY <2>2, <2>3, <2>4, <3>1 DEF OnlyInterruptibleWritesLose
    <3>2. CASE w = "irq" \/ on = FALSE
      <4>1. fifo < depth
        BY <2>1, <3>2 DEF OwnBytesOnly
      <4>2. lost' = lost
        <5> HIDE <1>0, <1>6
        <5> QED BY <2>1, <2>4, <4>1
      <4> QED BY <4>2 DEF OnlyInterruptibleWritesLose
    <3> QED BY <3>1, <3>2 DEF TypeOK
  <2> QED BY <2>5, <2>6, <2>7, <2>8, <2>9 DEF IInv
<1>7. CASE Load
  <2>1. TypeOK'
    BY <1>7, <1>0 DEF Load, TypeOK
  <2>2. BytesLeft'
    BY <1>7, <1>0 DEF Load, TypeOK, BytesLeft
  <2>3. FifoKnown'
    BY <1>7, <1>0 DEF Load, TypeOK, FifoKnown
  <2>4. HandlerOnlyIfOn'
    BY <1>7, <1>0 DEF Load, TypeOK, HandlerOnlyIfOn
  <2>5. OwnBytesOnly'
    BY <1>7, <1>0 DEF Load, TypeOK, OwnBytesOnly
  <2>6. OnlyInterruptibleWritesLose'
    BY <1>7, <1>0 DEF Load, TypeOK, OnlyInterruptibleWritesLose
  <2> QED BY <2>1, <2>2, <2>3, <2>4, <2>5, <2>6 DEF IInv
<1>8. CASE Send
  <2>1. TypeOK'
    BY <1>8, <1>0 DEF Send, TypeOK
  <2>2. BytesLeft'
    BY <1>8, <1>0 DEF Send, TypeOK, BytesLeft
  <2>3. FifoKnown'
    BY <1>8, <1>0 DEF Send, TypeOK, FifoKnown
  <2>4. HandlerOnlyIfOn'
    BY <1>8, <1>0 DEF Send, TypeOK, HandlerOnlyIfOn
  <2>5. OwnBytesOnly'
    BY <1>8, <1>0 DEF Send, TypeOK, OwnBytesOnly
  <2>6. OnlyInterruptibleWritesLose'
    BY <1>8, <1>0 DEF Send, TypeOK, OnlyInterruptibleWritesLose
  <2> QED BY <2>1, <2>2, <2>3, <2>4, <2>5, <2>6 DEF IInv
<1>9. CASE UNCHANGED vars
  <2>1. TypeOK'
    BY <1>9, <1>0 DEF vars, TypeOK
  <2>2. BytesLeft'
    BY <1>9, <1>0 DEF vars, TypeOK, BytesLeft
  <2>3. FifoKnown'
    BY <1>9, <1>0 DEF vars, TypeOK, FifoKnown
  <2>4. HandlerOnlyIfOn'
    BY <1>9, <1>0 DEF vars, TypeOK, HandlerOnlyIfOn
  <2>5. OwnBytesOnly'
    BY <1>9, <1>0 DEF vars, TypeOK, OwnBytesOnly
  <2>6. OnlyInterruptibleWritesLose'
    BY <1>9, <1>0 DEF vars, TypeOK, OnlyInterruptibleWritesLose
  <2> QED BY <2>1, <2>2, <2>3, <2>4, <2>5, <2>6 DEF IInv
<1> QED BY <1>1, <1>2, <1>3, <1>4, <1>5, <1>6, <1>7, <1>8, <1>9 DEF Next, Step

\* A port that is taken as set up may have its FIFO off: then the theorems say nothing.
THEOREM TypeCorrect ==
  ASSUME FifoOn
  PROVE  Spec => []TypeOK
<1>1. IInv => TypeOK
  BY DEF IInv
<1>2. IInv /\ [Next]_vars => IInv'
  BY StepInvariant
<1> QED BY InitInvariant, <1>1, <1>2, PTL DEF Spec

\* What the keyboard handler prints, and what is printed with interrupts off, is all sent
\* (serial.c:169-173): only a write of the kernel that may be interrupted loses a byte.
THEOREM OthersLoseNothing ==
  ASSUME FifoOn
  PROVE  Spec => []OnlyInterruptibleWritesLose
<1>1. IInv => OnlyInterruptibleWritesLose
  BY DEF IInv
<1>2. IInv /\ [Next]_vars => IInv'
  BY StepInvariant
<1> QED BY InitInvariant, <1>1, <1>2, PTL DEF Spec
=============================================================================
