------------------------------ MODULE MCSerial ------------------------------
(* Writes shorter and longer than a FIFO of 3 bytes, and none; three prints of  *)
(* the handler, one of them longer than the FIFO.                               *)
EXTENDS Serial

Keys == <<4, 2, 1>>

\* What a port may be like: not set up, or by a firmware that uses the FIFO.
Raw == [configured |-> FALSE, depth |-> 1]
WithFifo == [configured |-> TRUE, depth |-> FifoSize]
GoodPorts == {Raw, WithFifo}
=============================================================================
