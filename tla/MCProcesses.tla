----------------------------- MODULE MCProcesses -----------------------------
(* Two code addresses and two stack pointers; forks to the last slot, or past it. *)
(* The lowest byte of one address is a slot, that of the other is none.           *)
EXTENDS Processes

Low == [e \in Ip |-> IF e = CHOOSE f \in Ip : TRUE THEN 1 ELSE NSLOTS + 1]
=============================================================================
