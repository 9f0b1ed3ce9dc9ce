------------------------- MODULE MCSocketScheduler -------------------------
(* Instantiation of SocketScheduler for TLC: one local address and one     *)
(* descriptor number, so a closed socket's number is the next one handed   *)
(* out; a one-byte bucket draining one byte a second, so the second of two *)
(* packets waits in the TX queue for a timer.                              *)
EXTENDS SocketScheduler

CONSTANT v4Local

MC_Texts == {v4Local}
MC_Form == [t \in MC_Texts |-> "v4"]
=============================================================================
