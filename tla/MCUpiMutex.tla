----------------------------- MODULE MCUpiMutex -----------------------------
(* Instances of UpiMutex for TLC: the threads in High are the urgent ones. *)
EXTENDS UpiMutex, TLC

CONSTANT High

Priority == [t \in Lwps |-> IF t \in High THEN 2 ELSE 1]
=============================================================================
