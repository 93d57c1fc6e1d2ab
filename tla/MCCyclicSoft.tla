---------------------------- MODULE MCCyclicSoft ----------------------------
(* Instances of CyclicSoft for TLC: the cyclics in Lock are at CY_LOCK_LEVEL. *)
EXTENDS CyclicSoft, TLC

CONSTANT Lock

Level == [c \in Cyclics |-> IF c \in Lock THEN CY_LOCK_LEVEL ELSE CY_LOW_LEVEL]
=============================================================================
