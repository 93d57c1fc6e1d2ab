------------------------------- MODULE MCCallb -------------------------------
(* Callb for TLC.  Clients, executors and classes are not interchangeable for *)
(* the temporal property, so there is no symmetry.                            *)
EXTENDS Callb
=============================================================================
