------------------------------- MODULE MCTaskQ -------------------------------
(* TaskQ for TLC: interchangeable workers, interchangeable clients.        *)
EXTENDS TaskQ, TLC

Symmetry == Permutations(Workers) \cup Permutations(Clients)
=============================================================================
