----------------------------- MODULE MCSemaphore -----------------------------
(* Instances of Semaphore for TLC. *)
EXTENDS Semaphore, TLC

Symmetric == Permutations(Lwps) \cup Permutations(Threads \ Lwps)
=============================================================================
