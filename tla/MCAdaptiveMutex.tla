-------------------------- MODULE MCAdaptiveMutex --------------------------
(* AdaptiveMutex for TLC; the configuration names the threads and CPUs.     *)
EXTENDS AdaptiveMutex
=============================================================================
