------------------------------ MODULE MCRwLock ------------------------------
(* RwLock for TLC; the configuration names three threads and two priorities. *)
EXTENDS RwLock
=============================================================================
