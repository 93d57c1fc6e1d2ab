------------------------------- MODULE RwSpec -------------------------------
(***************************************************************************)
(* What a readers/writer lock promises its clients, without the lock word, *)
(* the turnstile or priorities: who is inside, who waits, and how a waiter *)
(* gets in.  The promises are                                              *)
(*   - a writer is inside alone;                                           *)
(*   - somebody waits only while somebody is inside, so the lock is never  *)
(*     left free with threads waiting for it;                              *)
(*   - a waiter gets in only by a grant made by the thread inside, in the  *)
(*     very step in which that thread leaves or after it has downgraded;   *)
(*   - no new reader gets in while a writer waits.                         *)
(* RwLock implements this specification.                                   *)
(***************************************************************************)
CONSTANT Threads

VARIABLES
  inside,    \* how each thread is inside the lock
  waiting    \* what each thread waits for

specvars == <<inside, waiting>>

Access == {"none", "reader", "writer"}

In(m) == {t \in Threads : inside[t] = m}
Waiting(m) == {t \in Threads : waiting[t] = m}

Nobody == In("reader") = {} /\ In("writer") = {}
NobodyWaits == Waiting("reader") = {} /\ Waiting("writer") = {}

Init ==
  /\ inside = [t \in Threads |-> "none"]
  /\ waiting = [t \in Threads |-> "none"]

\* A thread that does not wait gets in by itself.
Enter(t, m) ==
  /\ inside[t] = "none" /\ waiting[t] = "none"
  /\ In("writer") = {}
  /\ \/ m = "reader" /\ Waiting("writer") = {}
     \/ m = "writer" /\ Nobody /\ NobodyWaits
  /\ inside' = [inside EXCEPT ![t] = m]
  /\ UNCHANGED waiting

Wait(t, m) ==
  /\ inside[t] = "none" /\ waiting[t] = "none"
  /\ ~Nobody
  /\ m \in {"reader", "writer"}
  /\ waiting' = [waiting EXCEPT ![t] = m]
  /\ UNCHANGED inside

\* Leaving does not free a lock that is waited for ...
Leave(t) ==
  /\ inside[t] # "none"
  /\ NobodyWaits \/ \E u \in Threads \ {t} : inside[u] # "none"
  /\ inside' = [inside EXCEPT ![t] = "none"]
  /\ UNCHANGED waiting

\* ... it hands the lock to one waiting writer or, if the thread that leaves
\* is a writer, to some of the waiting readers.
HandOff(t, S) ==
  /\ inside[t] # "none"
  /\ \A u \in Threads \ {t} : inside[u] = "none"
  /\ \/ \E w \in Waiting("writer") : S = {w}
     \/ inside[t] = "writer" /\ S # {} /\ S \subseteq Waiting("reader")
  /\ inside' = [u \in Threads |-> IF u \in S THEN waiting[u] ELSE "none"]
  /\ waiting' = [u \in Threads |-> IF u \in S THEN "none" ELSE waiting[u]]

Downgrade(t) ==
  /\ inside[t] = "writer"
  /\ inside' = [inside EXCEPT ![t] = "reader"]
  /\ UNCHANGED waiting

\* The grant to waiting readers that follows a downgrade.
Admit(S) ==
  /\ S \subseteq Waiting("reader")
  /\ In("reader") # {} /\ In("writer") = {}
  /\ inside' = [u \in Threads |-> IF u \in S THEN "reader" ELSE inside[u]]
  /\ waiting' = [u \in Threads |-> IF u \in S THEN "none" ELSE waiting[u]]

Upgrade(t) ==
  /\ inside[t] = "reader"
  /\ \A u \in Threads \ {t} : inside[u] = "none"
  /\ Waiting("writer") = {}
  /\ inside' = [inside EXCEPT ![t] = "writer"]
  /\ UNCHANGED waiting

Next ==
  \/ \E t \in Threads :
       \/ \E m \in {"reader", "writer"} : Enter(t, m) \/ Wait(t, m)
       \/ Leave(t) \/ Downgrade(t) \/ Upgrade(t)
       \/ \E S \in SUBSET Threads : HandOff(t, S)
  \/ \E S \in SUBSET Threads : Admit(S)

Spec == Init /\ [][Next]_specvars
=============================================================================
