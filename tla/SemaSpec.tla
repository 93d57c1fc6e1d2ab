------------------------------ MODULE SemaSpec ------------------------------
(***************************************************************************)
(* What a counting semaphore promises, as semaphore.c implements it: units *)
(* are neither lost nor made, whoever waits may only be interrupted if it  *)
(* asked for that, and a free unit does not stay free while threads wait.  *)
(***************************************************************************)
EXTENDS Integers

CONSTANTS
  Threads,
  Lwps      \* the threads that may be interrupted

VARIABLES
  avail,    \* free units
  waiting,  \* "no", "p" or "p_sig", of each thread
  panicstr  \* the system is going down: nobody must wait any more

vars == <<avail, waiting, panicstr>>

Init == avail \in Nat /\ waiting = [t \in Threads |-> "no"] /\ panicstr = FALSE

Returns(t) == waiting' = [waiting EXCEPT ![t] = "no"] /\ UNCHANGED panicstr

\* A thread that finds no unit waits.
Wait(t, how) ==
  /\ waiting[t] = "no" /\ how = "p_sig" => t \in Lwps
  /\ avail = 0
  /\ waiting' = [waiting EXCEPT ![t] = how]
  /\ UNCHANGED <<avail, panicstr>>

\* A thread gets a unit, at once or after waiting.
Grant(t) == avail > 0 /\ avail' = avail - 1 /\ Returns(t)

\* A thread gives up without a unit.
Interrupt(t) == waiting[t] = "p_sig" /\ Returns(t) /\ UNCHANGED avail
Panic(t) == panicstr /\ Returns(t) /\ UNCHANGED avail

\* A unit is added.
Release == ~panicstr /\ avail' = avail + 1 /\ UNCHANGED <<waiting, panicstr>>

GoDown == ~panicstr /\ panicstr' = TRUE /\ UNCHANGED <<avail, waiting>>

Served == \E t \in Threads : waiting[t] # "no" /\ Grant(t)

Next ==
  \/ \E t \in Threads :
       \/ \E how \in {"p", "p_sig"} : Wait(t, how)
       \/ Grant(t) \/ Interrupt(t) \/ Panic(t)
  \/ Release \/ GoDown

Safety == Init /\ [][Next]_vars

Spec == Safety /\ WF_vars(Served)
=============================================================================
