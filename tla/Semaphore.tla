----------------------------- MODULE Semaphore -----------------------------
(***************************************************************************)
(* Counting semaphores of the Solaris kernel: uts/common/os/semaphore.c.   *)
(*                                                                         *)
(* One semaphore, the threads that wait for it, with or without being      *)
(* interruptible, and the signals that are posted to them (sig.c).  A step *)
(* is one section under the sleep queue lock of the semaphore, which is    *)
(* also the thread lock of who sleeps on it, or one look for signals.      *)
(***************************************************************************)
EXTENDS SleepQueue

CONSTANTS
  Threads,
  Lwps,      \* the threads that have an lwp, which signals are posted to
  Prios,     \* dispatch priorities
  MaxCount,  \* bound on s_count
  Panics     \* whether the system may panic

ASSUME ThreadsAssumption == IsFiniteSet(Threads) /\ Lwps \subseteq Threads
ASSUME PriosAssumption == Prios \subseteq Int /\ Prios # {}
ASSUME CountAssumption == MaxCount \in Nat /\ Panics \in BOOLEAN

VARIABLES
  s_count,
  s_slpq,    \* the threads asleep on the semaphore, best priority first
  pri,       \* DISP_PRIO of the threads on s_slpq
  sig,       \* the threads that have a signal (or lwp_sysabort, MUSTRETURN)
  panicstr,
  pc         \* where each thread is

vars == <<s_count, s_slpq, pri, sig, panicstr, pc>>

Asleep == Elems(s_slpq)

Init ==
  /\ s_count \in 0 .. MaxCount /\ s_slpq = <<>>
  /\ pri \in [Threads -> {CHOOSE p \in Prios : TRUE}]
  /\ sig = {} /\ panicstr = FALSE
  /\ pc = [t \in Threads |-> "idle"]

Goto(t, l) == pc' = [pc EXCEPT ![t] = l]

-----------------------------------------------------------------------------
(* The sleep queue                                                         *)

sema_queue(q, prio, t) == Insert(q, prio, t)
sema_dequeue(q, t) == Remove(q, t)

\* SEMA_BLOCK: CL_SLEEP() gives some priority, the thread joins the queue.
SEMA_BLOCK(t, l) ==
  /\ \E p \in Prios : LET prio == [pri EXCEPT ![t] = p]
                      IN  pri' = prio /\ s_slpq' = sema_queue(s_slpq, prio, t)
  /\ Goto(t, l)

\* Mutant: the thread is not taken off the queue.
sema_unsleep_not(t) == UNCHANGED s_slpq

\* setrun() of a thread: who does not sleep is already running.
sema_unsleep(t) == s_slpq' = sema_dequeue(s_slpq, t)

\* CL_WAKEUP() of the first in the queue.
WakeFirst == s_slpq' = Tail(s_slpq)

\* The priority of a sleeping thread changes.
sema_change_pri(t, p) ==
  /\ t \in Asleep /\ pri[t] # p
  /\ pri' = [pri EXCEPT ![t] = p]
  /\ s_slpq' = sema_queue(sema_dequeue(s_slpq, t), pri', t)
  /\ UNCHANGED <<s_count, sig, panicstr, pc>>

-----------------------------------------------------------------------------
(* sema_p(), sema_tryp()                                                   *)

\* The loops of sema_p() and sema_p_sig() end.
Take(t) ==
  /\ s_count > 0
  /\ s_count' = s_count - 1 /\ Goto(t, "idle")
  /\ UNCHANGED <<s_slpq, pri, sig, panicstr>>

\* At the head of the loop of sema_p(): at the call, and after swtch().
InP(t) == pc[t] \in {"p", "p_swtch"} /\ t \notin Asleep

sema_p_take(t) == InP(t) /\ Take(t)

sema_p_block(t) ==
  /\ InP(t) /\ s_count = 0 /\ ~panicstr
  /\ SEMA_BLOCK(t, "p_swtch")
  /\ UNCHANGED <<s_count, sig, panicstr>>

sema_p_panic(t) ==
  /\ InP(t) /\ s_count = 0 /\ panicstr
  /\ Goto(t, "idle")
  /\ UNCHANGED <<s_count, s_slpq, pri, sig, panicstr>>

sema_tryp(t) == pc[t] = "idle" /\ Take(t)

-----------------------------------------------------------------------------
(* sema_p_sig() of a thread that has an lwp                                *)

InPSig(t) == pc[t] \in {"sig", "sig_retry"}

sema_p_sig_take(t) == InPSig(t) /\ Take(t)

sema_p_sig_block(t) ==
  /\ InPSig(t) /\ s_count = 0
  /\ SEMA_BLOCK(t, "sig_look")
  /\ UNCHANGED <<s_count, sig, panicstr>>

\* ISSIG(t, JUSTLOOKING): the thread wakes itself, unless somebody has.
sema_p_sig_look(t) ==
  /\ pc[t] = "sig_look"
  /\ IF t \in sig THEN sema_unsleep(t) ELSE UNCHANGED s_slpq
  /\ Goto(t, "sig_swtch")
  /\ UNCHANGED <<s_count, pri, sig, panicstr>>

\* Back from swtch(), ISSIG(t, FORREAL): a signal that is ignored, held or
\* taken by another thread of the process is not one.
sema_p_sig_issig(t) ==
  /\ pc[t] = "sig_swtch" /\ t \notin Asleep
  /\ \/ t \in sig /\ Goto(t, "sig_intr")
     \/ Goto(t, "sig_retry")
  /\ sig' = sig \ {t}
  /\ UNCHANGED <<s_count, s_slpq, pri, panicstr>>

\* Mutant: the wakeup is not passed on.
sema_p_sig_intr_keep(t) ==
  /\ pc[t] = "sig_intr"
  /\ Goto(t, "idle")
  /\ UNCHANGED <<s_count, s_slpq, pri, sig, panicstr>>

\* Interrupted: a wakeup that came at the same time goes to the next thread.
sema_p_sig_intr(t) ==
  /\ pc[t] = "sig_intr"
  /\ IF s_slpq # <<>> /\ s_count > 0 THEN WakeFirst ELSE UNCHANGED s_slpq
  /\ Goto(t, "idle")
  /\ UNCHANGED <<s_count, pri, sig, panicstr>>

-----------------------------------------------------------------------------
(* sema_v(), signals, panic                                                *)

\* Mutant: a thread is only woken for the first unit.
sema_v_first ==
  /\ s_count < MaxCount /\ ~panicstr
  /\ s_count' = s_count + 1
  /\ IF s_slpq # <<>> /\ s_count = 0 THEN WakeFirst ELSE UNCHANGED s_slpq
  /\ UNCHANGED <<pri, sig, panicstr, pc>>

\* By any thread or interrupt (it does nothing when panicstr is set).
sema_v ==
  /\ s_count < MaxCount /\ ~panicstr
  /\ s_count' = s_count + 1
  /\ IF s_slpq # <<>> THEN WakeFirst ELSE UNCHANGED s_slpq
  /\ UNCHANGED <<pri, sig, panicstr, pc>>

\* A thread that is asleep with T_WAKEABLE set.
Wakeable(t) == t \in Asleep /\ pc[t] \in {"sig_look", "sig_swtch"}

\* A signal is posted: it wakes the thread if it can be woken.
eat_signal(t) ==
  /\ t \in Lwps \ sig /\ pc[t] # "idle"
  /\ sig' = sig \cup {t}
  /\ IF Wakeable(t) THEN sema_unsleep(t) ELSE UNCHANGED s_slpq
  /\ UNCHANGED <<s_count, pri, panicstr, pc>>

panic ==
  /\ Panics /\ ~panicstr
  /\ panicstr' = TRUE
  /\ UNCHANGED <<s_count, s_slpq, pri, sig, pc>>

\* A thread calls sema_p() or sema_p_sig().  A signal that is left from
\* before is still there.
Call(t) ==
  /\ pc[t] = "idle"
  /\ \/ Goto(t, "p")
     \/ t \in Lwps /\ Goto(t, "sig")
  /\ UNCHANGED <<s_count, s_slpq, pri, sig, panicstr>>

-----------------------------------------------------------------------------
Progress(t) ==
  \/ sema_p_take(t) \/ sema_p_block(t) \/ sema_p_panic(t)
  \/ sema_p_sig_take(t) \/ sema_p_sig_block(t) \/ sema_p_sig_look(t)
  \/ sema_p_sig_issig(t) \/ sema_p_sig_intr(t)

Next ==
  \/ \E t \in Threads :
       \/ Call(t) \/ sema_tryp(t) \/ Progress(t) \/ eat_signal(t)
       \/ \E p \in Prios : sema_change_pri(t, p)
  \/ sema_v \/ panic

Spec == Init /\ [][Next]_vars

\* A thread that can run does.  Nobody has to call anything.
FairSpec == Spec /\ \A t \in Threads : WF_vars(Progress(t))

-----------------------------------------------------------------------------
(* Properties                                                              *)

\* s_count is never negative and stays within the bound.
TypeOK ==
  /\ s_count \in 0 .. MaxCount
  /\ s_slpq \in Seq(Threads) /\ pri \in [Threads -> Prios]
  /\ sig \subseteq Lwps /\ panicstr \in BOOLEAN
  /\ pc \in [Threads -> {"idle", "p", "p_swtch", "sig", "sig_look", "sig_swtch",
                         "sig_retry", "sig_intr"}]

\* The threads that were woken and have not yet looked again at s_count, or
\* passed their wakeup on.
InTransit ==
  {t \in Threads \ Asleep :
     pc[t] \in {"p_swtch", "sig_look", "sig_swtch", "sig_retry", "sig_intr"}}

\* While threads sleep, for each free unit one thread is on its way to it: no
\* wakeup of sema_v() is lost, whatever signals come at the same time.
NoLostWakeup == s_slpq # <<>> => s_count <= Cardinality(InTransit)

\* An interruptible thread does not go to sleep with a signal posted,
\* whenever that came.
NoMissedSignal == \A t \in Asleep \cap sig : pc[t] \in {"sig_look", "p_swtch"}

\* The best priority is woken first, also after changes of priorities.
QueueSorted == Sorted(s_slpq, pri)

\* Nothing that should end a sleep is lost, neither a unit nor a signal, and
\* units go by priority.
Inv == TypeOK /\ NoLostWakeup /\ NoMissedSignal /\ QueueSorted

\* The semaphore keeps the promises of SemaSpec: under FairSpec also that a
\* free unit goes to somebody while threads wait.
waiting == [t \in Threads |->
              IF pc[t] = "p_swtch" THEN "p"
              ELSE IF pc[t] \in {"sig_look", "sig_swtch", "sig_retry", "sig_intr"}
              THEN "p_sig" ELSE "no"]
Promise == INSTANCE SemaSpec WITH avail <- s_count
KeepsPromise == Promise!Spec

\* A thread that waits and is told of a signal leaves the queue for it.
SignalEndsSleep == \A t \in Lwps : pc[t] = "sig_swtch" /\ t \in sig ~> pc[t] # "sig_swtch"
=============================================================================
