------------------------------- MODULE CondVar -------------------------------
(***************************************************************************)
(* Condition variables of the Solaris kernel: uts/common/os/condvar.c.     *)
(*                                                                         *)
(* One condition variable with its mutex and predicate, used the way the   *)
(* kernel does: a waiter tests the predicate under the mutex and waits, by *)
(* one of the six functions; a setter makes it true under the mutex and    *)
(* signals, before or after it drops the mutex.  Timed waits have their    *)
(* callout (module Callout, here what TimeoutSpec says), whose function is *)
(* setrun(), and untimeout() itself waits on a condition variable of the   *)
(* callout, which lies in the same sleep queue.                            *)
(*                                                                         *)
(* Times are relative to lbolt: every tick makes them smaller.             *)
(***************************************************************************)
EXTENDS SleepQueue

CONSTANTS
  Waiters,         \* threads that wait
  Lwps,            \* those of them that have an lwp, so take signals
  Setters,         \* threads that signal
  Cv,              \* the condition variable
  Null,
  Kinds,           \* which of the functions the waiters call
  ScBlock,         \* whether their processes have scheduler activations
  CV_MAX_WAITERS,  \* where cv_waiters stops counting
  MaxWait,         \* the longest timeout, in ticks
  Prios            \* dispatch priorities

Threads == Waiters \cup Setters
AllKinds == {"wait", "timedwait", "wait_sig", "timedwait_sig", "wait_stop"}
Timed == {"timedwait", "timedwait_sig", "wait_stop"}
Interruptible == {"wait_sig", "timedwait_sig"}

ASSUME ThreadsAssumption ==
  /\ IsFiniteSet(Threads) /\ Waiters \cap Setters = {} /\ Lwps \subseteq Waiters
  /\ Null \notin Threads \cup AllKinds /\ Cv \notin Threads \cup {Null}
ASSUME NumbersAssumption ==
  /\ CV_MAX_WAITERS \in Nat \ {0} /\ MaxWait \in Nat \ {0} /\ Prios \subseteq Int /\ Prios # {}
  /\ Kinds \subseteq AllKinds /\ ScBlock \in BOOLEAN

\* The condition variable, and c_done of the callout of each waiter.
Cvs == {Cv} \cup Waiters

\* Return values; a positive one is a time left, or says woken.
NoReturn == -2

VARIABLES
  owner,       \* of the mutex
  ready,       \* the predicate
  woken,       \* history: the waiters that were signalled while it was true, on their way
  wasted,      \* history: the last of them gave up, and the predicate is still true
  cv_waiters,
  sq,          \* the sleep queue that all condition variables here hash to
  pri,         \* dispatch priority of each waiter while it sleeps
  wchan,       \* what each waiter sleeps on
  callout,     \* of each waiter: "idle", "pending", "running", "ran"
  due,         \* ticks to the run time of the callout
  left,        \* tim - lbolt of each waiter
  timeleft,    \* local: what a waiter computed from tim before it set its timeout
  sig,         \* waiters that have a signal posted
  kind,        \* the function a waiter is in
  ret,         \* what it returned
  pc

predicate == <<ready, woken, wasted>>
mutex == <<owner, predicate>>
queue == <<cv_waiters, sq, pri, wchan>>
times == <<callout, due, left, timeleft>>
local == <<kind, ret>>
vars == <<mutex, queue, times, sig, local, pc>>

Asleep == Elems(sq)
On(c) == {t \in Asleep : wchan[t] = c}

\* The priority of a thread that does not sleep, which nobody looks at.
Unused == CHOOSE p \in Prios : TRUE

Init ==
  /\ owner = Null /\ ready = FALSE /\ woken = {} /\ wasted = FALSE
  /\ cv_waiters = [c \in Cvs |-> 0]
  /\ sq = <<>>
  /\ pri = [t \in Waiters |-> Unused] /\ wchan = [t \in Waiters |-> Null]
  /\ callout = [t \in Waiters |-> "idle"]
  /\ due = [t \in Waiters |-> 0] /\ left = [t \in Waiters |-> 0]
  /\ timeleft = [t \in Waiters |-> 0]
  /\ sig = {}
  /\ kind = [t \in Waiters |-> Null] /\ ret = [t \in Waiters |-> NoReturn]
  /\ pc = [t \in Threads |-> "idle"]

Goto(t, l) == pc' = [pc EXCEPT ![t] = l]

-----------------------------------------------------------------------------
(* Blocking and waking                                                     *)

\* cv_waiters saturates.
CountUp(n) == IF n < CV_MAX_WAITERS THEN n + 1 ELSE n

CountDown(n) == IF n # CV_MAX_WAITERS THEN n - 1 ELSE n

cv_block(t, c) ==
  /\ cv_waiters' = [cv_waiters EXCEPT ![c] = CountUp(@)]
  /\ \E p \in Prios : LET prio == [pri EXCEPT ![t] = p]
                      IN  pri' = prio /\ sq' = Insert(sq, prio, t)
  /\ wchan' = [wchan EXCEPT ![t] = c]

\* The queue without the threads in T, which wake up; n is the new counter.
Wake(T, c, n) ==
  /\ sq' = Without(sq, T)
  /\ wchan' = [t \in Waiters |-> IF t \in T THEN Null ELSE wchan[t]]
  /\ pri' = [t \in Waiters |-> IF t \in T THEN Unused ELSE pri[t]]
  /\ cv_waiters' = [cv_waiters EXCEPT ![c] = n]

cv_unsleep(t) == Wake({t}, wchan[t], CountDown(cv_waiters[wchan[t]]))

\* setrun(): does nothing to a thread that is not asleep; one that sleeps on
\* the mutex stays asleep.
setrun(t) == IF t \in Asleep THEN cv_unsleep(t) ELSE UNCHANGED queue

cv_change_pri(t, p) ==
  /\ t \in Asleep /\ pri[t] # p
  /\ pri' = [pri EXCEPT ![t] = p]
  /\ sq' = Insert(Remove(sq, t), pri', t)
  /\ UNCHANGED <<mutex, cv_waiters, wchan, times, sig, local, pc>>

\* sleepq_wakeone_chan(): the first that sleeps on c, if any.
FirstOn(c) ==
  LET i == CHOOSE i \in 1 .. Len(sq) :
             wchan[sq[i]] = c /\ \A j \in 1 .. i - 1 : wchan[sq[j]] # c
  IN  sq[i]

-----------------------------------------------------------------------------
(* The waiter and the mutex                                                *)

\* A waiter comes, or comes back from swtch(), and takes the mutex.
Start(t) ==
  /\ t \in Waiters /\ pc[t] = "idle"
  /\ Goto(t, "enter")
  /\ UNCHANGED <<mutex, queue, times, sig, local>>

mutex_enter(t) ==
  /\ pc[t] = "enter" /\ owner = Null
  /\ owner' = t
  /\ Goto(t, IF kind[t] \in Interruptible THEN "awake" ELSE "test")
  /\ kind' = IF kind[t] \in Interruptible THEN kind ELSE [kind EXCEPT ![t] = Null]
  /\ UNCHANGED <<predicate, queue, times, sig, ret>>

Return(t) ==
  /\ owner' = Null
  /\ Goto(t, "idle")
  /\ ret' = [ret EXCEPT ![t] = NoReturn]
  /\ left' = [left EXCEPT ![t] = 0]
  /\ UNCHANGED <<queue, callout, due, timeleft, sig, kind>>

\* The predicate is true, and the waiter uses that up.
Leave(t) ==
  /\ pc[t] = "test" /\ ready
  /\ ready' = FALSE /\ woken' = {} /\ wasted' = FALSE
  /\ Return(t)

\* The wait has ended with a timeout or a signal, and the waiter gives up
\* without another look at the predicate.
GiveUp(t) ==
  /\ pc[t] = "test" /\ ret[t] \in {-1, 0}
  /\ woken' = woken \ {t}
  /\ wasted' = (wasted \/ woken = {t})
  /\ UNCHANGED ready
  /\ Return(t)

\* The predicate is false: a wait of kind k, with the time it had before if
\* it is a repetition.  A timed wait computes timeleft.
Call(t, k) ==
  /\ pc[t] = "test" /\ ~ready /\ ret[t] \notin {-1, 0}
  /\ k \in Interruptible => t \in Lwps
  /\ \E w \in IF k = "wait_stop" THEN {MaxWait}
              ELSE IF k \notin Timed THEN {0}
              ELSE IF ret[t] > 0 THEN {left[t]} ELSE 0 .. MaxWait :
       /\ left' = [left EXCEPT ![t] = w]
       /\ timeleft' = [timeleft EXCEPT ![t] = w]
       /\ IF k \in Timed /\ w = 0
          THEN /\ ret' = [ret EXCEPT ![t] = -1]
               /\ IF k = "timedwait" THEN UNCHANGED <<kind, pc>>
                  ELSE kind' = [kind EXCEPT ![t] = k] /\ Goto(t, "issig")
          ELSE /\ kind' = [kind EXCEPT ![t] = k] /\ Goto(t, IF k \in Timed THEN "arm" ELSE "block")
               /\ ret' = [ret EXCEPT ![t] = 1]
  /\ UNCHANGED <<mutex, queue, callout, due, sig>>

\* realtime_timeout(setrun, t, timeleft), which looks at lbolt again.
realtime_timeout(t) ==
  /\ pc[t] = "arm"
  /\ callout' = [callout EXCEPT ![t] = "pending"]
  /\ due' = [due EXCEPT ![t] = timeleft[t]]
  /\ timeleft' = [timeleft EXCEPT ![t] = 0]
  /\ Goto(t, "block")
  /\ UNCHANGED <<mutex, queue, left, sig, local>>

\* Mutant: the mutex is dropped first.
block_late(t) ==
  /\ pc[t] = "block"
  /\ owner' = IF owner = t THEN Null ELSE owner
  /\ \/ owner = t /\ UNCHANGED <<queue, pc>>
     \/ owner # t /\ cv_block(t, Cv) /\ Goto(t, "exit")
  /\ UNCHANGED <<predicate, times, sig, local>>

block(t) ==
  /\ pc[t] = "block"
  /\ cv_block(t, Cv)
  /\ Goto(t, "exit")
  /\ UNCHANGED <<mutex, times, sig, local>>

\* schedctl_block() may find that the thread must not block; by then it has
\* dropped the mutex, for sigwaiting_send(), and taken it again.
schedctl_block(t) ==
  /\ ScBlock /\ pc[t] = "block" /\ kind[t] \in Interruptible
  /\ owner' = Null
  /\ Goto(t, "enter")
  /\ UNCHANGED <<predicate, queue, times, sig, local>>

mutex_exit(t) ==
  /\ pc[t] = "exit"
  /\ owner' = IF owner = t THEN Null ELSE owner
  /\ Goto(t, IF kind[t] = "wait" THEN "swtch" ELSE "look")
  /\ UNCHANGED <<predicate, queue, times, sig, local>>

\* Mutant: the time is not looked at again.
look_not(t) ==
  /\ pc[t] = "look"
  /\ IF kind[t] \in Interruptible /\ t \in sig THEN setrun(t) ELSE UNCHANGED queue
  /\ Goto(t, "swtch")
  /\ UNCHANGED <<mutex, times, sig, local>>

\* On the queue, a waiter looks at what may have come before: the timeout,
\* whose setrun() found it running, or a signal.
look(t) ==
  /\ pc[t] = "look"
  /\ IF \/ kind[t] \in Timed /\ left[t] = 0
        \/ kind[t] \in Interruptible /\ t \in sig
     THEN setrun(t) ELSE UNCHANGED queue
  /\ Goto(t, "swtch")
  /\ UNCHANGED <<mutex, times, sig, local>>

\* Back from swtch().
swtch(t) ==
  /\ pc[t] = "swtch" /\ t \notin Asleep
  /\ Goto(t, IF kind[t] \in {"timedwait", "wait_stop"} THEN "untimeout" ELSE "enter")
  /\ UNCHANGED <<mutex, queue, times, sig, local>>

\* cv_timedwait_sig() and cv_wait_sig(), the mutex held again.
awake(t) ==
  /\ pc[t] = "awake"
  /\ Goto(t, IF kind[t] = "timedwait_sig" THEN "untimeout" ELSE "issig")
  /\ UNCHANGED <<mutex, queue, times, sig, local>>

-----------------------------------------------------------------------------
(* untimeout(), signals                                                    *)

AfterUntimeout(t) ==
  CASE kind[t] = "timedwait" -> "enter" [] kind[t] = "wait_stop" -> "stop" [] OTHER -> "issig"

\* What the timed waits make of the result of untimeout().
Result(t, n) == ret' = [ret EXCEPT ![t] = IF kind[t] = "wait_stop" THEN 1
                                          ELSE IF n <= 0 THEN -1 ELSE n]

untimeout_pending(t) ==
  /\ pc[t] = "untimeout" /\ callout[t] = "pending"
  /\ callout' = [callout EXCEPT ![t] = "idle"]
  /\ due' = [due EXCEPT ![t] = 0]
  /\ Result(t, due[t])
  /\ Goto(t, AfterUntimeout(t))
  /\ UNCHANGED <<mutex, queue, left, timeleft, sig, kind>>

\* Not found, or no longer executing.
untimeout_done(t) ==
  /\ pc[t] = "untimeout" /\ callout[t] = "idle"
  /\ Result(t, -1)
  /\ Goto(t, AfterUntimeout(t))
  /\ UNCHANGED <<mutex, queue, times, sig, kind>>

\* Mutant: a callout that is executing is left alone.
untimeout_wait_not(t) ==
  /\ pc[t] = "untimeout" /\ callout[t] \in {"running", "ran"}
  /\ Result(t, -1)
  /\ Goto(t, AfterUntimeout(t))
  /\ UNCHANGED <<mutex, queue, times, sig, kind>>

\* cv_wait(&cp->c_done, &ct->ct_lock) in a loop.
untimeout_wait(t) ==
  /\ pc[t] = "untimeout" /\ callout[t] \in {"running", "ran"}
  /\ cv_block(t, t)
  /\ Goto(t, "done_wait")
  /\ UNCHANGED <<mutex, times, sig, local>>

untimeout_woken(t) ==
  /\ pc[t] = "done_wait" /\ t \notin Asleep
  /\ Goto(t, "untimeout")
  /\ UNCHANGED <<mutex, queue, times, sig, local>>

\* ISSIG_PENDING: the mutex is dropped for issig(FORREAL), which may find
\* that there is nothing to be interrupted for.
issig(t) ==
  /\ pc[t] = "issig"
  /\ IF t \in sig THEN owner' = Null /\ Goto(t, "forreal") /\ UNCHANGED kind
     ELSE Goto(t, "test") /\ kind' = [kind EXCEPT ![t] = Null] /\ UNCHANGED owner
  /\ UNCHANGED <<predicate, queue, times, sig, ret>>

issig_forreal(t) ==
  /\ pc[t] = "forreal"
  /\ \/ ret' = [ret EXCEPT ![t] = 0]
     \/ UNCHANGED ret
  /\ sig' = sig \ {t}
  /\ Goto(t, "reenter")
  /\ UNCHANGED <<mutex, queue, times, kind>>

mutex_reenter(t) ==
  /\ pc[t] = "reenter" /\ owner = Null
  /\ owner' = t
  /\ kind' = [kind EXCEPT ![t] = Null]
  /\ Goto(t, "test")
  /\ UNCHANGED <<predicate, queue, times, sig, ret>>

\* cv_wait_stop(): the thread may stop for any time.
stop(t) ==
  /\ pc[t] = "stop"
  /\ Goto(t, "enter")
  /\ UNCHANGED <<mutex, queue, times, sig, local>>

Wakeable(t) == t \in On(Cv) /\ kind[t] \in Interruptible

\* A signal is posted: eat_signal().
eat_signal(t) ==
  /\ t \in Lwps \ sig /\ kind[t] # Null
  /\ sig' = sig \cup {t}
  /\ IF Wakeable(t) THEN setrun(t) ELSE UNCHANGED queue
  /\ UNCHANGED <<mutex, times, local, pc>>

-----------------------------------------------------------------------------
(* The callouts, and time                                                  *)

\* lbolt++.
Earlier(n) == IF n > 0 THEN n - 1 ELSE 0
tick ==
  /\ \E t \in Waiters : left[t] > 0 \/ due[t] > 0
  /\ left' = [t \in Waiters |-> Earlier(left[t])]
  /\ due' = [t \in Waiters |-> Earlier(due[t])]
  /\ UNCHANGED <<mutex, queue, callout, timeleft, sig, local, pc>>

callout_start(t) ==
  /\ callout[t] = "pending" /\ due[t] = 0
  /\ callout' = [callout EXCEPT ![t] = "running"]
  /\ UNCHANGED <<mutex, queue, due, left, timeleft, sig, local, pc>>

\* setrun(t) as a timeout function.
callout_setrun(t) ==
  /\ callout[t] = "running"
  /\ callout' = [callout EXCEPT ![t] = "ran"]
  /\ setrun(t)
  /\ UNCHANGED <<mutex, due, left, timeleft, sig, local, pc>>

\* The end of the callout: cv_broadcast(&cp->c_done), under ct_lock.
callout_end(t) ==
  /\ callout[t] = "ran"
  /\ callout' = [callout EXCEPT ![t] = "idle"]
  /\ IF cv_waiters[t] > 0 THEN Wake(On(t), t, 0) ELSE UNCHANGED queue
  /\ UNCHANGED <<mutex, due, left, timeleft, sig, local, pc>>

-----------------------------------------------------------------------------
(* The setters                                                             *)

\* The predicate becomes true; the signal comes before or after the exit.
Set(s) ==
  /\ pc[s] = "idle" /\ owner = Null /\ ~ready
  /\ ready' = TRUE /\ woken' = {} /\ wasted' = FALSE
  /\ \/ owner' = s /\ pc' = [pc EXCEPT ![s] = "signal"]
     \/ UNCHANGED owner /\ pc' = [pc EXCEPT ![s] = "signal"]
  /\ UNCHANGED <<queue, times, sig, local>>

\* cv_signal() and cv_broadcast() look at cv_waiters without the lock.
Look(s, l) ==
  /\ pc[s] = "signal"
  /\ Goto(s, IF cv_waiters[Cv] > 0 THEN l ELSE "drop")
  /\ UNCHANGED <<mutex, queue, times, sig, local>>

Signalled(T) == woken' = IF ready THEN woken \cup T ELSE woken

\* A saturated counter stays until nobody is found.
cv_signal(s) ==
  /\ pc[s] = "cv_signal"
  /\ LET n == cv_waiters[Cv] % CV_MAX_WAITERS IN
     IF On(Cv) # {}
     THEN /\ Wake({FirstOn(Cv)}, Cv, IF n > 0 THEN n - 1 ELSE cv_waiters[Cv])
          /\ Signalled({FirstOn(Cv)})
     ELSE Wake({}, Cv, IF n > 0 THEN n - 1 ELSE 0) /\ UNCHANGED woken
  /\ Goto(s, "drop")
  /\ UNCHANGED <<owner, ready, wasted, times, sig, local>>

cv_broadcast(s) ==
  /\ pc[s] = "cv_broadcast"
  /\ Wake(On(Cv), Cv, 0) /\ Signalled(On(Cv))
  /\ Goto(s, "drop")
  /\ UNCHANGED <<owner, ready, wasted, times, sig, local>>

Drop(s) ==
  /\ pc[s] = "drop"
  /\ owner' = IF owner = s THEN Null ELSE owner
  /\ Goto(s, "idle")
  /\ UNCHANGED <<predicate, queue, times, sig, local>>

-----------------------------------------------------------------------------
Wait(t) ==
  \/ \E k \in Kinds : Call(t, k)
  \/ Leave(t) \/ GiveUp(t) \/ realtime_timeout(t) \/ block(t) \/ schedctl_block(t) \/ mutex_exit(t)
  \/ look(t) \/ swtch(t) \/ awake(t) \/ untimeout_pending(t) \/ untimeout_done(t)
  \/ untimeout_wait(t) \/ untimeout_woken(t) \/ issig(t) \/ issig_forreal(t) \/ stop(t)

Callout(t) == callout_start(t) \/ callout_setrun(t) \/ callout_end(t)

Signal(s) ==
  \/ Look(s, "cv_signal") \/ Look(s, "cv_broadcast")
  \/ cv_signal(s) \/ cv_broadcast(s) \/ Drop(s)

Enter(t) == mutex_enter(t) \/ mutex_reenter(t)

Next ==
  \/ \E t \in Waiters :
       \/ Start(t) \/ Enter(t) \/ Wait(t) \/ Callout(t) \/ eat_signal(t)
       \/ \E p \in Prios : cv_change_pri(t, p)
  \/ \E s \in Setters : Set(s) \/ Signal(s)
  \/ tick

Spec == Init /\ [][Next]_vars

-----------------------------------------------------------------------------
(* Properties                                                              *)

WaiterLabels ==
  {"idle", "enter", "test", "arm", "block", "exit", "look", "swtch", "awake", "untimeout",
   "done_wait", "issig", "forreal", "reenter", "stop"}
SetterLabels == {"idle", "signal", "cv_signal", "cv_broadcast", "drop"}

TypeOK ==
  /\ owner \in Threads \cup {Null}
  /\ ready \in BOOLEAN /\ woken \subseteq Waiters /\ wasted \in BOOLEAN
  /\ cv_waiters \in [Cvs -> 0 .. CV_MAX_WAITERS]
  /\ sq \in Seq(Waiters) /\ pri \in [Waiters -> Prios]
  /\ wchan \in [Waiters -> Cvs \cup {Null}]
  /\ callout \in [Waiters -> {"idle", "pending", "running", "ran"}]
  /\ due \in [Waiters -> 0 .. MaxWait] /\ left \in [Waiters -> 0 .. MaxWait]
  /\ timeleft \in [Waiters -> 0 .. MaxWait]
  /\ sig \subseteq Lwps
  /\ kind \in [Waiters -> AllKinds \cup {Null}]
  /\ ret \in [Waiters -> -2 .. MaxWait]
  /\ pc \in [Threads -> WaiterLabels \cup SetterLabels]
  /\ \A t \in Waiters : pc[t] \in WaiterLabels
  /\ \A s \in Setters : pc[s] \in SetterLabels

\* cv_waiters counts the sleepers, unless it has reached its limit: so it is
\* never 0 while somebody sleeps, and cv_signal() may trust a 0.
WaitersExact ==
  \A c \in Cvs : cv_waiters[c] = Cardinality(On(c)) \/ cv_waiters[c] = CV_MAX_WAITERS

\* No timeout is left when a wait has returned: its setrun() never hits
\* another sleep of the thread than that wait, its mutex, or untimeout().
TimeoutEndsWithWait ==
  \A t \in Waiters :
    callout[t] # "idle" =>
      /\ kind[t] \in Timed
      /\ pc[t] \notin {"idle", "test", "arm", "issig", "forreal", "reenter", "stop"}

\* -1 means that the time is up, however the lookups of lbolt, the callout
\* and untimeout() interleave.
TimeoutTrue == \A t \in Waiters : ret[t] = -1 => left[t] = 0

\* An interruptible waiter does not go to sleep with a signal posted.
NoMissedSignal ==
  \A t \in On(Cv) \cap sig : kind[t] \in Interruptible => pc[t] \in {"exit", "look"}

\* cv_signal() finds the best priority first.
QueueSorted == Sorted(sq, pri)

\* The counters, the callouts and the order of the queue are right.
Inv ==
  /\ TypeOK /\ WaitersExact /\ TimeoutEndsWithWait /\ TimeoutTrue /\ NoMissedSignal
  /\ QueueSorted

Signalling == \E s \in Setters : pc[s] \in {"signal", "cv_signal", "cv_broadcast"}

\* While the predicate is true and a waiter sleeps, a setter is about to
\* signal, or a waiter it has signalled is on its way: cv_block() and
\* mutex_exit() let no wakeup slip through.  The one exception is a wakeup
\* that was spent on a waiter which then gave up for a signal or a timeout
\* that came at the same time: condvar.c does not pass it on to the next, as
\* sema_p_sig() does.
NoLostWakeup ==
  ready /\ On(Cv) # {} =>
    \/ Signalling
    \/ \E t \in woken : pc[t] # "idle" /\ t \notin On(Cv)
    \/ wasted

\* A waiter with a timeout that has done all its looks does not sleep on
\* unless the timeout is still to wake it.
TimeoutNotMissed ==
  \A t \in On(Cv) : kind[t] \in Timed /\ pc[t] = "swtch" => callout[t] \in {"pending", "running"}

-----------------------------------------------------------------------------
(* What comments say, and the code does not do (see README.md)             *)

\* cv_timedwait(): "Returns the amount of time left from the original 'tim'
\* value when it was unblocked".  It returns what untimeout() does, the time
\* left of the callout.
ReturnsTimeLeft ==
  [][\A t \in Waiters :
       kind[t] = "timedwait" /\ callout[t] = "pending" /\ t \in On(Cv) \ On(Cv)'
       => due[t] <= left[t]]_vars

\* cv_timedwait_sig(): "1 if awakened via cv_signal() or cv_broadcast()".
ReturnsOne ==
  \A t \in Waiters \ sig :
    kind[t] = "timedwait_sig" /\ pc[t] = "issig" => ret[t] \in {-1, 0, 1}
=============================================================================
