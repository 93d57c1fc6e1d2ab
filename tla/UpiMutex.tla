------------------------------ MODULE UpiMutex ------------------------------
(***************************************************************************)
(* User-level mutexes with priority inheritance of the Solaris kernel:     *)
(* uts/common/syscall/lwp_sobj.c, with the part of turnstile_block() that  *)
(* is for them (uts/common/os/turnstile.c).                                *)
(*                                                                         *)
(* The kernel hands a mutex over to a waiter; waits are interrupted by     *)
(* signals, end in a cycle, or find that the mutex has become useless;     *)
(* owners die.  A step is a section under upib_lock, up to the moment it   *)
(* is dropped in turnstile_block(), or one access to user memory.          *)
(***************************************************************************)
EXTENDS Integers, FiniteSets

CONSTANTS
  Lwps,
  t_pri,      \* the priority of a thread, without what it inherits
  Upimutexes,    \* numbered
  Signals,    \* threads that signals are posted to
  Faults,     \* threads that may find the user mutex unmapped
  Deaths,     \* threads that may exit while others go on
  Suser,      \* threads of the super-user
  Ordered,    \* whether threads lock in ascending order only
  maxnestupimx,
  None

ASSUME SetsAssumption ==
  /\ IsFiniteSet(Lwps) /\ Signals \cup Faults \cup Deaths \cup Suser \subseteq Lwps
  /\ Upimutexes \subseteq Nat /\ IsFiniteSet(Upimutexes) /\ None \notin Lwps \cup Upimutexes
  /\ t_pri \in [Lwps -> Nat] /\ maxnestupimx \in Nat /\ Ordered \in BOOLEAN

VARIABLES
  upi_owner,    \* of the upimutex of a user mutex; None: it does not exist
  upi_waiter,
  sleepq,       \* the threads on the turnstile of a mutex
  mutex_flag,   \* in user memory: a subset of Flags
  t_upimutex,   \* the list of mutexes a thread owns
  sig,          \* threads that have a signal
  exiting,      \* the process exits: MUSTRETURN of all its threads
  lwp_pc, mp,       \* where a thread is, and the mutex it is at
  wokeup,       \* whether it has woken itself in turnstile_block()
  uflag,        \* the flags that it has read, or calls upimutex_unlock() with
  has,          \* what a thread was told of the mutexes it holds: "ok" or "dead"
  unsafe,       \* history: mutexes whose owner has died where they were mapped,
                \* until somebody puts them right
  gaveup,       \* history: threads woken because their mutex is of no use any more
  stray         \* history: mutexes handed over to a thread that returned without a
                \* look, or could not find its mutex any more

kernel == <<upi_owner, upi_waiter, sleepq>>
user == <<mutex_flag, has, unsafe>>
upi_vars == <<kernel, user, gaveup, stray, t_upimutex, sig, exiting, lwp_pc, mp, wokeup, uflag>>

UpiInit ==
  /\ upi_owner = [m \in Upimutexes |-> None] /\ upi_waiter = [m \in Upimutexes |-> FALSE]
  /\ sleepq = [m \in Upimutexes |-> {}] /\ mutex_flag = [m \in Upimutexes |-> {}]
  /\ t_upimutex = [t \in Lwps |-> {}] /\ sig = {} /\ exiting = FALSE
  /\ lwp_pc = [t \in Lwps |-> "user"] /\ mp = [t \in Lwps |-> None]
  /\ wokeup = [t \in Lwps |-> FALSE] /\ uflag = [t \in Lwps |-> {}]
  /\ has = [t \in Lwps |-> [m \in Upimutexes |-> "no"]] /\ unsafe = {} /\ gaveup = {}
  /\ stray = {}

UpiGoto(t, l) == lwp_pc' = [lwp_pc EXCEPT ![t] = l]
Asleep(t) == \E m \in Upimutexes : t \in sleepq[m]
Flags == {"OWNERDEAD", "NOTRECOVERABLE"}
ISSIG(t) == t \in sig \/ exiting

\* The system call returns; the thread holds its mutex with what it was told.
UpiReturn(t) == UpiGoto(t, "user")
Told(t, m, what) == has' = [has EXCEPT ![t][m] = what]

\* lwp_upimutex_owned(): a thread that finds the mutex unmapped, when
\* get_lwpchan() fails, is told that it does not own it.
Owned(t) == upi_owner[mp[t]] = t
NotOwned(t) == ~Owned(t) \/ t \in Faults
Stray(t) == stray' = IF Owned(t) THEN stray \cup {mp[t]} ELSE stray

-----------------------------------------------------------------------------
(* turnstile_block() of a user-level mutex                                 *)

\* The owners of the mutexes that are in the way of t, which is to sleep for
\* m: that of m, that of the mutex that one sleeps for, and so on.
Next_owner(t) ==
  IF Asleep(t) THEN upi_owner[CHOOSE m \in Upimutexes : t \in sleepq[m]] ELSE None
InTheWay(m) ==
  LET reach[n \in 0 .. Cardinality(Lwps)] ==
        IF n = 0 THEN upi_owner[m]
        ELSE IF reach[n - 1] = None THEN None ELSE Next_owner(reach[n - 1])
  IN  {reach[n] : n \in DOMAIN reach} \ {None}
Cycle(t, m) == t \in InTheWay(m)

\* The chain is followed for as long as there is an inversion: the priority
\* that t has, or has inherited, is above that of everyone met.  Which
\* priority it has inherited is left open: at most the highest there is.
Inverted(pri, t, m) == \A o \in InTheWay(m) \ {t} : pri > t_pri[o]
MayNotice(t, m) == Cycle(t, m) /\ \E u \in Lwps : Inverted(t_pri[u], t, m)
MustNotice(t, m) == Cycle(t, m) /\ Inverted(t_pri[t], t, m)

\* setrun() of a thread, which may sleep or not: turnstile_unsleep().
setrun(t) == sleepq' = [m \in Upimutexes |-> sleepq[m] \ {t}]

-----------------------------------------------------------------------------
(* lwp_upimutex_lock()                                                     *)

MayLock(t, m) ==
  /\ lwp_pc[t] = "user" /\ ~exiting
  /\ Ordered => \A n \in Upimutexes : has[t][n] # "no" => n < m

\* retry: the mutex is taken, or the thread goes to sleep for it.  upib_lock
\* is dropped once it sleeps.
lock_mutex(t, m, from) ==
  /\ lwp_pc[t] = from /\ mp' = [mp EXCEPT ![t] = m]
  /\ wokeup' = [wokeup EXCEPT ![t] = FALSE] /\ gaveup' = gaveup \ {t}
  /\ \/ /\ upi_owner[m] = None
        /\ upi_owner' = [upi_owner EXCEPT ![m] = t]
        /\ upi_waiter' = [upi_waiter EXCEPT ![m] = FALSE]
        /\ t_upimutex' = [t_upimutex EXCEPT ![t] = @ \cup {m}]
        /\ UpiGoto(t, "took") /\ UNCHANGED sleepq
     \/ /\ upi_owner[m] = t                       \* EDEADLK
        /\ UpiReturn(t) /\ UNCHANGED <<kernel, t_upimutex>>
     \/ /\ upi_owner[m] \notin {t, None}
        /\ upi_waiter' = [upi_waiter EXCEPT ![m] = TRUE]
        /\ sleepq' = [sleepq EXCEPT ![m] = @ \cup {t}]
        /\ \/ MayNotice(t, m) /\ UpiGoto(t, "cycle")
           \/ ~MustNotice(t, m) /\ UpiGoto(t, "look")
        /\ UNCHANGED <<upi_owner, t_upimutex>>
  /\ UNCHANGED <<user, sig, exiting, stray, uflag>>

lwp_upimutex_lock(t, m) == MayLock(t, m) /\ lock_mutex(t, m, "user")
lwp_upimutex_retry(t) == lock_mutex(t, mp[t], "retry")

\* A cycle in the blocking chain: the thread wakes itself, EDEADLK.  Whether
\* the mutex was handed over to it before it did so is not looked at.
block_cycle(t) ==
  /\ lwp_pc[t] = "cycle"
  /\ setrun(t) /\ UpiReturn(t)
  /\ Stray(t)
  /\ UNCHANGED <<upi_owner, upi_waiter, user, t_upimutex, sig, exiting, gaveup, mp, wokeup, uflag>>

\* ISSIG(curthread, JUSTLOOKING) || MUSTRETURN.
block_look(t) ==
  /\ lwp_pc[t] = "look"
  /\ wokeup' = [wokeup EXCEPT ![t] = ISSIG(t)]
  /\ IF ISSIG(t) THEN setrun(t) ELSE UNCHANGED sleepq
  /\ UpiGoto(t, "swtch")
  /\ UNCHANGED <<upi_owner, upi_waiter, user, t_upimutex, sig, exiting, stray, gaveup, mp, uflag>>

Awake(t) == lwp_pc[t] = "swtch" /\ ~Asleep(t)

\* Mutant: the hand-over that came with the signal goes unnoticed.
block_intr_deaf(t) ==
  /\ Awake(t) /\ ISSIG(t) /\ sig' = sig \ {t}
  /\ UpiReturn(t) /\ UNCHANGED <<kernel, t_upimutex, uflag>>
  /\ UNCHANGED <<user, exiting, stray, gaveup, mp, wokeup>>

\* EINTR: a mutex that was handed over is unlocked again, if it is found.
block_intr(t) ==
  /\ Awake(t) /\ ISSIG(t) /\ sig' = sig \ {t}
  /\ \/ /\ Owned(t)
        /\ t_upimutex' = [t_upimutex EXCEPT ![t] = @ \cup {mp[t]}]
        /\ uflag' = [uflag EXCEPT ![t] = {}]
        /\ UpiGoto(t, "unlock") /\ UNCHANGED stray
     \/ NotOwned(t) /\ Stray(t) /\ UpiReturn(t) /\ UNCHANGED <<t_upimutex, uflag>>
  /\ UNCHANGED <<kernel, user, exiting, gaveup, mp, wokeup>>

\* No signal for real.  The mutex was handed over, or all were woken
\* (ENOTRECOVERABLE), or the thread has woken itself for nothing.
block_done(t) ==
  /\ Awake(t) /\ ~exiting /\ sig' = sig \ {t}
  /\ \/ /\ Owned(t)
        /\ t_upimutex' = [t_upimutex EXCEPT ![t] = @ \cup {mp[t]}]
        /\ UpiGoto(t, "handed") /\ UNCHANGED stray
     \/ /\ NotOwned(t) /\ Stray(t)
        /\ UpiGoto(t, IF wokeup[t] THEN "retry" ELSE "notrecoverable")
        /\ UNCHANGED t_upimutex
  /\ UNCHANGED <<kernel, user, exiting, gaveup, mp, wokeup, uflag>>

lock_notrecoverable(t) ==
  /\ lwp_pc[t] = "notrecoverable" /\ UpiReturn(t)
  /\ UNCHANGED <<kernel, user, t_upimutex, sig, exiting, stray, gaveup, mp, wokeup, uflag>>

Nested(t) == Cardinality(t_upimutex[t]) > maxnestupimx /\ t \notin Suser

\* Mutant: a mutex whose owner has died is taken like any other.
Takes_careless(t, flag) == Told(t, mp[t], "ok") /\ UpiReturn(t)

\* The call returns with the mutex: 0 or EOWNERDEAD.
Takes(t, flag) == Told(t, mp[t], IF "OWNERDEAD" \in flag THEN "dead" ELSE "ok") /\ UpiReturn(t)

\* The flag is read in user memory: ENOMEM; ENOTRECOVERABLE, which is not
\* looked for after a hand-over; OWNERDEAD, which is looked for first; success.
lock_flag(t) ==
  LET flag == mutex_flag[mp[t]]
      refuse == Nested(t) \/ (lwp_pc[t] = "took" /\ flag = {"NOTRECOVERABLE"})
  IN
  /\ lwp_pc[t] \in {"took", "handed"}
  /\ uflag' = [uflag EXCEPT ![t] = flag]
  /\ \/ refuse /\ UpiGoto(t, "unlock") /\ UNCHANGED has
     \/ ~refuse /\ Takes(t, flag)
  /\ UNCHANGED <<kernel, mutex_flag, unsafe, t_upimutex, sig, exiting, stray, gaveup, mp, wokeup>>

\* EFAULT: unlocked with no flag.
lock_fault(t) ==
  /\ lwp_pc[t] \in {"took", "handed"} /\ t \in Faults
  /\ uflag' = [uflag EXCEPT ![t] = {}]
  /\ UpiGoto(t, "unlock")
  /\ UNCHANGED <<kernel, user, t_upimutex, sig, exiting, stray, gaveup, mp, wokeup>>

-----------------------------------------------------------------------------
(* upimutex_unlock(), lwp_upimutex_unlock()                                *)

\* Mutant: the waiter bit goes with the first hand-over.
HandOver_last(m) ==
  \E n \in sleepq[m] :
    /\ upi_owner' = [upi_owner EXCEPT ![m] = n]
    /\ upi_waiter' = [upi_waiter EXCEPT ![m] = FALSE]
    /\ sleepq' = [sleepq EXCEPT ![m] = @ \ {n}]

\* To the best waiter (any, here); the waiter bit stays if there are more.
HandOver(m) ==
  \E n \in sleepq[m] :
    /\ upi_owner' = [upi_owner EXCEPT ![m] = n]
    /\ upi_waiter' = [upi_waiter EXCEPT ![m] = Cardinality(sleepq[m]) > 1]
    /\ sleepq' = [sleepq EXCEPT ![m] = @ \ {n}]

\* A waiter bit without waiters is misleading: they were interrupted.
upimutex_unlock(t) ==
  LET m == mp[t] IN
  /\ lwp_pc[t] \in {"unlock", "dying_unlock"}
  /\ t_upimutex' = [t_upimutex EXCEPT ![t] = @ \ {m}]
  /\ IF upi_waiter[m] /\ sleepq[m] # {} /\ "NOTRECOVERABLE" \notin uflag[t]
     THEN HandOver(m) /\ UNCHANGED gaveup
     ELSE /\ upi_owner' = [upi_owner EXCEPT ![m] = None]
          /\ upi_waiter' = [upi_waiter EXCEPT ![m] = FALSE]
          /\ sleepq' = IF upi_waiter[m] THEN [sleepq EXCEPT ![m] = {}] ELSE sleepq
          /\ gaveup' = IF "NOTRECOVERABLE" \in uflag[t] THEN gaveup \cup sleepq[m] ELSE gaveup
  /\ UpiGoto(t, IF lwp_pc[t] = "unlock" THEN "user" ELSE "dying")
  /\ UNCHANGED <<user, sig, exiting, stray, mp, wokeup, uflag>>

\* By the owner (others get EPERM).
lwp_upimutex_unlock(t, m) ==
  /\ lwp_pc[t] = "user" /\ has[t][m] # "no" /\ upi_owner[m] = t
  /\ mp' = [mp EXCEPT ![t] = m] /\ Told(t, m, "no")
  /\ UpiGoto(t, "unlocking")
  /\ UNCHANGED <<kernel, mutex_flag, unsafe, t_upimutex, sig, exiting, stray, gaveup, wokeup, uflag>>

\* A mutex whose owner has died and that was not put right is of no use any
\* more.
unlock_flag(t) ==
  LET flag == IF "OWNERDEAD" \in mutex_flag[mp[t]] THEN {"NOTRECOVERABLE"} ELSE mutex_flag[mp[t]] IN
  /\ lwp_pc[t] = "unlocking"
  /\ uflag' = [uflag EXCEPT ![t] = flag]
  /\ mutex_flag' = [mutex_flag EXCEPT ![mp[t]] = flag]
  /\ UpiGoto(t, "unlock")
  /\ UNCHANGED <<kernel, has, unsafe, t_upimutex, sig, exiting, stray, gaveup, mp, wokeup>>

unlock_fault(t) ==
  /\ lwp_pc[t] = "unlocking" /\ t \in Faults
  /\ uflag' = [uflag EXCEPT ![t] = {}]
  /\ UpiGoto(t, "unlock")
  /\ UNCHANGED <<kernel, user, t_upimutex, sig, exiting, stray, gaveup, mp, wokeup>>

-----------------------------------------------------------------------------
(* The end of a thread                                                     *)

\* lwp_exit(): upimutex_cleanup().
upimutex_cleanup(t) ==
  /\ lwp_pc[t] = "user" /\ (t \in Deaths \/ exiting)
  /\ UpiGoto(t, "dying")
  /\ UNCHANGED <<kernel, user, t_upimutex, sig, exiting, stray, gaveup, mp, wokeup, uflag>>

\* upi_dead() of one of its mutexes, in user memory.
upi_dead(t, m) ==
  /\ lwp_pc[t] = "dying" /\ m \in t_upimutex[t]
  /\ mp' = [mp EXCEPT ![t] = m]
  /\ Told(t, m, "no")
  /\ \/ /\ mutex_flag' = [mutex_flag EXCEPT ![m] = @ \cup {"OWNERDEAD"}]
        /\ uflag' = [uflag EXCEPT ![t] = {}] /\ unsafe' = unsafe \cup {m}
     \/ /\ t \in Faults
        /\ uflag' = [uflag EXCEPT ![t] = {"NOTRECOVERABLE"}] /\ UNCHANGED <<mutex_flag, unsafe>>
  /\ UpiGoto(t, "dying_unlock")
  /\ UNCHANGED <<kernel, t_upimutex, sig, exiting, stray, gaveup, wokeup>>

dead(t) ==
  /\ lwp_pc[t] = "dying" /\ t_upimutex[t] = {}
  /\ UpiGoto(t, "dead")
  /\ UNCHANGED <<kernel, user, t_upimutex, sig, exiting, stray, gaveup, mp, wokeup, uflag>>

-----------------------------------------------------------------------------
(* The environment                                                         *)

\* A signal wakes a thread that is asleep with T_WAKEABLE set.
eat_signal(t) ==
  /\ t \in Signals \ sig /\ lwp_pc[t] \notin {"user", "dying", "dead"}
  /\ sig' = sig \cup {t}
  /\ setrun(t)
  /\ UNCHANGED <<upi_owner, upi_waiter, user, t_upimutex, exiting, stray, gaveup, lwp_pc, mp, wokeup, uflag>>

\* exitlwps(), in a thread that has no upimutexes (any more): all the others of
\* the process are to exit, and pokelwps() wakes them.
exit ==
  /\ ~exiting /\ exiting' = TRUE
  /\ sleepq' = [m \in Upimutexes |-> {}]
  /\ UNCHANGED <<upi_owner, upi_waiter, user, t_upimutex, sig, stray, gaveup, lwp_pc, mp, wokeup, uflag>>

\* pthread_mutex_consistent_np(): the program has put right what the mutex
\* protects.
consistent(t, m) ==
  /\ lwp_pc[t] = "user" /\ has[t][m] = "dead"
  /\ Told(t, m, "ok") /\ unsafe' = unsafe \ {m}
  /\ mutex_flag' = [mutex_flag EXCEPT ![m] = @ \ {"OWNERDEAD"}]
  /\ UNCHANGED <<kernel, t_upimutex, sig, exiting, stray, gaveup, lwp_pc, mp, wokeup, uflag>>

-----------------------------------------------------------------------------
Kernel(t) ==
  \/ lwp_upimutex_retry(t) \/ block_cycle(t) \/ block_look(t) \/ block_intr(t) \/ block_done(t)
  \/ lock_notrecoverable(t) \/ lock_flag(t) \/ lock_fault(t) \/ upimutex_unlock(t) \/ unlock_flag(t) \/ unlock_fault(t)
  \/ dead(t) \/ \E m \in Upimutexes : upi_dead(t, m)

UpiNext ==
  \/ \E t \in Lwps :
       \/ Kernel(t) \/ upimutex_cleanup(t) \/ eat_signal(t)
       \/ \E m \in Upimutexes :
            lwp_upimutex_lock(t, m) \/ lwp_upimutex_unlock(t, m) \/ consistent(t, m)
  \/ exit
  \/ (\A t \in Lwps : lwp_pc[t] = "dead") /\ UNCHANGED upi_vars

UpiSpec == UpiInit /\ [][UpiNext]_upi_vars

-----------------------------------------------------------------------------
(* Properties                                                              *)

UpiTypeOK ==
  /\ upi_owner \in [Upimutexes -> Lwps \cup {None}] /\ upi_waiter \in [Upimutexes -> BOOLEAN]
  /\ sleepq \in [Upimutexes -> SUBSET Lwps]
  /\ mutex_flag \in [Upimutexes -> SUBSET Flags] /\ uflag \in [Lwps -> SUBSET Flags]
  /\ t_upimutex \in [Lwps -> SUBSET Upimutexes] /\ sig \subseteq Lwps
  /\ has \in [Lwps -> [Upimutexes -> {"no", "ok", "dead"}]]
  /\ lwp_pc \in [Lwps -> {"user", "retry", "look", "cycle", "swtch", "notrecoverable", "took", "handed",
                         "unlocking", "unlock", "dying", "dying_unlock", "dead"}]
  /\ mp \in [Lwps -> Upimutexes \cup {None}] /\ wokeup \in [Lwps -> BOOLEAN]
  /\ exiting \in BOOLEAN /\ unsafe \cup stray \subseteq Upimutexes /\ gaveup \subseteq Lwps

\* A thread is on one turnstile at most.
SleepsForOne == \A t \in Lwps : Cardinality({m \in Upimutexes : t \in sleepq[m]}) <= 1

\* Who sleeps for a mutex sleeps for one that has an owner and the waiter bit
\* set, so that the owner will wake it.
WaitersWillBeWoken ==
  \A m \in Upimutexes : sleepq[m] # {} => upi_owner[m] # None /\ upi_waiter[m]

\* The queues and flags of the kernel are right: no sleeper is forgotten.
UpiConsistent == UpiTypeOK /\ SleepsForOne /\ WaitersWillBeWoken

\* In user mode a thread has exactly the mutexes that the kernel has it as
\* the owner of, and they are on its list: it has the mutex exactly if the
\* call that waited for it said so, whatever signal or hand-over came
\* meanwhile and wherever the flag could not be read.  The exceptions are
\* hand-overs to a thread that was about to return EDEADLK, which does not
\* look, and to one that finds the mutex unmapped when it looks: that mutex
\* has an owner for ever that does not know of it, on nobody's list, and
\* nobody else gets it.
KernelAndUserAgree ==
  /\ \A t \in Lwps, m \in Upimutexes :
       /\ lwp_pc[t] = "user" /\ m \notin stray =>
            (has[t][m] # "no" <=> upi_owner[m] = t) /\ (upi_owner[m] = t <=> m \in t_upimutex[t])
       /\ lwp_pc[t] \in {"unlock", "dying_unlock"} => mp[t] \in t_upimutex[t]
       /\ lwp_pc[t] = "dead" /\ m \notin stray => upi_owner[m] # t
  /\ \A m \in stray :
       /\ upi_owner[m] # None
       /\ \A t \in Lwps : has[t][m] = "no" /\ m \notin t_upimutex[t]

\* A mutex whose owner died is never got as if nothing had happened, through
\* hand-overs, interrupted waits and faults of others.  Once it is of no use
\* any more this may fail, see NotRecoverableIsFinal.
OwnerDeathSeen ==
  \A t \in Lwps, m \in Upimutexes :
    has[t][m] = "ok" /\ "NOTRECOVERABLE" \notin mutex_flag[m] => m \notin unsafe

-----------------------------------------------------------------------------
(* What comments say, and the code does not do (see README.md)             *)

\* "If LOCK_NOTRECOVERABLE is set in flag, it would have exited out": nobody
\* gets a mutex that is of no use any more.
NotRecoverableIsFinal ==
  \A m \in Upimutexes, t \in Lwps : "NOTRECOVERABLE" \in mutex_flag[m] => has[t][m] = "no"

\* "If return code is 0, it must be due to one of the following scenarios":
\* a call that waited returns ENOTRECOVERABLE only if its mutex has become
\* useless.
NotRecoverableIsTrue == \A t \in Lwps : lwp_pc[t] = "notrecoverable" => t \in gaveup

\* "EDEADLK for cycles in the blocking chain": threads that wait for each
\* other in a cycle include one that has noticed.
CyclesReported ==
  \A m \in Upimutexes : \A t \in sleepq[m] : Cycle(t, m) => \E u \in InTheWay(m) : lwp_pc[u] = "cycle"
=============================================================================
