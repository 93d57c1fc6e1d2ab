---------------------------- MODULE AdaptiveMutex ----------------------------
(***************************************************************************)
(* Adaptive mutexes of the Solaris kernel: uts/common/os/mutex.c with      *)
(* mutex_enter(), mutex_tryenter() and mutex_exit() of                     *)
(* uts/sparc/v9/ml/lock_prim.s, the restart of mutex_exit() on return from *)
(* an interrupt (sun4u/ml/locore.s) and the store of CPU_THREAD in         *)
(* resume() (sun4u/ml/swtch.s).                                            *)
(*                                                                         *)
(* mutex_exit() loads the lock word and clears it by a plain store, so a   *)
(* waiters bit set between the two is wiped out.  Who blocks looks at      *)
(* cpu_thread of every CPU after setting the bit, and at the lock word     *)
(* after that.  A step is one access to shared memory: a load, a store or  *)
(* a casn of the lock word, a load of one CPU's cpu_thread, or taking the  *)
(* turnstile lock.  The steps are in the order (2M) and (3M) of the Big    *)
(* Theory Statement, which the membars of the code enforce.                *)
(***************************************************************************)
EXTENDS Integers, FiniteSets

CONSTANTS
  Threads,     \* the kernel threads that use the mutex
  NoThread,    \* NULL; in cpu_thread, a thread that does not use the mutex
  cpu_list     \* the processors

ASSUME ThreadsAssumption == NoThread \notin Threads
ASSUME CPUsAssumption == IsFiniteSet(cpu_list) /\ cpu_list # {}

VARIABLES
  lock,        \* the lock word: owner and waiters bit
  tc_lock,     \* holder of the turnstile hash chain lock, or NoThread
  cpu_thread,  \* the thread each CPU runs
  owner,       \* the local variable owner of mutex_vector_enter()
  unseen,      \* the CPUs its do loop has yet to look at
  t_pc         \* where each thread is in the code

mutex_vars == <<lock, tc_lock, cpu_thread, owner, unseen, t_pc>>

FREE == [owner |-> NoThread, waiters |-> FALSE]
HeldBy(t) == [owner |-> t, waiters |-> FALSE]

\* The threads asleep on the lock's turnstile.
Sleepers == {t \in Threads : t_pc[t] = "asleep"}

MutexInit ==
  /\ lock = FREE
  /\ tc_lock = NoThread
  /\ cpu_thread = [c \in cpu_list |-> NoThread]
  /\ owner = [t \in Threads |-> NoThread]
  /\ unseen = [t \in Threads |-> {}]
  /\ t_pc = [t \in Threads |-> "idle"]

Running(t) == \E c \in cpu_list : cpu_thread[c] = t

\* Thread t, on a CPU and at label l, goes on at label m.
Step(t, l, m) == /\ t_pc[t] = l
                 /\ Running(t)
                 /\ t_pc' = [t_pc EXCEPT ![t] = m]
                 /\ UNCHANGED cpu_thread

-----------------------------------------------------------------------------
(* mutex_enter(), mutex_tryenter() and mutex_vector_enter()                *)

\* A call of mutex_enter().
mutex_enter(t) ==
  /\ Step(t, "idle", "try")
  /\ UNCHANGED <<lock, tc_lock, owner, unseen>>

\* The casn of mutex_enter(), and of mutex_tryenter() in the spin loop.
mutex_enter_casn(t) ==
  /\ Step(t, "try", IF lock = FREE THEN "held" ELSE "spin")
  /\ lock' = IF lock = FREE THEN HeldBy(t) ELSE lock
  /\ UNCHANGED <<tc_lock, owner, unseen>>

\* A call of mutex_tryenter() that succeeds; one that fails changes nothing.
mutex_tryenter(t) ==
  /\ Step(t, "idle", "held")
  /\ lock = FREE
  /\ lock' = HeldBy(t)
  /\ UNCHANGED <<tc_lock, owner, unseen>>

\* spin: load the owner; without one, try the casn again, else look for it.
load_owner(t) ==
  /\ Step(t, "spin", IF lock.owner = NoThread THEN "try" ELSE "search")
  /\ owner' = [owner EXCEPT ![t] = lock.owner]
  /\ unseen' = [unseen EXCEPT ![t] = IF lock.owner = NoThread THEN {} ELSE cpu_list]
  /\ UNCHANGED <<lock, tc_lock>>

\* One round of a do loop over the CPUs.  The cached cpup it starts from may
\* be any CPU, so the order is left open.
SearchCPU(t, l, found, done) ==
  \E c \in unseen[t] :
    /\ unseen' = [unseen EXCEPT ![t] = IF cpu_thread[c] = owner[t] THEN {}
                                       ELSE @ \ {c}]
    /\ Step(t, l, IF cpu_thread[c] = owner[t] THEN found
                  ELSE IF unseen[t] = {c} THEN done ELSE l)
    /\ UNCHANGED <<lock, owner>>

\* The first search: spin while the owner is running.
search_owner(t) ==
  /\ SearchCPU(t, "search", "spin", "enter_lookup")
  /\ UNCHANGED tc_lock

\* turnstile_lookup(), on the way in and on the way out.
turnstile_lookup(t) ==
  /\ \/ Step(t, "enter_lookup", "set_waiters")
     \/ Step(t, "exit_lookup", "exit_clear_all")
  /\ tc_lock = NoThread
  /\ tc_lock' = t
  /\ UNCHANGED <<lock, owner, unseen>>

\* Mutant: the CPUs are not searched again once the bit is set.
MUTEX_SET_WAITERS_once(t) ==
  /\ Step(t, "set_waiters", "check_owner")
  /\ lock' = IF lock = FREE THEN lock ELSE [lock EXCEPT !.waiters = TRUE]
  /\ UNCHANGED <<tc_lock, owner, unseen>>

MUTEX_SET_WAITERS(t) ==
  /\ Step(t, "set_waiters", "recheck")
  /\ lock' = IF lock = FREE THEN lock ELSE [lock EXCEPT !.waiters = TRUE]
  /\ unseen' = [unseen EXCEPT ![t] = cpu_list]
  /\ UNCHANGED <<tc_lock, owner>>

\* The second search, with the waiters bit set: spin if the owner is running.
recheck_owner(t) ==
  /\ SearchCPU(t, "recheck", "spin", "check_owner")
  /\ tc_lock' = IF t_pc'[t] = "spin" THEN NoThread ELSE tc_lock

\* Block only if the owner is unchanged ...
check_owner(t) ==
  /\ Step(t, "check_owner", IF lock.owner = owner[t] THEN "check_waiters" ELSE "spin")
  /\ tc_lock' = IF t_pc'[t] = "spin" THEN NoThread ELSE tc_lock
  /\ UNCHANGED <<lock, owner, unseen>>

\* ... and so is the waiters bit.
check_waiters(t) ==
  /\ Step(t, "check_waiters", IF lock.waiters THEN "block" ELSE "spin")
  /\ tc_lock' = IF t_pc'[t] = "spin" THEN NoThread ELSE tc_lock
  /\ UNCHANGED <<lock, owner, unseen>>

\* turnstile_block(): sleep, drop the turnstile lock and give up the CPU.
turnstile_block(t) ==
  /\ t_pc[t] = "block" /\ Running(t)
  /\ t_pc' = [t_pc EXCEPT ![t] = "asleep"]
  /\ tc_lock' = NoThread
  /\ cpu_thread' = [c \in cpu_list |-> IF cpu_thread[c] = t THEN NoThread
                                       ELSE cpu_thread[c]]
  /\ UNCHANGED <<lock, owner, unseen>>

-----------------------------------------------------------------------------
(* mutex_exit() and mutex_vector_exit()                                    *)

\* A call of mutex_exit().
mutex_exit(t) ==
  /\ Step(t, "held", "exit_load")
  /\ UNCHANGED <<lock, tc_lock, owner, unseen>>

\* The ldn and cmp at the start of the critical region.
mutex_exit_load(t) ==
  /\ Step(t, "exit_load", IF lock = HeldBy(t) THEN "exit_clear" ELSE "exit_lookup")
  /\ UNCHANGED <<lock, tc_lock, owner, unseen>>

\* The stn that ends it: no look at what the word holds by now.
mutex_exit_clear(t) ==
  /\ Step(t, "exit_clear", "idle")
  /\ lock' = FREE
  /\ UNCHANGED <<tc_lock, owner, unseen>>

\* MUTEX_CLEAR_LOCK_AND_WAITERS() under the turnstile lock.
mutex_vector_exit(t) ==
  /\ Step(t, "exit_clear_all", "exit_wakeup")
  /\ lock' = FREE
  /\ UNCHANGED <<tc_lock, owner, unseen>>

\* Mutant: option (2), wake one waiter.
turnstile_wakeup_one(t) ==
  /\ t_pc[t] = "exit_wakeup" /\ Running(t)
  /\ tc_lock' = NoThread
  /\ \E S \in SUBSET Sleepers :
       /\ Cardinality(S) = IF Sleepers = {} THEN 0 ELSE 1
       /\ t_pc' = [u \in Threads |-> IF u \in S THEN "spin"
                                     ELSE IF u = t THEN "idle" ELSE t_pc[u]]
  /\ UNCHANGED <<lock, cpu_thread, owner, unseen>>

\* turnstile_wakeup() of all ts_waiters, or turnstile_exit() without a
\* turnstile; whoever is woken starts over in the spin loop.
turnstile_wakeup(t) ==
  /\ t_pc[t] = "exit_wakeup" /\ Running(t)
  /\ tc_lock' = NoThread
  /\ t_pc' = [u \in Threads |-> IF u \in Sleepers THEN "spin"
                                ELSE IF u = t THEN "idle" ELSE t_pc[u]]
  /\ UNCHANGED <<lock, cpu_thread, owner, unseen>>

-----------------------------------------------------------------------------
(***************************************************************************)
(* The dispatcher and interrupts.  A CPU may be taken from its thread at   *)
(* any time unless the thread holds the turnstile lock, which is held at   *)
(* LOCK_LEVEL: for another thread, for an interrupt thread, or because the *)
(* owner of the mutex blocks on something else.                            *)
(***************************************************************************)

\* Mutant: no restart of an interrupted mutex_exit().
swtch_resumes(c) ==
  /\ cpu_thread[c] \in Threads \ {tc_lock}
  /\ cpu_thread' = [cpu_thread EXCEPT ![c] = NoThread]
  /\ UNCHANGED <<lock, tc_lock, owner, unseen, t_pc>>

\* The PC of a thread interrupted in the critical region of mutex_exit() is
\* reset before it runs again.
swtch(c) ==
  LET t == cpu_thread[c]
  IN  /\ t \in Threads \ {tc_lock}
      /\ t_pc' = [t_pc EXCEPT ![t] = IF @ = "exit_clear" THEN "exit_load" ELSE @]
      /\ cpu_thread' = [cpu_thread EXCEPT ![c] = NoThread]
      /\ UNCHANGED <<lock, tc_lock, owner, unseen>>

resume(t, c) ==
  /\ t_pc[t] # "asleep" /\ ~Running(t)
  /\ cpu_thread[c] = NoThread
  /\ cpu_thread' = [cpu_thread EXCEPT ![c] = t]
  /\ UNCHANGED <<lock, tc_lock, owner, unseen, t_pc>>

\* What the mutex code does for thread t once t has called it.
Progress(t) ==
  \/ mutex_enter_casn(t) \/ load_owner(t) \/ search_owner(t)
  \/ turnstile_lookup(t) \/ MUTEX_SET_WAITERS(t) \/ recheck_owner(t)
  \/ check_owner(t) \/ check_waiters(t) \/ turnstile_block(t)
  \/ mutex_exit_load(t) \/ mutex_vector_exit(t) \/ turnstile_wakeup(t)

MutexNext ==
  \/ \E t \in Threads :
       \/ mutex_enter(t) \/ mutex_tryenter(t) \/ mutex_exit(t)
       \/ Progress(t) \/ mutex_exit_clear(t)
       \/ \E c \in cpu_list : resume(t, c)
  \/ \E c \in cpu_list : swtch(c)

MutexSpec == MutexInit /\ [][MutexNext]_mutex_vars

(***************************************************************************)
(* An idle CPU is given to who is runnable, a thread that runs again and   *)
(* again gets on, out of the critical region of mutex_exit() too, and an   *)
(* owner sooner or later calls mutex_exit().                               *)
(***************************************************************************)
MutexFairSpec ==
  /\ MutexSpec
  /\ \A t \in Threads :
       /\ WF_mutex_vars(\E c \in cpu_list : resume(t, c))
       /\ SF_mutex_vars(Progress(t) \/ mutex_exit(t))
       /\ SF_mutex_vars(mutex_exit_clear(t))

-----------------------------------------------------------------------------
(* Properties                                                              *)

\* The labels at which a thread holds the turnstile lock.
Chained == {"set_waiters", "recheck", "check_owner", "check_waiters", "block",
            "exit_clear_all", "exit_wakeup"}

\* The labels at which a thread is inside the mutex.
Inside == {"held", "exit_load", "exit_clear", "exit_lookup", "exit_clear_all"}

Labels == Chained \cup Inside \cup
          {"idle", "try", "spin", "search", "enter_lookup", "asleep"}

\* Type correctness of the lock word, the CPUs and the per-thread state.
MutexTypeOK ==
  /\ lock \in [owner : Threads \cup {NoThread}, waiters : BOOLEAN]
  /\ tc_lock \in Threads \cup {NoThread}
  /\ cpu_thread \in [cpu_list -> Threads \cup {NoThread}]
  /\ owner \in [Threads -> Threads \cup {NoThread}]
  /\ unseen \in [Threads -> SUBSET cpu_list]
  /\ t_pc \in [Threads -> Labels]

\* One thread at a time is inside the mutex, the one the lock word names,
\* although mutex_exit() clears the word without an atomic instruction.
MutualExclusion ==
  \A t \in Threads : t_pc[t] \in Inside <=> lock.owner = t

\* What mutex_vector_exit() relies on by never keeping the waiters bit: an
\* unowned mutex is the word 0, the one value mutex_enter() can take.
UnownedIsFree == lock.owner = NoThread => lock = FREE

\* The check of turnstile_block(), "unowned mutex": the thread that goes to
\* sleep finds the mutex still held by the owner it saw not running.
BlocksOnOwned ==
  \A t \in Threads : t_pc[t] = "block" => lock.owner = owner[t] /\ owner[t] # NoThread

\* No missed wakeup, in any global order of (2M) and (3M): while a thread
\* sleeps, the owner has yet to make the check that will find the waiters
\* bit set, or a wakeup of all sleepers is under way.
NoMissedWakeup ==
  Sleepers # {} =>
    \/ lock.waiters /\ lock.owner # NoThread /\ t_pc[lock.owner] # "exit_clear"
    \/ \E t \in Threads : t_pc[t] = "exit_wakeup"

\* Nobody sleeps for ever: the owner the sleeper waits for runs again, leaves
\* through mutex_vector_exit() and wakes it.
SleeperWoken == \A t \in Threads : t_pc[t] = "asleep" ~> t_pc[t] # "asleep"

-----------------------------------------------------------------------------
(* The inductive invariant behind the safety properties.                   *)

\* A thread runs on one CPU at most, a sleeper on none, and a thread inside
\* the critical region of mutex_exit() has not been off its CPU since it
\* loaded the lock word.
CPUInv ==
  /\ \A c, d \in cpu_list : cpu_thread[c] = cpu_thread[d] /\ cpu_thread[c] # NoThread => c = d
  /\ \A t \in Threads : /\ t_pc[t] = "asleep" => ~Running(t)
                        /\ t_pc[t] = "exit_clear" => Running(t)

\* The turnstile lock is held by the thread between taking and dropping it.
ChainInv == \A t \in Threads : tc_lock = t <=> t_pc[t] \in Chained

\* A thread that has gone past "spin" looks for a real owner.
SearchInv ==
  \A t \in Threads :
    t_pc[t] \in {"search", "enter_lookup"} \cup (Chained \ {"exit_clear_all", "exit_wakeup"})
      => owner[t] # NoThread

\* The owner seen not running is about to wipe out the waiters bit: only as
\* long as its CPU is among those the second search has yet to look at.
WipeInv ==
  \A t \in Threads :
    lock.waiters /\ lock.owner = owner[t] /\ t_pc[lock.owner] = "exit_clear" =>
      /\ t_pc[t] = "recheck" => \A c \in cpu_list : cpu_thread[c] = owner[t] => c \in unseen[t]
      /\ t_pc[t] \notin {"check_owner", "check_waiters", "block"}

\* A waiters bit still set is the one that was set before the searches, on
\* the mutex of the same owner.
RecheckInv ==
  \A t \in Threads :
    /\ t_pc[t] = "check_waiters" /\ lock.waiters => lock.owner = owner[t]
    /\ t_pc[t] = "block" => lock.waiters /\ lock.owner = owner[t]

\* The inductive invariant of mutex.c: whoever may wipe out the waiters bit
\* runs on a CPU that the blocking thread has yet to look at.
IInv ==
  /\ MutexTypeOK /\ MutualExclusion /\ UnownedIsFree /\ CPUInv /\ ChainInv
  /\ SearchInv /\ WipeInv /\ RecheckInv /\ NoMissedWakeup
=============================================================================
