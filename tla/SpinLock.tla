------------------------------ MODULE SpinLock ------------------------------
(***************************************************************************)
(* Spin mutexes and thread locks of the Solaris kernel, with the interrupt *)
(* level that goes with them: uts/common/os/mutex.c,                       *)
(* uts/common/disp/disp_lock.c and uts/sparc/v9/ml/lock_prim.s.            *)
(*                                                                         *)
(* A context is what runs on a CPU at a level: at level 0 a thread, above  *)
(* it the handler of an interrupt, which runs until it returns or is       *)
(* interrupted itself.  A step is one access to the lock, to what is saved *)
(* with it, or to the register %pil.                                       *)
(***************************************************************************)
EXTENDS Integers, FiniteSets, FiniteSetsExt

CONSTANTS
  CPUs,
  Intr,       \* the levels of the interrupts of a CPU
  LOCK_LEVEL,
  Mutexes,    \* spin mutexes, in the order in which they are entered
  m_minspl,   \* the level of a mutex, at least LOCK_LEVEL
  DispLocks,  \* locks that a thread can be protected by
  Null

ASSUME LevelsAssumption ==
  /\ LOCK_LEVEL \in Nat \ {0}
  /\ \A c \in CPUs : Intr[c] \subseteq Nat \ {0} /\ IsFiniteSet(Intr[c])
  /\ Mutexes \subseteq Nat /\ IsFiniteSet(Mutexes)
  /\ m_minspl \in [Mutexes -> Nat] /\ \A m \in Mutexes : m_minspl[m] >= LOCK_LEVEL

ASSUME LocksAssumption ==
  Mutexes \cap DispLocks = {} /\ Null \notin Mutexes \cup DispLocks \cup (CPUs \X Nat)

transition_lock == Null    \* it is always held
Contexts == {<<c, l>> : c \in CPUs, l \in {0} \cup UNION {Intr[c] : c \in CPUs}}

VARIABLES
  held,       \* the context that has set a lock; Null: it is clear
  m_oldspl,   \* saved in a mutex
  t_lockp,    \* the lock that protects the thread all are after
  t_oldspl,   \* saved in the thread that runs
  pil,        \* of a CPU
  active,     \* the levels at which something runs on a CPU, or is interrupted
  ipil,       \* the level that an interrupt came at
  pc, lp,     \* where a context is, and at which lock
  old,        \* old_pil, s
  trying      \* whether it called mutex_tryenter()

locks == <<held, m_oldspl, t_lockp, t_oldspl>>
cpus == <<pil, active, ipil>>
vars == <<locks, cpus, pc, lp, old, trying>>

Init ==
  /\ held = [m \in Mutexes \cup DispLocks |-> Null]
  /\ m_oldspl = [m \in Mutexes |-> 0] /\ t_oldspl = [x \in Contexts |-> 0]
  /\ t_lockp \in IF DispLocks = {} THEN {transition_lock} ELSE DispLocks
  /\ pil = [c \in CPUs |-> 0] /\ active = [c \in CPUs |-> {0}]
  /\ ipil = [x \in Contexts |-> 0]
  /\ pc = [x \in Contexts |-> "idle"] /\ lp = [x \in Contexts |-> Null]
  /\ old = [x \in Contexts |-> 0] /\ trying = [x \in Contexts |-> FALSE]

At(x, l) == pc[x] = l /\ x[2] \in active[x[1]] /\ \A l2 \in active[x[1]] : l2 <= x[2]
Goto(x, l) == pc' = [pc EXCEPT ![x] = l]

\* What a function has in registers is gone when it returns.
Return(x) ==
  /\ Goto(x, "idle")
  /\ lp' = [lp EXCEPT ![x] = Null] /\ old' = [old EXCEPT ![x] = 0]
  /\ trying' = [trying EXCEPT ![x] = FALSE]

Holds(x) == {m \in Mutexes : held[m] = x}
LOCK_HELD(l) == l = transition_lock \/ held[l] # Null

-----------------------------------------------------------------------------
(* The interrupt level                                                     *)

splx(x, level) == pil' = [pil EXCEPT ![x[1]] = level]

\* Only up; the level that was is what the caller saves.
splr(x, level) ==
  /\ old' = [old EXCEPT ![x] = pil[x[1]]]
  /\ splx(x, IF pil[x[1]] < level THEN level ELSE pil[x[1]])

\* An interrupt above the level of the CPU comes at any time and is served at
\* its level (the requests that pil_interrupt() takes off its lists, and the
\* level above at which it does so, are left out); the trap returns to the level
\* that it came at, and handlers return without locks.
interrupt(c, l) ==
  /\ l \in Intr[c] /\ l > pil[c]
  /\ active' = [active EXCEPT ![c] = @ \cup {l}]
  /\ ipil' = [ipil EXCEPT ![<<c, l>>] = pil[c]]
  /\ pil' = [pil EXCEPT ![c] = l]
  /\ UNCHANGED <<locks, pc, lp, old, trying>>

common_rtt(x) ==
  /\ At(x, "idle") /\ x[2] # 0 /\ Holds(x) = {}
  /\ active' = [active EXCEPT ![x[1]] = @ \ {x[2]}]
  /\ splx(x, ipil[x]) /\ ipil' = [ipil EXCEPT ![x] = 0]
  /\ UNCHANGED <<locks, pc, lp, old, trying>>

-----------------------------------------------------------------------------
(* Spin mutexes: mutex_vector_enter(), mutex_vector_tryenter(),            *)
(* lock_set_spl(), lock_set_spl_spin()                                     *)

\* Mutant: the lock is tried before the level is raised.
lock_set_spl_late(x, m, try) ==
  /\ At(x, "idle") /\ x[2] <= m_minspl[m] /\ \A n \in Holds(x) : n < m
  /\ lp' = [lp EXCEPT ![x] = m] /\ trying' = [trying EXCEPT ![x] = try]
  /\ old' = [old EXCEPT ![x] = pil[x[1]]] /\ Goto(x, "try")
  /\ UNCHANGED <<locks, cpus>>

\* In order, and not from above the level of the mutex.
lock_set_spl(x, m, try) ==
  /\ At(x, "idle") /\ x[2] <= m_minspl[m] /\ \A n \in Holds(x) : n < m
  /\ lp' = [lp EXCEPT ![x] = m] /\ trying' = [trying EXCEPT ![x] = try]
  /\ splr(x, m_minspl[m]) /\ Goto(x, "try")
  /\ UNCHANGED <<locks, active, ipil>>

lock_try(x) ==
  /\ At(x, "try")
  /\ \/ held[lp[x]] = Null /\ held' = [held EXCEPT ![lp[x]] = x] /\ Goto(x, "save")
     \/ held[lp[x]] # Null /\ Goto(x, "lower") /\ UNCHANGED held
  /\ UNCHANGED <<m_oldspl, t_lockp, t_oldspl, cpus, lp, old, trying>>

save_oldspl(x) ==
  /\ At(x, "save")
  /\ m_oldspl' = [m_oldspl EXCEPT ![lp[x]] = old[x]]
  /\ Return(x)
  /\ UNCHANGED <<held, t_lockp, t_oldspl, cpus>>

\* The level of before: mutex_tryenter() returns, mutex_enter() spins.
lower_spl(x) ==
  /\ At(x, "lower")
  /\ splx(x, old[x])
  /\ IF trying[x] THEN Return(x) ELSE Goto(x, "spin") /\ UNCHANGED <<lp, old, trying>>
  /\ UNCHANGED <<locks, active, ipil>>

lock_set_spl_spin(x) ==
  /\ At(x, "spin") /\ ~LOCK_HELD(lp[x]) /\ Goto(x, "raise")
  /\ UNCHANGED <<locks, cpus, lp, old, trying>>

raise_spl(x) ==
  /\ At(x, "raise") /\ splr(x, m_minspl[lp[x]]) /\ Goto(x, "try")
  /\ UNCHANGED <<locks, active, ipil, lp, trying>>

\* mutex_vector_exit(): the saved level is read, the lock cleared, the level
\* set.  Mutexes are left in the reverse order.
mutex_vector_exit_spin(x, m) ==
  /\ At(x, "idle") /\ m \in Holds(x) /\ \A n \in Holds(x) : n <= m
  /\ lp' = [lp EXCEPT ![x] = m] /\ old' = [old EXCEPT ![x] = m_oldspl[m]]
  /\ Goto(x, "clear")
  /\ UNCHANGED <<locks, cpus, trying>>

\* Mutant: the saved level is read after the lock was cleared.
exit_splx_reread(x) ==
  /\ At(x, "splx")
  /\ splx(x, IF lp[x] \in Mutexes THEN m_oldspl[lp[x]] ELSE old[x])
  /\ Return(x)
  /\ UNCHANGED <<locks, active, ipil>>

lock_clear(x) ==
  /\ At(x, "clear") /\ held' = [held EXCEPT ![lp[x]] = Null] /\ Goto(x, "splx")
  /\ UNCHANGED <<m_oldspl, t_lockp, t_oldspl, cpus, lp, old, trying>>

exit_splx(x) ==
  /\ At(x, "splx") /\ splx(x, old[x]) /\ Return(x)
  /\ UNCHANGED <<locks, active, ipil>>

-----------------------------------------------------------------------------
(* thread_lock(), for a thread that moves between queues                   *)

\* By contexts that are not above LOCK_LEVEL, and hold no mutex of a level above.
thread_lock(x) ==
  /\ At(x, "idle") /\ DispLocks # {} /\ pil[x[1]] <= LOCK_LEVEL
  /\ splr(x, LOCK_LEVEL) /\ Goto(x, "tl_read")
  /\ UNCHANGED <<locks, active, ipil, lp, trying>>

tl_read(x) ==
  /\ At(x, "tl_read") /\ lp' = [lp EXCEPT ![x] = t_lockp] /\ Goto(x, "tl_try")
  /\ UNCHANGED <<locks, cpus, old, trying>>

tl_try(x) ==
  /\ At(x, "tl_try")
  /\ IF LOCK_HELD(lp[x])
     THEN Goto(x, "tl_lower") /\ UNCHANGED held
     ELSE held' = [held EXCEPT ![lp[x]] = x] /\ Goto(x, "tl_check")
  /\ UNCHANGED <<m_oldspl, t_lockp, t_oldspl, cpus, lp, old, trying>>

\* Mutant: the lock that was the thread's is taken for the one that is.
tl_check_not(x) ==
  /\ At(x, "tl_check")
  /\ t_oldspl' = [t_oldspl EXCEPT ![x] = old[x]] /\ Goto(x, "has_thread")
  /\ UNCHANGED <<held, m_oldspl, t_lockp, cpus, lp, old, trying>>

\* lp == *tlpp, or all over again.
tl_check(x) ==
  /\ At(x, "tl_check")
  /\ \/ /\ lp[x] = t_lockp /\ t_oldspl' = [t_oldspl EXCEPT ![x] = old[x]]
        /\ Goto(x, "has_thread") /\ UNCHANGED held
     \/ /\ lp[x] # t_lockp /\ held' = [held EXCEPT ![lp[x]] = Null]
        /\ Goto(x, "tl_read") /\ UNCHANGED t_oldspl
  /\ UNCHANGED <<m_oldspl, t_lockp, cpus, lp, old, trying>>

tl_lower(x) ==
  /\ At(x, "tl_lower") /\ splx(x, old[x]) /\ Goto(x, "tl_spin")
  /\ UNCHANGED <<locks, active, ipil, lp, old, trying>>

tl_spin(x) ==
  /\ At(x, "tl_spin") /\ (lp[x] # t_lockp \/ ~LOCK_HELD(lp[x]))
  /\ splr(x, LOCK_LEVEL) /\ Goto(x, "tl_read")
  /\ UNCHANGED <<locks, active, ipil, lp, trying>>

\* The thread goes to another queue: THREAD_TRANSITION, in two stores, and
\* then, with the lock of the other queue held, its state is set.
thread_transition(x) ==
  /\ At(x, "has_thread") /\ lp' = [lp EXCEPT ![x] = t_lockp]
  /\ t_lockp' = transition_lock /\ Goto(x, "transition")
  /\ UNCHANGED <<held, m_oldspl, t_oldspl, cpus, old, trying>>

transition_clear(x) ==
  /\ At(x, "transition") /\ held' = [held EXCEPT ![lp[x]] = Null] /\ Goto(x, "moving")
  /\ UNCHANGED <<m_oldspl, t_lockp, t_oldspl, cpus, lp, old, trying>>

disp_lock_enter_high(x, l) ==
  /\ At(x, "moving") /\ held[l] = Null
  /\ held' = [held EXCEPT ![l] = x] /\ lp' = [lp EXCEPT ![x] = l] /\ Goto(x, "set_state")
  /\ UNCHANGED <<m_oldspl, t_lockp, t_oldspl, cpus, old, trying>>

THREAD_SET_STATE(x) ==
  /\ At(x, "set_state") /\ t_lockp' = lp[x] /\ Goto(x, "has_thread")
  /\ UNCHANGED <<held, m_oldspl, t_oldspl, cpus, lp, old, trying>>

\* disp_lock_exit(): the level that was saved in the thread that runs.
thread_unlock(x) ==
  /\ At(x, "has_thread") /\ lp' = [lp EXCEPT ![x] = t_lockp]
  /\ old' = [old EXCEPT ![x] = t_oldspl[x]] /\ Goto(x, "clear")
  /\ UNCHANGED <<locks, cpus, trying>>

-----------------------------------------------------------------------------
SpinMutex(x) ==
  \/ \E m \in Mutexes : mutex_vector_exit_spin(x, m) \/ \E try \in BOOLEAN : lock_set_spl(x, m, try)
  \/ lock_try(x) \/ save_oldspl(x) \/ lower_spl(x) \/ lock_set_spl_spin(x) \/ raise_spl(x)
  \/ lock_clear(x) \/ exit_splx(x)

ThreadLock(x) ==
  \/ thread_lock(x) \/ tl_read(x) \/ tl_try(x) \/ tl_check(x) \/ tl_lower(x) \/ tl_spin(x)
  \/ thread_transition(x) \/ transition_clear(x) \/ THREAD_SET_STATE(x) \/ thread_unlock(x)
  \/ \E l \in DispLocks : disp_lock_enter_high(x, l)

Next ==
  \/ \E c \in CPUs : \E l \in Intr[c] : interrupt(c, l)
  \/ \E x \in Contexts : SpinMutex(x) \/ ThreadLock(x) \/ common_rtt(x)

Spec == Init /\ [][Next]_vars

-----------------------------------------------------------------------------
(* Properties                                                              *)

TypeOK ==
  /\ held \in [Mutexes \cup DispLocks -> Contexts \cup {Null}]
  /\ t_lockp \in DispLocks \cup {transition_lock}
  /\ pil \in [CPUs -> Nat] /\ active \in [CPUs -> SUBSET Nat]
  /\ m_oldspl \in [Mutexes -> Nat]
  /\ t_oldspl \in [Contexts -> Nat] /\ ipil \in [Contexts -> Nat] /\ old \in [Contexts -> Nat]
  /\ pc \in [Contexts -> {"idle", "try", "save", "lower", "spin", "raise", "clear", "splx",
                          "tl_read", "tl_try", "tl_check", "tl_lower", "tl_spin",
                          "has_thread", "transition", "moving", "set_state"}]
  /\ lp \in [Contexts -> Mutexes \cup DispLocks \cup {Null}] /\ trying \in [Contexts -> BOOLEAN]
  /\ \A c \in CPUs : active[c] \subseteq {0} \cup Intr[c] /\ \A l \in active[c] : l <= pil[c]

\* The level that a context runs at for itself and for the mutexes it holds.
Level(x) == Max({x[2]} \cup {m_minspl[m] : m \in Holds(x)})

\* The level of a CPU is back at what it was once a lock is left, however
\* often it was lowered, interrupted and raised, or the lock's saved level
\* changed hands in between.
LevelRestored == \A x \in Contexts : At(x, "idle") => pil[x[1]] = Level(x)

\* A CPU that waits for a lock of another one takes its interrupts meanwhile.
WaitsOpen == \A x \in Contexts : At(x, "spin") \/ At(x, "tl_spin") => pil[x[1]] = Level(x)

\* The interrupt level is what the code that runs may expect.
Inv == TypeOK /\ LevelRestored /\ WaitsOpen

\* A context that waits for a lock, a mutex or that of a thread, never waits
\* for one that it has interrupted the holder of: that one could not go on to
\* clear it.
NoSelfDeadlock ==
  \A x \in Contexts :
    /\ pc[x] \in {"try", "lower", "spin", "raise", "tl_try", "tl_lower", "tl_spin"}
    /\ x[2] \in active[x[1]] /\ lp[x] # transition_lock
    => held[lp[x]] = Null \/ held[lp[x]][1] # x[1] \/ held[lp[x]][2] > x[2]

\* Who has the thread locked holds the lock it has now, whichever it had when
\* it was looked for, and is alone.
ThreadLockRight ==
  \A x \in Contexts : pc[x] = "has_thread" =>
    /\ t_lockp # transition_lock /\ held[t_lockp] = x
    /\ \A y \in Contexts \ {x} : pc[y] \notin {"has_thread", "transition", "moving", "set_state"}
=============================================================================
