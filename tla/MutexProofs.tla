---------------------------- MODULE MutexProofs ----------------------------
(***************************************************************************)
(* Proofs about the mutexes: the two kinds of uts/common/os/mutex.c, and   *)
(* those that user-level threads ask the kernel for.                       *)
(*                                                                         *)
(* Spin mutexes and thread locks (SpinLock): who waits for a lock has not  *)
(* interrupted its holder, the level of a CPU is what the code that runs   *)
(* may expect, and who has a thread locked holds the lock it has now.      *)
(*                                                                         *)
(* Adaptive mutexes (AdaptiveMutex): mutual exclusion and no missed        *)
(* wakeup, for any set of threads and any set of processors.               *)
(*                                                                         *)
(* User-level mutexes (UpiMutex): the kernel, the user memory and the      *)
(* threads agree, whatever signals, faults, cycles and deaths come.        *)
(***************************************************************************)
EXTENDS SpinLock, AdaptiveMutex, UpiMutex, FiniteSetTheorems, TLAPS

-----------------------------------------------------------------------------
(* Spin mutexes and thread locks: the inductive invariant                  *)

Top(x) == x[2] \in active[x[1]] /\ \A l \in active[x[1]] : l <= x[2]

\* v is the level of x with the mutexes of S.
IsLevel(x, S, v) ==
  /\ x[2] <= v /\ \A m \in S : m_minspl[m] <= v
  /\ v = x[2] \/ \E m \in S : m_minspl[m] = v

Below(x, m) == {n \in Holds(x) : n < m}

MutexWait == {"try", "lower", "spin", "raise"}
ThreadWait == {"tl_read", "tl_try", "tl_lower", "tl_spin"}
HasThread == {"has_thread", "transition", "moving", "set_state"}

\* What the level v of the CPU of x is, and what is saved for later, where x is.
LevelAt(x, v) ==
  /\ pc[x] = "idle" => IsLevel(x, Holds(x), v)
  /\ pc[x] \in MutexWait =>
       /\ IsLevel(x, Holds(x), old[x])
       /\ v = IF pc[x] \in {"spin", "raise"} \/ m_minspl[lp[x]] < old[x]
              THEN old[x] ELSE m_minspl[lp[x]]
  /\ pc[x] = "save" =>
       IsLevel(x, Below(x, lp[x]), old[x]) /\ IsLevel(x, Holds(x), v)
  /\ pc[x] = "clear" =>
       IF lp[x] \in Mutexes
       THEN IsLevel(x, Below(x, lp[x]), old[x]) /\ IsLevel(x, Holds(x), v)
       ELSE IsLevel(x, Holds(x), old[x]) /\ old[x] <= v /\ v = LOCK_LEVEL
  /\ pc[x] = "splx" => IsLevel(x, Holds(x), old[x]) /\ old[x] <= v
  /\ pc[x] \in ThreadWait \cup {"tl_check"} =>
       /\ IsLevel(x, Holds(x), old[x]) /\ old[x] <= LOCK_LEVEL
       /\ v = IF pc[x] = "tl_spin" THEN old[x] ELSE LOCK_LEVEL
  /\ pc[x] \in HasThread =>
       IsLevel(x, Holds(x), t_oldspl[x]) /\ t_oldspl[x] <= LOCK_LEVEL /\ v = LOCK_LEVEL

\* The level of the CPU is right for who runs, and what an interrupt saved is
\* right for who it interrupted.
LevelsRight ==
  \A x \in Contexts : x[2] \in active[x[1]] =>
    /\ Top(x) => LevelAt(x, pil[x[1]])
    /\ \A y \in Contexts :
         /\ y[1] = x[1] /\ y[2] \in active[x[1]] /\ x[2] < y[2]
         /\ \A l \in active[x[1]] : l <= x[2] \/ y[2] <= l
         => LevelAt(x, ipil[y])

\* What a mutex saves is the level of its holder without it and those entered later.
SavedRight ==
  \A x \in Contexts : \A m \in Holds(x) :
    ~(pc[x] = "save" /\ lp[x] = m) => IsLevel(x, Below(x, m), m_oldspl[m])

\* An interrupt that came while locks were held came from above their level.
LocksNested ==
  \A x, y \in Contexts :
    y[1] = x[1] /\ x[2] \in active[x[1]] /\ y[2] \in active[x[1]] /\ x[2] < y[2] =>
      /\ x[2] <= ipil[y] /\ \A m \in Holds(x) : m_minspl[m] < y[2]
      /\ (\E d \in DispLocks : held[d] = x) => LOCK_LEVEL < y[2]

InactiveIdle ==
  \A x \in Contexts : x[2] \notin active[x[1]] => pc[x] = "idle" /\ Holds(x) = {}

\* Which locks a context holds and is after, by where it is.
LocksAt(x) ==
  /\ pc[x] = "idle" => lp[x] = Null
  /\ pc[x] \in MutexWait =>
       lp[x] \in Mutexes /\ x[2] <= m_minspl[lp[x]] /\ \A n \in Holds(x) : n < lp[x]
  /\ pc[x] = "save" => lp[x] \in Mutexes
  /\ pc[x] \in {"save", "clear"} => lp[x] \in Mutexes \cup DispLocks /\ held[lp[x]] = x
  /\ pc[x] \in {"save", "clear"} /\ lp[x] \in Mutexes => \A n \in Holds(x) : n <= lp[x]
  /\ pc[x] \in ThreadWait => lp[x] \in DispLocks \cup {Null}
  /\ pc[x] \in ThreadWait \cup {"tl_check"} => x[2] <= LOCK_LEVEL
  /\ pc[x] \in {"tl_check", "transition", "set_state"} => lp[x] \in DispLocks /\ held[lp[x]] = x
  /\ pc[x] = "has_thread" => t_lockp \in DispLocks /\ held[t_lockp] = x
  /\ \A d \in DispLocks : held[d] = x =>
       \/ pc[x] \in {"tl_check", "transition", "set_state", "clear"} /\ d = lp[x]
       \/ pc[x] = "has_thread" /\ d = t_lockp

LocksRight == \A x \in Contexts : LocksAt(x)

OneMover ==
  /\ \A x, y \in Contexts : pc[x] \in HasThread /\ pc[y] \in HasThread => x = y
  /\ \A x \in Contexts : pc[x] \in {"transition", "moving", "set_state"} => t_lockp = Null

SpinInv ==
  /\ TypeOK /\ LocksRight /\ OneMover
  /\ LevelsRight /\ SavedRight /\ LocksNested /\ InactiveIdle

-----------------------------------------------------------------------------
(* Contexts                                                                *)

\* A context is the pair of a CPU and a level.
LEMMA ContextPair ==
  ASSUME NEW x \in Contexts
  PROVE  x[1] \in CPUs /\ x[2] \in Nat /\ x = <<x[1], x[2]>> /\ x # Null
BY LevelsAssumption, LocksAssumption DEF Contexts

\* The levels at which something runs are those of contexts.
LEMMA ActiveContext ==
  ASSUME NEW c \in CPUs, NEW l \in {0} \cup Intr[c]
  PROVE  <<c, l>> \in Contexts
BY DEF Contexts

\* What a set's members are all bounded by is its maximum.
LEMMA MaxIs ==
  ASSUME NEW S \in SUBSET Nat, NEW v \in S, \A w \in S : w <= v
  PROVE  Max(S) = v
<1> DEFINE Is(w) == w \in S /\ \A u \in S : w >= u
<1>1. Is(v)  OBVIOUS
<1>2. Is(CHOOSE w : Is(w))  BY <1>1, Zenon
<1>3. Max(S) = CHOOSE w : Is(w)  BY DEF Max
<1>4. Is(Max(S))  BY <1>2, <1>3, Zenon
<1>5. Max(S) \in Nat /\ Max(S) >= v /\ Max(S) <= v  BY <1>4
<1> QED  BY <1>5

\* The level of a context is what IsLevel says of it.
LEMMA LevelIs ==
  ASSUME NEW x \in Contexts, NEW v \in Nat, IsLevel(x, Holds(x), v)
  PROVE  v = Level(x)
<1> DEFINE S == {x[2]} \cup {m_minspl[m] : m \in Holds(x)}
<1>1. S \in SUBSET Nat /\ v \in S /\ \A w \in S : w <= v
  BY ContextPair, LevelsAssumption DEF IsLevel, Holds
<1> QED  BY <1>1, MaxIs DEF Level

-----------------------------------------------------------------------------
(* What a step of a context leaves alone                                   *)

\* Only what runs on a CPU moves.  It changes the level of its CPU only, what is
\* its own, locks that are clear or its own, and what is saved in those.
OwnOnly(x) ==
  /\ Top(x) /\ active' = active /\ ipil' = ipil
  /\ \A y \in Contexts : y # x =>
       /\ pc'[y] = pc[y] /\ lp'[y] = lp[y] /\ old'[y] = old[y] /\ t_oldspl'[y] = t_oldspl[y]
       /\ \A l \in Mutexes \cup DispLocks : held'[l] = y <=> held[l] = y
       /\ \A m \in Mutexes : held[m] = y => m_oldspl'[m] = m_oldspl[m]
  /\ \A c \in CPUs : c # x[1] => pil'[c] = pil[c]

LEMMA StepIsOwn ==
  ASSUME TypeOK, LocksRight, NEW x \in Contexts, SpinMutex(x) \/ ThreadLock(x)
  PROVE  OwnOnly(x)
<1> USE ContextPair, LocksAssumption DEF TypeOK, OwnOnly, Top, locks, cpus, transition_lock
<1>0. LocksAt(x)  BY DEF LocksRight
<1>1. ASSUME NEW m \in Mutexes, mutex_vector_exit_spin(x, m)
      PROVE  OwnOnly(x)
  BY <1>1, <1>0 DEF mutex_vector_exit_spin, At, Goto, LocksAt, MutexWait, ThreadWait, HasThread
<1>2. ASSUME NEW m \in Mutexes, NEW try \in BOOLEAN, lock_set_spl(x, m, try)
      PROVE  OwnOnly(x)
  BY <1>2, <1>0
  DEF lock_set_spl, At, Goto, splr, splx, LocksAt, MutexWait, ThreadWait, HasThread
<1>3. CASE lock_try(x)
  BY <1>3, <1>0 DEF lock_try, At, Goto, LocksAt, MutexWait, ThreadWait, HasThread
<1>4. CASE save_oldspl(x)
  BY <1>4, <1>0 DEF save_oldspl, At, Goto, Return, LocksAt, MutexWait, ThreadWait, HasThread
<1>5. CASE lower_spl(x)
  BY <1>5, <1>0 DEF lower_spl, At, Goto, Return, splx, LocksAt, MutexWait, ThreadWait, HasThread
<1>6. CASE lock_set_spl_spin(x)
  BY <1>6, <1>0
  DEF lock_set_spl_spin, At, Goto, LOCK_HELD, LocksAt, MutexWait, ThreadWait, HasThread
<1>7. CASE raise_spl(x)
  BY <1>7, <1>0 DEF raise_spl, At, Goto, splr, splx, LocksAt, MutexWait, ThreadWait, HasThread
<1>8. CASE lock_clear(x)
  BY <1>8, <1>0 DEF lock_clear, At, Goto, LocksAt, MutexWait, ThreadWait, HasThread
<1>9. CASE exit_splx(x)
  BY <1>9, <1>0 DEF exit_splx, At, Goto, splx, Return, LocksAt, MutexWait, ThreadWait, HasThread
<1>10. CASE thread_lock(x)
  BY <1>10, <1>0
  DEF thread_lock, At, Goto, splr, splx, LocksAt, MutexWait, ThreadWait, HasThread
<1>11. CASE tl_read(x)
  BY <1>11, <1>0 DEF tl_read, At, Goto, LocksAt, MutexWait, ThreadWait, HasThread
<1>12. CASE tl_try(x)
  BY <1>12, <1>0 DEF tl_try, At, Goto, LOCK_HELD, LocksAt, MutexWait, ThreadWait, HasThread
<1>13. CASE tl_check(x)
  BY <1>13, <1>0 DEF tl_check, At, Goto, LocksAt, MutexWait, ThreadWait, HasThread
<1>14. CASE tl_lower(x)
  BY <1>14, <1>0 DEF tl_lower, At, Goto, splx, LocksAt, MutexWait, ThreadWait, HasThread
<1>15. CASE tl_spin(x)
  BY <1>15, <1>0
  DEF tl_spin, At, Goto, splr, splx, LOCK_HELD, LocksAt, MutexWait, ThreadWait, HasThread
<1>16. CASE thread_transition(x)
  BY <1>16, <1>0 DEF thread_transition, At, Goto, LocksAt, MutexWait, ThreadWait, HasThread
<1>17. CASE transition_clear(x)
  BY <1>17, <1>0 DEF transition_clear, At, Goto, LocksAt, MutexWait, ThreadWait, HasThread
<1>18. CASE THREAD_SET_STATE(x)
  BY <1>18, <1>0 DEF THREAD_SET_STATE, At, Goto, LocksAt, MutexWait, ThreadWait, HasThread
<1>19. CASE thread_unlock(x)
  BY <1>19, <1>0 DEF thread_unlock, At, Goto, LocksAt, MutexWait, ThreadWait, HasThread
<1>20. ASSUME NEW l \in DispLocks, disp_lock_enter_high(x, l)
       PROVE  OwnOnly(x)
  BY <1>20, <1>0 DEF disp_lock_enter_high, At, Goto, LocksAt, MutexWait, ThreadWait, HasThread
<1> QED
  BY <1>1, <1>2, <1>3, <1>4, <1>5, <1>6, <1>7, <1>8, <1>9, <1>10, <1>11, <1>12, <1>13, <1>14,
     <1>15, <1>16, <1>17, <1>18, <1>19, <1>20
  DEF SpinMutex, ThreadLock

-----------------------------------------------------------------------------
(* The locks held, and who has the thread                                  *)

\* Types, but for the levels' order.
Types ==
  /\ held \in [Mutexes \cup DispLocks -> Contexts \cup {Null}]
  /\ t_lockp \in DispLocks \cup {transition_lock}
  /\ pil \in [CPUs -> Nat] /\ m_oldspl \in [Mutexes -> Nat]
  /\ t_oldspl \in [Contexts -> Nat] /\ old \in [Contexts -> Nat]
  /\ pc \in [Contexts -> {"idle", "try", "save", "lower", "spin", "raise", "clear", "splx",
                          "tl_read", "tl_try", "tl_check", "tl_lower", "tl_spin",
                          "has_thread", "transition", "moving", "set_state"}]
  /\ lp \in [Contexts -> Mutexes \cup DispLocks \cup {Null}] /\ trying \in [Contexts -> BOOLEAN]

LEMMA StepTypes ==
  ASSUME TypeOK, LocksRight, NEW x \in Contexts, SpinMutex(x) \/ ThreadLock(x)
  PROVE  Types'
<1> USE ContextPair, LocksAssumption, LevelsAssumption
     DEF TypeOK, Types, locks, cpus, transition_lock
<1>0. LocksAt(x)  BY DEF LocksRight
<1>1. ASSUME NEW m \in Mutexes, mutex_vector_exit_spin(x, m)
      PROVE  Types'
  BY <1>1 DEF mutex_vector_exit_spin, At, Goto
<1>2. ASSUME NEW m \in Mutexes, NEW try \in BOOLEAN, lock_set_spl(x, m, try)
      PROVE  Types'
  BY <1>2 DEF lock_set_spl, At, Goto, splr, splx
<1>3. CASE lock_try(x)
  BY <1>3, <1>0, SMTT(30) DEF lock_try, At, Goto, LocksAt, MutexWait, ThreadWait, HasThread
<1>4. CASE save_oldspl(x)
  BY <1>4 DEF save_oldspl, At, Goto, Return
<1>5. CASE lower_spl(x)
  <2>1. CASE trying[x]
    <3>1. UNCHANGED <<held, t_lockp, m_oldspl, t_oldspl>> /\ pil' = [pil EXCEPT ![x[1]] = old[x]]
      BY <1>5, <2>1 DEF lower_spl, splx
    <3>2. Return(x)
      BY <1>5, <2>1 DEF lower_spl
    <3> QED  BY <3>1, <3>2 DEF Return, Goto
  <2>2. CASE ~trying[x]
    BY <1>5, <2>2 DEF lower_spl, At, Goto, splx
  <2> QED  BY <2>1, <2>2
<1>6. CASE lock_set_spl_spin(x)
  BY <1>6 DEF lock_set_spl_spin, At, Goto, LOCK_HELD
<1>7. CASE raise_spl(x)
  BY <1>7, <1>0 DEF raise_spl, At, Goto, splr, splx, LocksAt, MutexWait, ThreadWait, HasThread
<1>8. CASE lock_clear(x)
  BY <1>8 DEF lock_clear, At, Goto
<1>9. CASE exit_splx(x)
  BY <1>9 DEF exit_splx, At, Goto, splx, Return
<1>10. CASE thread_lock(x)
  BY <1>10 DEF thread_lock, At, Goto, splr, splx
<1>11. CASE tl_read(x)
  BY <1>11 DEF tl_read, At, Goto
<1>12. CASE tl_try(x)
  <2>1. CASE LOCK_HELD(lp[x])
    BY <1>12, <2>1 DEF tl_try, At, Goto, LOCK_HELD
  <2>2. CASE ~(LOCK_HELD(lp[x]))
    BY <1>12, <2>2, SMTT(30) DEF tl_try, At, Goto, LOCK_HELD
  <2> QED  BY <2>1, <2>2
<1>13. CASE tl_check(x)
  <2>1. CASE lp[x] = t_lockp
    <3>1. UNCHANGED <<held, t_lockp, pil, m_oldspl, old, lp, trying>>
      BY <1>13, <2>1 DEF tl_check
    <3>2. t_oldspl' = [t_oldspl EXCEPT ![x] = old[x]] /\ pc' = [pc EXCEPT ![x] = "has_thread"]
      BY <1>13, <2>1 DEF tl_check, Goto
    <3> QED  BY <3>1, <3>2
  <2>2. CASE lp[x] # t_lockp
    BY <1>13, <2>2, SMTT(30) DEF tl_check, At, Goto
  <2> QED  BY <2>1, <2>2
<1>14. CASE tl_lower(x)
  BY <1>14 DEF tl_lower, At, Goto, splx
<1>15. CASE tl_spin(x)
  BY <1>15 DEF tl_spin, At, Goto, splr, splx, LOCK_HELD
<1>16. CASE thread_transition(x)
  BY <1>16 DEF thread_transition, At, Goto
<1>17. CASE transition_clear(x)
  BY <1>17 DEF transition_clear, At, Goto
<1>18. CASE THREAD_SET_STATE(x)
  BY <1>18, <1>0 DEF THREAD_SET_STATE, At, Goto, LocksAt, MutexWait, ThreadWait, HasThread
<1>19. CASE thread_unlock(x)
  BY <1>19 DEF thread_unlock, At, Goto
<1>20. ASSUME NEW l \in DispLocks, disp_lock_enter_high(x, l)
       PROVE  Types'
  BY <1>20 DEF disp_lock_enter_high, At, Goto
<1> HIDE DEF Types, TypeOK
<1> QED
  BY <1>1, <1>2, <1>3, <1>4, <1>5, <1>6, <1>7, <1>8, <1>9, <1>10, <1>11, <1>12, <1>13, <1>14,
     <1>15, <1>16, <1>17, <1>18, <1>19, <1>20
  DEF SpinMutex, ThreadLock

\* What x comes to hold and to be after.
LEMMA StepLocksOwn ==
  ASSUME TypeOK, LocksRight, OneMover, NEW x \in Contexts, SpinMutex(x) \/ ThreadLock(x)
  PROVE  LocksAt(x)'
<1> USE ContextPair, LocksAssumption, LevelsAssumption
     DEF TypeOK, locks, cpus, transition_lock, Holds
<1>0. LocksAt(x)  BY DEF LocksRight
<1>1. ASSUME NEW m \in Mutexes, mutex_vector_exit_spin(x, m)
      PROVE  LocksAt(x)'
  BY <1>1, <1>0 DEF mutex_vector_exit_spin, At, Goto, LocksAt, MutexWait, ThreadWait, HasThread
<1>2. ASSUME NEW m \in Mutexes, NEW try \in BOOLEAN, lock_set_spl(x, m, try)
      PROVE  LocksAt(x)'
  BY <1>2, <1>0
  DEF lock_set_spl, At, Goto, splr, splx, LocksAt, MutexWait, ThreadWait, HasThread
<1>3. CASE lock_try(x)
  BY <1>3, <1>0 DEF lock_try, At, Goto, LocksAt, MutexWait, ThreadWait, HasThread
<1>4. CASE save_oldspl(x)
  BY <1>4, <1>0 DEF save_oldspl, At, Goto, Return, LocksAt, MutexWait, ThreadWait, HasThread
<1>5. CASE lower_spl(x)
  BY <1>5, <1>0 DEF lower_spl, At, Goto, Return, splx, LocksAt, MutexWait, ThreadWait, HasThread
<1>6. CASE lock_set_spl_spin(x)
  BY <1>6, <1>0
  DEF lock_set_spl_spin, At, Goto, LOCK_HELD, LocksAt, MutexWait, ThreadWait, HasThread
<1>7. CASE raise_spl(x)
  BY <1>7, <1>0 DEF raise_spl, At, Goto, splr, splx, LocksAt, MutexWait, ThreadWait, HasThread
<1>8. CASE lock_clear(x)
  BY <1>8, <1>0 DEF lock_clear, At, Goto, LocksAt, MutexWait, ThreadWait, HasThread
<1>9. CASE exit_splx(x)
  BY <1>9, <1>0 DEF exit_splx, At, Goto, splx, Return, LocksAt, MutexWait, ThreadWait, HasThread
<1>10. CASE thread_lock(x)
  BY <1>10, <1>0
  DEF thread_lock, At, Goto, splr, splx, LocksAt, MutexWait, ThreadWait, HasThread
<1>11. CASE tl_read(x)
  BY <1>11, <1>0 DEF tl_read, At, Goto, LocksAt, MutexWait, ThreadWait, HasThread
<1>12. CASE tl_try(x)
  BY <1>12, <1>0 DEF tl_try, At, Goto, LOCK_HELD, LocksAt, MutexWait, ThreadWait, HasThread
<1>13. CASE tl_check(x)
  BY <1>13, <1>0 DEF tl_check, At, Goto, LocksAt, MutexWait, ThreadWait, HasThread
<1>14. CASE tl_lower(x)
  BY <1>14, <1>0 DEF tl_lower, At, Goto, splx, LocksAt, MutexWait, ThreadWait, HasThread
<1>15. CASE tl_spin(x)
  BY <1>15, <1>0
  DEF tl_spin, At, Goto, splr, splx, LOCK_HELD, LocksAt, MutexWait, ThreadWait, HasThread
<1>16. CASE thread_transition(x)
  BY <1>16, <1>0 DEF thread_transition, At, Goto, LocksAt, MutexWait, ThreadWait, HasThread
<1>17. CASE transition_clear(x)
  BY <1>17, <1>0 DEF transition_clear, At, Goto, LocksAt, MutexWait, ThreadWait, HasThread
<1>18. CASE THREAD_SET_STATE(x)
  BY <1>18, <1>0 DEF THREAD_SET_STATE, At, Goto, LocksAt, MutexWait, ThreadWait, HasThread
<1>19. CASE thread_unlock(x)
  BY <1>19, <1>0 DEF thread_unlock, At, Goto, LocksAt, MutexWait, ThreadWait, HasThread
<1>20. ASSUME NEW l \in DispLocks, disp_lock_enter_high(x, l)
       PROVE  LocksAt(x)'
  BY <1>20, <1>0 DEF disp_lock_enter_high, At, Goto, LocksAt, MutexWait, ThreadWait, HasThread
<1> QED
  BY <1>1, <1>2, <1>3, <1>4, <1>5, <1>6, <1>7, <1>8, <1>9, <1>10, <1>11, <1>12, <1>13, <1>14,
     <1>15, <1>16, <1>17, <1>18, <1>19, <1>20
  DEF SpinMutex, ThreadLock

\* Only who has the thread changes its lock, and then it is not t_lockp of another.
LEMMA StepThread ==
  ASSUME TypeOK, LocksRight, OneMover, NEW x \in Contexts, SpinMutex(x) \/ ThreadLock(x)
  PROVE  /\ OneMover' 
         /\ t_lockp' = t_lockp \/ \A y \in Contexts : pc[y] \in HasThread => y = x
<1> DEFINE P == /\ OneMover'
                /\ t_lockp' = t_lockp \/ \A y \in Contexts : pc[y] \in HasThread => y = x
<1> USE ContextPair, LocksAssumption, LevelsAssumption
     DEF TypeOK, locks, cpus, transition_lock, LocksRight, LocksAt, OneMover, HasThread
<1>1. ASSUME NEW m \in Mutexes, mutex_vector_exit_spin(x, m)
      PROVE  P
  BY <1>1 DEF mutex_vector_exit_spin, At, Goto, MutexWait, ThreadWait
<1>2. ASSUME NEW m \in Mutexes, NEW try \in BOOLEAN, lock_set_spl(x, m, try)
      PROVE  P
  BY <1>2 DEF lock_set_spl, At, Goto, splr, splx, MutexWait, ThreadWait
<1>3. CASE lock_try(x)
  BY <1>3 DEF lock_try, At, Goto, MutexWait, ThreadWait
<1>4. CASE save_oldspl(x)
  BY <1>4 DEF save_oldspl, At, Goto, Return, MutexWait, ThreadWait
<1>5. CASE lower_spl(x)
  BY <1>5 DEF lower_spl, At, Goto, Return, splx, MutexWait, ThreadWait
<1>6. CASE lock_set_spl_spin(x)
  BY <1>6 DEF lock_set_spl_spin, At, Goto, LOCK_HELD, MutexWait, ThreadWait
<1>7. CASE raise_spl(x)
  BY <1>7 DEF raise_spl, At, Goto, splr, splx, MutexWait, ThreadWait
<1>8. CASE lock_clear(x)
  BY <1>8 DEF lock_clear, At, Goto, MutexWait, ThreadWait
<1>9. CASE exit_splx(x)
  BY <1>9 DEF exit_splx, At, Goto, splx, Return, MutexWait, ThreadWait
<1>10. CASE thread_lock(x)
  BY <1>10 DEF thread_lock, At, Goto, splr, splx, MutexWait, ThreadWait
<1>11. CASE tl_read(x)
  BY <1>11 DEF tl_read, At, Goto, MutexWait, ThreadWait
<1>12. CASE tl_try(x)
  BY <1>12 DEF tl_try, At, Goto, LOCK_HELD, MutexWait, ThreadWait
<1>13. CASE tl_check(x)
  BY <1>13 DEF tl_check, At, Goto, MutexWait, ThreadWait
<1>14. CASE tl_lower(x)
  BY <1>14 DEF tl_lower, At, Goto, splx, MutexWait, ThreadWait
<1>15. CASE tl_spin(x)
  BY <1>15 DEF tl_spin, At, Goto, splr, splx, LOCK_HELD, MutexWait, ThreadWait
<1>16. CASE thread_transition(x)
  BY <1>16 DEF thread_transition, At, Goto, MutexWait, ThreadWait
<1>17. CASE transition_clear(x)
  BY <1>17 DEF transition_clear, At, Goto, MutexWait, ThreadWait
<1>18. CASE THREAD_SET_STATE(x)
  BY <1>18 DEF THREAD_SET_STATE, At, Goto, MutexWait, ThreadWait
<1>19. CASE thread_unlock(x)
  BY <1>19 DEF thread_unlock, At, Goto, MutexWait, ThreadWait
<1>20. ASSUME NEW l \in DispLocks, disp_lock_enter_high(x, l)
       PROVE  P
  BY <1>20 DEF disp_lock_enter_high, At, Goto, MutexWait, ThreadWait
<1> QED
  BY <1>1, <1>2, <1>3, <1>4, <1>5, <1>6, <1>7, <1>8, <1>9, <1>10, <1>11, <1>12, <1>13, <1>14,
     <1>15, <1>16, <1>17, <1>18, <1>19, <1>20
  DEF SpinMutex, ThreadLock

LEMMA StepLocks ==
  ASSUME TypeOK, LocksRight, OneMover, NEW x \in Contexts, SpinMutex(x) \/ ThreadLock(x)
  PROVE  LocksRight' /\ OneMover'
<1>1. OwnOnly(x)  BY StepIsOwn
<1>2. LocksAt(x)'  BY StepLocksOwn
<1>3. OneMover' /\ (t_lockp' = t_lockp \/ \A y \in Contexts : pc[y] \in HasThread => y = x)
  BY StepThread
<1>4. ASSUME NEW y \in Contexts, y # x
      PROVE  LocksAt(y)'
  <2>1. LocksAt(y)  BY DEF LocksRight
  <2> QED
    BY <1>1, <1>3, <1>4, <2>1
    DEF OwnOnly, LocksAt, Holds, HasThread, MutexWait, ThreadWait
<1> QED  BY <1>2, <1>3, <1>4 DEF LocksRight

-----------------------------------------------------------------------------
(* The levels                                                              *)

\* The level at which a step leaves x, and what it has saved.
LEMMA StepLevelOwn ==
  ASSUME TypeOK, LocksRight, SavedRight, NEW x \in Contexts, LevelAt(x, pil[x[1]]),
         SpinMutex(x) \/ ThreadLock(x)
  PROVE  LevelAt(x, pil[x[1]])' /\ x[2] <= pil'[x[1]]
<1> DEFINE P == LevelAt(x, pil[x[1]])' /\ x[2] <= pil'[x[1]]
<1> USE ContextPair, LocksAssumption, LevelsAssumption
     DEF TypeOK, locks, cpus, transition_lock, LevelAt
<1>0. LocksAt(x)  BY DEF LocksRight
<1>1. ASSUME NEW m \in Mutexes, mutex_vector_exit_spin(x, m)
      PROVE  P
  BY <1>1, <1>0
  DEF mutex_vector_exit_spin, At, Goto, SavedRight, IsLevel, Below, Holds, LocksAt, MutexWait,
      ThreadWait, HasThread
<1>2. ASSUME NEW m \in Mutexes, NEW try \in BOOLEAN, lock_set_spl(x, m, try)
      PROVE  P
  <2>1. old'[x] = pil[x[1]] /\ held' = held /\ pc'[x] = "try" /\ lp'[x] = m
    BY <1>2 DEF lock_set_spl, splr, Goto
  <2>2. pil'[x[1]] = IF pil[x[1]] < m_minspl[m] THEN m_minspl[m] ELSE pil[x[1]]
    BY <1>2, <1>0 DEF lock_set_spl, splr, splx
  <2>3. Holds(x)' = Holds(x)
    BY <2>1 DEF Holds
  <2>4. IsLevel(x, Holds(x), pil[x[1]]) /\ x[2] <= pil[x[1]]
    BY <1>2 DEF lock_set_spl, At, MutexWait, ThreadWait, IsLevel
  <2>5. m_minspl[m] \in Nat /\ pil[x[1]] \in Nat
    BY <1>2, <1>0 DEF lock_set_spl, At, LocksAt, MutexWait, ThreadWait, IsLevel
  <2>6. IsLevel(x, Holds(x)', old'[x]) /\ x[2] <= pil'[x[1]]
    BY <2>1, <2>2, <2>3, <2>4, <2>5
  <2>7. pil'[x[1]] = IF m_minspl[lp'[x]] < old'[x] THEN old'[x] ELSE m_minspl[lp'[x]]
    <3> HIDE DEF TypeOK, LevelAt
    <3> QED  BY <2>1, <2>2, <2>5
  <2> QED
    BY <2>1, <2>6, <2>7 DEF IsLevel, MutexWait, ThreadWait, HasThread
<1>3. CASE lock_try(x)
  BY <1>3, <1>0
  DEF lock_try, At, Goto, IsLevel, Below, Holds, LocksAt, MutexWait, ThreadWait, HasThread
<1>4. CASE save_oldspl(x)
  BY <1>4, <1>0
  DEF save_oldspl, At, Goto, Return, IsLevel, Below, Holds, LocksAt, MutexWait, ThreadWait,
      HasThread
<1>5. CASE lower_spl(x)
  BY <1>5, <1>0
  DEF lower_spl, At, Goto, Return, splx, IsLevel, Below, Holds, LocksAt, MutexWait,
      ThreadWait, HasThread
<1>6. CASE lock_set_spl_spin(x)
  BY <1>6, <1>0
  DEF lock_set_spl_spin, At, Goto, LOCK_HELD, IsLevel, Below, Holds, LocksAt, MutexWait,
      ThreadWait, HasThread
<1>7. CASE raise_spl(x)
  <2>1. old'[x] = pil[x[1]] /\ held' = held /\ pc'[x] = "try" /\ lp'[x] = lp[x]
    BY <1>7 DEF raise_spl, splr, Goto
  <2>2. pil'[x[1]] = IF pil[x[1]] < m_minspl[lp[x]] THEN m_minspl[lp[x]] ELSE pil[x[1]]
    BY <1>7, <1>0 DEF raise_spl, splr, splx
  <2>3. Holds(x)' = Holds(x)
    BY <2>1 DEF Holds
  <2>4. IsLevel(x, Holds(x), pil[x[1]]) /\ x[2] <= pil[x[1]]
    BY <1>7 DEF raise_spl, At, MutexWait, ThreadWait, IsLevel
  <2>5. m_minspl[lp[x]] \in Nat /\ pil[x[1]] \in Nat
    BY <1>7, <1>0 DEF raise_spl, At, LocksAt, MutexWait, ThreadWait, IsLevel
  <2>6. IsLevel(x, Holds(x)', old'[x]) /\ x[2] <= pil'[x[1]]
    BY <2>1, <2>2, <2>3, <2>4, <2>5
  <2>7. pil'[x[1]] = IF m_minspl[lp'[x]] < old'[x] THEN old'[x] ELSE m_minspl[lp'[x]]
    <3> HIDE DEF TypeOK, LevelAt
    <3> QED  BY <2>1, <2>2, <2>5
  <2> QED
    BY <2>1, <2>6, <2>7 DEF IsLevel, MutexWait, ThreadWait, HasThread
<1>8. CASE lock_clear(x)
  <2>1. held' = [held EXCEPT ![lp[x]] = Null] /\ pc'[x] = "splx" /\ pc[x] = "clear"
        /\ UNCHANGED <<pil, old, lp>>
    BY <1>8 DEF lock_clear, Goto, At, cpus
  <2>2. CASE lp[x] \in Mutexes
    <3>1. IsLevel(x, Below(x, lp[x]), old[x]) /\ IsLevel(x, Holds(x), pil[x[1]])
      BY <2>1, <2>2
    <3>2. Below(x, lp[x]) = Holds(x)' /\ Below(x, lp[x]) \subseteq Holds(x)
      <4>1. \A n \in Mutexes : held'[n] = x <=> held[n] = x /\ n # lp[x]
        BY <2>1, <2>2
      <4>2. \A n \in Mutexes : held[n] = x => n <= lp[x]
        BY <1>0, <2>1, <2>2 DEF LocksAt, Holds
      <4>3. lp[x] \in Nat /\ \A n \in Mutexes : n \in Nat
        BY <2>2
      <4> HIDE DEF LevelAt, TypeOK
      <4> QED  BY <4>1, <4>2, <4>3 DEF Below, Holds
    <3>3. IsLevel(x, Holds(x)', old'[x]) /\ old'[x] <= pil'[x[1]] /\ x[2] <= pil'[x[1]]
      BY <2>1, <3>1, <3>2 DEF IsLevel
    <3> QED  BY <2>1, <3>3 DEF MutexWait, ThreadWait, HasThread, IsLevel
  <2>3. CASE lp[x] \in DispLocks
    BY <1>0, <2>1, <2>3 DEF Holds, IsLevel, LocksAt, MutexWait, ThreadWait, HasThread
  <2> QED  BY <1>0, <2>1, <2>2, <2>3 DEF LocksAt
<1>9. CASE exit_splx(x)
  BY <1>9, <1>0
  DEF exit_splx, At, Goto, splx, Return, IsLevel, Below, Holds, LocksAt, MutexWait,
      ThreadWait, HasThread
<1>10. CASE thread_lock(x)
  <2>1. old'[x] = pil[x[1]] /\ held' = held /\ pc'[x] = "tl_read" /\ lp'[x] = lp[x]
    BY <1>10 DEF thread_lock, splr, Goto
  <2>2. pil'[x[1]] = IF pil[x[1]] < LOCK_LEVEL THEN LOCK_LEVEL ELSE pil[x[1]]
    BY <1>10, <1>0 DEF thread_lock, splr, splx
  <2>3. Holds(x)' = Holds(x)
    BY <2>1 DEF Holds
  <2>4. IsLevel(x, Holds(x), pil[x[1]]) /\ x[2] <= pil[x[1]]
    BY <1>10 DEF thread_lock, At, MutexWait, ThreadWait, IsLevel
  <2>5. LOCK_LEVEL \in Nat /\ pil[x[1]] \in Nat /\ pil[x[1]] <= LOCK_LEVEL
    BY <1>10, <1>0 DEF thread_lock, At, LocksAt, MutexWait, ThreadWait, IsLevel
  <2>6. IsLevel(x, Holds(x)', old'[x]) /\ x[2] <= pil'[x[1]]
    BY <2>1, <2>2, <2>3, <2>4, <2>5
  <2>7. pil'[x[1]] = LOCK_LEVEL /\ old'[x] <= LOCK_LEVEL
    <3> HIDE DEF TypeOK, LevelAt
    <3> QED  BY <2>1, <2>2, <2>5
  <2> QED
    BY <2>1, <2>6, <2>7 DEF IsLevel, MutexWait, ThreadWait, HasThread
<1>11. CASE tl_read(x)
  BY <1>11, <1>0
  DEF tl_read, At, Goto, IsLevel, Below, Holds, LocksAt, MutexWait, ThreadWait, HasThread
<1>12. CASE tl_try(x)
  BY <1>12, <1>0
  DEF tl_try, At, Goto, LOCK_HELD, IsLevel, Below, Holds, LocksAt, MutexWait, ThreadWait,
      HasThread
<1>13. CASE tl_check(x)
  BY <1>13, <1>0
  DEF tl_check, At, Goto, IsLevel, Below, Holds, LocksAt, MutexWait, ThreadWait, HasThread
<1>14. CASE tl_lower(x)
  BY <1>14, <1>0
  DEF tl_lower, At, Goto, splx, IsLevel, Below, Holds, LocksAt, MutexWait, ThreadWait,
      HasThread
<1>15. CASE tl_spin(x)
  <2>1. old'[x] = pil[x[1]] /\ held' = held /\ pc'[x] = "tl_read" /\ lp'[x] = lp[x]
    BY <1>15 DEF tl_spin, splr, Goto
  <2>2. pil'[x[1]] = IF pil[x[1]] < LOCK_LEVEL THEN LOCK_LEVEL ELSE pil[x[1]]
    BY <1>15, <1>0 DEF tl_spin, splr, splx
  <2>3. Holds(x)' = Holds(x)
    BY <2>1 DEF Holds
  <2>4. IsLevel(x, Holds(x), pil[x[1]]) /\ x[2] <= pil[x[1]]
    BY <1>15 DEF tl_spin, At, MutexWait, ThreadWait, IsLevel
  <2>5. LOCK_LEVEL \in Nat /\ pil[x[1]] \in Nat /\ pil[x[1]] <= LOCK_LEVEL
    BY <1>15, <1>0 DEF tl_spin, At, LocksAt, MutexWait, ThreadWait, IsLevel
  <2>6. IsLevel(x, Holds(x)', old'[x]) /\ x[2] <= pil'[x[1]]
    BY <2>1, <2>2, <2>3, <2>4, <2>5
  <2>7. pil'[x[1]] = LOCK_LEVEL /\ old'[x] <= LOCK_LEVEL
    <3> HIDE DEF TypeOK, LevelAt
    <3> QED  BY <2>1, <2>2, <2>5
  <2> QED
    BY <2>1, <2>6, <2>7 DEF IsLevel, MutexWait, ThreadWait, HasThread
<1>16. CASE thread_transition(x)
  BY <1>16, <1>0
  DEF thread_transition, At, Goto, IsLevel, Below, Holds, LocksAt, MutexWait, ThreadWait,
      HasThread
<1>17. CASE transition_clear(x)
  BY <1>17, <1>0
  DEF transition_clear, At, Goto, IsLevel, Below, Holds, LocksAt, MutexWait, ThreadWait,
      HasThread
<1>18. CASE THREAD_SET_STATE(x)
  BY <1>18, <1>0
  DEF THREAD_SET_STATE, At, Goto, IsLevel, Below, Holds, LocksAt, MutexWait, ThreadWait,
      HasThread
<1>19. CASE thread_unlock(x)
  BY <1>19, <1>0
  DEF thread_unlock, At, Goto, IsLevel, Below, Holds, LocksAt, MutexWait, ThreadWait,
      HasThread
<1>20. ASSUME NEW l \in DispLocks, disp_lock_enter_high(x, l)
       PROVE  P
  BY <1>20, <1>0
  DEF disp_lock_enter_high, At, Goto, IsLevel, Below, Holds, LocksAt, MutexWait, ThreadWait,
      HasThread
<1> HIDE DEF LevelAt, TypeOK
<1> QED
  BY <1>1, <1>2, <1>3, <1>4, <1>5, <1>6, <1>7, <1>8, <1>9, <1>10, <1>11, <1>12, <1>13, <1>14,
     <1>15, <1>16, <1>17, <1>18, <1>19, <1>20
  DEF SpinMutex, ThreadLock

\* What mutexes save, and what x has saved in the ones it holds.
LEMMA StepSavedOwn ==
  ASSUME TypeOK, LocksRight, SavedRight, NEW x \in Contexts, LevelAt(x, pil[x[1]]),
         SpinMutex(x) \/ ThreadLock(x)
  PROVE  \A m \in Holds(x)' :
           ~(pc'[x] = "save" /\ lp'[x] = m) => IsLevel(x, Below(x, m)', m_oldspl'[m])
<1> DEFINE P == \A m \in Holds(x)' :
                  ~(pc'[x] = "save" /\ lp'[x] = m) => IsLevel(x, Below(x, m)', m_oldspl'[m])
<1> SUFFICES P  OBVIOUS
<1> USE ContextPair, LocksAssumption, LevelsAssumption DEF TypeOK, locks, cpus, transition_lock
<1>0. LocksAt(x) /\ \A m \in Holds(x) :
        ~(pc[x] = "save" /\ lp[x] = m) => IsLevel(x, Below(x, m), m_oldspl[m])
  BY DEF LocksRight, SavedRight
<1>1. ASSUME NEW m \in Mutexes, mutex_vector_exit_spin(x, m)
      PROVE  P
  BY <1>1, <1>0
  DEF mutex_vector_exit_spin, At, Goto, Below, Holds, LocksAt, MutexWait, ThreadWait, HasThread
<1>2. ASSUME NEW m \in Mutexes, NEW try \in BOOLEAN, lock_set_spl(x, m, try)
      PROVE  P
  BY <1>2, <1>0
  DEF lock_set_spl, At, Goto, splr, splx, Below, Holds, LocksAt, MutexWait, ThreadWait,
      HasThread
<1>3. CASE lock_try(x)
  BY <1>3, <1>0 DEF lock_try, At, Goto, Below, Holds, LocksAt, MutexWait, ThreadWait, HasThread
<1>4. CASE save_oldspl(x)
  <2>1. /\ held' = held /\ pc[x] = "save" /\ pc'[x] = "idle"
        /\ m_oldspl' = [m_oldspl EXCEPT ![lp[x]] = old[x]]
    BY <1>4 DEF save_oldspl, At, Return, Goto
  <2>2. IsLevel(x, Below(x, lp[x]), old[x]) /\ lp[x] \in Mutexes
    BY <1>0, <2>1 DEF LevelAt, LocksAt
  <2>3. Holds(x)' = Holds(x)
    BY <2>1 DEF Holds
  <2>4. \A m : Below(x, m)' = Below(x, m)
    BY <2>3 DEF Below
  <2>5. \A m \in Holds(x) : m_oldspl'[m] = IF m = lp[x] THEN old[x] ELSE m_oldspl[m]
    BY <2>1, <2>2 DEF Holds
  <2>6. \A m \in Holds(x) : m # lp[x] => IsLevel(x, Below(x, m), m_oldspl[m])
    BY <1>0
  <2> HIDE DEF TypeOK
  <2> QED  BY <2>2, <2>3, <2>4, <2>5, <2>6
<1>5. CASE lower_spl(x)
  BY <1>5, <1>0
  DEF lower_spl, At, Goto, Return, splx, Below, Holds, LocksAt, MutexWait, ThreadWait,
      HasThread
<1>6. CASE lock_set_spl_spin(x)
  BY <1>6, <1>0
  DEF lock_set_spl_spin, At, Goto, LOCK_HELD, Below, Holds, LocksAt, MutexWait, ThreadWait,
      HasThread
<1>7. CASE raise_spl(x)
  BY <1>7, <1>0
  DEF raise_spl, At, Goto, splr, splx, Below, Holds, LocksAt, MutexWait, ThreadWait, HasThread
<1>8. CASE lock_clear(x)
  BY <1>8, <1>0
  DEF lock_clear, At, Goto, Below, Holds, LocksAt, MutexWait, ThreadWait, HasThread
<1>9. CASE exit_splx(x)
  BY <1>9, <1>0
  DEF exit_splx, At, Goto, splx, Return, Below, Holds, LocksAt, MutexWait, ThreadWait,
      HasThread
<1>10. CASE thread_lock(x)
  BY <1>10, <1>0
  DEF thread_lock, At, Goto, splr, splx, Below, Holds, LocksAt, MutexWait, ThreadWait,
      HasThread
<1>11. CASE tl_read(x)
  BY <1>11, <1>0 DEF tl_read, At, Goto, Below, Holds, LocksAt, MutexWait, ThreadWait, HasThread
<1>12. CASE tl_try(x)
  BY <1>12, <1>0
  DEF tl_try, At, Goto, LOCK_HELD, Below, Holds, LocksAt, MutexWait, ThreadWait, HasThread
<1>13. CASE tl_check(x)
  BY <1>13, <1>0 DEF tl_check, At, Goto, Below, Holds, LocksAt, MutexWait, ThreadWait, HasThread
<1>14. CASE tl_lower(x)
  BY <1>14, <1>0
  DEF tl_lower, At, Goto, splx, Below, Holds, LocksAt, MutexWait, ThreadWait, HasThread
<1>15. CASE tl_spin(x)
  BY <1>15, <1>0
  DEF tl_spin, At, Goto, splr, splx, LOCK_HELD, Below, Holds, LocksAt, MutexWait, ThreadWait,
      HasThread
<1>16. CASE thread_transition(x)
  BY <1>16, <1>0
  DEF thread_transition, At, Goto, Below, Holds, LocksAt, MutexWait, ThreadWait, HasThread
<1>17. CASE transition_clear(x)
  BY <1>17, <1>0
  DEF transition_clear, At, Goto, Below, Holds, LocksAt, MutexWait, ThreadWait, HasThread
<1>18. CASE THREAD_SET_STATE(x)
  BY <1>18, <1>0
  DEF THREAD_SET_STATE, At, Goto, Below, Holds, LocksAt, MutexWait, ThreadWait, HasThread
<1>19. CASE thread_unlock(x)
  BY <1>19, <1>0
  DEF thread_unlock, At, Goto, Below, Holds, LocksAt, MutexWait, ThreadWait, HasThread
<1>20. ASSUME NEW l \in DispLocks, disp_lock_enter_high(x, l)
       PROVE  P
  BY <1>20, <1>0
  DEF disp_lock_enter_high, At, Goto, Below, Holds, LocksAt, MutexWait, ThreadWait, HasThread
<1> HIDE DEF P, TypeOK
<1> QED
  BY <1>1, <1>2, <1>3, <1>4, <1>5, <1>6, <1>7, <1>8, <1>9, <1>10, <1>11, <1>12, <1>13, <1>14,
     <1>15, <1>16, <1>17, <1>18, <1>19, <1>20
  DEF SpinMutex, ThreadLock

LEMMA StepSaved ==
  ASSUME TypeOK, LocksRight, SavedRight, NEW x \in Contexts, LevelAt(x, pil[x[1]]),
         SpinMutex(x) \/ ThreadLock(x)
  PROVE  SavedRight'
<1>1. OwnOnly(x)  BY StepIsOwn
<1>2. \A m \in Holds(x)' :
        ~(pc'[x] = "save" /\ lp'[x] = m) => IsLevel(x, Below(x, m)', m_oldspl'[m])
  BY StepSavedOwn
<1>3. ASSUME NEW y \in Contexts, y # x, NEW m \in Holds(y)', ~(pc'[y] = "save" /\ lp'[y] = m)
      PROVE  IsLevel(y, Below(y, m)', m_oldspl'[m])
  <2>1. Holds(y)' = Holds(y)
    BY <1>1, <1>3 DEF OwnOnly, Holds
  <2>2. m_oldspl'[m] = m_oldspl[m] /\ pc'[y] = pc[y] /\ lp'[y] = lp[y]
    BY <1>1, <1>3, <2>1 DEF OwnOnly, Holds
  <2>3. Below(y, m)' = Below(y, m)
    BY <2>1 DEF Below
  <2> QED  BY <1>3, <2>1, <2>2, <2>3 DEF SavedRight
<1> QED  BY <1>2, <1>3 DEF SavedRight

\* Who does not run is left alone, with the mutexes it holds.
LEMMA OtherUnchanged ==
  ASSUME NEW x \in Contexts, OwnOnly(x), NEW y \in Contexts, y # x
  PROVE  /\ pc'[y] = pc[y] /\ lp'[y] = lp[y] /\ old'[y] = old[y] /\ t_oldspl'[y] = t_oldspl[y]
         /\ Holds(y)' = Holds(y) /\ \A m : Below(y, m)' = Below(y, m)
<1>1. /\ pc'[y] = pc[y] /\ lp'[y] = lp[y] /\ old'[y] = old[y] /\ t_oldspl'[y] = t_oldspl[y]
      /\ Holds(y)' = Holds(y)
  BY DEF OwnOnly, Holds
<1> QED  BY <1>1 DEF Below

\* The levels are right after a step of a context.
LEMMA StepLevels ==
  ASSUME SpinInv, NEW x \in Contexts, SpinMutex(x) \/ ThreadLock(x)
  PROVE  LevelsRight' /\ TypeOK'
<1>1. OwnOnly(x)  BY StepIsOwn DEF SpinInv
<1>2. LevelAt(x, pil[x[1]])  BY <1>1 DEF SpinInv, LevelsRight, OwnOnly, Top
<1>3. LevelAt(x, pil[x[1]])' /\ x[2] <= pil'[x[1]]
  BY <1>2, StepLevelOwn DEF SpinInv
<1>4. Types'  BY StepTypes DEF SpinInv
<1>5. ASSUME NEW y \in Contexts, y[2] \in active'[y[1]], Top(y)'
      PROVE  LevelAt(y, pil[y[1]])'
  <2>1. CASE y = x  BY <1>3, <2>1
  <2>2. CASE y # x
    <3>1. y[1] # x[1]
      BY <1>1, <1>5, <2>2, ContextPair DEF OwnOnly, Top
    <3>2. pil'[y[1]] = pil[y[1]] /\ LevelAt(y, pil[y[1]])
      BY <1>1, <1>5, <3>1, ContextPair DEF OwnOnly, Top, SpinInv, LevelsRight
    <3> QED  BY <1>1, <2>2, <3>2, OtherUnchanged DEF LevelAt, IsLevel
  <2> QED  BY <2>1, <2>2
<1>6. ASSUME NEW y \in Contexts, y[2] \in active'[y[1]], NEW z \in Contexts,
             z[1] = y[1], z[2] \in active'[y[1]], y[2] < z[2],
             \A l \in active'[y[1]] : l <= y[2] \/ z[2] <= l
      PROVE  LevelAt(y, ipil[z])'
  <2>1. y # x /\ ipil' = ipil /\ active' = active
    BY <1>1, <1>6, ContextPair DEF OwnOnly, Top
  <2>2. LevelAt(y, ipil[z])
    BY <1>6, <2>1 DEF SpinInv, LevelsRight
  <2> QED  BY <1>1, <2>1, <2>2, OtherUnchanged DEF LevelAt, IsLevel
<1>7. \A c \in CPUs : active'[c] \subseteq {0} \cup Intr[c] /\ \A l \in active'[c] : l <= pil'[c]
  <2>1. \A c \in CPUs : active'[c] \subseteq {0} \cup Intr[c] /\ active'[c] \subseteq Nat
    BY <1>1 DEF SpinInv, TypeOK, OwnOnly
  <2>2. \A c \in CPUs : c # x[1] => \A l \in active'[c] : l <= pil'[c]
    BY <1>1 DEF SpinInv, TypeOK, OwnOnly
  <2>3. pil'[x[1]] \in Nat /\ x[2] \in Nat
    BY <1>4, ContextPair DEF Types
  <2>4. \A l \in active'[x[1]] : l <= x[2]
    BY <1>1 DEF OwnOnly, Top
  <2>5. \A l \in active'[x[1]] : l <= pil'[x[1]]
    BY <1>3, <2>1, <2>3, <2>4, ContextPair
  <2> QED  BY <2>1, <2>2, <2>5
<1>8. TypeOK'
  BY <1>1, <1>4, <1>7 DEF Types, TypeOK, OwnOnly, SpinInv
<1> QED  BY <1>5, <1>6, <1>8 DEF LevelsRight

\* A step of a context keeps the invariant.
LEMMA StepInv ==
  ASSUME SpinInv, NEW x \in Contexts, SpinMutex(x) \/ ThreadLock(x)
  PROVE  SpinInv'
<1>1. OwnOnly(x)  BY StepIsOwn DEF SpinInv
<1>2. LevelAt(x, pil[x[1]])  BY <1>1 DEF SpinInv, LevelsRight, OwnOnly, Top
<1>3. TypeOK' /\ LevelsRight' /\ LocksRight' /\ OneMover' /\ SavedRight'
  BY <1>2, StepLevels, StepLocks, StepSaved DEF SpinInv
<1>4. LocksNested'
  <2> SUFFICES ASSUME NEW y \in Contexts, NEW z \in Contexts, z[1] = y[1],
                      y[2] \in active'[y[1]], z[2] \in active'[y[1]], y[2] < z[2]
               PROVE  /\ y[2] <= ipil'[z] /\ \A m \in Holds(y)' : m_minspl[m] < z[2]
                      /\ (\E d \in DispLocks : held'[d] = y) => LOCK_LEVEL < z[2]
    BY DEF LocksNested
  <2>1. y # x /\ active' = active /\ ipil' = ipil
    BY <1>1, ContextPair DEF OwnOnly, Top
  <2>2. Holds(y)' = Holds(y) /\ \A d \in DispLocks : held'[d] = y <=> held[d] = y
    BY <1>1, <2>1, OtherUnchanged DEF OwnOnly
  <2> QED  BY <2>1, <2>2 DEF SpinInv, LocksNested
<1>5. InactiveIdle'
  <2> SUFFICES ASSUME NEW y \in Contexts, y[2] \notin active'[y[1]]
               PROVE  pc'[y] = "idle" /\ Holds(y)' = {}
    BY DEF InactiveIdle
  <2>1. y # x /\ active' = active
    BY <1>1 DEF OwnOnly, Top
  <2> QED  BY <1>1, <2>1, OtherUnchanged DEF SpinInv, InactiveIdle
<1> QED  BY <1>3, <1>4, <1>5 DEF SpinInv

-----------------------------------------------------------------------------
(* Interrupts                                                              *)

\* A context's level is not below that of any lock it holds.
LEMMA HeldBelow ==
  ASSUME TypeOK, NEW x \in Contexts, LocksAt(x), NEW v \in Nat, LevelAt(x, v)
  PROVE  /\ x[2] <= v /\ \A m \in Holds(x) : m_minspl[m] <= v
         /\ (\E d \in DispLocks : held[d] = x) => LOCK_LEVEL <= v
<1> DEFINE P == /\ x[2] <= v /\ \A m \in Holds(x) : m_minspl[m] <= v
                /\ (\E d \in DispLocks : held[d] = x) => LOCK_LEVEL <= v
<1> USE ContextPair, LevelsAssumption, LocksAssumption
<1>1. old[x] \in Nat /\ t_oldspl[x] \in Nat /\ \A m \in Holds(x) : m_minspl[m] \in Nat
  BY DEF TypeOK, Holds
<1>2. CASE pc[x] \in {"idle", "save", "splx"} \cup MutexWait
  BY <1>1, <1>2 DEF LevelAt, IsLevel, LocksAt, MutexWait
<1>3. CASE pc[x] = "clear"
  BY <1>1, <1>3 DEF LevelAt, IsLevel, LocksAt
<1>4. CASE pc[x] \in ThreadWait \cup {"tl_check"}
  BY <1>1, <1>4 DEF LevelAt, IsLevel, LocksAt, ThreadWait
<1>5. CASE pc[x] \in HasThread
  BY <1>1, <1>5 DEF LevelAt, IsLevel, LocksAt, HasThread
<1> QED
  BY <1>2, <1>3, <1>4, <1>5 DEF TypeOK, MutexWait, ThreadWait, HasThread

\* An interrupt leaves the locks and whoever holds them alone.
LEMMA LocksUnchanged ==
  ASSUME UNCHANGED <<locks, pc, lp, old, trying>>
  PROVE  /\ LocksRight => LocksRight'
         /\ OneMover => OneMover'
         /\ SavedRight => SavedRight'
         /\ \A x : Holds(x)' = Holds(x) /\ \A m : Below(x, m)' = Below(x, m)
<1>1. \A x : Holds(x)' = Holds(x) /\ \A m : Below(x, m)' = Below(x, m)
  BY DEF Holds, Below, locks
<1>2. LocksRight => LocksRight'
  BY DEF LocksRight, LocksAt, Holds, locks
<1>3. OneMover => OneMover'
  BY DEF OneMover, locks
<1>4. SavedRight => SavedRight'
  BY <1>1 DEF SavedRight, locks
<1> QED  BY <1>1, <1>2, <1>3, <1>4

LEMMA InterruptInv ==
  ASSUME SpinInv, NEW c \in CPUs, NEW l \in Intr[c], interrupt(c, l)
  PROVE  SpinInv'
<1> DEFINE x == <<c, l>>
<1>1. x \in Contexts /\ x[1] = c /\ x[2] = l /\ l \in Nat
  BY ActiveContext, LevelsAssumption
<1>2. /\ UNCHANGED <<locks, pc, lp, old, trying>> /\ pil[c] < l
      /\ active' = [active EXCEPT ![c] = @ \cup {l}]
      /\ ipil' = [ipil EXCEPT ![x] = pil[c]] /\ pil' = [pil EXCEPT ![c] = l]
  BY LevelsAssumption DEF interrupt, SpinInv, TypeOK
<1>3. /\ \A k \in active[c] : k \in Nat /\ k <= pil[c] /\ k < l
      /\ pil[c] \in Nat /\ active[c] \subseteq {0} \cup Intr[c]
  BY <1>1, <1>2 DEF SpinInv, TypeOK
<1>4. l \notin active[c] /\ pc[x] = "idle" /\ Holds(x) = {}
  BY <1>1, <1>3 DEF SpinInv, InactiveIdle
<1>5. LocksRight' /\ OneMover' /\ SavedRight'
  BY <1>2, LocksUnchanged DEF SpinInv
<1>6. \A y : Holds(y)' = Holds(y) /\ \A m : Below(y, m)' = Below(y, m)
  BY <1>2, LocksUnchanged
<1>7. /\ active'[c] = active[c] \cup {l} /\ pil'[c] = l /\ ipil'[x] = pil[c]
      /\ \A b \in CPUs : b # c => active'[b] = active[b] /\ pil'[b] = pil[b]
      /\ \A y \in Contexts : y # x => ipil'[y] = ipil[y]
  BY <1>1, <1>2 DEF SpinInv, TypeOK
<1>8. TypeOK'
  <2>1. /\ pil' \in [CPUs -> Nat] /\ ipil' \in [Contexts -> Nat]
        /\ active' \in [CPUs -> SUBSET Nat]
    BY <1>1, <1>2, <1>3 DEF SpinInv, TypeOK
  <2>2. \A b \in CPUs : active'[b] \subseteq {0} \cup Intr[b] /\ \A k \in active'[b] : k <= pil'[b]
    BY <1>1, <1>3, <1>7 DEF SpinInv, TypeOK
  <2> QED  BY <1>2, <2>1, <2>2 DEF SpinInv, TypeOK, locks
<1>9. ASSUME NEW y \in Contexts, y[2] \in active'[y[1]], Top(y)'
      PROVE  LevelAt(y, pil[y[1]])'
  <2>1. CASE y[1] = c
    <3>1. y = x
      BY <1>1, <1>3, <1>7, <1>9, <2>1, ContextPair DEF Top
    <3> QED
      BY <1>1, <1>2, <1>4, <1>6, <1>7, <3>1
      DEF LevelAt, IsLevel, MutexWait, ThreadWait, HasThread
  <2>2. CASE y[1] # c
    <3>1. LevelAt(y, pil[y[1]]) /\ pil'[y[1]] = pil[y[1]]
      BY <1>7, <1>9, <2>2, ContextPair DEF Top, SpinInv, LevelsRight
    <3> QED  BY <1>2, <1>6, <3>1 DEF LevelAt, IsLevel, locks
  <2> QED  BY <2>1, <2>2
<1>10. ASSUME NEW y \in Contexts, y[2] \in active'[y[1]], NEW z \in Contexts,
              z[1] = y[1], z[2] \in active'[y[1]], y[2] < z[2],
              \A k \in active'[y[1]] : k <= y[2] \/ z[2] <= k
       PROVE  LevelAt(y, ipil[z])'
  <2>1. CASE z = x
    <3>1. y[1] = c /\ y[2] \in active[c] /\ \A k \in active[c] : k <= y[2]
      BY <1>1, <1>3, <1>7, <1>10, <2>1, ContextPair
    <3>2. LevelAt(y, pil[c]) /\ ipil'[z] = pil[c]
      BY <1>7, <2>1, <3>1 DEF SpinInv, LevelsRight, Top
    <3> QED  BY <1>2, <1>6, <3>2 DEF LevelAt, IsLevel, locks
  <2>2. CASE z # x
    <3>1. /\ y[2] \in active[y[1]] /\ z[2] \in active[y[1]] /\ ipil'[z] = ipil[z]
          /\ \A k \in active[y[1]] : k <= y[2] \/ z[2] <= k
      BY <1>1, <1>3, <1>7, <1>10, <2>2, ContextPair
    <3>2. LevelAt(y, ipil[z])
      BY <1>10, <3>1 DEF SpinInv, LevelsRight
    <3> QED  BY <1>2, <1>6, <3>1, <3>2 DEF LevelAt, IsLevel, locks
  <2> QED  BY <2>1, <2>2
<1>11. ASSUME NEW y \in Contexts, NEW z \in Contexts, z[1] = y[1],
              y[2] \in active'[y[1]], z[2] \in active'[y[1]], y[2] < z[2]
       PROVE  /\ y[2] <= ipil'[z] /\ \A m \in Holds(y)' : m_minspl[m] < z[2]
              /\ (\E d \in DispLocks : held'[d] = y) => LOCK_LEVEL < z[2]
  <2>1. CASE z = x
    <3>1. y[1] = c /\ y[2] \in active[c] /\ y[2] <= ipil'[z]
      BY <1>1, <1>3, <1>7, <1>11, <2>1, ContextPair
    <3>2. \A m \in Holds(y) : m_minspl[m] \in Nat
      BY LevelsAssumption DEF Holds
    <3>3. CASE \A k \in active[c] : k <= y[2]
      <4>1. LevelAt(y, pil[c]) /\ LocksAt(y)
        BY <3>1, <3>3 DEF SpinInv, LevelsRight, Top, LocksRight
      <4>2. /\ \A m \in Holds(y) : m_minspl[m] <= pil[c]
            /\ (\E d \in DispLocks : held[d] = y) => LOCK_LEVEL <= pil[c]
        BY <1>3, <4>1, HeldBelow DEF SpinInv
      <4> QED
        BY <1>1, <1>2, <1>3, <1>6, <2>1, <3>1, <3>2, <4>2, LevelsAssumption DEF locks
    <3>4. CASE ~\A k \in active[c] : k <= y[2]
      <4>1. PICK k \in active[c] : y[2] < k
        BY <1>3, <3>4, ContextPair
      <4>2. <<c, k>> \in Contexts
        BY <1>3, ActiveContext
      <4>3. /\ \A m \in Holds(y) : m_minspl[m] < k
            /\ (\E d \in DispLocks : held[d] = y) => LOCK_LEVEL < k
        BY <3>1, <4>1, <4>2 DEF SpinInv, LocksNested
      <4> QED
        BY <1>1, <1>2, <1>3, <1>6, <2>1, <3>1, <3>2, <4>1, <4>3, LevelsAssumption DEF locks
    <3> QED  BY <3>3, <3>4
  <2>2. CASE z # x
    <3>1. y[2] \in active[y[1]] /\ z[2] \in active[y[1]] /\ ipil'[z] = ipil[z]
      BY <1>1, <1>3, <1>7, <1>11, <2>2, ContextPair
    <3> QED  BY <1>2, <1>6, <1>11, <3>1 DEF SpinInv, LocksNested, locks
  <2> QED  BY <2>1, <2>2
<1>12. InactiveIdle'
  BY <1>2, <1>6, <1>7, ContextPair DEF SpinInv, InactiveIdle
<1> QED
  BY <1>5, <1>8, <1>9, <1>10, <1>11, <1>12 DEF SpinInv, LevelsRight, LocksNested

LEMMA ReturnInv ==
  ASSUME SpinInv, NEW x \in Contexts, common_rtt(x)
  PROVE  SpinInv'
<1>1. /\ UNCHANGED <<locks, pc, lp, old, trying>> /\ pc[x] = "idle" /\ Holds(x) = {} /\ Top(x)
      /\ active' = [active EXCEPT ![x[1]] = @ \ {x[2]}]
      /\ ipil' = [ipil EXCEPT ![x] = 0] /\ pil' = [pil EXCEPT ![x[1]] = ipil[x]]
  BY DEF common_rtt, At, Top, splx
<1>2. /\ active'[x[1]] = active[x[1]] \ {x[2]} /\ pil'[x[1]] = ipil[x]
      /\ \A b \in CPUs : b # x[1] => active'[b] = active[b] /\ pil'[b] = pil[b]
      /\ \A y \in Contexts : y # x => ipil'[y] = ipil[y]
  BY <1>1, ContextPair DEF SpinInv, TypeOK
<1>3. LocksRight' /\ OneMover' /\ SavedRight'
  BY <1>1, LocksUnchanged DEF SpinInv
<1>4. \A y : Holds(y)' = Holds(y) /\ \A m : Below(y, m)' = Below(y, m)
  BY <1>1, LocksUnchanged
<1>5. \A y \in Contexts : y[2] \in active'[y[1]] =>
        y # x /\ y[2] \in active[y[1]] /\ (y[1] = x[1] => y[2] < x[2])
  BY <1>1, <1>2, ContextPair DEF Top
<1>6. TypeOK'
  <2>1. /\ pil' \in [CPUs -> Nat] /\ ipil' \in [Contexts -> Nat]
        /\ active' \in [CPUs -> SUBSET Nat]
    BY <1>1, ContextPair DEF SpinInv, TypeOK
  <2>2. \A k \in active'[x[1]] : k <= pil'[x[1]]
    <3> SUFFICES ASSUME NEW k \in active'[x[1]]
                 PROVE  k <= ipil[x]
      BY <1>2
    <3>1. k \in {0} \cup Intr[x[1]] /\ k \in active[x[1]]
      BY <1>2, ContextPair DEF SpinInv, TypeOK
    <3>2. <<x[1], k>> \in Contexts
      BY <3>1, ActiveContext, ContextPair
    <3>3. k < x[2]
      BY <1>2, <1>5, <3>2
    <3> QED  BY <1>1, <3>1, <3>2, <3>3 DEF SpinInv, LocksNested, Top
  <2>3. \A b \in CPUs : active'[b] \subseteq {0} \cup Intr[b] /\ \A k \in active'[b] : k <= pil'[b]
    BY <1>2, <2>2, ContextPair DEF SpinInv, TypeOK
  <2> QED  BY <1>1, <2>1, <2>3 DEF SpinInv, TypeOK, locks
<1>7. ASSUME NEW y \in Contexts, y[2] \in active'[y[1]], Top(y)'
      PROVE  LevelAt(y, pil[y[1]])'
  <2>1. CASE y[1] = x[1]
    <3>1. \A k \in active[x[1]] : k <= y[2] \/ x[2] <= k
      BY <1>2, <1>7, <2>1, ContextPair DEF Top
    <3>2. LevelAt(y, ipil[x])
      BY <1>1, <1>5, <1>7, <2>1, <3>1 DEF SpinInv, LevelsRight, Top
    <3> QED  BY <1>1, <1>2, <1>4, <2>1, <3>2 DEF LevelAt, IsLevel, locks
  <2>2. CASE y[1] # x[1]
    <3>1. LevelAt(y, pil[y[1]]) /\ pil'[y[1]] = pil[y[1]]
      BY <1>2, <1>7, <2>2, ContextPair DEF Top, SpinInv, LevelsRight
    <3> QED  BY <1>1, <1>4, <3>1 DEF LevelAt, IsLevel, locks
  <2> QED  BY <2>1, <2>2
<1>8. ASSUME NEW y \in Contexts, y[2] \in active'[y[1]], NEW z \in Contexts,
             z[1] = y[1], z[2] \in active'[y[1]], y[2] < z[2],
             \A k \in active'[y[1]] : k <= y[2] \/ z[2] <= k
      PROVE  LevelAt(y, ipil[z])'
  <2>1. /\ z # x /\ ipil'[z] = ipil[z] /\ y[2] \in active[y[1]] /\ z[2] \in active[y[1]]
        /\ (y[1] = x[1] => z[2] < x[2])
    BY <1>2, <1>5, <1>8
  <2>2. \A k \in active[y[1]] : k <= y[2] \/ z[2] <= k
    BY <1>2, <1>8, <2>1, ContextPair
  <2>3. LevelAt(y, ipil[z])
    BY <1>8, <2>1, <2>2 DEF SpinInv, LevelsRight
  <2> QED  BY <1>1, <1>4, <2>1, <2>3 DEF LevelAt, IsLevel, locks
<1>9. LocksNested'
  <2> SUFFICES ASSUME NEW y \in Contexts, NEW z \in Contexts, z[1] = y[1],
                      y[2] \in active'[y[1]], z[2] \in active'[y[1]], y[2] < z[2]
               PROVE  /\ y[2] <= ipil'[z] /\ \A m \in Holds(y)' : m_minspl[m] < z[2]
                      /\ (\E d \in DispLocks : held'[d] = y) => LOCK_LEVEL < z[2]
    BY DEF LocksNested
  <2>1. y[2] \in active[y[1]] /\ z[2] \in active[y[1]] /\ ipil'[z] = ipil[z]
    BY <1>2, <1>5
  <2> QED  BY <1>1, <1>4, <2>1 DEF SpinInv, LocksNested, locks
<1>10. InactiveIdle'
  BY <1>1, <1>2, <1>4, ContextPair DEF SpinInv, InactiveIdle
<1> QED
  BY <1>3, <1>6, <1>7, <1>8, <1>9, <1>10 DEF SpinInv, LevelsRight

-----------------------------------------------------------------------------
(* The theorems                                                            *)

LEMMA InitInv ==
  ASSUME Init
  PROVE  SpinInv
<1> USE ContextPair, LevelsAssumption, LocksAssumption DEF Init
<1>1. TypeOK
  BY DEF TypeOK, transition_lock
<1>2. \A x \in Contexts : pc[x] = "idle" /\ lp[x] = Null /\ Holds(x) = {}
  BY DEF Holds
<1>3. \A x \in Contexts : active[x[1]] = {0} /\ pil[x[1]] = 0
  OBVIOUS
<1>4. LocksRight /\ OneMover
  BY <1>2 DEF LocksRight, LocksAt, OneMover, MutexWait, ThreadWait, HasThread
<1>5. LevelsRight
  BY <1>2, <1>3 DEF LevelsRight, LevelAt, IsLevel, Top, MutexWait, ThreadWait, HasThread
<1>6. SavedRight /\ LocksNested /\ InactiveIdle
  BY <1>2, <1>3 DEF SavedRight, LocksNested, InactiveIdle
<1> QED  BY <1>1, <1>4, <1>5, <1>6 DEF SpinInv

\* Every step keeps the invariant: what holds of levels, of saved levels and of
\* locks holds together or not at all.
THEOREM SpinInvariant == Spec => []SpinInv
<1>1. Init => SpinInv
  BY InitInv
<1>2. ASSUME SpinInv, [Next]_vars
      PROVE  SpinInv'
  <2>1. ASSUME NEW c \in CPUs, NEW l \in Intr[c], interrupt(c, l)
        PROVE  SpinInv'
    BY <1>2, <2>1, InterruptInv
  <2>2. ASSUME NEW x \in Contexts, SpinMutex(x) \/ ThreadLock(x)
        PROVE  SpinInv'
    BY <1>2, <2>2, StepInv
  <2>3. ASSUME NEW x \in Contexts, common_rtt(x)
        PROVE  SpinInv'
    BY <1>2, <2>3, ReturnInv
  <2>4. CASE UNCHANGED vars
    BY <1>2, <2>4
    DEF vars, locks, cpus, SpinInv, TypeOK, LocksRight, LocksAt, OneMover, LevelsRight, LevelAt,
        IsLevel, Top, SavedRight, Below, LocksNested, InactiveIdle, Holds
  <2> QED  BY <1>2, <2>1, <2>2, <2>3, <2>4 DEF Next
<1> QED  BY <1>1, <1>2, PTL DEF Spec

\* Whatever mutexes are entered, tried and left, and whatever interrupts come
\* meanwhile, the code that runs finds the CPU at the level that it and its
\* mutexes ask for, and who spins for a lock has gone back to that level.
THEOREM LevelsAreRight == Spec => []Inv
<1>1. SpinInv => Inv
  <2> SUFFICES ASSUME SpinInv
               PROVE  LevelRestored /\ WaitsOpen
    BY DEF SpinInv, Inv
  <2> SUFFICES ASSUME NEW x \in Contexts, At(x, "idle") \/ At(x, "spin") \/ At(x, "tl_spin")
               PROVE  pil[x[1]] = Level(x)
    BY DEF LevelRestored, WaitsOpen
  <2>1. LevelAt(x, pil[x[1]])
    BY DEF SpinInv, LevelsRight, At, Top
  <2>2. IsLevel(x, Holds(x), pil[x[1]])
    BY <2>1 DEF LevelAt, At, MutexWait, ThreadWait
  <2>3. pil[x[1]] \in Nat
    BY ContextPair DEF SpinInv, TypeOK
  <2> QED  BY <2>2, <2>3, LevelIs
<1> QED  BY <1>1, SpinInvariant, PTL

\* However mutexes nest and interrupts come, nobody waits for a mutex or a
\* thread's lock whose holder it has interrupted.
THEOREM NoDeadlockWithInterrupted == Spec => []NoSelfDeadlock
<1>1. SpinInv => NoSelfDeadlock
  <2> SUFFICES ASSUME SpinInv, NEW x \in Contexts, x[2] \in active[x[1]], lp[x] # transition_lock,
                      pc[x] \in {"try", "lower", "spin", "raise", "tl_try", "tl_lower", "tl_spin"},
                      held[lp[x]] # Null, held[lp[x]][1] = x[1], ~(held[lp[x]][2] > x[2])
               PROVE  FALSE
    BY DEF NoSelfDeadlock
  <2> DEFINE y == held[lp[x]]
  <2>1. LocksAt(x) /\ lp[x] \in Mutexes \cup DispLocks
    BY DEF SpinInv, LocksRight, TypeOK, transition_lock
  <2>2. y \in Contexts /\ LocksAt(y) /\ y[1] = x[1] /\ ~(y[2] > x[2])
    BY <2>1 DEF SpinInv, TypeOK, LocksRight
  <2>3. CASE lp[x] \in Mutexes
    <3>1. pc[x] \in MutexWait /\ lp[x] \in Holds(y) /\ lp[x] \in Nat /\ m_minspl[lp[x]] \in Nat
      BY <2>1, <2>2, <2>3, LevelsAssumption, LocksAssumption
      DEF LocksAt, MutexWait, ThreadWait, Holds
    <3>2. x[2] <= m_minspl[lp[x]] /\ y # x
      BY <2>1, <3>1 DEF LocksAt
    <3>3. y[2] < x[2] /\ y[2] \in active[y[1]]
      BY <2>2, <3>1, <3>2, ContextPair DEF SpinInv, InactiveIdle
    <3>4. m_minspl[lp[x]] < x[2]
      BY <2>2, <3>1, <3>3 DEF SpinInv, LocksNested
    <3> QED  BY <3>1, <3>2, <3>4, ContextPair
  <2>4. CASE lp[x] \in DispLocks
    <3>1. pc[x] \in ThreadWait /\ x[2] <= LOCK_LEVEL /\ held[lp[x]] = y
      BY <2>1, <2>4, LocksAssumption DEF LocksAt, MutexWait, ThreadWait
    <3>2. pc[y] # "idle" /\ pc[y] \notin ThreadWait
      BY <2>2, <2>4, <3>1 DEF LocksAt, ThreadWait
    <3>3. y[2] < x[2] /\ y[2] \in active[y[1]]
      BY <2>2, <3>1, <3>2, ContextPair DEF SpinInv, InactiveIdle
    <3>4. LOCK_LEVEL < x[2]
      BY <2>2, <2>4, <3>1, <3>3 DEF SpinInv, LocksNested
    <3> QED  BY <3>1, <3>4, ContextPair, LevelsAssumption
  <2> QED  BY <2>1, <2>3, <2>4
<1> QED  BY <1>1, SpinInvariant, PTL

\* However the thread moves from queue to queue while it is looked for, who has
\* it locked holds the lock of the queue it is on, and nobody else has it.
THEOREM ThreadLockIsRight == Spec => []ThreadLockRight
<1>1. SpinInv => ThreadLockRight
  BY LocksAssumption
  DEF SpinInv, LocksRight, LocksAt, OneMover, ThreadLockRight, HasThread, transition_lock
<1> QED  BY <1>1, SpinInvariant, PTL

-----------------------------------------------------------------------------
(* Adaptive mutexes.  Everything rests on IInv, whose heart is WipeInv: an *)
(* owner that has loaded the word without the waiters bit and is about to  *)
(* clear it has not left its CPU since (CPUInv, the restart of             *)
(* mutex_exit()), so a thread that sets the bit meanwhile finds it running *)
(* when it scans the CPUs, and does not block.                             *)

\* The free mutex, with no thread on a CPU, satisfies the invariant.
LEMMA InitIInv == MutexInit => IInv
BY ThreadsAssumption DEF MutexInit, IInv, MutexTypeOK, MutualExclusion, UnownedIsFree, CPUInv,
  ChainInv, SearchInv, WipeInv, RecheckInv, NoMissedWakeup, Sleepers, FREE,
  Inside, Chained, Labels, Running

\* Every step of a thread in the mutex code, and every step of the dispatcher,
\* preserves the invariant.
LEMMA NextIInv == IInv /\ [MutexNext]_mutex_vars => IInv'
<1> SUFFICES ASSUME IInv, [MutexNext]_mutex_vars PROVE IInv'
  OBVIOUS
<1>1. ASSUME NEW t \in Threads, mutex_enter(t) PROVE IInv'
  <2>1. MutexTypeOK' /\ MutualExclusion' /\ UnownedIsFree' /\ CPUInv' /\ ChainInv'
    BY <1>1 DEF IInv, mutex_enter, Step, MutexTypeOK, MutualExclusion,
      UnownedIsFree, CPUInv, ChainInv, Running, Inside, Chained, Labels
  <2>2. SearchInv' /\ WipeInv' /\ RecheckInv' /\ NoMissedWakeup'
    BY <1>1 DEF IInv, mutex_enter, Step, SearchInv, WipeInv, RecheckInv,
      NoMissedWakeup, Sleepers, Chained
  <2> QED BY <2>1, <2>2 DEF IInv
<1>2. ASSUME NEW t \in Threads, mutex_tryenter(t) PROVE IInv'
  <2>1. MutexTypeOK' /\ UnownedIsFree' /\ CPUInv' /\ ChainInv'
    BY <1>2 DEF IInv, mutex_tryenter, Step, MutexTypeOK, UnownedIsFree, CPUInv,
      ChainInv, Running, Inside, Chained, Labels, FREE, HeldBy
  <2>2. SearchInv' /\ WipeInv' /\ RecheckInv' /\ NoMissedWakeup'
    BY <1>2 DEF IInv, mutex_tryenter, Step, SearchInv, WipeInv,
      RecheckInv, NoMissedWakeup, Sleepers, Chained, FREE, HeldBy
  \* The word was free, so nobody was inside.
  <2>3. MutualExclusion'
    BY <1>2, ThreadsAssumption DEF IInv, mutex_tryenter, Step, MutexTypeOK,
      MutualExclusion, Inside, FREE, HeldBy
  <2> QED BY <2>1, <2>2, <2>3 DEF IInv
<1>3. ASSUME NEW t \in Threads, mutex_exit(t) PROVE IInv'
  <2>1. MutexTypeOK' /\ MutualExclusion' /\ UnownedIsFree' /\ CPUInv' /\ ChainInv'
    BY <1>3 DEF IInv, mutex_exit, Step, MutexTypeOK, MutualExclusion,
      UnownedIsFree, CPUInv, ChainInv, Running, Inside, Chained, Labels
  <2>2. SearchInv' /\ WipeInv' /\ RecheckInv' /\ NoMissedWakeup'
    BY <1>3 DEF IInv, mutex_exit, Step, SearchInv, WipeInv, RecheckInv,
      NoMissedWakeup, Sleepers, Chained
  <2> QED BY <2>1, <2>2 DEF IInv
<1>4. ASSUME NEW t \in Threads, mutex_enter_casn(t) PROVE IInv'
  <2>1. MutexTypeOK' /\ UnownedIsFree' /\ CPUInv' /\ ChainInv'
    BY <1>4 DEF IInv, mutex_enter_casn, Step, MutexTypeOK, UnownedIsFree,
      CPUInv, ChainInv, Running, Inside, Chained, Labels, FREE, HeldBy
  <2>2. SearchInv' /\ WipeInv' /\ RecheckInv' /\ NoMissedWakeup'
    BY <1>4 DEF IInv, mutex_enter_casn, Step, SearchInv, WipeInv,
      RecheckInv, NoMissedWakeup, Sleepers, Chained, FREE, HeldBy
  \* The casn succeeds on the free word only.
  <2>3. MutualExclusion'
    BY <1>4, ThreadsAssumption DEF IInv, mutex_enter_casn, Step, MutexTypeOK,
      MutualExclusion, Inside, FREE, HeldBy
  <2> QED BY <2>1, <2>2, <2>3 DEF IInv
<1>5. ASSUME NEW t \in Threads, load_owner(t) PROVE IInv'
  <2>1. MutexTypeOK' /\ MutualExclusion' /\ UnownedIsFree' /\ CPUInv' /\ ChainInv'
    BY <1>5 DEF IInv, load_owner, Step, MutexTypeOK, MutualExclusion,
      UnownedIsFree, CPUInv, ChainInv, Running, Inside, Chained, Labels
  <2>2. WipeInv' /\ RecheckInv' /\ NoMissedWakeup'
    BY <1>5 DEF IInv, load_owner, Step, WipeInv, RecheckInv,
      NoMissedWakeup, Sleepers
  <2>3. SearchInv'
    BY <1>5 DEF IInv, load_owner, Step, MutexTypeOK, SearchInv, Chained
  <2> QED BY <2>1, <2>2, <2>3 DEF IInv
<1>6. ASSUME NEW t \in Threads, search_owner(t) PROVE IInv'
  <2>1. MutexTypeOK' /\ MutualExclusion' /\ UnownedIsFree' /\ CPUInv' /\ ChainInv'
    BY <1>6 DEF IInv, search_owner, Step, SearchCPU, MutexTypeOK,
      MutualExclusion, UnownedIsFree, CPUInv, ChainInv, Running, Inside,
      Chained, Labels
  <2>2. SearchInv' /\ WipeInv' /\ RecheckInv' /\ NoMissedWakeup'
    BY <1>6 DEF IInv, search_owner, Step, SearchCPU, SearchInv, WipeInv,
      RecheckInv, NoMissedWakeup, Sleepers
  <2> QED BY <2>1, <2>2 DEF IInv
<1>7. ASSUME NEW t \in Threads, turnstile_lookup(t) PROVE IInv'
  <2>1. MutexTypeOK' /\ MutualExclusion' /\ UnownedIsFree' /\ CPUInv'
    BY <1>7 DEF IInv, turnstile_lookup, Step, MutexTypeOK, MutualExclusion,
      UnownedIsFree, CPUInv, Running, Inside, Chained, Labels
  <2>2. SearchInv' /\ WipeInv' /\ RecheckInv' /\ NoMissedWakeup'
    BY <1>7 DEF IInv, turnstile_lookup, Step, MutexTypeOK, UnownedIsFree,
      SearchInv, WipeInv, RecheckInv, NoMissedWakeup, Sleepers, FREE
  <2>3. ChainInv'
    BY <1>7, ThreadsAssumption DEF IInv, turnstile_lookup, Step, MutexTypeOK,
      ChainInv, Chained
  <2> QED BY <2>1, <2>2, <2>3 DEF IInv
<1>8. ASSUME NEW t \in Threads, MUTEX_SET_WAITERS(t) PROVE IInv'
  <2>1. MutexTypeOK' /\ MutualExclusion' /\ UnownedIsFree' /\ CPUInv' /\ ChainInv'
    BY <1>8 DEF IInv, MUTEX_SET_WAITERS, Step, MutexTypeOK, MutualExclusion,
      UnownedIsFree, CPUInv, ChainInv, Running, Inside, Chained, Labels
  <2>2. SearchInv' /\ NoMissedWakeup'
    BY <1>8 DEF IInv, MUTEX_SET_WAITERS, Step, SearchInv, NoMissedWakeup,
      Sleepers, Chained
  \* All CPUs are yet to be looked at.
  <2>3. WipeInv'
    BY <1>8 DEF IInv, MUTEX_SET_WAITERS, Step, MutexTypeOK, ChainInv, WipeInv,
      Chained
  \* Who is past this point would hold the turnstile lock.
  <2>4. RecheckInv'
    BY <1>8 DEF IInv, MUTEX_SET_WAITERS, Step, ChainInv, RecheckInv,
      Chained
  <2> QED BY <2>1, <2>2, <2>3, <2>4 DEF IInv
<1>9. ASSUME NEW t \in Threads, recheck_owner(t) PROVE IInv'
  <2>1. MutexTypeOK' /\ MutualExclusion' /\ UnownedIsFree' /\ CPUInv'
    BY <1>9 DEF IInv, recheck_owner, Step, SearchCPU, MutexTypeOK,
      MutualExclusion, UnownedIsFree, CPUInv, Running, Inside, Chained,
      Labels
  <2>2. SearchInv' /\ RecheckInv' /\ NoMissedWakeup'
    BY <1>9 DEF IInv, recheck_owner, Step, SearchCPU, SearchInv,
      RecheckInv, NoMissedWakeup, Sleepers, Chained
  <2>3. ChainInv'
    BY <1>9, ThreadsAssumption DEF IInv, recheck_owner, Step, SearchCPU,
      ChainInv, Chained
  \* The CPU looked at does not run the owner, and an owner about to wipe out the
  \* bit runs on one CPU: it is among the others.
  <2>4. WipeInv'
    BY <1>9 DEF IInv, recheck_owner, Step, SearchCPU, MutexTypeOK,
      UnownedIsFree, CPUInv, WipeInv, Running, FREE
  <2> QED BY <2>1, <2>2, <2>3, <2>4 DEF IInv
<1>10. ASSUME NEW t \in Threads, check_owner(t) PROVE IInv'
  <2>1. MutexTypeOK' /\ MutualExclusion' /\ UnownedIsFree' /\ CPUInv'
    BY <1>10 DEF IInv, check_owner, Step, MutexTypeOK, MutualExclusion,
      UnownedIsFree, CPUInv, Running, Inside, Chained, Labels
  <2>2. SearchInv' /\ WipeInv' /\ NoMissedWakeup'
    BY <1>10 DEF IInv, check_owner, Step, SearchInv, WipeInv,
      NoMissedWakeup, Sleepers, Chained
  <2>3. ChainInv'
    BY <1>10, ThreadsAssumption DEF IInv, check_owner, Step, ChainInv,
      Chained
  <2>4. RecheckInv'
    BY <1>10 DEF IInv, check_owner, Step, RecheckInv
  <2> QED BY <2>1, <2>2, <2>3, <2>4 DEF IInv
<1>11. ASSUME NEW t \in Threads, check_waiters(t) PROVE IInv'
  <2>1. MutexTypeOK' /\ MutualExclusion' /\ UnownedIsFree' /\ CPUInv'
    BY <1>11 DEF IInv, check_waiters, Step, MutexTypeOK, MutualExclusion,
      UnownedIsFree, CPUInv, Running, Inside, Chained, Labels
  <2>2. SearchInv' /\ WipeInv' /\ NoMissedWakeup'
    BY <1>11 DEF IInv, check_waiters, Step, SearchInv, WipeInv,
      NoMissedWakeup, Sleepers, Chained
  <2>3. ChainInv'
    BY <1>11, ThreadsAssumption DEF IInv, check_waiters, Step, ChainInv,
      Chained
  <2>4. RecheckInv'
    BY <1>11 DEF IInv, check_waiters, Step, RecheckInv
  <2> QED BY <2>1, <2>2, <2>3, <2>4 DEF IInv
<1>12. ASSUME NEW t \in Threads, turnstile_block(t) PROVE IInv'
  <2>1. MutexTypeOK' /\ MutualExclusion' /\ UnownedIsFree'
    BY <1>12 DEF IInv, turnstile_block, MutexTypeOK, MutualExclusion,
      UnownedIsFree, Inside, Labels
  <2>2. SearchInv' /\ WipeInv' /\ RecheckInv'
    BY <1>12 DEF IInv, turnstile_block, UnownedIsFree, SearchInv, WipeInv,
      RecheckInv, Chained, FREE
  <2>3. CPUInv'
    BY <1>12, ThreadsAssumption DEF IInv, turnstile_block, CPUInv, Running
  <2>4. ChainInv'
    BY <1>12, ThreadsAssumption DEF IInv, turnstile_block, MutexTypeOK,
      ChainInv, Chained
  \* The waiters bit is set, and by WipeInv the owner is not about to clear it.
  <2>5. NoMissedWakeup'
    BY <1>12 DEF IInv, turnstile_block, UnownedIsFree, WipeInv,
      RecheckInv, NoMissedWakeup, FREE
  <2> QED BY <2>1, <2>2, <2>3, <2>4, <2>5 DEF IInv
<1>13. ASSUME NEW t \in Threads, mutex_exit_load(t) PROVE IInv'
  <2>1. MutexTypeOK' /\ MutualExclusion' /\ UnownedIsFree' /\ CPUInv' /\ ChainInv'
    BY <1>13 DEF IInv, mutex_exit_load, Step, MutexTypeOK, MutualExclusion,
      UnownedIsFree, CPUInv, ChainInv, Running, Inside, Chained, Labels
  <2>2. SearchInv' /\ RecheckInv'
    BY <1>13 DEF IInv, mutex_exit_load, Step, SearchInv, RecheckInv,
      Chained
  \* The owner loads the word without the bit, or goes the long way.
  <2>3. WipeInv'
    BY <1>13 DEF IInv, mutex_exit_load, Step, WipeInv, HeldBy
  <2>4. NoMissedWakeup'
    BY <1>13 DEF IInv, mutex_exit_load, Step, NoMissedWakeup, Sleepers,
      HeldBy
  <2> QED BY <2>1, <2>2, <2>3, <2>4 DEF IInv
<1>14. ASSUME NEW t \in Threads, mutex_exit_clear(t) PROVE IInv'
  <2>1. MutexTypeOK' /\ UnownedIsFree' /\ CPUInv' /\ ChainInv'
    BY <1>14 DEF IInv, mutex_exit_clear, Step, MutexTypeOK, UnownedIsFree,
      CPUInv, ChainInv, Running, Chained, Labels, FREE
  <2>2. SearchInv' /\ WipeInv'
    BY <1>14 DEF IInv, mutex_exit_clear, Step, SearchInv, WipeInv,
      Chained, FREE
  <2>3. MutualExclusion'
    BY <1>14, ThreadsAssumption DEF IInv, mutex_exit_clear, Step, MutexTypeOK,
      MutualExclusion, Inside, FREE
  \* A thread about to block would contradict WipeInv.
  <2>4. RecheckInv'
    BY <1>14 DEF IInv, mutex_exit_clear, Step, MutualExclusion, WipeInv,
      RecheckInv, Inside, FREE
  \* The sleepers' owner is this thread, which NoMissedWakeup excludes.
  <2>5. NoMissedWakeup'
    BY <1>14 DEF IInv, mutex_exit_clear, Step, MutualExclusion,
      NoMissedWakeup, Sleepers, Inside
  <2> QED BY <2>1, <2>2, <2>3, <2>4, <2>5 DEF IInv
<1>15. ASSUME NEW t \in Threads, mutex_vector_exit(t) PROVE IInv'
  <2>1. MutexTypeOK' /\ UnownedIsFree' /\ CPUInv' /\ ChainInv'
    BY <1>15 DEF IInv, mutex_vector_exit, Step, MutexTypeOK, UnownedIsFree,
      CPUInv, ChainInv, Running, Chained, Labels, FREE
  <2>2. SearchInv' /\ WipeInv'
    BY <1>15 DEF IInv, mutex_vector_exit, Step, SearchInv, WipeInv, FREE
  <2>3. MutualExclusion'
    BY <1>15, ThreadsAssumption DEF IInv, mutex_vector_exit, Step, MutexTypeOK,
      MutualExclusion, Inside, FREE
  \* The turnstile lock is held: nobody is about to block.
  <2>4. RecheckInv'
    BY <1>15 DEF IInv, mutex_vector_exit, Step, ChainInv, RecheckInv,
      Chained
  \* The wakeup is the next step.
  <2>5. NoMissedWakeup'
    BY <1>15 DEF IInv, mutex_vector_exit, Step, MutexTypeOK, NoMissedWakeup
  <2> QED BY <2>1, <2>2, <2>3, <2>4, <2>5 DEF IInv
<1>16. ASSUME NEW t \in Threads, turnstile_wakeup(t) PROVE IInv'
  <2>1. MutexTypeOK' /\ MutualExclusion' /\ UnownedIsFree' /\ CPUInv'
    BY <1>16 DEF IInv, turnstile_wakeup, MutexTypeOK, MutualExclusion,
      UnownedIsFree, CPUInv, Running, Sleepers, Inside, Labels
  <2>2. SearchInv' /\ WipeInv' /\ RecheckInv'
    BY <1>16 DEF IInv, turnstile_wakeup, MutexTypeOK, UnownedIsFree, SearchInv,
      WipeInv, RecheckInv, Chained, FREE
  <2>3. ChainInv'
    BY <1>16, ThreadsAssumption DEF IInv, turnstile_wakeup, ChainInv,
      Chained
  <2>4. NoMissedWakeup'
    BY <1>16 DEF IInv, turnstile_wakeup, NoMissedWakeup, Sleepers
  <2> QED BY <2>1, <2>2, <2>3, <2>4 DEF IInv
<1>17. ASSUME NEW t \in Threads, NEW c \in cpu_list, resume(t, c) PROVE IInv'
  <2>1. MutexTypeOK' /\ MutualExclusion' /\ UnownedIsFree' /\ ChainInv'
    BY <1>17 DEF IInv, resume, MutexTypeOK, MutualExclusion, UnownedIsFree,
      ChainInv
  <2>2. SearchInv' /\ RecheckInv' /\ NoMissedWakeup'
    BY <1>17 DEF IInv, resume, SearchInv, RecheckInv, NoMissedWakeup,
      Sleepers
  <2>3. CPUInv'
    BY <1>17, ThreadsAssumption DEF IInv, resume, MutexTypeOK, CPUInv, Running
  \* By CPUInv the resumed thread is not about to clear the word.
  <2>4. WipeInv'
    BY <1>17 DEF IInv, resume, CPUInv, WipeInv
  <2> QED BY <2>1, <2>2, <2>3, <2>4 DEF IInv
<1>18. ASSUME NEW c \in cpu_list, swtch(c) PROVE IInv'
  <2>1. MutexTypeOK' /\ MutualExclusion' /\ UnownedIsFree' /\ ChainInv'
    BY <1>18 DEF IInv, swtch, MutexTypeOK, MutualExclusion, UnownedIsFree,
      ChainInv, Inside, Chained, Labels
  <2>2. SearchInv' /\ RecheckInv' /\ NoMissedWakeup'
    BY <1>18 DEF IInv, swtch, SearchInv, RecheckInv, NoMissedWakeup,
      Sleepers, Chained
  \* The thread is reset to the start of mutex_exit().
  <2>3. CPUInv'
    BY <1>18, ThreadsAssumption DEF IInv, swtch, MutexTypeOK, CPUInv, Running
  <2>4. WipeInv'
    BY <1>18 DEF IInv, swtch, UnownedIsFree, WipeInv, FREE
  <2> QED BY <2>1, <2>2, <2>3, <2>4 DEF IInv
<1>19. CASE UNCHANGED mutex_vars
  BY <1>19 DEF mutex_vars, IInv, MutexTypeOK, MutualExclusion, UnownedIsFree, CPUInv, ChainInv,
    SearchInv, WipeInv, RecheckInv, NoMissedWakeup, Sleepers, Running
<1> QED
  BY <1>1, <1>2, <1>3, <1>4, <1>5, <1>6, <1>7, <1>8, <1>9, <1>10, <1>11,
    <1>12, <1>13, <1>14, <1>15, <1>16, <1>17, <1>18, <1>19 DEF MutexNext,
    Progress

-----------------------------------------------------------------------------
\* The invariant holds of every behaviour of mutex.c.
THEOREM InductiveInvariant == MutexSpec => []IInv
<1>1. MutexInit => IInv
  BY InitIInv
<1>2. IInv /\ [MutexNext]_mutex_vars => IInv'
  BY NextIInv
<1> QED BY <1>1, <1>2, PTL DEF MutexSpec

\* The lock word names a thread or nobody, on every path through
\* mutex_vector_enter() and mutex_exit().
THEOREM TypeCorrectness == MutexSpec => []MutexTypeOK
<1>1. IInv => MutexTypeOK
  BY DEF IInv
<1> QED BY <1>1, InductiveInvariant, PTL

\* One thread at a time is inside the mutex, although mutex_exit() clears the
\* lock word by a plain store.
THEOREM MutexExclusion == MutexSpec => []MutualExclusion
<1>1. IInv => MutualExclusion
  BY DEF IInv
<1> QED BY <1>1, InductiveInvariant, PTL

\* No path leaves a waiters bit on an unowned mutex, on which the casn of
\* mutex_enter() would fail for ever.
THEOREM UnownedFree == MutexSpec => []UnownedIsFree
<1>1. IInv => UnownedIsFree
  BY DEF IInv
<1> QED BY <1>1, InductiveInvariant, PTL

\* A thread that sleeps in mutex_vector_enter() is one that the owner will
\* find and wake, in every order of the accesses on any number of processors.
THEOREM NoWakeupMissed == MutexSpec => []NoMissedWakeup
<1>1. IInv => NoMissedWakeup
  BY DEF IInv
<1> QED BY <1>1, InductiveInvariant, PTL

\* turnstile_block() never panics on an unowned mutex.
THEOREM BlockOnOwned == MutexSpec => []BlocksOnOwned
<1>1. IInv => BlocksOnOwned
  BY DEF IInv, RecheckInv, SearchInv, BlocksOnOwned, Chained
<1> QED BY <1>1, InductiveInvariant, PTL

-----------------------------------------------------------------------------
(* User-level mutexes.  What the kernel says of a mutex (upi_owner, the    *)
(* list of its owner), what the owner was told, and where the owner is in  *)
(* its system call are kept in three places that change one after the      *)
(* other.  UpiInv says how they relate in every state between.             *)

\* Where a thread waits for mp, with upib_lock dropped.
Waiting(t) == lwp_pc[t] \in {"look", "cycle", "swtch"}

\* Where a thread has mp on its list and was not told so, or not any more.
Between(t) == lwp_pc[t] \in {"took", "handed", "unlocking", "unlock", "dying_unlock"}

\* A thread sleeps for the mutex that it is at, while it waits.
SleepersAreAt == \A m \in Upimutexes : \A t \in sleepq[m] : Waiting(t) /\ mp[t] = m

\* The list of a thread holds mutexes that it owns, and what it waits for is
\* not among them.
ListsOwned ==
  \A t \in Lwps :
    /\ \A m \in t_upimutex[t] : upi_owner[m] = t
    /\ Waiting(t) => mp[t] \in Upimutexes \ t_upimutex[t]
    /\ lwp_pc[t] \in {"retry", "notrecoverable"} => mp[t] \in Upimutexes
    /\ lwp_pc[t] = "dead" => t_upimutex[t] = {}

\* A thread has been told of every mutex of its list and of no other, but of
\* the one that it is at.
ListsTold ==
  \A t \in Lwps :
    /\ Between(t) => mp[t] \in t_upimutex[t] /\ has[t][mp[t]] = "no"
    /\ \A m \in Upimutexes :
         /\ has[t][m] # "no" => m \in t_upimutex[t]
         /\ m \in t_upimutex[t] /\ has[t][m] = "no" => Between(t) /\ mp[t] = m

\* A mutex is on the list of its owner, or was handed over to a waiter that
\* has still to see it, or went astray.
OwnersKnow ==
  \A t \in Lwps, m \in Upimutexes :
    upi_owner[m] = t => m \in t_upimutex[t] \cup stray \/ (Waiting(t) /\ mp[t] = m)

\* A mutex that went astray has an owner that neither has it on its list nor
\* waits for it any more, so that nobody will ever unlock it.
StrayRight ==
  \A m \in stray :
    /\ upi_owner[m] # None
    /\ \A t \in Lwps : m \notin t_upimutex[t] /\ (Waiting(t) /\ mp[t] = m => upi_owner[m] # t)

\* The death of an owner is recorded in user memory until it is put right.
DeathRecorded == \A m \in unsafe : mutex_flag[m] # {}

UpiInv ==
  /\ UpiTypeOK /\ WaitersWillBeWoken /\ SleepersAreAt
  /\ ListsOwned /\ ListsTold /\ OwnersKnow /\ StrayRight
  /\ DeathRecorded /\ OwnerDeathSeen

-----------------------------------------------------------------------------
(* The steps                                                               *)

\* A waiter that is left after a hand-over is counted by the waiter bit.
LEMMA MoreWaiters ==
  ASSUME NEW Q \in SUBSET Lwps, NEW n \in Q, Q \ {n} # {}
  PROVE  Cardinality(Q) > 1
<1>1. IsFiniteSet(Q) /\ IsFiniteSet(Q \ {n})
  BY SetsAssumption, FS_Subset, FS_RemoveElement
<1>2. Cardinality(Q \ {n}) \in Nat /\ Cardinality(Q \ {n}) # 0
  BY <1>1, FS_CardinalityType, FS_EmptySet
<1>3. Cardinality(Q \ {n}) = Cardinality(Q) - 1 /\ Cardinality(Q) \in Nat
  BY <1>1, FS_RemoveElement, FS_CardinalityType
<1> QED BY <1>2, <1>3

\* Who sleeps for nothing but one mutex is on one turnstile at most.
LEMMA OneSleep ==
  ASSUME NEW S \in SUBSET Upimutexes, NEW x, \A m \in S : m = x
  PROVE  Cardinality(S) <= 1
<1>1. IsFiniteSet({x}) /\ Cardinality({x}) = 1
  BY FS_Singleton
<1>2. S \subseteq {x}
  OBVIOUS
<1>3. Cardinality(S) <= Cardinality({x})
  BY <1>1, <1>2, FS_Subset
<1> QED BY <1>1, <1>3

\* lwp_upimutex_lock() up to the moment it has the mutex, or sleeps.
LEMMA LockStep ==
  ASSUME UpiInv, NEW t \in Lwps, NEW m \in Upimutexes, NEW from \in {"user", "retry"},
         lock_mutex(t, m, from)
  PROVE  UpiInv'
<1> USE DEF UpiInv, Waiting, Between
<1>1. /\ lwp_pc[t] \in {"user", "retry"} /\ mp' = [mp EXCEPT ![t] = m]
      /\ wokeup' = [wokeup EXCEPT ![t] = FALSE] /\ gaveup' = gaveup \ {t}
      /\ UNCHANGED <<mutex_flag, has, unsafe, sig, exiting, stray, uflag>>
  BY DEF lock_mutex, user
<1>2. CASE upi_owner[m] = None
  <2>1. /\ upi_owner' = [upi_owner EXCEPT ![m] = t]
        /\ upi_waiter' = [upi_waiter EXCEPT ![m] = FALSE]
        /\ t_upimutex' = [t_upimutex EXCEPT ![t] = @ \cup {m}]
        /\ lwp_pc' = [lwp_pc EXCEPT ![t] = "took"] /\ UNCHANGED sleepq
    BY SetsAssumption, <1>2 DEF lock_mutex, UpiGoto, UpiTypeOK
  <2>a. UpiTypeOK'
    BY <1>1, <1>2, <2>1 DEF UpiTypeOK, Flags
  <2>b. WaitersWillBeWoken'
    BY <1>1, <1>2, <2>1 DEF UpiTypeOK, WaitersWillBeWoken
  <2>c. SleepersAreAt'
    BY <1>1, <1>2, <2>1 DEF UpiTypeOK, SleepersAreAt
  <2>d. ListsOwned'
    BY SetsAssumption, <1>1, <1>2, <2>1 DEF UpiTypeOK, ListsOwned
  <2>e. ListsTold'
    BY SetsAssumption, <1>1, <1>2, <2>1 DEF UpiTypeOK, ListsOwned, ListsTold
  <2>f. OwnersKnow'
    BY <1>1, <1>2, <2>1 DEF UpiTypeOK, ListsOwned, OwnersKnow
  <2>g. DeathRecorded' /\ OwnerDeathSeen'
    BY <1>1, <1>2, <2>1 DEF UpiTypeOK, DeathRecorded, OwnerDeathSeen
  <2>h. StrayRight'
    BY <1>1, <1>2, <2>1 DEF UpiTypeOK, ListsOwned, StrayRight
  <2> QED BY <2>a, <2>b, <2>c, <2>d, <2>e, <2>f, <2>g, <2>h
<1>3. CASE upi_owner[m] = t
  <2>1. lwp_pc' = [lwp_pc EXCEPT ![t] = "user"] /\ UNCHANGED <<upi_owner, upi_waiter, sleepq, t_upimutex>>
    BY SetsAssumption, <1>3 DEF lock_mutex, UpiGoto, UpiReturn, kernel, UpiTypeOK
  <2>a. UpiTypeOK'
    BY <1>1, <1>3, <2>1 DEF UpiTypeOK, Flags
  <2>b. WaitersWillBeWoken'
    BY <1>1, <1>3, <2>1 DEF UpiTypeOK, WaitersWillBeWoken
  <2>c. SleepersAreAt'
    BY <1>1, <1>3, <2>1 DEF UpiTypeOK, SleepersAreAt
  <2>d. ListsOwned'
    BY <1>1, <1>3, <2>1 DEF UpiTypeOK, ListsOwned
  <2>e. ListsTold'
    BY <1>1, <1>3, <2>1 DEF UpiTypeOK, ListsOwned, ListsTold
  <2>f. OwnersKnow'
    BY <1>1, <1>3, <2>1 DEF UpiTypeOK, ListsOwned, OwnersKnow
  <2>g. DeathRecorded' /\ OwnerDeathSeen'
    BY <1>1, <1>3, <2>1 DEF UpiTypeOK, DeathRecorded, OwnerDeathSeen
  <2>h. StrayRight'
    BY <1>1, <1>3, <2>1 DEF UpiTypeOK, ListsOwned, StrayRight
  <2> QED BY <2>a, <2>b, <2>c, <2>d, <2>e, <2>f, <2>g, <2>h
<1>4. CASE upi_owner[m] \notin {t, None}
  <2>1. PICK l \in {"cycle", "look"} :
          /\ upi_waiter' = [upi_waiter EXCEPT ![m] = TRUE]
          /\ sleepq' = [sleepq EXCEPT ![m] = @ \cup {t}]
          /\ lwp_pc' = [lwp_pc EXCEPT ![t] = l] /\ UNCHANGED <<upi_owner, t_upimutex>>
    BY <1>4 DEF lock_mutex, UpiGoto
  <2>a. UpiTypeOK'
    BY <1>1, <1>4, <2>1 DEF UpiTypeOK, Flags
  <2>b. WaitersWillBeWoken'
    BY <1>1, <1>4, <2>1 DEF UpiTypeOK, WaitersWillBeWoken
  <2>c. SleepersAreAt'
    BY <1>1, <1>4, <2>1 DEF UpiTypeOK, SleepersAreAt
  <2>d. ListsOwned'
    BY <1>1, <1>4, <2>1 DEF UpiTypeOK, ListsOwned
  <2>e. ListsTold'
    BY <1>1, <1>4, <2>1 DEF UpiTypeOK, ListsOwned, ListsTold
  <2>f. OwnersKnow'
    BY <1>1, <1>4, <2>1 DEF UpiTypeOK, ListsOwned, OwnersKnow
  <2>g. DeathRecorded' /\ OwnerDeathSeen'
    BY <1>1, <1>4, <2>1 DEF UpiTypeOK, DeathRecorded, OwnerDeathSeen
  <2>h. StrayRight'
    BY <1>1, <1>4, <2>1 DEF UpiTypeOK, ListsOwned, StrayRight
  <2> QED BY <2>a, <2>b, <2>c, <2>d, <2>e, <2>f, <2>g, <2>h
<1> QED BY <1>2, <1>3, <1>4

\* Who stops waiting for the mutex it was given, without a look, leaves it on
\* nobody's list.
LEMMA GoesAstray ==
  ASSUME UpiInv, NEW t \in Lwps, NEW l \in {"user", "retry", "notrecoverable"}, Waiting(t),
         stray' = IF upi_owner[mp[t]] = t THEN stray \cup {mp[t]} ELSE stray,
         lwp_pc' = [lwp_pc EXCEPT ![t] = l], UNCHANGED <<upi_owner, t_upimutex, mp>>
  PROVE  StrayRight'
<1>1. lwp_pc'[t] = l /\ \A u \in Lwps : u # t => lwp_pc'[u] = lwp_pc[u]
  BY DEF UpiInv, UpiTypeOK
<1>2. ASSUME NEW m \in stray', NEW u \in Lwps
      PROVE  /\ upi_owner[m] # None /\ m \notin t_upimutex[u]
             /\ Waiting(u)' /\ mp[u] = m => upi_owner[m] # u
  <2>1. CASE m \in stray
    BY <1>1, <2>1 DEF UpiInv, StrayRight, Waiting
  <2>2. CASE m \notin stray
    <3>1. m = mp[t] /\ upi_owner[m] = t
      BY <1>2, <2>2
    <3>2. upi_owner[m] # None /\ (Waiting(u)' => upi_owner[m] # u)
      BY SetsAssumption, <1>1, <3>1 DEF Waiting
    <3>3. m \notin t_upimutex[u]
      BY <3>1 DEF UpiInv, ListsOwned
    <3> QED BY <3>2, <3>3
  <2> QED BY <2>1, <2>2
<1>3. \A m \in stray' : upi_owner[m] # None
  BY <1>2
<1> QED BY <1>2, <1>3 DEF StrayRight

\* A thread wakes itself because of a cycle; it may have the mutex by now.
LEMMA CycleStep ==
  ASSUME UpiInv, NEW t \in Lwps, block_cycle(t)
  PROVE  UpiInv'
<1> USE DEF UpiInv, Waiting, Between
<1>1. /\ lwp_pc[t] = "cycle" /\ lwp_pc' = [lwp_pc EXCEPT ![t] = "user"]
      /\ sleepq' = [m \in Upimutexes |-> sleepq[m] \ {t}]
      /\ stray' = IF upi_owner[mp[t]] = t THEN stray \cup {mp[t]} ELSE stray
      /\ UNCHANGED <<upi_owner, upi_waiter, mutex_flag, has, unsafe, t_upimutex, sig, exiting,
                     gaveup, mp, wokeup, uflag>>
  BY DEF block_cycle, setrun, UpiReturn, UpiGoto, Owned, Stray, user
<1>2. mp[t] \in Upimutexes
  BY <1>1 DEF ListsOwned
<1>a. UpiTypeOK'
  BY <1>1, <1>2 DEF UpiTypeOK, Flags
<1>b. WaitersWillBeWoken'
  BY <1>1 DEF UpiTypeOK, WaitersWillBeWoken
<1>c. SleepersAreAt'
  BY <1>1 DEF UpiTypeOK, SleepersAreAt
<1>d. ListsOwned'
  BY <1>1 DEF UpiTypeOK, ListsOwned
<1>e. ListsTold'
  BY <1>1 DEF UpiTypeOK, ListsOwned, ListsTold
<1>f. OwnersKnow'
  BY <1>1 DEF UpiTypeOK, ListsOwned, OwnersKnow
<1>g. DeathRecorded' /\ OwnerDeathSeen'
  BY <1>1 DEF UpiTypeOK, DeathRecorded, OwnerDeathSeen
<1>h. StrayRight'
  BY <1>1, GoesAstray
<1> QED BY <1>a, <1>b, <1>c, <1>d, <1>e, <1>f, <1>g, <1>h

\* A thread looks for signals before it switches.
LEMMA LookStep ==
  ASSUME UpiInv, NEW t \in Lwps, block_look(t)
  PROVE  UpiInv'
<1> USE DEF UpiInv, Waiting, Between
<1>1. /\ lwp_pc[t] = "look" /\ lwp_pc' = [lwp_pc EXCEPT ![t] = "swtch"]
      /\ sleepq' = [m \in Upimutexes |-> sleepq[m] \ {t}] \/ sleepq' = sleepq
      /\ wokeup' \in [Lwps -> BOOLEAN]
      /\ UNCHANGED <<upi_owner, upi_waiter, mutex_flag, has, unsafe, t_upimutex, sig, exiting,
                     stray, gaveup, mp, uflag>>
  BY DEF block_look, setrun, UpiGoto, ISSIG, user, UpiTypeOK
<1>a. UpiTypeOK'
  BY <1>1 DEF UpiTypeOK, Flags
<1>b. WaitersWillBeWoken'
  BY <1>1 DEF UpiTypeOK, WaitersWillBeWoken
<1>c. SleepersAreAt'
  BY <1>1 DEF UpiTypeOK, SleepersAreAt
<1>d. ListsOwned'
  BY <1>1 DEF UpiTypeOK, ListsOwned
<1>e. ListsTold'
  BY <1>1 DEF UpiTypeOK, ListsOwned, ListsTold
<1>f. OwnersKnow'
  BY <1>1 DEF UpiTypeOK, ListsOwned, OwnersKnow
<1>g. DeathRecorded' /\ OwnerDeathSeen'
  BY <1>1 DEF UpiTypeOK, DeathRecorded, OwnerDeathSeen
<1>h. StrayRight'
  BY <1>1 DEF UpiTypeOK, ListsOwned, StrayRight
<1> QED BY <1>a, <1>b, <1>c, <1>d, <1>e, <1>f, <1>g, <1>h

\* A wait is interrupted; a mutex that was handed over is to be unlocked.
LEMMA IntrStep ==
  ASSUME UpiInv, NEW t \in Lwps, block_intr(t)
  PROVE  UpiInv'
<1> USE DEF UpiInv, Waiting, Between
<1>1. /\ lwp_pc[t] = "swtch" /\ sig' = sig \ {t}
      /\ UNCHANGED <<upi_owner, upi_waiter, sleepq, mutex_flag, has, unsafe, exiting,
                     gaveup, mp, wokeup>>
      /\ \A m \in Upimutexes : t \notin sleepq[m]
  BY DEF block_intr, Awake, Asleep, kernel, user
<1>2. mp[t] \in Upimutexes
  BY <1>1 DEF ListsOwned
<1>3. ASSUME upi_owner[mp[t]] = t, UNCHANGED stray,
             t_upimutex' = [t_upimutex EXCEPT ![t] = @ \cup {mp[t]}],
             uflag' = [uflag EXCEPT ![t] = {}], lwp_pc' = [lwp_pc EXCEPT ![t] = "unlock"]
      PROVE  UpiInv'
  <2>a. UpiTypeOK'
    BY <1>1, <1>2, <1>3 DEF UpiTypeOK, Flags
  <2>b. WaitersWillBeWoken'
    BY <1>1, <1>2, <1>3 DEF UpiTypeOK, WaitersWillBeWoken
  <2>c. SleepersAreAt'
    BY <1>1, <1>2, <1>3 DEF UpiTypeOK, SleepersAreAt
  <2>d. ListsOwned'
    BY <1>1, <1>2, <1>3 DEF UpiTypeOK, ListsOwned
  <2>e. ListsTold'
    BY <1>1, <1>2, <1>3 DEF UpiTypeOK, ListsOwned, ListsTold
  <2>f. OwnersKnow'
    BY <1>1, <1>2, <1>3 DEF UpiTypeOK, ListsOwned, OwnersKnow
  <2>g. DeathRecorded' /\ OwnerDeathSeen'
    BY <1>1, <1>2, <1>3 DEF UpiTypeOK, DeathRecorded, OwnerDeathSeen
  <2>h. StrayRight'
    BY <1>1, <1>2, <1>3 DEF UpiTypeOK, ListsOwned, StrayRight
  <2> QED BY <2>a, <2>b, <2>c, <2>d, <2>e, <2>f, <2>g, <2>h
<1>4. ASSUME stray' = IF upi_owner[mp[t]] = t THEN stray \cup {mp[t]} ELSE stray,
             lwp_pc' = [lwp_pc EXCEPT ![t] = "user"], UNCHANGED <<t_upimutex, uflag>>
      PROVE  UpiInv'
  <2>a. UpiTypeOK'
    BY <1>1, <1>2, <1>4 DEF UpiTypeOK, Flags
  <2>b. WaitersWillBeWoken'
    BY <1>1, <1>2, <1>4 DEF UpiTypeOK, WaitersWillBeWoken
  <2>c. SleepersAreAt'
    BY <1>1, <1>2, <1>4 DEF UpiTypeOK, SleepersAreAt
  <2>d. ListsOwned'
    BY <1>1, <1>2, <1>4 DEF UpiTypeOK, ListsOwned
  <2>e. ListsTold'
    BY <1>1, <1>2, <1>4 DEF UpiTypeOK, ListsOwned, ListsTold
  <2>f. OwnersKnow'
    BY <1>1, <1>2, <1>4 DEF UpiTypeOK, ListsOwned, OwnersKnow
  <2>g. DeathRecorded' /\ OwnerDeathSeen'
    BY <1>1, <1>2, <1>4 DEF UpiTypeOK, DeathRecorded, OwnerDeathSeen
  <2>h. StrayRight'
    BY <1>1, <1>4, GoesAstray
  <2> QED BY <2>a, <2>b, <2>c, <2>d, <2>e, <2>f, <2>g, <2>h
<1> QED BY <1>3, <1>4 DEF block_intr, Owned, Stray, UpiGoto, UpiReturn

\* A wait ends without a signal.
LEMMA DoneStep ==
  ASSUME UpiInv, NEW t \in Lwps, block_done(t)
  PROVE  UpiInv'
<1> USE DEF UpiInv, Waiting, Between
<1>1. /\ lwp_pc[t] = "swtch" /\ sig' = sig \ {t}
      /\ UNCHANGED <<upi_owner, upi_waiter, sleepq, mutex_flag, has, unsafe, exiting,
                     gaveup, mp, wokeup, uflag>>
      /\ \A m \in Upimutexes : t \notin sleepq[m]
  BY DEF block_done, Awake, Asleep, kernel, user
<1>2. mp[t] \in Upimutexes
  BY <1>1 DEF ListsOwned
<1>3. ASSUME upi_owner[mp[t]] = t, UNCHANGED stray,
             t_upimutex' = [t_upimutex EXCEPT ![t] = @ \cup {mp[t]}],
             lwp_pc' = [lwp_pc EXCEPT ![t] = "handed"]
      PROVE  UpiInv'
  <2>a. UpiTypeOK'
    BY <1>1, <1>2, <1>3 DEF UpiTypeOK, Flags
  <2>b. WaitersWillBeWoken'
    BY <1>1, <1>2, <1>3 DEF UpiTypeOK, WaitersWillBeWoken
  <2>c. SleepersAreAt'
    BY <1>1, <1>2, <1>3 DEF UpiTypeOK, SleepersAreAt
  <2>d. ListsOwned'
    BY <1>1, <1>2, <1>3 DEF UpiTypeOK, ListsOwned
  <2>e. ListsTold'
    BY <1>1, <1>2, <1>3 DEF UpiTypeOK, ListsOwned, ListsTold
  <2>f. OwnersKnow'
    BY <1>1, <1>2, <1>3 DEF UpiTypeOK, ListsOwned, OwnersKnow
  <2>g. DeathRecorded' /\ OwnerDeathSeen'
    BY <1>1, <1>2, <1>3 DEF UpiTypeOK, DeathRecorded, OwnerDeathSeen
  <2>h. StrayRight'
    BY <1>1, <1>2, <1>3 DEF UpiTypeOK, ListsOwned, StrayRight
  <2> QED BY <2>a, <2>b, <2>c, <2>d, <2>e, <2>f, <2>g, <2>h
<1>4. ASSUME NEW l \in {"retry", "notrecoverable"}, UNCHANGED t_upimutex,
             stray' = IF upi_owner[mp[t]] = t THEN stray \cup {mp[t]} ELSE stray,
             lwp_pc' = [lwp_pc EXCEPT ![t] = l]
      PROVE  UpiInv'
  <2>a. UpiTypeOK'
    BY <1>1, <1>2, <1>4 DEF UpiTypeOK, Flags
  <2>b. WaitersWillBeWoken'
    BY <1>1, <1>2, <1>4 DEF UpiTypeOK, WaitersWillBeWoken
  <2>c. SleepersAreAt'
    BY <1>1, <1>2, <1>4 DEF UpiTypeOK, SleepersAreAt
  <2>d. ListsOwned'
    BY <1>1, <1>2, <1>4 DEF UpiTypeOK, ListsOwned
  <2>e. ListsTold'
    BY <1>1, <1>2, <1>4 DEF UpiTypeOK, ListsOwned, ListsTold
  <2>f. OwnersKnow'
    BY <1>1, <1>2, <1>4 DEF UpiTypeOK, ListsOwned, OwnersKnow
  <2>g. DeathRecorded' /\ OwnerDeathSeen'
    BY <1>1, <1>2, <1>4 DEF UpiTypeOK, DeathRecorded, OwnerDeathSeen
  <2>h. StrayRight'
    BY <1>1, <1>4, GoesAstray
  <2> QED BY <2>a, <2>b, <2>c, <2>d, <2>e, <2>f, <2>g, <2>h
<1> QED BY <1>3, <1>4 DEF block_done, Owned, Stray, UpiGoto

\* Steps that change nothing but where the thread is, and the flags it has read.
LEMMA PlaceStep ==
  ASSUME UpiInv, NEW t \in Lwps,
         lock_notrecoverable(t) \/ lock_fault(t) \/ unlock_fault(t) \/ upimutex_cleanup(t) \/ dead(t)
  PROVE  UpiInv'
<1> USE DEF UpiInv, Waiting, Between
<1>1. PICK l \in {"user", "unlock", "dying", "dead"} :
        /\ lwp_pc' = [lwp_pc EXCEPT ![t] = l]
        /\ l = "user" => lwp_pc[t] = "notrecoverable"
        /\ l = "unlock" => lwp_pc[t] \in {"took", "handed", "unlocking"}
        /\ l = "dying" => lwp_pc[t] = "user"
        /\ l = "dead" => lwp_pc[t] = "dying" /\ t_upimutex[t] = {}
  BY DEF lock_notrecoverable, lock_fault, unlock_fault, upimutex_cleanup, dead, UpiGoto, UpiReturn
<1>2. /\ uflag' = uflag \/ uflag' = [uflag EXCEPT ![t] = {}]
      /\ UNCHANGED <<upi_owner, upi_waiter, sleepq, mutex_flag, has, unsafe, t_upimutex, sig,
                     exiting, stray, gaveup, mp, wokeup>>
  BY DEF lock_notrecoverable, lock_fault, unlock_fault, upimutex_cleanup, dead, kernel, user
<1>a. UpiTypeOK'
  BY <1>1, <1>2 DEF UpiTypeOK, Flags
<1>b. WaitersWillBeWoken'
  BY <1>1, <1>2 DEF UpiTypeOK, WaitersWillBeWoken
<1>c. SleepersAreAt'
  BY <1>1, <1>2 DEF UpiTypeOK, SleepersAreAt
<1>d. ListsOwned'
  BY <1>1, <1>2 DEF UpiTypeOK, ListsOwned
<1>e. ListsTold'
  BY <1>1, <1>2 DEF UpiTypeOK, ListsOwned, ListsTold
<1>f. OwnersKnow'
  BY <1>1, <1>2 DEF UpiTypeOK, ListsOwned, OwnersKnow
<1>g. DeathRecorded' /\ OwnerDeathSeen'
  BY <1>1, <1>2 DEF UpiTypeOK, DeathRecorded, OwnerDeathSeen
<1>h. StrayRight'
  BY <1>1, <1>2 DEF UpiTypeOK, ListsOwned, StrayRight
<1> QED BY <1>a, <1>b, <1>c, <1>d, <1>e, <1>f, <1>g, <1>h

\* The flag is read: the mutex is got, or is to be unlocked.
LEMMA FlagStep ==
  ASSUME UpiInv, NEW t \in Lwps, lock_flag(t)
  PROVE  UpiInv'
<1> USE DEF UpiInv, Waiting, Between
<1>1. /\ lwp_pc[t] \in {"took", "handed"} /\ uflag' = [uflag EXCEPT ![t] = mutex_flag[mp[t]]]
      /\ UNCHANGED <<upi_owner, upi_waiter, sleepq, mutex_flag, unsafe, t_upimutex, sig,
                     exiting, stray, gaveup, mp, wokeup>>
  BY DEF lock_flag, kernel
<1>2. mp[t] \in Upimutexes
  BY <1>1 DEF ListsTold, UpiTypeOK
<1>3. CASE lwp_pc' = [lwp_pc EXCEPT ![t] = "unlock"] /\ UNCHANGED has
  <2>a. UpiTypeOK'
    BY <1>1, <1>2, <1>3 DEF UpiTypeOK, Flags
  <2>b. WaitersWillBeWoken'
    BY <1>1, <1>2, <1>3 DEF UpiTypeOK, WaitersWillBeWoken
  <2>c. SleepersAreAt'
    BY <1>1, <1>2, <1>3 DEF UpiTypeOK, SleepersAreAt
  <2>d. ListsOwned'
    BY <1>1, <1>2, <1>3 DEF UpiTypeOK, ListsOwned
  <2>e. ListsTold'
    BY <1>1, <1>2, <1>3 DEF UpiTypeOK, ListsOwned, ListsTold
  <2>f. OwnersKnow'
    BY <1>1, <1>2, <1>3 DEF UpiTypeOK, ListsOwned, OwnersKnow
  <2>g. DeathRecorded' /\ OwnerDeathSeen'
    BY <1>1, <1>2, <1>3 DEF UpiTypeOK, DeathRecorded, OwnerDeathSeen
  <2>h. StrayRight'
    BY <1>1, <1>2, <1>3 DEF UpiTypeOK, ListsOwned, StrayRight
  <2> QED BY <2>a, <2>b, <2>c, <2>d, <2>e, <2>f, <2>g, <2>h
<1>4. ASSUME NEW what \in {"ok", "dead"}, has' = [has EXCEPT ![t][mp[t]] = what],
             lwp_pc' = [lwp_pc EXCEPT ![t] = "user"],
             what = "ok" => "OWNERDEAD" \notin mutex_flag[mp[t]]
      PROVE  UpiInv'
  <2>a. UpiTypeOK'
    BY <1>1, <1>2, <1>4 DEF UpiTypeOK, Flags
  <2>b. WaitersWillBeWoken'
    BY <1>1, <1>2, <1>4 DEF UpiTypeOK, WaitersWillBeWoken
  <2>c. SleepersAreAt'
    BY <1>1, <1>2, <1>4 DEF UpiTypeOK, SleepersAreAt
  <2>d. ListsOwned'
    BY <1>1, <1>2, <1>4 DEF UpiTypeOK, ListsOwned
  <2>e. ListsTold'
    BY <1>1, <1>2, <1>4 DEF UpiTypeOK, ListsOwned, ListsTold
  <2>f. OwnersKnow'
    BY <1>1, <1>2, <1>4 DEF UpiTypeOK, ListsOwned, OwnersKnow
  <2>g. DeathRecorded' /\ OwnerDeathSeen'
    BY <1>1, <1>2, <1>4 DEF UpiTypeOK, Flags, DeathRecorded, OwnerDeathSeen
  <2>h. StrayRight'
    BY <1>1, <1>2, <1>4 DEF UpiTypeOK, ListsOwned, StrayRight
  <2> QED BY <2>a, <2>b, <2>c, <2>d, <2>e, <2>f, <2>g, <2>h
<1>5. \/ lwp_pc' = [lwp_pc EXCEPT ![t] = "unlock"] /\ UNCHANGED has
      \/ \E what \in {"ok", "dead"} :
           /\ has' = [has EXCEPT ![t][mp[t]] = what] /\ lwp_pc' = [lwp_pc EXCEPT ![t] = "user"]
           /\ what = "ok" => "OWNERDEAD" \notin mutex_flag[mp[t]]
  BY DEF lock_flag, Takes, Told, UpiGoto, UpiReturn
<1> QED BY <1>3, <1>4, <1>5

\* upimutex_unlock(): a hand-over, or the end of the upimutex.
LEMMA UnlockStep ==
  ASSUME UpiInv, NEW t \in Lwps, upimutex_unlock(t)
  PROVE  UpiInv'
<1> USE DEF UpiInv, Waiting, Between
<1> DEFINE m == mp[t]
<1>1. PICK l \in {"user", "dying"} :
        /\ lwp_pc[t] \in {"unlock", "dying_unlock"} /\ lwp_pc' = [lwp_pc EXCEPT ![t] = l]
        /\ t_upimutex' = [t_upimutex EXCEPT ![t] = @ \ {m}]
        /\ UNCHANGED <<mutex_flag, has, unsafe, sig, exiting, stray, mp, wokeup, uflag>>
  BY DEF upimutex_unlock, UpiGoto, user
<1>2. m \in Upimutexes /\ m \in t_upimutex[t] /\ upi_owner[m] = t /\ has[t][m] = "no"
  BY <1>1 DEF ListsTold, ListsOwned, UpiTypeOK
<1>3. ASSUME NEW n \in sleepq[m], UNCHANGED gaveup,
             upi_owner' = [upi_owner EXCEPT ![m] = n],
             upi_waiter' = [upi_waiter EXCEPT ![m] = Cardinality(sleepq[m]) > 1],
             sleepq' = [sleepq EXCEPT ![m] = @ \ {n}]
      PROVE  UpiInv'
  <2> HIDE DEF m
  <2>1. n \in Lwps /\ Waiting(n) /\ mp[n] = m
    BY <1>2, <1>3 DEF SleepersAreAt, UpiTypeOK
  <2>2. sleepq[m] \ {n} # {} => upi_waiter'[m]
    BY <1>2, <1>3, MoreWaiters DEF UpiTypeOK
  <2>a. UpiTypeOK'
    BY <1>1, <1>2, <1>3, <2>1, <2>2 DEF UpiTypeOK, Flags
  <2>b. WaitersWillBeWoken'
    BY SetsAssumption, <1>1, <1>2, <1>3, <2>1, <2>2 DEF UpiTypeOK, WaitersWillBeWoken
  <2>c. SleepersAreAt'
    BY <1>1, <1>2, <1>3, <2>1, <2>2 DEF UpiTypeOK, SleepersAreAt
  <2>d. ListsOwned'
    BY <1>1, <1>2, <1>3, <2>1, <2>2 DEF UpiTypeOK, ListsOwned
  <2>e. ListsTold'
    BY <1>1, <1>2, <1>3, <2>1, <2>2 DEF UpiTypeOK, ListsOwned, ListsTold
  <2>f. OwnersKnow'
    BY <1>1, <1>2, <1>3, <2>1, <2>2 DEF UpiTypeOK, ListsOwned, OwnersKnow
  <2>g. DeathRecorded' /\ OwnerDeathSeen'
    BY <1>1, <1>2, <1>3, <2>1, <2>2 DEF UpiTypeOK, DeathRecorded, OwnerDeathSeen
  <2>h. StrayRight'
    BY <1>1, <1>2, <1>3, <2>1, <2>2 DEF UpiTypeOK, ListsOwned, StrayRight
  <2> QED BY <2>a, <2>b, <2>c, <2>d, <2>e, <2>f, <2>g, <2>h
<1>4. ASSUME upi_owner' = [upi_owner EXCEPT ![m] = None],
             upi_waiter' = [upi_waiter EXCEPT ![m] = FALSE],
             sleepq' = IF upi_waiter[m] THEN [sleepq EXCEPT ![m] = {}] ELSE sleepq,
             gaveup' \in SUBSET Lwps
      PROVE  UpiInv'
  <2> HIDE DEF m
  <2>1. sleepq' = [sleepq EXCEPT ![m] = {}]
    BY <1>2, <1>4 DEF UpiTypeOK, WaitersWillBeWoken
  <2>a. UpiTypeOK'
    BY <1>1, <1>2, <1>4, <2>1 DEF UpiTypeOK, Flags
  <2>b. WaitersWillBeWoken'
    BY <1>1, <1>2, <1>4, <2>1 DEF UpiTypeOK, WaitersWillBeWoken
  <2>c. SleepersAreAt'
    BY <1>1, <1>2, <1>4, <2>1 DEF UpiTypeOK, SleepersAreAt
  <2>d. ListsOwned'
    BY <1>1, <1>2, <1>4, <2>1 DEF UpiTypeOK, ListsOwned
  <2>e. ListsTold'
    BY <1>1, <1>2, <1>4, <2>1 DEF UpiTypeOK, ListsOwned, ListsTold
  <2>f. OwnersKnow'
    BY SetsAssumption, <1>1, <1>2, <1>4, <2>1 DEF UpiTypeOK, ListsOwned, OwnersKnow
  <2>g. DeathRecorded' /\ OwnerDeathSeen'
    BY <1>1, <1>2, <1>4, <2>1 DEF UpiTypeOK, DeathRecorded, OwnerDeathSeen
  <2>h. StrayRight'
    BY SetsAssumption, <1>1, <1>2, <1>4, <2>1 DEF UpiTypeOK, ListsOwned, StrayRight
  <2> QED BY <2>a, <2>b, <2>c, <2>d, <2>e, <2>f, <2>g, <2>h
<1>5. gaveup \cup sleepq[m] \in SUBSET Lwps
  BY <1>2 DEF UpiTypeOK
<1> QED BY <1>3, <1>4, <1>5 DEF upimutex_unlock, HandOver, UpiTypeOK

\* lwp_upimutex_unlock() by the owner.
LEMMA CallUnlockStep ==
  ASSUME UpiInv, NEW t \in Lwps, NEW m \in Upimutexes, lwp_upimutex_unlock(t, m)
  PROVE  UpiInv'
<1> USE DEF UpiInv, Waiting, Between
<1>1. /\ lwp_pc[t] = "user" /\ has[t][m] # "no" /\ upi_owner[m] = t
      /\ mp' = [mp EXCEPT ![t] = m] /\ has' = [has EXCEPT ![t][m] = "no"]
      /\ lwp_pc' = [lwp_pc EXCEPT ![t] = "unlocking"]
      /\ UNCHANGED <<upi_owner, upi_waiter, sleepq, mutex_flag, unsafe, t_upimutex, sig, exiting,
                     stray, gaveup, wokeup, uflag>>
  BY DEF lwp_upimutex_unlock, Told, UpiGoto, kernel
<1>a. UpiTypeOK'
  BY <1>1 DEF UpiTypeOK, Flags
<1>b. WaitersWillBeWoken'
  BY <1>1 DEF UpiTypeOK, WaitersWillBeWoken
<1>c. SleepersAreAt'
  BY <1>1 DEF UpiTypeOK, SleepersAreAt
<1>d. ListsOwned'
  BY <1>1 DEF UpiTypeOK, ListsOwned
<1>e. ListsTold'
  BY <1>1 DEF UpiTypeOK, ListsOwned, ListsTold
<1>f. OwnersKnow'
  BY <1>1 DEF UpiTypeOK, ListsOwned, OwnersKnow
<1>g. DeathRecorded' /\ OwnerDeathSeen'
  BY <1>1 DEF UpiTypeOK, DeathRecorded, OwnerDeathSeen
<1>h. StrayRight'
  BY <1>1 DEF UpiTypeOK, ListsOwned, StrayRight
<1> QED BY <1>a, <1>b, <1>c, <1>d, <1>e, <1>f, <1>g, <1>h

\* The flag of a mutex that was not put right becomes NOTRECOVERABLE.
LEMMA UnlockFlagStep ==
  ASSUME UpiInv, NEW t \in Lwps, unlock_flag(t)
  PROVE  UpiInv'
<1> USE DEF UpiInv, Waiting, Between
<1>1. PICK flag \in SUBSET Flags :
        /\ lwp_pc[t] = "unlocking" /\ lwp_pc' = [lwp_pc EXCEPT ![t] = "unlock"]
        /\ uflag' = [uflag EXCEPT ![t] = flag] /\ mutex_flag' = [mutex_flag EXCEPT ![mp[t]] = flag]
        /\ flag = {"NOTRECOVERABLE"} \/ flag = mutex_flag[mp[t]]
        /\ UNCHANGED <<upi_owner, upi_waiter, sleepq, has, unsafe, t_upimutex, sig, exiting,
                       stray, gaveup, mp, wokeup>>
  BY ZenonT(60) DEF unlock_flag, UpiGoto, kernel, UpiTypeOK, ListsTold, Flags
<1>2. mp[t] \in Upimutexes
  BY <1>1 DEF ListsTold, UpiTypeOK
<1>a. UpiTypeOK'
  BY <1>1, <1>2 DEF UpiTypeOK, Flags
<1>b. WaitersWillBeWoken'
  BY <1>1, <1>2 DEF UpiTypeOK, WaitersWillBeWoken
<1>c. SleepersAreAt'
  BY <1>1, <1>2 DEF UpiTypeOK, SleepersAreAt
<1>d. ListsOwned'
  BY <1>1, <1>2 DEF UpiTypeOK, ListsOwned
<1>e. ListsTold'
  BY <1>1, <1>2 DEF UpiTypeOK, ListsOwned, ListsTold
<1>f. OwnersKnow'
  BY <1>1, <1>2 DEF UpiTypeOK, ListsOwned, OwnersKnow
<1>g. DeathRecorded' /\ OwnerDeathSeen'
  BY <1>1, <1>2 DEF UpiTypeOK, DeathRecorded, OwnerDeathSeen
<1>h. StrayRight'
  BY <1>1, <1>2 DEF UpiTypeOK, ListsOwned, StrayRight
<1> QED BY <1>a, <1>b, <1>c, <1>d, <1>e, <1>f, <1>g, <1>h

\* upi_dead(): the death of the owner is written down, if the mutex is mapped.
LEMMA DeadStep ==
  ASSUME UpiInv, NEW t \in Lwps, NEW m \in Upimutexes, upi_dead(t, m)
  PROVE  UpiInv'
<1> USE DEF UpiInv, Waiting, Between
<1>1. /\ lwp_pc[t] = "dying" /\ m \in t_upimutex[t]
      /\ mp' = [mp EXCEPT ![t] = m] /\ has' = [has EXCEPT ![t][m] = "no"]
      /\ lwp_pc' = [lwp_pc EXCEPT ![t] = "dying_unlock"]
      /\ UNCHANGED <<upi_owner, upi_waiter, sleepq, t_upimutex, sig, exiting, stray, gaveup, wokeup>>
  BY DEF upi_dead, Told, UpiGoto, kernel
<1>2. \/ mutex_flag' = [mutex_flag EXCEPT ![m] = @ \cup {"OWNERDEAD"}] /\ unsafe' = unsafe \cup {m}
      \/ UNCHANGED <<mutex_flag, unsafe>>
  BY DEF upi_dead
<1>3. PICK f \in SUBSET Flags : uflag' = [uflag EXCEPT ![t] = f]
  BY DEF upi_dead, Flags
<1>4. \A u \in Lwps : has[u][m] # "no" => u = t
  BY <1>1 DEF ListsTold, ListsOwned, UpiTypeOK
<1>a. UpiTypeOK'
  <2>1. mutex_flag' \in [Upimutexes -> SUBSET Flags] /\ unsafe' \subseteq Upimutexes
    BY <1>2 DEF UpiTypeOK, Flags
  <2>2. uflag' \in [Lwps -> SUBSET Flags]
    BY <1>3 DEF UpiTypeOK
  <2> QED BY <1>1, <2>1, <2>2 DEF UpiTypeOK
<1>b. WaitersWillBeWoken'
  BY <1>1, <1>2, <1>4 DEF UpiTypeOK, WaitersWillBeWoken
<1>c. SleepersAreAt'
  BY <1>1, <1>2, <1>4 DEF UpiTypeOK, SleepersAreAt
<1>d. ListsOwned'
  BY <1>1, <1>2, <1>4 DEF UpiTypeOK, ListsOwned
<1>e. ListsTold'
  BY <1>1, <1>2, <1>4 DEF UpiTypeOK, ListsOwned, ListsTold
<1>f. OwnersKnow'
  BY <1>1, <1>2, <1>4 DEF UpiTypeOK, ListsOwned, OwnersKnow
<1>g. DeathRecorded' /\ OwnerDeathSeen'
  <2>1. CASE UNCHANGED <<mutex_flag, unsafe>>
    BY <1>1, <2>1 DEF UpiTypeOK, DeathRecorded, OwnerDeathSeen
  <2>2. ASSUME mutex_flag' = [mutex_flag EXCEPT ![m] = @ \cup {"OWNERDEAD"}],
               unsafe' = unsafe \cup {m}
        PROVE  DeathRecorded' /\ OwnerDeathSeen'
    <3>1. DeathRecorded'
      BY <2>2 DEF UpiTypeOK, DeathRecorded
    <3>2. ASSUME NEW u \in Lwps, NEW n \in Upimutexes, has'[u][n] = "ok",
                 "NOTRECOVERABLE" \notin mutex_flag'[n]
          PROVE  n \notin unsafe'
      <4>1. has[u][n] = "ok" /\ n # m
        BY <1>1, <1>4, <3>2 DEF UpiTypeOK
      <4> QED BY <2>2, <3>2, <4>1 DEF UpiTypeOK, OwnerDeathSeen
    <3> QED BY <3>1, <3>2 DEF OwnerDeathSeen
  <2> QED BY <1>2, <2>1, <2>2
<1>h. StrayRight'
  BY <1>1, <1>2, <1>4 DEF UpiTypeOK, ListsOwned, StrayRight
<1> QED BY <1>a, <1>b, <1>c, <1>d, <1>e, <1>f, <1>g, <1>h

\* A signal wakes a thread that sleeps, and exit() all of them.
LEMMA SignalStep ==
  ASSUME UpiInv, exit \/ \E t \in Lwps : eat_signal(t)
  PROVE  UpiInv'
<1> USE DEF UpiInv, Waiting, Between
<1>1. /\ sleepq' \in [Upimutexes -> SUBSET Lwps] /\ \A m \in Upimutexes : sleepq'[m] \subseteq sleepq[m]
      /\ sig' \in SUBSET Lwps /\ exiting' \in BOOLEAN
      /\ UNCHANGED <<upi_owner, upi_waiter, mutex_flag, has, unsafe, t_upimutex, stray, gaveup,
                     lwp_pc, mp, wokeup, uflag>>
  <2>1. CASE exit
    BY <2>1 DEF exit, user, UpiTypeOK
  <2>2. ASSUME NEW t \in Lwps, eat_signal(t)
        PROVE  /\ sleepq' = [m \in Upimutexes |-> sleepq[m] \ {t}] /\ sig' = sig \cup {t}
               /\ UNCHANGED <<exiting, upi_owner, upi_waiter, mutex_flag, has, unsafe, t_upimutex,
                              stray, gaveup, lwp_pc, mp, wokeup, uflag>>
    BY <2>2 DEF eat_signal, setrun, user
  <2>3. CASE \E t \in Lwps : eat_signal(t)
    BY <2>2, <2>3 DEF UpiTypeOK
  <2> QED BY <2>1, <2>3
<1>a. UpiTypeOK'
  BY <1>1 DEF UpiTypeOK, Flags
<1>b. WaitersWillBeWoken'
  BY <1>1 DEF UpiTypeOK, WaitersWillBeWoken
<1>c. SleepersAreAt'
  BY <1>1 DEF UpiTypeOK, SleepersAreAt
<1>d. ListsOwned'
  BY <1>1 DEF UpiTypeOK, ListsOwned
<1>e. ListsTold'
  BY <1>1 DEF UpiTypeOK, ListsOwned, ListsTold
<1>f. OwnersKnow'
  BY <1>1 DEF UpiTypeOK, ListsOwned, OwnersKnow
<1>g. DeathRecorded' /\ OwnerDeathSeen'
  BY <1>1 DEF UpiTypeOK, DeathRecorded, OwnerDeathSeen
<1>h. StrayRight'
  BY <1>1 DEF UpiTypeOK, ListsOwned, StrayRight
<1> QED BY <1>a, <1>b, <1>c, <1>d, <1>e, <1>f, <1>g, <1>h

\* The program has put right what the mutex protects.
LEMMA ConsistentStep ==
  ASSUME UpiInv, NEW t \in Lwps, NEW m \in Upimutexes, consistent(t, m)
  PROVE  UpiInv'
<1> USE DEF UpiInv, Waiting, Between
<1>1. /\ lwp_pc[t] = "user" /\ has[t][m] = "dead"
      /\ has' = [has EXCEPT ![t][m] = "ok"] /\ unsafe' = unsafe \ {m}
      /\ mutex_flag' = [mutex_flag EXCEPT ![m] = @ \ {"OWNERDEAD"}]
      /\ UNCHANGED <<upi_owner, upi_waiter, sleepq, t_upimutex, sig, exiting, stray, gaveup,
                     lwp_pc, mp, wokeup, uflag>>
  BY DEF consistent, Told, kernel
<1>a. UpiTypeOK'
  BY <1>1 DEF UpiTypeOK, Flags
<1>b. WaitersWillBeWoken'
  BY <1>1 DEF UpiTypeOK, WaitersWillBeWoken
<1>c. SleepersAreAt'
  BY <1>1 DEF UpiTypeOK, SleepersAreAt
<1>d. ListsOwned'
  BY <1>1 DEF UpiTypeOK, ListsOwned
<1>e. ListsTold'
  BY <1>1 DEF UpiTypeOK, ListsOwned, ListsTold
<1>f. OwnersKnow'
  BY <1>1 DEF UpiTypeOK, ListsOwned, OwnersKnow
<1>g. DeathRecorded' /\ OwnerDeathSeen'
  BY <1>1 DEF UpiTypeOK, DeathRecorded, OwnerDeathSeen
<1>h. StrayRight'
  BY <1>1 DEF UpiTypeOK, ListsOwned, StrayRight
<1> QED BY <1>a, <1>b, <1>c, <1>d, <1>e, <1>f, <1>g, <1>h

-----------------------------------------------------------------------------
(* The theorems                                                            *)

\* In every reachable state of lwp_sobj.c the queues, owners, lists and flags
\* are related as UpiInv says.
THEOREM UpiInvariant == UpiSpec => []UpiInv
<1>1. UpiInit => UpiInv
  <2> SUFFICES ASSUME UpiInit PROVE UpiInv
    OBVIOUS
  <2> USE DEF UpiInit
  <2>1. UpiTypeOK
    BY DEF UpiTypeOK
  <2>2. WaitersWillBeWoken /\ SleepersAreAt /\ StrayRight /\ DeathRecorded /\ OwnerDeathSeen
    BY DEF WaitersWillBeWoken, SleepersAreAt, StrayRight, DeathRecorded, OwnerDeathSeen
  <2>3. ListsOwned /\ ListsTold
    BY DEF ListsOwned, ListsTold, Waiting, Between
  <2>4. OwnersKnow
    BY SetsAssumption DEF OwnersKnow
  <2> QED BY <2>1, <2>2, <2>3, <2>4 DEF UpiInv
<1>2. UpiInv /\ [UpiNext]_upi_vars => UpiInv'
  <2> SUFFICES ASSUME UpiInv, [UpiNext]_upi_vars PROVE UpiInv'
    OBVIOUS
  <2>1. CASE UNCHANGED upi_vars
    BY <2>1
    DEF upi_vars, kernel, user, UpiInv, UpiTypeOK, WaitersWillBeWoken, SleepersAreAt, ListsOwned,
        ListsTold, OwnersKnow, StrayRight, DeathRecorded, OwnerDeathSeen, Waiting, Between
  <2>2. ASSUME NEW t \in Lwps, Kernel(t) PROVE UpiInv'
    <3>1. CASE lwp_upimutex_retry(t)
      <4>1. lock_mutex(t, mp[t], "retry") /\ lwp_pc[t] = "retry"
        BY <3>1 DEF lwp_upimutex_retry, lock_mutex
      <4>2. mp[t] \in Upimutexes
        BY <4>1 DEF UpiInv, ListsOwned
      <4> QED BY <4>1, <4>2, LockStep
    <3>2. CASE \E m \in Upimutexes : upi_dead(t, m)
      BY <3>2, DeadStep
    <3> QED
      BY <2>2, <3>1, <3>2, CycleStep, LookStep, IntrStep, DoneStep, PlaceStep, FlagStep, UnlockStep,
         UnlockFlagStep DEF Kernel
  <2>3. ASSUME NEW t \in Lwps, NEW m \in Upimutexes,
               lwp_upimutex_lock(t, m) \/ lwp_upimutex_unlock(t, m) \/ consistent(t, m)
        PROVE  UpiInv'
    BY <2>3, LockStep, CallUnlockStep, ConsistentStep DEF lwp_upimutex_lock
  <2>4. ASSUME NEW t \in Lwps, upimutex_cleanup(t) \/ eat_signal(t) PROVE UpiInv'
    BY <2>4, PlaceStep, SignalStep
  <2>5. CASE exit
    BY <2>5, SignalStep
  <2> QED BY <2>1, <2>2, <2>3, <2>4, <2>5 DEF UpiNext
<1> QED BY <1>1, <1>2, PTL DEF UpiSpec

\* No sleeper of turnstile_block() is forgotten: it is on one turnstile, of a
\* mutex that has an owner and the waiter bit set.
THEOREM SleepersAreWoken == UpiSpec => []UpiConsistent
<1>1. UpiInv => UpiConsistent
  <2> SUFFICES ASSUME UpiInv PROVE SleepsForOne
    BY DEF UpiInv, UpiConsistent
  <2> SUFFICES ASSUME NEW t \in Lwps
               PROVE  Cardinality({m \in Upimutexes : t \in sleepq[m]}) <= 1
    BY DEF SleepsForOne
  <2>1. \A m \in {n \in Upimutexes : t \in sleepq[n]} : m = mp[t]
    BY DEF UpiInv, SleepersAreAt
  <2> QED BY <2>1, OneSleep
<1> QED BY <1>1, UpiInvariant, PTL

\* A thread has a mutex exactly if the kernel has it as the owner, unless the
\* mutex was handed over to a thread that was about to return EDEADLK or that
\* found it unmapped: such a mutex stays with an owner that will not unlock it.
THEOREM OwnersAreTold == UpiSpec => []KernelAndUserAgree
<1>1. UpiInv => KernelAndUserAgree
  <2>1. ASSUME UpiInv, NEW m \in stray
        PROVE  upi_owner[m] # None /\ \A t \in Lwps : has[t][m] = "no" /\ m \notin t_upimutex[t]
    BY <2>1 DEF UpiInv, UpiTypeOK, StrayRight, ListsTold
  <2> SUFFICES ASSUME UpiInv, NEW t \in Lwps, NEW m \in Upimutexes
               PROVE  /\ lwp_pc[t] = "user" /\ m \notin stray =>
                           /\ has[t][m] # "no" <=> upi_owner[m] = t
                           /\ upi_owner[m] = t <=> m \in t_upimutex[t]
                      /\ lwp_pc[t] \in {"unlock", "dying_unlock"} => mp[t] \in t_upimutex[t]
                      /\ lwp_pc[t] = "dead" /\ m \notin stray => upi_owner[m] # t
    BY <2>1 DEF KernelAndUserAgree
  <2>2. ASSUME lwp_pc[t] = "user", m \notin stray
        PROVE  /\ has[t][m] # "no" <=> upi_owner[m] = t
               /\ upi_owner[m] = t <=> m \in t_upimutex[t]
    BY <2>2 DEF UpiInv, ListsOwned, ListsTold, OwnersKnow, Waiting, Between
  <2>3. lwp_pc[t] \in {"unlock", "dying_unlock"} => mp[t] \in t_upimutex[t]
    BY DEF UpiInv, ListsTold, Between
  <2>4. lwp_pc[t] = "dead" /\ m \notin stray => upi_owner[m] # t
    BY DEF UpiInv, ListsOwned, OwnersKnow, Waiting
  <2> QED BY <2>2, <2>3, <2>4
<1> QED BY <1>1, UpiInvariant, PTL

\* Nobody gets a mutex whose owner died as if nothing had happened.
THEOREM DeathIsSeen == UpiSpec => []OwnerDeathSeen
<1>1. UpiInv => OwnerDeathSeen
  BY DEF UpiInv
<1> QED BY <1>1, UpiInvariant, PTL

=============================================================================
