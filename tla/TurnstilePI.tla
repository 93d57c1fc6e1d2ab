---------------------------- MODULE TurnstilePI ----------------------------
(***************************************************************************)
(* Turnstiles and priority inheritance of the Solaris kernel:              *)
(* uts/common/os/turnstile.c.                                              *)
(*                                                                         *)
(* Threads take and release adaptive mutexes, and locks that are handed    *)
(* over to the next waiter, each according to a script.  The spin locks    *)
(* underneath are explicit: a step acquires or releases at most one that   *)
(* others can see, and what is protected by locks that the thread holds    *)
(* all the while is done in the same step.                                 *)
(***************************************************************************)
EXTENDS SleepQueue, FiniteSetsExt

CONSTANTS
  KThreads,
  Objects,     \* synchronization objects
  Handoff,     \* those that are handed over; the others are adaptive mutexes
  Chain,       \* TURNSTILE_SOBJ_BUCKET: the address of the hash chain of an object
  RunLock,     \* the dispatcher lock of a thread that does not sleep
  Pri,         \* t_pri of a thread (bound: it does not change)
  Script,      \* the objects a thread takes and, at the second occurrence, releases
               \* (bound: once)
  Null

Chains == {Chain[o] : o \in Objects}
Locks == Chains \cup {RunLock[t] : t \in KThreads}

ASSUME SetsAssumption ==
  /\ IsFiniteSet(KThreads) /\ IsFiniteSet(Objects) /\ Handoff \subseteq Objects /\ Null \notin KThreads \cup Objects
  /\ Chain \in [Objects -> Nat]
  /\ Pri \in [KThreads -> Nat]
  /\ RunLock \in [KThreads -> {RunLock[t] : t \in KThreads}] /\ \A t \in KThreads : RunLock[t] \notin Chains
  /\ Script \in [KThreads -> Seq(Objects)]

\* What a thread holds when it has done n steps of its script.
Taken(t, n) == {o \in Objects : Cardinality({i \in 1 .. n : Script[t][i] = o}) % 2 = 1}

Ordered(rank) ==
  \A t \in KThreads : \A n \in 1 .. Len(Script[t]) :
    \/ Script[t][n] \in Taken(t, n - 1)
    \/ \A o \in Taken(t, n - 1) : rank[o] < rank[Script[t][n]]

\* The locks are taken in some order that is the same for all threads, as
\* everywhere in the kernel: "cycle in blocking chain" is a panic.
ASSUME OrderAssumption == \E rank \in [Objects -> 1 .. Cardinality(Objects)] : Ordered(rank)

VARIABLES
  owner,         \* of an object
  m_waiters,     \* the waiters bit of an object
  tc_first,      \* the active turnstiles of a chain
  t_ts,          \* the turnstile attached to a thread; there is one for each thread, and
                 \* a turnstile is named after the thread that brought it
  ts_sobj, ts_free, ts_sleepq, ts_inheritor, ts_epri,
  t_prioinv,     \* the turnstiles a thread inherits from
  t_epri,        \* the priority it has inherited
  t_wchan,       \* the object it sleeps on
  t_lockp,       \* its thread lock
  held,          \* who holds a spin lock
  t_pc, obj,     \* where a thread is, and the object it is at
  at,            \* the thread it has reached in a blocking chain
  olp,           \* the lock it has seen in owner->t_lockp
  inverted,
  towake,        \* how many waiters it still has to wake
  step           \* how much of its script it has done

objects == <<owner, m_waiters>>
turnstiles == <<tc_first, t_ts, ts_sobj, ts_free, ts_sleepq, t_wchan>>
inherits == <<ts_inheritor, ts_epri, t_prioinv, t_epri>>
locks == <<t_lockp, held>>
local == <<obj, at, olp, inverted, towake, step>>
ts_vars == <<objects, turnstiles, inherits, locks, local, t_pc>>

TurnstileInit ==
  /\ owner = [o \in Objects |-> Null] /\ m_waiters = [o \in Objects |-> FALSE]
  /\ tc_first = [k \in Chains |-> {}]
  /\ t_ts = [t \in KThreads |-> t]
  /\ ts_sobj = [t \in KThreads |-> Null] /\ ts_free = [t \in KThreads |-> <<>>]
  /\ ts_sleepq = [t \in KThreads |-> <<>>] /\ ts_inheritor = [t \in KThreads |-> Null]
  /\ ts_epri = [t \in KThreads |-> 0] /\ t_prioinv = [t \in KThreads |-> {}]
  /\ t_epri = [t \in KThreads |-> 0] /\ t_wchan = [t \in KThreads |-> Null]
  /\ t_lockp = RunLock /\ held = [l \in Locks |-> Null]
  /\ t_pc = [t \in KThreads |-> "run"] /\ obj = [t \in KThreads |-> Null]
  /\ at = [t \in KThreads |-> t] /\ olp = [t \in KThreads |-> RunLock[t]]
  /\ inverted = [t \in KThreads |-> FALSE] /\ towake = [t \in KThreads |-> 0]
  /\ step = [t \in KThreads |-> 0]

TsGoto(c, l) == t_pc' = [t_pc EXCEPT ![c] = l]
Free(l) == held[l] = Null

\* DISP_PRIO, with the inherited priorities that are given.
DISP_PRIO(t, epri) == IF epri[t] # 0 THEN epri[t] ELSE Pri[t]
Prio(epri) == [t \in KThreads |-> DISP_PRIO(t, epri)]

\* The active turnstile of an object.
Active(o) == {ts \in tc_first[Chain[o]] : ts_sobj[ts] = o}
Turnstile(o) == CHOOSE ts \in Active(o) : TRUE

-----------------------------------------------------------------------------
(* Inherited priority                                                      *)

\* thread_change_epri(): the thread moves in the queue it sleeps in.
thread_change_epri(t, p) ==
  /\ t_epri' = [t_epri EXCEPT ![t] = p]
  /\ IF t_wchan[t] = Null THEN UNCHANGED ts_sleepq
     ELSE ts_sleepq' = [ts_sleepq EXCEPT ![t_ts[t]] = Insert(Remove(@, t), Prio(t_epri'), t)]

\* Mutant: a thread that inherits from the turnstile already is left as it is.
turnstile_pi_inherit_once(ts, t, p) ==
  IF p <= Pri[t] \/ ts_inheritor[ts] # Null
  THEN UNCHANGED <<inherits, ts_sleepq>>
  ELSE /\ ts_epri' = [ts_epri EXCEPT ![ts] = p]
       /\ ts_inheritor' = [ts_inheritor EXCEPT ![ts] = t]
       /\ t_prioinv' = [t_prioinv EXCEPT ![t] = @ \cup {ts}]
       /\ IF p > DISP_PRIO(t, t_epri) THEN thread_change_epri(t, p)
          ELSE UNCHANGED <<t_epri, ts_sleepq>>

\* Thread t inherits p from turnstile ts.
turnstile_pi_inherit(ts, t, p) ==
  IF p <= Pri[t] THEN UNCHANGED <<inherits, ts_sleepq>>
  ELSE /\ ts_epri' = [ts_epri EXCEPT ![ts] = IF ts_inheritor[ts] = Null \/ @ < p THEN p ELSE @]
       /\ ts_inheritor' = [ts_inheritor EXCEPT ![ts] = IF @ = Null THEN t ELSE @]
       /\ t_prioinv' = IF ts_inheritor[ts] = Null
                       THEN [t_prioinv EXCEPT ![t] = @ \cup {ts}] ELSE t_prioinv
       /\ IF p > DISP_PRIO(t, t_epri) THEN thread_change_epri(t, p)
          ELSE UNCHANGED <<t_epri, ts_sleepq>>

\* What t inherits from other turnstiles than ts.
turnstile_pi_tsdelete(ts, t) == Max({ts_epri[x] : x \in t_prioinv[t] \ {ts}} \cup {0})

turnstile_pi_waive(ts) ==
  LET t == ts_inheritor[ts]
      p == turnstile_pi_tsdelete(ts, t)
  IN  /\ t_prioinv' = [t_prioinv EXCEPT ![t] = @ \ {ts}]
      /\ t_epri' = IF p # DISP_PRIO(t, t_epri) THEN [t_epri EXCEPT ![t] = p] ELSE t_epri
      /\ ts_inheritor' = [ts_inheritor EXCEPT ![ts] = Null]
      /\ UNCHANGED ts_epri

-----------------------------------------------------------------------------
(* Taking an object                                                        *)

\* The next object of the script, free: mutex_enter(), rw_enter().
mutex_enter(c) ==
  /\ t_pc[c] = "run" /\ step[c] < Len(Script[c])
  /\ LET o == Script[c][step[c] + 1] IN
     owner[o] # c /\
     IF owner[o] = Null
     THEN /\ owner' = [owner EXCEPT ![o] = c]
          /\ step' = [step EXCEPT ![c] = @ + 1]
          /\ UNCHANGED <<t_pc, obj>>
     ELSE /\ obj' = [obj EXCEPT ![c] = o] /\ TsGoto(c, "lookup")
          /\ UNCHANGED <<owner, step>>
  /\ UNCHANGED <<m_waiters, turnstiles, inherits, locks, at, olp, inverted, towake>>

\* Under the lock of the chain the waiters bit is set, if the object is still
\* held.  A mutex whose owner is running is spun for, with the bit set.
turnstile_lookup(c) ==
  LET o == obj[c] IN
  /\ t_pc[c] = "lookup" /\ Free(Chain[o])
  /\ \/ /\ owner[o] = Null /\ TsGoto(c, "run") /\ UNCHANGED <<m_waiters, held>>
     \/ /\ owner[o] # Null
        /\ m_waiters' = [m_waiters EXCEPT ![o] = TRUE]
        /\ \/ TsGoto(c, "block") /\ held' = [held EXCEPT ![Chain[o]] = c]
           \/ o \notin Handoff /\ t_wchan[owner[o]] = Null /\ TsGoto(c, "run") /\ UNCHANGED held
  /\ UNCHANGED <<owner, turnstiles, inherits, t_lockp, local>>

\* turnstile_block() up to the loop: the thread lock is taken, the turnstile
\* donated or stashed, the thread put to sleep under the lock of the chain.
turnstile_block(c) ==
  LET o == obj[c]
      first == Active(o) = {}
      ts == IF first THEN t_ts[c] ELSE Turnstile(o)
  IN
  /\ t_pc[c] = "block" /\ Free(t_lockp[c])
  /\ ts_sobj' = [ts_sobj EXCEPT ![ts] = o]
  /\ tc_first' = [tc_first EXCEPT ![Chain[o]] = @ \cup {ts}]
  /\ ts_free' = IF first THEN ts_free ELSE [ts_free EXCEPT ![ts] = <<t_ts[c]>> \o @]
  /\ t_ts' = [t_ts EXCEPT ![c] = ts]
  /\ ts_sleepq' = [ts_sleepq EXCEPT ![ts] = Insert(@, Prio(t_epri), c)]
  /\ t_wchan' = [t_wchan EXCEPT ![c] = o]
  /\ t_lockp' = [t_lockp EXCEPT ![c] = Chain[o]]
  /\ at' = [at EXCEPT ![c] = c] /\ inverted' = [inverted EXCEPT ![c] = TRUE]
  /\ TsGoto(c, "follow")
  /\ UNCHANGED <<objects, inherits, held, obj, olp, towake, step>>

-----------------------------------------------------------------------------
(* The blocking chain.  The thread holds the thread lock of at[c].         *)

\* SOBJ_OWNER of the object that at[c] sleeps on, if it does.
Blocker(c) == IF t_wchan[at[c]] = Null THEN Null ELSE owner[t_wchan[at[c]]]
Ends(c) == ~inverted[c] \/ Blocker(c) = Null

\* The end of the chain, or of the inversions: swtch().
turnstile_block_swtch(c) ==
  /\ t_pc[c] = "follow" /\ Ends(c)
  /\ held' = [held EXCEPT ![t_lockp[at[c]]] = Null]
  /\ TsGoto(c, "swtch")
  /\ UNCHANGED <<objects, turnstiles, inherits, t_lockp, local>>

\* turnstile_interlock() reads owner->t_lockp, also after it has spun.
turnstile_interlock(c) ==
  /\ t_pc[c] \in {"follow", "interlock"} /\ ~Ends(c)
  /\ olp' = [olp EXCEPT ![c] = t_lockp[Blocker(c)]]
  /\ TsGoto(c, IF olp'[c] = t_lockp[at[c]] THEN "inherit" ELSE "try")
  /\ UNCHANGED <<objects, turnstiles, inherits, locks, obj, at, inverted, towake, step>>

\* Mutant: the lock is not compared with what is in t_lockp by now.
interlock_try_blind(c) ==
  /\ t_pc[c] = "try" /\ Free(olp[c])
  /\ held' = [held EXCEPT ![olp[c]] = c]
  /\ TsGoto(c, "inherit")
  /\ UNCHANGED <<objects, turnstiles, inherits, t_lockp, local>>

\* lock_try(olp) succeeds: is it still the lock of the owner?
interlock_try(c) ==
  /\ t_pc[c] = "try" /\ Free(olp[c])
  /\ held' = [held EXCEPT ![olp[c]] = c]
  /\ TsGoto(c, IF olp[c] = t_lockp[Blocker(c)] THEN "inherit" ELSE "wrong")
  /\ UNCHANGED <<objects, turnstiles, inherits, t_lockp, local>>

interlock_wrong(c) ==
  /\ t_pc[c] = "wrong"
  /\ held' = [held EXCEPT ![olp[c]] = Null]
  /\ TsGoto(c, "interlock")
  /\ UNCHANGED <<objects, turnstiles, inherits, t_lockp, local>>

\* Out of order, when the lock is one of the turnstile table.
Loses(c) == olp[c] \in Chains /\ olp[c] < t_lockp[at[c]]

\* lock_try(olp) fails: in the right order the thread spins.
interlock_fail(c) ==
  /\ t_pc[c] = "try" /\ ~Free(olp[c])
  /\ IF Loses(c) THEN held' = [held EXCEPT ![t_lockp[at[c]]] = Null] /\ TsGoto(c, "lose")
     ELSE TsGoto(c, "spin") /\ UNCHANGED held
  /\ UNCHANGED <<objects, turnstiles, inherits, t_lockp, local>>

interlock_spin(c) ==
  /\ t_pc[c] = "spin"
  /\ olp[c] # t_lockp[Blocker(c)] \/ Free(olp[c])
  /\ TsGoto(c, "interlock")
  /\ UNCHANGED <<objects, turnstiles, inherits, locks, local>>

\* The loser waits until the lock it wanted is free, takes it and drops it.
interlock_lose(c) ==
  /\ t_pc[c] = "lose" /\ Free(olp[c])
  /\ held' = [held EXCEPT ![olp[c]] = c]
  /\ TsGoto(c, "lost")
  /\ UNCHANGED <<objects, turnstiles, inherits, t_lockp, local>>

interlock_lost(c) ==
  /\ t_pc[c] = "lost"
  /\ held' = [held EXCEPT ![olp[c]] = Null]
  /\ TsGoto(c, "restart")
  /\ UNCHANGED <<objects, turnstiles, inherits, t_lockp, local>>

\* From the beginning of the chain.
restart(c) ==
  /\ t_pc[c] = "restart" /\ Free(t_lockp[c])
  /\ held' = [held EXCEPT ![t_lockp[c]] = c]
  /\ at' = [at EXCEPT ![c] = c]
  /\ TsGoto(c, "follow")
  /\ UNCHANGED <<objects, turnstiles, inherits, t_lockp, obj, olp, inverted, towake, step>>

\* Both locks are held: the priority is willed, and the chain followed.
will(c) ==
  LET t == at[c]
      o == Blocker(c)
      p == DISP_PRIO(t, t_epri)
  IN
  /\ t_pc[c] = "inherit"
  /\ turnstile_pi_inherit(t_ts[t], o, p)
  /\ inverted' = [inverted EXCEPT ![c] = p > Pri[o]]
  /\ held' = IF t_lockp[t] # t_lockp[o] THEN [held EXCEPT ![t_lockp[t]] = Null] ELSE held
  /\ at' = [at EXCEPT ![c] = o]
  /\ TsGoto(c, "follow")
  /\ UNCHANGED <<objects, tc_first, t_ts, ts_sobj, ts_free, t_wchan, t_lockp, obj, olp, towake, step>>

\* Woken, perhaps before swtch().  Who was handed the object has it.
resume(c) ==
  /\ t_pc[c] = "swtch" /\ t_wchan[c] = Null
  /\ step' = [step EXCEPT ![c] = IF owner[obj[c]] = c THEN @ + 1 ELSE @]
  /\ TsGoto(c, "run")
  /\ UNCHANGED <<objects, turnstiles, inherits, locks, obj, at, olp, inverted, towake>>

-----------------------------------------------------------------------------
(* Releasing an object                                                     *)

\* mutex_exit(), rw_exit().
mutex_exit(c) ==
  /\ t_pc[c] = "run" /\ step[c] < Len(Script[c])
  /\ LET o == Script[c][step[c] + 1] IN
     owner[o] = c /\
     IF m_waiters[o]
     THEN /\ obj' = [obj EXCEPT ![c] = o] /\ TsGoto(c, "exit") /\ UNCHANGED owner
     ELSE /\ owner' = [owner EXCEPT ![o] = Null] /\ UNCHANGED <<obj, t_pc>>
  /\ step' = [step EXCEPT ![c] = @ + 1]
  /\ UNCHANGED <<m_waiters, turnstiles, inherits, locks, at, olp, inverted, towake>>

\* With waiters: under the lock of the chain a mutex is cleared, other objects
\* get the first waiter as their owner.  There may be none (a mutex).
exit_lookup(c) ==
  LET o == obj[c] IN
  /\ t_pc[c] = "exit" /\ Free(Chain[o])
  /\ IF Active(o) = {}
     THEN /\ owner' = [owner EXCEPT ![o] = Null]
          /\ m_waiters' = [m_waiters EXCEPT ![o] = FALSE]
          /\ TsGoto(c, "run") /\ UNCHANGED <<held, towake>>
     ELSE LET q == ts_sleepq[Turnstile(o)] IN
          /\ held' = [held EXCEPT ![Chain[o]] = c]
          /\ owner' = [owner EXCEPT ![o] = IF o \in Handoff THEN Head(q) ELSE Null]
          /\ m_waiters' = [m_waiters EXCEPT ![o] = o \in Handoff /\ Len(q) > 1]
          /\ towake' = [towake EXCEPT ![c] = IF o \in Handoff THEN 1 ELSE Len(q)]
          /\ TsGoto(c, IF ts_inheritor[Turnstile(o)] # Null THEN "waive" ELSE "wake")
  /\ UNCHANGED <<turnstiles, inherits, t_lockp, obj, at, olp, inverted, step>>

\* turnstile_wakeup() waives what was inherited, under the thread lock.
waive(c) ==
  /\ t_pc[c] = "waive" /\ Free(t_lockp[c])
  /\ turnstile_pi_waive(Turnstile(obj[c]))
  /\ TsGoto(c, "wake")
  /\ UNCHANGED <<objects, turnstiles, locks, local>>

\* Mutant: the turnstile stays on the chain when its last waiter leaves.
turnstile_dequeue_keep(t, o) ==
  LET ts == t_ts[t] IN
  /\ IF ts_free[ts] # <<>>
     THEN /\ t_ts' = [t_ts EXCEPT ![t] = Head(ts_free[ts])]
          /\ ts_free' = [ts_free EXCEPT ![ts] = Tail(@)]
     ELSE UNCHANGED <<t_ts, ts_free>>
  /\ t_wchan' = [t_wchan EXCEPT ![t] = Null]
  /\ UNCHANGED <<tc_first, ts_sobj>>

\* Thread t gets a turnstile back, the last one the active one.
turnstile_dequeue(t, o) ==
  LET ts == t_ts[t] IN
  /\ IF ts_free[ts] # <<>>
     THEN /\ t_ts' = [t_ts EXCEPT ![t] = Head(ts_free[ts])]
          /\ ts_free' = [ts_free EXCEPT ![ts] = Tail(@)]
          /\ UNCHANGED tc_first
     ELSE /\ tc_first' = [tc_first EXCEPT ![Chain[o]] = @ \ {ts}]
          /\ UNCHANGED <<t_ts, ts_free>>
  /\ t_wchan' = [t_wchan EXCEPT ![t] = Null]
  /\ UNCHANGED ts_sobj

\* The new owner inherits from the first of the other waiters.
Inherits(ts, t, rest) ==
  LET p == IF rest = <<>> THEN 0 ELSE DISP_PRIO(Head(rest), t_epri) IN
  IF p <= Pri[t] THEN UNCHANGED inherits
  ELSE /\ ts_inheritor' = [ts_inheritor EXCEPT ![ts] = t]
       /\ ts_epri' = [ts_epri EXCEPT ![ts] = p]
       /\ t_prioinv' = [t_prioinv EXCEPT ![t] = @ \cup {ts}]
       /\ t_epri' = IF p > DISP_PRIO(t, t_epri) THEN [t_epri EXCEPT ![t] = p] ELSE t_epri

\* The first waiter is woken: CL_WAKEUP() takes its dispatcher lock.
turnstile_wakeup(c) ==
  LET o == obj[c]
      ts == Turnstile(o)
      t == Head(ts_sleepq[ts])
  IN
  /\ t_pc[c] = "wake" /\ towake[c] > 0 /\ Free(RunLock[t])
  /\ turnstile_dequeue(t, o)
  /\ ts_sleepq' = [ts_sleepq EXCEPT ![ts] = Tail(@)]
  /\ t_lockp' = [t_lockp EXCEPT ![t] = RunLock[t]]
  /\ IF owner[o] = t THEN Inherits(ts, t, Tail(ts_sleepq[ts])) ELSE UNCHANGED inherits
  /\ towake' = [towake EXCEPT ![c] = @ - 1]
  /\ UNCHANGED <<objects, held, obj, at, olp, inverted, step, t_pc>>

wakeup_exit(c) ==
  /\ t_pc[c] = "wake" /\ towake[c] = 0
  /\ held' = [held EXCEPT ![Chain[obj[c]]] = Null]
  /\ TsGoto(c, "run")
  /\ UNCHANGED <<objects, turnstiles, inherits, t_lockp, local>>

-----------------------------------------------------------------------------
Follow(c) ==
  \/ turnstile_block_swtch(c) \/ turnstile_interlock(c)
  \/ interlock_try(c) \/ interlock_wrong(c) \/ interlock_fail(c) \/ interlock_spin(c)
  \/ interlock_lose(c) \/ interlock_lost(c) \/ restart(c) \/ will(c)

Step(c) ==
  \/ mutex_enter(c) \/ turnstile_lookup(c) \/ turnstile_block(c) \/ Follow(c) \/ resume(c)
  \/ mutex_exit(c) \/ exit_lookup(c) \/ waive(c) \/ turnstile_wakeup(c) \/ wakeup_exit(c)

Finished(c) == t_pc[c] = "run" /\ step[c] = Len(Script[c])

\* All scripts are done.
Done == (\A c \in KThreads : Finished(c)) /\ UNCHANGED ts_vars

TurnstileNext == (\E c \in KThreads : Step(c)) \/ Done

TurnstileSpec == TurnstileInit /\ [][TurnstileNext]_ts_vars

-----------------------------------------------------------------------------
(* Properties                                                              *)

Following == {"follow", "interlock", "try", "wrong", "spin", "lose", "lost", "restart", "inherit"}
Settled(c) == t_pc[c] \notin Following \cup {"block", "exit", "waive", "wake"}

TurnstileTypeOK ==
  /\ owner \in [Objects -> KThreads \cup {Null}] /\ m_waiters \in [Objects -> BOOLEAN]
  /\ tc_first \in [Chains -> SUBSET KThreads] /\ t_ts \in [KThreads -> KThreads]
  /\ ts_sobj \in [KThreads -> Objects \cup {Null}]
  /\ ts_free \in [KThreads -> Seq(KThreads)] /\ ts_sleepq \in [KThreads -> Seq(KThreads)]
  /\ ts_inheritor \in [KThreads -> KThreads \cup {Null}] /\ ts_epri \in [KThreads -> Nat]
  /\ t_prioinv \in [KThreads -> SUBSET KThreads] /\ t_epri \in [KThreads -> Nat]
  /\ t_wchan \in [KThreads -> Objects \cup {Null}]
  /\ t_lockp \in [KThreads -> Locks] /\ held \in [Locks -> KThreads \cup {Null}]
  /\ at \in [KThreads -> KThreads] /\ olp \in [KThreads -> Locks]
  /\ towake \in [KThreads -> Nat]

\* Every turnstile is somewhere exactly once: attached to a thread that does
\* not sleep, active for the object its waiters sleep on, or spare on the
\* free list of an active one, which has one waiter more than spares.
TurnstilesAccounted ==
  /\ \A t, u \in KThreads : t # u /\ t_ts[t] = t_ts[u] => t_wchan[t] = t_wchan[u] /\ t_wchan[t] # Null
  /\ \A t \in KThreads : t_wchan[t] = Null => \A k \in Chains : t_ts[t] \notin tc_first[k]
  /\ \A k \in Chains : \A ts \in tc_first[k] :
       /\ Elems(ts_sleepq[ts]) = {t \in KThreads : t_wchan[t] = ts_sobj[ts]}
       /\ Len(ts_sleepq[ts]) = Len(ts_free[ts]) + 1
       /\ Chain[ts_sobj[ts]] = k
  /\ \A t \in KThreads : ts_free[t] # <<>> => \E k \in Chains : t \in tc_first[k]
  /\ \A o \in Objects : Cardinality(Active(o)) <= 1

\* Consequence (a) of the requirements in turnstile.c: "it is impossible for
\* a lock to be unheld but have waiters", except while they are being woken;
\* and consequence (b): the inheritor of a turnstile is the owner of its
\* object until it waives the priority.
InheritorIsOwner ==
  \A o \in Objects : \A ts \in Active(o) :
    LET exiting == {c \in KThreads : t_pc[c] \in {"waive", "wake"} /\ obj[c] = o} IN
    /\ owner[o] = Null => exiting # {}
    /\ ts_inheritor[ts] # Null =>
         \/ ts_inheritor[ts] = owner[o]
         \/ \E c \in exiting : t_pc[c] = "waive" /\ c = ts_inheritor[ts]

\* Sleep queues stay in order while priority is willed to who sleeps in them.
QueuesSorted == \A ts \in KThreads : Sorted(ts_sleepq[ts], Prio(t_epri))

\* A thread that holds nothing has given up all it inherited.
PriorityReturned ==
  \A t \in KThreads :
    Settled(t) /\ (\A o \in Objects : owner[o] # t) => t_epri[t] = 0 /\ t_prioinv[t] = {}

\* Turnstiles, sleep queues and inherited priorities are accounted for.
TurnstilesRight == TurnstileTypeOK /\ TurnstilesAccounted /\ InheritorIsOwner /\ QueuesSorted /\ PriorityReturned

\* Both locks are held when priority is willed: that of the thread and that
\* of the owner, which may have moved from lock to lock meanwhile.  Where the
\* owner is looked up, the chain never leads back to who follows it ("Deadlock:
\* cycle in blocking chain"), however stale the part followed already, and
\* although the follower may be handed the object it has just queued for.
LocksHeldToWill ==
  \A c \in KThreads :
    /\ t_pc[c] \in Following \ {"lose", "lost", "restart"} =>
         held[t_lockp[at[c]]] = c /\ Blocker(c) # c
    /\ t_pc[c] = "inherit" => held[t_lockp[Blocker(c)]] = c

\* Once nobody is under way, who holds an object runs at least at the
\* priority of all that wait for it, directly or indirectly.
NoInversion ==
  (\A c \in KThreads : Settled(c)) =>
    \A t \in KThreads : t_wchan[t] # Null =>
      DISP_PRIO(owner[t_wchan[t]], t_epri) >= DISP_PRIO(t, t_epri)

-----------------------------------------------------------------------------
(* What a comment says, and the code does not do (see README.md)           *)

\* Threads may hold an object for as long as they like, but go on inside the
\* code of the locks, and who waits for a spin lock that becomes free again
\* and again gets it.
LockSet(c) ==
  \/ turnstile_lookup(c) \/ turnstile_block(c) \/ interlock_lose(c) \/ restart(c)
  \/ exit_lookup(c) \/ waive(c) \/ turnstile_wakeup(c)

TurnstileFairSpec ==
  /\ TurnstileSpec
  /\ \A c \in KThreads : WF_ts_vars(t_pc[c] # "run" /\ Step(c)) /\ SF_ts_vars(LockSet(c))

\* turnstile_interlock(): "To prevent livelock we must define a winner", so
\* who follows a chain gets to its end.  But lock_try() also fails while the
\* loser grabs and drops the lock it has lost.
ChainFollowed == \A c \in KThreads : t_pc[c] = "follow" ~> t_pc[c] = "swtch"
=============================================================================
