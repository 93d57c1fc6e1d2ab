------------------------------ MODULE TaskQProofs ------------------------------
(***************************************************************************)
(* Proofs about the task queues of TaskQ: for any number of workers and    *)
(* clients, any population limits and any sequence of creations, dispatches*)
(* and checkpoints.                                                        *)
(***************************************************************************)
EXTENDS TaskQ, FiniteSetTheorems, TLAPS

-----------------------------------------------------------------------------
(* The inductive invariant                                                 *)

Active == {w \in Workers : pc[w] \notin {"dispatch_cv", "woken", "stop_cv"}}
Present == {w \in Workers : pc[w] \notin {"callb_delete", "gone"}}

\* Who is at the top of the loop of taskq_thread(), and nobody else, has
\* tq_lock; who holds tq_threadlock as writer has suspended the tasks.
LocksRight ==
  /\ \A w \in Workers : At(w, "loop") <=> tq_lock = w
  /\ suspender # NoThread => At(suspender, "suspend")

\* A worker has a task from the queue to the return of its function, which
\* alone may dispatch.
TasksRight ==
  \A w \in Workers :
    /\ pc[w] \notin {"rw_enter", "task_func"} => task[w] = 0
    /\ dispatch[w] # NotDispatching => At(w, "task_func")

\* The life of a queue.  From the moment taskq_destroy() has seen it idle there
\* is no task any more, until the next taskq_create().
StagesRight ==
  /\ tq_isactive <=> pc[Owner] \in {"created", "destroy_wait", "destroy_wait_cv", "destroy_stop"}
  /\ tq_isactive => Present = Workers
  /\ pc[Owner] \in {"none", "destroy_drain"} => Present = {}
  /\ ~At(Owner, "created") => \A c \in Clients : At(c, "idle") /\ dispatch[c] = NotDispatching
  /\ pc[Owner] \in {"none", "destroy_stop", "destroy_join", "destroy_join_cv", "destroy_drain"} =>
       tq_task = <<>> /\ Holding = {}
  /\ At(Owner, "none") => tq_freelist = 0 /\ tq_nalloc = 0

\* tq_active and tq_nthreads count the workers.
CountsRight ==
  /\ At(Owner, "none") \/ tq_active = Cardinality(Active)
  /\ tq_nthreads = Cardinality(Present)

\* The tasks of the queue are in the order in which they were scheduled, and
\* after all that were taken.
InOrder ==
  /\ \A i \in 1 .. Len(tq_task) :
       /\ tq_task[i] < next /\ \A w \in Workers : task[w] < tq_task[i]
       /\ \A j \in 1 .. i - 1 : tq_task[j] < tq_task[i]
  /\ \A w \in Workers : task[w] < next

\* The events of the workers that have a callback entry: CALLB_CPR_SAFE where
\* they do not touch the queue, and CALLB_CPR_START from the checkpoint that
\* has asked them until they are resumed.
EventsRight ==
  \A w \in Registered :
    /\ "SAFE" \in events[w] <=> pc[w] \in {"dispatch_cv", "woken", "stop_cv", "callb_delete"}
    /\ "START" \in events[w] =>
         cpr.at # "idle" /\ (cpr.at = "resume" => w \in cpr.todo \cup {cpr.who})
    /\ At(w, "stop_cv") => "START" \in events[w]
    /\ cpr.at \in {"chkpt", "chkpt_cv", "chkpt_woken", "suspended"} /\ w \notin cpr.todo \cup {cpr.who} =>
         {"START", "SAFE"} \subseteq events[w]

CprRight ==
  /\ cpr.at \in {"idle", "suspended"} => cpr.who = NoThread /\ cpr.todo = {}
  /\ cpr.at \in {"chkpt_cv", "chkpt_woken"} => cpr.who \in Workers
  /\ cpr.at = "chkpt_cv" => "SAFE" \notin events[cpr.who] /\ "START" \in events[cpr.who]
  /\ cpr.who # NoThread => cpr.who \in Registered

TaskqInv ==
  /\ TypeOK /\ LocksRight /\ TasksRight /\ StagesRight /\ CountsRight /\ InOrder
  /\ EventsRight /\ CprRight
  /\ NallocExact /\ WaitersHaveCause /\ WorkConserving

-----------------------------------------------------------------------------
(* Counting                                                                *)

Bit(b) == IF b THEN 1 ELSE 0

\* Sets of workers that differ in one of them at most.
LEMMA Counting ==
  ASSUME NEW S \in SUBSET Workers, NEW T \in SUBSET Workers, NEW w \in Workers,
         S \ {w} = T \ {w}
  PROVE  /\ Cardinality(S) \in Nat /\ Cardinality(T) \in Nat
         /\ Cardinality(T) = Cardinality(S) + Bit(w \in T) - Bit(w \in S)
         /\ w \in S => Cardinality(S) # 0
<1>1. /\ IsFiniteSet(S) /\ IsFiniteSet(T) /\ IsFiniteSet(S \ {w})
      /\ Cardinality(S) \in Nat /\ Cardinality(T) \in Nat /\ Cardinality(S \ {w}) \in Nat
  <2>1. IsFiniteSet(S) /\ IsFiniteSet(T) /\ IsFiniteSet(S \ {w})
    BY ThreadsAssumption, FS_Subset
  <2> QED BY <2>1, FS_CardinalityType
<1>2. ASSUME NEW R \in {S, T}
      PROVE  Cardinality(R) = Cardinality(S \ {w}) + Bit(w \in R)
  <2>1. IsFiniteSet(R) /\ R \ {w} = S \ {w} /\ Cardinality(R) \in Nat
    BY <1>1
  <2>2. CASE w \in R
    <3>1. Cardinality(R \ {w}) = Cardinality(R) - 1
      BY <2>1, <2>2, FS_RemoveElement
    <3> QED BY <1>1, <2>1, <2>2, <3>1 DEF Bit
  <2>3. CASE w \notin R
    <3>1. R = R \ {w}
      BY <2>3
    <3> QED BY <1>1, <2>1, <2>3, <3>1 DEF Bit
  <2> QED BY <2>2, <2>3
<1>3. Cardinality(S) = Cardinality(S \ {w}) + Bit(w \in S)
  BY <1>2
<1>4. Cardinality(T) = Cardinality(S \ {w}) + Bit(w \in T)
  BY <1>2
<1> QED BY <1>1, <1>3, <1>4 DEF Bit

Hs == {"rw_enter", "task_func", "task_free"}
Ls == {"woken", "stop_cv", "loop"}
As == WorkerLabels \ {"dispatch_cv", "woken", "stop_cv"}
Ps == WorkerLabels \ {"callb_delete", "gone"}

\* What one worker's move does to the counts.
LEMMA WorkerCounts ==
  ASSUME TypeOK, NEW w \in Workers, pc'[w] \in WorkerLabels,
         \A v \in Workers \ {w} : pc'[v] = pc[v]
  PROVE  /\ Cardinality(Holding) \in Nat /\ Cardinality(Looking) \in Nat
         /\ Cardinality(Active) \in Nat /\ Cardinality(Present) \in Nat
         /\ pc[w] \in As => Cardinality(Active) # 0
         /\ pc[w] \in Ps => Cardinality(Present) # 0
         /\ Cardinality(Holding') = Cardinality(Holding) + Bit(pc'[w] \in Hs) - Bit(pc[w] \in Hs)
         /\ Cardinality(Looking') = Cardinality(Looking) + Bit(pc'[w] \in Ls) - Bit(pc[w] \in Ls)
         /\ Cardinality(Active') = Cardinality(Active) + Bit(pc'[w] \in As) - Bit(pc[w] \in As)
         /\ Cardinality(Present') = Cardinality(Present) + Bit(pc'[w] \in Ps) - Bit(pc[w] \in Ps)
<1>1. pc[w] \in WorkerLabels
  BY DEF TypeOK
<1>2. /\ Holding \in SUBSET Workers /\ Holding' \in SUBSET Workers /\ Holding \ {w} = Holding' \ {w}
      /\ w \in Holding <=> pc[w] \in Hs
      /\ w \in Holding' <=> pc'[w] \in Hs
  BY DEF Holding, Hs
<1>3. /\ Looking \in SUBSET Workers /\ Looking' \in SUBSET Workers /\ Looking \ {w} = Looking' \ {w}
      /\ w \in Looking <=> pc[w] \in Ls
      /\ w \in Looking' <=> pc'[w] \in Ls
  BY DEF Looking, Ls
<1>4. /\ Active \in SUBSET Workers /\ Active' \in SUBSET Workers /\ Active \ {w} = Active' \ {w}
      /\ w \in Active <=> pc[w] \in As
      /\ w \in Active' <=> pc'[w] \in As
  BY <1>1 DEF Active, As
<1>5. /\ Present \in SUBSET Workers /\ Present' \in SUBSET Workers /\ Present \ {w} = Present' \ {w}
      /\ w \in Present <=> pc[w] \in Ps
      /\ w \in Present' <=> pc'[w] \in Ps
  BY <1>1 DEF Present, Ps
<1>6. /\ Cardinality(Holding) \in Nat
      /\ Cardinality(Holding') = Cardinality(Holding) + Bit(pc'[w] \in Hs) - Bit(pc[w] \in Hs)
  BY <1>2, Counting
<1>7. /\ Cardinality(Looking) \in Nat
      /\ Cardinality(Looking') = Cardinality(Looking) + Bit(pc'[w] \in Ls) - Bit(pc[w] \in Ls)
  BY <1>3, Counting
<1>8. /\ Cardinality(Active) \in Nat /\ (pc[w] \in As => Cardinality(Active) # 0)
      /\ Cardinality(Active') = Cardinality(Active) + Bit(pc'[w] \in As) - Bit(pc[w] \in As)
  BY <1>4, Counting
<1>9. /\ Cardinality(Present) \in Nat /\ (pc[w] \in Ps => Cardinality(Present) # 0)
      /\ Cardinality(Present') = Cardinality(Present) + Bit(pc'[w] \in Ps) - Bit(pc[w] \in Ps)
  BY <1>5, Counting
<1> QED BY <1>6, <1>7, <1>8, <1>9

-----------------------------------------------------------------------------
(* The steps of a worker                                                   *)

LEMMA ThreadKinds ==
  /\ Workers \subseteq Threads /\ Clients \subseteq Threads /\ Owner \in Threads
  /\ NoThread \notin Threads /\ Owner \notin Workers \cup Clients /\ Workers \cap Clients = {}
BY ThreadsAssumption DEF Threads, Users

\* A worker goes from one label to another.
LEMMA WorkerMove ==
  ASSUME TypeOK, NEW w \in Workers, NEW l \in WorkerLabels, pc' = [pc EXCEPT ![w] = l]
  PROVE  /\ pc'[w] = l /\ \A t \in Threads \ {w} : pc'[t] = pc[t]
         /\ pc' \in [Threads -> WorkerLabels \cup ClientLabels \cup OwnerLabels]
         /\ \A v \in Workers : pc'[v] \in WorkerLabels
         /\ \A v \in Workers \ {w} : pc'[v] = pc[v]
         /\ \A c \in Clients : pc'[c] = pc[c]
         /\ pc'[Owner] = pc[Owner]
BY ThreadKinds DEF TypeOK

\* CALLB_CPR_INIT().
LEMMA AddStep ==
  ASSUME TaskqInv, NEW w \in Workers, callb_add(w)
  PROVE  TaskqInv'
<1> USE ThreadKinds DEF TaskqInv
<1>1. /\ pc[w] = "callb_add" /\ pc' = [pc EXCEPT ![w] = "lock"]
      /\ cpr.at = "idle" /\ events' = [events EXCEPT ![w] = {}]
      /\ UNCHANGED <<tq_lock, tq_task, next, tq_freelist, tq_nalloc, tq_minalloc, tq_active,
                     tq_nthreads, tq_isactive, suspender, task, dispatch, since, cpr>>
  BY DEF callb_add, At, Goto, lists, population, threads, calls, callb
<1>2. /\ pc[w] = "callb_add" /\ pc'[w] = "lock" /\ \A t \in Threads \ {w} : pc'[t] = pc[t]
      /\ pc' \in [Threads -> WorkerLabels \cup ClientLabels \cup OwnerLabels]
      /\ \A v \in Workers : pc'[v] \in WorkerLabels
      /\ \A v \in Workers \ {w} : pc'[v] = pc[v]
      /\ \A c \in Clients : pc'[c] = pc[c]
      /\ pc'[Owner] = pc[Owner]
  BY <1>1, WorkerMove DEF WorkerLabels
<1>3. /\ Cardinality(Holding') = Cardinality(Holding)
      /\ Cardinality(Looking') = Cardinality(Looking)
      /\ Cardinality(Active') = Cardinality(Active)
      /\ Cardinality(Present') = Cardinality(Present)
      /\ {Cardinality(Holding), Cardinality(Looking)} \subseteq Nat
      /\ {Cardinality(Active), Cardinality(Present)} \subseteq Nat
      /\ Cardinality(Active) # 0
      /\ Cardinality(Present) # 0
  BY <1>2, WorkerCounts DEF Bit, Hs, Ls, As, Ps, WorkerLabels
<1>a. TypeOK'
  BY <1>1, <1>2 DEF TypeOK
<1>b. LocksRight' /\ TasksRight'
  BY <1>1, <1>2 DEF TypeOK, LocksRight, TasksRight, At
<1>c. StagesRight'
  BY <1>1, <1>2 DEF TypeOK, StagesRight, At, Present, Holding
<1>d. CountsRight' /\ NallocExact' /\ WorkConserving'
  BY <1>1, <1>2, <1>3 DEF TypeOK, CountsRight, NallocExact, WorkConserving, At, Asleep
<1>e. InOrder'
  BY <1>1 DEF InOrder
<1>f. EventsRight' /\ CprRight'
  BY <1>1, <1>2 DEF TypeOK, EventsRight, CprRight, Registered, At
<1>g. WaitersHaveCause'
  BY <1>1, <1>2 DEF TypeOK, WaitersHaveCause, At, Busy
<1> QED BY <1>a, <1>b, <1>c, <1>d, <1>e, <1>f, <1>g

\* mutex_enter(&tq->tq_lock).
LEMMA LockStep ==
  ASSUME TaskqInv, NEW w \in Workers, taskq_thread_lock(w)
  PROVE  TaskqInv'
<1> USE ThreadKinds DEF TaskqInv
<1>1. /\ pc[w] = "lock" /\ pc' = [pc EXCEPT ![w] = "loop"]
      /\ tq_lock = NoThread /\ tq_lock' = w
      /\ UNCHANGED <<tq_task, next, tq_freelist, tq_nalloc, tq_minalloc, tq_active, tq_nthreads,
                     tq_isactive, suspender, task, dispatch, since, events, cpr>>
  BY DEF taskq_thread_lock, At, Goto, Unlocked, lists, population, threads, calls, callb
<1>2. /\ pc[w] = "lock" /\ pc'[w] = "loop" /\ \A t \in Threads \ {w} : pc'[t] = pc[t]
      /\ pc' \in [Threads -> WorkerLabels \cup ClientLabels \cup OwnerLabels]
      /\ \A v \in Workers : pc'[v] \in WorkerLabels
      /\ \A v \in Workers \ {w} : pc'[v] = pc[v]
      /\ \A c \in Clients : pc'[c] = pc[c]
      /\ pc'[Owner] = pc[Owner]
  BY <1>1, WorkerMove DEF WorkerLabels
<1>3. /\ Cardinality(Holding') = Cardinality(Holding)
      /\ Cardinality(Looking') = Cardinality(Looking) + 1
      /\ Cardinality(Active') = Cardinality(Active)
      /\ Cardinality(Present') = Cardinality(Present)
      /\ {Cardinality(Holding), Cardinality(Looking)} \subseteq Nat
      /\ {Cardinality(Active), Cardinality(Present)} \subseteq Nat
      /\ Cardinality(Active) # 0
      /\ Cardinality(Present) # 0
  BY <1>2, WorkerCounts DEF Bit, Hs, Ls, As, Ps, WorkerLabels
<1>a. TypeOK'
  BY <1>1, <1>2 DEF TypeOK
<1>b. LocksRight' /\ TasksRight'
  BY <1>1, <1>2 DEF TypeOK, LocksRight, TasksRight, At
<1>c. StagesRight'
  BY <1>1, <1>2 DEF TypeOK, StagesRight, At, Present, Holding
<1>d. CountsRight' /\ NallocExact' /\ WorkConserving'
  BY <1>1, <1>2, <1>3 DEF TypeOK, CountsRight, NallocExact, WorkConserving, At, Asleep
<1>e. InOrder'
  BY <1>1 DEF InOrder
<1>f. EventsRight' /\ CprRight'
  BY <1>1, <1>2 DEF TypeOK, EventsRight, CprRight, Registered, At
<1>g. WaitersHaveCause'
  BY <1>1, <1>2 DEF TypeOK, WaitersHaveCause, At, Busy
<1> QED BY <1>a, <1>b, <1>c, <1>d, <1>e, <1>f, <1>g

\* A worker that was woken counts itself in.
LEMMA WokenStep ==
  ASSUME TaskqInv, NEW w \in Workers, taskq_thread_woken(w)
  PROVE  TaskqInv'
<1> USE ThreadKinds DEF TaskqInv
<1>1. /\ pc[w] = "woken" /\ pc' = [pc EXCEPT ![w] = "loop"]
      /\ tq_lock = NoThread /\ tq_lock' = w /\ "START" \notin events[w]
      /\ events' = [events EXCEPT ![w] = @ \ {"SAFE"}]
      /\ tq_active' = tq_active + 1
      /\ UNCHANGED <<tq_task, next, tq_freelist, tq_nalloc, tq_minalloc, tq_nthreads,
                     tq_isactive, suspender, task, dispatch, since, cpr>>
  BY DEF taskq_thread_woken, At, Goto, Unlocked, lists, population, threads, calls, callb
<1>2. /\ pc[w] = "woken" /\ pc'[w] = "loop" /\ \A t \in Threads \ {w} : pc'[t] = pc[t]
      /\ pc' \in [Threads -> WorkerLabels \cup ClientLabels \cup OwnerLabels]
      /\ \A v \in Workers : pc'[v] \in WorkerLabels
      /\ \A v \in Workers \ {w} : pc'[v] = pc[v]
      /\ \A c \in Clients : pc'[c] = pc[c]
      /\ pc'[Owner] = pc[Owner]
  BY <1>1, WorkerMove DEF WorkerLabels
<1>3. /\ Cardinality(Holding') = Cardinality(Holding)
      /\ Cardinality(Looking') = Cardinality(Looking)
      /\ Cardinality(Active') = Cardinality(Active) + 1
      /\ Cardinality(Present') = Cardinality(Present)
      /\ {Cardinality(Holding), Cardinality(Looking)} \subseteq Nat
      /\ {Cardinality(Active), Cardinality(Present)} \subseteq Nat
      /\ Cardinality(Present) # 0
  BY <1>2, WorkerCounts DEF Bit, Hs, Ls, As, Ps, WorkerLabels
<1>a. TypeOK'
  BY <1>1, <1>2 DEF TypeOK
<1>b. LocksRight' /\ TasksRight'
  BY <1>1, <1>2 DEF TypeOK, LocksRight, TasksRight, At
<1>c. StagesRight'
  BY <1>1, <1>2 DEF TypeOK, StagesRight, At, Present, Holding
<1>d. CountsRight' /\ NallocExact' /\ WorkConserving'
  BY <1>1, <1>2, <1>3 DEF TypeOK, CountsRight, NallocExact, WorkConserving, At, Asleep
<1>e. InOrder'
  BY <1>1 DEF InOrder
<1>f. EventsRight' /\ CprRight'
  BY <1>1, <1>2 DEF TypeOK, EventsRight, CprRight, Registered, At
<1>g. WaitersHaveCause'
  BY <1>1, <1>2 DEF TypeOK, WaitersHaveCause, At, Busy
<1> QED BY <1>a, <1>b, <1>c, <1>d, <1>e, <1>f, <1>g

\* A worker that was woken stops for a checkpoint.
LEMMA StopStep ==
  ASSUME TaskqInv, NEW w \in Workers, taskq_thread_stop(w)
  PROVE  TaskqInv'
<1> USE ThreadKinds DEF TaskqInv
<1>1. /\ pc[w] = "woken" /\ pc' = [pc EXCEPT ![w] = "stop_cv"]
      /\ "START" \in events[w]
      /\ UNCHANGED <<tq_lock, tq_task, next, tq_freelist, tq_nalloc, tq_minalloc, tq_active,
                     tq_nthreads, tq_isactive, suspender, task, dispatch, since, events, cpr>>
  BY DEF taskq_thread_stop, At, Goto, lists, population, threads, calls, callb
<1>2. /\ pc[w] = "woken" /\ pc'[w] = "stop_cv" /\ \A t \in Threads \ {w} : pc'[t] = pc[t]
      /\ pc' \in [Threads -> WorkerLabels \cup ClientLabels \cup OwnerLabels]
      /\ \A v \in Workers : pc'[v] \in WorkerLabels
      /\ \A v \in Workers \ {w} : pc'[v] = pc[v]
      /\ \A c \in Clients : pc'[c] = pc[c]
      /\ pc'[Owner] = pc[Owner]
  BY <1>1, WorkerMove DEF WorkerLabels
<1>3. /\ Cardinality(Holding') = Cardinality(Holding)
      /\ Cardinality(Looking') = Cardinality(Looking)
      /\ Cardinality(Active') = Cardinality(Active)
      /\ Cardinality(Present') = Cardinality(Present)
      /\ {Cardinality(Holding), Cardinality(Looking)} \subseteq Nat
      /\ {Cardinality(Active), Cardinality(Present)} \subseteq Nat
      /\ Cardinality(Present) # 0
  BY <1>2, WorkerCounts DEF Bit, Hs, Ls, As, Ps, WorkerLabels
<1>a. TypeOK'
  BY <1>1, <1>2 DEF TypeOK
<1>b. LocksRight' /\ TasksRight'
  BY <1>1, <1>2 DEF TypeOK, LocksRight, TasksRight, At
<1>c. StagesRight'
  BY <1>1, <1>2 DEF TypeOK, StagesRight, At, Present, Holding
<1>d. CountsRight' /\ NallocExact' /\ WorkConserving'
  BY <1>1, <1>2, <1>3 DEF TypeOK, CountsRight, NallocExact, WorkConserving, At, Asleep
<1>e. InOrder'
  BY <1>1 DEF InOrder
<1>f. EventsRight' /\ CprRight'
  BY <1>1, <1>2 DEF TypeOK, EventsRight, CprRight, Registered, At
<1>g. WaitersHaveCause'
  BY <1>1, <1>2 DEF TypeOK, WaitersHaveCause, At, Busy
<1> QED BY <1>a, <1>b, <1>c, <1>d, <1>e, <1>f, <1>g

\* The first task is taken off the queue.
LEMMA TakeStep ==
  ASSUME TaskqInv, NEW w \in Workers, taskq_thread_take(w)
  PROVE  TaskqInv'
<1> USE ThreadKinds DEF TaskqInv
<1>1. /\ pc[w] = "loop" /\ pc' = [pc EXCEPT ![w] = "rw_enter"]
      /\ tq_isactive /\ tq_task # <<>>
      /\ task' = [task EXCEPT ![w] = Head(tq_task)] /\ tq_task' = Tail(tq_task)
      /\ tq_lock' = NoThread
      /\ UNCHANGED <<next, tq_freelist, tq_nalloc, tq_minalloc, tq_active, tq_nthreads,
                     tq_isactive, suspender, dispatch, since, events, cpr>>
  BY DEF taskq_thread_take, At, Goto, lists, population, threads, calls, callb
<1>2. /\ pc[w] = "loop" /\ pc'[w] = "rw_enter" /\ \A t \in Threads \ {w} : pc'[t] = pc[t]
      /\ pc' \in [Threads -> WorkerLabels \cup ClientLabels \cup OwnerLabels]
      /\ \A v \in Workers : pc'[v] \in WorkerLabels
      /\ \A v \in Workers \ {w} : pc'[v] = pc[v]
      /\ \A c \in Clients : pc'[c] = pc[c]
      /\ pc'[Owner] = pc[Owner]
  BY <1>1, WorkerMove DEF WorkerLabels
<1>3. /\ Cardinality(Holding') = Cardinality(Holding) + 1
      /\ Cardinality(Looking') = Cardinality(Looking) - 1
      /\ Cardinality(Active') = Cardinality(Active)
      /\ Cardinality(Present') = Cardinality(Present)
      /\ {Cardinality(Holding), Cardinality(Looking)} \subseteq Nat
      /\ {Cardinality(Active), Cardinality(Present)} \subseteq Nat
      /\ Cardinality(Active) # 0
      /\ Cardinality(Present) # 0
  BY <1>2, WorkerCounts DEF Bit, Hs, Ls, As, Ps, WorkerLabels
<1>4. /\ Len(tq_task) \in Nat /\ Len(tq_task') = Len(tq_task) - 1 /\ tq_task' \in Seq(Nat \ {0})
      /\ \A i \in 1 .. Len(tq_task') : tq_task'[i] = tq_task[i + 1] /\ i + 1 \in 1 .. Len(tq_task)
      /\ task'[w] = tq_task[1] /\ task'[w] \in Nat \ {0} /\ 1 \in 1 .. Len(tq_task)
      /\ \A v \in Workers \ {w} : task'[v] = task[v]
  BY <1>1 DEF TypeOK
<1>5. tq_active # 0
  BY <1>1, <1>3 DEF CountsRight, StagesRight, At
<1>a. TypeOK'
  BY <1>1, <1>2 DEF TypeOK
<1>b. LocksRight' /\ TasksRight'
  BY <1>1, <1>2 DEF TypeOK, LocksRight, TasksRight, At
<1>c. StagesRight'
  BY <1>1, <1>2 DEF TypeOK, StagesRight, At, Present, Holding
<1>d. CountsRight' /\ NallocExact' /\ WorkConserving'
  <2>1. CountsRight'
    BY <1>1, <1>2, <1>3 DEF CountsRight, At
  <2>2. NallocExact'
    BY <1>1, <1>3, <1>4 DEF NallocExact, TypeOK
  <2>3. Asleep' = Asleep
    BY <1>2 DEF Asleep
  <2>4. WorkConserving'
    BY <2>3, <1>3, <1>4 DEF WorkConserving
  <2> QED BY <2>1, <2>2, <2>4
<1>e. InOrder'
  <2>1. ASSUME NEW i \in 1 .. Len(tq_task')
        PROVE  /\ tq_task'[i] < next /\ \A v \in Workers : task'[v] < tq_task'[i]
               /\ \A j \in 1 .. i - 1 : tq_task'[j] < tq_task'[i]
    <3>1. i \in Nat \ {0} /\ i + 1 \in 1 .. Len(tq_task) /\ tq_task'[i] = tq_task[i + 1]
      BY <1>4
    <3>2. tq_task[i + 1] < next /\ tq_task[1] < tq_task[i + 1]
      BY <1>4, <3>1 DEF InOrder
    <3>3. \A v \in Workers : task'[v] < tq_task'[i]
      BY <1>4, <3>1, <3>2 DEF InOrder
    <3>4. ASSUME NEW j \in 1 .. i - 1 PROVE tq_task'[j] < tq_task'[i]
      <4>1. j \in 1 .. Len(tq_task') /\ j + 1 \in 1 .. (i + 1) - 1
        BY <1>4, <3>1
      <4>2. tq_task[j + 1] < tq_task[i + 1]
        BY <3>1, <4>1 DEF InOrder
      <4> QED BY <1>4, <3>1, <4>1, <4>2
    <3> QED BY <3>1, <3>2, <3>3, <3>4
  <2>2. \A v \in Workers : task'[v] < next
    BY <1>4 DEF InOrder
  <2> QED BY <1>1, <2>1, <2>2 DEF InOrder
<1>f. EventsRight' /\ CprRight'
  BY <1>1, <1>2 DEF TypeOK, EventsRight, CprRight, Registered, At
<1>g. WaitersHaveCause'
  BY <1>1, <1>2, <1>5 DEF TypeOK, WaitersHaveCause, At, Busy
<1> QED BY <1>a, <1>b, <1>c, <1>d, <1>e, <1>f, <1>g

\* rw_enter() and the call of the function.
LEMMA CallStep ==
  ASSUME TaskqInv, NEW w \in Workers, taskq_thread_call(w)
  PROVE  TaskqInv'
<1> USE ThreadKinds DEF TaskqInv
<1>1. /\ pc[w] = "rw_enter" /\ pc' = [pc EXCEPT ![w] = "task_func"]
      /\ suspender = NoThread
      /\ UNCHANGED <<tq_lock, tq_task, next, tq_freelist, tq_nalloc, tq_minalloc, tq_active,
                     tq_nthreads, tq_isactive, suspender, task, dispatch, since, events, cpr>>
  BY DEF taskq_thread_call, At, Goto, lists, population, threads, calls, callb
<1>2. /\ pc[w] = "rw_enter" /\ pc'[w] = "task_func" /\ \A t \in Threads \ {w} : pc'[t] = pc[t]
      /\ pc' \in [Threads -> WorkerLabels \cup ClientLabels \cup OwnerLabels]
      /\ \A v \in Workers : pc'[v] \in WorkerLabels
      /\ \A v \in Workers \ {w} : pc'[v] = pc[v]
      /\ \A c \in Clients : pc'[c] = pc[c]
      /\ pc'[Owner] = pc[Owner]
  BY <1>1, WorkerMove DEF WorkerLabels
<1>3. /\ Cardinality(Holding') = Cardinality(Holding)
      /\ Cardinality(Looking') = Cardinality(Looking)
      /\ Cardinality(Active') = Cardinality(Active)
      /\ Cardinality(Present') = Cardinality(Present)
      /\ {Cardinality(Holding), Cardinality(Looking)} \subseteq Nat
      /\ {Cardinality(Active), Cardinality(Present)} \subseteq Nat
      /\ Cardinality(Active) # 0
      /\ Cardinality(Present) # 0
  BY <1>2, WorkerCounts DEF Bit, Hs, Ls, As, Ps, WorkerLabels
<1>a. TypeOK'
  BY <1>1, <1>2 DEF TypeOK
<1>b. LocksRight' /\ TasksRight'
  BY <1>1, <1>2 DEF TypeOK, LocksRight, TasksRight, At
<1>c. StagesRight'
  BY <1>1, <1>2 DEF TypeOK, StagesRight, At, Present, Holding
<1>d. CountsRight' /\ NallocExact' /\ WorkConserving'
  BY <1>1, <1>2, <1>3 DEF TypeOK, CountsRight, NallocExact, WorkConserving, At, Asleep
<1>e. InOrder'
  BY <1>1 DEF InOrder
<1>f. EventsRight' /\ CprRight'
  BY <1>1, <1>2 DEF TypeOK, EventsRight, CprRight, Registered, At
<1>g. WaitersHaveCause'
  BY <1>1, <1>2 DEF TypeOK, WaitersHaveCause, At, Busy
<1> QED BY <1>a, <1>b, <1>c, <1>d, <1>e, <1>f, <1>g

\* The function returns.
LEMMA ReturnStep ==
  ASSUME TaskqInv, NEW w \in Workers, taskq_thread_return(w)
  PROVE  TaskqInv'
<1> USE ThreadKinds DEF TaskqInv
<1>1. /\ pc[w] = "task_func" /\ pc' = [pc EXCEPT ![w] = "task_free"]
      /\ dispatch[w] = NotDispatching
      /\ task' = [task EXCEPT ![w] = 0]
      /\ UNCHANGED <<tq_lock, tq_task, next, tq_freelist, tq_nalloc, tq_minalloc, tq_active,
                     tq_nthreads, tq_isactive, suspender, dispatch, since, events, cpr>>
  BY DEF taskq_thread_return, At, Goto, lists, population, threads, calls, callb
<1>2. /\ pc[w] = "task_func" /\ pc'[w] = "task_free" /\ \A t \in Threads \ {w} : pc'[t] = pc[t]
      /\ pc' \in [Threads -> WorkerLabels \cup ClientLabels \cup OwnerLabels]
      /\ \A v \in Workers : pc'[v] \in WorkerLabels
      /\ \A v \in Workers \ {w} : pc'[v] = pc[v]
      /\ \A c \in Clients : pc'[c] = pc[c]
      /\ pc'[Owner] = pc[Owner]
  BY <1>1, WorkerMove DEF WorkerLabels
<1>3. /\ Cardinality(Holding') = Cardinality(Holding)
      /\ Cardinality(Looking') = Cardinality(Looking)
      /\ Cardinality(Active') = Cardinality(Active)
      /\ Cardinality(Present') = Cardinality(Present)
      /\ {Cardinality(Holding), Cardinality(Looking)} \subseteq Nat
      /\ {Cardinality(Active), Cardinality(Present)} \subseteq Nat
      /\ Cardinality(Active) # 0
      /\ Cardinality(Present) # 0
  BY <1>2, WorkerCounts DEF Bit, Hs, Ls, As, Ps, WorkerLabels
<1>a. TypeOK'
  BY <1>1, <1>2 DEF TypeOK
<1>b. LocksRight' /\ TasksRight'
  BY <1>1, <1>2 DEF TypeOK, LocksRight, TasksRight, At
<1>c. StagesRight'
  BY <1>1, <1>2 DEF TypeOK, StagesRight, At, Present, Holding
<1>d. CountsRight' /\ NallocExact' /\ WorkConserving'
  BY <1>1, <1>2, <1>3 DEF TypeOK, CountsRight, NallocExact, WorkConserving, At, Asleep
<1>e. InOrder'
  BY <1>1 DEF InOrder, TypeOK
<1>f. EventsRight' /\ CprRight'
  BY <1>1, <1>2 DEF TypeOK, EventsRight, CprRight, Registered, At
<1>g. WaitersHaveCause'
  BY <1>1, <1>2 DEF TypeOK, WaitersHaveCause, At, Busy
<1> QED BY <1>a, <1>b, <1>c, <1>d, <1>e, <1>f, <1>g

\* task_free() to the free list.
LEMMA FreeKeepStep ==
  ASSUME TaskqInv, NEW w \in Workers, task_free_keep(w)
  PROVE  TaskqInv'
<1> USE ThreadKinds DEF TaskqInv
<1>1. /\ pc[w] = "task_free" /\ pc' = [pc EXCEPT ![w] = "loop"]
      /\ tq_lock = NoThread /\ tq_lock' = w
      /\ tq_freelist' = tq_freelist + 1
      /\ UNCHANGED <<tq_task, next, tq_nalloc, tq_minalloc, tq_active, tq_nthreads, tq_isactive,
                     suspender, task, dispatch, since, events, cpr>>
  BY DEF task_free_keep, At, Goto, Unlocked, lists, population, threads, calls, callb
<1>2. /\ pc[w] = "task_free" /\ pc'[w] = "loop" /\ \A t \in Threads \ {w} : pc'[t] = pc[t]
      /\ pc' \in [Threads -> WorkerLabels \cup ClientLabels \cup OwnerLabels]
      /\ \A v \in Workers : pc'[v] \in WorkerLabels
      /\ \A v \in Workers \ {w} : pc'[v] = pc[v]
      /\ \A c \in Clients : pc'[c] = pc[c]
      /\ pc'[Owner] = pc[Owner]
  BY <1>1, WorkerMove DEF WorkerLabels
<1>3. /\ Cardinality(Holding') = Cardinality(Holding) - 1
      /\ Cardinality(Looking') = Cardinality(Looking) + 1
      /\ Cardinality(Active') = Cardinality(Active)
      /\ Cardinality(Present') = Cardinality(Present)
      /\ {Cardinality(Holding), Cardinality(Looking)} \subseteq Nat
      /\ {Cardinality(Active), Cardinality(Present)} \subseteq Nat
      /\ Cardinality(Active) # 0
      /\ Cardinality(Present) # 0
  BY <1>2, WorkerCounts DEF Bit, Hs, Ls, As, Ps, WorkerLabels
<1>a. TypeOK'
  BY <1>1, <1>2 DEF TypeOK
<1>b. LocksRight' /\ TasksRight'
  BY <1>1, <1>2 DEF TypeOK, LocksRight, TasksRight, At
<1>c. StagesRight'
  BY <1>1, <1>2 DEF TypeOK, StagesRight, At, Present, Holding
<1>d. CountsRight' /\ NallocExact' /\ WorkConserving'
  <2>1. CountsRight'
    BY <1>1, <1>2, <1>3 DEF TypeOK, CountsRight, At
  <2>2. NallocExact'
    BY <1>1, <1>2, <1>3 DEF TypeOK, NallocExact, At
  <2>3. WorkConserving'
    BY <1>1, <1>2, <1>3 DEF TypeOK, CountsRight, WorkConserving, At, Asleep
  <2> QED BY <2>1, <2>2, <2>3
<1>e. InOrder'
  BY <1>1 DEF InOrder
<1>f. EventsRight' /\ CprRight'
  BY <1>1, <1>2 DEF TypeOK, EventsRight, CprRight, Registered, At
<1>g. WaitersHaveCause'
  BY <1>1, <1>2 DEF TypeOK, WaitersHaveCause, At, Busy
<1> QED BY <1>a, <1>b, <1>c, <1>d, <1>e, <1>f, <1>g

\* task_free() to kmem.
LEMMA FreeKmemStep ==
  ASSUME TaskqInv, NEW w \in Workers, task_free_kmem(w)
  PROVE  TaskqInv'
<1> USE ThreadKinds DEF TaskqInv
<1>1. /\ pc[w] = "task_free" /\ pc' = [pc EXCEPT ![w] = "lock"]
      /\ tq_lock = NoThread
      /\ tq_nalloc > tq_minalloc /\ tq_nalloc' = tq_nalloc - 1
      /\ UNCHANGED <<tq_lock, tq_task, next, tq_freelist, tq_minalloc, tq_active, tq_nthreads,
                     tq_isactive, suspender, task, dispatch, since, events, cpr>>
  BY DEF task_free_kmem, At, Goto, Unlocked, lists, population, threads, calls, callb
<1>2. /\ pc[w] = "task_free" /\ pc'[w] = "lock" /\ \A t \in Threads \ {w} : pc'[t] = pc[t]
      /\ pc' \in [Threads -> WorkerLabels \cup ClientLabels \cup OwnerLabels]
      /\ \A v \in Workers : pc'[v] \in WorkerLabels
      /\ \A v \in Workers \ {w} : pc'[v] = pc[v]
      /\ \A c \in Clients : pc'[c] = pc[c]
      /\ pc'[Owner] = pc[Owner]
  BY <1>1, WorkerMove DEF WorkerLabels
<1>3. /\ Cardinality(Holding') = Cardinality(Holding) - 1
      /\ Cardinality(Looking') = Cardinality(Looking)
      /\ Cardinality(Active') = Cardinality(Active)
      /\ Cardinality(Present') = Cardinality(Present)
      /\ {Cardinality(Holding), Cardinality(Looking)} \subseteq Nat
      /\ {Cardinality(Active), Cardinality(Present)} \subseteq Nat
      /\ Cardinality(Active) # 0
      /\ Cardinality(Present) # 0
  BY <1>2, WorkerCounts DEF Bit, Hs, Ls, As, Ps, WorkerLabels
<1>a. TypeOK'
  BY <1>1, <1>2, AllocAssumption DEF TypeOK
<1>b. LocksRight' /\ TasksRight'
  BY <1>1, <1>2 DEF TypeOK, LocksRight, TasksRight, At
<1>c. StagesRight'
  BY <1>1, <1>2 DEF TypeOK, StagesRight, At, Present, Holding
<1>d. CountsRight' /\ NallocExact' /\ WorkConserving'
  BY <1>1, <1>2, <1>3, SMTT(30) DEF TypeOK, CountsRight, NallocExact, WorkConserving, At, Asleep
<1>e. InOrder'
  BY <1>1 DEF InOrder
<1>f. EventsRight' /\ CprRight'
  BY <1>1, <1>2 DEF TypeOK, EventsRight, CprRight, Registered, At
<1>g. WaitersHaveCause'
  BY <1>1, <1>2 DEF TypeOK, WaitersHaveCause, At, Busy
<1> QED BY <1>a, <1>b, <1>c, <1>d, <1>e, <1>f, <1>g

\* callb_delete().
LEMMA DeleteStep ==
  ASSUME TaskqInv, NEW w \in Workers, callb_delete(w)
  PROVE  TaskqInv'
<1> USE ThreadKinds DEF TaskqInv
<1>1. /\ pc[w] = "callb_delete" /\ pc' = [pc EXCEPT ![w] = "gone"]
      /\ cpr.who # w
      /\ UNCHANGED <<tq_lock, tq_task, next, tq_freelist, tq_nalloc, tq_minalloc, tq_active,
                     tq_nthreads, tq_isactive, suspender, task, dispatch, since, events, cpr>>
  BY DEF callb_delete, At, Goto, lists, population, threads, calls, callb
<1>2. /\ pc[w] = "callb_delete" /\ pc'[w] = "gone" /\ \A t \in Threads \ {w} : pc'[t] = pc[t]
      /\ pc' \in [Threads -> WorkerLabels \cup ClientLabels \cup OwnerLabels]
      /\ \A v \in Workers : pc'[v] \in WorkerLabels
      /\ \A v \in Workers \ {w} : pc'[v] = pc[v]
      /\ \A c \in Clients : pc'[c] = pc[c]
      /\ pc'[Owner] = pc[Owner]
  BY <1>1, WorkerMove DEF WorkerLabels
<1>3. /\ Cardinality(Holding') = Cardinality(Holding)
      /\ Cardinality(Looking') = Cardinality(Looking)
      /\ Cardinality(Active') = Cardinality(Active)
      /\ Cardinality(Present') = Cardinality(Present)
      /\ {Cardinality(Holding), Cardinality(Looking)} \subseteq Nat
      /\ {Cardinality(Active), Cardinality(Present)} \subseteq Nat
      /\ Cardinality(Active) # 0
  BY <1>2, WorkerCounts DEF Bit, Hs, Ls, As, Ps, WorkerLabels
<1>a. TypeOK'
  BY <1>1, <1>2 DEF TypeOK
<1>b. LocksRight' /\ TasksRight'
  BY <1>1, <1>2 DEF TypeOK, LocksRight, TasksRight, At
<1>c. StagesRight'
  BY <1>1, <1>2 DEF TypeOK, StagesRight, At, Present, Holding
<1>d. CountsRight' /\ NallocExact' /\ WorkConserving'
  BY <1>1, <1>2, <1>3 DEF TypeOK, CountsRight, NallocExact, WorkConserving, At, Asleep
<1>e. InOrder'
  BY <1>1 DEF InOrder
<1>f. EventsRight' /\ CprRight'
  BY <1>1, <1>2 DEF TypeOK, EventsRight, CprRight, Registered, At
<1>g. WaitersHaveCause'
  BY <1>1, <1>2 DEF TypeOK, WaitersHaveCause, At, Busy
<1> QED BY <1>a, <1>b, <1>c, <1>d, <1>e, <1>f, <1>g

\* cv_broadcast(&tq->tq_wait_cv) moves nobody but those who wait there.
LEMMA AwakenMove ==
  ASSUME TypeOK, NEW w \in Workers, NEW l \in WorkerLabels, NEW all \in BOOLEAN,
         pc' = [IF all THEN AwakenWaiters(pc) ELSE pc EXCEPT ![w] = l]
  PROVE  /\ pc'[w] = l /\ \A v \in Workers \ {w} : pc'[v] = pc[v]
         /\ pc' \in [Threads -> WorkerLabels \cup ClientLabels \cup OwnerLabels]
         /\ \A v \in Workers : pc'[v] \in WorkerLabels
         /\ \A c \in Clients : pc'[c] = pc[c] \/ (pc[c] = "wait_cv" /\ pc'[c] = "wait")
         /\ \/ pc'[Owner] = pc[Owner]
            \/ pc[Owner] = "destroy_wait_cv" /\ pc'[Owner] = "destroy_wait"
            \/ pc[Owner] = "destroy_join_cv" /\ pc'[Owner] = "destroy_join"
         /\ all => \A t \in Threads : pc'[t] \notin {"wait_cv", "destroy_wait_cv", "destroy_join_cv"}
<1> DEFINE W == {"wait_cv", "destroy_wait_cv", "destroy_join_cv"}
<1>1. DOMAIN Wakes = W /\ Wakes["wait_cv"] = "wait" /\ Wakes["destroy_wait_cv"] = "destroy_wait"
      /\ Wakes["destroy_join_cv"] = "destroy_join"
  BY DEF Wakes
<1>2. w \in Threads /\ \A t \in Threads : pc[t] \in WorkerLabels \cup ClientLabels \cup OwnerLabels
  BY ThreadKinds DEF TypeOK
<1>3. CASE ~all
  BY <1>2, <1>3, ThreadKinds DEF TypeOK
<1>4. CASE all
  <2>1. ASSUME NEW t \in Threads, t # w
        PROVE  pc'[t] = IF pc[t] \in W THEN Wakes[pc[t]] ELSE pc[t]
    BY <1>1, <1>2, <1>4, <2>1 DEF AwakenWaiters
  <2>2. pc'[w] = l /\ DOMAIN pc' = Threads /\ pc' = [t \in Threads |-> pc'[t]]
    BY <1>2, <1>4 DEF AwakenWaiters
  <2>3. \A v \in Workers \ {w} : pc'[v] = pc[v]
    BY <2>1, ThreadKinds DEF TypeOK, WorkerLabels
  <2>4. \A c \in Clients : pc'[c] = pc[c] \/ (pc[c] = "wait_cv" /\ pc'[c] = "wait")
    <3>1. \A c \in Clients : c \in Threads /\ c # w /\ pc[c] \in ClientLabels
      BY ThreadKinds DEF TypeOK
    <3> QED BY <1>1, <2>1, <3>1 DEF ClientLabels
  <2>5. \/ pc'[Owner] = pc[Owner]
        \/ pc[Owner] = "destroy_wait_cv" /\ pc'[Owner] = "destroy_wait"
        \/ pc[Owner] = "destroy_join_cv" /\ pc'[Owner] = "destroy_join"
    BY <1>1, <2>1, ThreadKinds DEF TypeOK, OwnerLabels
  <2>6. \A t \in Threads : pc'[t] \notin W
    BY <1>1, <2>1, <2>2 DEF WorkerLabels
  <2>7. pc' \in [Threads -> WorkerLabels \cup ClientLabels \cup OwnerLabels]
    <3>1. ASSUME NEW t \in Threads PROVE pc'[t] \in WorkerLabels \cup ClientLabels \cup OwnerLabels
      BY <1>1, <1>2, <2>1, <2>2 DEF WorkerLabels, ClientLabels, OwnerLabels
    <3> QED BY <2>2, <3>1
  <2> QED BY <1>4, <2>2, <2>3, <2>4, <2>5, <2>6, <2>7 DEF TypeOK
<1> QED BY <1>3, <1>4

\* There is nothing to do; the last worker tells those who wait.
LEMMA IdleStep ==
  ASSUME TaskqInv, NEW w \in Workers, taskq_thread_idle(w)
  PROVE  TaskqInv'
<1> USE ThreadKinds DEF TaskqInv
<1> DEFINE all == tq_active' = 0
<1>1. /\ pc[w] = "loop" /\ tq_lock' = NoThread
      /\ pc' = [IF all THEN AwakenWaiters(pc) ELSE pc EXCEPT ![w] = "dispatch_cv"]
      /\ tq_isactive /\ tq_task = <<>> /\ tq_active' = tq_active - 1
      /\ events' = [events EXCEPT ![w] = @ \cup {"SAFE"}]
      /\ \/ /\ "START" \in events[w] /\ cpr.at = "chkpt_cv" /\ cpr.who = w
            /\ cpr' = [cpr EXCEPT !.at = "chkpt_woken"]
         \/ ~("START" \in events[w] /\ cpr.at = "chkpt_cv" /\ cpr.who = w) /\ UNCHANGED cpr
      /\ UNCHANGED <<tq_task, next, tq_freelist, tq_nalloc, tq_minalloc, tq_nthreads,
                     tq_isactive, suspender, task, dispatch, since>>
  BY DEF taskq_thread_idle, At, BecomeSafe, lists, population, threads, calls, callb
<1>2. /\ pc[w] = "loop" /\ pc'[w] = "dispatch_cv" /\ \A v \in Workers \ {w} : pc'[v] = pc[v]
      /\ pc' \in [Threads -> WorkerLabels \cup ClientLabels \cup OwnerLabels]
      /\ \A v \in Workers : pc'[v] \in WorkerLabels
      /\ \A c \in Clients : pc'[c] = pc[c] \/ (pc[c] = "wait_cv" /\ pc'[c] = "wait")
      /\ \/ pc'[Owner] = pc[Owner]
         \/ pc[Owner] = "destroy_wait_cv" /\ pc'[Owner] = "destroy_wait"
         \/ pc[Owner] = "destroy_join_cv" /\ pc'[Owner] = "destroy_join"
      /\ all => \A t \in Threads : pc'[t] \notin {"wait_cv", "destroy_wait_cv", "destroy_join_cv"}
  <2> HIDE DEF all
  <2> QED BY <1>1, AwakenMove DEF WorkerLabels
<1>3. /\ Cardinality(Holding') = Cardinality(Holding)
      /\ Cardinality(Looking') = Cardinality(Looking) - 1
      /\ Cardinality(Active') = Cardinality(Active) - 1
      /\ Cardinality(Present') = Cardinality(Present)
      /\ {Cardinality(Holding), Cardinality(Looking)} \subseteq Nat
      /\ {Cardinality(Active), Cardinality(Present)} \subseteq Nat
      /\ Cardinality(Active) # 0 /\ Cardinality(Present) # 0
  BY <1>2, WorkerCounts DEF Bit, Hs, Ls, As, Ps, WorkerLabels
<1>4. tq_active = Cardinality(Active) /\ tq_active' \in Nat
  BY <1>1, <1>3 DEF CountsRight, StagesRight, At
<1>a. TypeOK'
  <2>1. cpr' \in [at : {"idle", "chkpt", "chkpt_cv", "chkpt_woken", "suspended", "resume"},
                 who : Workers \cup {NoThread}, todo : SUBSET Workers]
    BY <1>1 DEF TypeOK
  <2>2. events' \in [Workers -> SUBSET {"START", "SAFE"}]
    BY <1>1 DEF TypeOK
  <2>3. pc'[Owner] \in OwnerLabels /\ \A c \in Clients : pc'[c] \in ClientLabels
    BY <1>2 DEF TypeOK, OwnerLabels, ClientLabels
  <2> QED BY <1>1, <1>2, <1>4, <2>1, <2>2, <2>3 DEF TypeOK
<1>b. LocksRight' /\ TasksRight'
  <2>1. tq_lock' = NoThread /\ UNCHANGED <<suspender, task, dispatch>>
    BY <1>1
  <2>2. LocksRight'
    <3>1. \A v \in Workers : At(v, "loop")' <=> tq_lock' = v
      BY <1>2, <2>1 DEF LocksRight, At, TypeOK
    <3>2. suspender # NoThread => pc'[suspender] = "suspend"
      BY <1>2 DEF LocksRight, At, TypeOK
    <3> QED BY <2>1, <3>1, <3>2 DEF LocksRight, At
  <2>3. TasksRight'
    BY <1>2, <2>1 DEF TasksRight, At
  <2> QED BY <2>2, <2>3
<1>c. StagesRight'
  BY <1>1, <1>2 DEF TypeOK, StagesRight, At, Present, Holding
<1>d. CountsRight' /\ NallocExact' /\ WorkConserving'
  <2>1. CountsRight'
    BY <1>1, <1>2, <1>3, <1>4 DEF CountsRight, At, TypeOK, StagesRight
  <2>2. NallocExact'
    BY <1>1, <1>3 DEF NallocExact
  <2>3. tq_task' = <<>> /\ Len(<<>>) = 0 /\ Cardinality(Looking') \in Nat
    <3>1. Looking' \in SUBSET Workers
      BY DEF Looking
    <3> QED BY <1>1, <1>4, <3>1, ThreadsAssumption, FS_Subset, FS_CardinalityType
  <2>4. WorkConserving'
    BY <2>3 DEF WorkConserving
  <2> QED BY <2>1, <2>2, <2>4
<1>e. InOrder'
  BY <1>1 DEF InOrder
<1>f. EventsRight' /\ CprRight'
  <2>1. /\ events'[w] = events[w] \cup {"SAFE"} /\ \A v \in Workers \ {w} : events'[v] = events[v]
    BY <1>1 DEF TypeOK
  <2>2. /\ Registered' = Registered /\ w \in Registered /\ cpr'.who = cpr.who /\ cpr'.todo = cpr.todo
        /\ \/ cpr.at = "chkpt_cv" /\ cpr.who = w /\ cpr'.at = "chkpt_woken"
           \/ cpr'.at = cpr.at /\ (cpr.at = "chkpt_cv" => cpr.who # w)
    BY <1>1, <1>2 DEF TypeOK, Registered, CprRight
  <2>3. EventsRight'
    BY <1>2, <2>1, <2>2 DEF EventsRight, CprRight, Registered, At
  <2>4. CprRight'
    BY <2>1, <2>2 DEF CprRight, TypeOK
  <2> QED BY <2>3, <2>4
<1>g. WaitersHaveCause'
  BY <1>1, <1>2, <1>4 DEF TypeOK, WaitersHaveCause, At, Busy
<1> QED BY <1>a, <1>b, <1>c, <1>d, <1>e, <1>f, <1>g

\* The worker leaves a queue that is no longer active.
LEMMA ExitStep ==
  ASSUME TaskqInv, NEW w \in Workers, taskq_thread_exit(w)
  PROVE  TaskqInv'
<1> USE ThreadKinds DEF TaskqInv
<1> DEFINE all == TRUE
<1>1. /\ pc[w] = "loop" /\ tq_lock' = NoThread
      /\ pc' = [IF all THEN AwakenWaiters(pc) ELSE pc EXCEPT ![w] = "callb_delete"]
      /\ ~tq_isactive /\ tq_nthreads' = tq_nthreads - 1
      /\ events' = [events EXCEPT ![w] = @ \cup {"SAFE"}]
      /\ \/ /\ "START" \in events[w] /\ cpr.at = "chkpt_cv" /\ cpr.who = w
            /\ cpr' = [cpr EXCEPT !.at = "chkpt_woken"]
         \/ ~("START" \in events[w] /\ cpr.at = "chkpt_cv" /\ cpr.who = w) /\ UNCHANGED cpr
      /\ UNCHANGED <<tq_task, next, tq_freelist, tq_nalloc, tq_minalloc, tq_active, tq_isactive,
                     suspender, task, dispatch, since>>
  BY DEF taskq_thread_exit, At, BecomeSafe, lists, population, threads, calls, callb
<1>2. /\ pc[w] = "loop" /\ pc'[w] = "callb_delete" /\ \A v \in Workers \ {w} : pc'[v] = pc[v]
      /\ pc' \in [Threads -> WorkerLabels \cup ClientLabels \cup OwnerLabels]
      /\ \A v \in Workers : pc'[v] \in WorkerLabels
      /\ \A c \in Clients : pc'[c] = pc[c] \/ (pc[c] = "wait_cv" /\ pc'[c] = "wait")
      /\ \/ pc'[Owner] = pc[Owner]
         \/ pc[Owner] = "destroy_wait_cv" /\ pc'[Owner] = "destroy_wait"
         \/ pc[Owner] = "destroy_join_cv" /\ pc'[Owner] = "destroy_join"
      /\ all => \A t \in Threads : pc'[t] \notin {"wait_cv", "destroy_wait_cv", "destroy_join_cv"}
  <2> HIDE DEF all
  <2> QED BY <1>1, AwakenMove DEF WorkerLabels
<1>3. /\ Cardinality(Holding') = Cardinality(Holding)
      /\ Cardinality(Looking') = Cardinality(Looking) - 1
      /\ Cardinality(Active') = Cardinality(Active)
      /\ Cardinality(Present') = Cardinality(Present) - 1
      /\ {Cardinality(Holding), Cardinality(Looking)} \subseteq Nat
      /\ {Cardinality(Active), Cardinality(Present)} \subseteq Nat
      /\ Cardinality(Active) # 0 /\ Cardinality(Present) # 0
  BY <1>2, WorkerCounts DEF Bit, Hs, Ls, As, Ps, WorkerLabels
<1>4. tq_nthreads' \in Nat /\ tq_task = <<>>
  BY <1>1, <1>3 DEF CountsRight, StagesRight, TypeOK, OwnerLabels
<1>a. TypeOK'
  <2>1. cpr' \in [at : {"idle", "chkpt", "chkpt_cv", "chkpt_woken", "suspended", "resume"},
                 who : Workers \cup {NoThread}, todo : SUBSET Workers]
    BY <1>1 DEF TypeOK
  <2>2. events' \in [Workers -> SUBSET {"START", "SAFE"}]
    BY <1>1 DEF TypeOK
  <2>3. pc'[Owner] \in OwnerLabels /\ \A c \in Clients : pc'[c] \in ClientLabels
    BY <1>2 DEF TypeOK, OwnerLabels, ClientLabels
  <2> QED BY <1>1, <1>2, <1>4, <2>1, <2>2, <2>3 DEF TypeOK
<1>b. LocksRight' /\ TasksRight'
  <2>1. tq_lock' = NoThread /\ UNCHANGED <<suspender, task, dispatch>>
    BY <1>1
  <2>2. LocksRight'
    <3>1. \A v \in Workers : At(v, "loop")' <=> tq_lock' = v
      BY <1>2, <2>1, SMTT(30) DEF LocksRight, At, TypeOK
    <3>2. suspender # NoThread => pc'[suspender] = "suspend"
      BY <1>2 DEF LocksRight, At, TypeOK
    <3> QED BY <2>1, <3>1, <3>2 DEF LocksRight, At
  <2>3. TasksRight'
    BY <1>2, <2>1 DEF TasksRight, At
  <2> QED BY <2>2, <2>3
<1>c. StagesRight'
  BY <1>1, <1>2, ZenonT(60) DEF TypeOK, StagesRight, At, Present, Holding
<1>d. CountsRight' /\ NallocExact' /\ WorkConserving'
  <2>1. CountsRight'
    BY <1>1, <1>2, <1>3, <1>4 DEF CountsRight, At, TypeOK, StagesRight
  <2>2. NallocExact'
    BY <1>1, <1>3 DEF NallocExact
  <2>3. tq_task' = <<>> /\ Len(<<>>) = 0 /\ Cardinality(Looking') \in Nat
    <3>1. Looking' \in SUBSET Workers
      BY DEF Looking
    <3> QED BY <1>1, <1>4, <3>1, ThreadsAssumption, FS_Subset, FS_CardinalityType
  <2>4. WorkConserving'
    BY <2>3 DEF WorkConserving
  <2> QED BY <2>1, <2>2, <2>4
<1>e. InOrder'
  BY <1>1 DEF InOrder
<1>f. EventsRight' /\ CprRight'
  <2>1. /\ events'[w] = events[w] \cup {"SAFE"} /\ \A v \in Workers \ {w} : events'[v] = events[v]
    BY <1>1 DEF TypeOK
  <2>2. /\ Registered' = Registered /\ w \in Registered /\ cpr'.who = cpr.who /\ cpr'.todo = cpr.todo
        /\ \/ cpr.at = "chkpt_cv" /\ cpr.who = w /\ cpr'.at = "chkpt_woken"
           \/ cpr'.at = cpr.at /\ (cpr.at = "chkpt_cv" => cpr.who # w)
    BY <1>1, <1>2 DEF TypeOK, Registered, CprRight
  <2>3. EventsRight'
    BY <1>2, <2>1, <2>2 DEF EventsRight, CprRight, Registered, At
  <2>4. CprRight'
    BY <2>1, <2>2 DEF CprRight, TypeOK
  <2> QED BY <2>3, <2>4
<1>g. WaitersHaveCause'
  BY <1>1, <1>2 DEF TypeOK, WaitersHaveCause, At, Busy
<1> QED BY <1>a, <1>b, <1>c, <1>d, <1>e, <1>f, <1>g

-----------------------------------------------------------------------------
(* The steps of dispatchers                                                *)

\* What the counts are about, if no worker moves.
LEMMA SameWorkers ==
  ASSUME \A w \in Workers : pc'[w] = pc[w]
  PROVE  /\ Holding' = Holding /\ Looking' = Looking /\ Active' = Active /\ Present' = Present
         /\ Asleep' = Asleep /\ Registered' = Registered
BY DEF Holding, Looking, Active, Present, Asleep, Registered

\* cv_signal(&tq->tq_dispatch_cv) wakes one worker that sleeps, if there is one.
LEMMA SignalMove ==
  ASSUME TypeOK, \/ Asleep = {} /\ UNCHANGED pc
                 \/ \E w \in Asleep : pc' = [pc EXCEPT ![w] = "woken"]
  PROVE  /\ pc' \in [Threads -> WorkerLabels \cup ClientLabels \cup OwnerLabels]
         /\ pc'[Owner] = pc[Owner] /\ \A c \in Clients : pc'[c] = pc[c]
         /\ \A w \in Workers : pc'[w] = pc[w] \/ (pc[w] = "dispatch_cv" /\ pc'[w] = "woken")
         /\ \A w \in Workers : pc'[w] \in WorkerLabels
         /\ Cardinality(Holding') = Cardinality(Holding)
         /\ Cardinality(Active') = Cardinality(Active)
         /\ Cardinality(Present') = Cardinality(Present)
         /\ Asleep' # {} => /\ Asleep # {} /\ Cardinality(Looking) \in Nat
                            /\ Cardinality(Looking') = Cardinality(Looking) + 1
<1>1. CASE Asleep = {} /\ UNCHANGED pc
  <2>1. Holding' = Holding /\ Active' = Active /\ Present' = Present /\ Asleep' = Asleep
    BY <1>1, SameWorkers
  <2>2. Asleep' = {}
    BY <1>1, <2>1
  <2>3. /\ pc' \in [Threads -> WorkerLabels \cup ClientLabels \cup OwnerLabels]
        /\ \A w \in Workers : pc'[w] \in WorkerLabels
    BY <1>1 DEF TypeOK
  <2>4. /\ Cardinality(Holding') = Cardinality(Holding) /\ Cardinality(Active') = Cardinality(Active)
        /\ Cardinality(Present') = Cardinality(Present)
    BY <2>1
  <2>5. pc'[Owner] = pc[Owner] /\ \A c \in Clients : pc'[c] = pc[c]
    BY <1>1
  <2>6. \A w \in Workers : pc'[w] = pc[w] \/ (pc[w] = "dispatch_cv" /\ pc'[w] = "woken")
    BY <1>1
  <2>7. Asleep' # {} => /\ Asleep # {} /\ Cardinality(Looking) \in Nat
                        /\ Cardinality(Looking') = Cardinality(Looking) + 1
    BY <2>2
  <2> QED BY <2>3, <2>4, <2>5, <2>6, <2>7
<1>2. CASE \E w \in Asleep : pc' = [pc EXCEPT ![w] = "woken"]
  <2>1. PICK w \in Asleep : pc' = [pc EXCEPT ![w] = "woken"]
    BY <1>2
  <2>2. w \in Workers /\ pc[w] = "dispatch_cv" /\ Asleep # {}
    BY DEF Asleep
  <2>3. /\ pc' \in [Threads -> WorkerLabels \cup ClientLabels \cup OwnerLabels]
        /\ pc'[Owner] = pc[Owner] /\ \A c \in Clients : pc'[c] = pc[c]
        /\ pc'[w] = "woken" /\ \A v \in Workers \ {w} : pc'[v] = pc[v]
        /\ \A v \in Workers : pc'[v] \in WorkerLabels
    BY <2>1, <2>2, WorkerMove DEF WorkerLabels
  <2>4. /\ Cardinality(Holding') = Cardinality(Holding) /\ Cardinality(Active') = Cardinality(Active)
        /\ Cardinality(Present') = Cardinality(Present) /\ Cardinality(Looking) \in Nat
        /\ Cardinality(Looking') = Cardinality(Looking) + 1
    BY <2>2, <2>3, WorkerCounts DEF Bit, Hs, Ls, As, Ps, WorkerLabels
  <2>5. \A v \in Workers : pc'[v] = pc[v] \/ (pc[v] = "dispatch_cv" /\ pc'[v] = "woken")
    BY <2>2, <2>3
  <2> QED BY <2>2, <2>3, <2>4, <2>5
<1> QED BY <1>1, <1>2

\* task_alloc() without tq_lock: only where the dispatcher is changes.
LEMMA AllocStep ==
  ASSUME TaskqInv, NEW u \in Users,
         task_alloc_check(u) \/ task_alloc_fail(u) \/ \E km \in KmFlags : taskq_dispatch_new(u, km)
  PROVE  TaskqInv'
<1> USE ThreadKinds DEF TaskqInv
<1>1. \E d \in [at : {"none", "check", "kmem"}, km : {KM_SLEEP, KM_NOSLEEP}] :
        dispatch' = [dispatch EXCEPT ![u] = d]
  <2>1. CASE task_alloc_check(u)
    BY <2>1, ZenonT(60) DEF task_alloc_check, TypeOK, NotDispatching
  <2>2. CASE task_alloc_fail(u)
    BY <2>2 DEF task_alloc_fail, NotDispatching
  <2>3. CASE \E km \in KmFlags : taskq_dispatch_new(u, km)
    BY <2>3, AllocAssumption DEF taskq_dispatch_new
  <2> QED BY <2>1, <2>2, <2>3
<1>2. UNCHANGED <<pc, tq_lock, tq_task, next, tq_freelist, tq_nalloc, tq_minalloc, tq_active,
                     tq_nthreads, tq_isactive, suspender, task, since, events, cpr>>
  BY DEF task_alloc_check, task_alloc_fail, taskq_dispatch_new, lists, population, threads,
     callb
<1>3. /\ u \in Workers => At(u, "task_func")
      /\ u \in Clients => At(Owner, "created")
  <2>1. CASE dispatch[u] # NotDispatching
    BY <2>1 DEF TasksRight, StagesRight
  <2>2. CASE MayDispatch(u)
    BY <2>2 DEF MayDispatch
  <2>3. dispatch[u] # NotDispatching \/ MayDispatch(u)
    BY DEF task_alloc_check, task_alloc_fail, taskq_dispatch_new, NotDispatching
  <2> QED BY <2>1, <2>2, <2>3
<1>4. \A v \in Users \ {u} : dispatch'[v] = dispatch[v]
  BY <1>1 DEF TypeOK
<1>5. Workers \subseteq Users /\ Clients \subseteq Users
  BY DEF Users
<1>6. /\ Holding' = Holding /\ Looking' = Looking /\ Active' = Active /\ Present' = Present
      /\ Asleep' = Asleep /\ Registered' = Registered
  BY <1>2, SameWorkers
<1>a. TypeOK'
  BY <1>1, <1>2 DEF TypeOK
<1>b. LocksRight' /\ TasksRight'
  BY <1>2, <1>3, <1>4, <1>5 DEF LocksRight, TasksRight, At
<1>c. StagesRight'
  BY <1>2, <1>3, <1>4, <1>5, <1>6 DEF StagesRight, At
<1>d. CountsRight' /\ NallocExact' /\ WorkConserving'
  BY <1>2, <1>6 DEF CountsRight, NallocExact, WorkConserving, At
<1>e. InOrder'
  BY <1>2 DEF InOrder
<1>f. EventsRight' /\ CprRight'
  BY <1>2, <1>6 DEF EventsRight, CprRight, At
<1>g. WaitersHaveCause'
  BY <1>2 DEF WaitersHaveCause, At, Busy
<1> QED BY <1>a, <1>b, <1>c, <1>d, <1>e, <1>f, <1>g

\* taskq_dispatch() under tq_lock: the task goes to the tail, one sleeper is woken.
LEMMA EnqueueStep ==
  ASSUME TaskqInv, NEW u \in Users, taskq_dispatch_free(u) \/ task_alloc_new(u)
  PROVE  TaskqInv'
<1> USE ThreadKinds DEF TaskqInv
<1>1. /\ Enqueue
      /\ \/ tq_freelist > 0 /\ tq_freelist' = tq_freelist - 1 /\ UNCHANGED <<tq_nalloc, dispatch>>
         \/ /\ tq_nalloc' = tq_nalloc + 1 /\ UNCHANGED tq_freelist
            /\ dispatch' = [dispatch EXCEPT ![u] = NotDispatching]
      /\ UNCHANGED <<tq_lock, tq_minalloc, tq_active, tq_nthreads, tq_isactive, suspender, task,
                     since, events, cpr>>
  BY DEF taskq_dispatch_free, task_alloc_new, population, threads, calls, callb
<1>2. /\ pc[Owner] \in {"created", "destroy_wait", "destroy_wait_cv"}
      /\ dispatch' \in [Users -> [at : {"none", "check", "kmem"}, km : {KM_SLEEP, KM_NOSLEEP}]]
      /\ \A v \in Users : dispatch'[v] \in {dispatch[v], NotDispatching}
  <2>1. /\ u \in Workers => At(u, "task_func")
        /\ u \in Clients => At(Owner, "created")
    <3>1. CASE dispatch[u] # NotDispatching
      BY <3>1 DEF TasksRight, StagesRight
    <3>2. CASE MayDispatch(u)
      BY <3>2 DEF MayDispatch
    <3>3. dispatch[u] # NotDispatching \/ MayDispatch(u)
      BY DEF taskq_dispatch_free, task_alloc_new, NotDispatching
    <3> QED BY <3>1, <3>2, <3>3
  <2>2. pc[Owner] \in {"created", "destroy_wait", "destroy_wait_cv"}
    BY <2>1 DEF StagesRight, Holding, TypeOK, OwnerLabels, At, Users
  <2>3. NotDispatching \in [at : {"none", "check", "kmem"}, km : {KM_SLEEP, KM_NOSLEEP}]
    BY DEF NotDispatching
  <2> QED BY <1>1, <2>2, <2>3 DEF TypeOK
<1>3. /\ tq_task' \in Seq(Nat \ {0}) /\ Len(tq_task') = Len(tq_task) + 1 /\ Len(tq_task) \in Nat
      /\ tq_task'[Len(tq_task) + 1] = next /\ next' = next + 1 /\ next \in Nat \ {0}
      /\ \A i \in 1 .. Len(tq_task) : tq_task'[i] = tq_task[i]
      /\ tq_task' # <<>>
  BY <1>1, SMTT(30) DEF Enqueue, TypeOK
<1>4. \/ Asleep = {} /\ UNCHANGED pc
      \/ \E w \in Asleep : pc' = [pc EXCEPT ![w] = "woken"]
  BY <1>1 DEF Enqueue, Goto
<1>5. /\ pc' \in [Threads -> WorkerLabels \cup ClientLabels \cup OwnerLabels]
      /\ pc'[Owner] = pc[Owner] /\ \A c \in Clients : pc'[c] = pc[c]
      /\ \A w \in Workers : pc'[w] = pc[w] \/ (pc[w] = "dispatch_cv" /\ pc'[w] = "woken")
      /\ \A w \in Workers : pc'[w] \in WorkerLabels
      /\ Cardinality(Holding') = Cardinality(Holding) /\ Cardinality(Active') = Cardinality(Active)
      /\ Cardinality(Present') = Cardinality(Present)
      /\ Asleep' # {} => /\ Asleep # {} /\ Cardinality(Looking) \in Nat
                         /\ Cardinality(Looking') = Cardinality(Looking) + 1
  BY <1>4, SignalMove
<1>6. Workers \subseteq Users /\ Clients \subseteq Users
  BY DEF Users
<1>a. TypeOK'
  <2>1. tq_freelist' \in Nat /\ tq_nalloc' \in Nat
    BY <1>1 DEF TypeOK
  <2> QED BY <1>1, <1>2, <1>3, <1>5, <2>1 DEF TypeOK
<1>b. LocksRight' /\ TasksRight'
  BY <1>1, <1>2, <1>5, <1>6 DEF LocksRight, TasksRight, At, TypeOK
<1>c. StagesRight'
  BY <1>1, <1>2, <1>5, <1>6 DEF StagesRight, At, Present
<1>d. CountsRight' /\ NallocExact' /\ WorkConserving'
  <2>1. CountsRight'
    BY <1>1, <1>5 DEF CountsRight, At
  <2>2. NallocExact'
    <3>1. Cardinality(Holding) \in Nat
      <4>1. Holding \in SUBSET Workers
        BY DEF Holding
      <4> QED BY <4>1, ThreadsAssumption, FS_Subset, FS_CardinalityType
    <3>2. tq_nalloc' - tq_freelist' = tq_nalloc - tq_freelist + 1 /\ {tq_nalloc', tq_freelist'} \subseteq Nat
      BY <1>1 DEF TypeOK
    <3>3. tq_nalloc - tq_freelist = Len(tq_task) + Cardinality(Holding)
      BY <3>1 DEF NallocExact, TypeOK
    <3>4. /\ Cardinality(Holding') = Cardinality(Holding) /\ Len(tq_task') = Len(tq_task) + 1
          /\ {tq_nalloc, tq_freelist, Len(tq_task)} \subseteq Nat
      BY <1>3, <1>5 DEF TypeOK
    <3>5. tq_nalloc' = tq_freelist' + (Len(tq_task) + 1) + Cardinality(Holding)
      BY <3>1, <3>2, <3>3, <3>4, SMTT(30)
    <3> QED BY <3>4, <3>5 DEF NallocExact
  <2>3. WorkConserving'
    BY <1>3, <1>5 DEF WorkConserving
  <2> QED BY <2>1, <2>2, <2>3
<1>e. InOrder'
  <2>1. ASSUME NEW i \in 1 .. Len(tq_task')
        PROVE  /\ tq_task'[i] < next' /\ \A w \in Workers : task'[w] < tq_task'[i]
               /\ \A j \in 1 .. i - 1 : tq_task'[j] < tq_task'[i]
    <3>1. CASE i \in 1 .. Len(tq_task)
      <4>1. tq_task'[i] = tq_task[i] /\ tq_task[i] \in Nat /\ \A j \in 1 .. i - 1 : tq_task'[j] = tq_task[j]
        BY <1>3, <3>1 DEF TypeOK
      <4> QED BY <1>1, <1>3, <3>1, <4>1 DEF InOrder
    <3>2. CASE i = Len(tq_task) + 1
      <4>1. tq_task'[i] = next /\ \A j \in 1 .. i - 1 : tq_task'[j] < next
        BY <1>3, <3>2 DEF InOrder
      <4> QED BY <1>1, <1>3, <4>1 DEF InOrder
    <3> QED BY <1>3, <3>1, <3>2
  <2>2. \A w \in Workers : task'[w] < next'
    BY <1>1, <1>3 DEF InOrder, TypeOK
  <2> QED BY <2>1, <2>2 DEF InOrder
<1>f. EventsRight' /\ CprRight'
  BY <1>1, <1>5 DEF EventsRight, CprRight, At, Registered, TypeOK
<1>g. WaitersHaveCause'
  <2>1. Busy'
    BY <1>3 DEF Busy
  <2> QED BY <1>1, <1>2, <1>5, <2>1 DEF WaitersHaveCause, At
<1> QED BY <1>a, <1>b, <1>c, <1>d, <1>e, <1>f, <1>g

-----------------------------------------------------------------------------
(* The steps of clients                                                    *)

\* A call of taskq_wait().
LEMMA WaitStep ==
  ASSUME TaskqInv, NEW c \in Clients, taskq_wait(c)
  PROVE  TaskqInv'
<1> USE ThreadKinds DEF TaskqInv
<1>1. PICK l \in {"wait"} :
        /\ pc' = [pc EXCEPT ![c] = l]
        /\ pc[c] = "idle" /\ pc[Owner] = "created"
        /\ since' = [since EXCEPT ![c] = next]
        /\ UNCHANGED <<tq_lock, tq_task, next, tq_freelist, tq_nalloc, tq_minalloc, tq_active,
                       tq_nthreads, tq_isactive, suspender, task, dispatch, events, cpr>>
  BY DEF taskq_wait, At, Goto, lists, population, threads, calls, callb
<1>2. /\ pc'[c] \in ClientLabels /\ \A t \in Threads \ {c} : pc'[t] = pc[t]
      /\ pc' \in [Threads -> WorkerLabels \cup ClientLabels \cup OwnerLabels]
      /\ c \in Threads /\ pc'[Owner] = pc[Owner] /\ \A w \in Workers : pc'[w] = pc[w]
  BY <1>1 DEF TypeOK, ClientLabels
<1>3. /\ Holding' = Holding /\ Looking' = Looking /\ Active' = Active /\ Present' = Present
      /\ Asleep' = Asleep /\ Registered' = Registered
  BY <1>2, SameWorkers
<1>a. TypeOK'
  BY <1>1, <1>2 DEF TypeOK
<1>b. LocksRight' /\ TasksRight'
  BY <1>1, <1>2 DEF LocksRight, TasksRight, At, TypeOK
<1>c. StagesRight'
  BY <1>1, <1>2, <1>3 DEF StagesRight, At
<1>d. CountsRight' /\ NallocExact' /\ WorkConserving'
  BY <1>1, <1>2, <1>3 DEF CountsRight, NallocExact, WorkConserving, At
<1>e. InOrder'
  BY <1>1 DEF InOrder
<1>f. EventsRight' /\ CprRight'
  BY <1>1, <1>2, <1>3 DEF EventsRight, CprRight, Registered, At
<1>g. WaitersHaveCause'
  BY <1>1, <1>2 DEF WaitersHaveCause, At, Busy, TypeOK
<1> QED BY <1>a, <1>b, <1>c, <1>d, <1>e, <1>f, <1>g

\* The loop of taskq_wait(), which goes on if the queue is busy.
LEMMA WaitTestStep ==
  ASSUME TaskqInv, NEW c \in Clients, taskq_wait_test(c)
  PROVE  TaskqInv'
<1> USE ThreadKinds DEF TaskqInv
<1>1. PICK l \in {"wait_cv", "idle"} :
        /\ pc' = [pc EXCEPT ![c] = l]
        /\ pc[c] = "wait" /\ (l = "wait_cv" <=> Busy)
        /\ since' = since \/ since' = [since EXCEPT ![c] = 0]
        /\ UNCHANGED <<tq_lock, tq_task, next, tq_freelist, tq_nalloc, tq_minalloc, tq_active,
                       tq_nthreads, tq_isactive, suspender, task, dispatch, events, cpr>>
  BY DEF taskq_wait_test, At, Goto, lists, population, threads, calls, callb
<1>2. /\ pc'[c] \in ClientLabels /\ \A t \in Threads \ {c} : pc'[t] = pc[t]
      /\ pc' \in [Threads -> WorkerLabels \cup ClientLabels \cup OwnerLabels]
      /\ c \in Threads /\ pc'[Owner] = pc[Owner] /\ \A w \in Workers : pc'[w] = pc[w]
  BY <1>1 DEF TypeOK, ClientLabels
<1>3. /\ Holding' = Holding /\ Looking' = Looking /\ Active' = Active /\ Present' = Present
      /\ Asleep' = Asleep /\ Registered' = Registered
  BY <1>2, SameWorkers
<1>a. TypeOK'
  BY <1>1, <1>2 DEF TypeOK
<1>b. LocksRight' /\ TasksRight'
  BY <1>1, <1>2 DEF LocksRight, TasksRight, At, TypeOK
<1>c. StagesRight'
  BY <1>1, <1>2, <1>3 DEF StagesRight, At
<1>d. CountsRight' /\ NallocExact' /\ WorkConserving'
  BY <1>1, <1>2, <1>3 DEF CountsRight, NallocExact, WorkConserving, At
<1>e. InOrder'
  BY <1>1 DEF InOrder
<1>f. EventsRight' /\ CprRight'
  BY <1>1, <1>2, <1>3 DEF EventsRight, CprRight, Registered, At
<1>g. WaitersHaveCause'
  BY <1>1, <1>2 DEF WaitersHaveCause, At, Busy, TypeOK
<1> QED BY <1>a, <1>b, <1>c, <1>d, <1>e, <1>f, <1>g

\* A client suspends the tasks, and resumes them.
LEMMA SuspendStep ==
  ASSUME TaskqInv, NEW c \in Clients, suspend_tasks(c)
  PROVE  TaskqInv'
<1> USE ThreadKinds DEF TaskqInv
<1>1. PICK l \in {"suspend"} :
        /\ pc' = [pc EXCEPT ![c] = l]
        /\ pc[c] = "idle" /\ pc[Owner] = "created" /\ suspender' = c
        /\ UNCHANGED <<tq_lock, tq_task, next, tq_freelist, tq_nalloc, tq_minalloc, tq_active,
                       tq_nthreads, tq_isactive, task, dispatch, since, events, cpr>>
  BY DEF suspend_tasks, At, Goto, lists, population, threads, calls, callb
<1>2. /\ pc'[c] \in ClientLabels /\ \A t \in Threads \ {c} : pc'[t] = pc[t]
      /\ pc' \in [Threads -> WorkerLabels \cup ClientLabels \cup OwnerLabels]
      /\ c \in Threads /\ pc'[Owner] = pc[Owner] /\ \A w \in Workers : pc'[w] = pc[w]
  BY <1>1 DEF TypeOK, ClientLabels
<1>3. /\ Holding' = Holding /\ Looking' = Looking /\ Active' = Active /\ Present' = Present
      /\ Asleep' = Asleep /\ Registered' = Registered
  BY <1>2, SameWorkers
<1>a. TypeOK'
  BY <1>1, <1>2 DEF TypeOK
<1>b. LocksRight' /\ TasksRight'
  BY <1>1, <1>2 DEF LocksRight, TasksRight, At, TypeOK
<1>c. StagesRight'
  BY <1>1, <1>2, <1>3 DEF StagesRight, At
<1>d. CountsRight' /\ NallocExact' /\ WorkConserving'
  BY <1>1, <1>2, <1>3 DEF CountsRight, NallocExact, WorkConserving, At
<1>e. InOrder'
  BY <1>1 DEF InOrder
<1>f. EventsRight' /\ CprRight'
  BY <1>1, <1>2, <1>3 DEF EventsRight, CprRight, Registered, At
<1>g. WaitersHaveCause'
  BY <1>1, <1>2 DEF WaitersHaveCause, At, Busy, TypeOK
<1> QED BY <1>a, <1>b, <1>c, <1>d, <1>e, <1>f, <1>g

\* It holds tq_threadlock as writer.
LEMMA ResumeStep ==
  ASSUME TaskqInv, NEW c \in Clients, resume_tasks(c)
  PROVE  TaskqInv'
<1> USE ThreadKinds DEF TaskqInv
<1>1. PICK l \in {"idle"} :
        /\ pc' = [pc EXCEPT ![c] = l]
        /\ pc[c] = "suspend" /\ dispatch[c] = NotDispatching /\ suspender' = NoThread
        /\ UNCHANGED <<tq_lock, tq_task, next, tq_freelist, tq_nalloc, tq_minalloc, tq_active,
                       tq_nthreads, tq_isactive, task, dispatch, since, events, cpr>>
  BY DEF resume_tasks, At, Goto, lists, population, threads, calls, callb
<1>2. /\ pc'[c] \in ClientLabels /\ \A t \in Threads \ {c} : pc'[t] = pc[t]
      /\ pc' \in [Threads -> WorkerLabels \cup ClientLabels \cup OwnerLabels]
      /\ c \in Threads /\ pc'[Owner] = pc[Owner] /\ \A w \in Workers : pc'[w] = pc[w]
  BY <1>1 DEF TypeOK, ClientLabels
<1>3. /\ Holding' = Holding /\ Looking' = Looking /\ Active' = Active /\ Present' = Present
      /\ Asleep' = Asleep /\ Registered' = Registered
  BY <1>2, SameWorkers
<1>a. TypeOK'
  BY <1>1, <1>2 DEF TypeOK
<1>b. LocksRight' /\ TasksRight'
  BY <1>1, <1>2 DEF LocksRight, TasksRight, At, TypeOK
<1>c. StagesRight'
  BY <1>1, <1>2, <1>3 DEF StagesRight, At
<1>d. CountsRight' /\ NallocExact' /\ WorkConserving'
  BY <1>1, <1>2, <1>3 DEF CountsRight, NallocExact, WorkConserving, At
<1>e. InOrder'
  BY <1>1 DEF InOrder
<1>f. EventsRight' /\ CprRight'
  BY <1>1, <1>2, <1>3 DEF EventsRight, CprRight, Registered, At
<1>g. WaitersHaveCause'
  BY <1>1, <1>2 DEF WaitersHaveCause, At, Busy, TypeOK
<1> QED BY <1>a, <1>b, <1>c, <1>d, <1>e, <1>f, <1>g

-----------------------------------------------------------------------------
(* The steps of the owner                                                  *)

\* A call of taskq_destroy(): the clients are done with the queue.
LEMMA DestroyStep ==
  ASSUME TaskqInv, taskq_destroy
  PROVE  TaskqInv'
<1> USE ThreadKinds DEF TaskqInv
<1>1. PICK l \in {"destroy_wait"} :
        /\ pc' = [pc EXCEPT ![Owner] = l]
        /\ pc[Owner] = "created"
        /\ \A c \in Clients : pc[c] = "idle" /\ dispatch[c] = NotDispatching
        /\ UNCHANGED <<tq_lock, tq_task, next, tq_freelist, tq_nalloc, tq_minalloc, tq_active,
                       tq_nthreads, tq_isactive, suspender, task, dispatch, since, events, cpr>>
  BY DEF taskq_destroy, At, Goto, lists, population, threads, calls, callb
<1>2. /\ pc'[Owner] = l /\ l \in OwnerLabels /\ \A t \in Threads \ {Owner} : pc'[t] = pc[t]
      /\ pc' \in [Threads -> WorkerLabels \cup ClientLabels \cup OwnerLabels]
      /\ \A w \in Workers : pc'[w] = pc[w]
      /\ \A c \in Clients : pc'[c] = pc[c]
  BY <1>1 DEF TypeOK, OwnerLabels
<1>3. /\ Holding' = Holding /\ Looking' = Looking /\ Active' = Active /\ Present' = Present
      /\ Asleep' = Asleep /\ Registered' = Registered
  BY <1>2, SameWorkers
<1>a. TypeOK'
  BY <1>1, <1>2 DEF TypeOK
<1>b. LocksRight' /\ TasksRight'
  BY <1>1, <1>2 DEF LocksRight, TasksRight, At, TypeOK
<1>c. StagesRight'
  BY <1>1, <1>2, <1>3 DEF StagesRight, At
<1>d. CountsRight' /\ NallocExact' /\ WorkConserving'
  BY <1>1, <1>2, <1>3 DEF CountsRight, NallocExact, WorkConserving, At
<1>e. InOrder'
  BY <1>1 DEF InOrder
<1>f. EventsRight' /\ CprRight'
  BY <1>1, <1>2, <1>3 DEF EventsRight, CprRight, Registered, At
<1>g. WaitersHaveCause'
  BY <1>1, <1>2 DEF WaitersHaveCause, At, Busy, TypeOK
<1> QED BY <1>a, <1>b, <1>c, <1>d, <1>e, <1>f, <1>g

\* Its wait for the tasks: once it is over there is no task any more.
LEMMA DestroyWaitStep ==
  ASSUME TaskqInv, taskq_destroy_wait
  PROVE  TaskqInv'
<1> USE ThreadKinds DEF TaskqInv
<1>1. PICK l \in {"destroy_wait_cv", "destroy_stop"} :
        /\ pc' = [pc EXCEPT ![Owner] = l]
        /\ pc[Owner] = "destroy_wait" /\ (l = "destroy_wait_cv" <=> Busy)
        /\ UNCHANGED <<tq_lock, tq_task, next, tq_freelist, tq_nalloc, tq_minalloc, tq_active,
                       tq_nthreads, tq_isactive, suspender, task, dispatch, since, events, cpr>>
  BY DEF taskq_destroy_wait, At, Goto, lists, population, threads, calls, callb
<1>2. /\ pc'[Owner] = l /\ l \in OwnerLabels /\ \A t \in Threads \ {Owner} : pc'[t] = pc[t]
      /\ pc' \in [Threads -> WorkerLabels \cup ClientLabels \cup OwnerLabels]
      /\ \A w \in Workers : pc'[w] = pc[w]
      /\ \A c \in Clients : pc'[c] = pc[c]
  BY <1>1 DEF TypeOK, OwnerLabels
<1>3. /\ Holding' = Holding /\ Looking' = Looking /\ Active' = Active /\ Present' = Present
      /\ Asleep' = Asleep /\ Registered' = Registered
  BY <1>2, SameWorkers
<1>4. l = "destroy_stop" => tq_task = <<>> /\ Holding = {}
  <2> SUFFICES ASSUME l = "destroy_stop" PROVE Holding = {}
    BY <1>1 DEF Busy
  <2>1. Cardinality(Active) = 0 /\ Active \in SUBSET Workers
    BY <1>1 DEF Busy, CountsRight, At, Active
  <2>2. Active = {}
    BY <2>1, ThreadsAssumption, FS_Subset, FS_EmptySet
  <2> QED BY <2>2 DEF Active, Holding
<1>a. TypeOK'
  BY <1>1, <1>2 DEF TypeOK
<1>b. LocksRight' /\ TasksRight'
  BY <1>1, <1>2 DEF LocksRight, TasksRight, At, TypeOK
<1>c. StagesRight'
  BY <1>1, <1>2, <1>3, <1>4 DEF StagesRight, At
<1>d. CountsRight' /\ NallocExact' /\ WorkConserving'
  BY <1>1, <1>2, <1>3 DEF CountsRight, NallocExact, WorkConserving, At
<1>e. InOrder'
  BY <1>1 DEF InOrder
<1>f. EventsRight' /\ CprRight'
  BY <1>1, <1>2, <1>3 DEF EventsRight, CprRight, Registered, At
<1>g. WaitersHaveCause'
  BY <1>1, <1>2 DEF WaitersHaveCause, At, Busy, TypeOK
<1> QED BY <1>a, <1>b, <1>c, <1>d, <1>e, <1>f, <1>g

\* Its wait for the workers: once it is over there is none.
LEMMA JoinStep ==
  ASSUME TaskqInv, taskq_destroy_join
  PROVE  TaskqInv'
<1> USE ThreadKinds DEF TaskqInv
<1>1. PICK l \in {"destroy_join_cv", "destroy_drain"} :
        /\ pc' = [pc EXCEPT ![Owner] = l]
        /\ pc[Owner] = "destroy_join" /\ (l = "destroy_drain" <=> tq_nthreads = 0)
        /\ UNCHANGED <<tq_lock, tq_task, next, tq_freelist, tq_nalloc, tq_minalloc, tq_active,
                       tq_nthreads, tq_isactive, suspender, task, dispatch, since, events, cpr>>
  BY DEF taskq_destroy_join, At, Goto, Join, lists, population, threads, calls, callb
<1>2. /\ pc'[Owner] = l /\ l \in OwnerLabels /\ \A t \in Threads \ {Owner} : pc'[t] = pc[t]
      /\ pc' \in [Threads -> WorkerLabels \cup ClientLabels \cup OwnerLabels]
      /\ \A w \in Workers : pc'[w] = pc[w]
      /\ \A c \in Clients : pc'[c] = pc[c]
  BY <1>1 DEF TypeOK, OwnerLabels
<1>3. /\ Holding' = Holding /\ Looking' = Looking /\ Active' = Active /\ Present' = Present
      /\ Asleep' = Asleep /\ Registered' = Registered
  BY <1>2, SameWorkers
<1>4. l = "destroy_drain" => Present = {}
  <2>1. Present \in SUBSET Workers
    BY DEF Present
  <2> QED BY <1>1, <2>1, ThreadsAssumption, FS_Subset, FS_EmptySet DEF CountsRight
<1>a. TypeOK'
  BY <1>1, <1>2 DEF TypeOK
<1>b. LocksRight' /\ TasksRight'
  BY <1>1, <1>2 DEF LocksRight, TasksRight, At, TypeOK
<1>c. StagesRight'
  BY <1>1, <1>2, <1>3, <1>4 DEF StagesRight, At
<1>d. CountsRight' /\ NallocExact' /\ WorkConserving'
  BY <1>1, <1>2, <1>3 DEF CountsRight, NallocExact, WorkConserving, At
<1>e. InOrder'
  BY <1>1 DEF InOrder
<1>f. EventsRight' /\ CprRight'
  BY <1>1, <1>2, <1>3 DEF EventsRight, CprRight, Registered, At
<1>g. WaitersHaveCause'
  BY <1>1, <1>2 DEF WaitersHaveCause, At, Busy, TypeOK
<1> QED BY <1>a, <1>b, <1>c, <1>d, <1>e, <1>f, <1>g

\* The end of taskq_destroy().
LEMMA DoneStep ==
  ASSUME TaskqInv, taskq_destroy_done
  PROVE  TaskqInv'
<1> USE ThreadKinds DEF TaskqInv
<1>1. PICK l \in {"none"} :
        /\ pc' = [pc EXCEPT ![Owner] = l]
        /\ pc[Owner] = "destroy_drain" /\ tq_nalloc = 0 /\ tq_minalloc' = 0
        /\ UNCHANGED <<tq_lock, tq_task, next, tq_freelist, tq_nalloc, tq_active, tq_nthreads,
                       tq_isactive, suspender, task, dispatch, since, events, cpr>>
  BY DEF taskq_destroy_done, At, Goto, lists, population, threads, calls, callb
<1>2. /\ pc'[Owner] = l /\ l \in OwnerLabels /\ \A t \in Threads \ {Owner} : pc'[t] = pc[t]
      /\ pc' \in [Threads -> WorkerLabels \cup ClientLabels \cup OwnerLabels]
      /\ \A w \in Workers : pc'[w] = pc[w]
      /\ \A c \in Clients : pc'[c] = pc[c]
  BY <1>1 DEF TypeOK, OwnerLabels
<1>3. /\ Holding' = Holding /\ Looking' = Looking /\ Active' = Active /\ Present' = Present
      /\ Asleep' = Asleep /\ Registered' = Registered
  BY <1>2, SameWorkers
<1>4. tq_freelist = 0
  <2>1. Holding = {} /\ tq_task = <<>>
    BY <1>1 DEF StagesRight
  <2>2. Cardinality(Holding) = 0 /\ Len(tq_task) = 0
    BY <2>1, FS_EmptySet
  <2> QED BY <1>1, <2>2 DEF NallocExact, TypeOK
<1>a. TypeOK'
  BY <1>1, <1>2 DEF TypeOK
<1>b. LocksRight' /\ TasksRight'
  BY <1>1, <1>2 DEF LocksRight, TasksRight, At, TypeOK
<1>c. StagesRight'
  BY <1>1, <1>2, <1>3, <1>4 DEF StagesRight, At
<1>d. CountsRight' /\ NallocExact' /\ WorkConserving'
  BY <1>1, <1>2, <1>3 DEF CountsRight, NallocExact, WorkConserving, At
<1>e. InOrder'
  BY <1>1 DEF InOrder
<1>f. EventsRight' /\ CprRight'
  BY <1>1, <1>2, <1>3 DEF EventsRight, CprRight, Registered, At
<1>g. WaitersHaveCause'
  BY <1>1, <1>2 DEF WaitersHaveCause, At, Busy, TypeOK
<1> QED BY <1>a, <1>b, <1>c, <1>d, <1>e, <1>f, <1>g

\* A round of the loop that gives the task structures back.
LEMMA DrainStep ==
  ASSUME TaskqInv, taskq_destroy_drain
  PROVE  TaskqInv'
<1> USE ThreadKinds DEF TaskqInv
<1>1. /\ pc[Owner] = "destroy_drain" /\ tq_nalloc # 0 /\ tq_minalloc' = 0
      /\ \/ tq_freelist > 0 /\ tq_freelist' = tq_freelist - 1 /\ tq_nalloc' = tq_nalloc - 1
         \/ UNCHANGED <<tq_freelist, tq_nalloc>>
      /\ UNCHANGED <<pc, tq_lock, tq_task, next, tq_active, tq_nthreads, tq_isactive, suspender,
                     task, dispatch, since, events, cpr>>
  BY DEF taskq_destroy_drain, At, lists, threads, calls, callb, TypeOK
<1>2. /\ Holding' = Holding /\ Looking' = Looking /\ Active' = Active /\ Present' = Present
      /\ Asleep' = Asleep /\ Registered' = Registered
  BY <1>1, SameWorkers
<1>3. {tq_freelist', tq_nalloc'} \subseteq Nat /\ tq_nalloc' - tq_freelist' = tq_nalloc - tq_freelist
  BY <1>1 DEF TypeOK
<1>4. Cardinality(Holding) = 0 /\ Len(tq_task) = 0
  <2>1. Holding = {} /\ tq_task = <<>>
    BY <1>1 DEF StagesRight
  <2> QED BY <2>1, FS_EmptySet
<1>a. TypeOK'
  BY <1>1, <1>3 DEF TypeOK
<1>b. LocksRight' /\ TasksRight'
  BY <1>1 DEF LocksRight, TasksRight, At
<1>c. StagesRight'
  BY <1>1, <1>2 DEF StagesRight, At
<1>d. CountsRight' /\ NallocExact' /\ WorkConserving'
  <2>1. CountsRight' /\ WorkConserving'
    BY <1>1, <1>2 DEF CountsRight, WorkConserving, At
  <2>2. NallocExact'
    BY <1>1, <1>2, <1>3, <1>4 DEF NallocExact, TypeOK
  <2> QED BY <2>1, <2>2
<1>e. InOrder'
  BY <1>1 DEF InOrder
<1>f. EventsRight' /\ CprRight'
  BY <1>1, <1>2 DEF EventsRight, CprRight, At
<1>g. WaitersHaveCause'
  BY <1>1 DEF WaitersHaveCause, At, Busy
<1> QED BY <1>a, <1>b, <1>c, <1>d, <1>e, <1>f, <1>g

\* taskq_destroy() tells the workers to go.
LEMMA StopAllStep ==
  ASSUME TaskqInv, taskq_destroy_stop
  PROVE  TaskqInv'
<1> USE ThreadKinds DEF TaskqInv
<1>1. /\ pc[Owner] = "destroy_stop" /\ tq_isactive' = FALSE
      /\ pc' = [t \in Threads |-> IF t \in Asleep THEN "woken" ELSE IF t = Owner THEN Join ELSE pc[t]]
      /\ UNCHANGED <<tq_lock, tq_task, next, tq_freelist, tq_nalloc, tq_minalloc, tq_active,
                     tq_nthreads, suspender, task, dispatch, since, events, cpr>>
  BY DEF taskq_destroy_stop, At, lists, population, calls, callb
<1>2. tq_nthreads # 0 /\ Join = "destroy_join_cv"
  <2>1. Present = Workers
    BY <1>1 DEF StagesRight
  <2>2. Cardinality(Workers) # 0
    BY ThreadsAssumption, FS_EmptySet
  <2> QED BY <2>1, <2>2 DEF CountsRight, Join
<1>3. /\ \A w \in Workers : pc'[w] = IF pc[w] = "dispatch_cv" THEN "woken" ELSE pc[w]
      /\ \A c \in Clients : pc'[c] = pc[c]
      /\ pc'[Owner] = "destroy_join_cv"
  BY <1>1, <1>2 DEF Asleep
<1>4. pc' \in [Threads -> WorkerLabels \cup ClientLabels \cup OwnerLabels]
  <2>1. \A t \in Threads : pc[t] \in WorkerLabels \cup ClientLabels \cup OwnerLabels
    BY DEF TypeOK
  <2> QED BY <1>1, <1>2, <2>1 DEF WorkerLabels, OwnerLabels
<1>5. /\ Holding' = Holding /\ Active' = Active /\ Present' = Present
      /\ Asleep' = {} /\ Registered' = Registered
  BY <1>3 DEF Holding, Active, Present, Asleep, Registered
<1>a. TypeOK'
  <2>1. \A w \in Workers : pc'[w] \in WorkerLabels
    BY <1>3 DEF TypeOK, WorkerLabels
  <2>2. pc'[Owner] \in OwnerLabels /\ \A c \in Clients : pc'[c] \in ClientLabels
    BY <1>3 DEF TypeOK, OwnerLabels
  <2> QED BY <1>1, <1>4, <2>1, <2>2 DEF TypeOK
<1>b. LocksRight' /\ TasksRight'
  BY <1>1, <1>3 DEF LocksRight, TasksRight, At, TypeOK
<1>c. StagesRight'
  BY <1>1, <1>3, <1>5 DEF StagesRight, At
<1>d. CountsRight' /\ NallocExact' /\ WorkConserving'
  BY <1>1, <1>3, <1>5 DEF CountsRight, NallocExact, WorkConserving, At
<1>e. InOrder'
  BY <1>1 DEF InOrder
<1>f. EventsRight' /\ CprRight'
  BY <1>1, <1>3, <1>5 DEF EventsRight, CprRight, At, Registered
<1>g. WaitersHaveCause'
  <2>1. \A c \in Clients : pc[c] = "idle"
    BY <1>1 DEF StagesRight, At
  <2>2. \A t \in Threads : pc'[t] \notin {"wait_cv", "destroy_wait_cv"}
    <3>1. \A w \in Workers : pc'[w] \notin {"wait_cv", "destroy_wait_cv"}
      BY <1>3 DEF TypeOK, WorkerLabels
    <3> QED BY <1>3, <2>1, <3>1 DEF Threads, Users
  <2> QED BY <1>1, <1>2, <2>2 DEF WaitersHaveCause
<1> QED BY <1>a, <1>b, <1>c, <1>d, <1>e, <1>f, <1>g

\* taskq_create(), of a queue as the destroyer left it.
LEMMA CreateStep ==
  ASSUME TaskqInv, taskq_create
  PROVE  TaskqInv'
<1> USE ThreadKinds DEF TaskqInv
<1>1. /\ pc[Owner] = "none" /\ \A w \in Workers : pc[w] = "gone"
      /\ tq_isactive' = TRUE /\ tq_minalloc' = MinAlloc /\ next' = 1
      /\ tq_active' = Cardinality(Workers) /\ tq_nthreads' = Cardinality(Workers)
      /\ pc' = [t \in Threads |-> IF t \in Workers THEN "callb_add" ELSE
                                  IF t = Owner THEN "created" ELSE pc[t]]
      /\ UNCHANGED <<tq_lock, tq_task, suspender, task, dispatch, since, events, cpr>>
  BY DEF taskq_create, At, calls, callb
<1>2. PICK n \in Nat : tq_nalloc' = tq_nalloc + n /\ tq_freelist' = tq_freelist + n
  BY AllocAssumption DEF taskq_create
<1>3. /\ tq_task = <<>> /\ tq_freelist = 0 /\ tq_nalloc = 0
      /\ \A c \in Clients : pc[c] = "idle" /\ dispatch[c] = NotDispatching
  BY <1>1 DEF StagesRight, At
<1>4. /\ \A w \in Workers : pc'[w] = "callb_add"
      /\ \A c \in Clients : pc'[c] = "idle"
      /\ pc'[Owner] = "created"
  BY <1>1, <1>3
<1>5. /\ Holding' = {} /\ Active' = Workers /\ Present' = Workers /\ Asleep' = {}
      /\ Registered' = {} /\ Registered = {}
  BY <1>1, <1>4 DEF Holding, Active, Present, Asleep, Registered
<1>6. Cardinality(Workers) \in Nat /\ Cardinality({}) = 0 /\ Len(tq_task) = 0
  BY <1>3, ThreadsAssumption, FS_CardinalityType, FS_EmptySet
<1>7. \A t \in Threads : pc'[t] \in {"callb_add", "idle", "created"}
  BY <1>4 DEF Threads, Users
<1>a. TypeOK'
  <2>1. pc' \in [Threads -> WorkerLabels \cup ClientLabels \cup OwnerLabels]
    BY <1>1, <1>7 DEF WorkerLabels, ClientLabels, OwnerLabels
  <2>2. /\ \A w \in Workers : pc'[w] \in WorkerLabels
        /\ \A c \in Clients : pc'[c] \in ClientLabels
        /\ pc'[Owner] \in OwnerLabels
    BY <1>4 DEF WorkerLabels, ClientLabels, OwnerLabels
  <2>3. tq_freelist' \in Nat /\ tq_nalloc' \in Nat
    BY <1>2, <1>3
  <2>4. /\ UNCHANGED <<tq_lock, tq_task, suspender, task, dispatch, since, events, cpr>>
        /\ tq_isactive' = TRUE /\ tq_minalloc' \in {0, MinAlloc} /\ next' \in Nat \ {0}
        /\ tq_active' \in Nat /\ tq_nthreads' \in Nat
    BY <1>1, <1>6
  <2> QED BY <2>1, <2>2, <2>3, <2>4 DEF TypeOK
<1>b. LocksRight' /\ TasksRight'
  <2>1. \A w \in Workers : tq_lock # w /\ task[w] = 0 /\ dispatch[w] = NotDispatching
    BY <1>1 DEF LocksRight, TasksRight, At
  <2>2. suspender = NoThread
    BY <1>3 DEF LocksRight, At, TypeOK
  <2> QED BY <1>1, <1>4, <2>1, <2>2 DEF LocksRight, TasksRight, At
<1>c. StagesRight'
  BY <1>1, <1>4, <1>5 DEF StagesRight, At
<1>d. CountsRight' /\ NallocExact' /\ WorkConserving'
  <2>1. CountsRight'
    BY <1>1, <1>5 DEF CountsRight
  <2>2. NallocExact'
    BY <1>1, <1>2, <1>3, <1>5, <1>6 DEF NallocExact
  <2>3. WorkConserving'
    BY <1>5 DEF WorkConserving
  <2> QED BY <2>1, <2>2, <2>3
<1>e. InOrder'
  <2>1. \A w \in Workers : task[w] = 0
    BY <1>1 DEF TasksRight
  <2> QED BY <1>1, <1>6, <2>1 DEF InOrder
<1>f. EventsRight' /\ CprRight'
  BY <1>1, <1>5 DEF EventsRight, CprRight
<1>g. WaitersHaveCause'
  BY <1>1, <1>4, <1>7 DEF WaitersHaveCause, At
<1> QED BY <1>a, <1>b, <1>c, <1>d, <1>e, <1>f, <1>g

-----------------------------------------------------------------------------
(* The steps of a checkpoint                                               *)

\* What the steps of callb.c leave alone, if they move no worker.
LEMMA CprFrame ==
  ASSUME TaskqInv, CprUnchanged, UNCHANGED pc,
         events' \in [Workers -> SUBSET {"START", "SAFE"}],
         cpr' \in [at : {"idle", "chkpt", "chkpt_cv", "chkpt_woken", "suspended", "resume"},
                   who : Workers \cup {NoThread}, todo : SUBSET Workers],
         EventsRight', CprRight'
  PROVE  TaskqInv'
<1> USE DEF TaskqInv
<1>1. UNCHANGED <<pc, tq_lock, tq_task, next, tq_freelist, tq_nalloc, tq_minalloc, tq_active,
                     tq_nthreads, tq_isactive, suspender, task, dispatch, since>>
  BY DEF CprUnchanged, lists, population, threads, calls
<1>2. /\ Holding' = Holding /\ Looking' = Looking /\ Active' = Active /\ Present' = Present
      /\ Asleep' = Asleep /\ Registered' = Registered
  BY <1>1, SameWorkers
<1>3. TypeOK' /\ LocksRight' /\ TasksRight'
  BY <1>1 DEF TypeOK, LocksRight, TasksRight, At
<1>4. StagesRight' /\ CountsRight' /\ InOrder'
  BY <1>1, <1>2 DEF StagesRight, CountsRight, InOrder, At
<1>5. NallocExact' /\ WaitersHaveCause' /\ WorkConserving'
  BY <1>1, <1>2 DEF NallocExact, WaitersHaveCause, WorkConserving, At, Busy
<1> QED BY <1>3, <1>4, <1>5

LEMMA RegisteredWorkers == Registered \in SUBSET Workers
BY DEF Registered

\* callb_execute_class(): it starts, comes to the next entry, and ends.
LEMMA ExecuteStep ==
  ASSUME TaskqInv, callb_execute_class \/ callb_execute_class_done \/ callb_generic_cpr_timeout
           \/ \E w \in Workers : callb_execute(w)
  PROVE  TaskqInv'
<1> USE ThreadKinds, RegisteredWorkers DEF TaskqInv
<1>1. CprUnchanged /\ UNCHANGED pc /\ UNCHANGED events
  BY DEF callb_execute_class, callb_execute_class_done, callb_generic_cpr_timeout, callb_execute
<1>2. Registered' = Registered
  BY <1>1 DEF Registered
<1>3. ASSUME NEW a \in {"chkpt", "resume"}, cpr' = [cpr EXCEPT !.at = a, !.todo = Registered],
             cpr.at \in {"idle", "suspended"}, cpr.at = "idle" => a = "chkpt",
             cpr.at = "suspended" => a = "resume"
      PROVE  TaskqInv'
  <2>1. cpr' \in [at : {"idle", "chkpt", "chkpt_cv", "chkpt_woken", "suspended", "resume"},
                 who : Workers \cup {NoThread}, todo : SUBSET Workers]
    BY <1>3 DEF TypeOK
  <2>2. EventsRight'
    BY <1>1, <1>2, <1>3 DEF TypeOK, EventsRight, CprRight, At
  <2>3. CprRight'
    BY <1>1, <1>2, <1>3 DEF TypeOK, CprRight
  <2>4. events' \in [Workers -> SUBSET {"START", "SAFE"}]
    BY <1>1 DEF TypeOK
  <2> QED BY <1>1, <2>1, <2>2, <2>3, <2>4, CprFrame
<1>4. ASSUME NEW w \in cpr.todo \cap Registered, cpr.at \in {"chkpt", "resume"}, cpr.who = NoThread,
             cpr' = [cpr EXCEPT !.who = w, !.todo = @ \ {w}]
      PROVE  TaskqInv'
  <2>1. cpr' \in [at : {"idle", "chkpt", "chkpt_cv", "chkpt_woken", "suspended", "resume"},
                 who : Workers \cup {NoThread}, todo : SUBSET Workers]
    BY <1>4 DEF TypeOK
  <2>2. EventsRight'
    BY <1>1, <1>2, <1>4 DEF TypeOK, EventsRight, CprRight, At
  <2>3. CprRight'
    BY <1>1, <1>2, <1>4 DEF TypeOK, CprRight
  <2>4. events' \in [Workers -> SUBSET {"START", "SAFE"}]
    BY <1>1 DEF TypeOK
  <2> QED BY <1>1, <2>1, <2>2, <2>3, <2>4, CprFrame
<1>5. ASSUME NEW a \in {"suspended", "idle"}, cpr.at \in {"chkpt", "resume"}, cpr.who = NoThread,
             cpr.at = "chkpt" <=> a = "suspended", cpr.todo \cap Registered = {},
             cpr' = [at |-> a, who |-> NoThread, todo |-> {}]
      PROVE  TaskqInv'
  <2>1. cpr' \in [at : {"idle", "chkpt", "chkpt_cv", "chkpt_woken", "suspended", "resume"},
                 who : Workers \cup {NoThread}, todo : SUBSET Workers]
    BY <1>5 DEF TypeOK
  <2>2. EventsRight'
    BY <1>1, <1>2, <1>5 DEF TypeOK, EventsRight, CprRight, At
  <2>3. CprRight'
    BY <1>1, <1>2, <1>5 DEF TypeOK, CprRight
  <2>4. events' \in [Workers -> SUBSET {"START", "SAFE"}]
    BY <1>1 DEF TypeOK
  <2> QED BY <1>1, <2>1, <2>2, <2>3, <2>4, CprFrame
<1>6. ASSUME cpr' = [at |-> "resume", who |-> NoThread, todo |-> Registered],
             cpr.at \in {"chkpt_cv", "chkpt_woken"}
      PROVE  TaskqInv'
  <2>1. cpr' \in [at : {"idle", "chkpt", "chkpt_cv", "chkpt_woken", "suspended", "resume"},
                 who : Workers \cup {NoThread}, todo : SUBSET Workers]
    BY <1>6 DEF TypeOK
  <2>2. EventsRight'
    BY <1>1, <1>2, <1>6 DEF TypeOK, EventsRight, CprRight, At
  <2>3. CprRight'
    BY <1>1, <1>2, <1>6 DEF TypeOK, CprRight
  <2>4. events' \in [Workers -> SUBSET {"START", "SAFE"}]
    BY <1>1 DEF TypeOK
  <2> QED BY <1>1, <2>1, <2>2, <2>3, <2>4, CprFrame
<1>7. CASE callb_execute_class
  BY <1>3, <1>7 DEF callb_execute_class
<1>8. CASE callb_execute_class_done
  BY <1>5, <1>8 DEF callb_execute_class_done
<1>9. CASE callb_generic_cpr_timeout
  BY <1>6, <1>9 DEF callb_generic_cpr_timeout
<1>10. CASE \E w \in Workers : callb_execute(w)
  BY <1>4, <1>10 DEF callb_execute
<1> QED BY <1>7, <1>8, <1>9, <1>10

\* callb_generic_cpr() asks a worker to stop.
LEMMA ChkptStep ==
  ASSUME TaskqInv, NEW w \in Workers, callb_generic_cpr_chkpt(w)
  PROVE  TaskqInv'
<1> USE ThreadKinds, RegisteredWorkers DEF TaskqInv
<1>1. /\ CprUnchanged /\ UNCHANGED pc
      /\ cpr.at \in {"chkpt", "chkpt_woken"} /\ cpr.who = w
      /\ events' = [events EXCEPT ![w] = @ \cup {"START"}]
      /\ \/ "SAFE" \in events[w] /\ cpr' = [cpr EXCEPT !.at = "chkpt", !.who = NoThread]
         \/ "SAFE" \notin events[w] /\ cpr' = [cpr EXCEPT !.at = "chkpt_cv"]
  BY DEF callb_generic_cpr_chkpt
<1>2. /\ Registered' = Registered /\ events'[w] = events[w] \cup {"START"}
      /\ \A v \in Workers \ {w} : events'[v] = events[v]
      /\ events' \in [Workers -> SUBSET {"START", "SAFE"}]
  BY <1>1 DEF Registered, TypeOK
<1>3. /\ cpr' \in [at : {"idle", "chkpt", "chkpt_cv", "chkpt_woken", "suspended", "resume"},
                   who : Workers \cup {NoThread}, todo : SUBSET Workers]
      /\ cpr'.todo = cpr.todo
      /\ \/ "SAFE" \in events[w] /\ cpr'.at = "chkpt" /\ cpr'.who = NoThread
         \/ "SAFE" \notin events[w] /\ cpr'.at = "chkpt_cv" /\ cpr'.who = w
  BY <1>1, ZenonT(60) DEF TypeOK
<1>4. EventsRight'
  BY <1>1, <1>2, <1>3 DEF EventsRight, At
<1>5. CprRight'
  BY <1>1, <1>2, <1>3 DEF CprRight, TypeOK
<1> QED BY <1>1, <1>2, <1>3, <1>4, <1>5, CprFrame

\* callb_generic_cpr() resumes a worker.
LEMMA ResumedStep ==
  ASSUME TaskqInv, NEW w \in Workers, callb_generic_cpr_resume(w)
  PROVE  TaskqInv'
<1> USE ThreadKinds, RegisteredWorkers DEF TaskqInv
<1>1. /\ CprUnchanged /\ cpr.at = "resume" /\ cpr.who = w
      /\ events' = [events EXCEPT ![w] = @ \ {"START"}]
      /\ cpr' = [cpr EXCEPT !.who = NoThread]
  BY DEF callb_generic_cpr_resume
<1>2. /\ events'[w] = events[w] \ {"START"} /\ \A v \in Workers \ {w} : events'[v] = events[v]
      /\ events' \in [Workers -> SUBSET {"START", "SAFE"}]
  BY <1>1 DEF TypeOK
<1>3. /\ cpr' \in [at : {"idle", "chkpt", "chkpt_cv", "chkpt_woken", "suspended", "resume"},
                   who : Workers \cup {NoThread}, todo : SUBSET Workers]
      /\ cpr'.todo = cpr.todo /\ cpr'.at = "resume" /\ cpr'.who = NoThread
  BY <1>1 DEF TypeOK
<1>4. CprRight'
  BY <1>3 DEF CprRight
<1>5. CASE ~At(w, "stop_cv")
  <2>1. UNCHANGED pc
    BY <1>5 DEF callb_generic_cpr_resume
  <2>2. Registered' = Registered
    BY <2>1 DEF Registered
  <2>3. EventsRight'
    BY <1>1, <1>2, <1>3, <1>5, <2>1, <2>2 DEF EventsRight, At
  <2> QED BY <1>1, <1>2, <1>3, <1>4, <2>1, <2>3, CprFrame
<1>6. CASE At(w, "stop_cv")
  <2>1. pc' = [pc EXCEPT ![w] = "woken"]
    BY <1>6 DEF callb_generic_cpr_resume, Goto
  <2>2. UNCHANGED <<tq_lock, tq_task, next, tq_freelist, tq_nalloc, tq_minalloc, tq_active,
                     tq_nthreads, tq_isactive, suspender, task, dispatch, since>>
    BY <1>1 DEF CprUnchanged, lists, population, threads, calls
  <2>3. /\ pc[w] = "stop_cv" /\ pc'[w] = "woken" /\ \A t \in Threads \ {w} : pc'[t] = pc[t]
        /\ pc' \in [Threads -> WorkerLabels \cup ClientLabels \cup OwnerLabels]
        /\ \A v \in Workers : pc'[v] \in WorkerLabels
        /\ \A v \in Workers \ {w} : pc'[v] = pc[v]
        /\ \A c \in Clients : pc'[c] = pc[c]
        /\ pc'[Owner] = pc[Owner]
    BY <1>6, <2>1, WorkerMove DEF WorkerLabels, At
  <2>4. /\ Holding' = Holding /\ Looking' = Looking /\ Active' = Active /\ Present' = Present
        /\ Asleep' = Asleep /\ Registered' = Registered
    BY <2>3 DEF Holding, Looking, Active, Present, Asleep, Registered
  <2>5. EventsRight'
    BY <1>1, <1>2, <1>3, <2>3, <2>4 DEF EventsRight, At
  <2>6. TypeOK'
    BY <1>2, <1>3, <2>2, <2>3 DEF TypeOK
  <2>7. LocksRight' /\ TasksRight'
    BY <2>2, <2>3 DEF LocksRight, TasksRight, At, TypeOK
  <2>8. StagesRight' /\ CountsRight' /\ InOrder'
    BY <2>2, <2>3, <2>4 DEF StagesRight, CountsRight, InOrder, At
  <2>9. NallocExact' /\ WorkConserving'
    BY <2>2, <2>4 DEF NallocExact, WorkConserving
  <2>10. WaitersHaveCause'
    BY <2>2, <2>3 DEF WaitersHaveCause, At, Busy, TypeOK
  <2> QED BY <1>4, <2>5, <2>6, <2>7, <2>8, <2>9, <2>10
<1> QED BY <1>5, <1>6

-----------------------------------------------------------------------------
(* The theorems                                                            *)

\* In every reachable state of taskq.c the locks, labels, counts, lists and
\* events are related as TaskqInv says.
THEOREM TaskqInvariant == Spec => []TaskqInv
<1>1. Init => TaskqInv
  <2> SUFFICES ASSUME Init PROVE TaskqInv
    OBVIOUS
  <2> USE ThreadKinds DEF Init
  <2>1. /\ \A w \in Workers : pc[w] = "gone"
        /\ \A c \in Clients : pc[c] = "idle"
        /\ pc[Owner] = "none"
    OBVIOUS
  <2>2. Holding = {} /\ Looking = {} /\ Present = {} /\ Asleep = {} /\ Registered = {}
    BY <2>1 DEF Holding, Looking, Present, Asleep, Registered
  <2>3. Cardinality({}) = 0 /\ Len(<<>>) = 0
    BY FS_EmptySet
  <2>4. TypeOK
    <3>1. \A t \in Threads : pc[t] \in WorkerLabels \cup ClientLabels \cup OwnerLabels
      BY DEF WorkerLabels, ClientLabels, OwnerLabels
    <3>2. pc \in [Threads -> WorkerLabels \cup ClientLabels \cup OwnerLabels]
      BY <3>1
    <3>3. /\ \A w \in Workers : pc[w] \in WorkerLabels
          /\ \A c \in Clients : pc[c] \in ClientLabels
          /\ pc[Owner] \in OwnerLabels
      BY <2>1 DEF WorkerLabels, ClientLabels, OwnerLabels
    <3>4. NotDispatching \in [at : {"none", "check", "kmem"}, km : {KM_SLEEP, KM_NOSLEEP}]
      BY DEF NotDispatching
    <3>5. tq_task \in Seq(Nat \ {0}) /\ next \in Nat \ {0}
      OBVIOUS
    <3> QED BY <3>2, <3>3, <3>4, <3>5 DEF TypeOK
  <2>5. LocksRight /\ TasksRight /\ StagesRight
    BY <2>1, <2>2, ThreadsAssumption DEF LocksRight, TasksRight, StagesRight, At, Users
  <2>6. CountsRight /\ NallocExact /\ WorkConserving
    BY <2>1, <2>2, <2>3 DEF CountsRight, NallocExact, WorkConserving, At
  <2>7. InOrder /\ EventsRight /\ CprRight
    BY <2>2, <2>3 DEF InOrder, EventsRight, CprRight
  <2>8. WaitersHaveCause
    BY <2>1 DEF WaitersHaveCause, At, Threads, Users
  <2> QED BY <2>4, <2>5, <2>6, <2>7, <2>8 DEF TaskqInv
<1>2. TaskqInv /\ [Next]_vars => TaskqInv'
  <2> SUFFICES ASSUME TaskqInv, [Next]_vars PROVE TaskqInv'
    OBVIOUS
  <2>1. CASE UNCHANGED vars
    <3>1. TypeOK' /\ CprUnchanged /\ UNCHANGED pc
      BY <2>1 DEF vars, lists, population, threads, calls, callb, TaskqInv, TypeOK, CprUnchanged
    <3>2. EventsRight' /\ CprRight'
      BY <2>1 DEF vars, callb, TaskqInv, EventsRight, CprRight, Registered, At
    <3> QED BY <3>1, <3>2, CprFrame DEF TypeOK
  <2>2. CASE taskq_create \/ taskq_destroy \/ DestroyProgress
    BY <2>2, CreateStep, DestroyStep, DestroyWaitStep, StopAllStep, JoinStep, DrainStep,
       DoneStep
    DEF DestroyProgress
  <2>3. ASSUME NEW u \in Users, Dispatch(u) \/ DispatchProgress(u) PROVE TaskqInv'
    BY <2>3, AllocStep, EnqueueStep DEF Dispatch, DispatchProgress
  <2>4. ASSUME NEW w \in Workers, taskq_thread(w) PROVE TaskqInv'
    BY <2>4, AddStep, LockStep, IdleStep, WokenStep, StopStep, TakeStep, CallStep, ReturnStep,
       FreeKeepStep, FreeKmemStep, ExitStep, DeleteStep
    DEF taskq_thread
  <2>5. ASSUME NEW c \in Clients,
               taskq_wait(c) \/ taskq_wait_test(c) \/ suspend_tasks(c) \/ resume_tasks(c)
        PROVE  TaskqInv'
    BY <2>5, WaitStep, WaitTestStep, SuspendStep, ResumeStep
  <2>6. CASE callb_execute_class \/ callb_generic_cpr_timeout \/ CprProgress
    BY <2>6, ExecuteStep, ChkptStep, ResumedStep DEF CprProgress
  <2> QED BY <2>1, <2>2, <2>3, <2>4, <2>5, <2>6 DEF Next
<1> QED BY <1>1, <1>2, PTL DEF Spec

\* The bookkeeping of taskq.c is right in every state: tq_nalloc, what the
\* destroyer leaves behind, and who sleeps on tq_wait_cv and in the handshake.
THEOREM BookkeepingIsRight == Spec => []Inv
<1>1. TaskqInv => Inv
  <2> SUFFICES ASSUME TaskqInv PROVE DestroyedClean /\ HandshakeHasCause
    BY DEF TaskqInv, Inv
  <2> USE ThreadKinds DEF TaskqInv
  <2>1. DestroyedClean
    <3> SUFFICES ASSUME pc[Owner] = "none"
                 PROVE  /\ tq_task = <<>> /\ tq_freelist = 0 /\ tq_nalloc = 0
                        /\ Unlocked /\ suspender = NoThread
                        /\ \A w \in Workers : At(w, "gone") \/ At(w, "callb_delete")
                        /\ \A i \in 1..(next - 1) : Done(i)
      BY DEF DestroyedClean, At
    <3>1. tq_task = <<>> /\ tq_freelist = 0 /\ tq_nalloc = 0 /\ Present = {}
      BY DEF StagesRight, At
    <3>2. \A w \in Workers : pc[w] \in {"callb_delete", "gone"} /\ task[w] = 0
      BY <3>1 DEF Present, TasksRight
    <3>3. Unlocked
      BY <3>2 DEF Unlocked, LocksRight, TypeOK, At
    <3>4. suspender = NoThread
      BY DEF LocksRight, StagesRight, TypeOK, At
    <3>5. \A i \in 1..(next - 1) : Done(i)
      BY <3>1, <3>2 DEF Done, TypeOK
    <3> QED BY <3>1, <3>2, <3>3, <3>4, <3>5 DEF At
  <2>2. HandshakeHasCause
    <3>1. ASSUME NEW w \in Workers, pc[w] = "stop_cv"
          PROVE  /\ "START" \in events[w]
                 /\ cpr.at # "idle" /\ (cpr.at = "resume" => w \in cpr.todo \cup {cpr.who})
      BY <3>1 DEF EventsRight, Registered, At
    <3> QED BY <3>1 DEF HandshakeHasCause, CprRight, At
  <2> QED BY <2>1, <2>2
<1> QED BY <1>1, TaskqInvariant, PTL

\* No task waits for a worker that cv_signal() has left asleep.
THEOREM NoWorkerForgotten == Spec => []WorkConserving
<1>1. TaskqInv => WorkConserving
  BY DEF TaskqInv
<1> QED BY <1>1, TaskqInvariant, PTL

\* From the return of its last callback until the resume, a checkpoint finds
\* no worker that touches the queue.
THEOREM SuspendedIsStopped == Spec => []StoppedWhileSuspended
<1>1. TaskqInv => StoppedWhileSuspended
  <2> SUFFICES ASSUME TaskqInv, cpr.at = "suspended", NEW w \in Workers
               PROVE  pc[w] \in {"dispatch_cv", "woken", "stop_cv", "callb_add", "callb_delete", "gone"}
    BY DEF StoppedWhileSuspended
  <2>1. CASE w \notin Registered
    BY <2>1 DEF Registered
  <2>2. CASE w \in Registered
    <3>1. w \notin cpr.todo \cup {cpr.who}
      BY ThreadKinds DEF TaskqInv, CprRight
    <3> QED BY <2>2, <3>1 DEF TaskqInv, EventsRight
  <2> QED BY <2>1, <2>2
<1> QED BY <1>1, TaskqInvariant, PTL

\* A queue with one thread executes its tasks in the order of their dispatch.
THEOREM SingleThreadInOrder == Spec => []InOrderIfSingle
<1>1. TaskqInv => InOrderIfSingle
  <2> SUFFICES ASSUME TaskqInv, Cardinality(Workers) = 1, NEW w \in Workers,
                      NEW i \in 1..(task[w] - 1)
               PROVE  Done(i)
    BY DEF InOrderIfSingle
  <2>1. task[w] \in Nat /\ i \in Nat /\ i < task[w]
    BY DEF TaskqInv, TypeOK
  <2>2. \A v \in Workers : v = w
    <3>1. Cardinality(Workers \ {w}) = 0 /\ IsFiniteSet(Workers \ {w})
      BY ThreadsAssumption, FS_RemoveElement
    <3>2. Workers \ {w} = {}
      BY <3>1, FS_EmptySet
    <3> QED BY <3>2
  <2>3. \A k \in 1..Len(tq_task) : task[w] < tq_task[k] /\ tq_task[k] \in Nat
    BY DEF TaskqInv, InOrder, TypeOK
  <2> QED BY <2>1, <2>2, <2>3 DEF Done
<1> QED BY <1>1, TaskqInvariant, PTL

\* taskq_wait() returns to a caller all of whose tasks are done.
THEOREM WaitIsForAll == Spec => WaitReturnsAfterTasks
<1> DEFINE Waited == \A c \in Clients : pc[c] = "wait" /\ pc'[c] = "idle" =>
                       \A i \in 1..(since[c] - 1) : Done(i)
<1>1. TaskqInv /\ [Next]_vars => [Waited]_vars
  <2> SUFFICES ASSUME TaskqInv, Next, NEW c \in Clients, pc[c] = "wait", pc'[c] = "idle",
                      NEW i \in 1..(since[c] - 1)
               PROVE  Done(i)
    OBVIOUS
  <2> USE ThreadKinds
  <2>1. ~Busy
    <3>1. CASE taskq_wait_test(c)
      BY <3>1 DEF taskq_wait_test, Goto, TaskqInv, TypeOK
    <3>2. ASSUME NEW d \in Clients \ {c}, taskq_wait_test(d) \/ taskq_wait(d) \/ suspend_tasks(d) \/ resume_tasks(d)
          PROVE  pc'[c] = pc[c]
      BY <3>2
      DEF taskq_wait_test, taskq_wait, suspend_tasks, resume_tasks, Goto, TaskqInv, TypeOK
    <3>3. CASE taskq_wait(c) \/ suspend_tasks(c) \/ resume_tasks(c)
      BY <3>3 DEF taskq_wait, suspend_tasks, resume_tasks, At
    <3>4. ASSUME NEW u \in Users, Dispatch(u) \/ DispatchProgress(u) PROVE pc'[c] = pc[c]
      <4>1. Enqueue \/ UNCHANGED pc
        BY <3>4 DEF Dispatch, DispatchProgress, taskq_dispatch_free, taskq_dispatch_new,
                    task_alloc_check, task_alloc_new, task_alloc_fail
      <4> QED BY <4>1, SignalMove DEF Enqueue, Goto, TaskqInv
    <3>5. ASSUME NEW w \in Workers, taskq_thread(w) PROVE pc'[c] # "idle"
      <4>1. CASE taskq_thread_idle(w)
        <5>1. PICK all \in BOOLEAN : pc' = [IF all THEN AwakenWaiters(pc) ELSE pc EXCEPT ![w] = "dispatch_cv"]
          BY <4>1 DEF taskq_thread_idle
        <5> QED BY <5>1, AwakenMove DEF TaskqInv, WorkerLabels
      <4>2. CASE taskq_thread_exit(w)
        <5>1. pc' = [IF TRUE THEN AwakenWaiters(pc) ELSE pc EXCEPT ![w] = "callb_delete"]
          BY <4>2 DEF taskq_thread_exit
        <5> QED BY <5>1, AwakenMove DEF TaskqInv, WorkerLabels
      <4>3. CASE \E l \in WorkerLabels : pc' = [pc EXCEPT ![w] = l]
        BY <4>3, WorkerMove DEF TaskqInv
      <4>4. CASE callb_add(w) \/ taskq_thread_lock(w) \/ taskq_thread_woken(w) \/ taskq_thread_stop(w)
                 \/ taskq_thread_take(w) \/ taskq_thread_call(w) \/ taskq_thread_return(w)
                 \/ task_free_keep(w) \/ task_free_kmem(w) \/ callb_delete(w)
        BY <4>3, <4>4
        DEF callb_add, taskq_thread_lock, taskq_thread_woken, taskq_thread_stop, taskq_thread_take,
            taskq_thread_call, taskq_thread_return, task_free_keep, task_free_kmem, callb_delete,
            Goto, WorkerLabels
      <4> QED BY <3>5, <4>1, <4>2, <4>4 DEF taskq_thread
    <3>6. CASE taskq_create \/ taskq_destroy \/ DestroyProgress
      <4>1. pc'[c] = pc[c]
        BY <3>6
        DEF taskq_create, taskq_destroy, DestroyProgress, taskq_destroy_wait, taskq_destroy_stop,
            taskq_destroy_join, taskq_destroy_drain, taskq_destroy_done, Goto, Asleep, TaskqInv, TypeOK
      <4> QED BY <4>1
    <3>7. CASE callb_execute_class \/ callb_generic_cpr_timeout \/ CprProgress
      <4>1. pc'[c] = pc[c]
        BY <3>7
        DEF callb_execute_class, callb_generic_cpr_timeout, CprProgress, callb_execute_class_done,
            callb_execute, callb_generic_cpr_chkpt, callb_generic_cpr_resume, Goto, TaskqInv, TypeOK
      <4> QED BY <4>1
    <3> QED BY <3>1, <3>2, <3>3, <3>4, <3>5, <3>6, <3>7 DEF Next
  <2>2. tq_task = <<>> /\ \A w \in Workers : task[w] = 0
    <3>1. Cardinality(Active) = 0 /\ Active \in SUBSET Workers
      BY <2>1 DEF TaskqInv, Busy, CountsRight, StagesRight, Active, At
    <3>2. Active = {}
      BY <3>1, ThreadsAssumption, FS_Subset, FS_EmptySet
    <3> QED BY <2>1, <3>2 DEF Busy, Active, TaskqInv, TasksRight
  <2>3. i \in Nat \ {0}
    BY DEF TaskqInv, TypeOK
  <2> QED BY <2>2, <2>3 DEF Done
<1> QED BY <1>1, TaskqInvariant, PTL DEF Spec, WaitReturnsAfterTasks
=============================================================================
