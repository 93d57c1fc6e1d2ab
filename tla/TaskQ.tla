-------------------------------- MODULE TaskQ --------------------------------
(***************************************************************************)
(* Task queues of the Solaris kernel: uts/common/os/taskq.c, with the      *)
(* handshake by which their threads stop for checkpoint and resume: the    *)
(* CALLB_CPR macros of sys/callb.h and callb_generic_cpr() of os/callb.c.  *)
(*                                                                         *)
(* One task queue, created and destroyed again and again by its owner; its *)
(* threads (workers); the threads (clients) that dispatch tasks to it and  *)
(* wait for it; and tasks that themselves dispatch tasks.  A step is one   *)
(* section under tq_lock, except that a worker keeps the lock from         *)
(* task_free() to its next look at the queue.  task_alloc() drops the lock *)
(* before it looks at tq_nalloc, which is a step of its own.               *)
(*                                                                         *)
(* Tasks are numbered in the order they are scheduled; task structures are *)
(* counted.  A dispatcher keeps to the interface: nobody but a running     *)
(* task uses the queue once taskq_destroy() is called.  TASKQ_CPR_SAFE     *)
(* queues, which are never destroyed nor stopped, are left out.            *)
(***************************************************************************)
EXTENDS Integers, Sequences, FiniteSets

CONSTANTS
  Workers,    \* the nthreads threads that service the queue
  Clients,    \* the threads that dispatch and wait
  Owner,      \* the thread that creates and destroys the queue
  NoThread,   \* nobody
  MinAlloc,   \* minalloc and maxalloc of taskq_create()
  MaxAlloc,
  KmFlags,    \* the kmflags that dispatchers use
  Checkpoints, \* whether the system is checkpointed
  MaxTasks    \* bound: tasks scheduled between creation and destruction

KM_SLEEP == "KM_SLEEP"
KM_NOSLEEP == "KM_NOSLEEP"

NotDispatching == [at |-> "none", km |-> KM_SLEEP]

Users == Workers \cup Clients
Threads == Users \cup {Owner}

ASSUME ThreadsAssumption ==
  /\ IsFiniteSet(Workers) /\ IsFiniteSet(Clients)
  /\ Workers # {} /\ Workers \cap Clients = {}
  /\ Owner \notin Users /\ NoThread \notin Threads
ASSUME AllocAssumption ==
  /\ MinAlloc \in Nat /\ MaxAlloc \in Nat /\ MaxTasks \in Nat
  /\ KmFlags \subseteq {KM_SLEEP, KM_NOSLEEP} /\ Checkpoints \in BOOLEAN

VARIABLES
  tq_lock,      \* holder of tq_lock between two steps, or NoThread
  tq_task,      \* the queue of scheduled tasks
  tq_freelist,  \* length of the list of free task structures
  tq_nalloc,    \* task structures allocated
  tq_minalloc,
  tq_active,    \* workers that are not waiting for work
  tq_nthreads,
  tq_isactive,  \* TASKQ_ACTIVE in tq_flags
  suspender,    \* the client that holds tq_threadlock as writer, or NoThread
  task,         \* the task a worker has taken off the queue, or 0
  next,         \* the number of the next task to be scheduled
  dispatch,     \* where each user is in taskq_dispatch(), with its kmflags
  events,       \* cc_events of each worker: CALLB_CPR_START, CALLB_CPR_SAFE
  cpr,          \* where the checkpointing thread is, with which worker, and
                \* the workers its callb_execute_class() has yet to come to
  since,        \* history: next when the client called taskq_wait()
  pc            \* where each thread is in the code

lists == <<tq_task, next>>
population == <<tq_freelist, tq_nalloc, tq_minalloc>>
threads == <<tq_active, tq_nthreads, tq_isactive>>
calls == <<dispatch, since>>
callb == <<events, cpr>>
vars == <<tq_lock, lists, population, threads, suspender, task, calls, callb, pc>>

\* The constructed state of a taskq_t before its first taskq_create().
Init ==
  /\ tq_lock = NoThread
  /\ tq_task = <<>> /\ next = 1
  /\ tq_freelist = 0 /\ tq_nalloc = 0 /\ tq_minalloc = 0
  /\ tq_active = 0 /\ tq_nthreads = 0 /\ tq_isactive = FALSE
  /\ suspender = NoThread
  /\ task = [w \in Workers |-> 0]
  /\ dispatch = [u \in Users |-> NotDispatching]
  /\ events = [w \in Workers |-> {}]
  /\ cpr = [at |-> "idle", who |-> NoThread, todo |-> {}]
  /\ since = [c \in Clients |-> 0]
  /\ pc = [t \in Threads |-> IF t \in Workers THEN "gone" ELSE
                             IF t = Owner THEN "none" ELSE "idle"]

Unlocked == tq_lock = NoThread
At(t, l) == pc[t] = l
Goto(t, l) == pc' = [pc EXCEPT ![t] = l]

\* cv_wait() on tq_dispatch_cv and tq_wait_cv: the label of a sleeper, and
\* the label from which it takes tq_lock again.
Asleep == {w \in Workers : pc[w] = "dispatch_cv"}
Wakes == [wait_cv |-> "wait", destroy_wait_cv |-> "destroy_wait",
          destroy_join_cv |-> "destroy_join"]
AwakenWaiters(p) == [t \in Threads |-> IF p[t] \in DOMAIN Wakes THEN Wakes[p[t]] ELSE p[t]]

\* Mutant: only the queue is looked at.
Busy_queue == tq_task # <<>>

\* The test of taskq_wait(): nothing scheduled and no worker at work.
Busy == tq_task # <<>> \/ tq_active # 0

-----------------------------------------------------------------------------
(* taskq_create()                                                          *)

\* The queue and the free list are not touched: they are as the destroyer
\* left them.  TASKQ_PREPOPULATE adds minalloc structures.
taskq_create ==
  /\ At(Owner, "none") /\ \A w \in Workers : At(w, "gone")
  /\ tq_isactive' = TRUE
  /\ tq_active' = Cardinality(Workers) /\ tq_nthreads' = Cardinality(Workers)
  /\ tq_minalloc' = MinAlloc
  /\ \E n \in {0, MinAlloc} :
       tq_nalloc' = tq_nalloc + n /\ tq_freelist' = tq_freelist + n
  /\ pc' = [t \in Threads |-> IF t \in Workers THEN "callb_add" ELSE
                              IF t = Owner THEN "created" ELSE pc[t]]
  /\ next' = 1
  /\ UNCHANGED <<tq_lock, tq_task, suspender, task, calls, callb>>

-----------------------------------------------------------------------------
(* taskq_dispatch() and task_alloc()                                       *)

\* Who may call taskq_dispatch(): a client of a live queue, a running task.
MayDispatch(u) ==
  /\ dispatch[u] = NotDispatching
  /\ IF u \in Workers THEN At(u, "task_func")
     ELSE (At(u, "idle") \/ At(u, "suspend")) /\ At(Owner, "created")
  /\ next + Cardinality({v \in Users : dispatch[v] # NotDispatching}) <= MaxTasks

\* Mutant: cv_signal() only for the first task of the queue.
Enqueue_first ==
  /\ tq_task' = Append(tq_task, next)
  /\ next' = next + 1
  /\ IF Asleep = {} \/ tq_task # <<>> THEN UNCHANGED pc ELSE \E w \in Asleep : Goto(w, "woken")

\* The task goes to the tail and cv_signal() wakes one waiting worker.
Enqueue ==
  /\ tq_task' = Append(tq_task, next)
  /\ next' = next + 1
  /\ IF Asleep = {} THEN UNCHANGED pc ELSE \E w \in Asleep : Goto(w, "woken")

\* task_alloc() from the free list.
taskq_dispatch_free(u) ==
  /\ Unlocked /\ MayDispatch(u)
  /\ tq_freelist > 0 /\ tq_nalloc >= tq_minalloc
  /\ tq_freelist' = tq_freelist - 1
  /\ Enqueue
  /\ UNCHANGED <<tq_lock, tq_nalloc, tq_minalloc, threads, suspender, task, calls, callb>>

\* task_alloc() of a new structure starts by dropping tq_lock.
taskq_dispatch_new(u, km) ==
  /\ Unlocked /\ MayDispatch(u)
  /\ ~(tq_freelist > 0 /\ tq_nalloc >= tq_minalloc)
  /\ dispatch' = [dispatch EXCEPT ![u] = [at |-> "check", km |-> km]]
  /\ UNCHANGED <<tq_lock, lists, population, threads, suspender, task, since, callb, pc>>

\* The look at tq_nalloc, without the lock: give up, or delay and go on.
task_alloc_check(u) ==
  /\ dispatch[u].at = "check"
  /\ dispatch' = [dispatch EXCEPT ![u] =
       IF tq_nalloc >= MaxAlloc /\ @.km = KM_NOSLEEP THEN NotDispatching
       ELSE [@ EXCEPT !.at = "kmem"]]
  /\ UNCHANGED <<tq_lock, lists, population, threads, suspender, task, since, callb, pc>>

\* kmem_cache_alloc() and the rest of taskq_dispatch() under the lock.
task_alloc_new(u) ==
  /\ dispatch[u].at = "kmem" /\ Unlocked
  /\ tq_nalloc' = tq_nalloc + 1
  /\ Enqueue
  /\ dispatch' = [dispatch EXCEPT ![u] = NotDispatching]
  /\ UNCHANGED <<tq_lock, tq_freelist, tq_minalloc, threads, suspender, task, since, callb>>

\* kmem_cache_alloc() returns NULL: taskq_dispatch() returns 0.
task_alloc_fail(u) ==
  /\ dispatch[u] = [at |-> "kmem", km |-> KM_NOSLEEP]
  /\ dispatch' = [dispatch EXCEPT ![u] = NotDispatching]
  /\ UNCHANGED <<tq_lock, lists, population, threads, suspender, task, since, callb, pc>>

-----------------------------------------------------------------------------
(* taskq_thread()                                                          *)

\* CALLB_CPR_INIT(): callb_add() waits while the callback table is locked.
callb_add(w) ==
  /\ At(w, "callb_add") /\ cpr.at = "idle"
  /\ events' = [events EXCEPT ![w] = {}]
  /\ Goto(w, "lock")
  /\ UNCHANGED <<tq_lock, lists, population, threads, suspender, task, calls, cpr>>

\* The worker sets CALLB_CPR_SAFE and signals the checkpoint that waits for
\* it (CALLB_CPR_SAFE_BEGIN and CALLB_CPR_EXIT).
BecomeSafe(w) ==
  /\ events' = [events EXCEPT ![w] = @ \cup {"SAFE"}]
  /\ cpr' = IF "START" \in events[w] /\ cpr.at = "chkpt_cv" /\ cpr.who = w
            THEN [cpr EXCEPT !.at = "chkpt_woken"] ELSE cpr

\* mutex_enter() at the start, and after task_free() gave memory back.
taskq_thread_lock(w) ==
  /\ At(w, "lock") /\ Unlocked
  /\ tq_lock' = w
  /\ Goto(w, "loop")
  /\ UNCHANGED <<lists, population, threads, suspender, task, calls, callb>>

\* Mutant: the worker tells the waiters before it counts itself out.
taskq_thread_idle_early(w) ==
  /\ At(w, "loop") /\ tq_isactive /\ tq_task = <<>>
  /\ tq_active' = tq_active - 1
  /\ pc' = [IF tq_active = 0 THEN AwakenWaiters(pc) ELSE pc EXCEPT ![w] = "dispatch_cv"]
  /\ BecomeSafe(w)
  /\ tq_lock' = NoThread
  /\ UNCHANGED <<lists, population, tq_nthreads, tq_isactive, suspender, task, calls>>

\* Nothing to do: the last worker to find so wakes the waiters; cv_wait().
taskq_thread_idle(w) ==
  /\ At(w, "loop") /\ tq_isactive /\ tq_task = <<>>
  /\ tq_active' = tq_active - 1
  /\ pc' = [IF tq_active' = 0 THEN AwakenWaiters(pc) ELSE pc EXCEPT ![w] = "dispatch_cv"]
  /\ BecomeSafe(w)
  /\ tq_lock' = NoThread
  /\ UNCHANGED <<lists, population, tq_nthreads, tq_isactive, suspender, task, calls>>

\* Mutant: CALLB_CPR_SAFE_END() without its loop.
taskq_thread_woken_rash(w) ==
  /\ At(w, "woken") /\ Unlocked
  /\ tq_lock' = w
  /\ events' = [events EXCEPT ![w] = @ \ {"SAFE"}]
  /\ tq_active' = tq_active + 1
  /\ Goto(w, "loop")
  /\ UNCHANGED <<lists, population, tq_nthreads, tq_isactive, suspender, task, calls, cpr>>

\* cv_wait() returns; CALLB_CPR_SAFE_END(), not stopped ...
taskq_thread_woken(w) ==
  /\ At(w, "woken") /\ Unlocked
  /\ "START" \notin events[w]
  /\ tq_lock' = w
  /\ events' = [events EXCEPT ![w] = @ \ {"SAFE"}]
  /\ tq_active' = tq_active + 1
  /\ Goto(w, "loop")
  /\ UNCHANGED <<lists, population, tq_nthreads, tq_isactive, suspender, task, calls, cpr>>

\* ... or in cv_wait(&cc_stop_cv).
taskq_thread_stop(w) ==
  /\ At(w, "woken") /\ Unlocked
  /\ "START" \in events[w]
  /\ Goto(w, "stop_cv")
  /\ UNCHANGED <<tq_lock, lists, population, threads, suspender, task, calls, callb>>

\* Mutant: from the tail.
taskq_thread_take_last(w) ==
  /\ At(w, "loop") /\ tq_isactive /\ tq_task # <<>>
  /\ task' = [task EXCEPT ![w] = tq_task[Len(tq_task)]]
  /\ tq_task' = SubSeq(tq_task, 1, Len(tq_task) - 1)
  /\ tq_lock' = NoThread
  /\ Goto(w, "rw_enter")
  /\ UNCHANGED <<next, population, threads, suspender, calls, callb>>

\* Take the first task off the queue and drop tq_lock.
taskq_thread_take(w) ==
  /\ At(w, "loop") /\ tq_isactive /\ tq_task # <<>>
  /\ task' = [task EXCEPT ![w] = Head(tq_task)]
  /\ tq_task' = Tail(tq_task)
  /\ tq_lock' = NoThread
  /\ Goto(w, "rw_enter")
  /\ UNCHANGED <<next, population, threads, suspender, calls, callb>>

\* rw_enter(&tq->tq_threadlock, RW_READER) and the call of task_func().
taskq_thread_call(w) ==
  /\ At(w, "rw_enter") /\ suspender = NoThread
  /\ Goto(w, "task_func")
  /\ UNCHANGED <<tq_lock, lists, population, threads, suspender, task, calls, callb>>

\* task_func() returns; rw_exit().
taskq_thread_return(w) ==
  /\ At(w, "task_func") /\ dispatch[w] = NotDispatching
  /\ task' = [task EXCEPT ![w] = 0]
  /\ Goto(w, "task_free")
  /\ UNCHANGED <<tq_lock, lists, population, threads, suspender, calls, callb>>

\* task_free(): to the free list, tq_lock held on ...
task_free_keep(w) ==
  /\ At(w, "task_free") /\ Unlocked
  /\ tq_nalloc <= tq_minalloc
  /\ tq_freelist' = tq_freelist + 1
  /\ tq_lock' = w
  /\ Goto(w, "loop")
  /\ UNCHANGED <<lists, tq_nalloc, tq_minalloc, threads, suspender, task, calls, callb>>

\* ... or back to kmem, with tq_lock dropped around kmem_cache_free().
task_free_kmem(w) ==
  /\ At(w, "task_free") /\ Unlocked
  /\ tq_nalloc > tq_minalloc
  /\ tq_nalloc' = tq_nalloc - 1
  /\ Goto(w, "lock")
  /\ UNCHANGED <<tq_lock, lists, tq_freelist, tq_minalloc, threads, suspender, task, calls, callb>>

\* TASKQ_ACTIVE is gone: so is the worker, but for its callback entry.
taskq_thread_exit(w) ==
  /\ At(w, "loop") /\ ~tq_isactive
  /\ tq_nthreads' = tq_nthreads - 1
  /\ pc' = [AwakenWaiters(pc) EXCEPT ![w] = "callb_delete"]
  /\ BecomeSafe(w)
  /\ tq_lock' = NoThread
  /\ UNCHANGED <<lists, population, tq_active, tq_isactive, suspender, task, calls>>

\* callb_delete() waits while the entry is executing.
callb_delete(w) ==
  /\ At(w, "callb_delete") /\ cpr.who # w
  /\ Goto(w, "gone")
  /\ UNCHANGED <<tq_lock, lists, population, threads, suspender, task, calls, callb>>

-----------------------------------------------------------------------------
(* taskq_wait() and taskq_lock(), by a client                              *)

\* A call of taskq_wait().
taskq_wait(c) ==
  /\ At(c, "idle") /\ dispatch[c] = NotDispatching /\ At(Owner, "created")
  /\ since' = [since EXCEPT ![c] = next]
  /\ Goto(c, "wait")
  /\ UNCHANGED <<tq_lock, lists, population, threads, suspender, task, dispatch, callb>>

\* Its loop, up to cv_wait() or the return.
taskq_wait_test(c) ==
  /\ At(c, "wait") /\ Unlocked
  /\ Goto(c, IF Busy THEN "wait_cv" ELSE "idle")
  /\ since' = IF Busy THEN since ELSE [since EXCEPT ![c] = 0]
  /\ UNCHANGED <<tq_lock, lists, population, threads, suspender, task, dispatch, callb>>

\* rw_enter() of taskq_lock(tq) as writer: no task runs until rw_exit().
suspend_tasks(c) ==
  /\ At(c, "idle") /\ dispatch[c] = NotDispatching /\ At(Owner, "created")
  /\ suspender = NoThread /\ \A w \in Workers : ~At(w, "task_func")
  /\ suspender' = c
  /\ Goto(c, "suspend")
  /\ UNCHANGED <<tq_lock, lists, population, threads, task, calls, callb>>

resume_tasks(c) ==
  /\ At(c, "suspend") /\ dispatch[c] = NotDispatching
  /\ suspender' = NoThread
  /\ Goto(c, "idle")
  /\ UNCHANGED <<tq_lock, lists, population, threads, task, calls, callb>>

-----------------------------------------------------------------------------
(***************************************************************************)
(* Checkpoint and resume: callb_execute_class() of the daemon class with   *)
(* callb_generic_cpr(), between callb_lock_table() and callb_unlock_table().*)
(***************************************************************************)
Registered == {w \in Workers : pc[w] \notin {"gone", "callb_add"}}
CprUnchanged == UNCHANGED <<tq_lock, lists, population, threads, suspender, task, calls>>

\* Start a checkpoint, or resume from one.
callb_execute_class ==
  /\ Checkpoints
  /\ \/ cpr.at = "idle" /\ cpr' = [cpr EXCEPT !.at = "chkpt", !.todo = Registered]
     \/ cpr.at = "suspended" /\ cpr' = [cpr EXCEPT !.at = "resume", !.todo = Registered]
  /\ UNCHANGED <<events, pc>> /\ CprUnchanged

\* The next entry of the class is marked CALLB_EXECUTING.
callb_execute(w) ==
  /\ cpr.at \in {"chkpt", "resume"} /\ cpr.who = NoThread
  /\ w \in cpr.todo \cap Registered
  /\ cpr' = [cpr EXCEPT !.who = w, !.todo = @ \ {w}]
  /\ UNCHANGED <<events, pc>> /\ CprUnchanged

\* There is none left.
callb_execute_class_done ==
  /\ cpr.at \in {"chkpt", "resume"} /\ cpr.who = NoThread
  /\ cpr.todo \cap Registered = {}
  /\ cpr' = [at |-> IF cpr.at = "chkpt" THEN "suspended" ELSE "idle",
             who |-> NoThread, todo |-> {}]
  /\ UNCHANGED <<events, pc>> /\ CprUnchanged

\* CB_CODE_CPR_CHKPT: ask the worker to stop, and wait until it is safe.
callb_generic_cpr_chkpt(w) ==
  /\ cpr.at \in {"chkpt", "chkpt_woken"} /\ cpr.who = w /\ Unlocked
  /\ events' = [events EXCEPT ![w] = @ \cup {"START"}]
  /\ cpr' = IF "SAFE" \in events[w] THEN [cpr EXCEPT !.at = "chkpt", !.who = NoThread]
            ELSE [cpr EXCEPT !.at = "chkpt_cv"]
  /\ UNCHANGED pc /\ CprUnchanged

\* cv_timedwait() times out, if only between the signal and untimeout(): the
\* checkpoint fails and everybody is resumed.
callb_generic_cpr_timeout ==
  /\ cpr.at \in {"chkpt_cv", "chkpt_woken"} /\ Unlocked
  /\ cpr' = [at |-> "resume", who |-> NoThread, todo |-> Registered]
  /\ UNCHANGED <<events, pc>> /\ CprUnchanged

\* Mutant: the stopped worker is not signalled.
callb_generic_cpr_resume_silent(w) ==
  /\ cpr.at = "resume" /\ cpr.who = w /\ Unlocked
  /\ events' = [events EXCEPT ![w] = @ \ {"START"}]
  /\ cpr' = [cpr EXCEPT !.who = NoThread]
  /\ UNCHANGED pc /\ CprUnchanged

\* CB_CODE_CPR_RESUME.
callb_generic_cpr_resume(w) ==
  /\ cpr.at = "resume" /\ cpr.who = w /\ Unlocked
  /\ events' = [events EXCEPT ![w] = @ \ {"START"}]
  /\ cpr' = [cpr EXCEPT !.who = NoThread]
  /\ IF At(w, "stop_cv") THEN Goto(w, "woken") ELSE UNCHANGED pc
  /\ CprUnchanged

-----------------------------------------------------------------------------
(* taskq_destroy()                                                         *)

\* A call of taskq_destroy(): every client is done with the queue.
taskq_destroy ==
  /\ At(Owner, "created")
  /\ \A c \in Clients : At(c, "idle") /\ dispatch[c] = NotDispatching
  /\ Goto(Owner, "destroy_wait")
  /\ UNCHANGED <<tq_lock, lists, population, threads, suspender, task, calls, callb>>

\* The loop of its taskq_wait().
taskq_destroy_wait ==
  /\ At(Owner, "destroy_wait") /\ Unlocked
  /\ Goto(Owner, IF Busy THEN "destroy_wait_cv" ELSE "destroy_stop")
  /\ UNCHANGED <<tq_lock, lists, population, threads, suspender, task, calls, callb>>

\* The loop that waits for the workers, up to cv_wait() or past it.
Join == IF tq_nthreads # 0 THEN "destroy_join_cv" ELSE "destroy_drain"

\* Clear TASKQ_ACTIVE and cv_broadcast() to the workers.
taskq_destroy_stop ==
  /\ At(Owner, "destroy_stop") /\ Unlocked
  /\ tq_isactive' = FALSE
  /\ pc' = [t \in Threads |-> IF t \in Asleep THEN "woken" ELSE
                              IF t = Owner THEN Join ELSE pc[t]]
  /\ UNCHANGED <<tq_lock, lists, population, tq_active, tq_nthreads, suspender, task, calls, callb>>

taskq_destroy_join ==
  /\ At(Owner, "destroy_join") /\ Unlocked
  /\ Goto(Owner, Join)
  /\ UNCHANGED <<tq_lock, lists, population, threads, suspender, task, calls, callb>>

\* One round of task_free(tq, task_alloc(tq, KM_SLEEP)) with tq_minalloc 0:
\* a structure of the free list is given back.  Without one, a new one is
\* allocated and given back, and tq_nalloc stays what it is.
taskq_destroy_drain ==
  /\ At(Owner, "destroy_drain") /\ Unlocked /\ tq_nalloc # 0
  /\ tq_minalloc' = 0
  /\ tq_freelist' = IF tq_freelist > 0 THEN tq_freelist - 1 ELSE tq_freelist
  /\ tq_nalloc' = IF tq_freelist > 0 THEN tq_nalloc - 1 ELSE tq_nalloc
  /\ UNCHANGED <<tq_lock, lists, threads, suspender, task, calls, callb, pc>>

\* kmem_cache_free(taskq_cache, tq).
taskq_destroy_done ==
  /\ At(Owner, "destroy_drain") /\ Unlocked /\ tq_nalloc = 0
  /\ tq_minalloc' = 0
  /\ Goto(Owner, "none")
  /\ UNCHANGED <<tq_lock, lists, tq_freelist, tq_nalloc, threads, suspender, task, calls, callb>>

-----------------------------------------------------------------------------
Dispatch(u) ==
  \/ taskq_dispatch_free(u)
  \/ \E km \in KmFlags : taskq_dispatch_new(u, km)
DispatchProgress(u) == task_alloc_check(u) \/ task_alloc_new(u) \/ task_alloc_fail(u)

taskq_thread(w) ==
  \/ callb_add(w) \/ taskq_thread_lock(w) \/ taskq_thread_idle(w)
  \/ taskq_thread_woken(w) \/ taskq_thread_stop(w)
  \/ taskq_thread_take(w) \/ taskq_thread_call(w) \/ taskq_thread_return(w)
  \/ task_free_keep(w) \/ task_free_kmem(w) \/ taskq_thread_exit(w)
  \/ callb_delete(w)

DestroyProgress ==
  \/ taskq_destroy_wait \/ taskq_destroy_stop \/ taskq_destroy_join
  \/ taskq_destroy_drain \/ taskq_destroy_done

\* The checkpointing thread once it has begun.
CprProgress ==
  \/ callb_execute_class_done
  \/ \E w \in Workers : \/ callb_execute(w) \/ callb_generic_cpr_chkpt(w)
                       \/ callb_generic_cpr_resume(w)
CprEnds == callb_generic_cpr_timeout \/ (cpr.at = "suspended" /\ callb_execute_class)

Next ==
  \/ taskq_create
  \/ taskq_destroy
  \/ DestroyProgress
  \/ \E u \in Users : Dispatch(u) \/ DispatchProgress(u)
  \/ \E w \in Workers : taskq_thread(w)
  \/ \E c \in Clients :
       \/ taskq_wait(c) \/ taskq_wait_test(c)
       \/ suspend_tasks(c) \/ resume_tasks(c)
  \/ callb_execute_class \/ callb_generic_cpr_timeout \/ CprProgress

Spec == Init /\ [][Next]_vars

(***************************************************************************)
(* Threads run.  Task functions return and who suspends the tasks resumes  *)
(* them: neither calls taskq_dispatch() for ever.  A worker that waits for *)
(* tq_threadlock again and again gets it: that is NoStarvation of RwLock.  *)
(* A checkpoint ends, and checkpoints do not follow each other so closely  *)
(* that a stopped or a starting worker never gets in between.              *)
(***************************************************************************)
FairSpec ==
  /\ Spec
  /\ WF_vars(DestroyProgress)
  /\ WF_vars(CprProgress) /\ WF_vars(CprEnds)
  /\ \A u \in Users : WF_vars(DispatchProgress(u))
  /\ \A w \in Workers :
       /\ SF_vars(taskq_thread(w)) /\ SF_vars(taskq_thread_woken(w))
       /\ SF_vars(taskq_thread_call(w)) /\ SF_vars(taskq_thread_return(w))
  /\ \A c \in Clients : WF_vars(taskq_wait_test(c)) /\ SF_vars(resume_tasks(c))

-----------------------------------------------------------------------------
(* Properties                                                              *)

WorkerLabels == {"callb_add", "lock", "loop", "dispatch_cv", "woken", "stop_cv", "rw_enter",
                 "task_func", "task_free", "callb_delete", "gone"}
ClientLabels == {"idle", "wait", "wait_cv", "suspend"}
OwnerLabels == {"none", "created", "destroy_wait", "destroy_wait_cv", "destroy_stop",
                "destroy_join", "destroy_join_cv", "destroy_drain"}

\* Type correctness: no counter below zero, every label where it belongs.
TypeOK ==
  /\ tq_lock \in Workers \cup {NoThread}
  /\ tq_task \in Seq(Nat \ {0}) /\ next \in Nat \ {0}
  /\ tq_freelist \in Nat /\ tq_nalloc \in Nat /\ tq_minalloc \in {0, MinAlloc}
  /\ tq_active \in Nat /\ tq_nthreads \in Nat /\ tq_isactive \in BOOLEAN
  /\ suspender \in Clients \cup {NoThread}
  /\ task \in [Workers -> Nat]
  /\ dispatch \in [Users -> [at : {"none", "check", "kmem"}, km : {KM_SLEEP, KM_NOSLEEP}]]
  /\ since \in [Clients -> Nat]
  /\ events \in [Workers -> SUBSET {"START", "SAFE"}]
  /\ cpr \in [at : {"idle", "chkpt", "chkpt_cv", "chkpt_woken", "suspended", "resume"},
             who : Workers \cup {NoThread}, todo : SUBSET Workers]
  /\ pc \in [Threads -> WorkerLabels \cup ClientLabels \cup OwnerLabels]
  /\ \A w \in Workers : pc[w] \in WorkerLabels
  /\ \A c \in Clients : pc[c] \in ClientLabels
  /\ pc[Owner] \in OwnerLabels

\* A scheduled task is done once it is off the queue and its function has
\* returned.
Done(i) == /\ \A k \in 1..Len(tq_task) : tq_task[k] # i
           /\ \A w \in Workers : task[w] # i

\* The workers with a task structure in their hands, and those that are awake
\* and about to look at the queue.
Holding == {w \in Workers : pc[w] \in {"rw_enter", "task_func", "task_free"}}
Looking == {w \in Workers : pc[w] \in {"woken", "stop_cv", "loop"}}

\* Every task structure counted in tq_nalloc is on the free list, on the
\* queue or in a worker's hands, through the failed and the unlocked parts of
\* task_alloc() and task_free(): the loop at the end of taskq_destroy() ends.
NallocExact == tq_nalloc = tq_freelist + Len(tq_task) + Cardinality(Holding)

\* A taskq_t goes back to its cache as taskq_constructor() left it, nobody
\* uses it any more, and every task of its life is done.
DestroyedClean ==
  At(Owner, "none") =>
    /\ tq_task = <<>> /\ tq_freelist = 0 /\ tq_nalloc = 0
    /\ Unlocked /\ suspender = NoThread
    /\ \A w \in Workers : At(w, "gone") \/ At(w, "callb_delete")
    /\ \A i \in 1..(next - 1) : Done(i)

\* No missed wakeup on tq_wait_cv: who sleeps in taskq_wait() has tasks to
\* wait for, and the destroyer has workers to wait for.
WaitersHaveCause ==
  /\ (\E t \in Threads : pc[t] \in {"wait_cv", "destroy_wait_cv"}) => Busy
  /\ At(Owner, "destroy_join_cv") => tq_nthreads # 0

\* No missed wakeup in the checkpoint handshake: a checkpoint waits for a
\* worker that is not safe, and a worker is stopped for a checkpoint that has
\* yet to resume it.
HandshakeHasCause ==
  /\ cpr.at = "chkpt_cv" => "SAFE" \notin events[cpr.who] /\ "START" \in events[cpr.who]
  /\ \A w \in Workers : At(w, "stop_cv") =>
       /\ "START" \in events[w]
       /\ cpr.at # "idle" /\ (cpr.at = "resume" => w \in cpr.todo \cup {cpr.who})

\* The bookkeeping of a queue: every counter and every sleeper is accounted for
\* at every moment, checkpoints included.
Inv == TypeOK /\ NallocExact /\ DestroyedClean /\ WaitersHaveCause /\ HandshakeHasCause

\* A worker stays asleep only if the workers that are awake and about to look
\* at the queue, or will be when a checkpoint lets them, suffice for it: no
\* task waits for another one to return while there is a worker to run it.
WorkConserving == Asleep # {} => Len(tq_task) <= Cardinality(Looking)

\* Once every callback of a checkpoint has returned, no worker touches the
\* queue or runs a task until it is resumed, whoever wakes it.
StoppedWhileSuspended ==
  cpr.at = "suspended" =>
    \A w \in Workers : pc[w] \in {"dispatch_cv", "woken", "stop_cv",
                                "callb_add", "callb_delete", "gone"}

\* "Tasks are guaranteed to be executed in the order they are scheduled if
\* nthreads == 1."
InOrderIfSingle ==
  Cardinality(Workers) = 1 =>
    \A w \in Workers : \A i \in 1..(task[w] - 1) : Done(i)

\* taskq_wait() returns when all tasks scheduled before the call are done,
\* whatever is scheduled and taken while it waits.
WaitReturnsAfterTasks ==
  [][\A c \in Clients :
       pc[c] = "wait" /\ pc'[c] = "idle" => \A i \in 1..(since[c] - 1) : Done(i)]_vars

\* What "the latter limit is only advisory for KM_SLEEP allocations" says of
\* the others: dispatchers that do not sleep keep to maxalloc.
PopulationLimit == KmFlags = {KM_NOSLEEP} => tq_nalloc <= MaxAlloc

\* What cc_lockp, the "lock to protect this struct", is for: a callback that is
\* executing has a tq_lock to take.
LockOutlivesCallback == At(Owner, "none") => cpr.who = NoThread

\* A scheduled task is eventually executed.
TaskExecuted == \A i \in 1..MaxTasks : (next > i) ~> (next <= i \/ Done(i))

\* taskq_destroy() returns.
DestroyTerminates == At(Owner, "destroy_wait") ~> At(Owner, "none")
=============================================================================
