# The synchronization core of the Solaris 8 kernel, in TLA+

The repository is the source of the Solaris 8 operating system: 23,000 files, six
million lines. This project models the part of the kernel that everything else
stands on and that is hardest to test: the synchronization primitives and the
deferred-execution services of `src/usr/src/uts/common/os/`, with the SPARC V9
assembly of `src/usr/src/uts/sparc/v9/ml/lock_prim.s` in which their fast paths
are written. Paths below are relative to `src/usr/src/uts/`.

## 1. Inventory

| Component | Source | State it keeps | Operations | What is hard | What makes it correct |
|---|---|---|---|---|---|
| Readers/writer locks | `common/os/rwlock.c`, `sparc/v9/ml/lock_prim.s` | one word: hold count or owner, write-wanted bit, waiters bit | enter, tryenter, exit, downgrade, tryupgrade | loads followed by stores that assume nothing changed; readers entering during a downgrade | exclusion, exact count, bits agree with queues, direct handoff, no starvation |
| Adaptive mutexes | `common/os/mutex.c`, `lock_prim.s`, `sparc/v9/sys/mutex_impl.h`, `sun4u/ml/locore.s`, `sun4u/ml/swtch.s` | one word: owner, waiters bit; `cpu_thread` of every CPU | enter, tryenter, exit | exit without an atomic instruction; blocking decided by looking at other CPUs | exclusion, no missed wakeup, never blocking on an unowned mutex |
| Task queues | `common/os/taskq.c` | queue, free list, counters, flags | create, dispatch, wait, suspend, destroy, the worker threads | counters that lag behind reality, two kinds of waiters on one condition variable, an allocation outside of the lock | tasks run, in order with one thread, wait and destroy return when and only when they should |
| Checkpoint callbacks | `common/os/callb.c`, `common/sys/callb.h` | callback table, per-thread event bits | add, delete, execute class, the generic callback | two-sided handshake with a timeout | stopped threads stay stopped, nobody is left stopped |
| Turnstiles | `common/os/turnstile.c` | hash chains of sleep queues, priority inheritance lists | lookup, block, wakeup, change priority, inherit, waive | two thread locks at once, in address order | no deadlock, no inversion left, priority given back with the lock |
| User-level mutexes with priority inheritance | `common/syscall/lwp_sobj.c`, `turnstile.c` | hash table of `upimutex_t`, a list per thread, flags in user memory | lock, trylock, unlock, clean-up at exit | hand-over races with signals, cycles, faults and deaths | kernel and program agree on the owner, a dead owner is noticed |
| Sleep queues | `common/os/sleepq.c` | priority-ordered queues | insert, dequeue, wake | priorities change while a thread sleeps | order kept |
| Spin mutexes, thread locks | `mutex.c`, `common/disp/disp_lock.c`, `lock_prim.s` | lock byte, saved interrupt level, `t_lockp` | enter, tryenter, exit, thread_lock, thread_transition | interrupt level lowered while spinning; a lock pointer that changes | nobody spins for what it interrupted, level restored, the right lock held |
| Condition variables | `common/os/condvar.c` | waiter count, hashed sleep queue | wait, timed wait, waits with signals, signal, broadcast | timeout, signal and wakeup race | no lost wakeup, honest result |
| Semaphores | `common/os/semaphore.c` | count, sleep queue | p, p_sig, tryp, v | a signal and a V hit the same sleeper | no lost V |
| Callouts | `common/os/callout.c` | hash tables of timeouts, current and run time | timeout, untimeout, schedule, execute | lock dropped in mid-chain, identifiers reused | once each, never after a successful untimeout |
| Cyclic subsystem | `common/os/cyclic.c` | heap with free list, a buffer per soft level, pending counts | add, remove, fire, soft interrupt, resize, juggle, suspend, resume | lock-free buffers between interrupt levels that are resized while in use | one call per expiration, nothing after a removal |
| Dispatcher, classes, doors | `common/disp/` | run queues | setrun, swtch, preempt, shuttle | migration between queues | every runnable thread on one queue |
| Everything else | kernel memory, VM, VFS and file systems, STREAMS, networking, drivers, platform code, commands, libraries | | | | outside of this project (section 8) |

### How they interact

* A readers/writer lock or adaptive mutex that cannot be had puts its caller on
  the lock's *turnstile*. Turnstiles hang off hash chains, each protected by a spin
  lock at `LOCK_LEVEL`; taking that lock is the point where the fast, lock-free
  protocols of the lock words meet the queues. A turnstile's queues are *sleep
  queues*, ordered by dispatch priority. The *dispatcher* may change the priority
  of a sleeper at any time, through the turnstile.
* Adaptive mutexes depend on the dispatcher a second time: whether to spin or to
  block is decided by looking at `cpu_thread` of every CPU, which `resume()` sets,
  and an interrupted `mutex_exit()` is restarted by the interrupt return path.
* User-level mutexes that inherit priority sleep on turnstiles as well, but can be
  interrupted; the kernel hands them over.
* Below all of them are spin locks: a lock byte and the interrupt level at which it
  is held. A *thread lock* is whichever spin lock `t_lockp` points to.
* The *cyclic subsystem* is the clock: at high level it expires cyclics, and soft
  interrupts call their handlers, one of which drives the callouts.
* Condition variables release an adaptive mutex and block on a sleep queue; their
  timed form uses a *callout*. Callouts are executed by a *task queue*. Task queues
  use a mutex, two condition variables and a readers/writer lock, and register
  with the *callback table* so that checkpoint/resume can stop their threads.

## 2. Modules

| Module | Models | Checked by | Proved in |
|---|---|---|---|
| `RwLock` | readers/writer locks with turnstile queues and priorities | `MCRwLock` | `RwLockProofs` |
| `RwSpec` | what a readers/writer lock promises (abstract specification) | as `ImplementsRwSpec` of `RwLock` | `RwLockProofs` |
| `AdaptiveMutex` | adaptive mutexes on several CPUs with a preempting dispatcher | `MCAdaptiveMutex` | `MutexProofs` |
| `TaskQ` | task queues with the checkpoint handshake | `MCTaskQ` | `TaskQProofs` |
| `Callout` | a callout table, its clock, executors and clients | `MCCallout` | `ClockProofs` |
| `TimeoutSpec` | what `timeout()` and `untimeout()` promise | as `KeepsPromise` of `Callout` | `ClockProofs` |
| `SleepQueue` | the order of a sleep queue, as operators on sequences | with the modules that use it | `SleepQueueTheorems` |
| `SleepQ` | sleep queues as they lie in memory, as operators on links | assumptions of `MCCondVar` | evaluated by TLC |
| `Semaphore` | counting semaphores with signals | `MCSemaphore` | `SleepLockProofs` |
| `SemaSpec` | what a semaphore promises, with liveness | as `KeepsPromise` of `Semaphore` | its safety part, in `SleepLockProofs` |
| `CondVar` | condition variables with timeouts and signals | `MCCondVar` | `CondVarProofs` |
| `Callb` | the callback table | `MCCallb` | `CallbProofs` |
| `TurnstilePI` | turnstiles, priority inheritance, the spin locks below | `MCTurnstilePI` | `SleepLockProofs` |
| `UpiMutex` | user-level mutexes with priority inheritance | `MCUpiMutex` | `MutexProofs` |
| `SpinLock` | spin mutexes, thread locks and interrupt levels | `MCSpinLock` | `MutexProofs` |
| `CyclicSoft` | the cyclic subsystem between interrupt levels | `MCCyclicSoft` | `ClockProofs` |

Models that share a proof module have names of their own where others have `Init`, `Next`,
`Spec`, `pc` and `Inv`: `MutexSpec`, `UpiSpec`, `CyclicSpec`, `TurnstileSpec`, `t_pc`, `lwp_pc`, and
the invariants `UpiConsistent`, `CyclicsRight` and `TurnstilesRight`.

### RwLock

State: `wwwh` is the lock word as a record of its fields; `tc_lock` the holder of
the turnstile chain lock; `sleepq` the two queues; `pri`, `kpri` are the dispatch
priority and `t_kpri_req` of each thread; `rw` and `pc` say what a thread is doing.
A step is one atomic access to the word (a `casip` loop is the step of its
successful `casip`) or one section under the chain lock. Where the code loads the
word, decides, and stores later without comparing (`rw_exit_wakeup()`, the
handoffs), load and store are different steps: that nothing interferes is a
property (`FinalExitIsFinal`), not an assumption. The fast paths in assembly and
the C functions do the same atomic access, and are one action. `turnstile_change_pri`
gives a sleeper another priority at any time, which is what priority inheritance
and the scheduling classes do to this lock.

`RwSpec` says who is inside and who waits: a writer is alone, a lock that is waited
for is never left free, a waiter gets in only by a grant, no reader overtakes a
waiting writer.

### AdaptiveMutex

State: the lock word, `tc_lock`, `cpu_thread` of each CPU, the local `owner` of
`mutex_vector_enter()`, the CPUs its current scan has not seen (`unseen`), `t_pc`. A
step is a single load, store or `casn`, so the code's two searches visit the CPUs
one by one, in any order (the search starts at a cached CPU that may be any). The
steps are sequentially consistent in the order the code's `membar`s
enforce, (2M) and (3M) of the Big Theory Statement in `mutex.c`. The statement
says the proof of that protocol was "verified by exhaustive simulation" of all
orders of its accesses; the model adds migrating owners, repeated acquisition and
any number of waiters, and is proved, not only explored.
`swtch` takes a CPU from any thread that does not hold the chain lock (held at
`LOCK_LEVEL`) and, if the thread was inside the critical region of `mutex_exit()`,
resets it to the start as `locore.s` does when the interrupt returns. A CPU runs
the idle thread between two threads (`swtch.s` stores it in `cpu_thread`), and a
sleeper gives up its CPU in the step in which it goes to sleep: who sleeps does not
own the mutex, so no scan looks for it.

### TaskQ

One task queue that is created, used, destroyed and created again from the same
cached structure. A step is one section under `tq_lock`; a worker that keeps the
lock from `task_free()` to its next look at the queue is named in `tq_lock`. The
unlocked look at `tq_nalloc` in `task_alloc()` is a step of its own. Tasks are
numbers in the order they were scheduled, task structures are counted. `events` and
`cpr` are the two sides of the checkpoint handshake. `since` is a history variable.
Clients keep to the interface: they stop using the queue before it is destroyed,
while running tasks may still dispatch more. Condition variables are modelled by
what `taskq.c` uses of them: a waiter sleeps until a signal or broadcast, then has
to take the mutex again. `cv_timedwait()` may report a timeout also after a signal,
as `condvar.c` does when `untimeout()` comes too late. A failed checkpoint is
followed by a resume, as in `common/cpr/cpr_main.c`. A queue is created again only
when the previous workers have finished exiting, which keeps the set of workers fixed.

### Callout and TimeoutSpec

One table: the chains of the lbolt hash in memory order, the structures with their
identifiers, `ct_curtime` and `ct_runtime` as machine integers that wrap. A step is a
section under `ct_lock`, so a chain changes under a thread that is in the middle of it
while the function it has called runs. Executors are threads of a task queue, whose
bounded dispatch may fail and whose result `callout_schedule_1bucket()` ignores, or
software interrupts on several CPUs, whose requests are coalesced. A checkpoint stops
the scheduling. Identifiers are reused when nobody remembers them, structures at once.
`untimeout()` is called by threads and by the called functions (`Clients`, with the thread of
each in `curthread`: that of a function is its executor), on each other's timeouts and on their
own. `TimeoutSpec` has a timeout pending, running or gone, and an `untimeout()` that returns a
time only if it has prevented the call and -1 only when the function is not running. The one
exception (`Itself`) is in the code: a function that calls `untimeout()` on itself gets -1
while it runs (`callout.c:188-198`, "Stupid, but legal"). Two functions that call it on
each other while both run wait for each other for ever, which is for their authors to avoid.

### SleepQueue, SleepQ, Semaphore, SemaSpec

`SleepQueue` is the queue that `semaphore.c` and `condvar.c` use: descending priority,
first come first served among equals. `SleepQ` is `sleepq.c` on the links it keeps
(`t_link`, `t_priforw`, `t_priback`), with the shortcuts over the sublists; two assumptions of
`MCCondVar` compare its insertion, its removal and its walks with the operators of
`SleepQueue`, for every queue of up to four threads of three priorities on two objects.
`Semaphore` has every operation, the signals that interrupt `sema_p_sig()`, and the
panic that makes waits return; `SemaSpec` conserves units.

### CondVar

One condition variable with its mutex, a predicate, waiters by all of the code's
waits, and setters that signal with or without the mutex. A waiter that comes back from an
interrupted or timed wait may look at the predicate again and consume it, or give up and leave it
as it is, as `sem.c:1130` and `msg.c:646` do (`GiveUp`). `woken` and `wasted` are history: the waiters
signalled while the predicate is true that are on their way, and that the last of them gave
up. `schedctl_block()` returns 1 after it has dropped and retaken the mutex. The callout of a timed wait is
what `TimeoutSpec` allows; its `setrun()` may come before the thread sleeps, while it
sleeps, or while it sleeps in `untimeout()` on the condition variable of the callout, in
the same sleep queue. The waiter count saturates, as in the code.

### Callb

The table as it lies in memory: the class lists and the free list share `c_next`. An
executor that slept on an entry goes on from the entry it remembers (section 6). `todo`
and `slept` are history: the functions registered since an execution began that it has not
called, and the executors that have waited for another one.

### TurnstilePI

Threads run a script of acquisitions and releases of adaptive mutexes and locks that are
handed over. Chain locks and dispatcher locks are explicit, with their addresses, because
`turnstile_interlock()` compares them: a step takes or releases at most one that others can
see. Turnstiles are donated to the object and given back, inheritance follows the
blocking chain across hash chains in either order, `turnstile_pi_waive()` gives priority
back. The actions of `mutex.c` and `rwlock.c` around it are reduced to what they call.
`OrderAssumption` says that the scripts take the objects in an order that all threads
share, as the kernel's code has to: "cycle in blocking chain" is a panic.

### UpiMutex

A step is a section under `upib_lock` up to the moment `turnstile_block()` drops it, or
one access to user memory, which may fault. A thread that was handed a mutex finds out by
`lwp_upimutex_owned()`, which looks the mutex up by its address and says no where it has been
unmapped (`NotOwned`; the lookup at the start of a call fails with `EFAULT` before anything
is changed, and is left out). The nesting limit is not for the super-user (`Suser`). Signals, also ones that turn out to need no
action, deaths of owners and the exit of the process come at any time. `stray` and `unsafe`
are history: mutexes handed over to a thread about to return `EDEADLK` or that finds them unmapped,
and mutexes whose owner died. `mutex_flag` and
`uflag` are the sets of flags in user memory and those a thread has read. A cycle is
noticed only while priority is inherited along it (`MayNotice`, `MustNotice`).

### SpinLock

A context is what runs on a CPU at a level: a thread, or the handler that has interrupted
it. A step is one access to the lock byte, to the level saved with it or to `%pil`. Thread
locks are the same primitive with a pointer that the holder changes.

### CyclicSoft

One CPU. What runs at `CY_HIGH_LEVEL` (an expiration, the cross calls of an add, a remove
and a resize) is one step; `cyclic_softint()` is split at every access to what it shares,
at two soft levels that interleave. Two arrays and two buffers per level exist during a
resize; what is freed has size 0. `owed` counts the expirations whose handler has not
returned.

## 3. Runs

| Run | Instance | Properties | Shows |
|---|---|---|---|
| `rwlock` | 3 threads, 2 changing priorities | `IInv`, `BlockedForCause`, `ImplementsRwSpec`, `NoStarvation` | the word, the turnstile and the threads inside agree, every step is one of `RwSpec`, and the wakeup policy meets its five requirements at once |
| `mutex` | 3 threads, 2 CPUs | `IInv`, `NoMissedWakeup`, `SleeperWoken` | exclusion, and no order of the accesses of exit and enter loses a wakeup |
| `taskq` | 3 workers, 1 client, 3 tasks, `minalloc` and `maxalloc` 1, checkpoints | `Inv`, `WorkConserving`, `StoppedWhileSuspended`, `WaitReturnsAfterTasks` | accounting, no missed wakeup, the promise of `taskq_wait()`, who is stopped stays stopped |
| `taskq_single` | 1 worker, 1 client, 3 tasks, checkpoints | `InOrderIfSingle`, `TaskExecuted`, `DestroyTerminates` | execution order; tasks run and the queue is destroyed in spite of checkpoints |
| `callout` | 2 structures, 2 executors and the functions they call, 1 thread, 2 chains, time modulo 8, both kinds of table | `Inv`, `NothingSkipped`, `DispatchSucceedsOrNeedless`, `KeepsPromise` | nothing skipped, doubled or early; `TimeoutSpec`; the ignored dispatch is harmless |
| `semaphore` | 3 threads, 2 of them interruptible, 2 units, 2 priorities, panic | `Inv`, `KeepsPromise`, `SignalEndsSleep` | no wakeup and no signal lost; `SemaSpec` with its fairness |
| `condvar` | 2 waiters by every kind of wait, 1 setter, a counter up to 2 | `Inv`, `NoLostWakeup`, `TimeoutNotMissed` | no wakeup slips in between (one spent on a waiter that gives up is the exception), no signal or timeout is lost, past the saturation of the counter |
| `callb` | 2 clients, 2 executors, 2 entries, 2 classes | `Inv`, `EveryCallbackCalled`, `WaitsEnd` | lists exact, nobody passed over or deleted while running, waits end |
| `turnstile` | 4 threads in a chain, 3 objects on 2 hash chains, one of them handed over | `TurnstilesRight`, `LocksHeldToWill`, `NoInversion` | locks held to will, no inversion left, priority given back, no deadlock |
| `upi_mutex` | 3 threads, one of the super-user, 2 mutexes in any order, signals, faults, 2 deaths | `UpiConsistent`, `KernelAndUserAgree`, `OwnerDeathSeen` | kernel and program agree on the owner of every mutex that has not gone astray, one that has stays with an owner that does not know, nobody is forgotten, a dead owner is noticed |
| `spin_lock` | 2 CPUs, one with interrupts, 2 nested mutexes, 2 dispatcher locks | `Inv`, `NoSelfDeadlock`, `ThreadLockRight` | no self-deadlock, levels restored, the lock held is the thread's |
| `cyclic_softint` | 2 cyclics, 2 soft levels, arrays that grow from 1 to 2, counts up to 2 | `CyclicsRight`, `RemovedIsOver`, `EventuallyHandled` | calls match expirations through removals and a resize, and come in the end |

### Bounds, and why they are enough

* Readers/writer lock: three threads are one inside and a waiter on either queue, or two
  on one; two priorities decide every comparison the code makes. The proofs remove the
  bound for all but `NoStarvation`.
* Mutex: the protocol involves an owner, a thread about to block and a third that
  interferes with either; with two CPUs one of the three is always off CPU and the
  owner migrates. The proofs remove the bound for all but `SleeperWoken`.
* Task queues: three workers are one that takes a task, one that is woken for it in
  vain and one asleep; `MaxTasks` bounds the tasks scheduled between a creation and
  the next destruction, so the runs have no bound in depth. `minalloc` and
  `maxalloc` are small enough that both limits are met.
* Callouts: two chains hold callouts of different and of wrapped times in one chain;
  `MaxLag` lets the execution fall behind the clock by a tick (two ticks,
  with time modulo 10, were checked as well and take longer), `MaxDelta` is the longest
  delay; together they are less than half of `TimeMod`, which is even as that of a
  machine integer, so that a difference has the right sign. Two executors, the
  functions they call and a thread, each of which calls `timeout()` and `untimeout()`, meet in one chain.
* Semaphore: three waiters are the one that is woken, the one that is interrupted at that
  moment, and the one that must not be forgotten.
* Condition variable: two waiters are the one that is woken and the one that leaves on its
  own, or gives up, at that moment; the counter saturates at 2. Times are relative, so a wait of one
  tick meets every order of tick, timeout and wakeup.
* `Callb`: as many entries as clients, so that entries are reused while remembered.
* `TurnstilePI`: a chain of four is the shortest that crosses the hash chains in both
  directions at once, and three threads for one object the least for donated turnstiles.
  Scripts run once (`Script` is a bound); priorities do not change otherwise.
* `UpiMutex`: two mutexes make a cycle and exceed a nesting limit of 1; three threads make
  a waiter that is passed over. The thread that signals interrupt is also the one that meets
  faults and unmapped mutexes, so that all three come together.
* `SpinLock`: one CPU takes interrupts, whose handlers use the same locks.
* The proofs of section 5 remove the bounds on threads, objects, structures, sizes and times
  for the safety properties of all the models; the runs remain for liveness, deadlock and the
  reachability of every action. What is a bound of the model itself stays: a script is run
  once, `MaxLag` and `MaxPend` limit how far the clock gets ahead, by any number.
* `CyclicSoft`: `MaxPend` 2 tells "one more" from "some", `Wrap` is twice the size of
  the buffer, so that indexes wrap and full and empty differ. `Sizes` are the powers of
  two between the first and the largest size. One resize: a second one
  starts only when the first is over, from a state that `OldIsUnused` describes. The
  run does not check deadlock: after what section 6 says of it a removal waits
  for ever, and that is a state in which the system really stops.
* `Semaphore`: no check of deadlock either, since threads may all wait for a unit that
  nobody is going to release.

Symmetry is used for safety only.

### Fairness, and why the code justifies it

* `RwLock!FairSpec`: weak fairness of a thread's progress inside the lock code (a
  thread that can run is run) and of leaving (a holder eventually calls `rw_exit()`).
  Behaviours in which priorities change for ever are excepted in the property.
* `AdaptiveMutex!MutexFairSpec`: an idle CPU is given to a runnable thread, a thread that is
  on a CPU again and again makes a step, also out of the critical region of
  `mutex_exit()`: interrupts do not hit the same two instructions for ever. Owners leave.
* `TaskQ!FairSpec`: threads run; task functions return and suspenders resume; a
  worker that competes for `tq_threadlock` gets it, which is `NoStarvation` of
  `RwLock`; a checkpoint ends, and the next does not always come before a worker
  that was stopped has moved.
* `Semaphore!FairSpec`, `Callb!FairSpec`: threads that can run do; nobody has to call
  anything, but who has locked the callback table unlocks it.
* `CyclicSoft!CyclicFairSpec`: posted soft interrupts come and handlers return. `EventuallyHandled`
  assumes that expirations come to an end and that none was left behind by a resize
  (`Slack`; section 6): a handler slower than its interval
  starves its level, which the code does not exclude.
* `Callout`, `CondVar`, `UpiMutex`, `TurnstilePI` and the run `taskq` are checked for safety only,
  `TurnstilePI` and `UpiMutex` for deadlock too. That following a blocking chain ends is not among the
  properties: it does not (section 6, `ChainFollowed`).
  `SpinLock` has no fairness: spin locks are unfair, so who waits may wait for ever.

## 4. Properties

Each module but `RwLock` and `AdaptiveMutex` has an invariant `Inv` (`UpiConsistent` in
`UpiMutex`, `CyclicsRight` in `CyclicSoft`, `TurnstilesRight` in `TurnstilePI`) that joins the
type invariant with named parts, each of which says what the code's data is worth to the code
that reads it; in `RwLock` and `AdaptiveMutex` this is the inductive `IInv`.

* *Nobody sleeps without somebody bound to wake it*: `BlockedForCause`, `NoMissedWakeup`,
  `WorkConserving`, `NoLostWakeup`, `TimeoutNotMissed`, and in the invariants `WaitersHaveCause`,
  `HandshakeHasCause`, `WaitersWillBeWoken`, `NoMissedSignal`.
* *What was read still holds when it is used*: `LocksHeldToWill`, `ThreadLockRight`,
  `NoSelfDeadlock`, `NothingSkipped`, `EveryCallbackCalled`, `WaitReturnsAfterTasks`, in the
  invariants `LevelRestored`, `ZeroHasCause`, `OldIsUnused`.
* *What is handed on is neither lost nor doubled*: `KernelAndUserAgree`, `OwnerDeathSeen`,
  `RemovedIsOver`, in the invariants `NallocExact`, `TurnstilesAccounted`, `PriorityReturned`,
  `OneToOne`, `EnqueuedOnce`, `ListsExact`.
* *The races do not show*: `ImplementsRwSpec` and the two `KeepsPromise` are refinements.
* *It ends*: `NoStarvation`, `SleeperWoken`, `TaskExecuted`, `DestroyTerminates`, `SignalEndsSleep`,
  `WaitsEnd`, `EventuallyHandled`, and the fairness in `SemaSpec`.

Every property of a passing run has a mutant: a plausible mistake in the code, kept
next to the definition it replaces and marked "Mutant", that violates it.

## 5. What is proved

Eight modules hold theorems, all checked by TLAPS for every value of the constants. The
assumptions are those of the modules, which TLC evaluates on every run: `Null` and the
like are nobody, sets of threads are finite where the code counts them, priorities and
levels are numbers, limits are positive. Two say more: the signed comparison of times needs
delays of less than half the range of the clock (`TimeAssumption` of `Callout`), and threads
take locks in one order (`OrderAssumption` of `TurnstilePI`). None bounds the number of threads,
CPUs, locks, structures, tasks, units or ticks.

Each proof has the same form. The properties are not inductive alone; an invariant adds
what relates the places of the threads in the code to the data. It was checked by TLC on the
instance of the run first, and is shown to hold initially and to be kept by every action, in a lemma
per action. The properties of the runs follow from it.

| Proof module | Inductive invariant | Theorem => property |
|---|---|---|
| `RwLockProofs` | `IInv` | `InductiveInvariant`, `NoSleepOnFreeLock` => `BlockedForCause`, `Refinement` => `ImplementsRwSpec`, and one theorem per part of `IInv` that says what the lock is for |
| `MutexProofs` | `SpinInv` of `SpinLock` | `LevelsAreRight` => `Inv`, `NoDeadlockWithInterrupted` => `NoSelfDeadlock`, `ThreadLockIsRight` => `ThreadLockRight` |
| | `IInv` of `AdaptiveMutex` | `InductiveInvariant`, `NoWakeupMissed` => `NoMissedWakeup`, and one theorem per part |
| | `UpiInv` of `UpiMutex` | `SleepersAreWoken` => `UpiConsistent`, `OwnersAreTold` => `KernelAndUserAgree`, `DeathIsSeen` => `OwnerDeathSeen` |
| `SleepLockProofs` | `SemaInv` of `Semaphore` | `NothingLost` => `Inv`, `SemaphoreRefinement` => the safety part of `KeepsPromise` |
| | `TsInv` of `TurnstilePI` | `TurnstilesAreRight` => `TurnstilesRight`, `LocksAreHeldToWill` => `LocksHeldToWill`, `NoInversionIsLeft` => `NoInversion` |
| `CondVarProofs` | `CvInv` | `CountersAndTimeoutsRight` => `Inv`, `NoWakeupLost` => `NoLostWakeup`, `NoTimeoutMissed` => `TimeoutNotMissed` |
| `TaskQProofs` | `TaskqInv` | `BookkeepingIsRight` => `Inv`, `NoWorkerForgotten` => `WorkConserving`, `SuspendedIsStopped` => `StoppedWhileSuspended`, `SingleThreadInOrder` => `InOrderIfSingle`, `WaitIsForAll` => `WaitReturnsAfterTasks` |
| `ClockProofs` | `CoInv` of `Callout` | `TableConsistent` => `Inv`, `NothingIsSkipped` => `NothingSkipped`, `FailedDispatchIsNeedless` => `DispatchSucceedsOrNeedless`, `CalloutRefinement` => `KeepsPromise` |
| | `CyInv` of `CyclicSoft` | `CyclicsAreRight` => `CyclicsRight`, `NothingAfterRemoval` => `RemovedIsOver` |
| `CallbProofs` | `CbInv` | `TableIsRight` => `Inv`, `NobodyPassedOver` => `EveryCallbackCalled` |
| `SleepQueueTheorems` | | lemmas on the queues of `SleepQueue`, used by `SleepLockProofs` and `CondVarProofs` |

Along which arguments:

* `RwLock`. `IInv` adds that a queue
  lists exactly the threads asleep on it (`QueueInv`), that the chain lock is held
  by who is between taking and dropping it (`ChainInv`), that the bits announce the sleepers
  and the thread about to sleep (`BitsInv`), that a lock no writer claims has
  waiters only while a downgrade is going to wake them (`DowngradeInv`), and that a thread
  in its final exit is alone (`ExitInv`). From it follow `TypeOK`,
  `MutualExclusion`, `HoldCountExact`, `WaitersBitsExact`, `BlockedForCause`,
  `HandoffHasTarget`, `FinalExitIsFinal` and `KpriBalanced`. The lemmas are about
  queues: what an insertion, a removal and a wakeup of the first *n* do to the
  threads on a queue and to the count. `Refinement`: every step is a step of `RwSpec` or
  a stutter.
* `AdaptiveMutex`. The heart of `IInv` is `WipeInv`: an owner that is about to clear
  the word with the waiters bit set has not left its CPU since it loaded the word
  without the bit (`CPUInv`, by the restart of `mutex_exit()`), so its CPU is among
  those the blocking thread has yet to look at, and once all are looked at there is
  no such owner. `RecheckInv` carries this to the moment of blocking,
  `ChainInv` keeps a second thread out of the same window. From it follow exclusion,
  `UnownedIsFree`, `BlocksOnOwned` and `NoMissedWakeup`.
* `SpinLock`. `SpinInv` says at which level each context runs at each place in the code, and
  that the level saved in a mutex is the one its holder has to go back to, although the
  next holder overwrites it: contexts on one CPU are nested by their levels, and who holds a mutex runs
  at its level, so that it is not interrupted by anybody who wants it. A thread's
  lock is the one in `t_lockp` as long as it is held, because only its holder moves the pointer.
* `Sleep queues`. An insertion, a removal, the wakeup of the first and of all on an object change
  exactly who is on the queue, name nobody twice and keep the order of priorities.
* `Semaphore`. The units that are free and waited for are at most as many as the threads
  that were woken and are on their way; a woken thread that leaves because of a signal
  passes the wakeup on. `SemaphoreRefinement` maps the steps to those of `SemaSpec`.
* `CondVar`. The queue and `t_wchan` agree, a counter is exact or at its limit, so that 0 may be
  trusted without the lock. The mutex is held from the test to the sleep (`MutexRight`), so a setter
  comes before the test or finds the waiter counted. Who was signalled while the predicate is true does
  not sleep again before it has tested it (`WakeupSeen`): it consumes the predicate, or it gives up, and
  `wasted` says that it was the last. A callout is never due before `tim`
  (`CalloutsRight`), so it has not gone off while there is time left, and the second look
  at `lbolt` catches the one that has.
* `UpiMutex`. Who is on which turnstile, which mutexes are on whose list, and what a thread will
  find out on its way back from the kernel (`OwnersKnow`, `ListsTold`); a mutex that went astray is on
  nobody's list and its owner does not wait for it any more (`StrayRight`), so that
  nothing in the kernel gives it up; and while the
  data of a mutex may be inconsistent, its flag in user memory says so (`DeathRecorded`).
* `TaskQ`. Every task structure is on the free list, on the queue or with one thread (`NallocExact` counts
  them); workers signalled and not yet running count for `WorkConserving`; tasks are taken in
  their order (`InOrder`); the handshake's two sides agree (`EventsRight`, `CprRight`).
  `WaitIsForAll` is an action property: it relates the state in which `taskq_wait()` returns
  to the one in which it was called.
* `Callout`. A structure is once on the chain of its run time, on the free list, or in the hands of
  one thread; an identifier names one timeout (`IdsRight`). Run times lie in a
  window around the clock that is less than half its range, so that signed differences order them
  also where they wrap (`TimesRight`, `ClockRight`). The heart is `WalkRight`: an executor
  that executes a timeout at `ct_runtime` has left nothing to be executed at that time behind it
  on the chain, although others have executed, added and cancelled meanwhile. A task
  structure is free, queued, or with one of the threads (`TasksRight`); there are more of them
  than threads, so a dispatch fails only when a task that no thread has taken is queued. `CalloutRefinement` maps the steps to those of `TimeoutSpec`: whether a
  timeout is pending, running or gone can be read off its structure and its executor.
* `Callb`. What is on a list is the least set closed under `c_next`, which first-order logic
  cannot say: instead no set of entries is linked in itself (`Linked`), and every list is closed
  and disjoint from the others. A client has one entry, in the place its program counter
  says (`ClientsRight`). An executor's entry is on the list of its class, and who is still to be
  called is on the list from there on, unless it slept and the entry was freed (`ExecutorsRight`).
* `CyclicSoft`. Between `cypc_prodndx` and `cypc_consndx`, modulo `Wrap`, lie valid indexes of cyclics
  with a pending count, each at most once (`EntriesValid`, `EntriesOnce`): there
  are no more entries than cyclics, so by counting the producer never overtakes the
  consumer. `Phases` says what state the CPU is in at each step of an operation; `SoftRight`
  which buffer and which array a softint has in its hands, and when they may be
  the old ones; `ResizeRight` that each level reports its change to the new
  buffer once, and that the last one wakes the resizer once. `OwedRight` relates the pending count
  (or `cyp_rpend`) to the expirations not yet handled, also for a handler that has been
  called and not yet been counted off.
* `TurnstilePI`. Who sleeps releases nothing, so the chain of sleepers that a thread has followed
  stays as long as the last of them sleeps, which is locked (`WalkRight`); objects
  along it go up in the common order, so it does not come back to who follows it. `TsInv` says
  why the owner that a sleeper waits for has the sleeper's priority (`PriorityRight`): the
  sleeper is being woken, its turnstile has willed the priority (`Covered`), or some thread
  is on its way to it along sleepers each of which has more priority than its owner (`Bound`) -
  for a thread that lost its locks in the interlock, from the beginning of the chain. `EpriRight` has
  the inherited priority exact, the best of the turnstiles inherited from, which is what
  `turnstile_pi_waive()` must leave.

Only model-checked, and why:

* Liveness: `NoStarvation`, `SleeperWoken`, `TaskExecuted`, `DestroyTerminates`, `SignalEndsSleep`,
  `WaitsEnd`, `EventuallyHandled`, and the fairness that `KeepsPromise` of
  `Semaphore` includes. Fairness is out of the prover's reach.
* What `SleepQ`'s walks compute for queues of any length would need induction over data.

## 6. Observations

Where the code does not do what one of its comments says, or what a caller would expect. Each was found with TLC; the
properties are kept in the modules, next to what does hold and is checked by the runs.

| Property | What TLC shows | Constants |
|---|---|---|
| `TaskQ!PopulationLimit` | `task_alloc()` compares `tq_nalloc` with `tq_maxalloc` without `tq_lock` (`taskq.c:126`); two `KM_NOSLEEP` dispatchers pass the test together. The header of `taskq.c` calls the limit advisory only for `KM_SLEEP`. | 1 worker, 2 clients, `MinAlloc` 0, `KmFlags` only `KM_NOSLEEP`, no checkpoints |
| `TaskQ!LockOutlivesCallback` | `CALLB_CPR_EXIT()` drops `tq_lock` and only then deletes the callback (`callb.h:164`). `taskq_destroy()`, woken just before, may free the queue in between, while a checkpoint executes the callback that takes `tq_lock`. | 2 workers, 1 task, checkpoints |
| `CondVar!ReturnsTimeLeft` | "Returns the amount of time left": `cv_timedwait()` returns that of the callout, which a tick between two reads of `lbolt` makes longer. | those of `condvar` |
| `CondVar!ReturnsOne` | `cv_timedwait_sig()` returns the time left where its comment says 1. | 1 waiter, `MaxWait` 2 |
| `EveryCallbackCalled` without the condition on `slept` | An executor that slept on an entry which was deleted goes on along its link, by then that of the free list (`callb.c:228-230`, `:200`): it skips the rest of the class and reports success. | those of `callb` |
| `TurnstilePI!ChainFollowed` under `TurnstileFairSpec` | "To prevent livelock we must define a winner" (`turnstile.c:289-300`): who loses in `turnstile_interlock()` drops its locks, takes and drops the lock it could not have, and starts again. A second loser may try that lock just when the first one has it so, lose by that, and do the same to the first: both start again for ever while the owner of the object they wait for just runs, even with spin locks that are strongly fair to who spins for them. | those of `turnstile` |
| `NoLostWakeup` without `wasted` | A `cv_signal()` that hits a waiter at the moment a signal or its timeout ends its wait is spent: callers such as `sem.c:1130-1137` and `msg.c:646-648` return without consuming the predicate, and `condvar.c` does not pass the wakeup on, as `semaphore.c:266-271` does. The next waiter sleeps on while the predicate is true. | those of `condvar` |
| `KernelAndUserAgree` without the condition on `stray` | A thread that found a cycle has dropped `upib_lock` and is still on the queue (`turnstile.c:485`): it may be handed the mutex, and returns `EDEADLK` as its owner, against the assertion at `lwp_sobj.c:700`. In the same way a thread that finds the mutex unmapped when it looks (`lwp_sobj.c:470-473`) returns `EINTR` or `ENOTRECOVERABLE`, or tries again and gets `EDEADLK`, as its owner. | those of `upi_mutex` |
| `UpiMutex!NotRecoverableIsTrue` | A signal that needs no action ends a wait with `ENOTRECOVERABLE` for a good mutex (`lwp_sobj.c:713`). | those of `upi_mutex` |
| `UpiMutex!NotRecoverableIsFinal` | A fault on the flag of a mutex that is not recoverable hands it to a waiter, against the assertion after `lwp_sobj.c:738`. | those of `upi_mutex` |
| `UpiMutex!CyclesReported` | The chain is followed only while there is an inversion (`turnstile.c:464`): threads of equal priority that wait for each other get no `EDEADLK`. | those of `upi_mutex` |
| `CyclicSoft!PendingIsQueued` | `cyclic_softint()` finds its buffer empty (`cyclic.c:1033`) and then looks for a new one (`:1155`). A cyclic that expires between these two looks, followed by the cross call of a resize, is left in the old buffer: it is never handled again, and its removal waits for ever with `cpu_lock` held. | those of `cyclic_softint` |

## 7. Plan

Done: models of the primitives down to the buffers of the cyclic subsystem, with
abstract specifications for readers/writer locks, timeouts and semaphores; proofs of every
safety property that a run checks, and of the three refinements. What is left, in this order:

1. Proofs: an abstract mutex that `AdaptiveMutex` and `SpinLock` implement; `UpiMutex` and
   `TurnstilePI` as one model, with the priority that an interrupted waiter leaves behind.
2. Models: the heap of the cyclic subsystem and the moves between CPUs, the other locks of
   `lwp_sobj.c`, the run queues of the dispatcher, then doors.

## 8. What is not modelled

Misuse that the code answers with a panic (recursive entry, exit by a non-owner,
destruction of a held lock), `panicstr` (locks do nothing while the system
panics), lockstat and statistics, `rw_destroy`/`mutex_destroy`, the 32-bit and x86
variants of the assembly, `cpu_base_spl` other than 0 (the level that a blocked interrupt
thread leaves on its CPU), the heap of the cyclic subsystem with the order of firing,
moves between CPUs, suspend and resume, weak memory order beyond what the `membar`s
leave (the models are sequentially consistent), `TASKQ_CPR_SAFE` queues (never stopped nor
destroyed). File systems, virtual memory, STREAMS, networking, drivers, the
allocator, process management, commands and libraries are listed in `PROJECT.json`
with the reason.
