------------------------------- MODULE Callout -------------------------------
(***************************************************************************)
(* Callouts of the Solaris kernel: uts/common/os/callout.c.                *)
(*                                                                         *)
(* One callout table; the clock, which counts lbolt and schedules the      *)
(* execution of what is due; the threads that execute it, of a task queue  *)
(* (normal callouts, uts/common/os/taskq.c) or software interrupts         *)
(* (realtime callouts, uts/common/os/softint.c); the callers of timeout()  *)
(* and untimeout(), each a thread of its own or the function that an       *)
(* executor has called.                                                    *)
(*                                                                         *)
(* A step is one section under ct_lock.  Time is a machine integer that    *)
(* wraps.  The ID hash always holds what the lbolt hash holds, and a       *)
(* search in it finds at most one structure, so it is not a variable.      *)
(* Identifiers come from a counter that wraps; callo.h assumes that this   *)
(* takes long enough for an identifier not to be in use when it is issued  *)
(* again, and so does timeout_insert.                                      *)
(***************************************************************************)
EXTENDS Integers, Sequences, FiniteSets, FiniteSetsExt

CONSTANTS
  Structs,    \* callout structures; bound: callout_alloc() finds no others
  Ids,        \* callout identifiers
  Clients,    \* who calls timeout() and untimeout()
  Executors,  \* threads of the task queue, or CPUs that take softints
  curthread,  \* the thread of each client: an executor, for a function it calls
  Null,       \* no thread, structure or identifier
  Deltas,     \* the delays callers ask for
  MaxDelta,   \* the longest of them
  Buckets,    \* CALLOUT_BUCKETS
  TimeMod,    \* clock_t has this many values
  MaxLag,     \* bound: ticks that the execution of callouts may be behind
  Checkpoints \* whether callouts are stopped by checkpoints

Threads == Clients \cup Executors
Time == 0 .. TimeMod - 1

ASSUME ThreadsAssumption ==
  /\ IsFiniteSet(Executors) /\ Executors # {} /\ Clients \cap Executors = {}
  /\ Null \notin Threads \cup Structs \cup Ids \cup Int
  /\ Executors \cap {"idle", "pending"} = {} /\ curthread \in [Clients -> Threads]
  /\ \A c \in Clients : curthread[c] = c \/ curthread[c] \in Executors

\* A machine integer has an even number of values, so that what is ahead of the
\* clock and what is behind it are told apart by the sign of the difference.
ASSUME TimeAssumption ==
  /\ Deltas \subseteq Int /\ MaxDelta \in Nat \ {0} /\ \A d \in Deltas : d <= MaxDelta
  /\ Buckets \in Nat \ {0} /\ TimeMod \in Nat /\ TimeMod % Buckets = 0 /\ TimeMod % 2 = 0
  /\ MaxLag \in Nat /\ 2 * (MaxLag + MaxDelta) < TimeMod
ASSUME FlagsAssumption == Checkpoints \in BOOLEAN

VARIABLES
  lbolt,            \* ticks since boot
  clock,            \* where the clock thread is
  cpr_stop_callout,
  ct_curtime,
  ct_runtime,
  ct_lbhash,        \* the chains of structures, by run time
  ct_freelist,
  callout,          \* the fields of each structure
  tq_task,          \* callout_execute() tasks or softcalls that are queued
  tq_freelist,      \* free task structures; Null: ct_taskq is NULL
  cp,               \* the structure a thread executes or waits for
  runtime,          \* local of callout_execute()
  id,               \* argument of untimeout()
  delta,            \* argument of timeout(), while it allocates
  pc                \* where each thread is in the code

table == <<ct_lbhash, ct_freelist, callout>>
times == <<ct_curtime, ct_runtime>>
ticks == <<lbolt, clock, cpr_stop_callout>>
tasks == <<tq_task, tq_freelist>>
locals == <<cp, runtime, id, delta>>
vars == <<ticks, times, table, tasks, locals, pc>>

\* Mutant: one structure for each thread.
TaskStructs_one == Cardinality(Executors)

\* 2 * CALLOUT_THREADS structures are prepopulated: callout_init().
TaskStructs == 2 * Cardinality(Executors)

\* A structure that is on the free list or not allocated yet.  Its fields
\* are not read before timeout_common() sets them.
FreeStruct == [c_xid |-> Null, executing |-> FALSE, c_runtime |-> 0, c_executor |-> Null]

\* The table of realtime callouts has no task queue.
Realtime == tq_freelist = Null

\* callout_init(), shortly before the clock wraps.
Init ==
  /\ lbolt = TimeMod - 2 /\ clock = "tick" /\ cpr_stop_callout = FALSE
  /\ ct_curtime = lbolt /\ ct_runtime = lbolt
  /\ ct_lbhash = [b \in 0 .. Buckets - 1 |-> <<>>]
  /\ ct_freelist = {}
  /\ callout = [s \in Structs |-> FreeStruct]
  /\ tq_task = 0 /\ tq_freelist \in {TaskStructs, Null}
  /\ cp = [t \in Threads |-> Null]
  /\ runtime = [e \in Executors |-> 0]
  /\ id = [c \in Clients |-> Null]
  /\ delta = [c \in Clients |-> Null]
  /\ pc = [t \in Threads |-> "idle"]

-----------------------------------------------------------------------------
(* Time, chains                                                            *)

\* The signed difference of two clock values, and their sum.
Minus(a, b) == LET d == (a - b) % TimeMod IN IF d < TimeMod \div 2 THEN d ELSE d - TimeMod
Plus(a, b) == (a + b) % TimeMod

CALLOUT_LBHASH(r) == r % Buckets
Chained == {s \in Structs : callout[s].c_xid # Null}

\* The places in a chain of what is to be executed at time r.
Due(co, chain, r) ==
  {i \in 1 .. Len(chain) : co[chain[i]].c_runtime = r /\ ~co[chain[i]].executing}

\* Where a loop over run times from "from" to "limit" stops: at the first
\* that has a callout to execute, or past the limit.
FirstDue(co, hash, from, limit) ==
  LET found == {d \in 0 .. Minus(limit, from) :
                  LET r == Plus(from, d) IN Due(co, hash[CALLOUT_LBHASH(r)], r) # {}}
  IN  IF found # {} THEN Plus(from, Min(found))
      ELSE IF Minus(limit, from) < 0 THEN from ELSE Plus(limit, 1)

\* The chain that s is on, and its place there.
ChainOf(s) == ct_lbhash[CALLOUT_LBHASH(callout[s].c_runtime)]
Place(s) == CHOOSE i \in 1 .. Len(ChainOf(s)) : ChainOf(s)[i] = s

\* CALLOUT_HASH_DELETE of both hashes, and the structure's way to the free list.
Without(chain, p) == [i \in 1 .. Len(chain) - 1 |-> IF i < p THEN chain[i] ELSE chain[i + 1]]
Unlink(s) ==
  [ct_lbhash EXCEPT ![CALLOUT_LBHASH(callout[s].c_runtime)] = Without(ChainOf(s), Place(s))]

\* What is due at time r of what follows s on its chain (c_lbnext).
Rest(co, s, r) == {i \in Due(co, ChainOf(s), r) : i > Place(s)}

-----------------------------------------------------------------------------
(* timeout()                                                               *)

\* Who may call timeout() or untimeout(): a thread that is not in one of them,
\* and a function while it runs.
Outside(c) == delta[c] = Null /\ pc[c] = "idle"
MayCall(c) == Outside(c) /\ (curthread[c] \in Executors => pc[curthread[c]] = "func")

\* Identifiers in use.  One that is in neither place is not found by
\* untimeout(), so who else remembers it does not matter.
InUse == {callout[s].c_xid : s \in Chained} \cup {id[c] : c \in Clients}
Allocating == {c \in Clients : delta[c] # Null}
IdsLeft == Cardinality(Ids \ InUse) > Cardinality(Allocating)
Unallocated == Structs \ (ct_freelist \cup Chained)

\* Mutant: a delay of zero or less is not rounded up.
Ticks_zero(d) == d

\* At least one tick in the future.
Ticks(d) == IF d <= 0 THEN 1 ELSE d

\* timeout_common() from the structure it has got on.
timeout_insert(s, d) ==
  LET r == Plus(lbolt, Ticks(d)) IN
  \E i \in Ids \ InUse :
    /\ callout' = [callout EXCEPT ![s] =
         [c_xid |-> i, executing |-> FALSE, c_runtime |-> r, c_executor |-> Null]]
    /\ ct_lbhash' = [ct_lbhash EXCEPT ![CALLOUT_LBHASH(r)] = <<s>> \o @]

timeout_free(c, d) ==
  /\ MayCall(c) /\ IdsLeft
  /\ \E s \in ct_freelist :
       timeout_insert(s, d) /\ ct_freelist' = ct_freelist \ {s}
  /\ UNCHANGED <<ticks, times, tasks, locals, pc>>

\* callout_alloc() drops the lock.
timeout_alloc(c, d) ==
  /\ MayCall(c) /\ IdsLeft /\ ct_freelist = {}
  /\ Cardinality(Unallocated) > Cardinality(Allocating)
  /\ delta' = [delta EXCEPT ![c] = d]
  /\ UNCHANGED <<ticks, times, table, tasks, cp, runtime, id, pc>>

callout_alloc(c) ==
  /\ delta[c] # Null
  /\ \E s \in Unallocated : timeout_insert(s, delta[c])
  /\ delta' = [delta EXCEPT ![c] = Null]
  /\ UNCHANGED <<ticks, times, ct_freelist, tasks, cp, runtime, id, pc>>

-----------------------------------------------------------------------------
(* untimeout()                                                             *)

untimeout(c, i) ==
  /\ MayCall(c)
  /\ id' = [id EXCEPT ![c] = i]
  /\ pc' = [pc EXCEPT ![c] = "untimeout"]
  /\ UNCHANGED <<ticks, times, table, tasks, cp, runtime, delta>>

Return(c) ==
  /\ pc' = [pc EXCEPT ![c] = "idle"]
  /\ id' = [id EXCEPT ![c] = Null]
  /\ cp' = [cp EXCEPT ![c] = Null]

\* The callout is found, and not executing: the time left is returned.
untimeout_pending(c) ==
  /\ pc[c] = "untimeout"
  /\ \E s \in Chained :
       /\ callout[s].c_xid = id[c] /\ ~callout[s].executing
       /\ ct_lbhash' = Unlink(s)
       /\ callout' = [callout EXCEPT ![s] = FreeStruct]
       /\ ct_freelist' = ct_freelist \cup {s}
  /\ Return(c)
  /\ UNCHANGED <<ticks, times, tasks, runtime, delta>>

\* Mutant: -1 is returned at once when the callout is executing.
untimeout_executing_hasty(c) ==
  /\ pc[c] = "untimeout"
  /\ \E s \in Chained : callout[s].c_xid = id[c] /\ callout[s].executing
  /\ Return(c)
  /\ UNCHANGED <<ticks, times, table, tasks, runtime, delta>>

\* The callout is executing, and another thread executes it: wait on c_done.
untimeout_executing(c) ==
  /\ pc[c] = "untimeout"
  /\ \E s \in Chained :
       /\ callout[s].c_xid = id[c] /\ callout[s].executing
       /\ callout[s].c_executor # curthread[c]
       /\ cp' = [cp EXCEPT ![c] = s]
  /\ pc' = [pc EXCEPT ![c] = "wait"]
  /\ UNCHANGED <<ticks, times, table, tasks, id, runtime, delta>>

\* The function called untimeout() on itself: it cannot wait for its own end.
untimeout_self(c) ==
  /\ pc[c] = "untimeout"
  /\ \E s \in Chained :
       /\ callout[s].c_xid = id[c] /\ callout[s].executing
       /\ callout[s].c_executor = curthread[c]
  /\ Return(c)
  /\ UNCHANGED <<ticks, times, table, tasks, runtime, delta>>

\* Not found.
untimeout_bogus(c) ==
  /\ pc[c] = "untimeout"
  /\ \A s \in Chained : callout[s].c_xid # id[c]
  /\ Return(c)
  /\ UNCHANGED <<ticks, times, table, tasks, runtime, delta>>

\* Awake again: the loop ends when c_xid has changed.
untimeout_woken(c) ==
  /\ pc[c] = "woken"
  /\ IF callout[cp[c]].c_xid = id[c] /\ callout[cp[c]].executing
     THEN pc' = [pc EXCEPT ![c] = "wait"] /\ UNCHANGED <<cp, id>>
     ELSE Return(c)
  /\ UNCHANGED <<ticks, times, table, tasks, runtime, delta>>

-----------------------------------------------------------------------------
(* callout_execute()                                                       *)

\* A thread takes the queued task, or the software interrupt comes.
callout_execute(e) ==
  /\ pc[e] = "idle" /\ tq_task > 0
  /\ tq_task' = tq_task - 1
  /\ pc' = [pc EXCEPT ![e] = "start"]
  /\ UNCHANGED <<ticks, times, table, tq_freelist, locals>>

\* Mark s as executing and call its function without the lock.
Call(e, co, s, r) ==
  /\ callout' = [co EXCEPT ![s].executing = TRUE, ![s].c_executor = e]
  /\ cp' = [cp EXCEPT ![e] = s]
  /\ runtime' = [runtime EXCEPT ![e] = r]

\* cv_broadcast() of c_done.
Awaken(s) == [t \in Threads |-> IF pc[t] = "wait" /\ cp[t] = s THEN "woken" ELSE pc[t]]

\* The outer loop, from run time "from" on; p is where the others are.
Loop(e, co, hash, from, p) ==
  LET r == FirstDue(co, hash, from, ct_curtime) IN
  /\ ct_runtime' = r
  /\ IF Minus(r, ct_curtime) <= 0
     THEN /\ LET chain == hash[CALLOUT_LBHASH(r)] IN Call(e, co, chain[Min(Due(co, chain, r))], r)
          /\ pc' = [p EXCEPT ![e] = "func"]
     ELSE /\ callout' = co
          /\ cp' = [cp EXCEPT ![e] = Null]
          /\ runtime' = [runtime EXCEPT ![e] = 0]
          /\ pc' = [p EXCEPT ![e] = "end"]

execute_start(e) ==
  /\ pc[e] = "start"
  /\ Loop(e, callout, ct_lbhash, ct_runtime, pc)
  /\ UNCHANGED <<ticks, ct_curtime, ct_lbhash, ct_freelist, tasks, id, delta>>

\* The function that e has called is in neither timeout() nor untimeout().
Returning(e) == pc[e] = "func" /\ \A c \in Clients : curthread[c] = e => Outside(c)

\* Mutant: the waiters are not woken.
execute_return_silent(e) ==
  /\ Returning(e)
  /\ LET s == cp[e]
         r == runtime[e]
         co == [callout EXCEPT ![s] = FreeStruct]
         hash == Unlink(s)
         more == Rest(co, s, r)
     IN /\ ct_lbhash' = hash /\ ct_freelist' = ct_freelist \cup {s}
        /\ IF more # {}
           THEN Call(e, co, ChainOf(s)[Min(more)], r) /\ pc' = pc /\ UNCHANGED ct_runtime
           ELSE Loop(e, co, hash, IF ct_runtime = r THEN Plus(r, 1) ELSE ct_runtime, pc)
  /\ UNCHANGED <<ticks, ct_curtime, tasks, id, delta>>

\* The function returns.  Its callout is deleted, freed and announced as
\* done; the inner loop goes on where it left off, then the outer loop.
execute_return(e) ==
  /\ Returning(e)
  /\ LET s == cp[e]
         r == runtime[e]
         co == [callout EXCEPT ![s] = FreeStruct]
         hash == Unlink(s)
         more == Rest(co, s, r)
     IN /\ ct_lbhash' = hash /\ ct_freelist' = ct_freelist \cup {s}
        /\ IF more # {}
           THEN Call(e, co, ChainOf(s)[Min(more)], r) /\ pc' = Awaken(s) /\ UNCHANGED ct_runtime
           ELSE Loop(e, co, hash, IF ct_runtime = r THEN Plus(r, 1) ELSE ct_runtime,
                     Awaken(s))
  /\ UNCHANGED <<ticks, ct_curtime, tasks, id, delta>>

\* callout_execute() has returned: task_free(), or the end of the interrupt.
execute_end(e) ==
  /\ pc[e] = "end"
  /\ tq_freelist' = IF Realtime THEN tq_freelist ELSE tq_freelist + 1
  /\ pc' = [pc EXCEPT ![e] = "idle"]
  /\ UNCHANGED <<ticks, times, table, tq_task, locals>>

-----------------------------------------------------------------------------
(* clock() and callout_schedule()                                          *)

\* Bound: time stands still while the table or a function that runs is late
\* by MaxLag ticks (on the real machine, half of the range of clock_t).
Late ==
  \/ Minus(lbolt, ct_runtime) >= MaxLag
  \/ \E s \in Chained : callout[s].executing /\ Minus(lbolt, callout[s].c_runtime) > MaxLag

clock_tick ==
  /\ clock = "tick"
  /\ lbolt' = IF Late THEN lbolt ELSE Plus(lbolt, 1)
  /\ clock' = "schedule"
  /\ UNCHANGED <<cpr_stop_callout, times, table, tasks, locals, pc>>

\* callout_schedule_1() as far as it holds the lock.
callout_schedule ==
  /\ clock = "schedule"
  /\ IF cpr_stop_callout
     THEN clock' = "tick" /\ UNCHANGED times
     ELSE LET r == FirstDue(callout, ct_lbhash, ct_runtime, lbolt) IN
          /\ ct_curtime' = lbolt /\ ct_runtime' = r
          /\ clock' = IF Minus(r, lbolt) <= 0 THEN "dispatch" ELSE "tick"
  /\ UNCHANGED <<lbolt, cpr_stop_callout, table, tasks, locals, pc>>

\* taskq_dispatch() with KM_NOSLEEP, whose result is ignored: without a free
\* structure it does nothing.  softcall() coalesces identical calls.
schedule_dispatch ==
  /\ clock = "dispatch"
  /\ IF Realtime THEN tq_task' = 1 /\ UNCHANGED tq_freelist
     ELSE IF tq_freelist > 0 THEN tq_task' = tq_task + 1 /\ tq_freelist' = tq_freelist - 1
     ELSE UNCHANGED tasks
  /\ clock' = "tick"
  /\ UNCHANGED <<lbolt, cpr_stop_callout, times, table, locals, pc>>

\* Checkpoint and resume.
callout_cpr_callb(stop) ==
  /\ Checkpoints /\ cpr_stop_callout # stop
  /\ cpr_stop_callout' = stop
  /\ UNCHANGED <<lbolt, clock, times, table, tasks, locals, pc>>

-----------------------------------------------------------------------------
\* What a client does as it likes.
Use(c) ==
  \/ \E d \in Deltas : timeout_free(c, d) \/ timeout_alloc(c, d)
  \/ \E i \in Ids : untimeout(c, i)

\* What it does on its own once it is in the code.
Progress(c) ==
  \/ callout_alloc(c)
  \/ untimeout_pending(c) \/ untimeout_executing(c) \/ untimeout_self(c)
  \/ untimeout_bogus(c) \/ untimeout_woken(c)

Execute(e) == callout_execute(e) \/ execute_start(e) \/ execute_return(e) \/ execute_end(e)

Clock == clock_tick \/ callout_schedule \/ schedule_dispatch

Next ==
  \/ \E c \in Clients : Use(c) \/ Progress(c)
  \/ \E e \in Executors : Execute(e)
  \/ Clock
  \/ \E stop \in BOOLEAN : callout_cpr_callb(stop)

Spec == Init /\ [][Next]_vars

-----------------------------------------------------------------------------
(* Properties                                                              *)

\* The fields have the values the code gives them.
TypeOK ==
  /\ lbolt \in Time /\ ct_curtime \in Time /\ ct_runtime \in Time
  /\ clock \in {"tick", "schedule", "dispatch"} /\ cpr_stop_callout \in BOOLEAN
  /\ ct_lbhash \in [0 .. Buckets - 1 -> Seq(Structs)]
  /\ ct_freelist \subseteq Structs
  /\ callout \in [Structs -> [c_xid : Ids \cup {Null}, executing : BOOLEAN,
                              c_runtime : Time, c_executor : Executors \cup {Null}]]
  /\ tq_task \in 0 .. TaskStructs /\ tq_freelist \in 0 .. TaskStructs \cup {Null}
  /\ cp \in [Threads -> Structs \cup {Null}]
  /\ runtime \in [Executors -> Time] /\ id \in [Clients -> Ids \cup {Null}]
  /\ delta \in [Clients -> Deltas \cup {Null}]
  /\ pc \in [Threads -> {"idle", "untimeout", "wait", "woken", "start", "func", "end"}]

\* Each structure in use is once on the chain of its run time, and a free one
\* on none, although executors insert, delete and walk in the middle.
ChainsExact ==
  /\ \A b \in 0 .. Buckets - 1 :
       /\ \A i, j \in 1 .. Len(ct_lbhash[b]) : i # j => ct_lbhash[b][i] # ct_lbhash[b][j]
       /\ {ct_lbhash[b][i] : i \in 1 .. Len(ct_lbhash[b])} =
          {s \in Chained : CALLOUT_LBHASH(callout[s].c_runtime) = b}
  /\ ct_freelist \cap Chained = {}

\* A function is called by one thread, and not before its time, also when the
\* clock wraps in between.
NeverEarly ==
  \A s \in Chained : callout[s].executing =>
    /\ Minus(callout[s].c_runtime, lbolt) <= 0
    /\ {e \in Executors : cp[e] = s} = {callout[s].c_executor}

\* Nobody sleeps in untimeout() for a callout that has finished, although the
\* structure may be in use again, and no function for its own end.
WaitersHaveCause ==
  \A c \in Clients : pc[c] = "wait" =>
    /\ callout[cp[c]].c_xid = id[c] /\ callout[cp[c]].executing
    /\ callout[cp[c]].c_executor # curthread[c]

\* The table is consistent at every moment that ct_lock is free.
Inv == TypeOK /\ ChainsExact /\ NeverEarly /\ WaitersHaveCause

\* The claim of callout_execute() that it may pick up where it left off: no
\* callout that nobody is executing is left behind by ct_runtime, where no
\* loop would come to it until the clock wraps.
NothingSkipped ==
  \A s \in Chained : callout[s].executing \/ Minus(callout[s].c_runtime, ct_runtime) >= 0

\* The reason callout_init() gives for ignoring the result of
\* taskq_dispatch(): when it fails, an execution is already scheduled.
DispatchSucceedsOrNeedless ==
  clock = "dispatch" /\ ~Realtime /\ tq_freelist = 0 => tq_task > 0

\* What untimeout() and timeout() promise: a timeout runs once or is
\* prevented, and when untimeout() returns the function is not running, unless
\* it is the function itself that called.
Fate(i) ==
  LET found == {s \in Structs : callout[s].c_xid = i} IN
  IF found = {} THEN "idle"
  ELSE LET s == CHOOSE x \in found : TRUE IN
       IF callout[s].executing THEN callout[s].c_executor ELSE "pending"
fates == [i \in Ids |-> Fate(i)]
Promise == INSTANCE TimeoutSpec WITH
  Callers <- Clients, NoId <- Null, Runners <- Executors, thread <- curthread,
  fate <- fates, arg <- id
KeepsPromise == Promise!Spec
=============================================================================
