------------------------------- MODULE RwLock -------------------------------
(***************************************************************************)
(* Readers/writer locks of the Solaris kernel: uts/common/os/rwlock.c with *)
(* the fast paths of uts/sparc/v9/ml/lock_prim.s, the turnstile sleep      *)
(* queues it blocks on (os/turnstile.c) and the priority order of          *)
(* os/sleepq.c.                                                            *)
(*                                                                         *)
(* One lock and the threads that use it.  A step is one atomic access to   *)
(* the lock word (casip, atomic_add_ip, or the store made under the        *)
(* turnstile lock), or one section under the turnstile hash chain lock.    *)
(* A failed casip only repeats its loop, so a loop is the step of its      *)
(* successful casip.  Priority inheritance is not part of this module; its *)
(* only effect on a sleep queue, a sleeper whose dispatch priority is      *)
(* changed, is the action turnstile_change_pri.  panicstr is assumed NULL. *)
(***************************************************************************)
EXTENDS Integers, Sequences, FiniteSets

CONSTANTS
  Threads,      \* the kernel threads that use the lock
  NoThread,     \* NULL
  Priorities    \* the dispatch priorities a thread may have (DISP_PRIO)

ASSUME ThreadsAssumption == IsFiniteSet(Threads) /\ NoThread \notin Threads
ASSUME PrioritiesAssumption == Priorities # {} /\ Priorities \subseteq Nat

VARIABLES
  wwwh,     \* the lock word rw_wwwh, a record of its four fields
  tc_lock,  \* holder of the turnstile hash chain lock, or NoThread
  sleepq,   \* the two sleep queues of the lock's turnstile
  pri,      \* DISP_PRIO of each thread
  kpri,     \* t_kpri_req of each thread
  rw,       \* the krw_t argument of the thread's operation in progress
  pc        \* where each thread is in the code

vars == <<wwwh, tc_lock, sleepq, pri, kpri, rw, pc>>

RW_READER == "reader"
RW_WRITER == "writer"
krw_t == {RW_READER, RW_WRITER}

(***************************************************************************)
(* The lock word: hold count (of readers), owner (the writer; owner #      *)
(* NoThread is RW_WRITE_LOCKED), write-wanted bit, waiters bit.            *)
(***************************************************************************)
rw_wwwh == [holds : Nat, owner : Threads \cup {NoThread},
            wanted : BOOLEAN, waiters : BOOLEAN]

RW_UNHELD == [holds |-> 0, owner |-> NoThread, wanted |-> FALSE,
              waiters |-> FALSE]

RW_WRITE_LOCKED(w) == w.owner # NoThread
RW_LOCKED(w) == w.holds > 0 \/ RW_WRITE_LOCKED(w)
RW_WRITE_CLAIMED(w) == RW_WRITE_LOCKED(w) \/ w.wanted

\* What keeps a thread out: the lock_busy mask of rw_enter_sleep().
lock_busy(m, w) == IF m = RW_READER THEN RW_WRITE_CLAIMED(w) ELSE RW_LOCKED(w)

\* old + lock_value and old - lock_value, for a reader or for writer t.
Grab(w, m, t) == IF m = RW_READER THEN [w EXCEPT !.holds = @ + 1]
                                  ELSE [w EXCEPT !.owner = t]
Drop(w, m) == IF m = RW_READER THEN [w EXCEPT !.holds = @ - 1]
                               ELSE [w EXCEPT !.owner = NoThread]

\* old | lock_wait: the bits a thread sets before it blocks.
lock_wait(w, m) == [w EXCEPT !.waiters = TRUE,
                             !.wanted = @ \/ m = RW_WRITER]

(***************************************************************************)
(* Sleep queues: descending dispatch priority, first come first served     *)
(* among equals.  Both sleepq_insert() and rw_readers_to_wake() walk the   *)
(* list from its head while the priority met is at least p.                *)
(***************************************************************************)
Walk(s, p) == Cardinality({i \in 1..Len(s) : \A j \in 1..i : pri[s[j]] >= p})

SpliceAt(s, k, t) ==
  [i \in 1..Len(s) + 1 |-> IF i <= k THEN s[i]
                           ELSE IF i = k + 1 THEN t ELSE s[i - 1]]

sleepq_insert(s, t) == SpliceAt(s, Walk(s, pri[t]), t)

sleepq_dequeue(s, t) ==
  LET p == CHOOSE i \in 1..Len(s) : s[i] = t
  IN  [i \in 1..Len(s) - 1 |-> IF i < p THEN s[i] ELSE s[i + 1]]

Elems(s) == {s[i] : i \in 1..Len(s)}
Front(s, n) == {s[i] : i \in 1..n}
After(s, n) == SubSeq(s, n + 1, Len(s))

readers_q == sleepq[RW_READER]
writers_q == sleepq[RW_WRITER]
ts_waiters == Len(readers_q) + Len(writers_q)

\* Mutant: the writers-always-win policy.
writers_always_win == IF writers_q = <<>> THEN Len(readers_q) ELSE 0

rw_readers_to_wake ==
  Walk(readers_q, IF writers_q = <<>> THEN -1 ELSE pri[writers_q[1]])

-----------------------------------------------------------------------------
Init ==
  /\ wwwh = RW_UNHELD
  /\ tc_lock = NoThread
  /\ sleepq = [q \in krw_t |-> <<>>]
  /\ pri \in [Threads -> Priorities]
  /\ kpri = [t \in Threads |-> 0]
  /\ rw = [t \in Threads |-> RW_READER]
  /\ pc = [t \in Threads |-> "idle"]

Goto(t, l) == pc' = [pc EXCEPT ![t] = l]

\* THREAD_KPRI_REQUEST() and THREAD_KPRI_RELEASE(), made by readers only.
KpriRequest(t, m) == kpri' = [kpri EXCEPT ![t] = IF m = RW_READER THEN @ + 1 ELSE @]
KpriRelease(t, m) == kpri' = [kpri EXCEPT ![t] = IF m = RW_READER THEN @ - 1 ELSE @]

\* The calling thread is done with the lock.
Leave(t) == /\ rw' = [rw EXCEPT ![t] = RW_READER]
            /\ Goto(t, "idle")

-----------------------------------------------------------------------------
(* rw_enter(), rw_enter_sleep() and rw_tryenter()                          *)

rw_enter(t, m) ==
  /\ pc[t] = "idle"
  /\ rw' = [rw EXCEPT ![t] = m]
  /\ KpriRequest(t, m)
  /\ Goto(t, "enter")
  /\ UNCHANGED <<wwwh, tc_lock, sleepq, pri>>

\* The lock is not busy and casip() takes it.
rw_enter_grab(t) ==
  /\ pc[t] = "enter"
  /\ ~lock_busy(rw[t], wwwh)
  /\ wwwh' = Grab(wwwh, rw[t], t)
  /\ Goto(t, "held")
  /\ UNCHANGED <<tc_lock, sleepq, pri, kpri, rw>>

\* The lock is busy: go for the turnstile lock.
rw_enter_busy(t) ==
  /\ pc[t] = "enter"
  /\ lock_busy(rw[t], wwwh)
  /\ Goto(t, "enter_lookup")
  /\ UNCHANGED <<wwwh, tc_lock, sleepq, pri, kpri, rw>>

\* turnstile_lookup(): take the hash chain lock on the way in, out or down.
LookupNext == [enter_lookup |-> "enter_mark", exit_lookup |-> "exit_wake",
               down_lookup |-> "down_wake"]

turnstile_lookup(t) ==
  /\ pc[t] \in DOMAIN LookupNext
  /\ tc_lock = NoThread
  /\ tc_lock' = t
  /\ Goto(t, LookupNext[pc[t]])
  /\ UNCHANGED <<wwwh, sleepq, pri, kpri, rw>>

\* Mutant: the bits are set without looking at the lock again.
rw_enter_mark_blind(t) ==
  /\ pc[t] = "enter_mark"
  /\ wwwh' = lock_wait(wwwh, rw[t])
  /\ Goto(t, "enter_block")
  /\ UNCHANGED <<tc_lock, sleepq, pri, kpri, rw>>

\* The do loop: set the waiters bits if the lock is still busy ...
rw_enter_mark(t) ==
  /\ pc[t] = "enter_mark"
  /\ lock_busy(rw[t], wwwh)
  /\ wwwh' = lock_wait(wwwh, rw[t])
  /\ Goto(t, "enter_block")
  /\ UNCHANGED <<tc_lock, sleepq, pri, kpri, rw>>

\* Mutant: the turnstile lock is kept on the way back.
rw_enter_retry_locked(t) ==
  /\ pc[t] = "enter_mark"
  /\ ~lock_busy(rw[t], wwwh)
  /\ Goto(t, "enter")
  /\ UNCHANGED <<wwwh, tc_lock, sleepq, pri, kpri, rw>>

\* ... else turnstile_exit() and try the dance again.
rw_enter_retry(t) ==
  /\ pc[t] = "enter_mark"
  /\ ~lock_busy(rw[t], wwwh)
  /\ tc_lock' = NoThread
  /\ Goto(t, "enter")
  /\ UNCHANGED <<wwwh, sleepq, pri, kpri, rw>>

\* turnstile_block(): sleep on the queue; the turnstile lock is dropped.
turnstile_block(t) ==
  /\ pc[t] = "enter_block"
  /\ sleepq' = [sleepq EXCEPT ![rw[t]] = sleepq_insert(@, t)]
  /\ KpriRelease(t, rw[t])
  /\ tc_lock' = NoThread
  /\ Goto(t, "asleep")
  /\ UNCHANGED <<wwwh, pri, rw>>

\* Mutant: a trying reader ignores the write-wanted bit.
rw_tryenter_barging(t, m) ==
  /\ pc[t] = "idle"
  /\ IF m = RW_READER THEN ~RW_WRITE_LOCKED(wwwh) ELSE wwwh = RW_UNHELD
  /\ wwwh' = Grab(wwwh, m, t)
  /\ rw' = [rw EXCEPT ![t] = m]
  /\ KpriRequest(t, m)
  /\ Goto(t, "held")
  /\ UNCHANGED <<tc_lock, sleepq, pri>>

\* rw_tryenter() that succeeds; one that fails changes nothing.
rw_tryenter(t, m) ==
  /\ pc[t] = "idle"
  /\ IF m = RW_READER THEN ~RW_WRITE_CLAIMED(wwwh) ELSE wwwh = RW_UNHELD
  /\ wwwh' = Grab(wwwh, m, t)
  /\ rw' = [rw EXCEPT ![t] = m]
  /\ KpriRequest(t, m)
  /\ Goto(t, "held")
  /\ UNCHANGED <<tc_lock, sleepq, pri>>

-----------------------------------------------------------------------------
(* rw_exit() and rw_exit_wakeup()                                          *)

FinalExit(w, m) == w.waiters /\ ~RW_LOCKED(Drop(w, m))

\* Not the final exit of a lock with waiters: casip() drops the hold.
rw_exit(t) ==
  /\ pc[t] = "held"
  /\ ~FinalExit(wwwh, rw[t])
  /\ wwwh' = Drop(wwwh, rw[t])
  /\ KpriRelease(t, rw[t])
  /\ Leave(t)
  /\ UNCHANGED <<tc_lock, sleepq, pri>>

\* The final exit: from here on the lock word is not looked at again.
rw_exit_final(t) ==
  /\ pc[t] = "held"
  /\ FinalExit(wwwh, rw[t])
  /\ Goto(t, "exit_lookup")
  /\ UNCHANGED <<wwwh, tc_lock, sleepq, pri, kpri, rw>>

\* Both directions of the handoff leave the turnstile and wake a set S.
Woken(S) == [u \in Threads |-> IF u \in S THEN "held" ELSE pc[u]]

\* A writer grants the lock to all the readers rw_readers_to_wake() counts.
rw_exit_wakeup_readers(t) ==
  LET n == rw_readers_to_wake
      S == Front(readers_q, n)
  IN  /\ pc[t] = "exit_wake"
      /\ rw[t] = RW_WRITER /\ n > 0
      /\ wwwh' = [holds |-> n, owner |-> NoThread,
                  wanted |-> writers_q # <<>>, waiters |-> ts_waiters > n]
      /\ sleepq' = [sleepq EXCEPT ![RW_READER] = After(@, n)]
      /\ kpri' = [u \in Threads |-> IF u \in S THEN kpri[u] + 1 ELSE kpri[u]]
      /\ tc_lock' = NoThread
      /\ rw' = [rw EXCEPT ![t] = RW_READER]
      /\ pc' = [Woken(S) EXCEPT ![t] = "idle"]
      /\ UNCHANGED pri

\* Otherwise ownership goes to next_writer, the first of the writers.
rw_exit_wakeup_writer(t) ==
  LET next_writer == writers_q[1]
  IN  /\ pc[t] = "exit_wake"
      /\ ~(rw[t] = RW_WRITER /\ rw_readers_to_wake > 0)
      /\ wwwh' = [holds |-> 0, owner |-> next_writer,
                  wanted |-> Len(writers_q) > 1, waiters |-> ts_waiters > 1]
      /\ sleepq' = [sleepq EXCEPT ![RW_WRITER] = After(@, 1)]
      /\ KpriRelease(t, rw[t])
      /\ tc_lock' = NoThread
      /\ rw' = [rw EXCEPT ![t] = RW_READER]
      /\ pc' = [Woken({next_writer}) EXCEPT ![t] = "idle"]
      /\ UNCHANGED pri

-----------------------------------------------------------------------------
(* rw_downgrade() and rw_tryupgrade()                                      *)

rw_downgrade(t) ==
  /\ pc[t] = "held" /\ rw[t] = RW_WRITER
  /\ wwwh' = [wwwh EXCEPT !.owner = NoThread, !.holds = @ + 1]
  /\ rw' = [rw EXCEPT ![t] = RW_READER]
  /\ KpriRequest(t, RW_READER)
  /\ Goto(t, IF wwwh.waiters THEN "down_lookup" ELSE "held")
  /\ UNCHANGED <<tc_lock, sleepq, pri>>

rw_downgrade_wakeup(t) ==
  LET n == rw_readers_to_wake
      S == Front(readers_q, n)
  IN  /\ pc[t] = "down_wake"
      /\ wwwh' = [wwwh EXCEPT !.holds = @ + n,
                              !.waiters = @ /\ ~(n > 0 /\ ts_waiters = n)]
      /\ sleepq' = [sleepq EXCEPT ![RW_READER] = After(@, n)]
      /\ kpri' = [u \in Threads |-> IF u \in S THEN kpri[u] + 1 ELSE kpri[u]]
      /\ tc_lock' = NoThread
      /\ pc' = [Woken(S) EXCEPT ![t] = "held"]
      /\ UNCHANGED <<pri, rw>>

\* rw_tryupgrade() that succeeds; one that fails changes nothing.
rw_tryupgrade(t) ==
  /\ pc[t] = "held" /\ rw[t] = RW_READER
  /\ wwwh.holds = 1 /\ ~RW_WRITE_CLAIMED(wwwh)
  /\ wwwh' = [wwwh EXCEPT !.holds = 0, !.owner = t]
  /\ rw' = [rw EXCEPT ![t] = RW_WRITER]
  /\ KpriRelease(t, RW_READER)
  /\ UNCHANGED <<tc_lock, sleepq, pri, pc>>

-----------------------------------------------------------------------------
(***************************************************************************)
(* A thread's priority may change at any time.  The thread lock of a       *)
(* sleeper is the turnstile lock, and it is moved to its new place in the  *)
(* queue (turnstile_change_pri).                                           *)
(***************************************************************************)
thread_change_pri(t, p) ==
  /\ p # pri[t]
  /\ pc[t] # "asleep"
  /\ pri' = [pri EXCEPT ![t] = p]
  /\ UNCHANGED <<wwwh, tc_lock, sleepq, kpri, rw, pc>>

turnstile_change_pri(t, p) ==
  LET s == sleepq_dequeue(sleepq[rw[t]], t)
  IN  /\ p # pri[t]
      /\ pc[t] = "asleep"
      /\ tc_lock = NoThread
      /\ pri' = [pri EXCEPT ![t] = p]
      /\ sleepq' = [sleepq EXCEPT ![rw[t]] = SpliceAt(s, Walk(s, p), t)]
      /\ UNCHANGED <<wwwh, tc_lock, kpri, rw, pc>>

\* What the rwlock code itself does for thread t once t has called it.
Progress(t) ==
  \/ rw_enter_grab(t) \/ rw_enter_busy(t) \/ turnstile_lookup(t)
  \/ rw_enter_mark(t) \/ rw_enter_retry(t) \/ turnstile_block(t)
  \/ rw_exit_wakeup_readers(t) \/ rw_exit_wakeup_writer(t)
  \/ rw_downgrade_wakeup(t)

\* A holder releases the lock.
Release(t) == rw_exit(t) \/ rw_exit_final(t)

LockNext ==
  \E t \in Threads :
    \/ \E m \in krw_t : rw_enter(t, m) \/ rw_tryenter(t, m)
    \/ Progress(t)
    \/ Release(t)
    \/ rw_downgrade(t)
    \/ rw_tryupgrade(t)

PriorityNext ==
  \E t \in Threads, p \in Priorities :
    thread_change_pri(t, p) \/ turnstile_change_pri(t, p)

Next == LockNext \/ PriorityNext

Spec == Init /\ [][Next]_vars

(***************************************************************************)
(* Threads keep running and holders sooner or later call rw_exit().  The   *)
(* spin lock of the chain needs no strong fairness: who waits for it to    *)
(* wake the sleepers is waited for by everybody else.                      *)
(***************************************************************************)
FairSpec ==
  /\ Spec
  /\ \A t \in Threads : WF_vars(Progress(t)) /\ WF_vars(Release(t))

-----------------------------------------------------------------------------
(* Properties                                                              *)

Holding == {"held", "exit_lookup", "exit_wake", "down_lookup", "down_wake"}
Labels == Holding \cup {"idle", "enter", "enter_lookup", "enter_mark",
                        "enter_block", "asleep"}

\* The threads that are inside the lock, by what they did and not by what
\* the lock word says.
Holders == {t \in Threads : pc[t] \in Holding}
ReadHolders == {t \in Holders : rw[t] = RW_READER}
WriteHolders == {t \in Holders : rw[t] = RW_WRITER}

\* Type correctness of the lock word, the queues and the per-thread state.
TypeOK ==
  /\ wwwh \in rw_wwwh
  /\ tc_lock \in Threads \cup {NoThread}
  /\ sleepq \in [krw_t -> Seq(Threads)]
  /\ pri \in [Threads -> Priorities]
  /\ kpri \in [Threads -> Int]
  /\ rw \in [Threads -> krw_t]
  /\ pc \in [Threads -> Labels]

\* A writer is inside alone: no reader and no second writer, whatever path
\* (rw_enter, rw_tryenter, rw_tryupgrade or a handoff) let each of them in.
MutualExclusion ==
  \A t \in WriteHolders : Holders = {t}

\* The word counts the readers inside exactly and names the writer inside,
\* through handoffs that set the count for several readers at once and a
\* downgrade that adds to it while new readers enter.
HoldCountExact ==
  /\ wwwh.holds = Cardinality(ReadHolders)
  /\ WriteHolders = {wwwh.owner} \ {NoThread}

\* Rule (2) of the Big Theory Statement: whenever the turnstile lock is free
\* the waiters bit and the write-wanted bit agree with the sleep queues.
WaitersBitsExact ==
  tc_lock = NoThread =>
    /\ wwwh.waiters <=> ts_waiters > 0
    /\ wwwh.wanted <=> writers_q # <<>>

\* Nobody sleeps for an available lock: a writer sleeps only while the lock
\* is held, a reader only while a writer holds or wants it or while the
\* downgrade that will wake it is under way.
BlockedForCause ==
  /\ writers_q # <<>> => RW_LOCKED(wwwh)
  /\ readers_q # <<>> =>
       \/ RW_WRITE_CLAIMED(wwwh)
       \/ \E t \in Threads : pc[t] \in {"down_lookup", "down_wake"}

\* What rw_exit_wakeup() and rw_downgrade() take for granted once they hold
\* the turnstile lock: there is a turnstile, and an exiting thread that wakes
\* no readers finds a writer to hand the lock to.
HandoffHasTarget ==
  \A t \in Threads :
    /\ pc[t] \in {"exit_wake", "down_wake"} => ts_waiters > 0
    /\ pc[t] = "exit_wake" =>
         \/ rw[t] = RW_WRITER /\ rw_readers_to_wake > 0
         \/ writers_q # <<>> /\ wwwh.wanted

\* A thread holds one kernel priority request exactly while it is a reader
\* inside the lock or a reader on its way in that has not gone to sleep.
KpriBalanced ==
  \A t \in Threads :
    kpri[t] = IF rw[t] = RW_READER /\ pc[t] \notin {"idle", "asleep"}
              THEN 1 ELSE 0

\* rw_exit_wakeup() decides on the final exit from one load of the word and
\* stores a new word later: between the two nobody enters or leaves the lock.
FinalExitIsFinal ==
  [][\A t \in Threads :
       /\ pc[t] \in {"exit_lookup", "exit_wake"}
       /\ pc'[t] \in {"exit_lookup", "exit_wake"}
       => Holders' = Holders /\ Holders = {t}]_vars

\* The wakeup policy satisfies all five requirements of the Big Theory
\* Statement at once: unless priorities change forever, a sleeping thread,
\* reader or writer, gets the lock or meets a writer of higher priority.
NoStarvation ==
  \/ []<><<pri' # pri>>_vars
  \/ \A t \in Threads :
       pc[t] = "asleep" ~>
         \/ pc[t] = "held"
         \/ \E u \in Threads : rw[u] = RW_WRITER /\ pri[u] > pri[t]

\* The lock word, turnstile and handoff protocol implement the abstract
\* readers/writer lock: threads inside by their krw_t, sleepers waiting.
Abstract == INSTANCE RwSpec WITH
  inside <- [t \in Threads |-> IF pc[t] \in Holding THEN rw[t] ELSE "none"],
  waiting <- [t \in Threads |-> IF pc[t] = "asleep" THEN rw[t] ELSE "none"]

\* Every behaviour of the code is a behaviour of the abstract lock: no
\* barging past a waiting writer, no free lock with waiters, waiters get in
\* only by a grant from the thread inside.
ImplementsRwSpec == Abstract!Spec

-----------------------------------------------------------------------------
(* The inductive invariant behind the safety properties.                   *)

Sleepers(q) == {t \in Threads : pc[t] = "asleep" /\ rw[t] = q}
NoRepeats(s) == \A i, j \in 1..Len(s) : s[i] = s[j] => i = j

\* A sleep queue lists the threads asleep on it, each once.
QueueInv ==
  \A q \in krw_t : NoRepeats(sleepq[q]) /\ Elems(sleepq[q]) = Sleepers(q)

\* The turnstile lock is held by the thread that is between taking and
\* dropping it.
ChainInv ==
  \A t \in Threads :
    tc_lock = t <=> pc[t] \in {"enter_mark", "enter_block", "exit_wake", "down_wake"}

\* The bits of the word are set for the sleepers and for the thread that is
\* about to sleep, and only on a held lock.
BitsInv ==
  /\ wwwh.waiters <=> \E t \in Threads : pc[t] \in {"enter_block", "asleep"}
  /\ wwwh.wanted <=> \E t \in Threads :
                       pc[t] \in {"enter_block", "asleep"} /\ rw[t] = RW_WRITER
  /\ wwwh.waiters => RW_LOCKED(wwwh)
  /\ RW_WRITE_LOCKED(wwwh) => wwwh.holds = 0

\* The waiters of a lock that no writer holds include a writer, unless a
\* downgrade is about to wake them.  There is one downgrade at a time.
DowngradeInv ==
  /\ wwwh.waiters /\ ~RW_WRITE_CLAIMED(wwwh) =>
       \E t \in Threads : pc[t] \in {"down_lookup", "down_wake"}
  /\ \A t \in Threads : pc[t] \in {"down_lookup", "down_wake"} =>
       /\ rw[t] = RW_READER /\ wwwh.waiters
       /\ \A u \in Threads \ {t} : pc[u] \notin {"down_lookup", "down_wake"}

\* A thread in its final exit is alone inside and has somebody to wake.
ExitInv ==
  \A t \in Threads : pc[t] \in {"exit_lookup", "exit_wake"} =>
    /\ Holders = {t}
    /\ wwwh.waiters
    /\ rw[t] = RW_READER => wwwh.wanted

\* The inductive invariant of rwlock.c: the word counts the threads inside,
\* its bits announce the sleepers, and the turnstile lock protects both.
IInv ==
  /\ TypeOK /\ QueueInv /\ HoldCountExact /\ ChainInv /\ BitsInv
  /\ DowngradeInv /\ ExitInv /\ KpriBalanced
=============================================================================
