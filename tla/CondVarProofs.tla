--------------------------- MODULE CondVarProofs ---------------------------
(***************************************************************************)
(* Proofs about CondVar, for any finite set of waiters, any setters,       *)
(* limits, timeouts and priorities: no wakeup, signal or timeout is lost.  *)
(***************************************************************************)
EXTENDS CondVar, SleepQueueTheorems

-----------------------------------------------------------------------------
(* The inductive invariant                                                 *)

\* The sleep queue lists each waiter that sleeps once, on the condition
\* variable that its t_wchan names.
QueueExact == Distinct(sq) /\ Asleep = {t \in Waiters : wchan[t] # Null}

\* What holds of the sleep queue and the counters alone.
QueueRight ==
  /\ cv_waiters \in [Cvs -> 0 .. CV_MAX_WAITERS]
  /\ sq \in Seq(Waiters) /\ pri \in [Waiters -> Prios]
  /\ wchan \in [Waiters -> Cvs \cup {Null}]
  /\ QueueExact /\ QueueSorted /\ WaitersExact

\* Where a waiter sleeps: in its wait, or in untimeout() for its own callout.
SleepsRight ==
  \A t \in Waiters :
    \/ wchan[t] = Null
    \/ wchan[t] = Cv /\ pc[t] \in {"exit", "look", "swtch"}
    \/ wchan[t] = t /\ pc[t] = "done_wait"

\* Who has the mutex, by the place in the code; nobody makes the predicate
\* true between the test and the sleep.
HasMutex(t) ==
  \/ pc[t] \in {"test", "arm", "block", "exit", "awake", "issig"}
  \/ pc[t] \in {"untimeout", "done_wait"} /\ kind[t] = "timedwait_sig"

MutexRight ==
  \A t \in Waiters :
    /\ HasMutex(t) => owner = t
    /\ pc[t] \in {"arm", "block"} => ~ready

\* The function that a waiter is in, by the place in the code.
KindsRight ==
  \A t \in Waiters :
    /\ pc[t] \in {"idle", "test"} => kind[t] = Null
    /\ pc[t] \in {"block", "exit", "swtch"} => kind[t] # Null
    /\ pc[t] \in {"arm", "untimeout", "done_wait"} => kind[t] \in Timed
    /\ pc[t] = "look" => kind[t] \notin {Null, "wait"}
    /\ pc[t] \in {"awake", "issig", "forreal", "reenter"} => kind[t] \in Interruptible
    /\ pc[t] = "stop" => kind[t] = "wait_stop"

\* A waiter between its timeout() and the end of its untimeout().
InTimedWait(t) ==
  /\ kind[t] \in Timed
  /\ \/ pc[t] \in {"block", "exit", "look", "swtch", "awake", "untimeout", "done_wait"}
     \/ pc[t] = "enter" /\ kind[t] = "timedwait_sig"

\* The callout is there during the wait only, is not due before tim, and has
\* gone off only when that time is up.
CalloutsRight ==
  \A t \in Waiters :
    /\ callout[t] # "idle" => InTimedWait(t)
    /\ callout[t] = "pending" => left[t] <= due[t]
    /\ pc[t] = "arm" => left[t] <= timeleft[t]
    /\ InTimedWait(t) /\ callout[t] # "pending" => left[t] = 0

\* NoMissedSignal, TimeoutNotMissed and NoLostWakeup in terms of t_wchan.
SignalSeen ==
  \A t \in Waiters :
    wchan[t] = Cv /\ t \in sig /\ kind[t] \in Interruptible => pc[t] \in {"exit", "look"}

TimeoutSeen ==
  \A t \in Waiters :
    wchan[t] = Cv /\ kind[t] \in Timed /\ pc[t] = "swtch" => callout[t] \in {"pending", "running"}

\* Who was signalled while the predicate is true does not sleep again before
\* it has tested that.
WakeupSeen ==
  /\ woken # {} => ready
  /\ \A t \in woken : pc[t] # "idle" /\ wchan[t] # Cv
  /\ ready /\ (\E t \in Waiters : wchan[t] = Cv) => woken # {} \/ Signalling \/ wasted

CvInv ==
  /\ TypeOK /\ QueueRight
  /\ SleepsRight /\ MutexRight /\ KindsRight /\ CalloutsRight
  /\ TimeoutTrue /\ SignalSeen /\ TimeoutSeen /\ WakeupSeen

-----------------------------------------------------------------------------
(* The constants                                                           *)

LEMMA ThreadKinds ==
  /\ Null \notin Threads /\ Null \notin AllKinds /\ Null \notin Cvs
  /\ Cv \notin Threads /\ Cv \in Cvs /\ Waiters \subseteq Cvs
  /\ Waiters \subseteq Threads /\ Setters \subseteq Threads
  /\ \A t \in Waiters, s \in Setters : t # s
  /\ \A t \in Waiters : t # Null /\ t # Cv
BY ThreadsAssumption DEF Threads, Cvs

LEMMA FiniteWaiters ==
  \A S \in SUBSET Waiters : IsFiniteSet(S) /\ Cardinality(S) \in Nat
<1>1. IsFiniteSet(Waiters)
  BY ThreadsAssumption, ThreadKinds, FS_Subset
<1> QED  BY <1>1, FS_Subset, FS_CardinalityType

-----------------------------------------------------------------------------
(* The queue and its counters                                              *)

\* The sleepers on a condition variable; a counter of 0 may be trusted.
LEMMA OnIs ==
  ASSUME QueueRight, NEW c \in Cvs
  PROVE  /\ On(c) = {t \in Waiters : wchan[t] = c}
         /\ Asleep = {t \in Waiters : wchan[t] # Null}
         /\ On(c) \in SUBSET Waiters /\ On(c) \subseteq Asleep
         /\ IsFiniteSet(On(c)) /\ Cardinality(On(c)) \in Nat
         /\ cv_waiters[c] = 0 => On(c) = {}
<1>1. /\ On(c) = {t \in Waiters : wchan[t] = c}
      /\ Asleep = {t \in Waiters : wchan[t] # Null}
      /\ On(c) \in SUBSET Waiters /\ On(c) \subseteq Asleep
  BY ThreadKinds DEF QueueRight, QueueExact, On
<1>2. IsFiniteSet(On(c)) /\ Cardinality(On(c)) \in Nat
  BY <1>1, FiniteWaiters
<1>3. ASSUME cv_waiters[c] = 0
      PROVE  On(c) = {}
  <2>1. Cardinality(On(c)) = 0
    BY <1>3, NumbersAssumption DEF QueueRight, WaitersExact
  <2> QED  BY <1>2, <2>1, FS_EmptySet
<1> QED  BY <1>1, <1>2, <1>3

\* The counters are exact after a step that changes one of them, if that one is.
LEMMA CountsKept ==
  ASSUME QueueRight, NEW c \in Cvs, NEW n \in 0 .. CV_MAX_WAITERS,
         cv_waiters' = [cv_waiters EXCEPT ![c] = n],
         \A d \in Cvs \ {c} : On(d)' = On(d),
         n = Cardinality(On(c)') \/ n = CV_MAX_WAITERS
  PROVE  WaitersExact' /\ cv_waiters' \in [Cvs -> 0 .. CV_MAX_WAITERS]
<1>1. cv_waiters' \in [Cvs -> 0 .. CV_MAX_WAITERS]
  BY DEF QueueRight
<1>2. \A d \in Cvs : cv_waiters'[d] = IF d = c THEN n ELSE cv_waiters[d]
  BY DEF QueueRight
<1>3. ASSUME NEW d \in Cvs
      PROVE  cv_waiters'[d] = Cardinality(On(d)') \/ cv_waiters'[d] = CV_MAX_WAITERS
  <2>1. CASE d = c
    BY <1>2, <2>1
  <2>2. CASE d # c
    <3>1. cv_waiters[d] = Cardinality(On(d)) \/ cv_waiters[d] = CV_MAX_WAITERS
      BY DEF QueueRight, WaitersExact
    <3>2. On(d)' = On(d)
      BY <2>2
    <3> QED  BY <1>2, <2>2, <3>1, <3>2
  <2> QED  BY <2>1, <2>2
<1> QED  BY <1>1, <1>3 DEF WaitersExact

\* cv_block() puts the thread on the queue and counts it.
LEMMA BlockQueue ==
  ASSUME QueueRight, NEW t \in Waiters, wchan[t] = Null, NEW c \in Cvs, cv_block(t, c)
  PROVE  QueueRight' /\ \A u \in Waiters : wchan'[u] = IF u = t THEN c ELSE wchan[u]
<1>1. PICK p \in Prios : /\ pri' = [pri EXCEPT ![t] = p] /\ sq' = Insert(sq, pri', t)
                         /\ wchan' = [wchan EXCEPT ![t] = c]
                         /\ cv_waiters' = [cv_waiters EXCEPT ![c] = CountUp(@)]
  BY DEF cv_block
<1>2. /\ t \notin Elems(sq) /\ sq \in Seq(Waiters) /\ Distinct(sq)
      /\ Elems(sq) = {u \in Waiters : wchan[u] # Null} /\ Sorted(sq, pri)
  BY DEF QueueRight, QueueExact, Asleep, QueueSorted
<1>3. /\ pri' \in [Waiters -> Prios] /\ pri' \in [Waiters -> Int]
      /\ \A u \in Elems(sq) : pri'[u] = pri[u]
      /\ wchan' \in [Waiters -> Cvs \cup {Null}]
      /\ \A u \in Waiters : wchan'[u] = IF u = t THEN c ELSE wchan[u]
  BY <1>1, <1>2, NumbersAssumption DEF QueueRight
<1>4. Sorted(sq, pri')
  BY <1>2, <1>3, SortedDepends
<1>5. /\ sq' \in Seq(Waiters) /\ Distinct(sq') /\ Elems(sq') = Elems(sq) \cup {t}
      /\ Sorted(sq', pri')
  <2>1. /\ t \notin Elems(sq) /\ sq \in Seq(Waiters) /\ Distinct(sq)
        /\ pri' \in [Waiters -> Int] /\ sq' = Insert(sq, pri', t)
    BY <1>1, <1>2, <1>3
  <2> QED  BY <1>4, <2>1, InsertQueue
<1>6. QueueExact' /\ QueueSorted'
  BY <1>2, <1>3, <1>5, ThreadKinds DEF QueueExact, QueueSorted, Asleep
<1>7. /\ On(c)' = On(c) \cup {t} /\ t \notin On(c)
      /\ \A d \in Cvs \ {c} : On(d)' = On(d)
  BY <1>2, <1>3, <1>5, ThreadKinds DEF On, Asleep
<1>8. Cardinality(On(c)') = Cardinality(On(c)) + 1 /\ Cardinality(On(c)) \in Nat
  BY <1>7, OnIs, FS_AddElement
<1>9. /\ CountUp(cv_waiters[c]) \in 0 .. CV_MAX_WAITERS
      /\ \/ CountUp(cv_waiters[c]) = Cardinality(On(c)) + 1
         \/ CountUp(cv_waiters[c]) = CV_MAX_WAITERS
  <2>1. /\ cv_waiters[c] \in 0 .. CV_MAX_WAITERS
        /\ cv_waiters[c] = Cardinality(On(c)) \/ cv_waiters[c] = CV_MAX_WAITERS
    BY DEF QueueRight, WaitersExact
  <2> QED  BY <2>1, NumbersAssumption DEF CountUp
<1>10. cv_waiters' = [cv_waiters EXCEPT ![c] = CountUp(cv_waiters[c])]
  BY <1>1
<1>11. WaitersExact' /\ cv_waiters' \in [Cvs -> 0 .. CV_MAX_WAITERS]
  BY <1>7, <1>8, <1>9, <1>10, CountsKept
<1> QED  BY <1>1, <1>3, <1>5, <1>6, <1>11 DEF QueueRight

\* Sleepers of one condition variable that are woken leave the queue.
LEMMA WakeQueue ==
  ASSUME QueueRight, NEW c \in Cvs, NEW T \in SUBSET On(c), NEW n \in 0 .. CV_MAX_WAITERS,
         Wake(T, c, n), n = Cardinality(On(c) \ T) \/ n = CV_MAX_WAITERS
  PROVE  QueueRight' /\ \A u \in Waiters : wchan'[u] = IF u \in T THEN Null ELSE wchan[u]
<1>1. /\ sq' = Without(sq, T)
      /\ wchan' = [u \in Waiters |-> IF u \in T THEN Null ELSE wchan[u]]
      /\ pri' = [u \in Waiters |-> IF u \in T THEN Unused ELSE pri[u]]
      /\ cv_waiters' = [cv_waiters EXCEPT ![c] = n]
  BY DEF Wake
<1>2. /\ sq \in Seq(Waiters) /\ Distinct(sq) /\ Sorted(sq, pri)
      /\ Elems(sq) = {u \in Waiters : wchan[u] # Null}
  BY DEF QueueRight, QueueExact, Asleep, QueueSorted
<1>3. /\ sq' \in Seq(Waiters) /\ Distinct(sq') /\ Elems(sq') = Elems(sq) \ T
      /\ Sorted(sq', pri)
  BY <1>1, <1>2, WithoutQueue
<1>4. Unused \in Prios
  BY NumbersAssumption DEF Unused
<1>5. pri' \in [Waiters -> Prios] /\ \A u \in Elems(sq') : pri'[u] = pri[u]
  BY <1>1, <1>2, <1>3, <1>4 DEF QueueRight
<1>6. Sorted(sq', pri')
  BY <1>3, <1>5, SortedDepends
<1>7. /\ wchan' \in [Waiters -> Cvs \cup {Null}]
      /\ \A u \in Waiters : wchan'[u] = IF u \in T THEN Null ELSE wchan[u]
  BY <1>1 DEF QueueRight
<1>8. QueueExact' /\ QueueSorted'
  BY <1>2, <1>3, <1>6, <1>7, ThreadKinds DEF QueueExact, QueueSorted, Asleep
<1>9. \A u \in T : u \in Waiters /\ wchan[u] = c
  BY OnIs
<1>10. \A d \in Cvs : On(d)' = IF d = c THEN On(d) \ T ELSE On(d)
  BY <1>2, <1>3, <1>7, <1>9, ThreadKinds DEF On, Asleep
<1>11. WaitersExact' /\ cv_waiters' \in [Cvs -> 0 .. CV_MAX_WAITERS]
  <2>1. \A d \in Cvs \ {c} : On(d)' = On(d)
    BY <1>10
  <2>2. On(c)' = On(c) \ T
    BY <1>10
  <2> QED  BY <1>1, <2>1, <2>2, CountsKept
<1> QED  BY <1>1, <1>3, <1>5, <1>7, <1>8, <1>11 DEF QueueRight

\* setrun() takes a sleeper off the queue, whatever it sleeps on.
LEMMA SetrunQueue ==
  ASSUME QueueRight, NEW t \in Waiters, setrun(t)
  PROVE  QueueRight' /\ \A u \in Waiters : wchan'[u] = IF u = t THEN Null ELSE wchan[u]
<1>1. CASE wchan[t] = Null
  <2>1. t \notin Asleep
    BY <1>1 DEF QueueRight, QueueExact
  <2>2. UNCHANGED queue
    BY <2>1 DEF setrun
  <2>3. QueueRight'
    BY <2>2 DEF queue, QueueRight, QueueExact, QueueSorted, WaitersExact, Asleep, On
  <2> QED  BY <1>1, <2>2, <2>3 DEF queue
<1>2. CASE wchan[t] # Null
  <2> DEFINE c == wchan[t]
             n == CountDown(cv_waiters[c])
  <2>1. c \in Cvs /\ t \in Asleep
    BY <1>2 DEF QueueRight, QueueExact
  <2>2. Wake({t}, c, n)
    BY <2>1 DEF setrun, cv_unsleep
  <2>3. t \in On(c) /\ IsFiniteSet(On(c)) /\ Cardinality(On(c)) \in Nat
    BY <2>1, OnIs
  <2>4. Cardinality(On(c) \ {t}) = Cardinality(On(c)) - 1 /\ Cardinality(On(c)) # 0
    BY <2>3, FS_RemoveElement, FS_EmptySet
  <2>5. /\ n \in 0 .. CV_MAX_WAITERS
        /\ n = Cardinality(On(c) \ {t}) \/ n = CV_MAX_WAITERS
    <3>1. /\ cv_waiters[c] \in 0 .. CV_MAX_WAITERS
          /\ cv_waiters[c] = Cardinality(On(c)) \/ cv_waiters[c] = CV_MAX_WAITERS
      BY <2>1 DEF QueueRight, WaitersExact
    <3> HIDE DEF c
    <3> QED  BY <2>3, <2>4, <3>1, NumbersAssumption DEF CountDown
  <2>6. {t} \in SUBSET On(c)
    BY <2>3
  <2> HIDE DEF c, n
  <2>7. QueueRight' /\ \A u \in Waiters : wchan'[u] = IF u \in {t} THEN Null ELSE wchan[u]
    BY <2>1, <2>2, <2>5, <2>6, WakeQueue
  <2> QED  BY <2>7
<1> QED  BY <1>1, <1>2

\* cv_change_pri() moves the sleeper to its place in the queue.
LEMMA ChangePriQueue ==
  ASSUME QueueRight, NEW t \in Waiters, NEW p \in Prios, cv_change_pri(t, p)
  PROVE  QueueRight'
<1>1. /\ pri' = [pri EXCEPT ![t] = p] /\ sq' = Insert(Remove(sq, t), pri', t)
      /\ cv_waiters' = cv_waiters /\ wchan' = wchan /\ t \in Elems(sq)
  BY DEF cv_change_pri, Asleep
<1>2. /\ sq \in Seq(Waiters) /\ Distinct(sq) /\ Sorted(sq, pri)
      /\ Elems(sq) = {u \in Waiters : wchan[u] # Null}
  BY DEF QueueRight, QueueExact, Asleep, QueueSorted
<1> DEFINE r == Remove(sq, t)
<1>3. r \in Seq(Waiters) /\ Distinct(r) /\ Elems(r) = Elems(sq) \ {t} /\ Sorted(r, pri)
  BY <1>2, RemoveQueue
<1> HIDE DEF r
<1>4. /\ pri' \in [Waiters -> Prios] /\ pri' \in [Waiters -> Int]
      /\ \A u \in Elems(r) : pri'[u] = pri[u] /\ t \notin Elems(r)
  BY <1>1, <1>2, <1>3, NumbersAssumption DEF QueueRight
<1>5. Sorted(r, pri')
  BY <1>3, <1>4, SortedDepends
<1>6. sq' = Insert(r, pri', t) /\ t \notin Elems(r)
  BY <1>1, <1>3 DEF r
<1>7. /\ sq' \in Seq(Waiters) /\ Distinct(sq') /\ Elems(sq') = Elems(r) \cup {t}
      /\ Sorted(sq', pri')
  BY <1>3, <1>4, <1>5, <1>6, InsertQueue
<1>8. Elems(sq') = Elems(sq)
  BY <1>1, <1>3, <1>7
<1>9. \A c : On(c)' = On(c)
  BY <1>1, <1>8 DEF On, Asleep
<1> QED
  BY <1>1, <1>2, <1>4, <1>7, <1>8, <1>9
  DEF QueueRight, QueueExact, QueueSorted, WaitersExact, Asleep

\* sleepq_wakeone_chan() finds a sleeper if there is one.
LEMMA FirstIs ==
  ASSUME QueueRight, NEW c \in Cvs, On(c) # {}
  PROVE  FirstOn(c) \in On(c)
<1> DEFINE K == {i \in 1 .. Len(sq) : wchan[sq[i]] = c}
           P(i) == wchan[sq[i]] = c /\ \A j \in 1 .. i - 1 : wchan[sq[j]] # c
           k == CHOOSE i \in 1 .. Len(sq) : P(i)
<1>1. sq \in Seq(Waiters) /\ Len(sq) \in Nat /\ K \in SUBSET (1 .. Len(sq))
  BY DEF QueueRight
<1>2. K # {}
  BY <1>1 DEF On, Asleep, Elems
<1>3. PICK i \in K : \A j \in K : i <= j
  BY <1>1, <1>2, LeastIndex
<1>4. i \in 1 .. Len(sq) /\ P(i)
  <2>1. \A j \in 1 .. i - 1 : j \in 1 .. Len(sq) /\ ~(i <= j)
    BY <1>1
  <2> QED  BY <1>3, <2>1
<1>5. k \in 1 .. Len(sq) /\ P(k)
  BY <1>4
<1>6. FirstOn(c) = sq[k]
  BY DEF FirstOn
<1> HIDE DEF k
<1> QED  BY <1>1, <1>5, <1>6 DEF On, Asleep, Elems

LEMMA Modulo ==
  ASSUME NEW n \in 0 .. CV_MAX_WAITERS
  PROVE  n % CV_MAX_WAITERS = IF n = CV_MAX_WAITERS THEN 0 ELSE n
<1>1. n \in Nat /\ CV_MAX_WAITERS \in Nat /\ CV_MAX_WAITERS > 0 /\ n <= CV_MAX_WAITERS
  BY NumbersAssumption
<1> QED  BY <1>1

-----------------------------------------------------------------------------
(* One step of each kind keeps the invariant                               *)

LEMMA QueueKept ==
  ASSUME QueueRight, UNCHANGED queue
  PROVE  QueueRight' /\ wchan' = wchan
BY DEF queue, QueueRight, QueueExact, QueueSorted, WaitersExact, Asleep, On

\* One waiter moves.
LEMMA WaiterMove ==
  ASSUME TypeOK, NEW t \in Waiters, NEW l \in WaiterLabels, pc' = [pc EXCEPT ![t] = l]
  PROVE  /\ pc'[t] = l /\ \A u \in Waiters \ {t} : pc'[u] = pc[u]
         /\ \A s \in Setters : pc'[s] = pc[s]
         /\ pc' \in [Threads -> WaiterLabels \cup SetterLabels]
         /\ \A u \in Waiters : pc'[u] \in WaiterLabels
         /\ \A s \in Setters : pc'[s] \in SetterLabels
BY ThreadKinds DEF TypeOK

\* One setter moves.
LEMMA SetterMove ==
  ASSUME TypeOK, NEW s \in Setters, NEW l \in SetterLabels, pc' = [pc EXCEPT ![s] = l]
  PROVE  /\ pc'[s] = l /\ \A u \in Setters \ {s} : pc'[u] = pc[u]
         /\ \A t \in Waiters : pc'[t] = pc[t]
         /\ pc' \in [Threads -> WaiterLabels \cup SetterLabels]
         /\ \A t \in Waiters : pc'[t] \in WaiterLabels
         /\ \A u \in Setters : pc'[u] \in SetterLabels
BY ThreadKinds DEF TypeOK

\* A call of a wait of kind k that has w ticks to go.
Calls(t, k, w) ==
  /\ pc[t] = "test" /\ ~ready /\ ret[t] \notin {-1, 0}
  /\ left' = [left EXCEPT ![t] = w]
  /\ timeleft' = [timeleft EXCEPT ![t] = w]
  /\ IF k \in Timed /\ w = 0
     THEN /\ ret' = [ret EXCEPT ![t] = -1]
          /\ IF k = "timedwait" THEN UNCHANGED <<kind, pc>>
             ELSE kind' = [kind EXCEPT ![t] = k] /\ Goto(t, "issig")
     ELSE /\ kind' = [kind EXCEPT ![t] = k] /\ Goto(t, IF k \in Timed THEN "arm" ELSE "block")
          /\ ret' = [ret EXCEPT ![t] = 1]
  /\ UNCHANGED <<mutex, queue, callout, due, sig>>

\* A waiter calls with the time it has left, at most MaxWait.
LEMMA CallIs ==
  ASSUME TypeOK, NEW t \in Waiters, NEW k \in Kinds, Call(t, k)
  PROVE  \E w \in 0 .. MaxWait : Calls(t, k, w) /\ (k = "wait_stop" => w # 0)
<1>1. left[t] \in 0 .. MaxWait /\ 0 \in 0 .. MaxWait /\ MaxWait \in 0 .. MaxWait /\ MaxWait # 0
  BY NumbersAssumption DEF TypeOK
<1>2. PICK w \in IF k = "wait_stop" THEN {MaxWait}
                 ELSE IF k \notin Timed THEN {0}
                 ELSE IF ret[t] > 0 THEN {left[t]} ELSE 0 .. MaxWait : Calls(t, k, w)
  BY DEF Call, Calls
<1>3. w \in 0 .. MaxWait /\ (k = "wait_stop" => w # 0)
  BY <1>1, <1>2
<1> QED  BY <1>2, <1>3

\* A waiter comes.
LEMMA StartStep ==
  ASSUME CvInv, NEW t \in Waiters, Start(t)
  PROVE  CvInv'
<1> USE ThreadKinds DEF CvInv
<1>1. /\ pc[t] = "idle" /\ pc' = [pc EXCEPT ![t] = "enter"]
      /\ UNCHANGED <<owner, ready, woken, wasted, callout, due, left, timeleft, sig, kind, ret>>
  BY DEF Start, Goto, mutex, predicate, times, local
<1>2. /\ pc'[t] = "enter" /\ \A u \in Waiters \ {t} : pc'[u] = pc[u]
      /\ \A s \in Setters : pc'[s] = pc[s]
      /\ pc' \in [Threads -> WaiterLabels \cup SetterLabels]
      /\ \A u \in Waiters : pc'[u] \in WaiterLabels
      /\ \A u \in Setters : pc'[u] \in SetterLabels
  BY <1>1, WaiterMove DEF WaiterLabels, SetterLabels
<1>3. QueueRight' /\ wchan' = wchan
  BY QueueKept DEF Start
<1>a. TypeOK'
  BY <1>1, <1>2, <1>3, NumbersAssumption DEF TypeOK, QueueRight
<1>b. SleepsRight'
  BY <1>1, <1>2, <1>3 DEF SleepsRight
<1>c. MutexRight'
  BY <1>1, <1>2 DEF MutexRight, HasMutex, KindsRight, Timed, Interruptible
<1>d. KindsRight'
  BY <1>1, <1>2 DEF KindsRight, Timed, Interruptible, AllKinds
<1>e. CalloutsRight'
  BY <1>1, <1>2 DEF CalloutsRight, InTimedWait, KindsRight, Timed, Interruptible, AllKinds
<1>f. TimeoutTrue'
  BY <1>1, <1>2 DEF TimeoutTrue, CalloutsRight, KindsRight, InTimedWait, Timed, NoReturn
<1>g. SignalSeen'
  BY <1>1, <1>2, <1>3 DEF SignalSeen, SleepsRight, Interruptible
<1>h. TimeoutSeen'
  BY <1>1, <1>2, <1>3 DEF TimeoutSeen, SleepsRight, CalloutsRight, InTimedWait, Timed
<1>i. WakeupSeen'
  BY <1>1, <1>2, <1>3 DEF WakeupSeen, Signalling, TypeOK, MutexRight, SleepsRight
<1> QED  BY <1>3, <1>a, <1>b, <1>c, <1>d, <1>e, <1>f, <1>g, <1>h, <1>i

\* An interruptible wait has the mutex again.
LEMMA EnterSigStep ==
  ASSUME CvInv, NEW t \in Waiters, mutex_enter(t), kind[t] \in Interruptible
  PROVE  CvInv'
<1> USE ThreadKinds DEF CvInv
<1>1. /\ pc[t] = "enter" /\ pc' = [pc EXCEPT ![t] = "awake"]
      /\ owner = Null /\ owner' = t
      /\ UNCHANGED <<ready, woken, wasted, callout, due, left, timeleft, sig, kind, ret>>
  BY DEF mutex_enter, Goto, mutex, predicate, times, local
<1>2. /\ pc'[t] = "awake" /\ \A u \in Waiters \ {t} : pc'[u] = pc[u]
      /\ \A s \in Setters : pc'[s] = pc[s]
      /\ pc' \in [Threads -> WaiterLabels \cup SetterLabels]
      /\ \A u \in Waiters : pc'[u] \in WaiterLabels
      /\ \A u \in Setters : pc'[u] \in SetterLabels
  BY <1>1, WaiterMove DEF WaiterLabels, SetterLabels
<1>3. QueueRight' /\ wchan' = wchan
  BY QueueKept DEF mutex_enter
<1>a. TypeOK'
  BY <1>1, <1>2, <1>3, NumbersAssumption DEF TypeOK, QueueRight
<1>b. SleepsRight'
  BY <1>1, <1>2, <1>3 DEF SleepsRight
<1>c. MutexRight'
  BY <1>1, <1>2 DEF MutexRight, HasMutex, KindsRight, Timed, Interruptible
<1>d. KindsRight'
  BY <1>1, <1>2 DEF KindsRight, Timed, Interruptible, AllKinds
<1>e. CalloutsRight'
  BY <1>1, <1>2 DEF CalloutsRight, InTimedWait, KindsRight, Timed, Interruptible, AllKinds
<1>f. TimeoutTrue'
  BY <1>1, <1>2 DEF TimeoutTrue, CalloutsRight, KindsRight, InTimedWait, Timed, NoReturn
<1>g. SignalSeen'
  BY <1>1, <1>2, <1>3 DEF SignalSeen, SleepsRight, Interruptible
<1>h. TimeoutSeen'
  BY <1>1, <1>2, <1>3 DEF TimeoutSeen, SleepsRight, CalloutsRight, InTimedWait, Timed
<1>i. WakeupSeen'
  BY <1>1, <1>2, <1>3 DEF WakeupSeen, Signalling, TypeOK, MutexRight, SleepsRight
<1> QED  BY <1>3, <1>a, <1>b, <1>c, <1>d, <1>e, <1>f, <1>g, <1>h, <1>i

\* A waiter takes the mutex to test the predicate.
LEMMA EnterStep ==
  ASSUME CvInv, NEW t \in Waiters, mutex_enter(t), kind[t] \notin Interruptible
  PROVE  CvInv'
<1> USE ThreadKinds DEF CvInv
<1>1. /\ pc[t] = "enter" /\ pc' = [pc EXCEPT ![t] = "test"]
      /\ owner = Null /\ owner' = t
      /\ kind' = [kind EXCEPT ![t] = Null]
      /\ UNCHANGED <<ready, woken, wasted, callout, due, left, timeleft, sig, ret>>
  BY DEF mutex_enter, Goto, mutex, predicate, times, local
<1>2. /\ pc'[t] = "test" /\ \A u \in Waiters \ {t} : pc'[u] = pc[u]
      /\ \A s \in Setters : pc'[s] = pc[s]
      /\ pc' \in [Threads -> WaiterLabels \cup SetterLabels]
      /\ \A u \in Waiters : pc'[u] \in WaiterLabels
      /\ \A u \in Setters : pc'[u] \in SetterLabels
  BY <1>1, WaiterMove DEF WaiterLabels, SetterLabels
<1>3. QueueRight' /\ wchan' = wchan
  BY QueueKept DEF mutex_enter
<1>4. /\ pc[t] = "enter"
      /\ owner = Null /\ owner' = t
      /\ \A u \in Waiters : kind'[u] = IF u = t THEN Null ELSE kind[u]
      /\ UNCHANGED <<ready, woken, wasted, callout, due, left, timeleft, sig, ret>>
  BY <1>1 DEF TypeOK
<1>a. TypeOK'
  BY <1>1, <1>2, <1>3, NumbersAssumption DEF TypeOK, QueueRight
<1>b. SleepsRight'
  BY <1>4, <1>2, <1>3 DEF SleepsRight
<1>c. MutexRight'
  BY <1>4, <1>2 DEF MutexRight, HasMutex, KindsRight, Timed, Interruptible
<1>d. KindsRight'
  BY <1>4, <1>2 DEF KindsRight, Timed, Interruptible, AllKinds
<1>e. CalloutsRight'
  BY <1>4, <1>2 DEF CalloutsRight, InTimedWait, KindsRight, Timed, Interruptible, AllKinds
<1>f. TimeoutTrue'
  BY <1>4, <1>2 DEF TimeoutTrue, CalloutsRight, KindsRight, InTimedWait, Timed, NoReturn
<1>g. SignalSeen'
  BY <1>4, <1>2, <1>3 DEF SignalSeen, SleepsRight, Interruptible
<1>h. TimeoutSeen'
  BY <1>4, <1>2, <1>3 DEF TimeoutSeen, SleepsRight, CalloutsRight, InTimedWait, Timed
<1>i. WakeupSeen'
  BY <1>4, <1>2, <1>3 DEF WakeupSeen, Signalling, TypeOK, MutexRight, SleepsRight
<1> QED  BY <1>3, <1>a, <1>b, <1>c, <1>d, <1>e, <1>f, <1>g, <1>h, <1>i

\* A waiter returns to its caller, and the predicate is used up.
LEMMA LeaveStep ==
  ASSUME CvInv, NEW t \in Waiters, Leave(t)
  PROVE  CvInv'
<1> USE ThreadKinds DEF CvInv
<1>1. /\ pc[t] = "test" /\ pc' = [pc EXCEPT ![t] = "idle"]
      /\ ready' = FALSE /\ woken' = {} /\ wasted' = FALSE /\ owner' = Null
      /\ ret' = [ret EXCEPT ![t] = NoReturn]
      /\ left' = [left EXCEPT ![t] = 0]
      /\ UNCHANGED <<callout, due, timeleft, sig, kind>>
  BY DEF Leave, Return, Goto, mutex, predicate, times, local
<1>2. /\ pc'[t] = "idle" /\ \A u \in Waiters \ {t} : pc'[u] = pc[u]
      /\ \A s \in Setters : pc'[s] = pc[s]
      /\ pc' \in [Threads -> WaiterLabels \cup SetterLabels]
      /\ \A u \in Waiters : pc'[u] \in WaiterLabels
      /\ \A u \in Setters : pc'[u] \in SetterLabels
  BY <1>1, WaiterMove DEF WaiterLabels, SetterLabels
<1>3. QueueRight' /\ wchan' = wchan
  BY QueueKept DEF Leave, Return
<1>t. /\ ret' \in [Waiters -> -2 .. MaxWait] /\ left' \in [Waiters -> 0 .. MaxWait]
  <2>1. ret' \in [Waiters -> -2 .. MaxWait] /\ left' \in [Waiters -> 0 .. MaxWait]
    BY <1>1, NumbersAssumption DEF TypeOK, NoReturn
  <2> QED  BY <2>1
<1>4. /\ pc[t] = "test"
      /\ ready' = FALSE /\ woken' = {} /\ wasted' = FALSE /\ owner' = Null
      /\ \A u \in Waiters : ret'[u] = IF u = t THEN NoReturn ELSE ret[u]
      /\ \A u \in Waiters : left'[u] = IF u = t THEN 0 ELSE left[u]
      /\ UNCHANGED <<callout, due, timeleft, sig, kind>>
  BY <1>1 DEF TypeOK
<1>a. TypeOK'
  BY <1>1, <1>2, <1>3, <1>t, NumbersAssumption DEF TypeOK, QueueRight
<1>b. SleepsRight'
  BY <1>4, <1>2, <1>3 DEF SleepsRight
<1>c. MutexRight'
  BY <1>4, <1>2 DEF MutexRight, HasMutex, KindsRight, Timed, Interruptible
<1>d. KindsRight'
  BY <1>4, <1>2 DEF KindsRight, Timed, Interruptible, AllKinds
<1>e. CalloutsRight'
  BY <1>4, <1>2 DEF CalloutsRight, InTimedWait, KindsRight, Timed, Interruptible, AllKinds
<1>f. TimeoutTrue'
  BY <1>4, <1>2 DEF TimeoutTrue, CalloutsRight, KindsRight, InTimedWait, Timed, NoReturn
<1>g. SignalSeen'
  BY <1>4, <1>2, <1>3 DEF SignalSeen, SleepsRight, Interruptible
<1>h. TimeoutSeen'
  BY <1>4, <1>2, <1>3 DEF TimeoutSeen, SleepsRight, CalloutsRight, InTimedWait, Timed
<1>i. WakeupSeen'
  BY <1>4, <1>2, <1>3 DEF WakeupSeen, Signalling, TypeOK, MutexRight, SleepsRight
<1> QED  BY <1>3, <1>a, <1>b, <1>c, <1>d, <1>e, <1>f, <1>g, <1>h, <1>i

\* A waiter gives up for a timeout or a signal, and the predicate stays.
LEMMA GiveUpStep ==
  ASSUME CvInv, NEW t \in Waiters, GiveUp(t)
  PROVE  CvInv'
<1> USE ThreadKinds DEF CvInv
<1>1. /\ pc[t] = "test" /\ pc' = [pc EXCEPT ![t] = "idle"]
      /\ ready' = ready /\ woken' = woken \ {t} /\ wasted' = (wasted \/ woken = {t}) /\ owner' = Null
      /\ ret' = [ret EXCEPT ![t] = NoReturn]
      /\ left' = [left EXCEPT ![t] = 0]
      /\ UNCHANGED <<callout, due, timeleft, sig, kind>>
  BY DEF GiveUp, Return, Goto, mutex, predicate, times, local
<1>2. /\ pc'[t] = "idle" /\ \A u \in Waiters \ {t} : pc'[u] = pc[u]
      /\ \A s \in Setters : pc'[s] = pc[s]
      /\ pc' \in [Threads -> WaiterLabels \cup SetterLabels]
      /\ \A u \in Waiters : pc'[u] \in WaiterLabels
      /\ \A u \in Setters : pc'[u] \in SetterLabels
  BY <1>1, WaiterMove DEF WaiterLabels, SetterLabels
<1>3. QueueRight' /\ wchan' = wchan
  BY QueueKept DEF GiveUp, Return
<1>t. /\ ret' \in [Waiters -> -2 .. MaxWait] /\ left' \in [Waiters -> 0 .. MaxWait]
  <2>1. ret' \in [Waiters -> -2 .. MaxWait] /\ left' \in [Waiters -> 0 .. MaxWait]
    BY <1>1, NumbersAssumption DEF TypeOK, NoReturn
  <2> QED  BY <2>1
<1>4. /\ pc[t] = "test"
      /\ ready' = ready /\ woken' = woken \ {t} /\ wasted' = (wasted \/ woken = {t}) /\ owner' = Null
      /\ \A u \in Waiters : ret'[u] = IF u = t THEN NoReturn ELSE ret[u]
      /\ \A u \in Waiters : left'[u] = IF u = t THEN 0 ELSE left[u]
      /\ UNCHANGED <<callout, due, timeleft, sig, kind>>
  BY <1>1 DEF TypeOK
<1>a. TypeOK'
  BY <1>1, <1>2, <1>3, <1>t, NumbersAssumption DEF TypeOK, QueueRight
<1>b. SleepsRight'
  BY <1>4, <1>2, <1>3 DEF SleepsRight
<1>c. MutexRight'
  BY <1>4, <1>2 DEF MutexRight, HasMutex, KindsRight, Timed, Interruptible
<1>d. KindsRight'
  BY <1>4, <1>2 DEF KindsRight, Timed, Interruptible, AllKinds
<1>e. CalloutsRight'
  BY <1>4, <1>2 DEF CalloutsRight, InTimedWait, KindsRight, Timed, Interruptible, AllKinds
<1>f. TimeoutTrue'
  BY <1>4, <1>2 DEF TimeoutTrue, CalloutsRight, KindsRight, InTimedWait, Timed, NoReturn
<1>g. SignalSeen'
  BY <1>4, <1>2, <1>3 DEF SignalSeen, SleepsRight, Interruptible
<1>h. TimeoutSeen'
  BY <1>4, <1>2, <1>3 DEF TimeoutSeen, SleepsRight, CalloutsRight, InTimedWait, Timed
<1>i. WakeupSeen'
  BY <1>4, <1>2, <1>3 DEF WakeupSeen, Signalling, TypeOK, MutexRight, SleepsRight
<1> QED  BY <1>3, <1>a, <1>b, <1>c, <1>d, <1>e, <1>f, <1>g, <1>h, <1>i

\* The time is up before cv_timedwait() begins.
LEMMA CallUpStep ==
  ASSUME CvInv, NEW t \in Waiters, NEW w \in 0 .. MaxWait, Calls(t, "timedwait", w), w = 0
  PROVE  CvInv'
<1> USE ThreadKinds DEF CvInv
<1>1. /\ pc[t] = "test" /\ pc' = pc
      /\ left' = [left EXCEPT ![t] = w]
      /\ timeleft' = [timeleft EXCEPT ![t] = w]
      /\ ret' = [ret EXCEPT ![t] = -1]
      /\ UNCHANGED queue
      /\ UNCHANGED <<owner, ready, woken, wasted, callout, due, sig, kind>>
  BY DEF Calls, Timed, Goto, mutex, predicate, times, local
<1>2. pc' = pc
  BY <1>1
<1>3. QueueRight' /\ wchan' = wchan
  BY QueueKept DEF Calls
<1>t. /\ left' \in [Waiters -> 0 .. MaxWait] /\ timeleft' \in [Waiters -> 0 .. MaxWait]
      /\ ret' \in [Waiters -> -2 .. MaxWait]
  <2>1. left' \in [Waiters -> 0 .. MaxWait] /\ timeleft' \in [Waiters -> 0 .. MaxWait]
    BY <1>1, NumbersAssumption DEF TypeOK
  <2>2. ret' \in [Waiters -> -2 .. MaxWait]
    BY <1>1, NumbersAssumption DEF TypeOK
  <2> QED  BY <2>1, <2>2
<1>4. /\ pc[t] = "test"
      /\ \A u \in Waiters : left'[u] = IF u = t THEN w ELSE left[u]
      /\ \A u \in Waiters : timeleft'[u] = IF u = t THEN w ELSE timeleft[u]
      /\ \A u \in Waiters : ret'[u] = IF u = t THEN -1 ELSE ret[u]
      /\ UNCHANGED <<owner, ready, woken, wasted, callout, due, sig, kind>>
  BY <1>1 DEF TypeOK
<1>a. TypeOK'
  BY <1>1, <1>2, <1>3, <1>t, NumbersAssumption DEF TypeOK, QueueRight
<1>b. SleepsRight'
  BY <1>4, <1>2, <1>3 DEF SleepsRight
<1>c. MutexRight'
  BY <1>4, <1>2 DEF MutexRight, HasMutex, KindsRight, Timed, Interruptible
<1>d. KindsRight'
  BY <1>4, <1>2 DEF KindsRight, Timed, Interruptible, AllKinds
<1>e. CalloutsRight'
  BY <1>4, <1>2 DEF CalloutsRight, InTimedWait, KindsRight, Timed, Interruptible, AllKinds
<1>f. TimeoutTrue'
  BY <1>4, <1>2 DEF TimeoutTrue, CalloutsRight, KindsRight, InTimedWait, Timed, NoReturn
<1>g. SignalSeen'
  BY <1>4, <1>2, <1>3 DEF SignalSeen, SleepsRight, Interruptible
<1>h. TimeoutSeen'
  BY <1>4, <1>2, <1>3 DEF TimeoutSeen, SleepsRight, CalloutsRight, InTimedWait, Timed
<1>i. WakeupSeen'
  BY <1>4, <1>2, <1>3 DEF WakeupSeen, Signalling, TypeOK, MutexRight, SleepsRight
<1> QED  BY <1>3, <1>a, <1>b, <1>c, <1>d, <1>e, <1>f, <1>g, <1>h, <1>i

\* The time is up before cv_timedwait_sig() begins.
LEMMA CallUpSigStep ==
  ASSUME CvInv, NEW t \in Waiters, NEW k \in Interruptible, NEW w \in 0 .. MaxWait,
         Calls(t, k, w), k \in Timed, w = 0
  PROVE  CvInv'
<1> USE ThreadKinds DEF CvInv
<1>1. /\ pc[t] = "test" /\ pc' = [pc EXCEPT ![t] = "issig"]
      /\ left' = [left EXCEPT ![t] = w]
      /\ timeleft' = [timeleft EXCEPT ![t] = w]
      /\ ret' = [ret EXCEPT ![t] = -1]
      /\ kind' = [kind EXCEPT ![t] = k]
      /\ UNCHANGED <<owner, ready, woken, wasted, callout, due, sig>>
  BY DEF Calls, Timed, Interruptible, Goto, mutex, predicate, times, local
<1>2. /\ pc'[t] = "issig" /\ \A u \in Waiters \ {t} : pc'[u] = pc[u]
      /\ \A s \in Setters : pc'[s] = pc[s]
      /\ pc' \in [Threads -> WaiterLabels \cup SetterLabels]
      /\ \A u \in Waiters : pc'[u] \in WaiterLabels
      /\ \A u \in Setters : pc'[u] \in SetterLabels
  BY <1>1, WaiterMove DEF WaiterLabels, SetterLabels
<1>3. QueueRight' /\ wchan' = wchan
  BY QueueKept DEF Calls
<1>t. /\ left' \in [Waiters -> 0 .. MaxWait] /\ timeleft' \in [Waiters -> 0 .. MaxWait]
      /\ ret' \in [Waiters -> -2 .. MaxWait]
      /\ kind' \in [Waiters -> AllKinds \cup {Null}]
  <2>1. left' \in [Waiters -> 0 .. MaxWait] /\ timeleft' \in [Waiters -> 0 .. MaxWait]
    BY <1>1, NumbersAssumption DEF TypeOK
  <2>2. ret' \in [Waiters -> -2 .. MaxWait]
    BY <1>1, NumbersAssumption DEF TypeOK
  <2>3. kind' \in [Waiters -> AllKinds \cup {Null}]
    BY <1>1 DEF TypeOK, Timed, Interruptible, AllKinds
  <2> QED  BY <2>1, <2>2, <2>3
<1>4. /\ pc[t] = "test"
      /\ \A u \in Waiters : left'[u] = IF u = t THEN w ELSE left[u]
      /\ \A u \in Waiters : timeleft'[u] = IF u = t THEN w ELSE timeleft[u]
      /\ \A u \in Waiters : ret'[u] = IF u = t THEN -1 ELSE ret[u]
      /\ \A u \in Waiters : kind'[u] = IF u = t THEN k ELSE kind[u]
      /\ UNCHANGED <<owner, ready, woken, wasted, callout, due, sig>>
  BY <1>1 DEF TypeOK
<1>a. TypeOK'
  BY <1>1, <1>2, <1>3, <1>t, NumbersAssumption DEF TypeOK, QueueRight
<1>b. SleepsRight'
  BY <1>4, <1>2, <1>3 DEF SleepsRight
<1>c. MutexRight'
  BY <1>4, <1>2 DEF MutexRight, HasMutex, KindsRight, Timed, Interruptible
<1>d. KindsRight'
  BY <1>4, <1>2 DEF KindsRight, Timed, Interruptible, AllKinds
<1>e. CalloutsRight'
  BY <1>4, <1>2 DEF CalloutsRight, InTimedWait, KindsRight, Timed, Interruptible, AllKinds
<1>f. TimeoutTrue'
  BY <1>4, <1>2 DEF TimeoutTrue, CalloutsRight, KindsRight, InTimedWait, Timed, NoReturn
<1>g. SignalSeen'
  BY <1>4, <1>2, <1>3 DEF SignalSeen, SleepsRight, Interruptible
<1>h. TimeoutSeen'
  BY <1>4, <1>2, <1>3 DEF TimeoutSeen, SleepsRight, CalloutsRight, InTimedWait, Timed
<1>i. WakeupSeen'
  BY <1>4, <1>2, <1>3 DEF WakeupSeen, Signalling, TypeOK, MutexRight, SleepsRight
<1> QED  BY <1>3, <1>a, <1>b, <1>c, <1>d, <1>e, <1>f, <1>g, <1>h, <1>i

\* A timed wait begins.
LEMMA CallTimedStep ==
  ASSUME CvInv, NEW t \in Waiters, NEW k \in Timed, NEW w \in 0 .. MaxWait, Calls(t, k, w), w # 0
  PROVE  CvInv'
<1> USE ThreadKinds DEF CvInv
<1>1. /\ pc[t] = "test" /\ pc' = [pc EXCEPT ![t] = "arm"]
      /\ left' = [left EXCEPT ![t] = w]
      /\ timeleft' = [timeleft EXCEPT ![t] = w]
      /\ ret' = [ret EXCEPT ![t] = 1] /\ ~ready
      /\ kind' = [kind EXCEPT ![t] = k]
      /\ UNCHANGED <<owner, ready, woken, wasted, callout, due, sig>>
  BY DEF Calls, Goto, mutex, predicate, times, local
<1>2. /\ pc'[t] = "arm" /\ \A u \in Waiters \ {t} : pc'[u] = pc[u]
      /\ \A s \in Setters : pc'[s] = pc[s]
      /\ pc' \in [Threads -> WaiterLabels \cup SetterLabels]
      /\ \A u \in Waiters : pc'[u] \in WaiterLabels
      /\ \A u \in Setters : pc'[u] \in SetterLabels
  BY <1>1, WaiterMove DEF WaiterLabels, SetterLabels
<1>3. QueueRight' /\ wchan' = wchan
  BY QueueKept DEF Calls
<1>t. /\ left' \in [Waiters -> 0 .. MaxWait] /\ timeleft' \in [Waiters -> 0 .. MaxWait]
      /\ ret' \in [Waiters -> -2 .. MaxWait]
      /\ kind' \in [Waiters -> AllKinds \cup {Null}]
  <2>1. left' \in [Waiters -> 0 .. MaxWait] /\ timeleft' \in [Waiters -> 0 .. MaxWait]
    BY <1>1, NumbersAssumption DEF TypeOK
  <2>2. ret' \in [Waiters -> -2 .. MaxWait]
    BY <1>1, NumbersAssumption DEF TypeOK
  <2>3. kind' \in [Waiters -> AllKinds \cup {Null}]
    BY <1>1 DEF TypeOK, Timed, Interruptible, AllKinds
  <2> QED  BY <2>1, <2>2, <2>3
<1>4. /\ pc[t] = "test"
      /\ \A u \in Waiters : left'[u] = IF u = t THEN w ELSE left[u]
      /\ \A u \in Waiters : timeleft'[u] = IF u = t THEN w ELSE timeleft[u]
      /\ \A u \in Waiters : ret'[u] = IF u = t THEN 1 ELSE ret[u]
      /\ ~ready
      /\ \A u \in Waiters : kind'[u] = IF u = t THEN k ELSE kind[u]
      /\ UNCHANGED <<owner, ready, woken, wasted, callout, due, sig>>
  BY <1>1 DEF TypeOK
<1>a. TypeOK'
  BY <1>1, <1>2, <1>3, <1>t, NumbersAssumption DEF TypeOK, QueueRight
<1>b. SleepsRight'
  BY <1>4, <1>2, <1>3 DEF SleepsRight
<1>c. MutexRight'
  BY <1>4, <1>2 DEF MutexRight, HasMutex, KindsRight, Timed, Interruptible
<1>d. KindsRight'
  BY <1>4, <1>2 DEF KindsRight, Timed, Interruptible, AllKinds
<1>e. CalloutsRight'
  BY <1>4, <1>2 DEF CalloutsRight, InTimedWait, KindsRight, Timed, Interruptible, AllKinds
<1>f. TimeoutTrue'
  BY <1>4, <1>2 DEF TimeoutTrue, CalloutsRight, KindsRight, InTimedWait, Timed, NoReturn
<1>g. SignalSeen'
  BY <1>4, <1>2, <1>3 DEF SignalSeen, SleepsRight, Interruptible
<1>h. TimeoutSeen'
  BY <1>4, <1>2, <1>3 DEF TimeoutSeen, SleepsRight, CalloutsRight, InTimedWait, Timed
<1>i. WakeupSeen'
  BY <1>4, <1>2, <1>3 DEF WakeupSeen, Signalling, TypeOK, MutexRight, SleepsRight
<1> QED  BY <1>3, <1>a, <1>b, <1>c, <1>d, <1>e, <1>f, <1>g, <1>h, <1>i

\* A wait without a timeout begins.
LEMMA CallStep ==
  ASSUME CvInv, NEW t \in Waiters, NEW k \in AllKinds \ Timed, NEW w \in 0 .. MaxWait,
         Calls(t, k, w)
  PROVE  CvInv'
<1> USE ThreadKinds DEF CvInv
<1>1. /\ pc[t] = "test" /\ pc' = [pc EXCEPT ![t] = "block"]
      /\ left' = [left EXCEPT ![t] = w]
      /\ timeleft' = [timeleft EXCEPT ![t] = w]
      /\ ret' = [ret EXCEPT ![t] = 1] /\ ~ready
      /\ kind' = [kind EXCEPT ![t] = k]
      /\ UNCHANGED <<owner, ready, woken, wasted, callout, due, sig>>
  BY DEF Calls, Goto, mutex, predicate, times, local
<1>2. /\ pc'[t] = "block" /\ \A u \in Waiters \ {t} : pc'[u] = pc[u]
      /\ \A s \in Setters : pc'[s] = pc[s]
      /\ pc' \in [Threads -> WaiterLabels \cup SetterLabels]
      /\ \A u \in Waiters : pc'[u] \in WaiterLabels
      /\ \A u \in Setters : pc'[u] \in SetterLabels
  BY <1>1, WaiterMove DEF WaiterLabels, SetterLabels
<1>3. QueueRight' /\ wchan' = wchan
  BY QueueKept DEF Calls
<1>t. /\ left' \in [Waiters -> 0 .. MaxWait] /\ timeleft' \in [Waiters -> 0 .. MaxWait]
      /\ ret' \in [Waiters -> -2 .. MaxWait]
      /\ kind' \in [Waiters -> AllKinds \cup {Null}]
  <2>1. left' \in [Waiters -> 0 .. MaxWait] /\ timeleft' \in [Waiters -> 0 .. MaxWait]
    BY <1>1, NumbersAssumption DEF TypeOK
  <2>2. ret' \in [Waiters -> -2 .. MaxWait]
    BY <1>1, NumbersAssumption DEF TypeOK
  <2>3. kind' \in [Waiters -> AllKinds \cup {Null}]
    BY <1>1 DEF TypeOK, Timed, Interruptible, AllKinds
  <2> QED  BY <2>1, <2>2, <2>3
<1>4. /\ pc[t] = "test"
      /\ \A u \in Waiters : left'[u] = IF u = t THEN w ELSE left[u]
      /\ \A u \in Waiters : timeleft'[u] = IF u = t THEN w ELSE timeleft[u]
      /\ \A u \in Waiters : ret'[u] = IF u = t THEN 1 ELSE ret[u]
      /\ ~ready
      /\ \A u \in Waiters : kind'[u] = IF u = t THEN k ELSE kind[u]
      /\ UNCHANGED <<owner, ready, woken, wasted, callout, due, sig>>
  BY <1>1 DEF TypeOK
<1>a. TypeOK'
  BY <1>1, <1>2, <1>3, <1>t, NumbersAssumption DEF TypeOK, QueueRight
<1>b. SleepsRight'
  BY <1>4, <1>2, <1>3 DEF SleepsRight
<1>c. MutexRight'
  BY <1>4, <1>2 DEF MutexRight, HasMutex, KindsRight, Timed, Interruptible
<1>d. KindsRight'
  BY <1>4, <1>2 DEF KindsRight, Timed, Interruptible, AllKinds
<1>e. CalloutsRight'
  BY <1>4, <1>2 DEF CalloutsRight, InTimedWait, KindsRight, Timed, Interruptible, AllKinds
<1>f. TimeoutTrue'
  BY <1>4, <1>2 DEF TimeoutTrue, CalloutsRight, KindsRight, InTimedWait, Timed, NoReturn
<1>g. SignalSeen'
  BY <1>4, <1>2, <1>3 DEF SignalSeen, SleepsRight, Interruptible
<1>h. TimeoutSeen'
  BY <1>4, <1>2, <1>3 DEF TimeoutSeen, SleepsRight, CalloutsRight, InTimedWait, Timed
<1>i. WakeupSeen'
  BY <1>4, <1>2, <1>3 DEF WakeupSeen, Signalling, TypeOK, MutexRight, SleepsRight
<1> QED  BY <1>3, <1>a, <1>b, <1>c, <1>d, <1>e, <1>f, <1>g, <1>h, <1>i

\* realtime_timeout().
LEMMA ArmStep ==
  ASSUME CvInv, NEW t \in Waiters, realtime_timeout(t)
  PROVE  CvInv'
<1> USE ThreadKinds DEF CvInv
<1>1. /\ pc[t] = "arm" /\ pc' = [pc EXCEPT ![t] = "block"]
      /\ callout' = [callout EXCEPT ![t] = "pending"]
      /\ due' = [due EXCEPT ![t] = timeleft[t]]
      /\ timeleft' = [timeleft EXCEPT ![t] = 0]
      /\ UNCHANGED <<owner, ready, woken, wasted, left, sig, kind, ret>>
  BY DEF realtime_timeout, Goto, mutex, predicate, times, local
<1>2. /\ pc'[t] = "block" /\ \A u \in Waiters \ {t} : pc'[u] = pc[u]
      /\ \A s \in Setters : pc'[s] = pc[s]
      /\ pc' \in [Threads -> WaiterLabels \cup SetterLabels]
      /\ \A u \in Waiters : pc'[u] \in WaiterLabels
      /\ \A u \in Setters : pc'[u] \in SetterLabels
  BY <1>1, WaiterMove DEF WaiterLabels, SetterLabels
<1>3. QueueRight' /\ wchan' = wchan
  BY QueueKept DEF realtime_timeout
<1>t. /\ due' \in [Waiters -> 0 .. MaxWait] /\ timeleft' \in [Waiters -> 0 .. MaxWait]
  <2>1. due' \in [Waiters -> 0 .. MaxWait] /\ timeleft' \in [Waiters -> 0 .. MaxWait]
    BY <1>1, NumbersAssumption DEF TypeOK
  <2> QED  BY <2>1
<1>4. /\ pc[t] = "arm"
      /\ \A u \in Waiters : callout'[u] = IF u = t THEN "pending" ELSE callout[u]
      /\ \A u \in Waiters : due'[u] = IF u = t THEN timeleft[t] ELSE due[u]
      /\ \A u \in Waiters : timeleft'[u] = IF u = t THEN 0 ELSE timeleft[u]
      /\ \A u \in Waiters : left[u] \in Nat /\ due[u] \in Nat
      /\ UNCHANGED <<owner, ready, woken, wasted, left, sig, kind, ret>>
  BY <1>1 DEF TypeOK
<1>a. TypeOK'
  BY <1>1, <1>2, <1>3, <1>t, NumbersAssumption DEF TypeOK, QueueRight
<1>b. SleepsRight'
  BY <1>4, <1>2, <1>3 DEF SleepsRight
<1>c. MutexRight'
  BY <1>4, <1>2 DEF MutexRight, HasMutex, KindsRight, Timed, Interruptible
<1>d. KindsRight'
  BY <1>4, <1>2 DEF KindsRight, Timed, Interruptible, AllKinds
<1>e. CalloutsRight'
  BY <1>4, <1>2 DEF CalloutsRight, InTimedWait, KindsRight, Timed, Interruptible, AllKinds
<1>f. TimeoutTrue'
  BY <1>4, <1>2 DEF TimeoutTrue, CalloutsRight, KindsRight, InTimedWait, Timed, NoReturn
<1>g. SignalSeen'
  BY <1>4, <1>2, <1>3 DEF SignalSeen, SleepsRight, Interruptible
<1>h. TimeoutSeen'
  BY <1>4, <1>2, <1>3 DEF TimeoutSeen, SleepsRight, CalloutsRight, InTimedWait, Timed
<1>i. WakeupSeen'
  BY <1>4, <1>2, <1>3 DEF WakeupSeen, Signalling, TypeOK, MutexRight, SleepsRight
<1> QED  BY <1>3, <1>a, <1>b, <1>c, <1>d, <1>e, <1>f, <1>g, <1>h, <1>i

\* cv_block(), with the mutex still held.
LEMMA BlockStep ==
  ASSUME CvInv, NEW t \in Waiters, block(t)
  PROVE  CvInv'
<1> USE ThreadKinds DEF CvInv
<1>1. /\ pc[t] = "block" /\ pc' = [pc EXCEPT ![t] = "exit"]
      /\ UNCHANGED <<owner, ready, woken, wasted, callout, due, left, timeleft, sig, kind, ret>>
  BY DEF block, Goto, mutex, predicate, times, local
<1>2. /\ pc'[t] = "exit" /\ \A u \in Waiters \ {t} : pc'[u] = pc[u]
      /\ \A s \in Setters : pc'[s] = pc[s]
      /\ pc' \in [Threads -> WaiterLabels \cup SetterLabels]
      /\ \A u \in Waiters : pc'[u] \in WaiterLabels
      /\ \A u \in Setters : pc'[u] \in SetterLabels
  BY <1>1, WaiterMove DEF WaiterLabels, SetterLabels
<1>3. QueueRight' /\ \A u \in Waiters : wchan'[u] = IF u = t THEN Cv ELSE wchan[u]
  <2>1. wchan[t] = Null /\ cv_block(t, Cv)
    BY <1>1 DEF SleepsRight, block
  <2> QED  BY <2>1, BlockQueue
<1>a. TypeOK'
  BY <1>1, <1>2, <1>3, NumbersAssumption DEF TypeOK, QueueRight
<1>b. SleepsRight'
  BY <1>1, <1>2, <1>3 DEF SleepsRight
<1>c. MutexRight'
  BY <1>1, <1>2 DEF MutexRight, HasMutex, KindsRight, Timed, Interruptible
<1>d. KindsRight'
  BY <1>1, <1>2 DEF KindsRight, Timed, Interruptible, AllKinds
<1>e. CalloutsRight'
  BY <1>1, <1>2 DEF CalloutsRight, InTimedWait, KindsRight, Timed, Interruptible, AllKinds
<1>f. TimeoutTrue'
  BY <1>1, <1>2 DEF TimeoutTrue, CalloutsRight, KindsRight, InTimedWait, Timed, NoReturn
<1>g. SignalSeen'
  BY <1>1, <1>2, <1>3 DEF SignalSeen, SleepsRight, Interruptible
<1>h. TimeoutSeen'
  BY <1>1, <1>2, <1>3 DEF TimeoutSeen, SleepsRight, CalloutsRight, InTimedWait, Timed
<1>i. WakeupSeen'
  BY <1>1, <1>2, <1>3 DEF WakeupSeen, Signalling, TypeOK, MutexRight, SleepsRight
<1> QED  BY <1>3, <1>a, <1>b, <1>c, <1>d, <1>e, <1>f, <1>g, <1>h, <1>i

\* schedctl_block() has the waiter not sleep.
LEMMA ScBlockStep ==
  ASSUME CvInv, NEW t \in Waiters, schedctl_block(t)
  PROVE  CvInv'
<1> USE ThreadKinds DEF CvInv
<1>1. /\ pc[t] = "block" /\ pc' = [pc EXCEPT ![t] = "enter"]
      /\ kind[t] \in Interruptible /\ owner' = Null
      /\ UNCHANGED <<ready, woken, wasted, callout, due, left, timeleft, sig, kind, ret>>
  BY DEF schedctl_block, Goto, mutex, predicate, times, local
<1>2. /\ pc'[t] = "enter" /\ \A u \in Waiters \ {t} : pc'[u] = pc[u]
      /\ \A s \in Setters : pc'[s] = pc[s]
      /\ pc' \in [Threads -> WaiterLabels \cup SetterLabels]
      /\ \A u \in Waiters : pc'[u] \in WaiterLabels
      /\ \A u \in Setters : pc'[u] \in SetterLabels
  BY <1>1, WaiterMove DEF WaiterLabels, SetterLabels
<1>3. QueueRight' /\ wchan' = wchan
  BY QueueKept DEF schedctl_block
<1>a. TypeOK'
  BY <1>1, <1>2, <1>3, NumbersAssumption DEF TypeOK, QueueRight
<1>b. SleepsRight'
  BY <1>1, <1>2, <1>3 DEF SleepsRight
<1>c. MutexRight'
  BY <1>1, <1>2 DEF MutexRight, HasMutex, KindsRight, Timed, Interruptible
<1>d. KindsRight'
  BY <1>1, <1>2 DEF KindsRight, Timed, Interruptible, AllKinds
<1>e. CalloutsRight'
  BY <1>1, <1>2 DEF CalloutsRight, InTimedWait, KindsRight, Timed, Interruptible, AllKinds
<1>f. TimeoutTrue'
  BY <1>1, <1>2 DEF TimeoutTrue, CalloutsRight, KindsRight, InTimedWait, Timed, NoReturn
<1>g. SignalSeen'
  BY <1>1, <1>2, <1>3 DEF SignalSeen, SleepsRight, Interruptible
<1>h. TimeoutSeen'
  BY <1>1, <1>2, <1>3 DEF TimeoutSeen, SleepsRight, CalloutsRight, InTimedWait, Timed
<1>i. WakeupSeen'
  BY <1>1, <1>2, <1>3 DEF WakeupSeen, Signalling, TypeOK, MutexRight, SleepsRight
<1> QED  BY <1>3, <1>a, <1>b, <1>c, <1>d, <1>e, <1>f, <1>g, <1>h, <1>i

\* The waiter drops the mutex, already on the queue.
LEMMA ExitStep ==
  ASSUME CvInv, NEW t \in Waiters, mutex_exit(t)
  PROVE  CvInv'
<1> USE ThreadKinds DEF CvInv
<1> DEFINE l == IF kind[t] = "wait" THEN "swtch" ELSE "look"
<1>1. /\ pc[t] = "exit" /\ pc' = [pc EXCEPT ![t] = l]
      /\ owner' = IF owner = t THEN Null ELSE owner
      /\ l \in {"swtch", "look"}
      /\ l = "look" <=> kind[t] # "wait"
      /\ UNCHANGED <<ready, woken, wasted, callout, due, left, timeleft, sig, kind, ret>>
  BY DEF mutex_exit, Goto, mutex, predicate, times, local
<1> HIDE DEF l
<1>2. /\ pc'[t] = l /\ \A u \in Waiters \ {t} : pc'[u] = pc[u]
      /\ \A s \in Setters : pc'[s] = pc[s]
      /\ pc' \in [Threads -> WaiterLabels \cup SetterLabels]
      /\ \A u \in Waiters : pc'[u] \in WaiterLabels
      /\ \A u \in Setters : pc'[u] \in SetterLabels
  BY <1>1, WaiterMove DEF WaiterLabels, SetterLabels
<1>3. QueueRight' /\ wchan' = wchan
  BY QueueKept DEF mutex_exit
<1>a. TypeOK'
  BY <1>1, <1>2, <1>3, NumbersAssumption DEF TypeOK, QueueRight
<1>b. SleepsRight'
  BY <1>1, <1>2, <1>3 DEF SleepsRight
<1>c. MutexRight'
  BY <1>1, <1>2 DEF MutexRight, HasMutex, KindsRight, Timed, Interruptible
<1>d. KindsRight'
  BY <1>1, <1>2 DEF KindsRight, Timed, Interruptible, AllKinds
<1>e. CalloutsRight'
  BY <1>1, <1>2 DEF CalloutsRight, InTimedWait, KindsRight, Timed, Interruptible, AllKinds
<1>f. TimeoutTrue'
  BY <1>1, <1>2 DEF TimeoutTrue, CalloutsRight, KindsRight, InTimedWait, Timed, NoReturn
<1>g. SignalSeen'
  BY <1>1, <1>2, <1>3 DEF SignalSeen, SleepsRight, Interruptible
<1>h. TimeoutSeen'
  BY <1>1, <1>2, <1>3 DEF TimeoutSeen, SleepsRight, CalloutsRight, InTimedWait, Timed
<1>i. WakeupSeen'
  BY <1>1, <1>2, <1>3 DEF WakeupSeen, Signalling, TypeOK, MutexRight, SleepsRight
<1> QED  BY <1>3, <1>a, <1>b, <1>c, <1>d, <1>e, <1>f, <1>g, <1>h, <1>i

\* The waiter finds that its time is up or a signal there.
LEMMA LookRunStep ==
  ASSUME CvInv, NEW t \in Waiters, look(t),
         \/ kind[t] \in Timed /\ left[t] = 0
         \/ kind[t] \in Interruptible /\ t \in sig
  PROVE  CvInv'
<1> USE ThreadKinds DEF CvInv
<1>1. /\ pc[t] = "look" /\ pc' = [pc EXCEPT ![t] = "swtch"]
      /\ UNCHANGED <<owner, ready, woken, wasted, callout, due, left, timeleft, sig, kind, ret>>
  BY DEF look, Goto, mutex, predicate, times, local
<1>2. /\ pc'[t] = "swtch" /\ \A u \in Waiters \ {t} : pc'[u] = pc[u]
      /\ \A s \in Setters : pc'[s] = pc[s]
      /\ pc' \in [Threads -> WaiterLabels \cup SetterLabels]
      /\ \A u \in Waiters : pc'[u] \in WaiterLabels
      /\ \A u \in Setters : pc'[u] \in SetterLabels
  BY <1>1, WaiterMove DEF WaiterLabels, SetterLabels
<1>3. QueueRight' /\ \A u \in Waiters : wchan'[u] = IF u = t THEN Null ELSE wchan[u]
  BY SetrunQueue DEF look
<1>a. TypeOK'
  BY <1>1, <1>2, <1>3, NumbersAssumption DEF TypeOK, QueueRight
<1>b. SleepsRight'
  BY <1>1, <1>2, <1>3 DEF SleepsRight
<1>c. MutexRight'
  BY <1>1, <1>2 DEF MutexRight, HasMutex, KindsRight, Timed, Interruptible
<1>d. KindsRight'
  BY <1>1, <1>2 DEF KindsRight, Timed, Interruptible, AllKinds
<1>e. CalloutsRight'
  BY <1>1, <1>2 DEF CalloutsRight, InTimedWait, KindsRight, Timed, Interruptible, AllKinds
<1>f. TimeoutTrue'
  BY <1>1, <1>2 DEF TimeoutTrue, CalloutsRight, KindsRight, InTimedWait, Timed, NoReturn
<1>g. SignalSeen'
  BY <1>1, <1>2, <1>3 DEF SignalSeen, SleepsRight, Interruptible
<1>h. TimeoutSeen'
  BY <1>1, <1>2, <1>3 DEF TimeoutSeen, SleepsRight, CalloutsRight, InTimedWait, Timed
<1>i. WakeupSeen'
  BY <1>1, <1>2, <1>3 DEF WakeupSeen, Signalling, TypeOK, MutexRight, SleepsRight
<1> QED  BY <1>3, <1>a, <1>b, <1>c, <1>d, <1>e, <1>f, <1>g, <1>h, <1>i

\* The waiter finds neither.
LEMMA LookStep ==
  ASSUME CvInv, NEW t \in Waiters, look(t), ~(kind[t] \in Timed /\ left[t] = 0),
         ~(kind[t] \in Interruptible /\ t \in sig)
  PROVE  CvInv'
<1> USE ThreadKinds DEF CvInv
<1>1. /\ pc[t] = "look" /\ pc' = [pc EXCEPT ![t] = "swtch"]
      /\ UNCHANGED <<owner, ready, woken, wasted, callout, due, left, timeleft, sig, kind, ret>>
  BY DEF look, Goto, mutex, predicate, times, local
<1>2. /\ pc'[t] = "swtch" /\ \A u \in Waiters \ {t} : pc'[u] = pc[u]
      /\ \A s \in Setters : pc'[s] = pc[s]
      /\ pc' \in [Threads -> WaiterLabels \cup SetterLabels]
      /\ \A u \in Waiters : pc'[u] \in WaiterLabels
      /\ \A u \in Setters : pc'[u] \in SetterLabels
  BY <1>1, WaiterMove DEF WaiterLabels, SetterLabels
<1>3. QueueRight' /\ wchan' = wchan
  BY QueueKept DEF look
<1>a. TypeOK'
  BY <1>1, <1>2, <1>3, NumbersAssumption DEF TypeOK, QueueRight
<1>b. SleepsRight'
  BY <1>1, <1>2, <1>3 DEF SleepsRight
<1>c. MutexRight'
  BY <1>1, <1>2 DEF MutexRight, HasMutex, KindsRight, Timed, Interruptible
<1>d. KindsRight'
  BY <1>1, <1>2 DEF KindsRight, Timed, Interruptible, AllKinds
<1>e. CalloutsRight'
  BY <1>1, <1>2 DEF CalloutsRight, InTimedWait, KindsRight, Timed, Interruptible, AllKinds
<1>f. TimeoutTrue'
  BY <1>1, <1>2 DEF TimeoutTrue, CalloutsRight, KindsRight, InTimedWait, Timed, NoReturn
<1>g. SignalSeen'
  BY <1>1, <1>2, <1>3 DEF SignalSeen, SleepsRight, Interruptible
<1>h. TimeoutSeen'
  BY <1>1, <1>2, <1>3 DEF TimeoutSeen, SleepsRight, CalloutsRight, InTimedWait, Timed
<1>i. WakeupSeen'
  BY <1>1, <1>2, <1>3 DEF WakeupSeen, Signalling, TypeOK, MutexRight, SleepsRight
<1> QED  BY <1>3, <1>a, <1>b, <1>c, <1>d, <1>e, <1>f, <1>g, <1>h, <1>i

\* The waiter runs again.
LEMMA SwtchStep ==
  ASSUME CvInv, NEW t \in Waiters, swtch(t)
  PROVE  CvInv'
<1> USE ThreadKinds DEF CvInv
<1> DEFINE l == IF kind[t] \in {"timedwait", "wait_stop"} THEN "untimeout" ELSE "enter"
<1>1. /\ pc[t] = "swtch" /\ pc' = [pc EXCEPT ![t] = l]
      /\ wchan[t] = Null
      /\ l \in {"untimeout", "enter"}
      /\ l = "untimeout" <=> kind[t] \in {"timedwait", "wait_stop"}
      /\ UNCHANGED <<owner, ready, woken, wasted, callout, due, left, timeleft, sig, kind, ret>>
  BY DEF swtch, QueueRight, QueueExact, Goto, mutex, predicate, times, local
<1> HIDE DEF l
<1>2. /\ pc'[t] = l /\ \A u \in Waiters \ {t} : pc'[u] = pc[u]
      /\ \A s \in Setters : pc'[s] = pc[s]
      /\ pc' \in [Threads -> WaiterLabels \cup SetterLabels]
      /\ \A u \in Waiters : pc'[u] \in WaiterLabels
      /\ \A u \in Setters : pc'[u] \in SetterLabels
  BY <1>1, WaiterMove DEF WaiterLabels, SetterLabels
<1>3. QueueRight' /\ wchan' = wchan
  BY QueueKept DEF swtch
<1>a. TypeOK'
  BY <1>1, <1>2, <1>3, NumbersAssumption DEF TypeOK, QueueRight
<1>b. SleepsRight'
  BY <1>1, <1>2, <1>3 DEF SleepsRight
<1>c. MutexRight'
  BY <1>1, <1>2 DEF MutexRight, HasMutex, KindsRight, Timed, Interruptible
<1>d. KindsRight'
  BY <1>1, <1>2 DEF KindsRight, Timed, Interruptible, AllKinds
<1>e. CalloutsRight'
  BY <1>1, <1>2 DEF CalloutsRight, InTimedWait, KindsRight, Timed, Interruptible, AllKinds
<1>f. TimeoutTrue'
  BY <1>1, <1>2 DEF TimeoutTrue, CalloutsRight, KindsRight, InTimedWait, Timed, NoReturn
<1>g. SignalSeen'
  BY <1>1, <1>2, <1>3 DEF SignalSeen, SleepsRight, Interruptible
<1>h. TimeoutSeen'
  BY <1>1, <1>2, <1>3 DEF TimeoutSeen, SleepsRight, CalloutsRight, InTimedWait, Timed
<1>i. WakeupSeen'
  BY <1>1, <1>2, <1>3 DEF WakeupSeen, Signalling, TypeOK, MutexRight, SleepsRight
<1> QED  BY <1>3, <1>a, <1>b, <1>c, <1>d, <1>e, <1>f, <1>g, <1>h, <1>i

\* The interruptible waits, with the mutex.
LEMMA AwakeStep ==
  ASSUME CvInv, NEW t \in Waiters, awake(t)
  PROVE  CvInv'
<1> USE ThreadKinds DEF CvInv
<1> DEFINE l == IF kind[t] = "timedwait_sig" THEN "untimeout" ELSE "issig"
<1>1. /\ pc[t] = "awake" /\ pc' = [pc EXCEPT ![t] = l]
      /\ l \in {"untimeout", "issig"}
      /\ l = "untimeout" <=> kind[t] = "timedwait_sig"
      /\ UNCHANGED <<owner, ready, woken, wasted, callout, due, left, timeleft, sig, kind, ret>>
  BY DEF awake, Goto, mutex, predicate, times, local
<1> HIDE DEF l
<1>2. /\ pc'[t] = l /\ \A u \in Waiters \ {t} : pc'[u] = pc[u]
      /\ \A s \in Setters : pc'[s] = pc[s]
      /\ pc' \in [Threads -> WaiterLabels \cup SetterLabels]
      /\ \A u \in Waiters : pc'[u] \in WaiterLabels
      /\ \A u \in Setters : pc'[u] \in SetterLabels
  BY <1>1, WaiterMove DEF WaiterLabels, SetterLabels
<1>3. QueueRight' /\ wchan' = wchan
  BY QueueKept DEF awake
<1>a. TypeOK'
  BY <1>1, <1>2, <1>3, NumbersAssumption DEF TypeOK, QueueRight
<1>b. SleepsRight'
  BY <1>1, <1>2, <1>3 DEF SleepsRight
<1>c. MutexRight'
  BY <1>1, <1>2 DEF MutexRight, HasMutex, KindsRight, Timed, Interruptible
<1>d. KindsRight'
  BY <1>1, <1>2 DEF KindsRight, Timed, Interruptible, AllKinds
<1>e. CalloutsRight'
  BY <1>1, <1>2 DEF CalloutsRight, InTimedWait, KindsRight, Timed, Interruptible, AllKinds
<1>f. TimeoutTrue'
  BY <1>1, <1>2 DEF TimeoutTrue, CalloutsRight, KindsRight, InTimedWait, Timed, NoReturn
<1>g. SignalSeen'
  BY <1>1, <1>2, <1>3 DEF SignalSeen, SleepsRight, Interruptible
<1>h. TimeoutSeen'
  BY <1>1, <1>2, <1>3 DEF TimeoutSeen, SleepsRight, CalloutsRight, InTimedWait, Timed
<1>i. WakeupSeen'
  BY <1>1, <1>2, <1>3 DEF WakeupSeen, Signalling, TypeOK, MutexRight, SleepsRight
<1> QED  BY <1>3, <1>a, <1>b, <1>c, <1>d, <1>e, <1>f, <1>g, <1>h, <1>i

\* untimeout() takes the callout back.
LEMMA PendingStep ==
  ASSUME CvInv, NEW t \in Waiters, untimeout_pending(t)
  PROVE  CvInv'
<1> USE ThreadKinds DEF CvInv
<1> DEFINE l == AfterUntimeout(t)
<1>1. /\ pc[t] = "untimeout" /\ pc' = [pc EXCEPT ![t] = l]
      /\ callout[t] = "pending" /\ callout' = [callout EXCEPT ![t] = "idle"]
      /\ due' = [due EXCEPT ![t] = 0]
      /\ ret' = [ret EXCEPT ![t] = IF kind[t] = "wait_stop" THEN 1
                              ELSE IF due[t] <= 0 THEN -1 ELSE due[t]]
      /\ l \in {"enter", "stop", "issig"}
      /\ l = "enter" <=> kind[t] = "timedwait"
      /\ l = "stop" <=> kind[t] = "wait_stop"
      /\ UNCHANGED <<owner, ready, woken, wasted, left, timeleft, sig, kind>>
  BY DEF untimeout_pending, Result, AfterUntimeout, Goto, mutex, predicate, times, local
<1> HIDE DEF l
<1>2. /\ pc'[t] = l /\ \A u \in Waiters \ {t} : pc'[u] = pc[u]
      /\ \A s \in Setters : pc'[s] = pc[s]
      /\ pc' \in [Threads -> WaiterLabels \cup SetterLabels]
      /\ \A u \in Waiters : pc'[u] \in WaiterLabels
      /\ \A u \in Setters : pc'[u] \in SetterLabels
  BY <1>1, WaiterMove DEF WaiterLabels, SetterLabels
<1>3. QueueRight' /\ wchan' = wchan
  BY QueueKept DEF untimeout_pending
<1>t. /\ due' \in [Waiters -> 0 .. MaxWait]
      /\ ret' \in [Waiters -> -2 .. MaxWait]
  <2>1. due' \in [Waiters -> 0 .. MaxWait]
    BY <1>1, NumbersAssumption DEF TypeOK
  <2>2. ret' \in [Waiters -> -2 .. MaxWait]
    BY <1>1, NumbersAssumption DEF TypeOK
  <2> QED  BY <2>1, <2>2
<1>4. /\ pc[t] = "untimeout"
      /\ callout[t] = "pending"
      /\ \A u \in Waiters : callout'[u] = IF u = t THEN "idle" ELSE callout[u]
      /\ \A u \in Waiters : due'[u] = IF u = t THEN 0 ELSE due[u]
      /\ \A u \in Waiters :
           ret'[u] = IF u # t THEN ret[u]
                     ELSE IF kind[t] = "wait_stop" THEN 1
                     ELSE IF due[t] <= 0 THEN -1 ELSE due[t]
      /\ l \in {"enter", "stop", "issig"}
      /\ l = "enter" <=> kind[t] = "timedwait"
      /\ l = "stop" <=> kind[t] = "wait_stop"
      /\ \A u \in Waiters : left[u] \in Nat /\ due[u] \in Nat
      /\ UNCHANGED <<owner, ready, woken, wasted, left, timeleft, sig, kind>>
  BY <1>1 DEF TypeOK
<1>a. TypeOK'
  BY <1>1, <1>2, <1>3, <1>t, NumbersAssumption DEF TypeOK, QueueRight
<1>b. SleepsRight'
  BY <1>4, <1>2, <1>3 DEF SleepsRight
<1>c. MutexRight'
  BY <1>4, <1>2 DEF MutexRight, HasMutex, KindsRight, Timed, Interruptible
<1>d. KindsRight'
  BY <1>4, <1>2 DEF KindsRight, Timed, Interruptible, AllKinds
<1>e. CalloutsRight'
  BY <1>4, <1>2 DEF CalloutsRight, InTimedWait, KindsRight, Timed, Interruptible, AllKinds
<1>f. TimeoutTrue'
  BY <1>4, <1>2 DEF TimeoutTrue, CalloutsRight, KindsRight, InTimedWait, Timed, NoReturn
<1>g. SignalSeen'
  BY <1>4, <1>2, <1>3 DEF SignalSeen, SleepsRight, Interruptible
<1>h. TimeoutSeen'
  BY <1>4, <1>2, <1>3 DEF TimeoutSeen, SleepsRight, CalloutsRight, InTimedWait, Timed
<1>i. WakeupSeen'
  BY <1>4, <1>2, <1>3 DEF WakeupSeen, Signalling, TypeOK, MutexRight, SleepsRight
<1> QED  BY <1>3, <1>a, <1>b, <1>c, <1>d, <1>e, <1>f, <1>g, <1>h, <1>i

\* untimeout() finds the callout gone.
LEMMA DoneStep ==
  ASSUME CvInv, NEW t \in Waiters, untimeout_done(t)
  PROVE  CvInv'
<1> USE ThreadKinds DEF CvInv
<1> DEFINE l == AfterUntimeout(t)
<1>1. /\ pc[t] = "untimeout" /\ pc' = [pc EXCEPT ![t] = l]
      /\ callout[t] = "idle"
      /\ ret' = [ret EXCEPT ![t] = IF kind[t] = "wait_stop" THEN 1 ELSE -1]
      /\ l \in {"enter", "stop", "issig"}
      /\ l = "enter" <=> kind[t] = "timedwait"
      /\ l = "stop" <=> kind[t] = "wait_stop"
      /\ UNCHANGED <<owner, ready, woken, wasted, callout, due, left, timeleft, sig, kind>>
  BY DEF untimeout_done, Result, AfterUntimeout, Goto, mutex, predicate, times, local
<1> HIDE DEF l
<1>2. /\ pc'[t] = l /\ \A u \in Waiters \ {t} : pc'[u] = pc[u]
      /\ \A s \in Setters : pc'[s] = pc[s]
      /\ pc' \in [Threads -> WaiterLabels \cup SetterLabels]
      /\ \A u \in Waiters : pc'[u] \in WaiterLabels
      /\ \A u \in Setters : pc'[u] \in SetterLabels
  BY <1>1, WaiterMove DEF WaiterLabels, SetterLabels
<1>3. QueueRight' /\ wchan' = wchan
  BY QueueKept DEF untimeout_done
<1>t. /\ ret' \in [Waiters -> -2 .. MaxWait]
  <2>1. ret' \in [Waiters -> -2 .. MaxWait]
    BY <1>1, NumbersAssumption DEF TypeOK
  <2> QED  BY <2>1
<1>4. /\ pc[t] = "untimeout"
      /\ callout[t] = "idle"
      /\ \A u \in Waiters :
           ret'[u] = IF u # t THEN ret[u] ELSE IF kind[t] = "wait_stop" THEN 1 ELSE -1
      /\ l \in {"enter", "stop", "issig"}
      /\ l = "enter" <=> kind[t] = "timedwait"
      /\ l = "stop" <=> kind[t] = "wait_stop"
      /\ UNCHANGED <<owner, ready, woken, wasted, callout, due, left, timeleft, sig, kind>>
  BY <1>1 DEF TypeOK
<1>a. TypeOK'
  BY <1>1, <1>2, <1>3, <1>t, NumbersAssumption DEF TypeOK, QueueRight
<1>b. SleepsRight'
  BY <1>4, <1>2, <1>3 DEF SleepsRight
<1>c. MutexRight'
  BY <1>4, <1>2 DEF MutexRight, HasMutex, KindsRight, Timed, Interruptible
<1>d. KindsRight'
  BY <1>4, <1>2 DEF KindsRight, Timed, Interruptible, AllKinds
<1>e. CalloutsRight'
  BY <1>4, <1>2 DEF CalloutsRight, InTimedWait, KindsRight, Timed, Interruptible, AllKinds
<1>f. TimeoutTrue'
  BY <1>4, <1>2 DEF TimeoutTrue, CalloutsRight, KindsRight, InTimedWait, Timed, NoReturn
<1>g. SignalSeen'
  BY <1>4, <1>2, <1>3 DEF SignalSeen, SleepsRight, Interruptible
<1>h. TimeoutSeen'
  BY <1>4, <1>2, <1>3 DEF TimeoutSeen, SleepsRight, CalloutsRight, InTimedWait, Timed
<1>i. WakeupSeen'
  BY <1>4, <1>2, <1>3 DEF WakeupSeen, Signalling, TypeOK, MutexRight, SleepsRight
<1> QED  BY <1>3, <1>a, <1>b, <1>c, <1>d, <1>e, <1>f, <1>g, <1>h, <1>i

\* untimeout() sleeps until the callout is over.
LEMMA DoneWaitStep ==
  ASSUME CvInv, NEW t \in Waiters, untimeout_wait(t)
  PROVE  CvInv'
<1> USE ThreadKinds DEF CvInv
<1>1. /\ pc[t] = "untimeout" /\ pc' = [pc EXCEPT ![t] = "done_wait"]
      /\ callout[t] \in {"running", "ran"}
      /\ UNCHANGED <<owner, ready, woken, wasted, callout, due, left, timeleft, sig, kind, ret>>
  BY DEF untimeout_wait, Goto, mutex, predicate, times, local
<1>2. /\ pc'[t] = "done_wait" /\ \A u \in Waiters \ {t} : pc'[u] = pc[u]
      /\ \A s \in Setters : pc'[s] = pc[s]
      /\ pc' \in [Threads -> WaiterLabels \cup SetterLabels]
      /\ \A u \in Waiters : pc'[u] \in WaiterLabels
      /\ \A u \in Setters : pc'[u] \in SetterLabels
  BY <1>1, WaiterMove DEF WaiterLabels, SetterLabels
<1>3. QueueRight' /\ \A u \in Waiters : wchan'[u] = IF u = t THEN t ELSE wchan[u]
  <2>1. wchan[t] = Null /\ cv_block(t, t)
    BY <1>1 DEF SleepsRight, untimeout_wait
  <2> QED  BY <2>1, BlockQueue
<1>a. TypeOK'
  BY <1>1, <1>2, <1>3, NumbersAssumption DEF TypeOK, QueueRight
<1>b. SleepsRight'
  BY <1>1, <1>2, <1>3 DEF SleepsRight
<1>c. MutexRight'
  BY <1>1, <1>2 DEF MutexRight, HasMutex, KindsRight, Timed, Interruptible
<1>d. KindsRight'
  BY <1>1, <1>2 DEF KindsRight, Timed, Interruptible, AllKinds
<1>e. CalloutsRight'
  BY <1>1, <1>2 DEF CalloutsRight, InTimedWait, KindsRight, Timed, Interruptible, AllKinds
<1>f. TimeoutTrue'
  BY <1>1, <1>2 DEF TimeoutTrue, CalloutsRight, KindsRight, InTimedWait, Timed, NoReturn
<1>g. SignalSeen'
  BY <1>1, <1>2, <1>3 DEF SignalSeen, SleepsRight, Interruptible
<1>h. TimeoutSeen'
  BY <1>1, <1>2, <1>3 DEF TimeoutSeen, SleepsRight, CalloutsRight, InTimedWait, Timed
<1>i. WakeupSeen'
  BY <1>1, <1>2, <1>3 DEF WakeupSeen, Signalling, TypeOK, MutexRight, SleepsRight
<1> QED  BY <1>3, <1>a, <1>b, <1>c, <1>d, <1>e, <1>f, <1>g, <1>h, <1>i

\* untimeout() looks again.
LEMMA DoneWokenStep ==
  ASSUME CvInv, NEW t \in Waiters, untimeout_woken(t)
  PROVE  CvInv'
<1> USE ThreadKinds DEF CvInv
<1>1. /\ pc[t] = "done_wait" /\ pc' = [pc EXCEPT ![t] = "untimeout"]
      /\ wchan[t] = Null
      /\ UNCHANGED <<owner, ready, woken, wasted, callout, due, left, timeleft, sig, kind, ret>>
  BY DEF untimeout_woken, QueueRight, QueueExact, Goto, mutex, predicate, times, local
<1>2. /\ pc'[t] = "untimeout" /\ \A u \in Waiters \ {t} : pc'[u] = pc[u]
      /\ \A s \in Setters : pc'[s] = pc[s]
      /\ pc' \in [Threads -> WaiterLabels \cup SetterLabels]
      /\ \A u \in Waiters : pc'[u] \in WaiterLabels
      /\ \A u \in Setters : pc'[u] \in SetterLabels
  BY <1>1, WaiterMove DEF WaiterLabels, SetterLabels
<1>3. QueueRight' /\ wchan' = wchan
  BY QueueKept DEF untimeout_woken
<1>a. TypeOK'
  BY <1>1, <1>2, <1>3, NumbersAssumption DEF TypeOK, QueueRight
<1>b. SleepsRight'
  BY <1>1, <1>2, <1>3 DEF SleepsRight
<1>c. MutexRight'
  BY <1>1, <1>2 DEF MutexRight, HasMutex, KindsRight, Timed, Interruptible
<1>d. KindsRight'
  BY <1>1, <1>2 DEF KindsRight, Timed, Interruptible, AllKinds
<1>e. CalloutsRight'
  BY <1>1, <1>2 DEF CalloutsRight, InTimedWait, KindsRight, Timed, Interruptible, AllKinds
<1>f. TimeoutTrue'
  BY <1>1, <1>2 DEF TimeoutTrue, CalloutsRight, KindsRight, InTimedWait, Timed, NoReturn
<1>g. SignalSeen'
  BY <1>1, <1>2, <1>3 DEF SignalSeen, SleepsRight, Interruptible
<1>h. TimeoutSeen'
  BY <1>1, <1>2, <1>3 DEF TimeoutSeen, SleepsRight, CalloutsRight, InTimedWait, Timed
<1>i. WakeupSeen'
  BY <1>1, <1>2, <1>3 DEF WakeupSeen, Signalling, TypeOK, MutexRight, SleepsRight
<1> QED  BY <1>3, <1>a, <1>b, <1>c, <1>d, <1>e, <1>f, <1>g, <1>h, <1>i

\* A signal is pending, and the mutex is dropped to look at it.
LEMMA IssigStep ==
  ASSUME CvInv, NEW t \in Waiters, issig(t), t \in sig
  PROVE  CvInv'
<1> USE ThreadKinds DEF CvInv
<1>1. /\ pc[t] = "issig" /\ pc' = [pc EXCEPT ![t] = "forreal"]
      /\ owner' = Null
      /\ UNCHANGED <<ready, woken, wasted, callout, due, left, timeleft, sig, kind, ret>>
  BY DEF issig, Goto, mutex, predicate, times, local
<1>2. /\ pc'[t] = "forreal" /\ \A u \in Waiters \ {t} : pc'[u] = pc[u]
      /\ \A s \in Setters : pc'[s] = pc[s]
      /\ pc' \in [Threads -> WaiterLabels \cup SetterLabels]
      /\ \A u \in Waiters : pc'[u] \in WaiterLabels
      /\ \A u \in Setters : pc'[u] \in SetterLabels
  BY <1>1, WaiterMove DEF WaiterLabels, SetterLabels
<1>3. QueueRight' /\ wchan' = wchan
  BY QueueKept DEF issig
<1>a. TypeOK'
  BY <1>1, <1>2, <1>3, NumbersAssumption DEF TypeOK, QueueRight
<1>b. SleepsRight'
  BY <1>1, <1>2, <1>3 DEF SleepsRight
<1>c. MutexRight'
  BY <1>1, <1>2 DEF MutexRight, HasMutex, KindsRight, Timed, Interruptible
<1>d. KindsRight'
  BY <1>1, <1>2 DEF KindsRight, Timed, Interruptible, AllKinds
<1>e. CalloutsRight'
  BY <1>1, <1>2 DEF CalloutsRight, InTimedWait, KindsRight, Timed, Interruptible, AllKinds
<1>f. TimeoutTrue'
  BY <1>1, <1>2 DEF TimeoutTrue, CalloutsRight, KindsRight, InTimedWait, Timed, NoReturn
<1>g. SignalSeen'
  BY <1>1, <1>2, <1>3 DEF SignalSeen, SleepsRight, Interruptible
<1>h. TimeoutSeen'
  BY <1>1, <1>2, <1>3 DEF TimeoutSeen, SleepsRight, CalloutsRight, InTimedWait, Timed
<1>i. WakeupSeen'
  BY <1>1, <1>2, <1>3 DEF WakeupSeen, Signalling, TypeOK, MutexRight, SleepsRight
<1> QED  BY <1>3, <1>a, <1>b, <1>c, <1>d, <1>e, <1>f, <1>g, <1>h, <1>i

\* No signal is pending: the wait returns.
LEMMA NoSigStep ==
  ASSUME CvInv, NEW t \in Waiters, issig(t), t \notin sig
  PROVE  CvInv'
<1> USE ThreadKinds DEF CvInv
<1>1. /\ pc[t] = "issig" /\ pc' = [pc EXCEPT ![t] = "test"]
      /\ kind' = [kind EXCEPT ![t] = Null]
      /\ UNCHANGED <<owner, ready, woken, wasted, callout, due, left, timeleft, sig, ret>>
  BY DEF issig, Goto, mutex, predicate, times, local
<1>2. /\ pc'[t] = "test" /\ \A u \in Waiters \ {t} : pc'[u] = pc[u]
      /\ \A s \in Setters : pc'[s] = pc[s]
      /\ pc' \in [Threads -> WaiterLabels \cup SetterLabels]
      /\ \A u \in Waiters : pc'[u] \in WaiterLabels
      /\ \A u \in Setters : pc'[u] \in SetterLabels
  BY <1>1, WaiterMove DEF WaiterLabels, SetterLabels
<1>3. QueueRight' /\ wchan' = wchan
  BY QueueKept DEF issig
<1>4. /\ pc[t] = "issig"
      /\ \A u \in Waiters : kind'[u] = IF u = t THEN Null ELSE kind[u]
      /\ UNCHANGED <<owner, ready, woken, wasted, callout, due, left, timeleft, sig, ret>>
  BY <1>1 DEF TypeOK
<1>a. TypeOK'
  BY <1>1, <1>2, <1>3, NumbersAssumption DEF TypeOK, QueueRight
<1>b. SleepsRight'
  BY <1>4, <1>2, <1>3 DEF SleepsRight
<1>c. MutexRight'
  BY <1>4, <1>2 DEF MutexRight, HasMutex, KindsRight, Timed, Interruptible
<1>d. KindsRight'
  BY <1>4, <1>2 DEF KindsRight, Timed, Interruptible, AllKinds
<1>e. CalloutsRight'
  BY <1>4, <1>2 DEF CalloutsRight, InTimedWait, KindsRight, Timed, Interruptible, AllKinds
<1>f. TimeoutTrue'
  BY <1>4, <1>2 DEF TimeoutTrue, CalloutsRight, KindsRight, InTimedWait, Timed, NoReturn
<1>g. SignalSeen'
  BY <1>4, <1>2, <1>3 DEF SignalSeen, SleepsRight, Interruptible
<1>h. TimeoutSeen'
  BY <1>4, <1>2, <1>3 DEF TimeoutSeen, SleepsRight, CalloutsRight, InTimedWait, Timed
<1>i. WakeupSeen'
  BY <1>4, <1>2, <1>3 DEF WakeupSeen, Signalling, TypeOK, MutexRight, SleepsRight
<1> QED  BY <1>3, <1>a, <1>b, <1>c, <1>d, <1>e, <1>f, <1>g, <1>h, <1>i

\* issig(FORREAL) ends the wait or not.
LEMMA ForrealStep ==
  ASSUME CvInv, NEW t \in Waiters, issig_forreal(t)
  PROVE  CvInv'
<1> USE ThreadKinds DEF CvInv
<1>1. /\ pc[t] = "forreal" /\ pc' = [pc EXCEPT ![t] = "reenter"]
      /\ ret' = [ret EXCEPT ![t] = 0] \/ ret' = ret
      /\ sig' = sig \ {t}
      /\ UNCHANGED <<owner, ready, woken, wasted, callout, due, left, timeleft, kind>>
  BY DEF issig_forreal, Goto, mutex, predicate, times, local
<1>2. /\ pc'[t] = "reenter" /\ \A u \in Waiters \ {t} : pc'[u] = pc[u]
      /\ \A s \in Setters : pc'[s] = pc[s]
      /\ pc' \in [Threads -> WaiterLabels \cup SetterLabels]
      /\ \A u \in Waiters : pc'[u] \in WaiterLabels
      /\ \A u \in Setters : pc'[u] \in SetterLabels
  BY <1>1, WaiterMove DEF WaiterLabels, SetterLabels
<1>3. QueueRight' /\ wchan' = wchan
  BY QueueKept DEF issig_forreal
<1>t. /\ [ret EXCEPT ![t] = 0] \in [Waiters -> -2 .. MaxWait]
      /\ ret' \in [Waiters -> -2 .. MaxWait]
  <2>1. [ret EXCEPT ![t] = 0] \in [Waiters -> -2 .. MaxWait]
    BY NumbersAssumption DEF TypeOK
  <2>2. ret' \in [Waiters -> -2 .. MaxWait]
    BY <1>1, <2>1 DEF TypeOK
  <2> QED  BY <2>1, <2>2
<1>4. /\ pc[t] = "forreal"
      /\ \A u \in Waiters : ret'[u] = ret[u] \/ ret'[u] = 0
      /\ sig' = sig \ {t}
      /\ UNCHANGED <<owner, ready, woken, wasted, callout, due, left, timeleft, kind>>
  BY <1>1 DEF TypeOK
<1>a. TypeOK'
  BY <1>1, <1>2, <1>3, <1>t, NumbersAssumption DEF TypeOK, QueueRight
<1>b. SleepsRight'
  BY <1>4, <1>2, <1>3 DEF SleepsRight
<1>c. MutexRight'
  BY <1>4, <1>2 DEF MutexRight, HasMutex, KindsRight, Timed, Interruptible
<1>d. KindsRight'
  BY <1>4, <1>2 DEF KindsRight, Timed, Interruptible, AllKinds
<1>e. CalloutsRight'
  BY <1>4, <1>2 DEF CalloutsRight, InTimedWait, KindsRight, Timed, Interruptible, AllKinds
<1>f. TimeoutTrue'
  BY <1>4, <1>2 DEF TimeoutTrue, CalloutsRight, KindsRight, InTimedWait, Timed, NoReturn
<1>g. SignalSeen'
  BY <1>4, <1>2, <1>3 DEF SignalSeen, SleepsRight, Interruptible
<1>h. TimeoutSeen'
  BY <1>4, <1>2, <1>3 DEF TimeoutSeen, SleepsRight, CalloutsRight, InTimedWait, Timed
<1>i. WakeupSeen'
  BY <1>4, <1>2, <1>3 DEF WakeupSeen, Signalling, TypeOK, MutexRight, SleepsRight
<1> QED  BY <1>3, <1>a, <1>b, <1>c, <1>d, <1>e, <1>f, <1>g, <1>h, <1>i

\* The mutex is taken again after that.
LEMMA ReenterStep ==
  ASSUME CvInv, NEW t \in Waiters, mutex_reenter(t)
  PROVE  CvInv'
<1> USE ThreadKinds DEF CvInv
<1>1. /\ pc[t] = "reenter" /\ pc' = [pc EXCEPT ![t] = "test"]
      /\ owner = Null /\ owner' = t
      /\ kind' = [kind EXCEPT ![t] = Null]
      /\ UNCHANGED <<ready, woken, wasted, callout, due, left, timeleft, sig, ret>>
  BY DEF mutex_reenter, Goto, mutex, predicate, times, local
<1>2. /\ pc'[t] = "test" /\ \A u \in Waiters \ {t} : pc'[u] = pc[u]
      /\ \A s \in Setters : pc'[s] = pc[s]
      /\ pc' \in [Threads -> WaiterLabels \cup SetterLabels]
      /\ \A u \in Waiters : pc'[u] \in WaiterLabels
      /\ \A u \in Setters : pc'[u] \in SetterLabels
  BY <1>1, WaiterMove DEF WaiterLabels, SetterLabels
<1>3. QueueRight' /\ wchan' = wchan
  BY QueueKept DEF mutex_reenter
<1>4. /\ pc[t] = "reenter"
      /\ owner = Null /\ owner' = t
      /\ \A u \in Waiters : kind'[u] = IF u = t THEN Null ELSE kind[u]
      /\ UNCHANGED <<ready, woken, wasted, callout, due, left, timeleft, sig, ret>>
  BY <1>1 DEF TypeOK
<1>a. TypeOK'
  BY <1>1, <1>2, <1>3, NumbersAssumption DEF TypeOK, QueueRight
<1>b. SleepsRight'
  BY <1>4, <1>2, <1>3 DEF SleepsRight
<1>c. MutexRight'
  BY <1>4, <1>2 DEF MutexRight, HasMutex, KindsRight, Timed, Interruptible
<1>d. KindsRight'
  BY <1>4, <1>2 DEF KindsRight, Timed, Interruptible, AllKinds
<1>e. CalloutsRight'
  BY <1>4, <1>2 DEF CalloutsRight, InTimedWait, KindsRight, Timed, Interruptible, AllKinds
<1>f. TimeoutTrue'
  BY <1>4, <1>2 DEF TimeoutTrue, CalloutsRight, KindsRight, InTimedWait, Timed, NoReturn
<1>g. SignalSeen'
  BY <1>4, <1>2, <1>3 DEF SignalSeen, SleepsRight, Interruptible
<1>h. TimeoutSeen'
  BY <1>4, <1>2, <1>3 DEF TimeoutSeen, SleepsRight, CalloutsRight, InTimedWait, Timed
<1>i. WakeupSeen'
  BY <1>4, <1>2, <1>3 DEF WakeupSeen, Signalling, TypeOK, MutexRight, SleepsRight
<1> QED  BY <1>3, <1>a, <1>b, <1>c, <1>d, <1>e, <1>f, <1>g, <1>h, <1>i

\* cv_wait_stop() may have been stopped.
LEMMA StopStep ==
  ASSUME CvInv, NEW t \in Waiters, stop(t)
  PROVE  CvInv'
<1> USE ThreadKinds DEF CvInv
<1>1. /\ pc[t] = "stop" /\ pc' = [pc EXCEPT ![t] = "enter"]
      /\ UNCHANGED <<owner, ready, woken, wasted, callout, due, left, timeleft, sig, kind, ret>>
  BY DEF stop, Goto, mutex, predicate, times, local
<1>2. /\ pc'[t] = "enter" /\ \A u \in Waiters \ {t} : pc'[u] = pc[u]
      /\ \A s \in Setters : pc'[s] = pc[s]
      /\ pc' \in [Threads -> WaiterLabels \cup SetterLabels]
      /\ \A u \in Waiters : pc'[u] \in WaiterLabels
      /\ \A u \in Setters : pc'[u] \in SetterLabels
  BY <1>1, WaiterMove DEF WaiterLabels, SetterLabels
<1>3. QueueRight' /\ wchan' = wchan
  BY QueueKept DEF stop
<1>a. TypeOK'
  BY <1>1, <1>2, <1>3, NumbersAssumption DEF TypeOK, QueueRight
<1>b. SleepsRight'
  BY <1>1, <1>2, <1>3 DEF SleepsRight
<1>c. MutexRight'
  BY <1>1, <1>2 DEF MutexRight, HasMutex, KindsRight, Timed, Interruptible
<1>d. KindsRight'
  BY <1>1, <1>2 DEF KindsRight, Timed, Interruptible, AllKinds
<1>e. CalloutsRight'
  BY <1>1, <1>2 DEF CalloutsRight, InTimedWait, KindsRight, Timed, Interruptible, AllKinds
<1>f. TimeoutTrue'
  BY <1>1, <1>2 DEF TimeoutTrue, CalloutsRight, KindsRight, InTimedWait, Timed, NoReturn
<1>g. SignalSeen'
  BY <1>1, <1>2, <1>3 DEF SignalSeen, SleepsRight, Interruptible
<1>h. TimeoutSeen'
  BY <1>1, <1>2, <1>3 DEF TimeoutSeen, SleepsRight, CalloutsRight, InTimedWait, Timed
<1>i. WakeupSeen'
  BY <1>1, <1>2, <1>3 DEF WakeupSeen, Signalling, TypeOK, MutexRight, SleepsRight
<1> QED  BY <1>3, <1>a, <1>b, <1>c, <1>d, <1>e, <1>f, <1>g, <1>h, <1>i

\* A signal wakes a waiter that can be interrupted.
LEMMA SignalStep ==
  ASSUME CvInv, NEW t \in Waiters, eat_signal(t),
         wchan[t] = Cv /\ kind[t] \in Interruptible
  PROVE  CvInv'
<1> USE ThreadKinds DEF CvInv
<1>1. /\ pc' = pc
      /\ sig' = sig \cup {t} /\ t \in Lwps
      /\ UNCHANGED <<owner, ready, woken, wasted, callout, due, left, timeleft, kind, ret>>
  BY DEF eat_signal, Goto, mutex, predicate, times, local
<1>2. pc' = pc
  BY <1>1
<1>3. QueueRight' /\ \A u \in Waiters : wchan'[u] = IF u = t THEN Null ELSE wchan[u]
  <2>1. t \in On(Cv)
    BY OnIs
  <2> QED  BY <2>1, SetrunQueue DEF eat_signal, Wakeable
<1>a. TypeOK'
  BY <1>1, <1>2, <1>3, NumbersAssumption DEF TypeOK, QueueRight
<1>b. SleepsRight'
  BY <1>1, <1>2, <1>3 DEF SleepsRight
<1>c. MutexRight'
  BY <1>1, <1>2 DEF MutexRight, HasMutex, KindsRight, Timed, Interruptible
<1>d. KindsRight'
  BY <1>1, <1>2 DEF KindsRight, Timed, Interruptible, AllKinds
<1>e. CalloutsRight'
  BY <1>1, <1>2 DEF CalloutsRight, InTimedWait, KindsRight, Timed, Interruptible, AllKinds
<1>f. TimeoutTrue'
  BY <1>1, <1>2 DEF TimeoutTrue, CalloutsRight, KindsRight, InTimedWait, Timed, NoReturn
<1>g. SignalSeen'
  BY <1>1, <1>2, <1>3 DEF SignalSeen, SleepsRight, Interruptible
<1>h. TimeoutSeen'
  BY <1>1, <1>2, <1>3 DEF TimeoutSeen, SleepsRight, CalloutsRight, InTimedWait, Timed
<1>i. WakeupSeen'
  BY <1>1, <1>2, <1>3 DEF WakeupSeen, Signalling, TypeOK, MutexRight, SleepsRight
<1> QED  BY <1>3, <1>a, <1>b, <1>c, <1>d, <1>e, <1>f, <1>g, <1>h, <1>i

\* A signal comes while the waiter does not sleep interruptibly.
LEMMA SignalMissStep ==
  ASSUME CvInv, NEW t \in Waiters, eat_signal(t),
         ~(wchan[t] = Cv /\ kind[t] \in Interruptible)
  PROVE  CvInv'
<1> USE ThreadKinds DEF CvInv
<1>1. /\ pc' = pc
      /\ sig' = sig \cup {t} /\ t \in Lwps
      /\ UNCHANGED <<owner, ready, woken, wasted, callout, due, left, timeleft, kind, ret>>
  BY DEF eat_signal, Goto, mutex, predicate, times, local
<1>2. pc' = pc
  BY <1>1
<1>3. QueueRight' /\ wchan' = wchan
  <2>1. t \in On(Cv) <=> wchan[t] = Cv
    BY OnIs
  <2> QED  BY <2>1, QueueKept DEF eat_signal, Wakeable
<1>a. TypeOK'
  BY <1>1, <1>2, <1>3, NumbersAssumption DEF TypeOK, QueueRight
<1>b. SleepsRight'
  BY <1>1, <1>2, <1>3 DEF SleepsRight
<1>c. MutexRight'
  BY <1>1, <1>2 DEF MutexRight, HasMutex, KindsRight, Timed, Interruptible
<1>d. KindsRight'
  BY <1>1, <1>2 DEF KindsRight, Timed, Interruptible, AllKinds
<1>e. CalloutsRight'
  BY <1>1, <1>2 DEF CalloutsRight, InTimedWait, KindsRight, Timed, Interruptible, AllKinds
<1>f. TimeoutTrue'
  BY <1>1, <1>2 DEF TimeoutTrue, CalloutsRight, KindsRight, InTimedWait, Timed, NoReturn
<1>g. SignalSeen'
  BY <1>1, <1>2, <1>3 DEF SignalSeen, SleepsRight, Interruptible
<1>h. TimeoutSeen'
  BY <1>1, <1>2, <1>3 DEF TimeoutSeen, SleepsRight, CalloutsRight, InTimedWait, Timed
<1>i. WakeupSeen'
  BY <1>1, <1>2, <1>3 DEF WakeupSeen, Signalling, TypeOK, MutexRight, SleepsRight
<1> QED  BY <1>3, <1>a, <1>b, <1>c, <1>d, <1>e, <1>f, <1>g, <1>h, <1>i

\* cv_change_pri().
LEMMA ChangePriStep ==
  ASSUME CvInv, NEW t \in Waiters, NEW p \in Prios, cv_change_pri(t, p)
  PROVE  CvInv'
<1> USE ThreadKinds DEF CvInv
<1>1. /\ pc' = pc
      /\ wchan' = wchan
      /\ UNCHANGED <<owner, ready, woken, wasted, callout, due, left, timeleft, sig, kind, ret>>
  BY DEF cv_change_pri, Goto, mutex, predicate, times, local
<1>2. pc' = pc
  BY <1>1
<1>3. QueueRight' /\ wchan' = wchan
  BY <1>1, ChangePriQueue
<1>a. TypeOK'
  BY <1>1, <1>2, <1>3, NumbersAssumption DEF TypeOK, QueueRight
<1>b. SleepsRight'
  BY <1>1, <1>2, <1>3 DEF SleepsRight
<1>c. MutexRight'
  BY <1>1, <1>2 DEF MutexRight, HasMutex, KindsRight, Timed, Interruptible
<1>d. KindsRight'
  BY <1>1, <1>2 DEF KindsRight, Timed, Interruptible, AllKinds
<1>e. CalloutsRight'
  BY <1>1, <1>2 DEF CalloutsRight, InTimedWait, KindsRight, Timed, Interruptible, AllKinds
<1>f. TimeoutTrue'
  BY <1>1, <1>2 DEF TimeoutTrue, CalloutsRight, KindsRight, InTimedWait, Timed, NoReturn
<1>g. SignalSeen'
  BY <1>1, <1>2, <1>3 DEF SignalSeen, SleepsRight, Interruptible
<1>h. TimeoutSeen'
  BY <1>1, <1>2, <1>3 DEF TimeoutSeen, SleepsRight, CalloutsRight, InTimedWait, Timed
<1>i. WakeupSeen'
  BY <1>1, <1>2, <1>3 DEF WakeupSeen, Signalling, TypeOK, MutexRight, SleepsRight
<1> QED  BY <1>3, <1>a, <1>b, <1>c, <1>d, <1>e, <1>f, <1>g, <1>h, <1>i

\* The callout begins.
LEMMA CalloutStartStep ==
  ASSUME CvInv, NEW t \in Waiters, callout_start(t)
  PROVE  CvInv'
<1> USE ThreadKinds DEF CvInv
<1>1. /\ pc' = pc
      /\ callout[t] = "pending" /\ due[t] = 0
      /\ callout' = [callout EXCEPT ![t] = "running"]
      /\ UNCHANGED <<owner, ready, woken, wasted, due, left, timeleft, sig, kind, ret>>
  BY DEF callout_start, Goto, mutex, predicate, times, local
<1>2. pc' = pc
  BY <1>1
<1>3. QueueRight' /\ wchan' = wchan
  BY QueueKept DEF callout_start
<1>4. /\ callout[t] = "pending" /\ due[t] = 0
      /\ \A u \in Waiters : callout'[u] = IF u = t THEN "running" ELSE callout[u]
      /\ \A u \in Waiters : left[u] \in Nat /\ due[u] \in Nat
      /\ UNCHANGED <<owner, ready, woken, wasted, due, left, timeleft, sig, kind, ret>>
  BY <1>1 DEF TypeOK
<1>a. TypeOK'
  BY <1>1, <1>2, <1>3, NumbersAssumption DEF TypeOK, QueueRight
<1>b. SleepsRight'
  BY <1>4, <1>2, <1>3 DEF SleepsRight
<1>c. MutexRight'
  BY <1>4, <1>2 DEF MutexRight, HasMutex, KindsRight, Timed, Interruptible
<1>d. KindsRight'
  BY <1>4, <1>2 DEF KindsRight, Timed, Interruptible, AllKinds
<1>e. CalloutsRight'
  BY <1>4, <1>2 DEF CalloutsRight, InTimedWait, KindsRight, Timed, Interruptible, AllKinds
<1>f. TimeoutTrue'
  BY <1>4, <1>2 DEF TimeoutTrue, CalloutsRight, KindsRight, InTimedWait, Timed, NoReturn
<1>g. SignalSeen'
  BY <1>4, <1>2, <1>3 DEF SignalSeen, SleepsRight, Interruptible
<1>h. TimeoutSeen'
  BY <1>4, <1>2, <1>3 DEF TimeoutSeen, SleepsRight, CalloutsRight, InTimedWait, Timed
<1>i. WakeupSeen'
  BY <1>4, <1>2, <1>3 DEF WakeupSeen, Signalling, TypeOK, MutexRight, SleepsRight
<1> QED  BY <1>3, <1>a, <1>b, <1>c, <1>d, <1>e, <1>f, <1>g, <1>h, <1>i

\* The callout makes the waiter run.
LEMMA CalloutSetrunStep ==
  ASSUME CvInv, NEW t \in Waiters, callout_setrun(t)
  PROVE  CvInv'
<1> USE ThreadKinds DEF CvInv
<1>1. /\ pc' = pc
      /\ callout[t] = "running" /\ callout' = [callout EXCEPT ![t] = "ran"]
      /\ UNCHANGED <<owner, ready, woken, wasted, due, left, timeleft, sig, kind, ret>>
  BY DEF callout_setrun, Goto, mutex, predicate, times, local
<1>2. pc' = pc
  BY <1>1
<1>3. QueueRight' /\ \A u \in Waiters : wchan'[u] = IF u = t THEN Null ELSE wchan[u]
  BY SetrunQueue DEF callout_setrun
<1>4. /\ callout[t] = "running"
      /\ \A u \in Waiters : callout'[u] = IF u = t THEN "ran" ELSE callout[u]
      /\ UNCHANGED <<owner, ready, woken, wasted, due, left, timeleft, sig, kind, ret>>
  BY <1>1 DEF TypeOK
<1>a. TypeOK'
  BY <1>1, <1>2, <1>3, NumbersAssumption DEF TypeOK, QueueRight
<1>b. SleepsRight'
  BY <1>4, <1>2, <1>3 DEF SleepsRight
<1>c. MutexRight'
  BY <1>4, <1>2 DEF MutexRight, HasMutex, KindsRight, Timed, Interruptible
<1>d. KindsRight'
  BY <1>4, <1>2 DEF KindsRight, Timed, Interruptible, AllKinds
<1>e. CalloutsRight'
  BY <1>4, <1>2 DEF CalloutsRight, InTimedWait, KindsRight, Timed, Interruptible, AllKinds
<1>f. TimeoutTrue'
  BY <1>4, <1>2 DEF TimeoutTrue, CalloutsRight, KindsRight, InTimedWait, Timed, NoReturn
<1>g. SignalSeen'
  BY <1>4, <1>2, <1>3 DEF SignalSeen, SleepsRight, Interruptible
<1>h. TimeoutSeen'
  BY <1>4, <1>2, <1>3 DEF TimeoutSeen, SleepsRight, CalloutsRight, InTimedWait, Timed
<1>i. WakeupSeen'
  BY <1>4, <1>2, <1>3 DEF WakeupSeen, Signalling, TypeOK, MutexRight, SleepsRight
<1> QED  BY <1>3, <1>a, <1>b, <1>c, <1>d, <1>e, <1>f, <1>g, <1>h, <1>i

\* The end of the callout wakes who waits in untimeout().
LEMMA CalloutEndStep ==
  ASSUME CvInv, NEW t \in Waiters, callout_end(t)
  PROVE  CvInv'
<1> USE ThreadKinds DEF CvInv
<1>1. /\ pc' = pc
      /\ callout[t] = "ran" /\ callout' = [callout EXCEPT ![t] = "idle"]
      /\ UNCHANGED <<owner, ready, woken, wasted, due, left, timeleft, sig, kind, ret>>
  BY DEF callout_end, Goto, mutex, predicate, times, local
<1>2. pc' = pc
  BY <1>1
<1>3. QueueRight' /\ \A u \in Waiters : wchan'[u] = wchan[u] \/ (wchan[u] = t /\ wchan'[u] = Null)
  <2>1. t \in Cvs /\ On(t) \in SUBSET Waiters /\ On(t) = {u \in Waiters : wchan[u] = t}
    BY OnIs
  <2>2. CASE cv_waiters[t] > 0
    <3>1. Wake(On(t), t, 0)
      BY <2>2 DEF callout_end
    <3>2. On(t) \ On(t) = {} /\ On(t) \in SUBSET On(t) /\ 0 \in 0 .. CV_MAX_WAITERS
      BY NumbersAssumption
    <3>3. 0 = Cardinality(On(t) \ On(t))
      BY <3>2, FS_EmptySet
    <3>4. QueueRight' /\ \A u \in Waiters : wchan'[u] = IF u \in On(t) THEN Null ELSE wchan[u]
      BY <2>1, <3>1, <3>2, <3>3, WakeQueue
    <3> QED  BY <2>1, <3>4
  <2>3. CASE ~(cv_waiters[t] > 0)
    <3>1. UNCHANGED queue
      BY <2>3 DEF callout_end
    <3> QED  BY <3>1, QueueKept
  <2> QED  BY <2>2, <2>3
<1>4. /\ callout[t] = "ran"
      /\ \A u \in Waiters : callout'[u] = IF u = t THEN "idle" ELSE callout[u]
      /\ UNCHANGED <<owner, ready, woken, wasted, due, left, timeleft, sig, kind, ret>>
  BY <1>1 DEF TypeOK
<1>a. TypeOK'
  BY <1>1, <1>2, <1>3, NumbersAssumption DEF TypeOK, QueueRight
<1>b. SleepsRight'
  BY <1>4, <1>2, <1>3 DEF SleepsRight
<1>c. MutexRight'
  BY <1>4, <1>2 DEF MutexRight, HasMutex, KindsRight, Timed, Interruptible
<1>d. KindsRight'
  BY <1>4, <1>2 DEF KindsRight, Timed, Interruptible, AllKinds
<1>e. CalloutsRight'
  BY <1>4, <1>2 DEF CalloutsRight, InTimedWait, KindsRight, Timed, Interruptible, AllKinds
<1>f. TimeoutTrue'
  BY <1>4, <1>2 DEF TimeoutTrue, CalloutsRight, KindsRight, InTimedWait, Timed, NoReturn
<1>g. SignalSeen'
  BY <1>4, <1>2, <1>3 DEF SignalSeen, SleepsRight, Interruptible
<1>h. TimeoutSeen'
  BY <1>4, <1>2, <1>3 DEF TimeoutSeen, SleepsRight, CalloutsRight, InTimedWait, Timed
<1>i. WakeupSeen'
  <2>1. \A u \in Waiters : wchan'[u] = Cv <=> wchan[u] = Cv
    BY <1>3
  <2> QED  BY <1>1, <1>2, <2>1 DEF WakeupSeen, Signalling, TypeOK
<1> QED  BY <1>3, <1>a, <1>b, <1>c, <1>d, <1>e, <1>f, <1>g, <1>h, <1>i

\* A setter makes the predicate true.
LEMMA SetStep ==
  ASSUME CvInv, NEW s \in Setters, Set(s)
  PROVE  CvInv'
<1> USE ThreadKinds DEF CvInv
<1>1. /\ pc[s] = "idle" /\ pc' = [pc EXCEPT ![s] = "signal"]
      /\ owner = Null /\ owner' \in {s, Null} /\ ~ready
      /\ ready' = TRUE /\ woken' = {} /\ wasted' = FALSE
      /\ UNCHANGED <<callout, due, left, timeleft, sig, kind, ret>>
  BY DEF Set, Goto, mutex, predicate, times, local
<1>2. /\ pc'[s] = "signal" /\ \A u \in Setters \ {s} : pc'[u] = pc[u]
      /\ \A t \in Waiters : pc'[t] = pc[t]
      /\ pc' \in [Threads -> WaiterLabels \cup SetterLabels]
      /\ \A u \in Waiters : pc'[u] \in WaiterLabels
      /\ \A u \in Setters : pc'[u] \in SetterLabels
  BY <1>1, SetterMove DEF WaiterLabels, SetterLabels
<1>3. QueueRight' /\ wchan' = wchan
  BY QueueKept DEF Set
<1>a. TypeOK'
  <2>1. /\ owner' \in Threads \cup {Null} /\ ready' \in BOOLEAN
        /\ woken' \subseteq Waiters /\ wasted' \in BOOLEAN
    BY <1>1
  <2> QED  BY <1>1, <1>2, <1>3, <2>1, ZenonT(60) DEF TypeOK, QueueRight
<1>b. SleepsRight'
  BY <1>1, <1>2, <1>3 DEF SleepsRight
<1>c. MutexRight'
  BY <1>1, <1>2 DEF MutexRight, HasMutex, KindsRight, Timed, Interruptible
<1>d. KindsRight'
  BY <1>1, <1>2 DEF KindsRight, Timed, Interruptible, AllKinds
<1>e. CalloutsRight'
  BY <1>1, <1>2 DEF CalloutsRight, InTimedWait, KindsRight, Timed, Interruptible, AllKinds
<1>f. TimeoutTrue'
  BY <1>1, <1>2 DEF TimeoutTrue, CalloutsRight, KindsRight, InTimedWait, Timed, NoReturn
<1>g. SignalSeen'
  BY <1>1, <1>2, <1>3 DEF SignalSeen, SleepsRight, Interruptible
<1>h. TimeoutSeen'
  BY <1>1, <1>2, <1>3 DEF TimeoutSeen, SleepsRight, CalloutsRight, InTimedWait, Timed
<1>i. WakeupSeen'
  BY <1>1, <1>2, <1>3 DEF WakeupSeen, Signalling, TypeOK, MutexRight, SleepsRight
<1> QED  BY <1>3, <1>a, <1>b, <1>c, <1>d, <1>e, <1>f, <1>g, <1>h, <1>i

\* cv_signal() and cv_broadcast() look at the counter without a lock.
LEMMA LookAtStep ==
  ASSUME CvInv, NEW s \in Setters, NEW m \in {"cv_signal", "cv_broadcast"}, Look(s, m)
  PROVE  CvInv'
<1> USE ThreadKinds DEF CvInv
<1> DEFINE l == IF cv_waiters[Cv] > 0 THEN m ELSE "drop"
<1>1. /\ pc[s] = "signal" /\ pc' = [pc EXCEPT ![s] = l]
      /\ l \in {m, "drop"} /\ (l = "drop" <=> ~(cv_waiters[Cv] > 0))
      /\ UNCHANGED <<owner, ready, woken, wasted, callout, due, left, timeleft, sig, kind, ret>>
  BY DEF Look, Goto, mutex, predicate, times, local
<1> HIDE DEF l
<1>2. /\ pc'[s] = l /\ \A u \in Setters \ {s} : pc'[u] = pc[u]
      /\ \A t \in Waiters : pc'[t] = pc[t]
      /\ pc' \in [Threads -> WaiterLabels \cup SetterLabels]
      /\ \A u \in Waiters : pc'[u] \in WaiterLabels
      /\ \A u \in Setters : pc'[u] \in SetterLabels
  BY <1>1, SetterMove DEF WaiterLabels, SetterLabels
<1>3. QueueRight' /\ wchan' = wchan /\ (l = "drop" => \A t \in Waiters : wchan[t] # Cv)
  <2>1. cv_waiters[Cv] \in Nat
    BY DEF QueueRight
  <2>2. l = "drop" => On(Cv) = {}
    BY <1>1, <2>1, OnIs
  <2>3. On(Cv) = {t \in Waiters : wchan[t] = Cv}
    BY OnIs
  <2>4. QueueRight' /\ wchan' = wchan
    BY QueueKept DEF Look
  <2> QED  BY <2>2, <2>3, <2>4
<1>a. TypeOK'
  BY <1>1, <1>2, <1>3, NumbersAssumption DEF TypeOK, QueueRight
<1>b. SleepsRight'
  BY <1>1, <1>2, <1>3 DEF SleepsRight
<1>c. MutexRight'
  BY <1>1, <1>2 DEF MutexRight, HasMutex, KindsRight, Timed, Interruptible
<1>d. KindsRight'
  BY <1>1, <1>2 DEF KindsRight, Timed, Interruptible, AllKinds
<1>e. CalloutsRight'
  BY <1>1, <1>2 DEF CalloutsRight, InTimedWait, KindsRight, Timed, Interruptible, AllKinds
<1>f. TimeoutTrue'
  BY <1>1, <1>2 DEF TimeoutTrue, CalloutsRight, KindsRight, InTimedWait, Timed, NoReturn
<1>g. SignalSeen'
  BY <1>1, <1>2, <1>3 DEF SignalSeen, SleepsRight, Interruptible
<1>h. TimeoutSeen'
  BY <1>1, <1>2, <1>3 DEF TimeoutSeen, SleepsRight, CalloutsRight, InTimedWait, Timed
<1>i. WakeupSeen'
  BY <1>1, <1>2, <1>3 DEF WakeupSeen, Signalling, TypeOK, MutexRight, SleepsRight
<1> QED  BY <1>3, <1>a, <1>b, <1>c, <1>d, <1>e, <1>f, <1>g, <1>h, <1>i

\* cv_signal() wakes the first sleeper.
LEMMA CvSignalStep ==
  ASSUME CvInv, NEW s \in Setters, cv_signal(s)
  PROVE  CvInv'
<1> USE ThreadKinds DEF CvInv
<1>1. /\ pc[s] = "cv_signal" /\ pc' = [pc EXCEPT ![s] = "drop"]
      /\ UNCHANGED <<owner, ready, wasted, callout, due, left, timeleft, sig, kind, ret>>
  BY DEF cv_signal, Goto, mutex, predicate, times, local
<1>2. /\ pc'[s] = "drop" /\ \A u \in Setters \ {s} : pc'[u] = pc[u]
      /\ \A t \in Waiters : pc'[t] = pc[t]
      /\ pc' \in [Threads -> WaiterLabels \cup SetterLabels]
      /\ \A u \in Waiters : pc'[u] \in WaiterLabels
      /\ \A u \in Setters : pc'[u] \in SetterLabels
  BY <1>1, SetterMove DEF WaiterLabels, SetterLabels
<1>3. /\ QueueRight'
      /\ \A t \in Waiters : wchan'[t] = wchan[t] \/ (wchan[t] = Cv /\ wchan'[t] = Null)
      /\ woken' = IF ready THEN woken \cup {t \in Waiters : wchan[t] = Cv /\ wchan'[t] = Null} ELSE woken
      /\ (\E t \in Waiters : wchan[t] = Cv) => \E t \in Waiters : wchan[t] = Cv /\ wchan'[t] = Null
  <2> DEFINE n == cv_waiters[Cv] % CV_MAX_WAITERS
  <2>1. /\ cv_waiters[Cv] \in 0 .. CV_MAX_WAITERS
        /\ cv_waiters[Cv] = Cardinality(On(Cv)) \/ cv_waiters[Cv] = CV_MAX_WAITERS
    BY DEF QueueRight, WaitersExact
  <2>2. /\ cv_waiters[Cv] = CV_MAX_WAITERS => n = 0
        /\ cv_waiters[Cv] # CV_MAX_WAITERS => n = cv_waiters[Cv]
    BY <2>1, Modulo
  <2>3. /\ On(Cv) = {t \in Waiters : wchan[t] = Cv}
        /\ IsFiniteSet(On(Cv)) /\ Cardinality(On(Cv)) \in Nat
        /\ cv_waiters[Cv] = 0 => On(Cv) = {}
    BY OnIs
  <2>4. CASE On(Cv) # {}
    <3> DEFINE t == FirstOn(Cv)
               m == IF n > 0 THEN n - 1 ELSE cv_waiters[Cv]
    <3>1. t \in On(Cv)
      BY <2>4, FirstIs
    <3>2. Wake({t}, Cv, m) /\ woken' = IF ready THEN woken \cup {t} ELSE woken
      BY <2>4 DEF cv_signal, Signalled
    <3> HIDE DEF t
    <3>3. Cardinality(On(Cv) \ {t}) = Cardinality(On(Cv)) - 1
      BY <2>3, <3>1, FS_RemoveElement
    <3>4. Cardinality(On(Cv)) # 0
      BY <2>3, <2>4, FS_EmptySet
    <3>5. /\ m \in 0 .. CV_MAX_WAITERS
          /\ m = Cardinality(On(Cv) \ {t}) \/ m = CV_MAX_WAITERS
      <4> HIDE DEF n
      <4> QED  BY <2>1, <2>2, <2>3, <3>3, <3>4, NumbersAssumption
    <3> HIDE DEF m
    <3>6. {t} \in SUBSET On(Cv)
      BY <3>1
    <3>7. QueueRight' /\ \A u \in Waiters : wchan'[u] = IF u \in {t} THEN Null ELSE wchan[u]
      BY <3>2, <3>5, <3>6, WakeQueue
    <3>8. t \in Waiters /\ wchan[t] = Cv /\ wchan'[t] = Null
      BY <2>3, <3>1, <3>7
    <3>9. \A u \in Waiters : wchan'[u] = wchan[u] \/ u = t
      BY <3>7
    <3>10. {t} = {u \in Waiters : wchan[u] = Cv /\ wchan'[u] = Null}
      BY <3>8, <3>9
    <3> QED  BY <3>2, <3>7, <3>8, <3>9, <3>10
  <2>5. CASE On(Cv) = {}
    <3> DEFINE m == IF n > 0 THEN n - 1 ELSE 0
    <3>1. Wake({}, Cv, m) /\ woken' = woken
      BY <2>5 DEF cv_signal
    <3>2. Cardinality(On(Cv)) = 0 /\ On(Cv) \ {} = On(Cv)
      BY <2>5, FS_EmptySet
    <3>3. m = 0
      <4> HIDE DEF n
      <4> QED  BY <2>1, <2>2, <3>2
    <3>4. 0 \in 0 .. CV_MAX_WAITERS /\ {} \in SUBSET On(Cv) /\ Wake({}, Cv, 0)
      BY <3>1, <3>3, NumbersAssumption
    <3>5. 0 = Cardinality(On(Cv) \ {})
      BY <3>2
    <3>6. QueueRight' /\ \A u \in Waiters : wchan'[u] = IF u \in {} THEN Null ELSE wchan[u]
      BY <3>4, <3>5, WakeQueue
    <3>7. \A u \in Waiters : wchan'[u] = wchan[u] /\ wchan[u] # Cv
      BY <2>3, <2>5, <3>6
    <3>8. {u \in Waiters : wchan[u] = Cv /\ wchan'[u] = Null} = {}
      BY <3>7
    <3> QED  BY <3>1, <3>6, <3>7, <3>8
  <2> QED  BY <2>4, <2>5
<1>a. TypeOK'
  BY <1>1, <1>2, <1>3, NumbersAssumption DEF TypeOK, QueueRight
<1>b. SleepsRight'
  BY <1>1, <1>2, <1>3 DEF SleepsRight
<1>c. MutexRight'
  BY <1>1, <1>2 DEF MutexRight, HasMutex, KindsRight, Timed, Interruptible
<1>d. KindsRight'
  BY <1>1, <1>2 DEF KindsRight, Timed, Interruptible, AllKinds
<1>e. CalloutsRight'
  BY <1>1, <1>2 DEF CalloutsRight, InTimedWait, KindsRight, Timed, Interruptible, AllKinds
<1>f. TimeoutTrue'
  BY <1>1, <1>2 DEF TimeoutTrue, CalloutsRight, KindsRight, InTimedWait, Timed, NoReturn
<1>g. SignalSeen'
  BY <1>1, <1>2, <1>3 DEF SignalSeen, SleepsRight, Interruptible
<1>h. TimeoutSeen'
  BY <1>1, <1>2, <1>3 DEF TimeoutSeen, SleepsRight, CalloutsRight, InTimedWait, Timed
<1>i. WakeupSeen'
  <2>1. \A t \in Waiters : wchan[t] = Cv => pc[t] # "idle"
    BY DEF SleepsRight
  <2>2. woken \subseteq Waiters
    BY DEF TypeOK
  <2>3. (woken' # {} => ready') /\ \A t \in woken' : pc'[t] # "idle" /\ wchan'[t] # Cv
    BY <1>1, <1>2, <1>3, <2>1, <2>2 DEF WakeupSeen
  <2>4. ready' /\ (\E t \in Waiters : wchan'[t] = Cv) => woken' # {}
    BY <1>1, <1>3
  <2> QED  BY <2>3, <2>4 DEF WakeupSeen
<1> QED  BY <1>3, <1>a, <1>b, <1>c, <1>d, <1>e, <1>f, <1>g, <1>h, <1>i

\* cv_broadcast() wakes all of them.
LEMMA CvBroadcastStep ==
  ASSUME CvInv, NEW s \in Setters, cv_broadcast(s)
  PROVE  CvInv'
<1> USE ThreadKinds DEF CvInv
<1>1. /\ pc[s] = "cv_broadcast" /\ pc' = [pc EXCEPT ![s] = "drop"]
      /\ UNCHANGED <<owner, ready, wasted, callout, due, left, timeleft, sig, kind, ret>>
  BY DEF cv_broadcast, Goto, mutex, predicate, times, local
<1>2. /\ pc'[s] = "drop" /\ \A u \in Setters \ {s} : pc'[u] = pc[u]
      /\ \A t \in Waiters : pc'[t] = pc[t]
      /\ pc' \in [Threads -> WaiterLabels \cup SetterLabels]
      /\ \A u \in Waiters : pc'[u] \in WaiterLabels
      /\ \A u \in Setters : pc'[u] \in SetterLabels
  BY <1>1, SetterMove DEF WaiterLabels, SetterLabels
<1>3. /\ QueueRight'
      /\ \A t \in Waiters : wchan'[t] = wchan[t] \/ (wchan[t] = Cv /\ wchan'[t] = Null)
      /\ woken' = IF ready THEN woken \cup {t \in Waiters : wchan[t] = Cv /\ wchan'[t] = Null} ELSE woken
      /\ (\E t \in Waiters : wchan[t] = Cv) => \E t \in Waiters : wchan[t] = Cv /\ wchan'[t] = Null
  <2>1. On(Cv) = {t \in Waiters : wchan[t] = Cv}
    BY OnIs
  <2>2. Wake(On(Cv), Cv, 0) /\ woken' = IF ready THEN woken \cup On(Cv) ELSE woken
    BY DEF cv_broadcast, Signalled
  <2>3. On(Cv) \ On(Cv) = {} /\ On(Cv) \in SUBSET On(Cv) /\ 0 \in 0 .. CV_MAX_WAITERS
    BY NumbersAssumption
  <2>4. 0 = Cardinality(On(Cv) \ On(Cv))
    BY <2>3, FS_EmptySet
  <2>5. QueueRight' /\ \A u \in Waiters : wchan'[u] = IF u \in On(Cv) THEN Null ELSE wchan[u]
    BY <2>2, <2>3, <2>4, WakeQueue
  <2>6. \A u \in Waiters : wchan'[u] = IF wchan[u] = Cv THEN Null ELSE wchan[u]
    BY <2>1, <2>5
  <2>7. On(Cv) = {u \in Waiters : wchan[u] = Cv /\ wchan'[u] = Null}
    BY <2>1, <2>6
  <2> QED  BY <2>2, <2>5, <2>6, <2>7
<1>a. TypeOK'
  BY <1>1, <1>2, <1>3, NumbersAssumption DEF TypeOK, QueueRight
<1>b. SleepsRight'
  BY <1>1, <1>2, <1>3 DEF SleepsRight
<1>c. MutexRight'
  BY <1>1, <1>2 DEF MutexRight, HasMutex, KindsRight, Timed, Interruptible
<1>d. KindsRight'
  BY <1>1, <1>2 DEF KindsRight, Timed, Interruptible, AllKinds
<1>e. CalloutsRight'
  BY <1>1, <1>2 DEF CalloutsRight, InTimedWait, KindsRight, Timed, Interruptible, AllKinds
<1>f. TimeoutTrue'
  BY <1>1, <1>2 DEF TimeoutTrue, CalloutsRight, KindsRight, InTimedWait, Timed, NoReturn
<1>g. SignalSeen'
  BY <1>1, <1>2, <1>3 DEF SignalSeen, SleepsRight, Interruptible
<1>h. TimeoutSeen'
  BY <1>1, <1>2, <1>3 DEF TimeoutSeen, SleepsRight, CalloutsRight, InTimedWait, Timed
<1>i. WakeupSeen'
  <2>1. \A t \in Waiters : wchan[t] = Cv => pc[t] # "idle"
    BY DEF SleepsRight
  <2>2. woken \subseteq Waiters
    BY DEF TypeOK
  <2>3. (woken' # {} => ready') /\ \A t \in woken' : pc'[t] # "idle" /\ wchan'[t] # Cv
    BY <1>1, <1>2, <1>3, <2>1, <2>2 DEF WakeupSeen
  <2>4. ready' /\ (\E t \in Waiters : wchan'[t] = Cv) => woken' # {}
    BY <1>1, <1>3
  <2> QED  BY <2>3, <2>4 DEF WakeupSeen
<1> QED  BY <1>3, <1>a, <1>b, <1>c, <1>d, <1>e, <1>f, <1>g, <1>h, <1>i

\* The setter drops the mutex, if it still has it.
LEMMA DropStep ==
  ASSUME CvInv, NEW s \in Setters, Drop(s)
  PROVE  CvInv'
<1> USE ThreadKinds DEF CvInv
<1>1. /\ pc[s] = "drop" /\ pc' = [pc EXCEPT ![s] = "idle"]
      /\ owner' = IF owner = s THEN Null ELSE owner
      /\ UNCHANGED <<ready, woken, wasted, callout, due, left, timeleft, sig, kind, ret>>
  BY DEF Drop, Goto, mutex, predicate, times, local
<1>2. /\ pc'[s] = "idle" /\ \A u \in Setters \ {s} : pc'[u] = pc[u]
      /\ \A t \in Waiters : pc'[t] = pc[t]
      /\ pc' \in [Threads -> WaiterLabels \cup SetterLabels]
      /\ \A u \in Waiters : pc'[u] \in WaiterLabels
      /\ \A u \in Setters : pc'[u] \in SetterLabels
  BY <1>1, SetterMove DEF WaiterLabels, SetterLabels
<1>3. QueueRight' /\ wchan' = wchan
  BY QueueKept DEF Drop
<1>a. TypeOK'
  BY <1>1, <1>2, <1>3, NumbersAssumption DEF TypeOK, QueueRight
<1>b. SleepsRight'
  BY <1>1, <1>2, <1>3 DEF SleepsRight
<1>c. MutexRight'
  BY <1>1, <1>2 DEF MutexRight, HasMutex, KindsRight, Timed, Interruptible
<1>d. KindsRight'
  BY <1>1, <1>2 DEF KindsRight, Timed, Interruptible, AllKinds
<1>e. CalloutsRight'
  BY <1>1, <1>2 DEF CalloutsRight, InTimedWait, KindsRight, Timed, Interruptible, AllKinds
<1>f. TimeoutTrue'
  BY <1>1, <1>2 DEF TimeoutTrue, CalloutsRight, KindsRight, InTimedWait, Timed, NoReturn
<1>g. SignalSeen'
  BY <1>1, <1>2, <1>3 DEF SignalSeen, SleepsRight, Interruptible
<1>h. TimeoutSeen'
  BY <1>1, <1>2, <1>3 DEF TimeoutSeen, SleepsRight, CalloutsRight, InTimedWait, Timed
<1>i. WakeupSeen'
  BY <1>1, <1>2, <1>3 DEF WakeupSeen, Signalling, TypeOK, MutexRight, SleepsRight
<1> QED  BY <1>3, <1>a, <1>b, <1>c, <1>d, <1>e, <1>f, <1>g, <1>h, <1>i

\* Time goes on.
LEMMA TickStep ==
  ASSUME CvInv, tick
  PROVE  CvInv'
<1> USE ThreadKinds DEF CvInv
<1>1. /\ left' = [t \in Waiters |-> Earlier(left[t])]
      /\ due' = [t \in Waiters |-> Earlier(due[t])]
      /\ UNCHANGED <<owner, ready, woken, wasted, callout, timeleft, sig, kind, ret, pc>>
  BY DEF tick, mutex, predicate, local
<1>2. QueueRight' /\ wchan' = wchan
  BY QueueKept DEF tick
<1>3. \A n \in 0 .. MaxWait :
        /\ Earlier(n) \in 0 .. MaxWait /\ Earlier(n) <= n /\ (n = 0 => Earlier(n) = 0)
        /\ \A m \in 0 .. MaxWait : n <= m => Earlier(n) <= Earlier(m)
  BY NumbersAssumption DEF Earlier
<1>4. \A t \in Waiters :
        /\ left[t] \in 0 .. MaxWait /\ due[t] \in 0 .. MaxWait /\ timeleft[t] \in 0 .. MaxWait
        /\ left'[t] = Earlier(left[t]) /\ due'[t] = Earlier(due[t])
  BY <1>1 DEF TypeOK
<1>5. \A t \in Waiters :
        /\ left'[t] \in 0 .. MaxWait /\ due'[t] \in 0 .. MaxWait
        /\ left[t] = 0 => left'[t] = 0
        /\ left[t] <= due[t] => left'[t] <= due'[t]
        /\ left[t] <= timeleft[t] => left'[t] <= timeleft[t]
  <2> SUFFICES ASSUME NEW t \in Waiters
               PROVE  /\ left'[t] \in 0 .. MaxWait /\ due'[t] \in 0 .. MaxWait
                      /\ left[t] = 0 => left'[t] = 0
                      /\ left[t] <= due[t] => left'[t] <= due'[t]
                      /\ left[t] <= timeleft[t] => left'[t] <= timeleft[t]
    OBVIOUS
  <2>1. /\ left'[t] \in 0 .. MaxWait /\ due'[t] \in 0 .. MaxWait /\ left'[t] <= left[t]
        /\ left[t] = 0 => left'[t] = 0
        /\ left[t] <= due[t] => left'[t] <= due'[t]
    BY <1>3, <1>4
  <2>2. left[t] <= timeleft[t] => left'[t] <= timeleft[t]
    BY <1>4, <2>1, NumbersAssumption
  <2> QED  BY <2>1, <2>2
<1>6. left' \in [Waiters -> 0 .. MaxWait] /\ due' \in [Waiters -> 0 .. MaxWait]
  BY <1>1, <1>5
<1>a. TypeOK'
  BY <1>1, <1>2, <1>6 DEF TypeOK, QueueRight
<1>b. SleepsRight' /\ MutexRight' /\ KindsRight'
  BY <1>1, <1>2 DEF SleepsRight, MutexRight, HasMutex, KindsRight
<1>c. CalloutsRight' /\ TimeoutTrue'
  BY <1>1, <1>5 DEF CalloutsRight, InTimedWait, TimeoutTrue
<1>d. SignalSeen' /\ TimeoutSeen' /\ WakeupSeen'
  BY <1>1, <1>2 DEF SignalSeen, TimeoutSeen, WakeupSeen, Signalling
<1> QED  BY <1>2, <1>a, <1>b, <1>c, <1>d

-----------------------------------------------------------------------------
(* The theorems                                                            *)

\* In every reachable state of condvar.c the sleep queue, the counters, the
\* callouts and the places of the waiters are related as CvInv says.
THEOREM CvInvariant == Spec => []CvInv
<1>1. Init => CvInv
  <2> SUFFICES ASSUME Init PROVE CvInv
    OBVIOUS
  <2> USE ThreadKinds DEF Init
  <2>1. QueueRight
    <3>1. sq \in Seq(Waiters) /\ Distinct(sq) /\ Sorted(sq, pri) /\ Elems(sq) = {}
      BY EmptyQueue
    <3>2. pri \in [Waiters -> Prios]
      BY NumbersAssumption DEF Unused
    <3>3. \A c : On(c) = {}
      BY <3>1 DEF On, Asleep
    <3>4. WaitersExact /\ cv_waiters \in [Cvs -> 0 .. CV_MAX_WAITERS]
      <4>1. \A c \in Cvs : cv_waiters[c] = 0 /\ Cardinality(On(c)) = 0
        BY <3>3, FS_EmptySet
      <4> QED  BY <4>1, NumbersAssumption DEF WaitersExact
    <3>5. wchan \in [Waiters -> Cvs \cup {Null}] /\ QueueExact
      BY <3>1 DEF QueueExact, Asleep
    <3> QED  BY <3>1, <3>2, <3>4, <3>5 DEF QueueRight, QueueSorted
  <2>2. TypeOK
    <3>1. /\ due \in [Waiters -> 0 .. MaxWait] /\ left \in [Waiters -> 0 .. MaxWait]
          /\ timeleft \in [Waiters -> 0 .. MaxWait] /\ ret \in [Waiters -> -2 .. MaxWait]
      BY NumbersAssumption DEF NoReturn
    <3>2. /\ pc \in [Threads -> WaiterLabels \cup SetterLabels]
          /\ \A t \in Waiters : pc[t] \in WaiterLabels
          /\ \A s \in Setters : pc[s] \in SetterLabels
      BY DEF WaiterLabels, SetterLabels
    <3>3. QueueRight
      BY <2>1
    <3> QED  BY <3>1, <3>2, <3>3 DEF TypeOK, QueueRight
  <2>3. \A t \in Waiters : /\ pc[t] = "idle" /\ wchan[t] = Null /\ kind[t] = Null
                           /\ callout[t] = "idle" /\ ret[t] # -1
    BY DEF NoReturn
  <2>4. SleepsRight /\ MutexRight /\ KindsRight /\ CalloutsRight
    BY <2>3 DEF SleepsRight, MutexRight, HasMutex, KindsRight, CalloutsRight, InTimedWait
  <2>5. TimeoutTrue /\ SignalSeen /\ TimeoutSeen /\ WakeupSeen
    BY <2>3 DEF TimeoutTrue, SignalSeen, TimeoutSeen, WakeupSeen
  <2> QED  BY <2>1, <2>2, <2>4, <2>5 DEF CvInv
<1>2. CvInv /\ [Next]_vars => CvInv'
  <2> SUFFICES ASSUME CvInv, [Next]_vars PROVE CvInv'
    OBVIOUS
  <2>1. CASE UNCHANGED vars
    <3>1. UNCHANGED queue
          /\ UNCHANGED <<owner, ready, woken, wasted, callout, due, left, timeleft, sig, kind, ret, pc>>
      BY <2>1 DEF vars, mutex, predicate, times, local
    <3>2. QueueRight' /\ wchan' = wchan
      BY <3>1, QueueKept DEF CvInv
    <3> QED
      BY <3>1, <3>2
      DEF CvInv, TypeOK, QueueRight, SleepsRight, MutexRight, HasMutex, KindsRight, CalloutsRight,
          InTimedWait, TimeoutTrue, SignalSeen, TimeoutSeen, WakeupSeen, Signalling
  <2>2. ASSUME NEW t \in Waiters, NEW k \in Kinds, Call(t, k)
        PROVE  CvInv'
    <3>1. PICK w \in 0 .. MaxWait : Calls(t, k, w) /\ (k = "wait_stop" => w # 0)
      BY <2>2, CallIs DEF CvInv
    <3>2. k \in AllKinds
      BY NumbersAssumption
    <3>3. CASE k \notin Timed
      BY <3>1, <3>2, <3>3, CallStep
    <3>4. CASE k \in Timed /\ w # 0
      BY <3>1, <3>4, CallTimedStep
    <3>5. CASE k = "timedwait" /\ w = 0
      BY <3>1, <3>5, CallUpStep
    <3>6. CASE k = "timedwait_sig" /\ w = 0
      BY <3>1, <3>6, CallUpSigStep DEF Timed, Interruptible
    <3> QED  BY <3>1, <3>2, <3>3, <3>4, <3>5, <3>6 DEF Timed
  <2>3. ASSUME NEW t \in Waiters, Start(t) \/ Enter(t)
        PROVE  CvInv'
    BY <2>3, StartStep, EnterSigStep, EnterStep, ReenterStep DEF Enter
  <2>4. ASSUME NEW t \in Waiters, Wait(t)
        PROVE  CvInv'
    <3>1. CASE look(t)
      BY <3>1, LookRunStep, LookStep
    <3>2. CASE issig(t)
      BY <3>2, IssigStep, NoSigStep
    <3> QED
      BY <2>2, <2>4, <3>1, <3>2, LeaveStep, GiveUpStep, ArmStep, BlockStep, ScBlockStep, ExitStep,
         SwtchStep,
         AwakeStep, PendingStep, DoneStep, DoneWaitStep, DoneWokenStep, ForrealStep, StopStep
      DEF Wait
  <2>5. ASSUME NEW t \in Waiters, Callout(t) \/ eat_signal(t)
        PROVE  CvInv'
    BY <2>5, CalloutStartStep, CalloutSetrunStep, CalloutEndStep, SignalStep, SignalMissStep
    DEF Callout
  <2>6. ASSUME NEW t \in Waiters, NEW p \in Prios, cv_change_pri(t, p)
        PROVE  CvInv'
    BY <2>6, ChangePriStep
  <2>7. ASSUME NEW s \in Setters, Set(s) \/ Signal(s)
        PROVE  CvInv'
    BY <2>7, SetStep, LookAtStep, CvSignalStep, CvBroadcastStep, DropStep DEF Signal
  <2>8. CASE tick
    BY <2>8, TickStep
  <2> QED  BY <2>1, <2>3, <2>4, <2>5, <2>6, <2>7, <2>8 DEF Next
<1> QED  BY <1>1, <1>2, PTL DEF Spec

\* The counters, the callouts and the order of the queue are right for any
\* number of waiters, past the limit of cv_waiters; a result of -1 is true;
\* and nobody sleeps interruptibly over a signal.
THEOREM CountersAndTimeoutsRight == Spec => []Inv
<1>1. CvInv => Inv
  <2> SUFFICES ASSUME CvInv PROVE Inv
    OBVIOUS
  <2>1. TypeOK /\ WaitersExact /\ TimeoutTrue /\ QueueSorted
    BY DEF CvInv, QueueRight
  <2>2. TimeoutEndsWithWait
    BY DEF CvInv, CalloutsRight, InTimedWait, TimeoutEndsWithWait
  <2>3. On(Cv) = {t \in Waiters : wchan[t] = Cv}
    BY OnIs, ThreadKinds DEF CvInv
  <2>4. NoMissedSignal
    BY <2>3 DEF CvInv, SignalSeen, NoMissedSignal
  <2> QED  BY <2>1, <2>2, <2>4 DEF Inv
<1> QED  BY <1>1, CvInvariant, PTL

\* No wakeup slips between the test of the predicate and the sleep: a sleeper
\* is passed over only for a waiter that was signalled and is on its way, or
\* that was signalled and gave up, whose wakeup condvar.c does not pass on.
THEOREM NoWakeupLost == Spec => []NoLostWakeup
<1>1. CvInv => NoLostWakeup
  <2> SUFFICES ASSUME CvInv PROVE NoLostWakeup
    OBVIOUS
  <2>1. On(Cv) = {t \in Waiters : wchan[t] = Cv}
    BY OnIs, ThreadKinds DEF CvInv
  <2> QED  BY <2>1 DEF CvInv, WakeupSeen, NoLostWakeup
<1> QED  BY <1>1, CvInvariant, PTL

\* Nobody sleeps on after its timeout: a setrun() that came too early is made
\* good by the second look at lbolt.
THEOREM NoTimeoutMissed == Spec => []TimeoutNotMissed
<1>1. CvInv => TimeoutNotMissed
  <2> SUFFICES ASSUME CvInv PROVE TimeoutNotMissed
    OBVIOUS
  <2>1. On(Cv) = {t \in Waiters : wchan[t] = Cv}
    BY OnIs, ThreadKinds DEF CvInv
  <2> QED  BY <2>1 DEF CvInv, TimeoutSeen, TimeoutNotMissed
<1> QED  BY <1>1, CvInvariant, PTL
=============================================================================
