-------------------------- MODULE SleepLockProofs --------------------------
(***************************************************************************)
(* Proofs about the locks a thread sleeps for.                             *)
(*                                                                         *)
(* Semaphore, for any finite set of threads: no wakeup and no signal is    *)
(* lost, units go by priority, and what happens is what SemaSpec allows.   *)
(*                                                                         *)
(* TurnstilePI, for any finite sets of threads and objects, any scripts    *)
(* that take the objects in one order, any hash chains and priorities:     *)
(* turnstiles are accounted for, priority is willed under the right locks  *)
(* along chains without a cycle, and no inversion is left.                 *)
(***************************************************************************)
EXTENDS Semaphore, TurnstilePI, SleepQueueTheorems

-----------------------------------------------------------------------------
(* Semaphores                                                              *)

\* Who is on the queue is there once, and has called what sleeps.
QueueRight ==
  /\ Distinct(s_slpq)
  /\ \A t \in Asleep : pc[t] \in {"p_swtch", "sig_look", "sig_swtch"}

\* Only threads with an lwp are in sema_p_sig().
SigHasLwp ==
  \A t \in Threads :
    pc[t] \in {"sig", "sig_look", "sig_swtch", "sig_retry", "sig_intr"} => t \in Lwps

SemaInv ==
  /\ TypeOK /\ QueueRight /\ SigHasLwp
  /\ NoLostWakeup /\ NoMissedSignal /\ QueueSorted

OnTheWay == {"p_swtch", "sig_look", "sig_swtch", "sig_retry", "sig_intr"}

-----------------------------------------------------------------------------
(* The queue                                                               *)

LEMMA PrioInt ==
  ASSUME TypeOK
  PROVE  pri \in [Threads -> Int]
BY PriosAssumption DEF TypeOK

LEMMA TransitFinite ==
  /\ IsFiniteSet(InTransit) /\ Cardinality(InTransit) \in Nat
  /\ InTransit = {t \in Threads : t \notin Asleep /\ pc[t] \in OnTheWay}
<1>1. InTransit \in SUBSET Threads /\
      InTransit = {t \in Threads : t \notin Asleep /\ pc[t] \in OnTheWay}
  BY DEF InTransit, OnTheWay
<1>2. IsFiniteSet(InTransit)
  BY <1>1, FS_Subset, ThreadsAssumption
<1> QED  BY <1>1, <1>2, FS_CardinalityType

\* More threads on their way are as many wakeups.
LEMMA TransitGrows ==
  ASSUME NoLostWakeup, TypeOK, s_count' = s_count, s_slpq # <<>>,
         InTransit \subseteq InTransit', InTransit' \subseteq Threads
  PROVE  NoLostWakeup'
<1>1. IsFiniteSet(InTransit')
  BY FS_Subset, ThreadsAssumption
<1>2. Cardinality(InTransit) <= Cardinality(InTransit') /\ Cardinality(InTransit') \in Nat
  BY <1>1, FS_Subset, FS_CardinalityType
<1>3. Cardinality(InTransit) \in Nat /\ s_count \in Nat
  BY TransitFinite DEF TypeOK
<1> QED  BY <1>2, <1>3 DEF NoLostWakeup

\* A thread goes to sleep: SEMA_BLOCK.
LEMMA BlockInv ==
  ASSUME SemaInv, NEW t \in Threads, t \notin Asleep, s_count = 0, NEW l, SEMA_BLOCK(t, l),
         l \in {"p_swtch", "sig_look"}, l = "sig_look" => t \in Lwps,
         UNCHANGED <<s_count, sig, panicstr>>
  PROVE  SemaInv'
<1>1. PICK p \in Prios : /\ pri' = [pri EXCEPT ![t] = p]
                         /\ s_slpq' = Insert(s_slpq, [pri EXCEPT ![t] = p], t)
  BY DEF SEMA_BLOCK, sema_queue
<1>2. pc' = [pc EXCEPT ![t] = l]
  BY DEF SEMA_BLOCK, Goto
<1>3. pri' \in [Threads -> Prios] /\ pri' \in [Threads -> Int]
  BY <1>1, PriosAssumption DEF SemaInv, TypeOK
<1>4. s_slpq \in Seq(Threads) /\ Distinct(s_slpq) /\ t \notin Elems(s_slpq)
  BY DEF SemaInv, TypeOK, QueueRight, Asleep
<1>5. Sorted(s_slpq, pri')
  <2>1. \A x \in Elems(s_slpq) : x \in Threads /\ pri'[x] = pri[x]
    BY <1>1, <1>4, ElemsEmpty DEF SemaInv, TypeOK
  <2> QED  BY <1>4, <2>1, SortedDepends DEF SemaInv, QueueSorted
<1>6. /\ s_slpq' \in Seq(Threads) /\ Distinct(s_slpq') /\ Sorted(s_slpq', pri')
      /\ Elems(s_slpq') = Elems(s_slpq) \cup {t}
  <2> DEFINE prio == [pri EXCEPT ![t] = p]
  <2>1. pri' = prio /\ s_slpq' = Insert(s_slpq, prio, t)
    BY <1>1
  <2>2. prio \in [Threads -> Int] /\ Sorted(s_slpq, prio)
    BY <1>3, <1>5, <2>1
  <2> HIDE DEF prio
  <2>3. /\ Insert(s_slpq, prio, t) \in Seq(Threads)
        /\ Distinct(Insert(s_slpq, prio, t))
        /\ Elems(Insert(s_slpq, prio, t)) = Elems(s_slpq) \cup {t}
        /\ Sorted(Insert(s_slpq, prio, t), prio)
    BY <1>4, <2>2, InsertQueue
  <2> QED  BY <2>1, <2>3
<1>7. TypeOK' /\ SigHasLwp'
  BY <1>2, <1>3, <1>6 DEF SemaInv, TypeOK, SigHasLwp
<1>8. QueueRight' /\ QueueSorted' /\ NoMissedSignal'
  BY <1>2, <1>4, <1>6, ElemsEmpty
  DEF SemaInv, TypeOK, QueueRight, QueueSorted, NoMissedSignal, Asleep
<1>9. NoLostWakeup'
  <2>1. InTransit' \in SUBSET Threads
    BY DEF InTransit
  <2>2. Cardinality(InTransit') \in Nat
    BY <2>1, FS_Subset, FS_CardinalityType, ThreadsAssumption
  <2> QED  BY <2>2 DEF NoLostWakeup
<1> QED  BY <1>7, <1>8, <1>9 DEF SemaInv

\* A thread leaves the queue, if it is on it, and nothing else happens to the
\* queue: it is on its way.
LEMMA LeaveInv ==
  ASSUME SemaInv, NEW t \in Threads,
         s_slpq' = Remove(s_slpq, t) \/ s_slpq' = s_slpq,
         UNCHANGED <<s_count, pri, panicstr>>,
         sig' \subseteq Lwps, pc' \in [Threads -> OnTheWay \cup {"idle", "p", "sig"}],
         SigHasLwp', NoMissedSignal',
         \A x \in Threads : pc[x] \in OnTheWay => pc'[x] \in OnTheWay,
         \A x \in Asleep : x \in Elems(s_slpq') => pc'[x] \in {"p_swtch", "sig_look", "sig_swtch"}
  PROVE  SemaInv'
<1>1. s_slpq \in Seq(Threads) /\ Distinct(s_slpq)
  BY DEF SemaInv, TypeOK, QueueRight
<1>2. /\ s_slpq' \in Seq(Threads) /\ Distinct(s_slpq') /\ Elems(s_slpq') \subseteq Elems(s_slpq)
      /\ \A prio : Sorted(s_slpq, prio) => Sorted(s_slpq', prio)
  BY <1>1, RemoveQueue
<1>3. TypeOK'
  BY <1>2 DEF SemaInv, TypeOK, OnTheWay
<1>4. QueueRight' /\ QueueSorted'
  BY <1>2 DEF SemaInv, QueueRight, QueueSorted, Asleep
<1>5. NoLostWakeup'
  <2>1. CASE s_slpq' = <<>>
    BY <2>1 DEF NoLostWakeup
  <2>2. CASE s_slpq' # <<>>
    <3>1. s_slpq # <<>>
      BY <1>1, <1>2, <2>2, ElemsEmpty
    <3>2. InTransit \subseteq InTransit' /\ InTransit' \subseteq Threads
      BY <1>2, TransitFinite DEF InTransit, Asleep, OnTheWay
    <3> QED  BY <3>1, <3>2, TransitGrows DEF SemaInv
  <2> QED  BY <2>1, <2>2
<1> QED  BY <1>3, <1>4, <1>5 DEF SemaInv

-----------------------------------------------------------------------------
(* One lemma for each operation                                            *)

LEMMA TakeInv ==
  ASSUME SemaInv, NEW t \in Threads, t \notin Asleep, Take(t)
  PROVE  SemaInv'
<1>1. /\ s_count > 0 /\ s_count' = s_count - 1 /\ pc' = [pc EXCEPT ![t] = "idle"]
      /\ UNCHANGED <<s_slpq, pri, sig, panicstr>>
  BY DEF Take, Goto
<1>2. TypeOK' /\ SigHasLwp'
  BY <1>1, CountAssumption DEF SemaInv, TypeOK, SigHasLwp
<1>3. QueueRight' /\ QueueSorted' /\ NoMissedSignal'
  BY <1>1 DEF SemaInv, TypeOK, QueueRight, QueueSorted, NoMissedSignal, Asleep
<1>4. NoLostWakeup'
  <2>1. InTransit' = InTransit \ {t}
    BY <1>1, TransitFinite DEF SemaInv, TypeOK, InTransit, Asleep, OnTheWay
  <2>2. IsFiniteSet(InTransit) /\ Cardinality(InTransit) \in Nat
    BY TransitFinite
  <2>3. Cardinality(InTransit') >= Cardinality(InTransit) - 1
    <3>1. CASE t \in InTransit
      <4>1. Cardinality(InTransit \ {t}) = Cardinality(InTransit) - 1
        BY <2>2, <3>1, FS_RemoveElement
      <4> QED  BY <2>1, <2>2, <4>1
    <3>2. CASE t \notin InTransit
      <4>1. InTransit' = InTransit
        BY <2>1, <3>2
      <4> QED  BY <2>2, <4>1
    <3> QED  BY <3>1, <3>2
  <2>4. Cardinality(InTransit') \in Nat /\ s_count \in Nat
    BY <2>1, <2>2, FS_RemoveElement, FS_CardinalityType, FS_Subset DEF SemaInv, TypeOK
  <2> QED  BY <1>1, <2>2, <2>3, <2>4 DEF SemaInv, NoLostWakeup
<1> QED  BY <1>2, <1>3, <1>4 DEF SemaInv

\* The first of the queue is woken for a unit.
LEMMA WakeFirstTransit ==
  ASSUME SemaInv, s_slpq # <<>>, WakeFirst
  PROVE  /\ s_slpq' \in Seq(Threads) /\ Distinct(s_slpq')
         /\ s_slpq[1] \in Asleep /\ s_slpq[1] \in Threads
         /\ Elems(s_slpq') = Asleep \ {s_slpq[1]}
         /\ Sorted(s_slpq', pri)
<1>1. s_slpq \in Seq(Threads) /\ Distinct(s_slpq) /\ Sorted(s_slpq, pri)
  BY DEF SemaInv, TypeOK, QueueRight, QueueSorted
<1> QED  BY <1>1, TailQueue, ElemsEmpty DEF WakeFirst, Asleep

LEMMA VInv ==
  ASSUME SemaInv, sema_v
  PROVE  SemaInv'
<1>1. s_count' = s_count + 1 /\ UNCHANGED <<pri, sig, panicstr, pc>> /\ s_count < MaxCount
  BY DEF sema_v
<1>2. CASE s_slpq = <<>>
  <2>1. s_slpq' = s_slpq
    BY <1>2 DEF sema_v
  <2> QED
    BY <1>1, <1>2, <2>1, CountAssumption
    DEF SemaInv, TypeOK, QueueRight, SigHasLwp, NoLostWakeup, NoMissedSignal, QueueSorted, Asleep
<1>3. CASE s_slpq # <<>>
  <2>1. WakeFirst
    BY <1>3 DEF sema_v
  <2> DEFINE h == s_slpq[1]
  <2>2. /\ s_slpq' \in Seq(Threads) /\ Distinct(s_slpq') /\ h \in Asleep /\ h \in Threads
        /\ Elems(s_slpq') = Asleep \ {h} /\ Sorted(s_slpq', pri)
    BY <1>3, <2>1, WakeFirstTransit
  <2> HIDE DEF h
  <2>3. TypeOK' /\ SigHasLwp'
    BY <1>1, <2>2, CountAssumption DEF SemaInv, TypeOK, SigHasLwp
  <2>4. QueueRight' /\ QueueSorted' /\ NoMissedSignal'
    BY <1>1, <2>2 DEF SemaInv, QueueRight, QueueSorted, NoMissedSignal, Asleep
  <2>5. InTransit' = InTransit \cup {h} /\ h \notin InTransit
    BY <1>1, <2>2, TransitFinite DEF SemaInv, QueueRight, InTransit, Asleep, OnTheWay
  <2>6. Cardinality(InTransit') = Cardinality(InTransit) + 1 /\ Cardinality(InTransit) \in Nat
    BY <2>5, TransitFinite, FS_AddElement
  <2>7. NoLostWakeup'
    BY <1>1, <1>3, <2>6 DEF SemaInv, TypeOK, NoLostWakeup
  <2> QED  BY <2>3, <2>4, <2>7 DEF SemaInv
<1> QED  BY <1>2, <1>3

\* The interrupted thread is not on its way any more; who it wakes is instead.
LEMMA IntrInv ==
  ASSUME SemaInv, NEW t \in Threads, sema_p_sig_intr(t)
  PROVE  SemaInv'
<1>1. /\ pc[t] = "sig_intr" /\ pc' = [pc EXCEPT ![t] = "idle"] /\ t \notin Asleep
      /\ UNCHANGED <<s_count, pri, sig, panicstr>>
  BY DEF sema_p_sig_intr, Goto, SemaInv, QueueRight
<1>2. CASE s_slpq = <<>> \/ ~(s_count > 0)
  <2>1. s_slpq' = s_slpq
    BY <1>2 DEF sema_p_sig_intr
  <2>2. TypeOK' /\ SigHasLwp' /\ QueueRight' /\ NoMissedSignal' /\ QueueSorted'
    BY <1>1, <2>1
    DEF SemaInv, TypeOK, QueueRight, SigHasLwp, NoMissedSignal, QueueSorted, Asleep
  <2>3. InTransit' \in SUBSET Threads
    BY DEF InTransit
  <2>4. Cardinality(InTransit') \in Nat
    BY <2>3, FS_Subset, FS_CardinalityType, ThreadsAssumption
  <2>5. NoLostWakeup'
    BY <1>1, <1>2, <2>1, <2>4 DEF SemaInv, TypeOK, NoLostWakeup
  <2> QED  BY <2>2, <2>5 DEF SemaInv
<1>3. CASE s_slpq # <<>> /\ s_count > 0
  <2>1. WakeFirst
    BY <1>3 DEF sema_p_sig_intr
  <2> DEFINE h == s_slpq[1]
  <2>2. /\ s_slpq' \in Seq(Threads) /\ Distinct(s_slpq') /\ h \in Asleep /\ h \in Threads
        /\ Elems(s_slpq') = Asleep \ {h} /\ Sorted(s_slpq', pri)
    BY <1>3, <2>1, WakeFirstTransit
  <2> HIDE DEF h
  <2>3. TypeOK' /\ SigHasLwp'
    BY <1>1, <2>2 DEF SemaInv, TypeOK, SigHasLwp
  <2>4. QueueRight' /\ QueueSorted' /\ NoMissedSignal'
    BY <1>1, <2>2 DEF SemaInv, TypeOK, QueueRight, QueueSorted, NoMissedSignal, Asleep
  <2>5. /\ InTransit' = (InTransit \ {t}) \cup {h} /\ h \notin InTransit \ {t}
        /\ t \in InTransit
    BY <1>1, <2>2, TransitFinite DEF SemaInv, TypeOK, QueueRight, InTransit, Asleep, OnTheWay
  <2>6. Cardinality(InTransit') = Cardinality(InTransit)
    <3>1. /\ IsFiniteSet(InTransit \ {t})
          /\ Cardinality(InTransit \ {t}) = Cardinality(InTransit) - 1
      BY <2>5, TransitFinite, FS_RemoveElement
    <3>2. Cardinality(InTransit') = Cardinality(InTransit \ {t}) + 1
      BY <2>5, <3>1, FS_AddElement
    <3> QED  BY <3>1, <3>2, TransitFinite
  <2>7. NoLostWakeup'
    BY <1>1, <1>3, <2>6 DEF SemaInv, NoLostWakeup
  <2> QED  BY <2>3, <2>4, <2>7 DEF SemaInv
<1> QED  BY <1>2, <1>3

LEMMA LookInv ==
  ASSUME SemaInv, NEW t \in Threads, sema_p_sig_look(t)
  PROVE  SemaInv'
<1>1. /\ pc[t] = "sig_look" /\ pc' = [pc EXCEPT ![t] = "sig_swtch"]
      /\ UNCHANGED <<s_count, pri, sig, panicstr>>
      /\ s_slpq' = IF t \in sig THEN Remove(s_slpq, t) ELSE s_slpq
  BY DEF sema_p_sig_look, sema_unsleep, sema_dequeue, Goto
<1>2. s_slpq \in Seq(Threads) /\ Distinct(s_slpq)
  BY DEF SemaInv, TypeOK, QueueRight
<1>3. Elems(s_slpq') = IF t \in sig THEN Asleep \ {t} ELSE Asleep
  BY <1>1, <1>2, RemoveQueue DEF Asleep
<1>4. NoMissedSignal'
  BY <1>1, <1>3 DEF SemaInv, TypeOK, NoMissedSignal, Asleep
<1>5. SigHasLwp' /\ sig' \subseteq Lwps /\ pc' \in [Threads -> OnTheWay \cup {"idle", "p", "sig"}]
  BY <1>1 DEF SemaInv, TypeOK, SigHasLwp, OnTheWay
<1>6. /\ \A x \in Threads : pc[x] \in OnTheWay => pc'[x] \in OnTheWay
      /\ \A x \in Asleep : x \in Elems(s_slpq') => pc'[x] \in {"p_swtch", "sig_look", "sig_swtch"}
  BY <1>1, <1>2, ElemsEmpty DEF SemaInv, TypeOK, QueueRight, OnTheWay, Asleep
<1> QED  BY <1>1, <1>4, <1>5, <1>6, LeaveInv

LEMMA IssigInv ==
  ASSUME SemaInv, NEW t \in Threads, sema_p_sig_issig(t)
  PROVE  SemaInv'
<1>1. /\ pc[t] = "sig_swtch" /\ t \notin Asleep /\ sig' = sig \ {t}
      /\ pc' = [pc EXCEPT ![t] = "sig_intr"] \/ pc' = [pc EXCEPT ![t] = "sig_retry"]
      /\ UNCHANGED <<s_count, s_slpq, pri, panicstr>>
  BY DEF sema_p_sig_issig, Goto
<1>2. NoMissedSignal'
  <2>1. Asleep \subseteq Threads /\ Asleep' = Asleep
    BY <1>1, ElemsEmpty DEF SemaInv, TypeOK, Asleep
  <2>2. \A x \in Asleep : pc'[x] = pc[x]
    BY <1>1, <2>1 DEF SemaInv, TypeOK
  <2> QED  BY <1>1, <2>1, <2>2 DEF SemaInv, NoMissedSignal
<1>3. SigHasLwp' /\ sig' \subseteq Lwps /\ pc' \in [Threads -> OnTheWay \cup {"idle", "p", "sig"}]
  BY <1>1 DEF SemaInv, TypeOK, SigHasLwp, OnTheWay
<1>4. /\ \A x \in Threads : pc[x] \in OnTheWay => pc'[x] \in OnTheWay
      /\ \A x \in Asleep : x \in Elems(s_slpq') => pc'[x] \in {"p_swtch", "sig_look", "sig_swtch"}
  BY <1>1, ElemsEmpty DEF SemaInv, TypeOK, QueueRight, OnTheWay, Asleep
<1> QED  BY <1>1, <1>2, <1>3, <1>4, LeaveInv

LEMMA SignalInv ==
  ASSUME SemaInv, NEW t \in Threads, eat_signal(t)
  PROVE  SemaInv'
<1>1. /\ t \in Lwps /\ sig' = sig \cup {t} /\ pc' = pc
      /\ UNCHANGED <<s_count, pri, panicstr>>
      /\ s_slpq' = IF Wakeable(t) THEN Remove(s_slpq, t) ELSE s_slpq
  BY DEF eat_signal, sema_unsleep, sema_dequeue
<1>2. s_slpq \in Seq(Threads) /\ Distinct(s_slpq)
  BY DEF SemaInv, TypeOK, QueueRight
<1>3. Elems(s_slpq') = IF Wakeable(t) THEN Asleep \ {t} ELSE Asleep
  BY <1>1, <1>2, RemoveQueue DEF Asleep
<1>4. NoMissedSignal'
  BY <1>1, <1>3 DEF SemaInv, QueueRight, NoMissedSignal, Asleep, Wakeable
<1>5. SigHasLwp' /\ sig' \subseteq Lwps /\ pc' \in [Threads -> OnTheWay \cup {"idle", "p", "sig"}]
  BY <1>1 DEF SemaInv, TypeOK, SigHasLwp, OnTheWay
<1>6. /\ \A x \in Threads : pc[x] \in OnTheWay => pc'[x] \in OnTheWay
      /\ \A x \in Asleep : x \in Elems(s_slpq') => pc'[x] \in {"p_swtch", "sig_look", "sig_swtch"}
  BY <1>1 DEF SemaInv, QueueRight
<1> QED  BY <1>1, <1>4, <1>5, <1>6, LeaveInv

LEMMA ChangePriInv ==
  ASSUME SemaInv, NEW t \in Threads, NEW p \in Prios, sema_change_pri(t, p)
  PROVE  SemaInv'
<1>1. /\ t \in Asleep /\ pri' = [pri EXCEPT ![t] = p]
      /\ s_slpq' = Insert(Remove(s_slpq, t), pri', t)
      /\ UNCHANGED <<s_count, sig, panicstr, pc>>
  BY DEF sema_change_pri, sema_queue, sema_dequeue
<1>2. /\ s_slpq \in Seq(Threads) /\ Distinct(s_slpq) /\ Sorted(s_slpq, pri)
      /\ pri' \in [Threads -> Prios] /\ pri' \in [Threads -> Int]
  BY <1>1, PriosAssumption DEF SemaInv, TypeOK, QueueRight, QueueSorted
<1> DEFINE r == Remove(s_slpq, t)
           prio == [pri EXCEPT ![t] = p]
<1>3. /\ r \in Seq(Threads) /\ Distinct(r) /\ Elems(r) = Asleep \ {t} /\ Sorted(r, pri)
  BY <1>2, RemoveQueue DEF Asleep
<1>4. pri' = prio /\ prio \in [Threads -> Int] /\ s_slpq' = Insert(r, prio, t)
  BY <1>1, <1>2
<1>5. \A x \in Elems(r) : prio[x] = pri[x]
  BY <1>2, <1>3, ElemsEmpty DEF SemaInv, TypeOK, Asleep
<1> HIDE DEF r, prio
<1>6. Sorted(r, prio)
  BY <1>3, <1>5, SortedDepends
<1>7. /\ Insert(r, prio, t) \in Seq(Threads) /\ Distinct(Insert(r, prio, t))
      /\ Elems(Insert(r, prio, t)) = Elems(r) \cup {t} /\ Sorted(Insert(r, prio, t), prio)
  BY <1>3, <1>4, <1>6, InsertQueue
<1>8. Elems(s_slpq') = Asleep
  BY <1>1, <1>3, <1>4, <1>7
<1>9. TypeOK' /\ SigHasLwp' /\ QueueRight' /\ QueueSorted' /\ NoMissedSignal'
  BY <1>1, <1>2, <1>4, <1>7, <1>8
  DEF SemaInv, TypeOK, SigHasLwp, QueueRight, QueueSorted, NoMissedSignal, Asleep
<1>10. NoLostWakeup'
  <2>1. InTransit' = InTransit
    BY <1>1, <1>8 DEF InTransit, Asleep
  <2>2. s_slpq # <<>>
    BY <1>1, <1>2, ElemsEmpty DEF Asleep
  <2> QED  BY <1>1, <2>1, <2>2 DEF SemaInv, NoLostWakeup
<1> QED  BY <1>9, <1>10 DEF SemaInv

\* A call, a return of sema_p() in a panic, the panic itself.
LEMMA QuietInv ==
  ASSUME SemaInv, UNCHANGED <<s_count, s_slpq, pri, sig>>,
         panicstr' \in BOOLEAN,
         \/ pc' = pc
         \/ \E t \in Threads : t \notin Asleep /\ Call(t)
         \/ s_count = 0 /\ \E t \in Threads : t \notin Asleep /\ pc' = [pc EXCEPT ![t] = "idle"]
  PROVE  SemaInv'
<1>1. TypeOK' /\ SigHasLwp' /\ QueueRight' /\ QueueSorted' /\ NoMissedSignal'
  <2>1. Asleep \subseteq Threads /\ Asleep' = Asleep
    BY ElemsEmpty DEF SemaInv, TypeOK, Asleep
  <2>2. \A x \in Asleep : pc'[x] = pc[x]
    BY <2>1 DEF SemaInv, TypeOK, Call, Goto
  <2>3. TypeOK' /\ SigHasLwp'
    BY DEF SemaInv, TypeOK, SigHasLwp, Call, Goto
  <2> QED
    BY <2>1, <2>2, <2>3 DEF SemaInv, QueueRight, QueueSorted, NoMissedSignal
<1>2. CASE s_count = 0
  <2>1. InTransit' \in SUBSET Threads
    BY DEF InTransit
  <2>2. Cardinality(InTransit') \in Nat
    BY <2>1, FS_Subset, FS_CardinalityType, ThreadsAssumption
  <2> QED  BY <1>1, <1>2, <2>2 DEF SemaInv, NoLostWakeup
<1>3. CASE s_count # 0
  <2>1. InTransit' = InTransit
    BY <1>3 DEF SemaInv, TypeOK, InTransit, Asleep, Call, Goto
  <2> QED  BY <1>1, <2>1 DEF SemaInv, NoLostWakeup
<1> QED  BY <1>2, <1>3

LEMMA InitInv ==
  ASSUME Init
  PROVE  SemaInv
<1>1. TypeOK
  <2> DEFINE c == CHOOSE p \in Prios : TRUE
  <2>1. c \in Prios
    BY PriosAssumption
  <2>2. pri \in [Threads -> {c}]
    BY DEF Init
  <2> HIDE DEF c
  <2>3. pri \in [Threads -> Prios]
    BY <2>1, <2>2
  <2>4. /\ s_count \in 0 .. MaxCount /\ s_slpq = <<>> /\ sig = {} /\ panicstr = FALSE
        /\ pc = [t \in Threads |-> "idle"]
    BY Zenon DEF Init
  <2>5. panicstr \in BOOLEAN
    BY <2>4, Zenon
  <2>6. s_slpq \in Seq(Threads) /\ sig \subseteq Lwps
    BY <2>4
  <2>7. pc \in [Threads -> {"idle", "p", "p_swtch", "sig", "sig_look", "sig_swtch",
                            "sig_retry", "sig_intr"}]
    BY <2>4
  <2> QED  BY <2>3, <2>4, <2>5, <2>6, <2>7 DEF TypeOK
<1>2. Asleep = {} /\ Distinct(s_slpq) /\ Sorted(s_slpq, pri)
  BY EmptyQueue DEF Init, Asleep
<1> QED
  BY <1>1, <1>2
  DEF Init, SemaInv, QueueRight, SigHasLwp, NoLostWakeup, NoMissedSignal, QueueSorted

LEMMA NextInv ==
  ASSUME SemaInv, [Next]_vars
  PROVE  SemaInv'
<1>1. ASSUME NEW t \in Threads, sema_p_take(t) \/ sema_tryp(t) \/ sema_p_sig_take(t)
      PROVE  SemaInv'
  <2>1. t \notin Asleep /\ Take(t)
    BY <1>1 DEF sema_p_take, sema_tryp, sema_p_sig_take, InP, InPSig, SemaInv, QueueRight
  <2> QED  BY <2>1, TakeInv
<1>2. ASSUME NEW t \in Threads, sema_p_block(t)
      PROVE  SemaInv'
  <2>1. /\ t \notin Asleep /\ s_count = 0 /\ SEMA_BLOCK(t, "p_swtch")
        /\ UNCHANGED <<s_count, sig, panicstr>>
    BY <1>2 DEF sema_p_block, InP
  <2> QED  BY <2>1, BlockInv
<1>3. ASSUME NEW t \in Threads, sema_p_sig_block(t)
      PROVE  SemaInv'
  <2>1. /\ t \notin Asleep /\ t \in Lwps /\ s_count = 0 /\ SEMA_BLOCK(t, "sig_look")
        /\ UNCHANGED <<s_count, sig, panicstr>>
    BY <1>3 DEF sema_p_sig_block, InPSig, SemaInv, QueueRight, SigHasLwp
  <2> QED  BY <2>1, BlockInv
<1>4. ASSUME NEW t \in Threads, sema_p_panic(t)
      PROVE  SemaInv'
  BY <1>4, QuietInv DEF sema_p_panic, InP, Goto, SemaInv, TypeOK
<1>5. ASSUME NEW t \in Threads, Call(t)
      PROVE  SemaInv'
  <2>1. t \notin Asleep /\ UNCHANGED <<s_count, s_slpq, pri, sig, panicstr>>
    BY <1>5 DEF Call, SemaInv, QueueRight
  <2> QED  BY <1>5, <2>1, QuietInv DEF SemaInv, TypeOK
<1>6. CASE panic \/ UNCHANGED vars
  BY <1>6, QuietInv DEF panic, vars, SemaInv, TypeOK
<1>7. ASSUME NEW t \in Threads, sema_p_sig_look(t) \/ sema_p_sig_issig(t) \/ sema_p_sig_intr(t)
      PROVE  SemaInv'
  BY <1>7, LookInv, IssigInv, IntrInv
<1>8. ASSUME NEW t \in Threads, eat_signal(t)
      PROVE  SemaInv'
  BY <1>8, SignalInv
<1>9. ASSUME NEW t \in Threads, NEW p \in Prios, sema_change_pri(t, p)
      PROVE  SemaInv'
  BY <1>9, ChangePriInv
<1>10. CASE sema_v
  BY <1>10, VInv
<1> QED
  BY <1>1, <1>2, <1>3, <1>4, <1>5, <1>6, <1>7, <1>8, <1>9, <1>10 DEF Next, Progress

-----------------------------------------------------------------------------
(* The theorems                                                            *)

\* The invariant that sema_p(), sema_p_sig(), sema_v() and the signals keep.
THEOREM SemaInvariant == Spec => []SemaInv
<1>1. Init => SemaInv
  BY InitInv
<1>2. SemaInv /\ [Next]_vars => SemaInv'
  BY NextInv
<1> QED  BY <1>1, <1>2, PTL DEF Spec

\* For any number of threads and units: while threads sleep there is a thread
\* on its way to each free unit, nobody sleeps over a signal that it was to
\* find, and the queue of the semaphore is in the order of priorities.
THEOREM NothingLost == Spec => []Inv
<1>1. SemaInv => Inv
  BY DEF SemaInv, Inv
<1> QED  BY <1>1, SemaInvariant, PTL

-----------------------------------------------------------------------------
(* The refinement                                                          *)

LEMMA RefineInit ==
  ASSUME Init
  PROVE  Promise!Init
BY CountAssumption DEF Init, Promise!Init, waiting

\* A thread that waits: the others wait as before.
LEMMA WaitingExcept ==
  ASSUME TypeOK, NEW t \in Threads, NEW l \in {"p_swtch", "sig_look"}, pc' = [pc EXCEPT ![t] = l]
  PROVE  waiting' = [waiting EXCEPT ![t] = IF l = "p_swtch" THEN "p" ELSE "p_sig"]
BY DEF TypeOK, waiting

LEMMA WaitsNoMore ==
  ASSUME TypeOK, NEW t \in Threads, pc' = [pc EXCEPT ![t] = "idle"]
  PROVE  waiting' = [waiting EXCEPT ![t] = "no"]
BY DEF TypeOK, waiting

\* Every step of the semaphore is one that SemaSpec allows, or none of it.
LEMMA RefineNext ==
  ASSUME SemaInv, [Next]_vars
  PROVE  [Promise!Next]_(Promise!vars)
<1> USE DEF Promise!Next, Promise!vars
<1>0. TypeOK /\ SigHasLwp
  BY DEF SemaInv
<1>1. ASSUME NEW t \in Threads, sema_p_take(t) \/ sema_tryp(t) \/ sema_p_sig_take(t)
      PROVE  Promise!Grant(t)
  <2>1. /\ s_count > 0 /\ s_count' = s_count - 1 /\ pc' = [pc EXCEPT ![t] = "idle"]
        /\ panicstr' = panicstr
    BY <1>1 DEF sema_p_take, sema_tryp, sema_p_sig_take, Take, Goto
  <2>2. waiting' = [waiting EXCEPT ![t] = "no"]
    BY <1>0, <2>1, WaitsNoMore
  <2> QED  BY <2>1, <2>2 DEF Promise!Grant, Promise!Returns
<1>2. ASSUME NEW t \in Threads, sema_p_block(t)
      PROVE  Promise!Wait(t, "p") \/ UNCHANGED Promise!vars
  <2>1. /\ pc[t] \in {"p", "p_swtch"} /\ s_count = 0 /\ pc' = [pc EXCEPT ![t] = "p_swtch"]
        /\ UNCHANGED <<s_count, panicstr>>
    BY <1>2 DEF sema_p_block, InP, SEMA_BLOCK, Goto
  <2>2. waiting' = [waiting EXCEPT ![t] = "p"]
    BY <1>0, <2>1, WaitingExcept
  <2> QED  BY <2>1, <2>2 DEF Promise!Wait, waiting
<1>3. ASSUME NEW t \in Threads, sema_p_sig_block(t)
      PROVE  Promise!Wait(t, "p_sig") \/ UNCHANGED Promise!vars
  <2>1. /\ pc[t] \in {"sig", "sig_retry"} /\ s_count = 0 /\ pc' = [pc EXCEPT ![t] = "sig_look"]
        /\ UNCHANGED <<s_count, panicstr>> /\ t \in Lwps
    BY <1>0, <1>3 DEF sema_p_sig_block, InPSig, SEMA_BLOCK, Goto, SigHasLwp
  <2>2. waiting' = [waiting EXCEPT ![t] = "p_sig"]
    BY <1>0, <2>1, WaitingExcept
  <2> QED  BY <2>1, <2>2 DEF Promise!Wait, waiting
<1>4. ASSUME NEW t \in Threads, sema_p_panic(t)
      PROVE  Promise!Panic(t)
  <2>1. panicstr /\ pc' = [pc EXCEPT ![t] = "idle"] /\ UNCHANGED <<s_count, panicstr>>
    BY <1>4 DEF sema_p_panic, Goto
  <2>2. waiting' = [waiting EXCEPT ![t] = "no"]
    BY <1>0, <2>1, WaitsNoMore
  <2> QED  BY <2>1, <2>2 DEF Promise!Panic, Promise!Returns
<1>5. ASSUME NEW t \in Threads, sema_p_sig_intr(t)
      PROVE  Promise!Interrupt(t)
  <2>1. pc[t] = "sig_intr" /\ pc' = [pc EXCEPT ![t] = "idle"] /\ UNCHANGED <<s_count, panicstr>>
    BY <1>5 DEF sema_p_sig_intr, Goto
  <2>2. waiting' = [waiting EXCEPT ![t] = "no"]
    BY <1>0, <2>1, WaitsNoMore
  <2> QED  BY <2>1, <2>2 DEF Promise!Interrupt, Promise!Returns, waiting
<1>6. ASSUME NEW t \in Threads, Call(t) \/ sema_p_sig_look(t) \/ sema_p_sig_issig(t)
      PROVE  UNCHANGED Promise!vars
  <2>1. UNCHANGED <<s_count, panicstr>>
    BY <1>6 DEF Call, sema_p_sig_look, sema_p_sig_issig
  <2>2. waiting' = waiting
    BY <1>0, <1>6 DEF Call, sema_p_sig_look, sema_p_sig_issig, Goto, waiting, TypeOK
  <2> QED  BY <2>1, <2>2
<1>7. ASSUME NEW t \in Threads, eat_signal(t) \/ \E p \in Prios : sema_change_pri(t, p)
      PROVE  UNCHANGED Promise!vars
  BY <1>7 DEF eat_signal, sema_change_pri, waiting
<1>8. CASE sema_v
  BY <1>8 DEF sema_v, Promise!Release, waiting
<1>9. CASE panic
  BY <1>9 DEF panic, Promise!GoDown, waiting
<1>10. CASE UNCHANGED vars
  BY <1>10 DEF vars, waiting
<1> QED
  BY <1>1, <1>2, <1>3, <1>4, <1>5, <1>6, <1>7, <1>8, <1>9, <1>10 DEF Next, Progress

\* The semaphore implements the safety part of SemaSpec: no unit is lost or
\* made, and nobody returns without one unless it was interrupted, and had
\* asked for that, or the system goes down.
THEOREM SemaphoreRefinement == Spec => Promise!Safety
<1>1. Init => Promise!Init
  BY RefineInit
<1>2. SemaInv /\ [Next]_vars => [Promise!Next]_(Promise!vars)
  BY RefineNext
<1> QED  BY <1>1, <1>2, SemaInvariant, PTL DEF Spec, Promise!Safety

-----------------------------------------------------------------------------
(* Turnstiles: the invariant                                               *)

\* An order in which all threads take the objects.
LockRank == CHOOSE rank \in [Objects -> 1 .. Cardinality(Objects)] : Ordered(rank)

\* On the blocking chain with the lock of the thread it is at; and from there
\* on until it is woken.
Walking == {"follow", "interlock", "try", "wrong", "spin", "inherit"}
Blocking == Following \cup {"swtch"}
Sleeps(t) == t_wchan[t] # Null

\* The types of what a thread keeps for itself.
TsLocals ==
  /\ step \in [KThreads -> Nat] /\ inverted \in [KThreads -> BOOLEAN]
  /\ t_pc \in [KThreads -> {"run", "lookup", "block", "exit", "waive", "wake"} \cup Blocking]
  /\ obj \in [KThreads -> Objects \cup {Null}]

\* Where a thread is in its script, what it sleeps on and its thread lock.
PlaceRight(c) ==
  /\ step[c] <= Len(Script[c])
  /\ t_pc[c] # "run" => obj[c] \in Objects /\ obj[c] \notin Taken(c, step[c])
  /\ t_pc[c] \in {"lookup", "block"} \cup Blocking =>
       step[c] < Len(Script[c]) /\ obj[c] = Script[c][step[c] + 1]
  /\ Sleeps(c) => t_wchan[c] = obj[c] /\ t_pc[c] \in Blocking
  /\ t_lockp[c] = IF Sleeps(c) THEN Chain[t_wchan[c]] ELSE RunLock[c]
PlacesRight == \A c \in KThreads : PlaceRight(c)

\* A thread owns what its script says, and what it is being handed or gives up.
OwnsRight(c) ==
  /\ \A o \in Taken(c, step[c]) : owner[o] = c
  /\ \A o \in Objects : owner[o] = c =>
       \/ o \in Taken(c, step[c])
       \/ o = obj[c] /\ (t_pc[c] = "exit" \/ (t_pc[c] \in Blocking /\ o \in Handoff))
  /\ t_pc[c] = "exit" => owner[obj[c]] = c
OwnersRight == \A c \in KThreads : OwnsRight(c)

\* The spin locks that a thread holds.
SpinRight(c) ==
  /\ t_pc[c] \in {"block", "waive", "wake"} => held[Chain[obj[c]]] = c
  /\ t_pc[c] \in Walking => held[t_lockp[at[c]]] = c
  /\ t_pc[c] \in {"try", "wrong", "spin"} => olp[c] # t_lockp[at[c]]
  /\ t_pc[c] \in {"wrong", "lost"} => held[olp[c]] = c
  /\ t_pc[c] = "inherit" => held[t_lockp[Blocker(c)]] = c
  /\ t_pc[c] \in Walking \ {"follow"} => ~Ends(c)
  /\ t_pc[c] \in {"lose", "lost", "restart"} => inverted[c]
SpinsRight == \A c \in KThreads : SpinRight(c)

\* The turnstiles that are active for some object.
Live == UNION {tc_first[k] : k \in Chains}

\* An object has one active turnstile, on its chain, to which those who sleep
\* on the object are attached.  Who is awake has a turnstile of its own.
TurnstilesPlaced ==
  /\ \A k \in Chains : \A x \in tc_first[k] : ts_sobj[x] \in Objects /\ Chain[ts_sobj[x]] = k
  /\ \A x, y \in Live : ts_sobj[x] = ts_sobj[y] => x = y
  /\ \A t \in KThreads : Sleeps(t) => t_ts[t] \in Live /\ ts_sobj[t_ts[t]] = t_wchan[t]
  /\ \A t \in KThreads : ~Sleeps(t) => t_ts[t] \notin Live
  /\ \A t, u \in KThreads : ~Sleeps(t) /\ ~Sleeps(u) /\ t_ts[t] = t_ts[u] => t = u

\* The queue of an active turnstile holds who sleeps on the object, once, and
\* its free list a turnstile for each of them but one.
QueuesRight ==
  /\ \A x \in Live :
       /\ Elems(ts_sleepq[x]) = {t \in KThreads : t_wchan[t] = ts_sobj[x]}
       /\ Distinct(ts_sleepq[x])
       /\ Len(ts_sleepq[x]) = Len(ts_free[x]) + 1
  /\ \A x \in KThreads \ Live : ts_sleepq[x] = <<>> /\ ts_free[x] = <<>>

\* A spare turnstile is on one free list, once, and attached to nobody awake.
SparesRight ==
  /\ \A x \in KThreads :
       /\ Distinct(ts_free[x]) /\ Elems(ts_free[x]) \cap Live = {}
       /\ \A t \in KThreads : ~Sleeps(t) => t_ts[t] \notin Elems(ts_free[x])
  /\ \A x, y \in KThreads : x # y => Elems(ts_free[x]) \cap Elems(ts_free[y]) = {}

\* Thread c, or somebody, is waking those who sleep on object o.
Waking(c, o) == t_pc[c] \in {"waive", "wake"} /\ obj[c] = o /\ towake[c] > 0
Releasing(o) == \E c \in KThreads : Waking(c, o)

\* Who sleeps has an owner to wait for that knows, or is about to be woken.
WaitedFor ==
  /\ \A t \in KThreads : Sleeps(t) =>
       \/ Releasing(t_wchan[t])
       \/ LET o == t_wchan[t] IN owner[o] # Null /\ m_waiters[o] /\ t_wchan[owner[o]] # o
  /\ \A c \in KThreads : t_pc[c] = "block" => owner[obj[c]] # Null /\ m_waiters[obj[c]]
                                              /\ owner[obj[c]] # c

\* Who wakes the sleepers of an object has the count right, a new owner is the
\* first of them, and the turnstile has been waived before the first wakeup.
ExitRight(c) ==
  t_pc[c] \in {"waive", "wake"} =>
  LET o == obj[c] IN
  /\ t_pc[c] = "waive" => towake[c] > 0
  /\ towake[c] > 0 => Active(o) # {}
  /\ o \notin Handoff => \A t \in KThreads : t_wchan[t] = o => towake[c] > 0
  /\ \A x \in Active(o) :
       /\ o \notin Handoff => towake[c] = Len(ts_sleepq[x])
       /\ o \in Handoff => towake[c] <= 1
       /\ o \in Handoff /\ towake[c] = 1 =>
            owner[o] = Head(ts_sleepq[x]) /\ (Len(ts_sleepq[x]) > 1 => m_waiters[o])
       /\ towake[c] > 0 => ts_inheritor[x] = IF t_pc[c] = "waive" THEN c ELSE Null
ExitsRight == \A c \in KThreads : ExitRight(c)

\* Who inherits from which turnstile, and what.
Inheritors == \A t, x \in KThreads : x \in t_prioinv[t] <=> ts_inheritor[x] = t
\* The inheritor of an active turnstile owns the object, or is about to waive.
WillRight(x) ==
  ts_inheritor[x] # Null =>
  /\ x \in Live
  /\ ts_epri[x] > Pri[ts_inheritor[x]]
  /\ \/ owner[ts_sobj[x]] = ts_inheritor[x]
     \/ t_pc[ts_inheritor[x]] = "waive" /\ obj[ts_inheritor[x]] = ts_sobj[x]
\* t_epri is the best priority of the turnstiles on t_prioinv, 0 if there is none.
EpriRight(t) ==
  /\ \A x \in t_prioinv[t] : ts_epri[x] <= t_epri[t]
  /\ IF t_prioinv[t] = {} THEN t_epri[t] = 0 ELSE \E x \in t_prioinv[t] : t_epri[t] = ts_epri[x]
WillsRight ==
  /\ Inheritors
  /\ \A x \in KThreads : WillRight(x)
  /\ \A t \in KThreads : EpriRight(t)

\* Thread s waits for another one in the set S, and is not about to be woken.
WaitsIn(S, s) == Sleeps(s) /\ owner[t_wchan[s]] \in S /\ ~Releasing(t_wchan[s])
\* The owner it waits for has less priority of its own.
Urgent(s) == DISP_PRIO(s, t_epri) > Pri[owner[t_wchan[s]]]

\* The walk of a thread along the blocking chain: all it has passed still
\* sleep, as long as the thread it is at does.
WalkRight(c) ==
  t_pc[c] \in Walking /\ Sleeps(at[c]) =>
  /\ LockRank[obj[c]] <= LockRank[t_wchan[at[c]]]
  /\ \E S \in SUBSET KThreads :
       /\ c \in S /\ at[c] \in S
       /\ \A s \in S \ {at[c]} : WaitsIn(S, s) /\ (inverted[c] => Urgent(s))
WalksRight == \A c \in KThreads : WalkRight(c)

\* The owner of what t sleeps on has the priority of t from t's turnstile.
Covered(t) ==
  LET y == owner[t_wchan[t]] IN
  \/ DISP_PRIO(t, t_epri) <= Pri[y]
  \/ ts_inheritor[t_ts[t]] = y /\ DISP_PRIO(t, t_epri) <= ts_epri[t_ts[t]]

\* Thread c is on its way to t.
From(c) == IF t_pc[c] \in Walking THEN at[c] ELSE c
Bound(c, t) ==
  /\ t_pc[c] \in Following /\ inverted[c]
  /\ \E S \in SUBSET KThreads :
       /\ From(c) \in S /\ t \in S
       /\ \A s \in S \ {t} : WaitsIn(S, s) /\ Urgent(s)

\* Who sleeps is being woken, or its owner has its priority, or somebody is on
\* the way with it.
PriRight(t) ==
  Sleeps(t) =>
  Releasing(t_wchan[t]) \/ Covered(t) \/ \E c \in KThreads : Bound(c, t)
PriorityRight == \A t \in KThreads : PriRight(t)

TsInv ==
  /\ TurnstileTypeOK /\ TsLocals /\ PlacesRight /\ OwnersRight /\ SpinsRight
  /\ TurnstilesPlaced /\ QueuesRight /\ SparesRight /\ WaitedFor /\ ExitsRight
  /\ WillsRight /\ WalksRight /\ PriorityRight /\ QueuesSorted

-----------------------------------------------------------------------------
(* Scripts and the order of the objects                                    *)

LEMMA TakenNone ==
  ASSUME NEW t \in KThreads
  PROVE  Taken(t, 0) = {}
<1>1. ASSUME NEW o \in Objects PROVE {i \in 1 .. 0 : Script[t][i] = o} = {}
  OBVIOUS
<1> QED  BY <1>1, FS_EmptySet DEF Taken

\* A step of the script takes the object or releases it.
LEMMA TakenNext ==
  ASSUME NEW t \in KThreads, NEW n \in Nat, n < Len(Script[t])
  PROVE  /\ Script[t][n + 1] \in Objects
         /\ Script[t][n + 1] \in Taken(t, n) => Taken(t, n + 1) = Taken(t, n) \ {Script[t][n + 1]}
         /\ Script[t][n + 1] \notin Taken(t, n) => Taken(t, n + 1) = Taken(t, n) \cup {Script[t][n + 1]}
<1> DEFINE O == Script[t][n + 1]
           At(m, o) == {i \in 1 .. m : Script[t][i] = o}
<1>1. O \in Objects
  BY SetsAssumption
<1>2. ASSUME NEW o \in Objects
      PROVE  /\ IsFiniteSet(At(n, o)) /\ Cardinality(At(n, o)) \in Nat
             /\ o # O => At(n + 1, o) = At(n, o)
             /\ o = O => Cardinality(At(n + 1, o)) = Cardinality(At(n, o)) + 1
  <2>1. IsFiniteSet(1 .. n)
    BY FS_Interval
  <2>2. IsFiniteSet(At(n, o)) /\ Cardinality(At(n, o)) \in Nat
    BY <2>1, FS_Subset, FS_CardinalityType
  <2>3. o # O => At(n + 1, o) = At(n, o)
    OBVIOUS
  <2>4. o = O => At(n + 1, o) = At(n, o) \cup {n + 1}
    OBVIOUS
  <2>5. n + 1 \notin At(n, o)
    OBVIOUS
  <2> HIDE DEF At
  <2> QED  BY <2>2, <2>3, <2>4, <2>5, FS_AddElement
<1>3. ASSUME NEW k \in Nat PROVE (k + 1) % 2 = 1 <=> k % 2 # 1
  OBVIOUS
<1>4. \A m : Taken(t, m) = {o \in Objects : Cardinality(At(m, o)) % 2 = 1}
  BY DEF Taken
<1> HIDE DEF At, O
<1>5. ASSUME NEW o \in Objects
      PROVE  o \in Taken(t, n + 1) <=> IF o = O THEN o \notin Taken(t, n) ELSE o \in Taken(t, n)
  <2>1. CASE o = O
    BY <1>2, <1>3, <1>4, <2>1
  <2>2. CASE o # O
    BY <1>2, <1>4, <2>2
  <2> QED  BY <2>1, <2>2
<1>6. Taken(t, n) \subseteq Objects /\ Taken(t, n + 1) \subseteq Objects
  BY DEF Taken
<1>7. O \in Taken(t, n) => Taken(t, n + 1) = Taken(t, n) \ {O}
  BY <1>5, <1>6
<1>8. O \notin Taken(t, n) => Taken(t, n + 1) = Taken(t, n) \cup {O}
  BY <1>1, <1>5, <1>6
<1> QED  BY <1>1, <1>7, <1>8 DEF O

LEMMA RankIsOrder ==
  /\ LockRank \in [Objects -> Nat]
  /\ \A t \in KThreads, n \in Nat : n < Len(Script[t]) /\ Script[t][n + 1] \notin Taken(t, n) =>
       \A o \in Taken(t, n) : LockRank[o] < LockRank[Script[t][n + 1]]
<1>1. LockRank \in [Objects -> 1 .. Cardinality(Objects)] /\ Ordered(LockRank)
  BY OrderAssumption DEF LockRank
<1>2. Cardinality(Objects) \in Nat
  BY SetsAssumption, FS_CardinalityType
<1>3. LockRank \in [Objects -> Nat]
  BY <1>1, <1>2
<1>4. ASSUME NEW t \in KThreads, NEW n \in Nat, n < Len(Script[t]), Script[t][n + 1] \notin Taken(t, n)
      PROVE  \A o \in Taken(t, n) : LockRank[o] < LockRank[Script[t][n + 1]]
  <2>1. Len(Script[t]) \in Nat
    BY SetsAssumption
  <2>2. n + 1 \in 1 .. Len(Script[t]) /\ (n + 1) - 1 = n
    BY <1>4, <2>1
  <2> QED  BY <1>1, <1>4, <2>2 DEF Ordered
<1> QED  BY <1>3, <1>4

-----------------------------------------------------------------------------
(* What the invariant says of a thread                                     *)

LEMMA ConstantsAre ==
  /\ Null \notin KThreads /\ Null \notin Objects
  /\ \A o \in Objects : Chain[o] \in Chains /\ Chain[o] \in Locks
  /\ \A t \in KThreads : RunLock[t] \in Locks /\ RunLock[t] \notin Chains /\ Pri[t] \in Nat
  /\ \A t \in KThreads : Len(Script[t]) \in Nat
BY SetsAssumption DEF Chains, Locks

\* A thread that sleeps is on the turnstile of the object it blocks at.
LEMMA SleeperIs ==
  ASSUME TsInv, NEW t \in KThreads, Sleeps(t)
  PROVE  /\ t_wchan[t] \in Objects /\ t_wchan[t] = obj[t] /\ t_pc[t] \in Blocking
         /\ t_lockp[t] = Chain[t_wchan[t]]
         /\ t_ts[t] \in Active(t_wchan[t]) /\ t_ts[t] \in Live /\ t_ts[t] \in KThreads
         /\ Active(t_wchan[t]) = {t_ts[t]} /\ Turnstile(t_wchan[t]) = t_ts[t]
         /\ t \in Elems(ts_sleepq[t_ts[t]])
<1>1. t_wchan[t] \in Objects /\ t_wchan[t] = obj[t] /\ t_pc[t] \in Blocking /\ t_lockp[t] = Chain[t_wchan[t]]
  BY DEF TsInv, PlacesRight, PlaceRight, TurnstileTypeOK, Sleeps
<1>2. t_ts[t] \in Live /\ ts_sobj[t_ts[t]] = t_wchan[t] /\ t_ts[t] \in KThreads
  BY DEF TsInv, TurnstilesPlaced, TurnstileTypeOK
<1>3. PICK k \in Chains : t_ts[t] \in tc_first[k]
  BY <1>2 DEF Live
<1>4. k = Chain[t_wchan[t]]
  BY <1>2, <1>3 DEF TsInv, TurnstilesPlaced
<1>5. t_ts[t] \in Active(t_wchan[t])
  BY <1>2, <1>3, <1>4 DEF Active
<1>6. \A x \in Active(t_wchan[t]) : x \in Live /\ ts_sobj[x] = t_wchan[t]
  BY <1>1, ConstantsAre DEF Active, Live
<1>7. Active(t_wchan[t]) = {t_ts[t]}
  BY <1>2, <1>5, <1>6 DEF TsInv, TurnstilesPlaced
<1>8. t \in Elems(ts_sleepq[t_ts[t]])
  BY <1>2 DEF TsInv, QueuesRight
<1> QED  BY <1>1, <1>2, <1>5, <1>7, <1>8 DEF Turnstile

\* An active turnstile has its object and its sleepers.
LEMMA ActiveIs ==
  ASSUME TsInv, NEW o \in Objects, NEW x \in Active(o)
  PROVE  /\ x \in KThreads /\ x \in Live /\ ts_sobj[x] = o /\ x \in tc_first[Chain[o]]
         /\ Active(o) = {x} /\ Turnstile(o) = x
         /\ ts_sleepq[x] \in Seq(KThreads) /\ Distinct(ts_sleepq[x]) /\ ts_sleepq[x] # <<>>
         /\ Len(ts_sleepq[x]) > 0 /\ Len(ts_sleepq[x]) \in Nat
         /\ Elems(ts_sleepq[x]) = {t \in KThreads : t_wchan[t] = o}
         /\ ts_free[x] \in Seq(KThreads) /\ Len(ts_sleepq[x]) = Len(ts_free[x]) + 1
         /\ Head(ts_sleepq[x]) \in KThreads /\ t_wchan[Head(ts_sleepq[x])] = o
         /\ \A t \in KThreads : t_wchan[t] = o => Sleeps(t) /\ t_ts[t] = x
<1>1. x \in tc_first[Chain[o]] /\ ts_sobj[x] = o /\ Chain[o] \in Chains
  BY ConstantsAre DEF Active
<1>2. x \in Live /\ x \in KThreads
  BY <1>1 DEF Live, TsInv, TurnstileTypeOK
<1>3. \A y \in Active(o) : y \in Live /\ ts_sobj[y] = o
  BY ConstantsAre DEF Active, Live
<1>4. Active(o) = {x}
  BY <1>1, <1>2, <1>3 DEF TsInv, TurnstilesPlaced
<1>5. /\ ts_sleepq[x] \in Seq(KThreads) /\ ts_free[x] \in Seq(KThreads)
      /\ Distinct(ts_sleepq[x]) /\ Len(ts_sleepq[x]) = Len(ts_free[x]) + 1
      /\ Elems(ts_sleepq[x]) = {t \in KThreads : t_wchan[t] = o}
  BY <1>1, <1>2 DEF TsInv, TurnstileTypeOK, QueuesRight
<1>6. Len(ts_sleepq[x]) > 0 /\ Len(ts_sleepq[x]) \in Nat /\ ts_sleepq[x] # <<>>
  BY <1>5
<1>7. Head(ts_sleepq[x]) \in Elems(ts_sleepq[x])
  BY <1>5, <1>6 DEF Elems
<1>8. ASSUME NEW t \in KThreads, t_wchan[t] = o PROVE Sleeps(t) /\ t_ts[t] = x
  <2>1. Sleeps(t)
    BY <1>8, ConstantsAre DEF Sleeps
  <2> QED  BY <2>1, <1>1, <1>2, <1>8 DEF TsInv, TurnstilesPlaced
<1> QED  BY <1>1, <1>2, <1>4, <1>5, <1>6, <1>7, <1>8 DEF Turnstile

\* The lock of a chain keeps its objects from being released.
LEMMA ChainGuards ==
  ASSUME TsInv, NEW d \in KThreads, NEW o \in Objects, held[Chain[o]] = d,
         t_pc[d] \notin {"waive", "wake"} \/ obj[d] # o \/ towake[d] = 0
  PROVE  /\ ~Releasing(o)
         /\ \A t \in KThreads : t_wchan[t] = o =>
              owner[o] \in KThreads /\ m_waiters[o] /\ t_wchan[owner[o]] # o
<1>1. ~Releasing(o)
  <2>1. SUFFICES ASSUME NEW c \in KThreads, Waking(c, o) PROVE FALSE
    BY DEF Releasing
  <2>2. held[Chain[o]] = c
    BY <2>1 DEF Waking, TsInv, SpinsRight, SpinRight
  <2>3. c = d
    BY <2>2
  <2> QED  BY <2>1, <2>3 DEF Waking
<1>2. ASSUME NEW t \in KThreads, t_wchan[t] = o
      PROVE  owner[o] \in KThreads /\ m_waiters[o] /\ t_wchan[owner[o]] # o
  <2>1. Sleeps(t)
    BY <1>2, ConstantsAre DEF Sleeps
  <2>2. owner[o] # Null /\ m_waiters[o] /\ t_wchan[owner[o]] # o
    BY <1>1, <1>2, <2>1 DEF TsInv, WaitedFor
  <2> QED  BY <2>2 DEF TsInv, TurnstileTypeOK
<1> QED  BY <1>1, <1>2

\* A free lock of a chain, too.
LEMMA FreeGuards ==
  ASSUME TsInv, NEW o \in Objects, Free(Chain[o])
  PROVE  /\ ~Releasing(o)
         /\ \A t \in KThreads : t_wchan[t] = o =>
              owner[o] \in KThreads /\ m_waiters[o] /\ t_wchan[owner[o]] # o
<1>1. ~Releasing(o)
  <2>1. SUFFICES ASSUME NEW c \in KThreads, Waking(c, o) PROVE FALSE
    BY DEF Releasing
  <2>2. held[Chain[o]] = c
    BY <2>1 DEF Waking, TsInv, SpinsRight, SpinRight
  <2> QED  BY <2>2, ConstantsAre DEF Free
<1>2. ASSUME NEW t \in KThreads, t_wchan[t] = o
      PROVE  owner[o] \in KThreads /\ m_waiters[o] /\ t_wchan[owner[o]] # o
  <2>1. Sleeps(t)
    BY <1>2, ConstantsAre DEF Sleeps
  <2>2. owner[o] # Null /\ m_waiters[o] /\ t_wchan[owner[o]] # o
    BY <1>1, <1>2, <2>1 DEF TsInv, WaitedFor
  <2> QED  BY <2>2 DEF TsInv, TurnstileTypeOK
<1> QED  BY <1>1, <1>2

\* The objects of a chain of sleepers are in the order of the scripts.
LEMMA OwnerIsAhead ==
  ASSUME TsInv, NEW y \in KThreads, NEW o \in Objects, owner[o] = y, Sleeps(y), t_wchan[y] # o
  PROVE  LockRank[o] < LockRank[t_wchan[y]] /\ LockRank[o] \in Nat /\ LockRank[t_wchan[y]] \in Nat
<1>1. t_wchan[y] = obj[y] /\ t_pc[y] \in Blocking /\ obj[y] \in Objects
  BY SleeperIs
<1>2. o \in Taken(y, step[y])
  BY <1>1 DEF TsInv, OwnersRight, OwnsRight
<1>3. t_pc[y] # "run"
  BY <1>1 DEF Blocking, Following
<1>4. /\ step[y] \in Nat /\ step[y] < Len(Script[y]) /\ obj[y] = Script[y][step[y] + 1]
      /\ obj[y] \notin Taken(y, step[y])
  BY <1>1, <1>3 DEF TsInv, TsLocals, PlacesRight, PlaceRight
<1> QED  BY <1>1, <1>2, <1>4, RankIsOrder

\* What a walking thread stands on: the thread it is at sleeps, and will,
\* behind a lock of which nobody lets go.
LEMMA WalkerIs ==
  ASSUME TsInv, NEW c \in KThreads, t_pc[c] \in Walking
  PROVE  /\ at[c] \in KThreads /\ held[t_lockp[at[c]]] = c /\ t_pc[c] \notin {"waive", "wake"}
         /\ Sleeps(at[c]) =>
              /\ t_wchan[at[c]] \in Objects /\ t_lockp[at[c]] = Chain[t_wchan[at[c]]]
              /\ ~Releasing(t_wchan[at[c]]) /\ Blocker(c) \in KThreads
              /\ Blocker(c) = owner[t_wchan[at[c]]] /\ m_waiters[t_wchan[at[c]]]
              /\ t_wchan[Blocker(c)] # t_wchan[at[c]]
         /\ ~Sleeps(at[c]) => Blocker(c) = Null
         /\ Sleeps(at[c]) /\ inverted[c] <=> ~Ends(c)
<1>1. at[c] \in KThreads /\ held[t_lockp[at[c]]] = c /\ t_pc[c] \notin {"waive", "wake"}
  BY DEF TsInv, TurnstileTypeOK, SpinsRight, SpinRight, Walking
<1>2. ASSUME Sleeps(at[c])
      PROVE  /\ t_wchan[at[c]] \in Objects /\ t_lockp[at[c]] = Chain[t_wchan[at[c]]]
             /\ ~Releasing(t_wchan[at[c]]) /\ Blocker(c) \in KThreads
             /\ Blocker(c) = owner[t_wchan[at[c]]] /\ m_waiters[t_wchan[at[c]]]
             /\ t_wchan[Blocker(c)] # t_wchan[at[c]]
  <2>1. t_wchan[at[c]] \in Objects /\ t_lockp[at[c]] = Chain[t_wchan[at[c]]]
    BY <1>1, <1>2, SleeperIs
  <2>2. held[Chain[t_wchan[at[c]]]] = c
    BY <1>1, <2>1
  <2>3. /\ ~Releasing(t_wchan[at[c]])
        /\ owner[t_wchan[at[c]]] \in KThreads /\ m_waiters[t_wchan[at[c]]]
        /\ t_wchan[owner[t_wchan[at[c]]]] # t_wchan[at[c]]
    BY <1>1, <2>1, <2>2, ChainGuards
  <2> QED  BY <1>2, <2>1, <2>3 DEF Blocker, Sleeps
<1>3. ~Sleeps(at[c]) => Blocker(c) = Null
  BY DEF Blocker, Sleeps
<1> QED  BY <1>1, <1>2, <1>3, ConstantsAre DEF Ends

\* The chain does not lead back to who follows it.
LEMMA NoCycle ==
  ASSUME TsInv, NEW c \in KThreads, t_pc[c] \in Walking
  PROVE  Blocker(c) # c
<1>1. SUFFICES ASSUME Sleeps(at[c]), Blocker(c) = c PROVE FALSE
  BY WalkerIs, ConstantsAre
<1> DEFINE o == t_wchan[at[c]]
<1>2. /\ o \in Objects /\ owner[o] = c /\ t_wchan[c] # o /\ ~Releasing(o) /\ at[c] \in KThreads
  BY <1>1, WalkerIs
<1>3. PICK S \in SUBSET KThreads :
         /\ c \in S /\ at[c] \in S
         /\ \A s \in S \ {at[c]} : WaitsIn(S, s)
  BY <1>1 DEF TsInv, WalksRight, WalkRight
<1>4. at[c] # c
  BY <1>2
<1>5. Sleeps(c)
  BY <1>3, <1>4 DEF WaitsIn
<1>6. LockRank[o] < LockRank[t_wchan[c]] /\ t_wchan[c] = obj[c]
      /\ LockRank[o] \in Nat /\ LockRank[t_wchan[c]] \in Nat
  BY <1>2, <1>5, OwnerIsAhead, SleeperIs
<1>7. LockRank[obj[c]] <= LockRank[o]
  BY <1>1 DEF TsInv, WalksRight, WalkRight
<1> HIDE DEF o
<1> QED  BY <1>6, <1>7

-----------------------------------------------------------------------------
(* What follows from the invariant                                         *)

LEMMA PriorityIs ==
  ASSUME TsInv, NEW t \in KThreads
  PROVE  /\ t_epri[t] \in Nat /\ Pri[t] \in Nat /\ DISP_PRIO(t, t_epri) \in Nat
         /\ DISP_PRIO(t, t_epri) >= Pri[t] /\ DISP_PRIO(t, t_epri) >= t_epri[t]
         /\ t_epri[t] # 0 => t_epri[t] > Pri[t]
         /\ \A x \in KThreads : ts_inheritor[x] = t => ts_epri[x] <= t_epri[t] /\ ts_epri[x] > Pri[t]
<1>1. t_epri[t] \in Nat /\ Pri[t] \in Nat
  BY ConstantsAre DEF TsInv, TurnstileTypeOK
<1>2. \A x \in KThreads : ts_inheritor[x] = t => ts_epri[x] <= t_epri[t] /\ ts_epri[x] > Pri[t]
  BY ConstantsAre DEF TsInv, WillsRight, Inheritors, WillRight, EpriRight
<1>3. t_epri[t] # 0 => t_epri[t] > Pri[t]
  <2>1. SUFFICES ASSUME t_epri[t] # 0 PROVE t_epri[t] > Pri[t]
    OBVIOUS
  <2>2. PICK x \in t_prioinv[t] : t_epri[t] = ts_epri[x]
    BY <2>1 DEF TsInv, WillsRight, Inheritors, WillRight, EpriRight
  <2>3. x \in KThreads /\ ts_inheritor[x] = t
    BY <2>2 DEF TsInv, WillsRight, Inheritors, WillRight, EpriRight, TurnstileTypeOK
  <2> QED  BY <1>2, <2>2, <2>3
<1> QED  BY <1>1, <1>2, <1>3 DEF DISP_PRIO

LEMMA HeldToWill == TsInv => LocksHeldToWill
<1>1. SUFFICES ASSUME TsInv, NEW c \in KThreads
              PROVE  /\ t_pc[c] \in Following \ {"lose", "lost", "restart"} =>
                          held[t_lockp[at[c]]] = c /\ Blocker(c) # c
                     /\ t_pc[c] = "inherit" => held[t_lockp[Blocker(c)]] = c
  BY DEF LocksHeldToWill
<1>2. Following \ {"lose", "lost", "restart"} = Walking
  BY DEF Following, Walking
<1> QED  BY <1>1, <1>2, NoCycle, WalkerIs DEF TsInv, SpinsRight, SpinRight

LEMMA NoneInverted == TsInv => NoInversion
<1>1. SUFFICES ASSUME TsInv, \A c \in KThreads : Settled(c), NEW t \in KThreads, t_wchan[t] # Null
              PROVE  DISP_PRIO(owner[t_wchan[t]], t_epri) >= DISP_PRIO(t, t_epri)
  BY DEF NoInversion
<1>2. Sleeps(t) /\ ~Releasing(t_wchan[t]) /\ \A c \in KThreads : ~Bound(c, t)
  BY <1>1 DEF Sleeps, Releasing, Waking, Bound, Settled
<1>3. Covered(t) /\ owner[t_wchan[t]] \in KThreads
  <2>1. t_wchan[t] \in Objects
    BY <1>1, <1>2, SleeperIs
  <2>2. owner[t_wchan[t]] # Null
    BY <1>1, <1>2 DEF TsInv, WaitedFor
  <2>3. owner[t_wchan[t]] \in KThreads
    BY <1>1, <2>1, <2>2 DEF TsInv, TurnstileTypeOK
  <2> QED  BY <1>1, <1>2, <2>3 DEF TsInv, PriorityRight, PriRight
<1>a. PICK y \in KThreads : y = owner[t_wchan[t]]
  BY <1>3
<1>4. \/ DISP_PRIO(t, t_epri) <= Pri[y]
      \/ ts_inheritor[t_ts[t]] = y /\ DISP_PRIO(t, t_epri) <= ts_epri[t_ts[t]]
  BY <1>3, <1>a DEF Covered
<1>5. /\ DISP_PRIO(t, t_epri) \in Nat /\ DISP_PRIO(y, t_epri) \in Nat /\ DISP_PRIO(y, t_epri) >= Pri[y]
      /\ Pri[y] \in Nat /\ DISP_PRIO(y, t_epri) >= t_epri[y] /\ t_epri[y] \in Nat
      /\ \A x \in KThreads : ts_inheritor[x] = y => ts_epri[x] <= t_epri[y]
  BY <1>1, <1>4, PriorityIs
<1>6. t_ts[t] \in KThreads /\ ts_epri[t_ts[t]] \in Nat
  BY <1>1 DEF TsInv, TurnstileTypeOK
<1>7. DISP_PRIO(y, t_epri) >= DISP_PRIO(t, t_epri)
  BY <1>4, <1>5, <1>6
<1> QED  BY <1>7, <1>a

LEMMA Accounted == TsInv => TurnstilesAccounted
<1> SUFFICES ASSUME TsInv PROVE TurnstilesAccounted
  OBVIOUS
<1>1. \A t, u \in KThreads : t # u /\ t_ts[t] = t_ts[u] => t_wchan[t] = t_wchan[u] /\ t_wchan[t] # Null
  BY DEF TsInv, TurnstilesPlaced, Sleeps
<1>2. \A t \in KThreads : t_wchan[t] = Null => \A k \in Chains : t_ts[t] \notin tc_first[k]
  BY DEF TsInv, TurnstilesPlaced, Sleeps, Live
<1>3. ASSUME NEW k \in Chains, NEW x \in tc_first[k]
      PROVE  /\ Elems(ts_sleepq[x]) = {t \in KThreads : t_wchan[t] = ts_sobj[x]}
             /\ Len(ts_sleepq[x]) = Len(ts_free[x]) + 1
             /\ Chain[ts_sobj[x]] = k
  <2>1. x \in Live
    BY <1>3 DEF Live
  <2> QED  BY <1>3, <2>1 DEF TsInv, TurnstilesPlaced, QueuesRight
<1>4. \A t \in KThreads : ts_free[t] # <<>> => \E k \in Chains : t \in tc_first[k]
  BY DEF TsInv, QueuesRight, Live
<1>5. ASSUME NEW o \in Objects PROVE Cardinality(Active(o)) <= 1
  <2>1. CASE Active(o) = {}
    BY <2>1, FS_EmptySet
  <2>2. ASSUME NEW x \in Active(o) PROVE Cardinality(Active(o)) <= 1
    <3>1. Active(o) = {x}
      BY <2>2, ActiveIs
    <3>2. Cardinality({x}) = 1
      BY FS_Singleton
    <3> QED  BY <3>1, <3>2
  <2> QED  BY <2>1, <2>2
<1> QED  BY <1>1, <1>2, <1>3, <1>4, <1>5 DEF TurnstilesAccounted

LEMMA InheritorOwns == TsInv => InheritorIsOwner
<1> SUFFICES ASSUME TsInv, NEW o \in Objects, NEW ts \in Active(o)
             PROVE  LET exiting == {c \in KThreads : t_pc[c] \in {"waive", "wake"} /\ obj[c] = o} IN
                    /\ owner[o] = Null => exiting # {}
                    /\ ts_inheritor[ts] # Null =>
                         \/ ts_inheritor[ts] = owner[o]
                         \/ \E c \in exiting : t_pc[c] = "waive" /\ c = ts_inheritor[ts]
  BY DEF InheritorIsOwner
<1>1. ASSUME owner[o] = Null PROVE \E c \in KThreads : t_pc[c] \in {"waive", "wake"} /\ obj[c] = o
  <2>1. PICK h \in KThreads : t_wchan[h] = o
    BY ActiveIs
  <2>2. Sleeps(h)
    BY <2>1, ConstantsAre DEF Sleeps
  <2>3. Releasing(o)
    BY <1>1, <2>1, <2>2 DEF TsInv, WaitedFor
  <2> QED  BY <2>3 DEF Releasing, Waking
<1>2. ASSUME ts_inheritor[ts] # Null
      PROVE  \/ ts_inheritor[ts] = owner[o]
             \/ t_pc[ts_inheritor[ts]] = "waive" /\ obj[ts_inheritor[ts]] = o /\ ts_inheritor[ts] \in KThreads
  <2>1. ts \in KThreads /\ ts_sobj[ts] = o
    BY ActiveIs
  <2>2. ts_inheritor[ts] \in KThreads
    BY <1>2, <2>1 DEF TsInv, TurnstileTypeOK
  <2> QED  BY <1>2, <2>1, <2>2 DEF TsInv, WillsRight, Inheritors, WillRight, EpriRight
<1> QED  BY <1>1, <1>2

LEMMA PriorityIsReturned == TsInv => PriorityReturned
<1> SUFFICES ASSUME TsInv, NEW t \in KThreads, Settled(t), \A o \in Objects : owner[o] # t
             PROVE  t_epri[t] = 0 /\ t_prioinv[t] = {}
  BY DEF PriorityReturned
<1>1. t_pc[t] # "waive"
  BY DEF Settled
<1>2. ASSUME NEW x \in t_prioinv[t] PROVE FALSE
  <2>1. x \in KThreads /\ ts_inheritor[x] = t
    BY DEF TsInv, WillsRight, Inheritors, WillRight, EpriRight, TurnstileTypeOK
  <2>2. x \in Live /\ owner[ts_sobj[x]] = t
    BY <1>1, <2>1, ConstantsAre DEF TsInv, WillsRight, Inheritors, WillRight, EpriRight
  <2>3. ts_sobj[x] \in Objects
    BY <2>2 DEF TsInv, TurnstilesPlaced, Live
  <2> QED  BY <2>2, <2>3
<1> QED  BY <1>2 DEF TsInv, WillsRight, Inheritors, WillRight, EpriRight

LEMMA TurnstilesFollow == TsInv => TurnstilesRight
BY Accounted, InheritorOwns, PriorityIsReturned DEF TsInv, TurnstilesRight

-----------------------------------------------------------------------------
(* A step of one thread leaves the others what they have                   *)

\* What everybody may rely on while thread c makes a step.
Others(c) ==
  \A d \in KThreads \ {c} :
    /\ t_pc'[d] = t_pc[d] /\ obj'[d] = obj[d] /\ at'[d] = at[d] /\ olp'[d] = olp[d]
    /\ inverted'[d] = inverted[d] /\ towake'[d] = towake[d] /\ step'[d] = step[d]
    /\ \A l \in Locks : held[l] = d => held'[l] = d

\* Who sleeps and is not being woken stays where it is.
StayAsleep == \A s \in KThreads : Sleeps(s) /\ ~Releasing(t_wchan[s]) => t_wchan'[s] = t_wchan[s]

\* Who sleeps releases nothing.
Owned ==
  \A o \in Objects : owner[o] \in KThreads /\ Sleeps(owner[o]) =>
    owner'[o] = owner[o] /\ (Releasing(o)' => Releasing(o))

\* The priority of who sleeps does not fall.
Rises == \A s \in KThreads : Sleeps(s) => DISP_PRIO(s, t_epri)' >= DISP_PRIO(s, t_epri)

\* Who is locked stays awake, and what is locked keeps its owner.
Locked(c) ==
  /\ \A x \in KThreads : ~Sleeps(x) /\ held[t_lockp[x]] \notin {c, Null} => t_wchan'[x] = t_wchan[x]
  /\ \A o \in Objects : held[Chain[o]] \notin {c, Null} /\ owner[o] # Null /\ m_waiters[o] =>
       owner'[o] = owner[o]

Calm(c) == Others(c) /\ StayAsleep /\ Owned /\ Rises /\ Locked(c)

\* A chain of sleepers that leads to a sleeper stays.
LEMMA ChainStays ==
  ASSUME TsInv, StayAsleep, Owned, Rises, NEW S \in SUBSET KThreads, NEW t \in S, Sleeps(t),
         NEW s \in S \ {t}, \A u \in S \ {t} : WaitsIn(S, u)
  PROVE  WaitsIn(S, s)' /\ (TurnstileTypeOK' /\ Urgent(s) => Urgent(s)')
<1>1. \A u \in S : Sleeps(u) /\ u \in KThreads
  BY DEF WaitsIn
<1>2. s \in KThreads /\ Sleeps(s) /\ ~Releasing(t_wchan[s]) /\ owner[t_wchan[s]] \in S
  BY DEF WaitsIn
<1>3. t_wchan'[s] = t_wchan[s] /\ t_wchan[s] \in Objects
  BY <1>2, SleeperIs DEF StayAsleep
<1>4. owner'[t_wchan[s]] = owner[t_wchan[s]] /\ ~Releasing(t_wchan[s])'
  BY <1>1, <1>2, <1>3 DEF Owned
<1>5. Sleeps(s)'
  BY <1>2, <1>3 DEF Sleeps
<1>6. WaitsIn(S, s)'
  BY <1>2, <1>3, <1>4, <1>5 DEF WaitsIn, Releasing, Waking
<1>7. ASSUME TurnstileTypeOK', Urgent(s) PROVE Urgent(s)'
  <2>1. DISP_PRIO(s, t_epri)' >= DISP_PRIO(s, t_epri)
    BY <1>2 DEF Rises
  <2>2. PICK y \in KThreads : y = owner[t_wchan[s]]
    BY <1>2
  <2>3. DISP_PRIO(s, t_epri) > Pri[y] /\ Pri[y] \in Nat /\ DISP_PRIO(s, t_epri) \in Nat
    BY <1>2, <1>7, <2>2, PriorityIs DEF Urgent
  <2>4. DISP_PRIO(s, t_epri)' \in Nat
    BY <1>2, <1>7, ConstantsAre DEF DISP_PRIO, TurnstileTypeOK
  <2> QED  BY <1>3, <1>4, <2>1, <2>2, <2>3, <2>4 DEF Urgent
<1> QED  BY <1>6, <1>7

\* The thread that a walking one has locked stays where it is.
LEMMA WalkerStays ==
  ASSUME TsInv, NEW c \in KThreads, Calm(c), NEW d \in KThreads \ {c}, t_pc[d] \in Walking,
         PlacesRight'
  PROVE  /\ at'[d] = at[d] /\ t_wchan'[at[d]] = t_wchan[at[d]] /\ (Sleeps(at[d])' <=> Sleeps(at[d]))
         /\ t_lockp'[at[d]] = t_lockp[at[d]] /\ Blocker(d)' = Blocker(d) /\ (Ends(d)' <=> Ends(d))
<1>1. at'[d] = at[d] /\ inverted'[d] = inverted[d]
  BY DEF Calm, Others
<1>2. at[d] \in KThreads /\ held[t_lockp[at[d]]] = d
  BY WalkerIs
<1>3. held[t_lockp[at[d]]] \notin {c, Null}
  BY <1>2, ConstantsAre
<1>4. t_wchan'[at[d]] = t_wchan[at[d]]
  <2>1. CASE Sleeps(at[d])
    BY <1>2, <2>1, WalkerIs DEF Calm, StayAsleep
  <2>2. CASE ~Sleeps(at[d])
    BY <1>2, <1>3, <2>2 DEF Calm, Locked
  <2> QED  BY <2>1, <2>2
<1>5. Sleeps(at[d])' <=> Sleeps(at[d])
  BY <1>1, <1>4 DEF Sleeps
<1>6. t_lockp'[at[d]] = t_lockp[at[d]]
  BY <1>1, <1>2, <1>4 DEF TsInv, PlacesRight, PlaceRight, Sleeps
<1>7. Blocker(d)' = Blocker(d)
  <2>1. CASE Sleeps(at[d])
    <3>1. /\ t_wchan[at[d]] \in Objects /\ t_lockp[at[d]] = Chain[t_wchan[at[d]]]
          /\ Blocker(d) \in KThreads /\ Blocker(d) = owner[t_wchan[at[d]]] /\ m_waiters[t_wchan[at[d]]]
      BY <2>1, WalkerIs
    <3>2. owner'[t_wchan[at[d]]] = owner[t_wchan[at[d]]]
      BY <1>3, <3>1, ConstantsAre DEF Calm, Locked
    <3> QED  BY <1>1, <1>4, <3>2 DEF Blocker
  <2>2. CASE ~Sleeps(at[d])
    BY <1>1, <1>4, <2>2 DEF Blocker, Sleeps
  <2> QED  BY <2>1, <2>2
<1>8. Ends(d)' <=> Ends(d)
  BY <1>1, <1>7 DEF Ends
<1> QED  BY <1>1, <1>4, <1>5, <1>6, <1>7, <1>8

LEMMA SpinOthers ==
  ASSUME TsInv, NEW c \in KThreads, Calm(c), NEW d \in KThreads \ {c}, PlacesRight', TurnstileTypeOK'
  PROVE  SpinRight(d)'
<1>1. /\ t_pc'[d] = t_pc[d] /\ obj'[d] = obj[d] /\ olp'[d] = olp[d] /\ inverted'[d] = inverted[d]
      /\ \A l \in Locks : held[l] = d => held'[l] = d
  BY DEF Calm, Others
<1>2. /\ olp[d] \in Locks /\ \A x \in KThreads : t_lockp[x] \in Locks
      /\ at[d] \in KThreads
  BY DEF TsInv, TurnstileTypeOK
<1>3. t_pc[d] \in {"block", "waive", "wake"} => held'[Chain[obj[d]]] = d
  <2>1. SUFFICES ASSUME t_pc[d] \in {"block", "waive", "wake"} PROVE held'[Chain[obj[d]]] = d
    OBVIOUS
  <2>2. obj[d] \in Objects /\ held[Chain[obj[d]]] = d
    BY <2>1 DEF TsInv, PlacesRight, PlaceRight, SpinsRight, SpinRight
  <2> QED  BY <1>1, <2>2, ConstantsAre
<1>4. t_pc[d] \in Walking => held'[t_lockp[at[d]]] = d
  BY <1>1, <1>2, WalkerIs
<1>5. t_pc[d] \in {"wrong", "lost"} => held'[olp[d]] = d
  BY <1>1, <1>2 DEF TsInv, SpinsRight, SpinRight
<1>6. t_pc[d] = "inherit" => held'[t_lockp'[Blocker(d)]] = d
  <2>1. SUFFICES ASSUME t_pc[d] = "inherit" PROVE held'[t_lockp'[Blocker(d)]] = d
    OBVIOUS
  <2>2. t_pc[d] \in Walking \ {"follow"}
    BY <2>1 DEF Walking
  <2>3. ~Ends(d) /\ held[t_lockp[Blocker(d)]] = d
    BY <2>1, <2>2 DEF TsInv, SpinsRight, SpinRight
  <2>4. Blocker(d) \in KThreads
    BY <2>2, <2>3, WalkerIs
  <2> DEFINE y == Blocker(d)
  <2> HIDE DEF y
  <2>5. y \in KThreads /\ held[t_lockp[y]] = d /\ held[t_lockp[y]] \notin {c, Null}
    BY <2>3, <2>4, ConstantsAre DEF y
  <2>6. t_wchan'[y] = t_wchan[y]
    <3>1. CASE Sleeps(y)
      <4>1. t_wchan[y] \in Objects /\ held[Chain[t_wchan[y]]] = d
        BY <2>5, <3>1, SleeperIs
      <4>2. t_pc[d] \notin {"waive", "wake"}
        BY <2>1
      <4>3. ~Releasing(t_wchan[y])
        BY <4>1, <4>2, ChainGuards
      <4> QED  BY <2>5, <3>1, <4>3 DEF Calm, StayAsleep
    <3>2. CASE ~Sleeps(y)
      BY <2>5, <3>2 DEF Calm, Locked
    <3> QED  BY <3>1, <3>2
  <2>7. t_lockp'[y] = t_lockp[y] /\ t_lockp[y] \in Locks
    BY <1>2, <2>5, <2>6 DEF TsInv, PlacesRight, PlaceRight, Sleeps
  <2> QED  BY <1>1, <2>5, <2>7 DEF y
<1>7. t_pc[d] \in Walking =>
        /\ at'[d] = at[d] /\ t_lockp'[at[d]] = t_lockp[at[d]] /\ Blocker(d)' = Blocker(d) /\ (Ends(d)' <=> Ends(d))
  BY WalkerStays
<1>8. {"try", "wrong", "spin", "inherit"} \subseteq Walking
  BY DEF Walking
<1>9. SpinRight(d)
  BY DEF TsInv, SpinsRight
<1> QED  BY <1>1, <1>3, <1>4, <1>5, <1>6, <1>7, <1>8, <1>9 DEF SpinRight

LEMMA WalkOthers ==
  ASSUME TsInv, NEW c \in KThreads, Calm(c), NEW d \in KThreads \ {c}, PlacesRight', TurnstileTypeOK'
  PROVE  WalkRight(d)'
<1>1. t_pc'[d] = t_pc[d] /\ obj'[d] = obj[d] /\ inverted'[d] = inverted[d] /\ at'[d] = at[d]
  BY DEF Calm, Others
<1>2. SUFFICES ASSUME t_pc[d] \in Walking, Sleeps(at[d])' PROVE WalkRight(d)'
  BY <1>1 DEF WalkRight
<1>3. Sleeps(at[d]) /\ t_wchan'[at[d]] = t_wchan[at[d]]
  BY <1>2, WalkerStays
<1>4. PICK S \in SUBSET KThreads :
         /\ d \in S /\ at[d] \in S
         /\ \A s \in S \ {at[d]} : WaitsIn(S, s) /\ (inverted[d] => Urgent(s))
  BY <1>2, <1>3 DEF TsInv, WalksRight, WalkRight
<1>5. ASSUME NEW s \in S \ {at[d]} PROVE WaitsIn(S, s)' /\ (inverted[d] => Urgent(s)')
  BY <1>3, <1>4, ChainStays DEF Calm
<1>6. LockRank[obj[d]] <= LockRank[t_wchan[at[d]]]
  BY <1>2, <1>3 DEF TsInv, WalksRight, WalkRight
<1> QED  BY <1>1, <1>3, <1>4, <1>5, <1>6 DEF WalkRight

LEMMA BoundOthers ==
  ASSUME TsInv, NEW c \in KThreads, Calm(c), NEW d \in KThreads \ {c}, TurnstileTypeOK',
         NEW t \in KThreads, Sleeps(t), Bound(d, t)
  PROVE  Bound(d, t)'
<1>1. t_pc'[d] = t_pc[d] /\ inverted'[d] = inverted[d] /\ at'[d] = at[d]
  BY DEF Calm, Others
<1>2. PICK S \in SUBSET KThreads :
         /\ From(d) \in S /\ t \in S
         /\ \A s \in S \ {t} : WaitsIn(S, s) /\ Urgent(s)
  BY DEF Bound
<1>3. ASSUME NEW s \in S \ {t} PROVE WaitsIn(S, s)' /\ Urgent(s)'
  BY <1>2, ChainStays DEF Calm
<1>4. From(d)' = From(d)
  BY <1>1 DEF From
<1> QED  BY <1>1, <1>2, <1>3, <1>4 DEF Bound

\* What a step has to say for the priority of a sleeper.
LEMMA PriFrame ==
  ASSUME TsInv, NEW c \in KThreads, Calm(c), TurnstileTypeOK', NEW t \in KThreads, Sleeps(t),
         Releasing(t_wchan[t]) => PriRight(t)',
         Covered(t) /\ ~Releasing(t_wchan[t]) => PriRight(t)',
         Bound(c, t) /\ ~Releasing(t_wchan[t]) => PriRight(t)'
  PROVE  PriRight(t)'
<1>1. ASSUME NEW d \in KThreads, Bound(d, t), d # c PROVE PriRight(t)'
  BY <1>1, BoundOthers DEF PriRight
<1> QED  BY <1>1 DEF TsInv, PriorityRight, PriRight

-----------------------------------------------------------------------------
(* Frames                                                                  *)

LEMMA TurnstilesFrame ==
  ASSUME TsInv, UNCHANGED turnstiles
  PROVE  TurnstilesPlaced' /\ QueuesRight' /\ SparesRight' /\ Live' = Live
         /\ (\A o : Active(o)' = Active(o)) /\ (\A t : Sleeps(t)' <=> Sleeps(t))
<1>1. /\ tc_first' = tc_first /\ t_ts' = t_ts /\ ts_sobj' = ts_sobj /\ ts_free' = ts_free
      /\ ts_sleepq' = ts_sleepq /\ t_wchan' = t_wchan
  BY DEF turnstiles
<1>2. Live' = Live /\ (\A o : Active(o)' = Active(o)) /\ (\A t : Sleeps(t)' <=> Sleeps(t))
  BY <1>1 DEF Live, Active, Sleeps
<1>3. TurnstilesPlaced'
  BY <1>1, <1>2 DEF TsInv, TurnstilesPlaced
<1>4. QueuesRight'
  BY <1>1, <1>2 DEF TsInv, QueuesRight
<1>5. SparesRight'
  BY <1>1, <1>2 DEF TsInv, SparesRight
<1> QED  BY <1>2, <1>3, <1>4, <1>5

LEMMA SortedFrame ==
  ASSUME TsInv, UNCHANGED <<ts_sleepq, t_epri>>
  PROVE  QueuesSorted'
BY DEF TsInv, QueuesSorted, Prio, DISP_PRIO

\* The priority of a sleeper that nothing of it has changed.
LEMMA CoveredFrame ==
  ASSUME UNCHANGED inherits, NEW t, t_wchan'[t] = t_wchan[t], t_ts'[t] = t_ts[t],
         owner'[t_wchan[t]] = owner[t_wchan[t]], Covered(t)
  PROVE  Covered(t)'
BY DEF inherits, Covered, DISP_PRIO

\* A thread that follows a chain, and changes only what it has locked.
LEMMA FollowFrame ==
  ASSUME TsInv, NEW c \in KThreads, t_pc[c] \in Following, NEW l \in Blocking, TsGoto(c, l),
         UNCHANGED <<objects, turnstiles, inherits, t_lockp, obj, inverted, towake, step>>,
         held' \in [Locks -> KThreads \cup {Null}], olp' \in [KThreads -> Locks],
         at' \in [KThreads -> KThreads],
         \A d \in KThreads \ {c} : /\ at'[d] = at[d] /\ olp'[d] = olp[d]
                                   /\ \A m \in Locks : held[m] = d => held'[m] = d,
         SpinRight(c)', WalkRight(c)',
         \A t \in KThreads : Sleeps(t) /\ Bound(c, t) => PriRight(t)'
  PROVE  TsInv'
<1> USE DEF objects, turnstiles, inherits
<1>1. t_pc' = [t_pc EXCEPT ![c] = l] /\ t_pc \in [KThreads -> {"run", "lookup", "block", "exit", "waive", "wake"} \cup Blocking]
  BY DEF TsGoto, TsInv, TsLocals
<1>2. /\ t_pc'[c] = l /\ \A d \in KThreads \ {c} : t_pc'[d] = t_pc[d]
      /\ \A m \in {"run", "lookup", "block", "exit", "waive", "wake"} :
           m # l /\ m # t_pc[c] /\ m \notin Blocking
      /\ t_pc[c] \in Blocking /\ l \in Blocking
      /\ \A d \in KThreads, m \in {"run", "lookup", "block", "exit", "waive", "wake"} : t_pc'[d] = m <=> t_pc[d] = m
      /\ \A d \in KThreads : t_pc'[d] \in Blocking <=> t_pc[d] \in Blocking
  BY <1>1 DEF Blocking, Following
<1>3. TurnstileTypeOK' /\ TsLocals'
  BY <1>1, <1>2 DEF TsInv, TurnstileTypeOK, TsLocals
<1>4. /\ \A t : Sleeps(t)' <=> Sleeps(t)
      /\ \A d \in KThreads : \A o : Waking(d, o)' <=> Waking(d, o)
      /\ \A o : Releasing(o)' <=> Releasing(o)
  BY <1>2 DEF Sleeps, Releasing, Waking
<1>5. Calm(c)
  <2>1. Others(c)
    BY <1>2 DEF Others
  <2>2. \A s \in KThreads : DISP_PRIO(s, t_epri)' = DISP_PRIO(s, t_epri) /\ DISP_PRIO(s, t_epri) \in Nat
    BY PriorityIs DEF DISP_PRIO
  <2>3. Rises
    BY <2>2 DEF Rises
  <2> QED  BY <1>4, <2>1, <2>3 DEF Calm, StayAsleep, Owned, Locked
<1>6. PlacesRight'
  <2>1. SUFFICES ASSUME NEW d \in KThreads PROVE PlaceRight(d)'
    BY DEF PlacesRight
  <2>2. PlaceRight(d)
    BY DEF TsInv, PlacesRight
  <2> QED  BY <1>2, <1>4, <2>2 DEF PlaceRight
<1>7. OwnersRight'
  <2>1. SUFFICES ASSUME NEW d \in KThreads PROVE OwnsRight(d)'
    BY DEF OwnersRight
  <2>2. OwnsRight(d)
    BY DEF TsInv, OwnersRight
  <2> QED  BY <1>2, <2>2 DEF OwnsRight
<1>8. SpinsRight' /\ WalksRight'
  BY <1>3, <1>5, <1>6, SpinOthers, WalkOthers DEF SpinsRight, WalksRight
<1>9. TurnstilesPlaced' /\ QueuesRight' /\ SparesRight' /\ \A o : Active(o)' = Active(o)
  BY TurnstilesFrame
<1>10. WaitedFor'
  BY <1>2, <1>4 DEF TsInv, WaitedFor
<1>11. ExitsRight'
  <2>1. SUFFICES ASSUME NEW d \in KThreads PROVE ExitRight(d)'
    BY DEF ExitsRight
  <2>2. ExitRight(d)
    BY DEF TsInv, ExitsRight
  <2> QED  BY <1>2, <1>9, <2>2 DEF ExitRight
<1>12. WillsRight'
  <2>1. Live' = Live
    BY TurnstilesFrame
  <2>2. \A x \in KThreads : ts_inheritor[x] # Null => ts_inheritor[x] \in KThreads
    BY DEF TsInv, TurnstileTypeOK
  <2>3. Inheritors' /\ \A t \in KThreads : EpriRight(t)'
    BY DEF TsInv, WillsRight, Inheritors, EpriRight
  <2>4. ASSUME NEW x \in KThreads PROVE WillRight(x)'
    <3>1. WillRight(x)
      BY DEF TsInv, WillsRight
    <3> QED  BY <1>2, <2>1, <2>2, <3>1 DEF WillRight
  <2> QED  BY <2>3, <2>4 DEF WillsRight
<1>13. PriorityRight'
  <2>1. SUFFICES ASSUME NEW t \in KThreads, Sleeps(t) PROVE PriRight(t)'
    BY <1>4 DEF PriorityRight, PriRight
  <2>2. Covered(t) => Covered(t)'
    BY CoveredFrame
  <2> QED  BY <1>3, <1>4, <1>5, <2>1, <2>2, PriFrame DEF PriRight
<1>14. QueuesSorted'
  BY SortedFrame
<1> QED  BY <1>3, <1>6, <1>7, <1>8, <1>9, <1>10, <1>11, <1>12, <1>13, <1>14 DEF TsInv

-----------------------------------------------------------------------------
(* Following a chain                                                       *)

\* What is unchanged while a thread looks for the lock of the next one.
Quiet == UNCHANGED <<objects, turnstiles, inherits, t_lockp, obj, inverted, towake, step>>

LEMMA QuietIs ==
  ASSUME TsInv, NEW c \in KThreads, t_pc[c] \in Following, NEW l \in Blocking, TsGoto(c, l), Quiet
  PROVE  /\ t_pc'[c] = l /\ \A d \in KThreads \ {c} : t_pc'[d] = t_pc[d]
         /\ inverted' = inverted /\ obj' = obj /\ t_wchan' = t_wchan /\ t_lockp' = t_lockp /\ owner' = owner
         /\ \A t : Sleeps(t)' <=> Sleeps(t)
         /\ \A o : Releasing(o)' <=> Releasing(o)
         /\ \A S, s : WaitsIn(S, s)' <=> WaitsIn(S, s)
         /\ \A s : Urgent(s)' <=> Urgent(s)
<1> USE DEF objects, turnstiles, inherits, Quiet
<1>1. t_pc'[c] = l /\ \A d \in KThreads \ {c} : t_pc'[d] = t_pc[d]
  BY DEF TsGoto, TsInv, TsLocals
<1>2. \A t : Sleeps(t)' <=> Sleeps(t)
  BY DEF Sleeps
<1>3. t_pc[c] \notin {"waive", "wake"} /\ l \notin {"waive", "wake"}
  BY DEF Blocking, Following
<1>4. \A o : Releasing(o)' <=> Releasing(o)
  BY <1>1, <1>3 DEF Releasing, Waking
<1>5. \A S, s : WaitsIn(S, s)' <=> WaitsIn(S, s)
  BY <1>2, <1>4 DEF WaitsIn
<1>6. \A s : Urgent(s)' <=> Urgent(s)
  BY DEF Urgent, DISP_PRIO
<1> QED  BY <1>1, <1>2, <1>4, <1>5, <1>6

LEMMA WalkKept ==
  ASSUME TsInv, NEW c \in KThreads, t_pc[c] \in Walking, NEW l \in Blocking, TsGoto(c, l), Quiet,
         at' = at
  PROVE  WalkRight(c)'
<1>1. t_pc[c] \in Following
  BY DEF Walking, Following
<1>2. WalkRight(c)
  BY DEF TsInv, WalksRight
<1> QED  BY <1>1, <1>2, QuietIs DEF WalkRight

LEMMA BoundKept ==
  ASSUME TsInv, NEW c \in KThreads, t_pc[c] \in Following, NEW l \in Following, TsGoto(c, l), Quiet,
         From(c)' = From(c), NEW t \in KThreads, Sleeps(t), Bound(c, t)
  PROVE  PriRight(t)'
<1>1. l \in Blocking
  BY DEF Blocking
<1>2. Bound(c, t)'
  BY <1>1, QuietIs DEF Bound
<1> QED  BY <1>2 DEF PriRight

LEMMA SwtchKeeps ==
  ASSUME TsInv, NEW c \in KThreads, turnstile_block_swtch(c)
  PROVE  TsInv'
<1>1. /\ t_pc[c] = "follow" /\ Ends(c) /\ TsGoto(c, "swtch") /\ Quiet /\ at' = at /\ olp' = olp
      /\ held' = [held EXCEPT ![t_lockp[at[c]]] = Null]
  BY DEF turnstile_block_swtch, Quiet, local
<1>2. t_pc[c] \in Walking /\ t_pc[c] \in Following /\ "swtch" \in Blocking /\ "swtch" \notin Following
      /\ "swtch" \notin Walking /\ Walking \subseteq Following
  BY <1>1 DEF Walking, Following, Blocking
<1>3. held[t_lockp[at[c]]] = c /\ t_lockp[at[c]] \in Locks /\ held \in [Locks -> KThreads \cup {Null}]
  BY <1>2, WalkerIs DEF TsInv, TurnstileTypeOK
<1>4. held' \in [Locks -> KThreads \cup {Null}] /\ \A d \in KThreads \ {c} : \A m \in Locks : held[m] = d => held'[m] = d
  BY <1>1, <1>3
<1>5. t_pc'[c] = "swtch"
  BY <1>1, <1>2, QuietIs
<1>6. SpinRight(c)' /\ WalkRight(c)'
  BY <1>2, <1>5 DEF SpinRight, WalkRight
<1>7. ASSUME NEW t \in KThreads, Sleeps(t), Bound(c, t) PROVE FALSE
  <2>1. PICK S \in SUBSET KThreads :
          at[c] \in S /\ t \in S /\ inverted[c] /\ \A s \in S \ {t} : WaitsIn(S, s)
    BY <1>2, <1>7 DEF Bound, From
  <2>2. ~Sleeps(at[c])
    BY <1>1, <1>2, <2>1, WalkerIs
  <2> QED  BY <1>7, <2>1, <2>2 DEF WaitsIn
<1>8. olp' \in [KThreads -> Locks] /\ at' \in [KThreads -> KThreads]
  BY <1>1 DEF TsInv, TurnstileTypeOK
<1> HIDE DEF TsInv
<1> QED  BY <1>1, <1>2, <1>4, <1>6, <1>7, <1>8, FollowFrame DEF Quiet

LEMMA InterlockKeeps ==
  ASSUME TsInv, NEW c \in KThreads, turnstile_interlock(c)
  PROVE  TsInv'
<1>1. /\ t_pc[c] \in {"follow", "interlock"} /\ ~Ends(c) /\ Quiet /\ at' = at /\ held' = held
      /\ olp' = [olp EXCEPT ![c] = t_lockp[Blocker(c)]]
      /\ TsGoto(c, IF olp'[c] = t_lockp[at[c]] THEN "inherit" ELSE "try")
  BY DEF turnstile_interlock, Quiet, locks
<1> DEFINE l == IF olp'[c] = t_lockp[at[c]] THEN "inherit" ELSE "try"
<1>2. t_pc[c] \in Walking /\ t_pc[c] \in Following /\ l \in Blocking /\ l \in Following /\ l \in Walking
  BY <1>1 DEF Walking, Following, Blocking
<1>3. Blocker(c) \in KThreads /\ held[t_lockp[at[c]]] = c
  BY <1>1, <1>2, WalkerIs
<1>4. olp' \in [KThreads -> Locks] /\ olp'[c] = t_lockp[Blocker(c)] /\ \A d \in KThreads \ {c} : olp'[d] = olp[d]
  BY <1>1, <1>3 DEF TsInv, TurnstileTypeOK
<1>5. held' \in [Locks -> KThreads \cup {Null}] /\ at' \in [KThreads -> KThreads]
  BY <1>1 DEF TsInv, TurnstileTypeOK
<1> HIDE DEF l
<1>6. t_pc'[c] = l /\ t_lockp' = t_lockp /\ inverted' = inverted /\ t_wchan' = t_wchan /\ owner' = owner
  BY <1>1, <1>2, QuietIs DEF l
<1>7. Blocker(c)' = Blocker(c) /\ Ends(c)' = Ends(c)
  BY <1>1, <1>6 DEF Blocker, Ends
<1>8. SpinRight(c)'
  <2>1. CASE olp'[c] = t_lockp[at[c]]
    BY <1>1, <1>3, <1>4, <1>6, <1>7, <2>1 DEF SpinRight, l, Walking
  <2>2. CASE olp'[c] # t_lockp[at[c]]
    BY <1>1, <1>3, <1>4, <1>6, <1>7, <2>2 DEF SpinRight, l, Walking
  <2> QED  BY <2>1, <2>2
<1>9. WalkRight(c)'
  BY <1>1, <1>2, WalkKept DEF l
<1>10. From(c)' = From(c)
  BY <1>1, <1>2, <1>6 DEF From
<1>11. ASSUME NEW t \in KThreads, Sleeps(t), Bound(c, t) PROVE PriRight(t)'
  BY <1>1, <1>2, <1>10, <1>11, BoundKept DEF l
<1> QED  BY <1>1, <1>2, <1>4, <1>5, <1>8, <1>9, <1>11, FollowFrame DEF Quiet, l

\* The lock of the owner is had.
LEMMA TryKeeps ==
  ASSUME TsInv, NEW c \in KThreads, interlock_try(c)
  PROVE  TsInv'
<1>1. /\ t_pc[c] = "try" /\ Free(olp[c]) /\ Quiet /\ at' = at /\ olp' = olp
      /\ held' = [held EXCEPT ![olp[c]] = c]
      /\ TsGoto(c, IF olp[c] = t_lockp[Blocker(c)] THEN "inherit" ELSE "wrong")
  BY DEF interlock_try, Quiet, local
<1> DEFINE l == IF olp[c] = t_lockp[Blocker(c)] THEN "inherit" ELSE "wrong"
<1>2. /\ t_pc[c] \in Walking /\ t_pc[c] \in Following /\ l \in Blocking /\ l \in Following /\ l \in Walking
      /\ t_pc[c] \in Walking \ {"follow"}
  BY <1>1 DEF Walking, Following, Blocking
<1>3. /\ held[t_lockp[at[c]]] = c /\ at[c] \in KThreads /\ ~Ends(c) /\ olp[c] # t_lockp[at[c]]
  BY <1>1, <1>2, WalkerIs DEF TsInv, SpinsRight, SpinRight
<1>4. olp[c] \in Locks /\ held \in [Locks -> KThreads \cup {Null}] /\ t_lockp[at[c]] \in Locks
      /\ olp' \in [KThreads -> Locks] /\ at' \in [KThreads -> KThreads]
  BY <1>1, <1>3 DEF TsInv, TurnstileTypeOK
<1>5. /\ held' \in [Locks -> KThreads \cup {Null}] /\ held'[olp[c]] = c /\ held'[t_lockp[at[c]]] = c
      /\ \A d \in KThreads \ {c} : \A m \in Locks : held[m] = d => held'[m] = d
  BY <1>1, <1>3, <1>4, ConstantsAre DEF Free
<1> HIDE DEF l
<1>6. t_pc'[c] = l /\ t_lockp' = t_lockp /\ inverted' = inverted /\ t_wchan' = t_wchan /\ owner' = owner
  BY <1>1, <1>2, QuietIs DEF l
<1>7. Blocker(c)' = Blocker(c) /\ Ends(c)' = Ends(c)
  BY <1>1, <1>6 DEF Blocker, Ends
<1>8. SpinRight(c)'
  <2>1. CASE l = "inherit"
    BY <1>1, <1>3, <1>5, <1>6, <1>7, <2>1 DEF SpinRight, l, Walking
  <2>2. CASE l = "wrong"
    BY <1>1, <1>3, <1>5, <1>6, <1>7, <2>2 DEF SpinRight, Walking
  <2> QED  BY <2>1, <2>2 DEF l
<1>9. WalkRight(c)'
  BY <1>1, <1>2, WalkKept DEF l
<1>10. From(c)' = From(c)
  BY <1>1, <1>2, <1>6 DEF From
<1>11. ASSUME NEW t \in KThreads, Sleeps(t), Bound(c, t) PROVE PriRight(t)'
  BY <1>1, <1>2, <1>10, <1>11, BoundKept DEF l
<1> QED  BY <1>1, <1>2, <1>4, <1>5, <1>8, <1>9, <1>11, FollowFrame DEF Quiet, l

LEMMA WrongKeeps ==
  ASSUME TsInv, NEW c \in KThreads, interlock_wrong(c)
  PROVE  TsInv'
<1>1. /\ t_pc[c] = "wrong" /\ Quiet /\ at' = at /\ olp' = olp
      /\ held' = [held EXCEPT ![olp[c]] = Null] /\ TsGoto(c, "interlock")
  BY DEF interlock_wrong, Quiet, local
<1>2. /\ t_pc[c] \in Walking /\ t_pc[c] \in Following /\ "interlock" \in Blocking /\ "interlock" \in Following
      /\ "interlock" \in Walking /\ t_pc[c] \in Walking \ {"follow"}
  BY <1>1 DEF Walking, Following, Blocking
<1>3. /\ held[t_lockp[at[c]]] = c /\ at[c] \in KThreads /\ ~Ends(c) /\ olp[c] # t_lockp[at[c]] /\ held[olp[c]] = c
  BY <1>1, <1>2, WalkerIs DEF TsInv, SpinsRight, SpinRight
<1>4. olp[c] \in Locks /\ held \in [Locks -> KThreads \cup {Null}] /\ t_lockp[at[c]] \in Locks
      /\ olp' \in [KThreads -> Locks] /\ at' \in [KThreads -> KThreads]
  BY <1>1, <1>3 DEF TsInv, TurnstileTypeOK
<1>5. /\ held' \in [Locks -> KThreads \cup {Null}] /\ held'[t_lockp[at[c]]] = c
      /\ \A d \in KThreads \ {c} : \A m \in Locks : held[m] = d => held'[m] = d
  BY <1>1, <1>3, <1>4
<1>6. t_pc'[c] = "interlock" /\ t_lockp' = t_lockp /\ inverted' = inverted /\ t_wchan' = t_wchan /\ owner' = owner
  BY <1>1, <1>2, QuietIs
<1>7. Blocker(c)' = Blocker(c) /\ Ends(c)' = Ends(c)
  BY <1>1, <1>6 DEF Blocker, Ends
<1>8. SpinRight(c)'
  BY <1>1, <1>3, <1>5, <1>6, <1>7 DEF SpinRight, Walking
<1>9. WalkRight(c)'
  BY <1>1, <1>2, WalkKept
<1>10. From(c)' = From(c)
  BY <1>1, <1>2, <1>6 DEF From
<1>11. ASSUME NEW t \in KThreads, Sleeps(t), Bound(c, t) PROVE PriRight(t)'
  BY <1>1, <1>2, <1>10, <1>11, BoundKept
<1> QED  BY <1>1, <1>2, <1>4, <1>5, <1>8, <1>9, <1>11, FollowFrame DEF Quiet

LEMMA SpinKeeps ==
  ASSUME TsInv, NEW c \in KThreads, interlock_spin(c)
  PROVE  TsInv'
<1>1. /\ t_pc[c] = "spin" /\ Quiet /\ at' = at /\ olp' = olp /\ held' = held /\ TsGoto(c, "interlock")
  BY DEF interlock_spin, Quiet, local, locks
<1>2. /\ t_pc[c] \in Walking /\ t_pc[c] \in Following /\ "interlock" \in Blocking /\ "interlock" \in Following
      /\ "interlock" \in Walking /\ t_pc[c] \in Walking \ {"follow"}
  BY <1>1 DEF Walking, Following, Blocking
<1>3. held[t_lockp[at[c]]] = c /\ at[c] \in KThreads /\ ~Ends(c)
  BY <1>1, <1>2, WalkerIs DEF TsInv, SpinsRight, SpinRight
<1>4. /\ held' \in [Locks -> KThreads \cup {Null}] /\ olp' \in [KThreads -> Locks] /\ at' \in [KThreads -> KThreads]
  BY <1>1 DEF TsInv, TurnstileTypeOK
<1>6. t_pc'[c] = "interlock" /\ t_lockp' = t_lockp /\ inverted' = inverted /\ t_wchan' = t_wchan /\ owner' = owner
  BY <1>1, <1>2, QuietIs
<1>7. Blocker(c)' = Blocker(c) /\ Ends(c)' = Ends(c)
  BY <1>1, <1>6 DEF Blocker, Ends
<1>8. SpinRight(c)'
  BY <1>1, <1>3, <1>6, <1>7 DEF SpinRight, Walking
<1>9. WalkRight(c)'
  BY <1>1, <1>2, WalkKept
<1>10. From(c)' = From(c)
  BY <1>1, <1>2, <1>6 DEF From
<1>11. ASSUME NEW t \in KThreads, Sleeps(t), Bound(c, t) PROVE PriRight(t)'
  BY <1>1, <1>2, <1>10, <1>11, BoundKept
<1> QED  BY <1>1, <1>2, <1>4, <1>8, <1>9, <1>11, FollowFrame DEF Quiet

\* A loser starts again: between it and the sleeper that has to will its
\* priority are those it has passed.
LEMMA FailKeeps ==
  ASSUME TsInv, NEW c \in KThreads, interlock_fail(c)
  PROVE  TsInv'
<1>1. /\ t_pc[c] = "try" /\ Quiet /\ at' = at /\ olp' = olp
      /\ \/ held' = [held EXCEPT ![t_lockp[at[c]]] = Null] /\ TsGoto(c, "lose")
         \/ held' = held /\ TsGoto(c, "spin")
  BY DEF interlock_fail, Quiet, local
<1>2. /\ t_pc[c] \in Walking /\ t_pc[c] \in Following /\ {"spin", "lose"} \subseteq Following
      /\ {"spin", "lose"} \subseteq Blocking
      /\ "spin" \in Walking /\ "lose" \notin Walking /\ t_pc[c] \in Walking \ {"follow"}
  BY <1>1 DEF Walking, Following, Blocking
<1>3. /\ held[t_lockp[at[c]]] = c /\ at[c] \in KThreads /\ ~Ends(c) /\ olp[c] # t_lockp[at[c]]
  BY <1>1, <1>2, WalkerIs DEF TsInv, SpinsRight, SpinRight
<1>4. /\ held \in [Locks -> KThreads \cup {Null}] /\ t_lockp[at[c]] \in Locks
      /\ olp' \in [KThreads -> Locks] /\ at' \in [KThreads -> KThreads]
  BY <1>1, <1>3 DEF TsInv, TurnstileTypeOK
<1>5. CASE held' = held /\ TsGoto(c, "spin")
  <2>1. t_pc'[c] = "spin" /\ t_lockp' = t_lockp /\ inverted' = inverted /\ t_wchan' = t_wchan /\ owner' = owner
    BY <1>1, <1>2, <1>5, QuietIs
  <2>2. Blocker(c)' = Blocker(c) /\ Ends(c)' = Ends(c)
    BY <1>1, <2>1 DEF Blocker, Ends
  <2>3. SpinRight(c)'
    BY <1>1, <1>3, <1>5, <2>1, <2>2 DEF SpinRight, Walking
  <2>4. WalkRight(c)'
    BY <1>1, <1>2, <1>5, WalkKept
  <2>5. From(c)' = From(c)
    BY <1>1, <1>2, <2>1 DEF From
  <2>6. ASSUME NEW t \in KThreads, Sleeps(t), Bound(c, t) PROVE PriRight(t)'
    BY <1>1, <1>2, <1>5, <2>5, <2>6, BoundKept
  <2> QED  BY <1>1, <1>2, <1>4, <1>5, <2>3, <2>4, <2>6, FollowFrame DEF Quiet
<1>6. CASE held' = [held EXCEPT ![t_lockp[at[c]]] = Null] /\ TsGoto(c, "lose")
  <2>1. /\ held' \in [Locks -> KThreads \cup {Null}]
        /\ \A d \in KThreads \ {c} : \A m \in Locks : held[m] = d => held'[m] = d
    BY <1>3, <1>4, <1>6
  <2>2. t_pc'[c] = "lose" /\ inverted' = inverted /\ inverted[c]
    BY <1>1, <1>2, <1>3, <1>6, QuietIs DEF Ends
  <2>3. SpinRight(c)' /\ WalkRight(c)'
    BY <2>2 DEF SpinRight, WalkRight, Walking
  <2>4. Sleeps(at[c])
    BY <1>2, <1>3, WalkerIs
  <2>5. PICK P \in SUBSET KThreads :
          /\ c \in P /\ at[c] \in P
          /\ \A s \in P \ {at[c]} : WaitsIn(P, s) /\ Urgent(s)
    BY <1>2, <2>2, <2>4 DEF TsInv, WalksRight, WalkRight
  <2>6. ASSUME NEW t \in KThreads, Sleeps(t), Bound(c, t) PROVE PriRight(t)'
    <3>1. PICK S \in SUBSET KThreads :
            /\ at[c] \in S /\ t \in S
            /\ \A s \in S \ {t} : WaitsIn(S, s) /\ Urgent(s)
      BY <1>2, <2>6 DEF Bound, From
    <3> DEFINE R == P \cup S
    <3>2. ASSUME NEW s \in R \ {t} PROVE WaitsIn(R, s) /\ Urgent(s)
      <4>1. CASE s \in S
        BY <3>1, <3>2, <4>1 DEF WaitsIn
      <4>2. CASE s \notin S
        BY <2>5, <3>1, <3>2, <4>2 DEF WaitsIn
      <4> QED  BY <4>1, <4>2
    <3>3. R \in SUBSET KThreads /\ c \in R /\ t \in R
      BY <2>5, <3>1
    <3> HIDE DEF R
    <3>4. \A s \in R \ {t} : WaitsIn(R, s)' /\ Urgent(s)'
      BY <1>1, <1>2, <1>6, <3>2, QuietIs
    <3>5. From(c)' = c
      BY <1>2, <2>2 DEF From
    <3>6. Bound(c, t)'
      BY <1>2, <2>2, <3>3, <3>4, <3>5 DEF Bound
    <3> QED  BY <3>6 DEF PriRight
  <2> QED  BY <1>1, <1>2, <1>4, <1>6, <2>1, <2>3, <2>6, FollowFrame DEF Quiet
<1> QED  BY <1>1, <1>5, <1>6

LEMMA LoseKeeps ==
  ASSUME TsInv, NEW c \in KThreads, interlock_lose(c)
  PROVE  TsInv'
<1>1. /\ t_pc[c] = "lose" /\ Free(olp[c]) /\ Quiet /\ at' = at /\ olp' = olp
      /\ held' = [held EXCEPT ![olp[c]] = c] /\ TsGoto(c, "lost")
  BY DEF interlock_lose, Quiet, local
<1>2. /\ t_pc[c] \in Following /\ "lost" \in Following /\ "lost" \in Blocking
      /\ t_pc[c] \notin Walking /\ "lost" \notin Walking
  BY <1>1 DEF Walking, Following, Blocking
<1>3. olp[c] \in Locks /\ held \in [Locks -> KThreads \cup {Null}]
      /\ olp' \in [KThreads -> Locks] /\ at' \in [KThreads -> KThreads]
  BY <1>1 DEF TsInv, TurnstileTypeOK
<1>4. /\ held' \in [Locks -> KThreads \cup {Null}] /\ held'[olp[c]] = c
      /\ \A d \in KThreads \ {c} : \A m \in Locks : held[m] = d => held'[m] = d
  BY <1>1, <1>3, ConstantsAre DEF Free
<1>5. t_pc'[c] = "lost" /\ inverted' = inverted /\ inverted[c]
  BY <1>1, <1>2, QuietIs DEF TsInv, SpinsRight, SpinRight
<1>6. SpinRight(c)' /\ WalkRight(c)'
  BY <1>1, <1>4, <1>5 DEF SpinRight, WalkRight, Walking
<1>7. From(c)' = From(c)
  BY <1>1, <1>2, <1>5 DEF From
<1>8. ASSUME NEW t \in KThreads, Sleeps(t), Bound(c, t) PROVE PriRight(t)'
  BY <1>1, <1>2, <1>7, <1>8, BoundKept
<1> QED  BY <1>1, <1>2, <1>3, <1>4, <1>6, <1>8, FollowFrame DEF Quiet

LEMMA LostKeeps ==
  ASSUME TsInv, NEW c \in KThreads, interlock_lost(c)
  PROVE  TsInv'
<1>1. /\ t_pc[c] = "lost" /\ Quiet /\ at' = at /\ olp' = olp
      /\ held' = [held EXCEPT ![olp[c]] = Null] /\ TsGoto(c, "restart")
  BY DEF interlock_lost, Quiet, local
<1>2. /\ t_pc[c] \in Following /\ "restart" \in Following /\ "restart" \in Blocking
      /\ t_pc[c] \notin Walking /\ "restart" \notin Walking
  BY <1>1 DEF Walking, Following, Blocking
<1>3. olp[c] \in Locks /\ held \in [Locks -> KThreads \cup {Null}] /\ held[olp[c]] = c
      /\ olp' \in [KThreads -> Locks] /\ at' \in [KThreads -> KThreads]
  BY <1>1 DEF TsInv, TurnstileTypeOK, SpinsRight, SpinRight
<1>4. /\ held' \in [Locks -> KThreads \cup {Null}]
      /\ \A d \in KThreads \ {c} : \A m \in Locks : held[m] = d => held'[m] = d
  BY <1>1, <1>3
<1>5. t_pc'[c] = "restart" /\ inverted' = inverted /\ inverted[c]
  BY <1>1, <1>2, QuietIs DEF TsInv, SpinsRight, SpinRight
<1>6. SpinRight(c)' /\ WalkRight(c)'
  BY <1>5 DEF SpinRight, WalkRight, Walking
<1>7. From(c)' = From(c)
  BY <1>1, <1>2, <1>5 DEF From
<1>8. ASSUME NEW t \in KThreads, Sleeps(t), Bound(c, t) PROVE PriRight(t)'
  BY <1>1, <1>2, <1>7, <1>8, BoundKept
<1> QED  BY <1>1, <1>2, <1>3, <1>4, <1>6, <1>8, FollowFrame DEF Quiet

LEMMA RestartKeeps ==
  ASSUME TsInv, NEW c \in KThreads, restart(c)
  PROVE  TsInv'
<1>1. /\ t_pc[c] = "restart" /\ Free(t_lockp[c]) /\ Quiet /\ olp' = olp
      /\ at' = [at EXCEPT ![c] = c]
      /\ held' = [held EXCEPT ![t_lockp[c]] = c] /\ TsGoto(c, "follow")
  BY DEF restart, Quiet
<1>2. /\ t_pc[c] \in Following /\ "follow" \in Following /\ "follow" \in Blocking
      /\ t_pc[c] \notin Walking /\ "follow" \in Walking
  BY <1>1 DEF Walking, Following, Blocking
<1>3. t_lockp[c] \in Locks /\ held \in [Locks -> KThreads \cup {Null}]
      /\ olp' \in [KThreads -> Locks] /\ at \in [KThreads -> KThreads]
  BY <1>1 DEF TsInv, TurnstileTypeOK
<1>4. /\ held' \in [Locks -> KThreads \cup {Null}] /\ held'[t_lockp[c]] = c
      /\ at' \in [KThreads -> KThreads] /\ at'[c] = c
      /\ \A d \in KThreads \ {c} : at'[d] = at[d] /\ \A m \in Locks : held[m] = d => held'[m] = d
  BY <1>1, <1>3, ConstantsAre DEF Free
<1>5. t_pc'[c] = "follow" /\ t_lockp' = t_lockp /\ t_wchan' = t_wchan /\ obj' = obj
  BY <1>1, <1>2, QuietIs
<1>6. SpinRight(c)'
  BY <1>4, <1>5 DEF SpinRight, Walking
<1>7. WalkRight(c)'
  <2>1. SUFFICES ASSUME Sleeps(c) PROVE WalkRight(c)'
    BY <1>4, <1>5 DEF WalkRight, Sleeps
  <2>2. t_wchan[c] = obj[c] /\ obj[c] \in Objects
    BY <2>1, SleeperIs
  <2>3. LockRank[obj[c]] <= LockRank[t_wchan[c]]
    BY <2>2, RankIsOrder
  <2>4. {c} \in SUBSET KThreads /\ c \in {c} /\ {c} \ {c} = {}
    OBVIOUS
  <2> QED  BY <1>4, <1>5, <2>3, <2>4 DEF WalkRight
<1>8. From(c)' = From(c)
  BY <1>1, <1>2, <1>4, <1>5 DEF From
<1>9. ASSUME NEW t \in KThreads, Sleeps(t), Bound(c, t) PROVE PriRight(t)'
  BY <1>1, <1>2, <1>8, <1>9, BoundKept
<1> QED  BY <1>1, <1>2, <1>3, <1>4, <1>6, <1>7, <1>9, FollowFrame DEF Quiet

-----------------------------------------------------------------------------
(* Taking and releasing objects                                            *)

Outside == {"run", "lookup", "block", "exit", "waive", "wake"}

\* A thread that is awake and does not touch turnstiles or priorities.
LEMMA PlainFrame ==
  ASSUME TsInv, NEW c \in KThreads, t_pc[c] \notin Following, ~Sleeps(c), NEW l \in Outside,
         t_pc' = [t_pc EXCEPT ![c] = l], UNCHANGED <<turnstiles, inherits, t_lockp, at, olp, inverted>>,
         owner' \in [Objects -> KThreads \cup {Null}], m_waiters' \in [Objects -> BOOLEAN],
         held' \in [Locks -> KThreads \cup {Null}], obj' \in [KThreads -> Objects \cup {Null}],
         towake' \in [KThreads -> Nat], step' \in [KThreads -> Nat],
         \A d \in KThreads \ {c} : /\ obj'[d] = obj[d] /\ towake'[d] = towake[d] /\ step'[d] = step[d]
                                   /\ \A m \in Locks : held[m] = d => held'[m] = d,
         \A o \in Objects : owner'[o] # owner[o] =>
           \/ owner[o] = Null
           \/ owner[o] = c /\ (~m_waiters[o] \/ held[Chain[o]] \in {c, Null}),
         \A o \in Objects : Waking(c, o)' => Waking(c, o) \/ owner[o] = c,
         \A o \in Objects : Waking(c, o) => Waking(c, o)',
         \A t \in KThreads : Sleeps(t) /\ owner'[t_wchan[t]] # owner[t_wchan[t]] =>
           Releasing(t_wchan[t]) \/ Releasing(t_wchan[t])',
         PlaceRight(c)', OwnersRight', SpinRight(c)', WaitedFor', ExitsRight',
         \A x \in KThreads : WillRight(x)'
  PROVE  TsInv'
<1> USE DEF turnstiles, inherits
<1>1. t_pc'[c] = l /\ (\A d \in KThreads \ {c} : t_pc'[d] = t_pc[d]) /\ l \notin Walking /\ l \notin Following
      /\ Walking \subseteq Following
  BY DEF TsInv, TsLocals, Outside, Walking, Following
<1>2. TurnstileTypeOK' /\ TsLocals'
  <2>1. TurnstileTypeOK'
    BY DEF TsInv, TurnstileTypeOK
  <2>2. t_pc' \in [KThreads -> {"run", "lookup", "block", "exit", "waive", "wake"} \cup Blocking]
    BY DEF TsInv, TsLocals, Outside
  <2>3. inverted' \in [KThreads -> BOOLEAN]
    BY DEF TsInv, TsLocals
  <2> QED  BY <2>1, <2>2, <2>3 DEF TsLocals
<1>3. \A t : Sleeps(t)' <=> Sleeps(t)
  BY DEF Sleeps
<1>4. \A d \in KThreads \ {c} : \A o : Waking(d, o)' <=> Waking(d, o)
  BY <1>1 DEF Waking
<1>5. \A o \in Objects : Releasing(o) => Releasing(o)'
  BY <1>4 DEF Releasing
<1>6. \A o \in Objects : Releasing(o)' => Releasing(o) \/ owner[o] = c
  BY <1>4 DEF Releasing
<1>7. Calm(c)
  <2>1. Others(c)
    BY <1>1 DEF Others
  <2>2. \A s \in KThreads : DISP_PRIO(s, t_epri)' = DISP_PRIO(s, t_epri) /\ DISP_PRIO(s, t_epri) \in Nat
    BY PriorityIs DEF DISP_PRIO
  <2>3. Rises
    BY <2>2 DEF Rises
  <2>4. Owned
    BY <1>6, ConstantsAre DEF Owned
  <2>5. Locked(c)
    BY DEF Locked
  <2> QED  BY <2>1, <2>3, <2>4, <2>5 DEF Calm, StayAsleep
<1>8. PlacesRight'
  <2>1. SUFFICES ASSUME NEW d \in KThreads, d # c PROVE PlaceRight(d)'
    BY DEF PlacesRight
  <2>2. PlaceRight(d)
    BY DEF TsInv, PlacesRight
  <2> QED  BY <1>1, <1>3, <2>1, <2>2 DEF PlaceRight
<1>9. WalkRight(c)'
  BY <1>1 DEF WalkRight
<1>10. SpinsRight' /\ WalksRight'
  BY <1>2, <1>7, <1>8, <1>9, SpinOthers, WalkOthers DEF SpinsRight, WalksRight
<1>11. TurnstilesPlaced' /\ QueuesRight' /\ SparesRight'
  BY TurnstilesFrame
<1>12. WillsRight'
  BY DEF TsInv, WillsRight, Inheritors, EpriRight
<1>13. PriorityRight'
  <2>1. SUFFICES ASSUME NEW t \in KThreads, Sleeps(t) PROVE PriRight(t)'
    BY <1>3 DEF PriorityRight, PriRight
  <2>2. t_wchan[t] \in Objects /\ t_wchan' = t_wchan
    BY <2>1, SleeperIs
  <2>3. Releasing(t_wchan[t])' => PriRight(t)'
    BY <2>2 DEF PriRight, Releasing, Waking
  <2>4. Releasing(t_wchan[t]) => PriRight(t)'
    BY <1>5, <2>2, <2>3
  <2>5. Covered(t) => PriRight(t)'
    <3>1. CASE owner'[t_wchan[t]] = owner[t_wchan[t]]
      BY <3>1, CoveredFrame DEF PriRight
    <3>2. CASE owner'[t_wchan[t]] # owner[t_wchan[t]]
      BY <2>1, <2>3, <2>4, <3>2
    <3> QED  BY <3>1, <3>2
  <2>6. ~Bound(c, t)
    BY DEF Bound
  <2> QED  BY <1>2, <1>7, <2>1, <2>4, <2>5, <2>6, PriFrame
<1>14. QueuesSorted'
  BY SortedFrame
<1> QED  BY <1>2, <1>8, <1>10, <1>11, <1>12, <1>13, <1>14 DEF TsInv

\* A thread that is not blocking.
LEMMA AwakeIs ==
  ASSUME TsInv, NEW c \in KThreads, t_pc[c] \in Outside
  PROVE  /\ ~Sleeps(c) /\ t_wchan[c] = Null /\ t_lockp[c] = RunLock[c] /\ t_pc[c] \notin Following
         /\ t_pc[c] \notin Blocking /\ step[c] \in Nat /\ step[c] <= Len(Script[c])
         /\ t_pc[c] # "exit" => \A o \in Objects : owner[o] = c <=> o \in Taken(c, step[c])
<1>1. t_pc[c] \notin Following /\ t_pc[c] \notin Blocking
  BY DEF Outside, Following, Blocking
<1>2. ~Sleeps(c) /\ t_lockp[c] = RunLock[c] /\ step[c] <= Len(Script[c]) /\ step[c] \in Nat
  BY <1>1 DEF TsInv, PlacesRight, PlaceRight, TsLocals
<1>3. t_pc[c] # "exit" => \A o \in Objects : owner[o] = c <=> o \in Taken(c, step[c])
  BY <1>1 DEF TsInv, OwnersRight, OwnsRight
<1> QED  BY <1>1, <1>2, <1>3 DEF Sleeps

LEMMA TypesAre ==
  ASSUME TsInv
  PROVE  /\ owner \in [Objects -> KThreads \cup {Null}] /\ m_waiters \in [Objects -> BOOLEAN]
         /\ held \in [Locks -> KThreads \cup {Null}] /\ obj \in [KThreads -> Objects \cup {Null}]
         /\ towake \in [KThreads -> Nat] /\ step \in [KThreads -> Nat]
         /\ t_pc \in [KThreads -> {"run", "lookup", "block", "exit", "waive", "wake"} \cup Blocking]
BY DEF TsInv, TurnstileTypeOK, TsLocals

\* Who inherits is a thread.
LEMMA InheritorIs ==
  ASSUME TsInv, NEW x \in KThreads, ts_inheritor[x] # Null
  PROVE  /\ ts_inheritor[x] \in KThreads /\ x \in Live /\ ts_sobj[x] \in Objects /\ x \in Active(ts_sobj[x])
         /\ ts_epri[x] > Pri[ts_inheritor[x]]
         /\ \/ owner[ts_sobj[x]] = ts_inheritor[x]
            \/ t_pc[ts_inheritor[x]] = "waive" /\ obj[ts_inheritor[x]] = ts_sobj[x]
<1>1. WillRight(x)
  BY DEF TsInv, WillsRight
<1>2. ts_inheritor[x] \in KThreads
  BY DEF TsInv, TurnstileTypeOK
<1>3. x \in Live
  BY <1>1 DEF WillRight
<1>4. PICK k \in Chains : x \in tc_first[k]
  BY <1>3 DEF Live
<1>5. ts_sobj[x] \in Objects /\ Chain[ts_sobj[x]] = k
  BY <1>4 DEF TsInv, TurnstilesPlaced
<1> QED  BY <1>1, <1>2, <1>3, <1>4, <1>5 DEF WillRight, Active

LEMMA EnterFree ==
  ASSUME TsInv, NEW c \in KThreads, t_pc[c] = "run", step[c] < Len(Script[c]),
         NEW o, o = Script[c][step[c] + 1], owner[o] = Null,
         owner' = [owner EXCEPT ![o] = c], step' = [step EXCEPT ![c] = @ + 1],
         UNCHANGED <<t_pc, obj, m_waiters, turnstiles, inherits, locks, at, olp, inverted, towake>>
  PROVE  TsInv'
<1> USE DEF turnstiles, inherits, locks
<1>1. t_pc[c] \in Outside /\ "run" \in Outside
  BY DEF Outside
<1>2. /\ ~Sleeps(c) /\ t_pc[c] \notin Following /\ step[c] \in Nat
      /\ \A p \in Objects : owner[p] = c <=> p \in Taken(c, step[c])
  BY <1>1, AwakeIs
<1>3. o \in Objects /\ o \notin Taken(c, step[c]) /\ Taken(c, step[c] + 1) = Taken(c, step[c]) \cup {o}
  BY <1>2, TakenNext, ConstantsAre
<1>4. /\ owner' \in [Objects -> KThreads \cup {Null}] /\ step' \in [KThreads -> Nat]
      /\ step'[c] = step[c] + 1 /\ owner'[o] = c /\ \A p \in Objects \ {o} : owner'[p] = owner[p]
      /\ \A d \in KThreads \ {c} : step'[d] = step[d]
  BY <1>2, <1>3, TypesAre
<1>5. t_pc' = [t_pc EXCEPT ![c] = "run"]
  BY TypesAre
<1>6. PlaceRight(c)'
  <2>1. PlaceRight(c) /\ Len(Script[c]) \in Nat
    BY SetsAssumption DEF TsInv, PlacesRight
  <2> QED  BY <1>2, <1>4, <2>1 DEF PlaceRight, Sleeps, Blocking, Following
<1>7. OwnersRight'
  <2>1. SUFFICES ASSUME NEW d \in KThreads PROVE OwnsRight(d)'
    BY DEF OwnersRight
  <2>2. OwnsRight(d)
    BY DEF TsInv, OwnersRight
  <2>3. CASE d = c
    BY <1>2, <1>3, <1>4, <2>3 DEF OwnsRight, Taken
  <2>4. CASE d # c
    <3>1. \A p \in Taken(d, step[d]) : p \in Objects /\ p # o
      BY <2>2, ConstantsAre DEF OwnsRight, Taken
    <3>2. t_pc[d] = "exit" => obj[d] \in Objects /\ obj[d] # o
      BY <2>2, ConstantsAre DEF TsInv, PlacesRight, PlaceRight, OwnsRight
    <3> QED  BY <1>4, <2>2, <2>4, <3>1, <3>2 DEF OwnsRight
  <2> QED  BY <2>3, <2>4
<1>8. SpinRight(c)'
  BY DEF SpinRight, Walking
<1>9. \A p : Releasing(p)' <=> Releasing(p)
  BY DEF Releasing, Waking
<1>10. \A t \in KThreads : Sleeps(t) => t_wchan[t] \in Objects
  BY SleeperIs
<1>11. WaitedFor'
  <2>1. ASSUME NEW t \in KThreads, Sleeps(t)'
        PROVE  \/ Releasing(t_wchan[t])'
               \/ owner'[t_wchan[t]] # Null /\ m_waiters[t_wchan[t]] /\ t_wchan[owner'[t_wchan[t]]] # t_wchan[t]
    <3>1. Sleeps(t)
      BY <2>1 DEF Sleeps
    <3> QED  BY <1>4, <1>9, <1>10, <3>1 DEF TsInv, WaitedFor, Releasing, Waking
  <2>2. ASSUME NEW d \in KThreads, t_pc[d] = "block"
        PROVE  owner'[obj[d]] # Null /\ m_waiters[obj[d]] /\ owner'[obj[d]] # d
    <3>1. obj[d] \in Objects /\ owner[obj[d]] # Null /\ m_waiters[obj[d]] /\ owner[obj[d]] # d
      BY <2>2 DEF TsInv, WaitedFor, PlacesRight, PlaceRight
    <3> QED  BY <1>4, <3>1
  <2> QED  BY <2>1, <2>2 DEF WaitedFor, Releasing, Waking
<1>12. \A p : Active(p)' = Active(p)
  BY TurnstilesFrame
<1>13. ExitsRight'
  <2>1. SUFFICES ASSUME NEW d \in KThreads, t_pc[d] \in {"waive", "wake"} PROVE ExitRight(d)'
    BY DEF ExitsRight, ExitRight
  <2>2. ExitRight(d) /\ obj[d] \in Objects
    BY <2>1 DEF TsInv, ExitsRight, PlacesRight, PlaceRight
  <2>3. \A x \in Active(obj[d]) : Head(ts_sleepq[x]) # Null
    BY <2>2, ActiveIs, ConstantsAre
  <2> QED  BY <1>4, <1>12, <2>2, <2>3 DEF ExitRight
<1>14. ASSUME NEW x \in KThreads PROVE WillRight(x)'
  <2>1. SUFFICES ASSUME ts_inheritor[x] # Null PROVE WillRight(x)'
    BY DEF WillRight
  <2>2. Live' = Live
    BY TurnstilesFrame
  <2> QED  BY <1>4, <2>1, <2>2, InheritorIs, ConstantsAre DEF WillRight
<1>15. ASSUME NEW t \in KThreads, Sleeps(t), owner'[t_wchan[t]] # owner[t_wchan[t]]
       PROVE  Releasing(t_wchan[t])
  BY <1>4, <1>10, <1>15 DEF TsInv, WaitedFor
<1>16. \A p : Waking(c, p)' <=> Waking(c, p)
  BY DEF Waking
<1> QED  BY <1>1, <1>2, <1>4, <1>5, <1>6, <1>7, <1>8, <1>11, <1>13, <1>14, <1>15, <1>16, TypesAre, PlainFrame

\* A step that leaves the owners of all objects as they are.
LEMMA SameOwners ==
  ASSUME TsInv, NEW c \in KThreads, ~Sleeps(c), t_pc[c] \notin Following, t_pc[c] # "waive",
         t_pc[c] = "wake" => towake[c] = 0, NEW l \in {"run", "lookup", "block", "exit"},
         t_pc' = [t_pc EXCEPT ![c] = l],
         UNCHANGED <<owner, turnstiles, inherits, t_lockp, at, olp, inverted, towake>>,
         m_waiters' \in [Objects -> BOOLEAN], \A o \in Objects : m_waiters[o] => m_waiters'[o],
         held' \in [Locks -> KThreads \cup {Null}], obj' \in [KThreads -> Objects \cup {Null}],
         step' \in [KThreads -> Nat],
         \A d \in KThreads \ {c} : /\ obj'[d] = obj[d] /\ step'[d] = step[d]
                                   /\ \A m \in Locks : held[m] = d => held'[m] = d,
         PlaceRight(c)', OwnsRight(c)', SpinRight(c)',
         l = "block" => owner[obj'[c]] # Null /\ m_waiters'[obj'[c]] /\ owner[obj'[c]] # c
  PROVE  TsInv'
<1> USE DEF turnstiles, inherits
<1>1. t_pc'[c] = l /\ (\A d \in KThreads \ {c} : t_pc'[d] = t_pc[d]) /\ l \notin {"waive", "wake"} /\ l \in Outside
  BY TypesAre DEF Outside
<1>2. \A d \in KThreads : \A o : Waking(d, o)' <=> Waking(d, o)
  BY <1>1 DEF Waking
<1>3. \A o : Releasing(o)' <=> Releasing(o)
  BY <1>2 DEF Releasing
<1>4. OwnersRight'
  <2>1. SUFFICES ASSUME NEW d \in KThreads, d # c PROVE OwnsRight(d)'
    BY DEF OwnersRight
  <2>2. OwnsRight(d)
    BY DEF TsInv, OwnersRight
  <2> QED  BY <1>1, <2>1, <2>2 DEF OwnsRight
<1>5. WaitedFor'
  <2>1. ASSUME NEW t \in KThreads, Sleeps(t)'
        PROVE  \/ Releasing(t_wchan[t])'
               \/ owner[t_wchan[t]] # Null /\ m_waiters'[t_wchan[t]] /\ t_wchan[owner[t_wchan[t]]] # t_wchan[t]
    <3>1. Sleeps(t)
      BY <2>1 DEF Sleeps
    <3>2. t_wchan[t] \in Objects
      BY <3>1, SleeperIs
    <3>3. CASE Releasing(t_wchan[t])
      BY <1>3, <3>3 DEF Releasing, Waking
    <3>4. CASE ~Releasing(t_wchan[t])
      BY <3>1, <3>2, <3>4 DEF TsInv, WaitedFor
    <3> QED  BY <3>3, <3>4
  <2>2. ASSUME NEW d \in KThreads, t_pc'[d] = "block"
        PROVE  owner[obj'[d]] # Null /\ m_waiters'[obj'[d]] /\ owner[obj'[d]] # d
    <3>1. CASE d = c
      BY <1>1, <2>2, <3>1
    <3>2. CASE d # c
      <4>1. obj[d] \in Objects /\ owner[obj[d]] # Null /\ m_waiters[obj[d]] /\ owner[obj[d]] # d
        BY <1>1, <2>2, <3>2 DEF TsInv, WaitedFor, PlacesRight, PlaceRight
      <4> QED  BY <3>2, <4>1
    <3> QED  BY <3>1, <3>2
  <2> QED  BY <2>1, <2>2 DEF WaitedFor, Releasing, Waking
<1>6. \A o : Active(o)' = Active(o)
  BY TurnstilesFrame
<1>7. ExitsRight'
  <2>1. SUFFICES ASSUME NEW d \in KThreads, t_pc'[d] \in {"waive", "wake"} PROVE ExitRight(d)'
    BY DEF ExitsRight, ExitRight
  <2>2. d # c /\ t_pc'[d] = t_pc[d]
    BY <1>1, <2>1
  <2>3. ExitRight(d) /\ obj[d] \in Objects /\ obj'[d] = obj[d]
    BY <2>1, <2>2 DEF TsInv, ExitsRight, PlacesRight, PlaceRight
  <2> QED  BY <1>6, <2>2, <2>3 DEF ExitRight
<1>8. ASSUME NEW x \in KThreads PROVE WillRight(x)'
  <2>1. SUFFICES ASSUME ts_inheritor[x] # Null PROVE WillRight(x)'
    BY DEF WillRight
  <2>2. Live' = Live
    BY TurnstilesFrame
  <2> QED  BY <1>1, <2>1, <2>2, InheritorIs DEF WillRight
<1> QED  BY <1>1, <1>2, <1>4, <1>5, <1>7, <1>8, TypesAre, PlainFrame

LEMMA EnterHeld ==
  ASSUME TsInv, NEW c \in KThreads, t_pc[c] = "run", step[c] < Len(Script[c]),
         NEW o, o = Script[c][step[c] + 1], owner[o] # c,
         obj' = [obj EXCEPT ![c] = o], TsGoto(c, "lookup"),
         UNCHANGED <<owner, step, m_waiters, turnstiles, inherits, locks, at, olp, inverted, towake>>
  PROVE  TsInv'
<1> USE DEF turnstiles, inherits, locks
<1>1. t_pc[c] \in Outside
  BY DEF Outside
<1>2. /\ ~Sleeps(c) /\ t_wchan[c] = Null /\ t_lockp[c] = RunLock[c] /\ t_pc[c] \notin Following /\ step[c] \in Nat
      /\ \A p \in Objects : owner[p] = c <=> p \in Taken(c, step[c])
  BY <1>1, AwakeIs
<1>3. o \in Objects /\ o \notin Taken(c, step[c])
  BY <1>2, TakenNext
<1>4. obj' \in [KThreads -> Objects \cup {Null}] /\ obj'[c] = o /\ \A d \in KThreads \ {c} : obj'[d] = obj[d]
  BY <1>3, TypesAre
<1>5. t_pc' = [t_pc EXCEPT ![c] = "lookup"] /\ t_pc'[c] = "lookup"
  BY TypesAre DEF TsGoto
<1>6. PlaceRight(c)'
  <2>1. Len(Script[c]) \in Nat /\ step[c] <= Len(Script[c])
    BY <1>2, ConstantsAre
  <2> QED  BY <1>2, <1>3, <1>4, <1>5, <2>1 DEF PlaceRight, Sleeps
<1>7. OwnsRight(c)'
  BY <1>2, <1>5 DEF OwnsRight, Taken
<1>8. SpinRight(c)'
  BY <1>5 DEF SpinRight, Walking
<1> QED  BY <1>2, <1>4, <1>5, <1>6, <1>7, <1>8, TypesAre, SameOwners

LEMMA EnterKeeps ==
  ASSUME TsInv, NEW c \in KThreads, mutex_enter(c)
  PROVE  TsInv'
<1> DEFINE o == Script[c][step[c] + 1]
<1>1. /\ t_pc[c] = "run" /\ step[c] < Len(Script[c]) /\ owner[o] # c
      /\ UNCHANGED <<m_waiters, turnstiles, inherits, locks, at, olp, inverted, towake>>
  BY DEF mutex_enter
<1>2. CASE owner[o] = Null
  <2>1. owner' = [owner EXCEPT ![o] = c] /\ step' = [step EXCEPT ![c] = @ + 1] /\ UNCHANGED <<t_pc, obj>>
    BY <1>2 DEF mutex_enter
  <2> HIDE DEF o
  <2> QED  BY <1>1, <1>2, <2>1, EnterFree DEF o
<1>3. CASE owner[o] # Null
  <2>1. obj' = [obj EXCEPT ![c] = o] /\ TsGoto(c, "lookup") /\ UNCHANGED <<owner, step>>
    BY <1>3 DEF mutex_enter
  <2> HIDE DEF o
  <2> QED  BY <1>1, <1>3, <2>1, EnterHeld DEF o
<1> QED  BY <1>2, <1>3

LEMMA LookupKeeps ==
  ASSUME TsInv, NEW c \in KThreads, turnstile_lookup(c)
  PROVE  TsInv'
<1> DEFINE o == obj[c]
<1>1. /\ t_pc[c] = "lookup" /\ Free(Chain[o])
      /\ UNCHANGED <<owner, turnstiles, inherits, t_lockp, local>>
      /\ \/ TsGoto(c, "run") /\ UNCHANGED <<m_waiters, held>>
         \/ /\ owner[o] # Null /\ m_waiters' = [m_waiters EXCEPT ![o] = TRUE]
            /\ \/ TsGoto(c, "block") /\ held' = [held EXCEPT ![Chain[o]] = c]
               \/ TsGoto(c, "run") /\ held' = held
  BY DEF turnstile_lookup
<1>2. t_pc[c] \in Outside /\ t_pc[c] # "exit"
  BY <1>1 DEF Outside
<1>3. /\ ~Sleeps(c) /\ t_wchan[c] = Null /\ t_lockp[c] = RunLock[c] /\ t_pc[c] \notin Following
      /\ \A p \in Objects : owner[p] = c <=> p \in Taken(c, step[c])
  BY <1>2, AwakeIs
<1>4. PlaceRight(c) /\ o \in Objects /\ o \notin Taken(c, step[c])
      /\ step[c] < Len(Script[c]) /\ obj[c] = Script[c][step[c] + 1]
  BY <1>1 DEF TsInv, PlacesRight, PlaceRight
<1>5. owner[o] # c
  BY <1>3, <1>4
<1>6. obj' = obj /\ at' = at /\ olp' = olp /\ inverted' = inverted /\ towake' = towake /\ step' = step
  BY <1>1 DEF local
<1>7. t_wchan' = t_wchan /\ t_lockp' = t_lockp /\ owner' = owner
  BY <1>1 DEF turnstiles
<1> HIDE DEF o
<1>8. m_waiters' \in [Objects -> BOOLEAN] /\ \A p \in Objects : m_waiters[p] => m_waiters'[p]
  BY <1>1, <1>4, TypesAre
<1>9. CASE TsGoto(c, "run") /\ held' = held
  <2>1. t_pc' = [t_pc EXCEPT ![c] = "run"] /\ t_pc'[c] = "run"
    BY <1>9, TypesAre DEF TsGoto
  <2>2. PlaceRight(c)'
    BY <1>3, <1>4, <1>6, <1>7, <2>1 DEF PlaceRight, Sleeps, Blocking, Following
  <2>3. OwnsRight(c)'
    BY <1>3, <1>6, <1>7, <2>1 DEF OwnsRight, Taken
  <2>4. SpinRight(c)'
    BY <2>1 DEF SpinRight, Walking
  <2> QED  BY <1>1, <1>3, <1>6, <1>8, <1>9, <2>1, <2>2, <2>3, <2>4, TypesAre, SameOwners
<1>10. CASE TsGoto(c, "block") /\ held' = [held EXCEPT ![Chain[o]] = c] /\ owner[o] # Null
            /\ m_waiters' = [m_waiters EXCEPT ![o] = TRUE]
  <2>1. t_pc' = [t_pc EXCEPT ![c] = "block"] /\ t_pc'[c] = "block"
    BY <1>10, TypesAre DEF TsGoto
  <2>2. PlaceRight(c)'
    BY <1>3, <1>4, <1>6, <1>7, <2>1 DEF PlaceRight, Sleeps, Blocking, Following, o
  <2>3. OwnsRight(c)'
    BY <1>3, <1>6, <1>7, <2>1 DEF OwnsRight, Taken
  <2>4. held' \in [Locks -> KThreads \cup {Null}] /\ held'[Chain[o]] = c
        /\ \A d \in KThreads \ {c} : \A m \in Locks : held[m] = d => held'[m] = d
    BY <1>1, <1>4, <1>10, TypesAre, ConstantsAre DEF Free
  <2>5. SpinRight(c)'
    BY <1>6, <2>1, <2>4 DEF SpinRight, Walking, o
  <2>6. owner[obj'[c]] # Null /\ m_waiters'[obj'[c]] /\ owner[obj'[c]] # c
    BY <1>4, <1>5, <1>6, <1>10, TypesAre DEF o
  <2> QED  BY <1>1, <1>3, <1>6, <1>8, <1>10, <2>1, <2>2, <2>3, <2>4, <2>5, <2>6, TypesAre, SameOwners
<1> QED  BY <1>1, <1>9, <1>10

LEMMA ResumeKeeps ==
  ASSUME TsInv, NEW c \in KThreads, resume(c)
  PROVE  TsInv'
<1>1. /\ t_pc[c] = "swtch" /\ t_wchan[c] = Null /\ TsGoto(c, "run")
      /\ step' = [step EXCEPT ![c] = IF owner[obj[c]] = c THEN @ + 1 ELSE @]
      /\ UNCHANGED <<objects, turnstiles, inherits, locks, obj, at, olp, inverted, towake>>
  BY DEF resume
<1>2. /\ ~Sleeps(c) /\ t_pc[c] \notin Following /\ t_pc[c] \in Blocking /\ t_pc[c] # "run"
  BY <1>1 DEF Sleeps, Following, Blocking
<1>3. /\ PlaceRight(c) /\ obj[c] \in Objects /\ obj[c] \notin Taken(c, step[c])
      /\ step[c] < Len(Script[c]) /\ obj[c] = Script[c][step[c] + 1] /\ step[c] \in Nat
  BY <1>2, TypesAre DEF TsInv, PlacesRight, PlaceRight
<1>4. Taken(c, step[c] + 1) = Taken(c, step[c]) \cup {obj[c]}
  BY <1>3, TakenNext
<1>5. t_pc' = [t_pc EXCEPT ![c] = "run"] /\ t_pc'[c] = "run"
  BY <1>1, TypesAre DEF TsGoto
<1>6. /\ step' \in [KThreads -> Nat] /\ step'[c] = IF owner[obj[c]] = c THEN step[c] + 1 ELSE step[c]
      /\ \A d \in KThreads \ {c} : step'[d] = step[d]
  BY <1>1, <1>3, TypesAre
<1>7. t_wchan' = t_wchan /\ t_lockp' = t_lockp /\ owner' = owner /\ m_waiters' = m_waiters /\ held' = held /\ obj' = obj
  BY <1>1 DEF turnstiles, objects, locks
<1>8. PlaceRight(c)'
  <2>1. step'[c] <= Len(Script[c])
    <3>1. Len(Script[c]) \in Nat
      BY ConstantsAre
    <3> QED  BY <1>3, <1>6, <3>1
  <2>2. t_lockp[c] = RunLock[c]
    BY <1>2, <1>3 DEF PlaceRight
  <2> QED  BY <1>1, <1>5, <1>7, <2>1, <2>2 DEF PlaceRight, Sleeps, Blocking, Following
<1>9. OwnsRight(c)'
  <2>1. OwnsRight(c)
    BY DEF TsInv, OwnersRight
  <2>2. CASE owner[obj[c]] = c
    BY <1>1, <1>3, <1>4, <1>5, <1>6, <1>7, <2>1, <2>2 DEF OwnsRight
  <2>3. CASE owner[obj[c]] # c
    BY <1>1, <1>3, <1>5, <1>6, <1>7, <2>1, <2>3 DEF OwnsRight
  <2> QED  BY <2>2, <2>3
<1>10. SpinRight(c)'
  BY <1>5 DEF SpinRight, Walking
<1> QED  BY <1>1, <1>2, <1>5, <1>6, <1>7, <1>8, <1>9, <1>10, TypesAre, SameOwners

LEMMA WakeupExitKeeps ==
  ASSUME TsInv, NEW c \in KThreads, wakeup_exit(c)
  PROVE  TsInv'
<1>1. /\ t_pc[c] = "wake" /\ towake[c] = 0 /\ TsGoto(c, "run")
      /\ held' = [held EXCEPT ![Chain[obj[c]]] = Null]
      /\ UNCHANGED <<objects, turnstiles, inherits, t_lockp, local>>
  BY DEF wakeup_exit
<1>2. t_pc[c] \in Outside /\ t_pc[c] # "exit" /\ t_pc[c] # "waive"
  BY <1>1 DEF Outside
<1>3. /\ ~Sleeps(c) /\ t_wchan[c] = Null /\ t_lockp[c] = RunLock[c] /\ t_pc[c] \notin Following
      /\ \A p \in Objects : owner[p] = c <=> p \in Taken(c, step[c])
  BY <1>2, AwakeIs
<1>4. obj[c] \in Objects /\ held[Chain[obj[c]]] = c /\ step[c] <= Len(Script[c])
  BY <1>1 DEF TsInv, PlacesRight, PlaceRight, SpinsRight, SpinRight
<1>5. t_pc' = [t_pc EXCEPT ![c] = "run"] /\ t_pc'[c] = "run"
  BY <1>1, TypesAre DEF TsGoto
<1>6. /\ t_wchan' = t_wchan /\ t_lockp' = t_lockp /\ owner' = owner /\ m_waiters' = m_waiters
      /\ obj' = obj /\ step' = step /\ towake' = towake /\ at' = at /\ olp' = olp /\ inverted' = inverted
  BY <1>1 DEF turnstiles, objects, local
<1>7. held' \in [Locks -> KThreads \cup {Null}]
      /\ \A d \in KThreads \ {c} : \A m \in Locks : held[m] = d => held'[m] = d
  BY <1>1, <1>4, TypesAre, ConstantsAre
<1>8. PlaceRight(c)'
  BY <1>3, <1>4, <1>5, <1>6 DEF PlaceRight, Sleeps, Blocking, Following
<1>9. OwnsRight(c)'
  BY <1>3, <1>5, <1>6 DEF OwnsRight, Taken
<1>10. SpinRight(c)'
  BY <1>5 DEF SpinRight, Walking
<1> QED  BY <1>1, <1>2, <1>3, <1>5, <1>6, <1>7, <1>8, <1>9, <1>10, TypesAre, SameOwners

\* Who has no waiters gives up the object by itself.
LEMMA ExitFree ==
  ASSUME TsInv, NEW c \in KThreads, t_pc[c] = "run", step[c] < Len(Script[c]),
         NEW o, o = Script[c][step[c] + 1], owner[o] = c, ~m_waiters[o],
         owner' = [owner EXCEPT ![o] = Null], step' = [step EXCEPT ![c] = @ + 1],
         UNCHANGED <<t_pc, obj, m_waiters, turnstiles, inherits, locks, at, olp, inverted, towake>>
  PROVE  TsInv'
<1> USE DEF turnstiles, inherits, locks
<1>1. t_pc[c] \in Outside /\ "run" \in Outside
  BY DEF Outside
<1>2. /\ ~Sleeps(c) /\ t_wchan[c] = Null /\ t_lockp[c] = RunLock[c] /\ t_pc[c] \notin Following /\ step[c] \in Nat
      /\ \A p \in Objects : owner[p] = c <=> p \in Taken(c, step[c])
  BY <1>1, AwakeIs
<1>3. o \in Objects /\ Taken(c, step[c] + 1) = Taken(c, step[c]) \ {o}
  BY <1>2, TakenNext
<1>4. /\ owner' \in [Objects -> KThreads \cup {Null}] /\ step' \in [KThreads -> Nat]
      /\ step'[c] = step[c] + 1 /\ owner'[o] = Null /\ \A p \in Objects \ {o} : owner'[p] = owner[p]
      /\ \A d \in KThreads \ {c} : step'[d] = step[d]
  BY <1>2, <1>3, TypesAre
<1>5. t_pc' = [t_pc EXCEPT ![c] = "run"]
  BY TypesAre
<1>6. PlaceRight(c)'
  <2>1. Len(Script[c]) \in Nat
    BY ConstantsAre
  <2> QED  BY <1>2, <1>4, <2>1 DEF PlaceRight, Sleeps, Blocking, Following
<1>7. OwnersRight'
  <2>1. SUFFICES ASSUME NEW d \in KThreads PROVE OwnsRight(d)'
    BY DEF OwnersRight
  <2>2. OwnsRight(d)
    BY DEF TsInv, OwnersRight
  <2>3. CASE d = c
    <3>1. Taken(c, step[c]) \subseteq Objects
      BY DEF Taken
    <3>2. \A p \in Taken(c, step[c] + 1) : owner'[p] = c
      BY <1>2, <1>3, <1>4, <3>1
    <3>3. \A p \in Objects : owner'[p] = c => p \in Taken(c, step[c] + 1)
      BY <1>2, <1>3, <1>4, ConstantsAre
    <3> QED  BY <1>4, <2>3, <3>2, <3>3 DEF OwnsRight
  <2>4. CASE d # c
    <3>1. \A p \in Taken(d, step[d]) : p \in Objects /\ p # o
      BY <2>2, <2>4 DEF OwnsRight, Taken
    <3>2. t_pc[d] = "exit" => obj[d] \in Objects /\ obj[d] # o
      BY <2>2, <2>4 DEF TsInv, PlacesRight, PlaceRight, OwnsRight
    <3> QED  BY <1>4, <2>2, <2>4, <3>1, <3>2, ConstantsAre DEF OwnsRight
  <2> QED  BY <2>3, <2>4
<1>8. SpinRight(c)'
  BY DEF SpinRight, Walking
<1>9. \A p : Releasing(p)' <=> Releasing(p)
  BY DEF Releasing, Waking
<1>10. \A t \in KThreads : Sleeps(t) => t_wchan[t] \in Objects
  BY SleeperIs
<1>11. ASSUME NEW t \in KThreads, Sleeps(t), t_wchan[t] = o PROVE Releasing(o)
  BY <1>11 DEF TsInv, WaitedFor
<1>12. WaitedFor'
  <2>1. ASSUME NEW t \in KThreads, Sleeps(t)'
        PROVE  \/ Releasing(t_wchan[t])'
               \/ owner'[t_wchan[t]] # Null /\ m_waiters[t_wchan[t]] /\ t_wchan[owner'[t_wchan[t]]] # t_wchan[t]
    <3>1. Sleeps(t)
      BY <2>1 DEF Sleeps
    <3>2. CASE Releasing(t_wchan[t])
      BY <1>9, <3>2 DEF Releasing, Waking
    <3>3. CASE ~Releasing(t_wchan[t])
      BY <1>4, <1>10, <1>11, <3>1, <3>3 DEF TsInv, WaitedFor
    <3> QED  BY <3>2, <3>3
  <2>2. ASSUME NEW d \in KThreads, t_pc[d] = "block"
        PROVE  owner'[obj[d]] # Null /\ m_waiters[obj[d]] /\ owner'[obj[d]] # d
    <3>1. obj[d] \in Objects /\ owner[obj[d]] # Null /\ m_waiters[obj[d]] /\ owner[obj[d]] # d
      BY <2>2 DEF TsInv, WaitedFor, PlacesRight, PlaceRight
    <3> QED  BY <1>4, <3>1
  <2> QED  BY <2>1, <2>2 DEF WaitedFor, Releasing, Waking
<1>13. \A p : Active(p)' = Active(p)
  BY TurnstilesFrame
<1>14. ExitsRight'
  <2>1. SUFFICES ASSUME NEW d \in KThreads, t_pc[d] \in {"waive", "wake"} PROVE ExitRight(d)'
    BY DEF ExitsRight, ExitRight
  <2>2. ExitRight(d) /\ obj[d] \in Objects
    BY <2>1 DEF TsInv, ExitsRight, PlacesRight, PlaceRight
  <2>3. \A x \in Active(obj[d]) : t_wchan[Head(ts_sleepq[x])] = obj[d]
    BY <2>2, ActiveIs
  <2>4. \A x \in Active(obj[d]) : Head(ts_sleepq[x]) # c
    BY <1>2, <2>2, <2>3, ConstantsAre
  <2>5. ASSUME NEW x \in Active(obj[d]), obj[d] \in Handoff, towake[d] = 1
        PROVE  owner'[obj[d]] = Head(ts_sleepq[x]) /\ (Len(ts_sleepq[x]) > 1 => m_waiters[obj[d]])
    <3>1. owner[obj[d]] = Head(ts_sleepq[x]) /\ (Len(ts_sleepq[x]) > 1 => m_waiters[obj[d]])
      BY <2>1, <2>2, <2>5 DEF ExitRight
    <3>2. obj[d] # o
      BY <2>4, <2>5, <3>1
    <3> QED  BY <1>4, <2>2, <3>1, <3>2
  <2> QED  BY <1>13, <2>2, <2>5 DEF ExitRight
<1>15. ASSUME NEW x \in KThreads PROVE WillRight(x)'
  <2>1. SUFFICES ASSUME ts_inheritor[x] # Null PROVE WillRight(x)'
    BY DEF WillRight
  <2>2. Live' = Live
    BY TurnstilesFrame
  <2>3. CASE ts_sobj[x] # o
    BY <1>4, <2>1, <2>2, <2>3, InheritorIs DEF WillRight
  <2>4. CASE ts_sobj[x] = o
    <3>1. x \in Active(o)
      BY <2>1, <2>4, InheritorIs
    <3>2. PICK t \in KThreads : t_wchan[t] = o /\ Sleeps(t)
      BY <1>3, <3>1, ActiveIs
    <3>3. PICK d \in KThreads : Waking(d, o)
      BY <1>11, <3>2 DEF Releasing
    <3>4. d # c
      BY <3>3 DEF Waking
    <3>5. ts_inheritor[x] = d /\ t_pc[d] = "waive" /\ obj[d] = o
      BY <2>1, <3>1, <3>3 DEF TsInv, ExitsRight, ExitRight, Waking
    <3> QED  BY <2>1, <2>2, <2>4, <3>5, InheritorIs DEF WillRight
  <2> QED  BY <2>3, <2>4
<1>16. ASSUME NEW t \in KThreads, Sleeps(t), owner'[t_wchan[t]] # owner[t_wchan[t]]
       PROVE  Releasing(t_wchan[t])
  BY <1>4, <1>10, <1>11, <1>16
<1>17. \A p : Waking(c, p)' <=> Waking(c, p)
  BY DEF Waking
<1>18. \A p \in Objects : owner'[p] # owner[p] => owner[p] = c /\ ~m_waiters[p]
  BY <1>4
<1> QED  BY <1>1, <1>2, <1>4, <1>5, <1>6, <1>7, <1>8, <1>12, <1>14, <1>15, <1>16, <1>17, <1>18, TypesAre, PlainFrame

LEMMA ExitWaited ==
  ASSUME TsInv, NEW c \in KThreads, t_pc[c] = "run", step[c] < Len(Script[c]),
         NEW o, o = Script[c][step[c] + 1], owner[o] = c,
         obj' = [obj EXCEPT ![c] = o], TsGoto(c, "exit"), step' = [step EXCEPT ![c] = @ + 1],
         UNCHANGED <<owner, m_waiters, turnstiles, inherits, locks, at, olp, inverted, towake>>
  PROVE  TsInv'
<1> USE DEF turnstiles, inherits, locks
<1>1. t_pc[c] \in Outside
  BY DEF Outside
<1>2. /\ ~Sleeps(c) /\ t_wchan[c] = Null /\ t_lockp[c] = RunLock[c] /\ t_pc[c] \notin Following /\ step[c] \in Nat
      /\ \A p \in Objects : owner[p] = c <=> p \in Taken(c, step[c])
  BY <1>1, AwakeIs
<1>3. o \in Objects /\ Taken(c, step[c] + 1) = Taken(c, step[c]) \ {o}
  BY <1>2, TakenNext
<1>4. /\ obj' \in [KThreads -> Objects \cup {Null}] /\ obj'[c] = o /\ \A d \in KThreads \ {c} : obj'[d] = obj[d]
      /\ step' \in [KThreads -> Nat] /\ step'[c] = step[c] + 1 /\ \A d \in KThreads \ {c} : step'[d] = step[d]
  BY <1>2, <1>3, TypesAre
<1>5. t_pc' = [t_pc EXCEPT ![c] = "exit"] /\ t_pc'[c] = "exit"
  BY TypesAre DEF TsGoto
<1>6. PlaceRight(c)'
  <2>1. Len(Script[c]) \in Nat
    BY ConstantsAre
  <2> QED  BY <1>2, <1>3, <1>4, <1>5, <2>1 DEF PlaceRight, Sleeps, Blocking, Following
<1>7. OwnsRight(c)'
  BY <1>2, <1>3, <1>4, <1>5 DEF OwnsRight, Taken
<1>8. SpinRight(c)'
  BY <1>5 DEF SpinRight, Walking
<1> QED  BY <1>2, <1>4, <1>5, <1>6, <1>7, <1>8, TypesAre, SameOwners

LEMMA ExitKeeps ==
  ASSUME TsInv, NEW c \in KThreads, mutex_exit(c)
  PROVE  TsInv'
<1> DEFINE o == Script[c][step[c] + 1]
<1>1. /\ t_pc[c] = "run" /\ step[c] < Len(Script[c]) /\ owner[o] = c /\ step' = [step EXCEPT ![c] = @ + 1]
      /\ UNCHANGED <<m_waiters, turnstiles, inherits, locks, at, olp, inverted, towake>>
  BY DEF mutex_exit
<1>2. CASE m_waiters[o]
  <2>1. obj' = [obj EXCEPT ![c] = o] /\ TsGoto(c, "exit") /\ UNCHANGED owner
    BY <1>2 DEF mutex_exit
  <2> HIDE DEF o
  <2> QED  BY <1>1, <1>2, <2>1, ExitWaited DEF o
<1>3. CASE ~m_waiters[o]
  <2>1. owner' = [owner EXCEPT ![o] = Null] /\ UNCHANGED <<obj, t_pc>>
    BY <1>3 DEF mutex_exit
  <2> HIDE DEF o
  <2> QED  BY <1>1, <1>3, <2>1, ExitFree DEF o
<1> QED  BY <1>2, <1>3

\* The owner of an object gives it up under the lock of the chain: nobody
\* else is at the object with the lock.
LEMMA GiveUp ==
  ASSUME TsInv, NEW c \in KThreads, t_pc[c] = "exit", NEW o, o = obj[c], Free(Chain[o])
  PROVE  /\ o \in Objects /\ owner[o] = c /\ ~Sleeps(c) /\ t_wchan[c] = Null /\ t_lockp[c] = RunLock[c]
         /\ t_pc[c] \notin Following /\ step[c] <= Len(Script[c]) /\ o \notin Taken(c, step[c])
         /\ \A p \in Objects \ {o} : owner[p] = c <=> p \in Taken(c, step[c])
         /\ \A d \in KThreads : t_pc[d] \in {"block", "waive", "wake"} => obj[d] \in Objects \ {o}
         /\ \A d \in KThreads \ {c} : OwnsRight(d) /\ o \notin Taken(d, step[d]) /\ (t_pc[d] = "exit" => obj[d] \in Objects \ {o})
         /\ ~Releasing(o)
<1>1. t_pc[c] \in Outside
  BY DEF Outside
<1>2. o \in Objects /\ owner[o] = c /\ o \notin Taken(c, step[c])
  BY DEF TsInv, PlacesRight, PlaceRight, OwnersRight, OwnsRight
<1>3. ~Sleeps(c) /\ t_wchan[c] = Null /\ t_lockp[c] = RunLock[c] /\ t_pc[c] \notin Following /\ step[c] <= Len(Script[c])
  BY <1>1, AwakeIs
<1>4. \A p \in Objects \ {o} : owner[p] = c <=> p \in Taken(c, step[c])
  BY DEF TsInv, OwnersRight, OwnsRight
<1>5. ASSUME NEW d \in KThreads, t_pc[d] \in {"block", "waive", "wake"} PROVE obj[d] \in Objects \ {o}
  <2>1. obj[d] \in Objects /\ held[Chain[obj[d]]] = d
    BY <1>5 DEF TsInv, PlacesRight, PlaceRight, SpinsRight, SpinRight
  <2> QED  BY <2>1, ConstantsAre DEF Free
<1>6. ASSUME NEW d \in KThreads \ {c}
      PROVE  OwnsRight(d) /\ o \notin Taken(d, step[d]) /\ (t_pc[d] = "exit" => obj[d] \in Objects \ {o})
  <2>1. OwnsRight(d)
    BY DEF TsInv, OwnersRight
  <2>2. o \notin Taken(d, step[d])
    BY <1>2, <2>1 DEF OwnsRight
  <2>3. t_pc[d] = "exit" => obj[d] \in Objects /\ owner[obj[d]] = d
    BY <2>1 DEF TsInv, PlacesRight, PlaceRight, OwnsRight
  <2> QED  BY <1>2, <2>1, <2>2, <2>3
<1>7. ~Releasing(o)
  BY <1>2, FreeGuards
<1> QED  BY <1>2, <1>3, <1>4, <1>5, <1>6, <1>7

LEMMA ExitNobody ==
  ASSUME TsInv, NEW c \in KThreads, t_pc[c] = "exit", NEW o, o = obj[c], Free(Chain[o]), Active(o) = {},
         owner' = [owner EXCEPT ![o] = Null], m_waiters' = [m_waiters EXCEPT ![o] = FALSE], TsGoto(c, "run"),
         UNCHANGED <<held, towake, turnstiles, inherits, t_lockp, obj, at, olp, inverted, step>>
  PROVE  TsInv'
<1> USE DEF turnstiles, inherits
<1>1. /\ o \in Objects /\ owner[o] = c /\ ~Sleeps(c) /\ t_wchan[c] = Null /\ t_lockp[c] = RunLock[c]
      /\ t_pc[c] \notin Following /\ step[c] <= Len(Script[c]) /\ o \notin Taken(c, step[c])
      /\ \A p \in Objects \ {o} : owner[p] = c <=> p \in Taken(c, step[c])
      /\ \A d \in KThreads : t_pc[d] \in {"block", "waive", "wake"} => obj[d] \in Objects \ {o}
      /\ \A d \in KThreads \ {c} : OwnsRight(d) /\ o \notin Taken(d, step[d]) /\ (t_pc[d] = "exit" => obj[d] \in Objects \ {o})
  BY GiveUp
<1>2. /\ owner' \in [Objects -> KThreads \cup {Null}] /\ owner'[o] = Null /\ \A p \in Objects \ {o} : owner'[p] = owner[p]
      /\ m_waiters' \in [Objects -> BOOLEAN] /\ \A p \in Objects \ {o} : m_waiters'[p] = m_waiters[p]
  BY <1>1, TypesAre
<1>3. t_pc' = [t_pc EXCEPT ![c] = "run"] /\ t_pc'[c] = "run" /\ "run" \in Outside
      /\ \A d \in KThreads \ {c} : t_pc'[d] = t_pc[d]
  BY TypesAre DEF TsGoto, Outside
<1>4. ASSUME NEW t \in KThreads, Sleeps(t) PROVE t_wchan[t] \in Objects \ {o}
  BY <1>4, SleeperIs
<1>5. \A d \in KThreads : \A p : Waking(d, p)' <=> Waking(d, p)
  BY <1>3 DEF Waking
<1>6. PlaceRight(c)'
  BY <1>1, <1>3 DEF PlaceRight, Sleeps, Blocking, Following
<1>7. OwnersRight'
  <2>1. SUFFICES ASSUME NEW d \in KThreads PROVE OwnsRight(d)'
    BY DEF OwnersRight
  <2>2. Taken(d, step[d]) \subseteq Objects
    BY DEF Taken
  <2>3. CASE d = c
    BY <1>1, <1>2, <1>3, <2>2, <2>3, ConstantsAre DEF OwnsRight
  <2>4. CASE d # c
    BY <1>1, <1>2, <1>3, <2>2, <2>4, ConstantsAre DEF OwnsRight
  <2> QED  BY <2>3, <2>4
<1>8. SpinRight(c)'
  BY <1>3 DEF SpinRight, Walking
<1>9. WaitedFor'
  <2>1. ASSUME NEW t \in KThreads, Sleeps(t)'
        PROVE  \/ Releasing(t_wchan[t])'
               \/ owner'[t_wchan[t]] # Null /\ m_waiters'[t_wchan[t]] /\ t_wchan[owner'[t_wchan[t]]] # t_wchan[t]
    <3>1. Sleeps(t)
      BY <2>1 DEF Sleeps
    <3>2. CASE Releasing(t_wchan[t])
      BY <1>5, <3>2 DEF Releasing, Waking
    <3>3. CASE ~Releasing(t_wchan[t])
      BY <1>2, <1>4, <3>1, <3>3 DEF TsInv, WaitedFor
    <3> QED  BY <3>2, <3>3
  <2>2. ASSUME NEW d \in KThreads, t_pc'[d] = "block"
        PROVE  owner'[obj[d]] # Null /\ m_waiters'[obj[d]] /\ owner'[obj[d]] # d
    <3>1. t_pc[d] = "block"
      BY <1>3, <2>2
    <3>2. obj[d] \in Objects \ {o} /\ owner[obj[d]] # Null /\ m_waiters[obj[d]] /\ owner[obj[d]] # d
      BY <1>1, <3>1 DEF TsInv, WaitedFor
    <3> QED  BY <1>2, <3>2
  <2> QED  BY <2>1, <2>2 DEF WaitedFor, Releasing, Waking
<1>10. \A p : Active(p)' = Active(p)
  BY TurnstilesFrame
<1>11. ExitsRight'
  <2>1. SUFFICES ASSUME NEW d \in KThreads, t_pc'[d] \in {"waive", "wake"} PROVE ExitRight(d)'
    BY DEF ExitsRight, ExitRight
  <2>2. d # c /\ t_pc'[d] = t_pc[d]
    BY <1>3, <2>1
  <2>3. ExitRight(d) /\ obj[d] \in Objects \ {o}
    BY <1>1, <2>1, <2>2 DEF TsInv, ExitsRight
  <2> QED  BY <1>2, <1>10, <2>2, <2>3 DEF ExitRight
<1>12. ASSUME NEW x \in KThreads PROVE WillRight(x)'
  <2>1. SUFFICES ASSUME ts_inheritor[x] # Null PROVE WillRight(x)'
    BY DEF WillRight
  <2>2. Live' = Live
    BY TurnstilesFrame
  <2>3. ts_sobj[x] # o
    BY <2>1, InheritorIs
  <2> QED  BY <1>2, <1>3, <2>1, <2>2, <2>3, InheritorIs DEF WillRight
<1>13. ASSUME NEW t \in KThreads, Sleeps(t) PROVE owner'[t_wchan[t]] = owner[t_wchan[t]]
  BY <1>2, <1>4, <1>13
<1>14. \A p \in Objects : owner'[p] # owner[p] => owner[p] = c /\ held[Chain[p]] \in {c, Null}
  BY <1>1, <1>2 DEF Free
<1>15. /\ t_pc[c] \notin Following /\ ~Sleeps(c) /\ owner' \in [Objects -> KThreads \cup {Null}]
       /\ m_waiters' \in [Objects -> BOOLEAN] /\ held' \in [Locks -> KThreads \cup {Null}]
       /\ obj' \in [KThreads -> Objects \cup {Null}] /\ towake' \in [KThreads -> Nat] /\ step' \in [KThreads -> Nat]
  BY <1>1, <1>2, TypesAre
<1>16. \A d \in KThreads \ {c} : /\ obj'[d] = obj[d] /\ towake'[d] = towake[d] /\ step'[d] = step[d]
                                 /\ \A m \in Locks : held[m] = d => held'[m] = d
  OBVIOUS
<1>17. \A t \in KThreads : Sleeps(t) /\ owner'[t_wchan[t]] # owner[t_wchan[t]] =>
           Releasing(t_wchan[t]) \/ Releasing(t_wchan[t])'
  BY <1>13
<1>18. \A p \in Objects : owner'[p] # owner[p] =>
           \/ owner[p] = Null
           \/ owner[p] = c /\ (~m_waiters[p] \/ held[Chain[p]] \in {c, Null})
  BY <1>14
<1> QED  BY <1>3, <1>5, <1>6, <1>7, <1>8, <1>9, <1>11, <1>12, <1>15, <1>16, <1>17, <1>18, PlainFrame

LEMMA ExitSomebody ==
  ASSUME TsInv, NEW c \in KThreads, t_pc[c] = "exit", NEW o, o = obj[c], Free(Chain[o]),
         NEW ts \in Active(o), NEW q, q = ts_sleepq[ts],
         held' = [held EXCEPT ![Chain[o]] = c],
         owner' = [owner EXCEPT ![o] = IF o \in Handoff THEN Head(q) ELSE Null],
         m_waiters' = [m_waiters EXCEPT ![o] = o \in Handoff /\ Len(q) > 1],
         towake' = [towake EXCEPT ![c] = IF o \in Handoff THEN 1 ELSE Len(q)],
         TsGoto(c, IF ts_inheritor[ts] # Null THEN "waive" ELSE "wake"),
         UNCHANGED <<turnstiles, inherits, t_lockp, obj, at, olp, inverted, step>>
  PROVE  TsInv'
<1> USE DEF turnstiles, inherits
<1>1. /\ o \in Objects /\ owner[o] = c /\ ~Sleeps(c) /\ t_wchan[c] = Null /\ t_lockp[c] = RunLock[c]
      /\ t_pc[c] \notin Following /\ step[c] <= Len(Script[c]) /\ o \notin Taken(c, step[c])
      /\ \A p \in Objects \ {o} : owner[p] = c <=> p \in Taken(c, step[c])
      /\ \A d \in KThreads : t_pc[d] \in {"block", "waive", "wake"} => obj[d] \in Objects \ {o}
      /\ \A d \in KThreads \ {c} : OwnsRight(d) /\ o \notin Taken(d, step[d]) /\ (t_pc[d] = "exit" => obj[d] \in Objects \ {o})
      /\ ~Releasing(o)
  BY GiveUp
<1>2. /\ ts \in KThreads /\ ts_sobj[ts] = o /\ Active(o) = {ts} /\ ts \in Live
      /\ Len(q) \in Nat /\ Len(q) > 0 /\ Head(q) \in KThreads /\ t_wchan[Head(q)] = o
  BY <1>1, ActiveIs
<1> DEFINE h == Head(q)
           l == IF ts_inheritor[ts] # Null THEN "waive" ELSE "wake"
<1>3. Sleeps(h) /\ h # c /\ t_pc[h] \in Blocking /\ obj[h] = o /\ h \in KThreads /\ h # Null
  BY <1>1, <1>2, SleeperIs, ConstantsAre DEF Sleeps
<1> HIDE DEF h, l
<1>4. /\ owner' \in [Objects -> KThreads \cup {Null}] /\ owner'[o] = (IF o \in Handoff THEN h ELSE Null)
      /\ \A p \in Objects \ {o} : owner'[p] = owner[p]
  BY <1>1, <1>3, TypesAre DEF h
<1>5. /\ m_waiters' \in [Objects -> BOOLEAN] /\ \A p \in Objects \ {o} : m_waiters'[p] = m_waiters[p]
      /\ (m_waiters'[o] <=> o \in Handoff /\ Len(q) > 1)
  BY <1>1, <1>2, TypesAre
<1>6. towake' \in [KThreads -> Nat] /\ towake'[c] = (IF o \in Handoff THEN 1 ELSE Len(q)) /\ towake'[c] > 0
      /\ \A d \in KThreads \ {c} : towake'[d] = towake[d]
  BY <1>1, <1>2, TypesAre
<1>7. /\ held' \in [Locks -> KThreads \cup {Null}] /\ held'[Chain[o]] = c
      /\ \A d \in KThreads \ {c} : \A m \in Locks : held[m] = d => held'[m] = d
  BY <1>1, TypesAre, ConstantsAre DEF Free
<1>8. t_pc' = [t_pc EXCEPT ![c] = l] /\ t_pc'[c] = l /\ l \in Outside /\ l \in {"waive", "wake"}
      /\ \A d \in KThreads \ {c} : t_pc'[d] = t_pc[d]
  BY TypesAre DEF TsGoto, Outside, l
<1>9. \A d \in KThreads \ {c} : \A p : Waking(d, p)' <=> Waking(d, p)
  BY <1>6, <1>8 DEF Waking
<1>10. \A p : (Waking(c, p)' <=> p = o) /\ ~Waking(c, p)
  BY <1>6, <1>8 DEF Waking
<1>11. Releasing(o)' /\ \A p : Releasing(p) => Releasing(p)'
  BY <1>9, <1>10 DEF Releasing
<1>12. PlaceRight(c)'
  BY <1>1, <1>8 DEF PlaceRight, Sleeps, Blocking, Following
<1>13. OwnersRight'
  <2>1. SUFFICES ASSUME NEW d \in KThreads PROVE OwnsRight(d)'
    BY DEF OwnersRight
  <2>2. Taken(d, step[d]) \subseteq Objects
    BY DEF Taken
  <2>3. CASE d = c
    <3>1. owner'[o] # c
      BY <1>3, <1>4, ConstantsAre
    <3>2. \A p \in Taken(c, step[c]) : owner'[p] = c
      BY <1>1, <1>4, <2>2, <2>3
    <3>3. \A p \in Objects : owner'[p] = c => p \in Taken(c, step[c])
      BY <1>1, <1>4, <3>1
    <3> QED  BY <1>8, <2>3, <3>2, <3>3 DEF OwnsRight
  <2>4. CASE d # c
    <3>1. OwnsRight(d) /\ o \notin Taken(d, step[d]) /\ (t_pc[d] = "exit" => obj[d] \in Objects \ {o})
      BY <1>1, <2>4
    <3>2. \A p \in Taken(d, step[d]) : owner'[p] = d
      BY <1>4, <2>2, <3>1 DEF OwnsRight
    <3>3. ASSUME NEW p \in Objects, owner'[p] = d
          PROVE  \/ p \in Taken(d, step[d])
                 \/ p = obj[d] /\ (t_pc[d] = "exit" \/ (t_pc[d] \in Blocking /\ p \in Handoff))
      <4>1. CASE p = o
        BY <1>3, <1>4, <3>3, <4>1, ConstantsAre
      <4>2. CASE p # o
        BY <1>4, <3>1, <3>3, <4>2 DEF OwnsRight
      <4> QED  BY <4>1, <4>2
    <3>4. t_pc[d] = "exit" => owner'[obj[d]] = d
      BY <1>4, <3>1 DEF OwnsRight
    <3> QED  BY <1>8, <2>4, <3>2, <3>3, <3>4 DEF OwnsRight
  <2> QED  BY <2>3, <2>4
<1>14. SpinRight(c)'
  BY <1>7, <1>8 DEF SpinRight, Walking
<1>15. WaitedFor'
  <2>1. ASSUME NEW t \in KThreads, Sleeps(t)'
        PROVE  \/ Releasing(t_wchan[t])'
               \/ owner'[t_wchan[t]] # Null /\ m_waiters'[t_wchan[t]] /\ t_wchan[owner'[t_wchan[t]]] # t_wchan[t]
    <3>1. Sleeps(t)
      BY <2>1 DEF Sleeps
    <3>2. CASE Releasing(t_wchan[t])
      BY <1>11, <3>2 DEF Releasing, Waking
    <3>3. CASE t_wchan[t] = o
      BY <1>11, <3>3 DEF Releasing, Waking
    <3>4. CASE ~Releasing(t_wchan[t]) /\ t_wchan[t] # o
      <4>1. t_wchan[t] \in Objects
        BY <3>1, SleeperIs
      <4> QED  BY <1>4, <1>5, <3>1, <3>4, <4>1 DEF TsInv, WaitedFor
    <3> QED  BY <3>2, <3>3, <3>4
  <2>2. ASSUME NEW d \in KThreads, t_pc'[d] = "block"
        PROVE  owner'[obj[d]] # Null /\ m_waiters'[obj[d]] /\ owner'[obj[d]] # d
    <3>1. t_pc[d] = "block"
      BY <1>8, <2>2
    <3>2. obj[d] \in Objects \ {o} /\ owner[obj[d]] # Null /\ m_waiters[obj[d]] /\ owner[obj[d]] # d
      BY <1>1, <3>1 DEF TsInv, WaitedFor
    <3> QED  BY <1>4, <1>5, <3>2
  <2> QED  BY <2>1, <2>2 DEF WaitedFor, Releasing, Waking
<1>16. \A p : Active(p)' = Active(p)
  BY TurnstilesFrame
<1>17. ts_inheritor[ts] # Null => ts_inheritor[ts] = c
  <2>1. SUFFICES ASSUME ts_inheritor[ts] # Null PROVE ts_inheritor[ts] = c
    OBVIOUS
  <2> QED  BY <1>1, <1>2, <2>1, InheritorIs
<1>18. ExitsRight'
  <2>1. SUFFICES ASSUME NEW d \in KThreads, t_pc'[d] \in {"waive", "wake"} PROVE ExitRight(d)'
    BY DEF ExitsRight, ExitRight
  <2>2. CASE d # c
    <3>1. t_pc'[d] = t_pc[d]
      BY <1>8, <2>2
    <3>2. ExitRight(d) /\ obj[d] \in Objects \ {o}
      BY <1>1, <2>1, <3>1 DEF TsInv, ExitsRight
    <3> QED  BY <1>4, <1>5, <1>6, <1>16, <2>2, <3>1, <3>2 DEF ExitRight
  <2>3. CASE d = c
    <3>1. Active(obj[c])' = {ts}
      BY <1>2, <1>16
    <3>2. /\ o \notin Handoff => towake'[c] = Len(ts_sleepq[ts])
          /\ o \in Handoff => towake'[c] <= 1
      BY <1>6
    <3>3. o \in Handoff /\ towake'[c] = 1 =>
            owner'[o] = Head(ts_sleepq[ts]) /\ (Len(ts_sleepq[ts]) > 1 => m_waiters'[o])
      <4>1. o \in Handoff => owner'[o] = Head(ts_sleepq[ts])
        BY <1>4 DEF h
      <4>2. o \in Handoff /\ Len(q) > 1 => m_waiters'[o]
        BY <1>5
      <4> QED  BY <4>1, <4>2
    <3>4. ts_inheritor[ts] = IF l = "waive" THEN c ELSE Null
      <4>1. CASE ts_inheritor[ts] = Null
        BY <4>1 DEF l
      <4>2. CASE ts_inheritor[ts] # Null
        BY <1>17, <4>2 DEF l
      <4> QED  BY <4>1, <4>2
    <3> QED  BY <1>2, <1>6, <1>8, <2>3, <3>1, <3>2, <3>3, <3>4 DEF ExitRight
  <2> QED  BY <2>2, <2>3
<1>19. ASSUME NEW x \in KThreads PROVE WillRight(x)'
  <2>1. SUFFICES ASSUME ts_inheritor[x] # Null PROVE WillRight(x)'
    BY DEF WillRight
  <2>2. Live' = Live
    BY TurnstilesFrame
  <2>3. CASE ts_sobj[x] # o
    BY <1>4, <1>8, <2>1, <2>2, <2>3, InheritorIs DEF WillRight
  <2>4. CASE ts_sobj[x] = o
    <3>1. x = ts
      BY <1>2, <2>1, <2>4, InheritorIs
    <3>2. ts_inheritor[x] = c /\ t_pc'[c] = "waive" /\ obj[c] = ts_sobj[x]
      BY <1>8, <1>17, <2>1, <2>4, <3>1 DEF l
    <3> QED  BY <2>1, <2>2, <3>2, InheritorIs DEF WillRight
  <2> QED  BY <2>3, <2>4
<1>20. ASSUME NEW t \in KThreads, Sleeps(t), owner'[t_wchan[t]] # owner[t_wchan[t]]
       PROVE  Releasing(t_wchan[t])'
  <2>1. t_wchan[t] = o
    BY <1>4, <1>20, SleeperIs
  <2> QED  BY <1>11, <2>1 DEF Releasing, Waking
<1>21. \A p \in Objects : owner'[p] # owner[p] => owner[p] = c /\ held[Chain[p]] \in {c, Null}
  BY <1>1, <1>4 DEF Free
<1>22. /\ t_pc[c] \notin Following /\ ~Sleeps(c)
       /\ obj' \in [KThreads -> Objects \cup {Null}] /\ step' \in [KThreads -> Nat]
  BY <1>1, TypesAre
<1>23. \A d \in KThreads \ {c} : /\ obj'[d] = obj[d] /\ towake'[d] = towake[d] /\ step'[d] = step[d]
                                 /\ \A m \in Locks : held[m] = d => held'[m] = d
  BY <1>6, <1>7
<1>24. \A t \in KThreads : Sleeps(t) /\ owner'[t_wchan[t]] # owner[t_wchan[t]] =>
           Releasing(t_wchan[t]) \/ Releasing(t_wchan[t])'
  BY <1>20
<1>25. \A p \in Objects : owner'[p] # owner[p] =>
           \/ owner[p] = Null
           \/ owner[p] = c /\ (~m_waiters[p] \/ held[Chain[p]] \in {c, Null})
  BY <1>21
<1>26. \A p \in Objects : (Waking(c, p)' => Waking(c, p) \/ owner[p] = c) /\ (Waking(c, p) => Waking(c, p)')
  BY <1>1, <1>10
<1>27. /\ owner' \in [Objects -> KThreads \cup {Null}] /\ m_waiters' \in [Objects -> BOOLEAN]
       /\ held' \in [Locks -> KThreads \cup {Null}] /\ towake' \in [KThreads -> Nat]
       /\ t_pc' = [t_pc EXCEPT ![c] = l] /\ l \in Outside
  BY <1>4, <1>5, <1>6, <1>7, <1>8
<1> QED  BY <1>12, <1>13, <1>14, <1>15, <1>18, <1>19, <1>22, <1>23, <1>24, <1>25, <1>26, <1>27, PlainFrame

LEMMA ExitLookupKeeps ==
  ASSUME TsInv, NEW c \in KThreads, exit_lookup(c)
  PROVE  TsInv'
<1> DEFINE o == obj[c]
<1>1. /\ t_pc[c] = "exit" /\ Free(Chain[o])
      /\ UNCHANGED <<turnstiles, inherits, t_lockp, obj, at, olp, inverted, step>>
  BY DEF exit_lookup
<1>2. CASE Active(o) = {}
  <2>1. /\ owner' = [owner EXCEPT ![o] = Null] /\ m_waiters' = [m_waiters EXCEPT ![o] = FALSE]
        /\ TsGoto(c, "run") /\ UNCHANGED <<held, towake>>
    BY <1>2 DEF exit_lookup
  <2> HIDE DEF o
  <2> QED  BY <1>1, <1>2, <2>1, ExitNobody DEF o
<1>3. CASE Active(o) # {}
  <2> DEFINE ts == Turnstile(o)
             q == ts_sleepq[ts]
  <2>1. /\ held' = [held EXCEPT ![Chain[o]] = c]
        /\ owner' = [owner EXCEPT ![o] = IF o \in Handoff THEN Head(q) ELSE Null]
        /\ m_waiters' = [m_waiters EXCEPT ![o] = o \in Handoff /\ Len(q) > 1]
        /\ towake' = [towake EXCEPT ![c] = IF o \in Handoff THEN 1 ELSE Len(q)]
        /\ TsGoto(c, IF ts_inheritor[ts] # Null THEN "waive" ELSE "wake")
    BY <1>3 DEF exit_lookup
  <2>2. ts \in Active(o)
    BY <1>3 DEF Turnstile
  <2> HIDE DEF o, ts, q
  <2> QED  BY <1>1, <2>1, <2>2, ExitSomebody DEF o, q
<1> QED  BY <1>2, <1>3

-----------------------------------------------------------------------------
(* Going to sleep                                                          *)

LEMMA LiveIs ==
  ASSUME TsInv, NEW x \in Live
  PROVE  x \in KThreads /\ ts_sobj[x] \in Objects /\ x \in Active(ts_sobj[x]) /\ x \in tc_first[Chain[ts_sobj[x]]]
<1>1. PICK k \in Chains : x \in tc_first[k]
  BY DEF Live
<1>2. ts_sobj[x] \in Objects /\ Chain[ts_sobj[x]] = k /\ x \in KThreads
  BY <1>1 DEF TsInv, TurnstilesPlaced, TurnstileTypeOK
<1> QED  BY <1>1, <1>2 DEF Active

LEMMA PrioIs ==
  ASSUME TsInv
  PROVE  Prio(t_epri) \in [KThreads -> Int] /\ \A t \in KThreads : Prio(t_epri)[t] = DISP_PRIO(t, t_epri)
BY PriorityIs DEF Prio

LEMMA InsertLen ==
  ASSUME NEW T, NEW q \in Seq(T), NEW prio, NEW t \in T
  PROVE  Len(Insert(q, prio, t)) = Len(q) + 1
BY PassedIs, SpliceQueue DEF Insert

LEMMA ConsQueue ==
  ASSUME NEW T, NEW q \in Seq(T), NEW t \in T
  PROVE  /\ <<t>> \o q \in Seq(T) /\ Len(<<t>> \o q) = Len(q) + 1
         /\ Elems(<<t>> \o q) = Elems(q) \cup {t}
         /\ Distinct(q) /\ t \notin Elems(q) => Distinct(<<t>> \o q)
<1> DEFINE r == <<t>> \o q
<1>1. /\ r \in Seq(T) /\ Len(r) = Len(q) + 1 /\ r[1] = t /\ Len(q) \in Nat
      /\ \A i \in 1 .. Len(q) : r[i + 1] = q[i] /\ i + 1 \in 1 .. Len(r)
      /\ \A i \in 2 .. Len(r) : r[i] = q[i - 1] /\ i - 1 \in 1 .. Len(q)
  OBVIOUS
<1> HIDE DEF r
<1>2. Elems(r) = Elems(q) \cup {t}
  <2>1. Elems(r) \subseteq Elems(q) \cup {t}
    <3>1. ASSUME NEW i \in 1 .. Len(r) PROVE r[i] \in Elems(q) \cup {t}
      <4>1. CASE i = 1
        BY <1>1, <4>1
      <4>2. CASE i # 1
        <5>1. i \in 2 .. Len(r)
          BY <1>1, <4>2
        <5> QED  BY <1>1, <5>1 DEF Elems
      <4> QED  BY <4>1, <4>2
    <3> QED  BY <3>1 DEF Elems
  <2>2. t \in Elems(r)
    BY <1>1 DEF Elems
  <2>3. Elems(q) \subseteq Elems(r)
    BY <1>1 DEF Elems
  <2> QED  BY <2>1, <2>2, <2>3
<1>3. ASSUME Distinct(q), t \notin Elems(q) PROVE Distinct(r)
  <2>1. ASSUME NEW i \in 1 .. Len(r), NEW j \in 1 .. Len(r), i # j PROVE r[i] # r[j]
    <3>1. CASE i = 1
      <4>1. j \in 2 .. Len(r)
        BY <1>1, <2>1, <3>1
      <4> QED  BY <1>1, <1>3, <3>1, <4>1 DEF Elems
    <3>2. CASE j = 1
      <4>1. i \in 2 .. Len(r)
        BY <1>1, <2>1, <3>2
      <4> QED  BY <1>1, <1>3, <3>2, <4>1 DEF Elems
    <3>3. CASE i # 1 /\ j # 1
      <4>1. i \in 2 .. Len(r) /\ j \in 2 .. Len(r)
        BY <1>1, <3>3
      <4>2. r[i] = q[i - 1] /\ i - 1 \in 1 .. Len(q) /\ r[j] = q[j - 1] /\ j - 1 \in 1 .. Len(q) /\ i - 1 # j - 1
        BY <1>1, <2>1, <4>1
      <4> QED  BY <1>3, <4>2 DEF Distinct
    <3> QED  BY <3>1, <3>2, <3>3
  <2> QED  BY <2>1 DEF Distinct
<1> QED  BY <1>1, <1>2, <1>3 DEF r

\* What turnstile_block() does with turnstile ts.
Joins(c, ts) ==
  LET o == obj[c] IN
  /\ obj' = obj /\ ts \in KThreads /\ Active(o)' = {ts} /\ Live' = Live \cup {ts} /\ ts_sobj'[ts] = o
  /\ \A x \in Live : ts_sobj'[x] = ts_sobj[x] /\ (x # ts => ts_sobj[x] # o)
  /\ \A p \in Objects \ {o} : Active(p)' = Active(p) /\ ts \notin Active(p)
  /\ \A x \in KThreads \ {ts} : ts_sleepq'[x] = ts_sleepq[x] /\ ts_free'[x] = ts_free[x]
  /\ \A t \in KThreads \ {c} : ~Sleeps(t) => t_ts[t] # ts
  /\ t_ts' \in [KThreads -> KThreads] /\ t_ts'[c] = ts /\ \A t \in KThreads \ {c} : t_ts'[t] = t_ts[t]
  /\ t_wchan' \in [KThreads -> Objects \cup {Null}] /\ t_wchan'[c] = o
  /\ \A t \in KThreads \ {c} : t_wchan'[t] = t_wchan[t]
  /\ tc_first' \in [Chains -> SUBSET KThreads] /\ ts_sobj' \in [KThreads -> Objects \cup {Null}]
  /\ \A k \in Chains : \A x \in tc_first'[k] : x \in tc_first[k] \/ (x = ts /\ k = Chain[o])
  /\ ts_sleepq' \in [KThreads -> Seq(KThreads)] /\ ts_free' \in [KThreads -> Seq(KThreads)]
  /\ Elems(ts_sleepq'[ts]) = {t \in KThreads : t_wchan'[t] = o} /\ Distinct(ts_sleepq'[ts])
  /\ Sorted(ts_sleepq'[ts], Prio(t_epri)) /\ Len(ts_sleepq'[ts]) = Len(ts_free'[ts]) + 1
  /\ Distinct(ts_free'[ts]) /\ Elems(ts_free'[ts]) \subseteq Elems(ts_free[ts]) \cup {t_ts[c]}
  /\ ts # t_ts[c] => ts \in Live
  /\ ts = t_ts[c] => Elems(ts_free'[ts]) = {}

\* A thread about to block.
LEMMA BlockerIs ==
  ASSUME TsInv, NEW c \in KThreads, t_pc[c] = "block"
  PROVE  LET o == obj[c] IN
         /\ o \in Objects /\ held[Chain[o]] = c /\ ~Releasing(o) /\ o \notin Taken(c, step[c])
         /\ owner[o] \in KThreads \ {c} /\ m_waiters[o] /\ t_wchan[owner[o]] # o
         /\ step[c] < Len(Script[c]) /\ obj[c] = Script[c][step[c] + 1] /\ step[c] <= Len(Script[c])
         /\ ~Sleeps(c) /\ t_wchan[c] = Null /\ t_lockp[c] = RunLock[c] /\ t_ts[c] \notin Live
<1>1. t_pc[c] \in Outside
  BY DEF Outside
<1>2. /\ obj[c] \in Objects /\ step[c] < Len(Script[c]) /\ obj[c] = Script[c][step[c] + 1] /\ step[c] <= Len(Script[c])
      /\ obj[c] \notin Taken(c, step[c])
  BY DEF TsInv, PlacesRight, PlaceRight
<1>3. held[Chain[obj[c]]] = c
  BY DEF TsInv, SpinsRight, SpinRight
<1>4. owner[obj[c]] # Null /\ m_waiters[obj[c]] /\ owner[obj[c]] # c
  BY DEF TsInv, WaitedFor
<1>5. /\ ~Releasing(obj[c])
      /\ \A t \in KThreads : t_wchan[t] = obj[c] => t_wchan[owner[obj[c]]] # obj[c]
  BY <1>2, <1>3, ChainGuards
<1>6. owner[obj[c]] \in KThreads
  BY <1>2, <1>4, TypesAre
<1>7. ~Sleeps(c) /\ t_wchan[c] = Null /\ t_lockp[c] = RunLock[c]
  BY <1>1, AwakeIs
<1>8. t_ts[c] \notin Live
  BY <1>7 DEF TsInv, TurnstilesPlaced
<1> QED  BY <1>2, <1>3, <1>4, <1>5, <1>6, <1>7, <1>8

\* The first to sleep donates its turnstile.
LEMMA JoinsFirst ==
  ASSUME TsInv, NEW c \in KThreads, turnstile_block(c), Active(obj[c]) = {}
  PROVE  Joins(c, t_ts[c])
<1> DEFINE o == obj[c]
           ts == t_ts[c]
<1>1. /\ o \in Objects /\ ~Sleeps(c) /\ t_wchan[c] = Null /\ ts \notin Live /\ ts \in KThreads
  BY BlockerIs DEF turnstile_block, TsInv, TurnstileTypeOK
<1>2. /\ ts_sobj' = [ts_sobj EXCEPT ![ts] = o]
      /\ tc_first' = [tc_first EXCEPT ![Chain[o]] = @ \cup {ts}]
      /\ ts_free' = ts_free
      /\ t_ts' = [t_ts EXCEPT ![c] = ts]
      /\ ts_sleepq' = [ts_sleepq EXCEPT ![ts] = Insert(@, Prio(t_epri), c)]
      /\ t_wchan' = [t_wchan EXCEPT ![c] = o]
      /\ obj' = obj
  BY DEF turnstile_block
<1>a. o' = o
  BY <1>2
<1> HIDE DEF o, ts
<1>3. ts_sleepq[ts] = <<>> /\ ts_free[ts] = <<>>
  BY <1>1 DEF TsInv, QueuesRight
<1>4. \A t \in KThreads : t_wchan[t] # o
  <2>1. SUFFICES ASSUME NEW t \in KThreads, t_wchan[t] = o PROVE FALSE
    OBVIOUS
  <2>2. Sleeps(t)
    BY <1>1, <2>1, ConstantsAre DEF Sleeps
  <2> QED  BY <2>1, <2>2, SleeperIs DEF o
<1>5. /\ tc_first \in [Chains -> SUBSET KThreads] /\ ts_sobj \in [KThreads -> Objects \cup {Null}]
      /\ ts_sleepq \in [KThreads -> Seq(KThreads)] /\ ts_free \in [KThreads -> Seq(KThreads)]
      /\ t_ts \in [KThreads -> KThreads] /\ t_wchan \in [KThreads -> Objects \cup {Null}]
  BY DEF TsInv, TurnstileTypeOK
<1>6. /\ tc_first' \in [Chains -> SUBSET KThreads] /\ tc_first'[Chain[o]] = tc_first[Chain[o]] \cup {ts}
      /\ \A k \in Chains : k # Chain[o] => tc_first'[k] = tc_first[k]
  BY <1>1, <1>2, <1>5, ConstantsAre
<1>7. /\ ts_sobj' \in [KThreads -> Objects \cup {Null}] /\ ts_sobj'[ts] = o
      /\ \A x \in KThreads \ {ts} : ts_sobj'[x] = ts_sobj[x]
  BY <1>1, <1>2, <1>5
<1>8. /\ t_ts' \in [KThreads -> KThreads] /\ t_ts'[c] = ts /\ \A t \in KThreads \ {c} : t_ts'[t] = t_ts[t]
  BY <1>1, <1>2, <1>5
<1>9. /\ t_wchan' \in [KThreads -> Objects \cup {Null}] /\ t_wchan'[c] = o
      /\ \A t \in KThreads \ {c} : t_wchan'[t] = t_wchan[t]
  BY <1>1, <1>2, <1>5
<1>10. Live' = Live \cup {ts}
  BY <1>1, <1>6, ConstantsAre DEF Live
<1>11. \A x \in Live : x \in KThreads \ {ts} /\ ts_sobj[x] # o
  BY <1>1, LiveIs DEF o
<1>12. Active(o)' = {ts}
  <2>1. \A x \in tc_first[Chain[o]] : x \in Live
    BY <1>1, ConstantsAre DEF Live
  <2> QED  BY <1>a, <1>6, <1>7, <1>11, <2>1 DEF Active
<1>13. ASSUME NEW p \in Objects \ {o} PROVE Active(p)' = Active(p) /\ ts \notin Active(p)
  <2>1. Chain[p] \in Chains /\ \A x \in tc_first[Chain[p]] : x \in Live
    BY ConstantsAre DEF Live
  <2>2. tc_first'[Chain[p]] \subseteq tc_first[Chain[p]] \cup {ts} /\ tc_first[Chain[p]] \subseteq tc_first'[Chain[p]]
    BY <1>6, <2>1
  <2> QED  BY <1>1, <1>7, <1>11, <2>1, <2>2 DEF Active
<1>14. \A t \in KThreads \ {c} : ~Sleeps(t) => t_ts[t] # ts
  BY <1>1 DEF ts, TsInv, TurnstilesPlaced
<1>15. <<>> \in Seq(KThreads) /\ c \notin Elems(<<>>) /\ Elems(<<>>) = {} /\ Distinct(<<>>) /\ Sorted(<<>>, Prio(t_epri))
  BY EmptyQueue
<1> DEFINE r == Insert(<<>>, Prio(t_epri), c)
<1>16. /\ r \in Seq(KThreads) /\ Distinct(r) /\ Elems(r) = {c} /\ Sorted(r, Prio(t_epri)) /\ Len(r) = 1
  <2>1. Prio(t_epri) \in [KThreads -> Int]
    BY PrioIs
  <2>a. PICK q \in Seq(KThreads) : q = <<>>
    BY <1>15
  <2>b. c \notin Elems(q) /\ Distinct(q) /\ Sorted(q, Prio(t_epri)) /\ r = Insert(q, Prio(t_epri), c)
    BY <1>15, <2>a
  <2> HIDE DEF r
  <2>2. /\ r \in Seq(KThreads) /\ Distinct(r) /\ Elems(r) = Elems(q) \cup {c} /\ Sorted(r, Prio(t_epri))
    BY <2>b, <2>1, InsertQueue
  <2>3. Len(r) = Len(<<>>) + 1
    BY <2>a, <2>b, InsertLen
  <2> QED  BY <1>15, <2>a, <2>2, <2>3
<1> HIDE DEF r
<1>17. /\ ts_sleepq'[ts] = r /\ ts_sleepq' \in [KThreads -> Seq(KThreads)]
       /\ \A x \in KThreads \ {ts} : ts_sleepq'[x] = ts_sleepq[x]
  BY <1>1, <1>2, <1>3, <1>5, <1>16 DEF r
<1>18. Elems(r) = {t \in KThreads : t_wchan'[t] = o}
  BY <1>4, <1>9, <1>16
<1>19. \A k \in Chains : \A x \in tc_first'[k] : x \in tc_first[k] \/ (x = ts /\ k = Chain[o])
  BY <1>6
<1>20. Len(r) = Len(ts_free'[ts]) + 1 /\ Distinct(ts_free'[ts]) /\ Elems(ts_free'[ts]) = {}
  BY <1>2, <1>3, <1>15, <1>16
<1> QED  BY <1>1, <1>2, <1>5, <1>6, <1>7, <1>8, <1>9, <1>10, <1>11, <1>12, <1>13, <1>14, <1>16, <1>17, <1>18, <1>19, <1>20
         DEF Joins, o, ts

\* The others sleep on the active one, and leave theirs there.
LEMMA JoinsOthers ==
  ASSUME TsInv, NEW c \in KThreads, turnstile_block(c), NEW ts \in Active(obj[c]), Turnstile(obj[c]) = ts
  PROVE  Joins(c, ts)
<1> DEFINE o == obj[c]
           s == t_ts[c]
<1>1. /\ o \in Objects /\ ~Sleeps(c) /\ t_wchan[c] = Null /\ s \notin Live /\ s \in KThreads
  BY BlockerIs DEF turnstile_block, TsInv, TurnstileTypeOK
<1>2. /\ ts_sobj' = [ts_sobj EXCEPT ![ts] = o]
      /\ tc_first' = [tc_first EXCEPT ![Chain[o]] = @ \cup {ts}]
      /\ ts_free' = [ts_free EXCEPT ![ts] = <<s>> \o @]
      /\ t_ts' = [t_ts EXCEPT ![c] = ts]
      /\ ts_sleepq' = [ts_sleepq EXCEPT ![ts] = Insert(@, Prio(t_epri), c)]
      /\ t_wchan' = [t_wchan EXCEPT ![c] = o]
      /\ obj' = obj
  BY DEF turnstile_block
<1>a. o' = o
  BY <1>2
<1>3. /\ ts \in KThreads /\ ts \in Live /\ ts_sobj[ts] = o /\ ts \in tc_first[Chain[o]] /\ Active(o) = {ts}
      /\ ts_sleepq[ts] \in Seq(KThreads) /\ Distinct(ts_sleepq[ts]) /\ Len(ts_sleepq[ts]) \in Nat
      /\ Elems(ts_sleepq[ts]) = {t \in KThreads : t_wchan[t] = o}
      /\ ts_free[ts] \in Seq(KThreads) /\ Len(ts_sleepq[ts]) = Len(ts_free[ts]) + 1
  BY <1>1, ActiveIs
<1> HIDE DEF o, s
<1>5. /\ tc_first \in [Chains -> SUBSET KThreads] /\ ts_sobj \in [KThreads -> Objects \cup {Null}]
      /\ ts_sleepq \in [KThreads -> Seq(KThreads)] /\ ts_free \in [KThreads -> Seq(KThreads)]
      /\ t_ts \in [KThreads -> KThreads] /\ t_wchan \in [KThreads -> Objects \cup {Null}]
  BY DEF TsInv, TurnstileTypeOK
<1>6. tc_first' = tc_first
  <2>1. tc_first[Chain[o]] \cup {ts} = tc_first[Chain[o]]
    BY <1>3
  <2> QED  BY <1>2, <1>5, <2>1
<1>7. ts_sobj' = ts_sobj
  BY <1>2, <1>3, <1>5
<1>8. /\ t_ts' \in [KThreads -> KThreads] /\ t_ts'[c] = ts /\ \A t \in KThreads \ {c} : t_ts'[t] = t_ts[t]
  BY <1>2, <1>3, <1>5
<1>9. /\ t_wchan' \in [KThreads -> Objects \cup {Null}] /\ t_wchan'[c] = o
      /\ \A t \in KThreads \ {c} : t_wchan'[t] = t_wchan[t]
  BY <1>1, <1>2, <1>5
<1>10. Live' = Live \cup {ts}
  BY <1>3, <1>6 DEF Live
<1>11. \A x \in Live : x # ts => ts_sobj[x] # o
  BY <1>3 DEF TsInv, TurnstilesPlaced
<1>12. Active(o)' = {ts}
  BY <1>a, <1>3, <1>6, <1>7 DEF Active
<1>13. \A p \in Objects \ {o} : Active(p)' = Active(p) /\ ts \notin Active(p)
  BY <1>3, <1>6, <1>7 DEF Active
<1>14. \A t \in KThreads \ {c} : ~Sleeps(t) => t_ts[t] # ts
  BY <1>3 DEF TsInv, TurnstilesPlaced
<1> DEFINE q == ts_sleepq[ts]
           r == Insert(q, Prio(t_epri), c)
<1>15. c \notin Elems(q) /\ Sorted(q, Prio(t_epri))
  BY <1>1, <1>3, ConstantsAre DEF TsInv, QueuesSorted
<1>16. /\ r \in Seq(KThreads) /\ Distinct(r) /\ Elems(r) = Elems(q) \cup {c} /\ Sorted(r, Prio(t_epri)) /\ Len(r) = Len(q) + 1
  <2>1. Prio(t_epri) \in [KThreads -> Int]
    BY PrioIs
  <2> HIDE DEF q, r
  <2>2. q \in Seq(KThreads) /\ Distinct(q)
    BY <1>3 DEF q
  <2>3. /\ r \in Seq(KThreads) /\ Distinct(r) /\ Elems(r) = Elems(q) \cup {c} /\ Sorted(r, Prio(t_epri))
    BY <1>15, <2>1, <2>2, InsertQueue DEF r
  <2>4. Len(r) = Len(q) + 1
    BY <2>2, InsertLen DEF r
  <2> QED  BY <2>3, <2>4
<1> DEFINE f == <<s>> \o ts_free[ts]
<1>17. /\ f \in Seq(KThreads) /\ Len(f) = Len(ts_free[ts]) + 1 /\ Elems(f) = Elems(ts_free[ts]) \cup {s} /\ Distinct(f)
  <2>1. s \notin Elems(ts_free[ts]) /\ Distinct(ts_free[ts])
    BY <1>1, <1>3 DEF TsInv, SparesRight, s
  <2> QED  BY <1>1, <1>3, <2>1, ConsQueue
<1> HIDE DEF q, r, f
<1>18. /\ ts_sleepq'[ts] = r /\ ts_sleepq' \in [KThreads -> Seq(KThreads)]
       /\ \A x \in KThreads \ {ts} : ts_sleepq'[x] = ts_sleepq[x]
  BY <1>2, <1>3, <1>5, <1>16 DEF q, r
<1>19. /\ ts_free'[ts] = f /\ ts_free' \in [KThreads -> Seq(KThreads)]
       /\ \A x \in KThreads \ {ts} : ts_free'[x] = ts_free[x]
  BY <1>2, <1>3, <1>5, <1>17 DEF f
<1>20. Elems(r) = {t \in KThreads : t_wchan'[t] = o}
  BY <1>3, <1>9, <1>16 DEF q
<1>21. \A k \in Chains : \A x \in tc_first'[k] : x \in tc_first[k]
  BY <1>6
<1>22. Len(r) = Len(f) + 1
  BY <1>3, <1>16, <1>17 DEF q
<1>23. ts # s
  BY <1>1, <1>3
<1>24. \A x \in Live : ts_sobj'[x] = ts_sobj[x] /\ (x # ts => ts_sobj[x] # o)
  BY <1>7, <1>11
<1>25. /\ obj' = obj /\ ts \in KThreads /\ Live' = Live \cup {ts} /\ ts_sobj'[ts] = o
       /\ \A x \in KThreads \ {ts} : ts_sleepq'[x] = ts_sleepq[x] /\ ts_free'[x] = ts_free[x]
       /\ tc_first' \in [Chains -> SUBSET KThreads] /\ ts_sobj' \in [KThreads -> Objects \cup {Null}]
  BY <1>2, <1>3, <1>5, <1>6, <1>7, <1>10, <1>18, <1>19
<1>26. /\ \A k \in Chains : \A x \in tc_first'[k] : x \in tc_first[k] \/ (x = ts /\ k = Chain[o])
       /\ ts # s => ts \in Live
       /\ ts = s => Elems(ts_free'[ts]) = {}
  BY <1>3, <1>21, <1>23
<1>27. /\ Elems(ts_sleepq'[ts]) = {t \in KThreads : t_wchan'[t] = o} /\ Distinct(ts_sleepq'[ts])
       /\ Sorted(ts_sleepq'[ts], Prio(t_epri)) /\ Len(ts_sleepq'[ts]) = Len(ts_free'[ts]) + 1
       /\ Distinct(ts_free'[ts]) /\ Elems(ts_free'[ts]) \subseteq Elems(ts_free[ts]) \cup {s}
  <2>1. ts_sleepq'[ts] = r /\ ts_free'[ts] = f
    BY <1>18, <1>19
  <2>2. Elems(f) = Elems(ts_free[ts]) \cup {s} /\ Distinct(f) /\ Distinct(r) /\ Sorted(r, Prio(t_epri))
    BY <1>16, <1>17
  <2>3. Elems(f) \subseteq Elems(ts_free[ts]) \cup {s}
    BY <2>2
  <2> QED  BY ONLY <2>1, <2>2, <2>3, <1>20, <1>22, Zenon
<1>28. /\ t_ts' \in [KThreads -> KThreads] /\ t_ts'[c] = ts /\ \A t \in KThreads \ {c} : t_ts'[t] = t_ts[t]
       /\ t_wchan' \in [KThreads -> Objects \cup {Null}] /\ t_wchan'[c] = o
       /\ \A t \in KThreads \ {c} : t_wchan'[t] = t_wchan[t]
       /\ ts_sleepq' \in [KThreads -> Seq(KThreads)] /\ ts_free' \in [KThreads -> Seq(KThreads)]
  BY <1>8, <1>9, <1>18, <1>19
<1> QED  BY <1>12, <1>13, <1>14, <1>24, <1>25, <1>26, <1>27, <1>28 DEF Joins, o, s

LEMMA BlockPlaced ==
  ASSUME TsInv, NEW c \in KThreads, t_pc[c] = "block", NEW ts, Joins(c, ts)
  PROVE  TurnstilesPlaced' /\ QueuesRight' /\ SparesRight'
<1> DEFINE o == obj[c]
<1>1. /\ o \in Objects /\ ~Sleeps(c) /\ t_wchan[c] = Null /\ t_ts[c] \notin Live
  BY BlockerIs
<1>2. /\ ts \in KThreads /\ Live' = Live \cup {ts} /\ ts_sobj'[ts] = o
      /\ \A x \in Live : ts_sobj'[x] = ts_sobj[x] /\ (x # ts => ts_sobj[x] # o)
      /\ \A x \in KThreads \ {ts} : ts_sleepq'[x] = ts_sleepq[x] /\ ts_free'[x] = ts_free[x]
      /\ \A t \in KThreads \ {c} : ~Sleeps(t) => t_ts[t] # ts
      /\ t_ts'[c] = ts /\ \A t \in KThreads \ {c} : t_ts'[t] = t_ts[t]
  BY DEF Joins
<1>3. /\ t_wchan'[c] = o /\ \A t \in KThreads \ {c} : t_wchan'[t] = t_wchan[t]
  BY DEF Joins
<1>4. \A k \in Chains : \A x \in tc_first'[k] : x \in tc_first[k] \/ (x = ts /\ k = Chain[o])
  BY DEF Joins
<1>5. /\ Elems(ts_sleepq'[ts]) = {t \in KThreads : t_wchan'[t] = o} /\ Distinct(ts_sleepq'[ts])
      /\ Len(ts_sleepq'[ts]) = Len(ts_free'[ts]) + 1
      /\ Distinct(ts_free'[ts]) /\ Elems(ts_free'[ts]) \subseteq Elems(ts_free[ts]) \cup {t_ts[c]}
      /\ ts # t_ts[c] => ts \in Live
      /\ ts = t_ts[c] => Elems(ts_free'[ts]) = {}
  BY DEF Joins
<1> HIDE DEF o
<1>6. Sleeps(c)' /\ \A t \in KThreads \ {c} : Sleeps(t)' <=> Sleeps(t)
  BY <1>1, <1>3, ConstantsAre DEF Sleeps
<1>7. TurnstilesPlaced'
  <2>1. ASSUME NEW k \in Chains, NEW x \in tc_first'[k] PROVE ts_sobj'[x] \in Objects /\ Chain[ts_sobj'[x]] = k
    <3>1. CASE x = ts /\ k = Chain[o]
      BY <1>1, <1>2, <3>1
    <3>2. CASE x \in tc_first[k]
      <4>1. x \in Live /\ ts_sobj[x] \in Objects /\ Chain[ts_sobj[x]] = k
        BY <3>2 DEF Live, TsInv, TurnstilesPlaced
      <4> QED  BY <1>2, <4>1
    <3> QED  BY <1>4, <3>1, <3>2
  <2>2. ASSUME NEW x \in Live', NEW y \in Live', ts_sobj'[x] = ts_sobj'[y] PROVE x = y
    <3>1. CASE x \in Live \ {ts} /\ y \in Live \ {ts}
      BY <1>2, <2>2, <3>1 DEF TsInv, TurnstilesPlaced
    <3> QED  BY <1>2, <2>2, <3>1
  <2>3. ASSUME NEW t \in KThreads, Sleeps(t)' PROVE t_ts'[t] \in Live' /\ ts_sobj'[t_ts'[t]] = t_wchan'[t]
    <3>1. CASE t = c
      BY <1>2, <1>3, <3>1
    <3>2. CASE t # c
      <4>1. Sleeps(t)
        BY <1>6, <2>3, <3>2
      <4>2. t_ts[t] \in Live /\ ts_sobj[t_ts[t]] = t_wchan[t]
        BY <4>1 DEF TsInv, TurnstilesPlaced
      <4> QED  BY <1>2, <1>3, <3>2, <4>2
    <3> QED  BY <3>1, <3>2
  <2>4. ASSUME NEW t \in KThreads, ~Sleeps(t)' PROVE t # c /\ ~Sleeps(t) /\ t_ts'[t] = t_ts[t] /\ t_ts'[t] \notin Live'
    <3>1. t # c /\ ~Sleeps(t)
      BY <1>6, <2>4
    <3>2. t_ts[t] \notin Live
      BY <3>1 DEF TsInv, TurnstilesPlaced
    <3> QED  BY <1>2, <3>1, <3>2
  <2>5. ASSUME NEW t \in KThreads, NEW u \in KThreads, ~Sleeps(t)', ~Sleeps(u)', t_ts'[t] = t_ts'[u] PROVE t = u
    BY <2>4, <2>5 DEF TsInv, TurnstilesPlaced
  <2> QED  BY <2>1, <2>2, <2>3, <2>4, <2>5 DEF TurnstilesPlaced
<1>8. QueuesRight'
  <2>1. ASSUME NEW x \in Live'
        PROVE  /\ Elems(ts_sleepq'[x]) = {t \in KThreads : t_wchan'[t] = ts_sobj'[x]}
               /\ Distinct(ts_sleepq'[x])
               /\ Len(ts_sleepq'[x]) = Len(ts_free'[x]) + 1
    <3>1. CASE x = ts
      BY <1>2, <1>5, <3>1
    <3>2. CASE x # ts
      <4>1. x \in Live /\ x \in KThreads /\ ts_sobj[x] \in Objects
        BY <1>2, <3>2, LiveIs
      <4>2. /\ Elems(ts_sleepq[x]) = {t \in KThreads : t_wchan[t] = ts_sobj[x]}
            /\ Distinct(ts_sleepq[x]) /\ Len(ts_sleepq[x]) = Len(ts_free[x]) + 1
        BY <4>1 DEF TsInv, QueuesRight
      <4>3. ts_sobj'[x] = ts_sobj[x] /\ ts_sobj[x] # o /\ ts_sobj[x] # Null
        BY <1>2, <3>2, <4>1, ConstantsAre
      <4>4. {t \in KThreads : t_wchan'[t] = ts_sobj[x]} = {t \in KThreads : t_wchan[t] = ts_sobj[x]}
        BY <1>1, <1>3, <4>3
      <4> QED  BY <1>2, <3>2, <4>1, <4>2, <4>3, <4>4
    <3> QED  BY <3>1, <3>2
  <2>2. ASSUME NEW x \in KThreads \ Live' PROVE ts_sleepq'[x] = <<>> /\ ts_free'[x] = <<>>
    BY <1>2, <2>2 DEF TsInv, QueuesRight
  <2> QED  BY <2>1, <2>2 DEF QueuesRight
<1>9. SparesRight'
  <2>1. ASSUME NEW x \in KThreads
        PROVE  Distinct(ts_free[x]) /\ Elems(ts_free[x]) \cap Live = {} /\ t_ts[c] \notin Elems(ts_free[x])
               /\ \A t \in KThreads : ~Sleeps(t) => t_ts[t] \notin Elems(ts_free[x])
    BY <1>1 DEF TsInv, SparesRight
  <2>2. \A x \in KThreads : Distinct(ts_free'[x])
    BY <1>2, <1>5, <2>1
  <2>3. ASSUME NEW x \in KThreads
        PROVE  \/ ts_free'[x] = ts_free[x]
               \/ x = ts /\ ts \in Live /\ Elems(ts_free'[x]) \subseteq Elems(ts_free[x]) \cup {t_ts[c]}
               \/ x = ts /\ Elems(ts_free'[x]) = {}
    BY <1>2, <1>5
  <2>4. ASSUME NEW x \in KThreads PROVE Elems(ts_free'[x]) \cap Live' = {}
    <3>1. Elems(ts_free[x]) \cap Live' = {}
      BY <1>2, <1>5, <2>1
    <3> QED  BY <1>1, <1>2, <2>3, <3>1
  <2>5. ASSUME NEW x \in KThreads, NEW t \in KThreads, ~Sleeps(t)' PROVE t_ts'[t] \notin Elems(ts_free'[x])
    <3>1. t # c /\ ~Sleeps(t) /\ t_ts'[t] = t_ts[t]
      BY <1>2, <1>6, <2>5
    <3>2. t_ts[t] # t_ts[c]
      BY <1>1, <3>1 DEF TsInv, TurnstilesPlaced
    <3> QED  BY <2>1, <2>3, <3>1, <3>2
  <2>6. ASSUME NEW x \in KThreads, NEW y \in KThreads, x # y PROVE Elems(ts_free'[x]) \cap Elems(ts_free'[y]) = {}
    <3>1. Elems(ts_free[x]) \cap Elems(ts_free[y]) = {}
      BY <2>6 DEF TsInv, SparesRight
    <3> QED  BY <2>1, <2>3, <2>6, <3>1
  <2> QED  BY <2>2, <2>4, <2>5, <2>6 DEF SparesRight
<1> QED  BY <1>7, <1>8, <1>9

LEMMA BlockKeeps ==
  ASSUME TsInv, NEW c \in KThreads, turnstile_block(c)
  PROVE  TsInv'
<1> DEFINE o == obj[c]
<1>1. t_pc[c] = "block" /\ Free(t_lockp[c])
  BY DEF turnstile_block
<1>2. /\ o \in Objects /\ held[Chain[o]] = c /\ ~Releasing(o) /\ o \notin Taken(c, step[c])
      /\ owner[o] \in KThreads \ {c} /\ m_waiters[o] /\ t_wchan[owner[o]] # o
      /\ step[c] < Len(Script[c]) /\ obj[c] = Script[c][step[c] + 1] /\ step[c] <= Len(Script[c])
      /\ ~Sleeps(c) /\ t_wchan[c] = Null /\ t_lockp[c] = RunLock[c]
  BY <1>1, BlockerIs
<1>3. PICK ts : Joins(c, ts)
  <2>1. CASE Active(o) = {}
    BY <2>1, JoinsFirst
  <2>2. CASE Active(o) # {}
    BY <2>2, JoinsOthers DEF Turnstile
  <2> QED  BY <2>1, <2>2
<1>4. /\ owner' = owner /\ m_waiters' = m_waiters /\ held' = held /\ obj' = obj /\ olp' = olp /\ towake' = towake
      /\ step' = step /\ UNCHANGED inherits /\ t_epri' = t_epri /\ ts_inheritor' = ts_inheritor
      /\ ts_epri' = ts_epri /\ t_prioinv' = t_prioinv
      /\ t_lockp' = [t_lockp EXCEPT ![c] = Chain[o]] /\ at' = [at EXCEPT ![c] = c]
      /\ inverted' = [inverted EXCEPT ![c] = TRUE] /\ t_pc' = [t_pc EXCEPT ![c] = "follow"]
  BY DEF turnstile_block, objects, inherits, TsGoto
<1>5. /\ t_lockp' \in [KThreads -> Locks] /\ t_lockp'[c] = Chain[o] /\ \A d \in KThreads \ {c} : t_lockp'[d] = t_lockp[d]
      /\ at' \in [KThreads -> KThreads] /\ at'[c] = c /\ \A d \in KThreads \ {c} : at'[d] = at[d]
  BY <1>2, <1>4, ConstantsAre DEF TsInv, TurnstileTypeOK
<1>6. /\ inverted' \in [KThreads -> BOOLEAN] /\ inverted'[c] = TRUE /\ \A d \in KThreads \ {c} : inverted'[d] = inverted[d]
      /\ t_pc' \in [KThreads -> {"run", "lookup", "block", "exit", "waive", "wake"} \cup Blocking]
      /\ t_pc'[c] = "follow" /\ \A d \in KThreads \ {c} : t_pc'[d] = t_pc[d]
  BY <1>4 DEF TsInv, TsLocals, Blocking, Following
<1> HIDE DEF o
<1>7. /\ t_wchan' \in [KThreads -> Objects \cup {Null}] /\ t_wchan'[c] = o
      /\ \A t \in KThreads \ {c} : t_wchan'[t] = t_wchan[t] /\ t_ts'[t] = t_ts[t]
  BY <1>3 DEF Joins, o
<1>8. Sleeps(c)' /\ \A t \in KThreads \ {c} : Sleeps(t)' <=> Sleeps(t)
  BY <1>2, <1>7, ConstantsAre DEF Sleeps
<1>9. \A p : Releasing(p)' <=> Releasing(p)
  <2>1. \A d \in KThreads : \A p : Waking(d, p)' <=> Waking(d, p)
    BY <1>1, <1>4, <1>6 DEF Waking
  <2> QED  BY <2>1 DEF Releasing
<1>10. TurnstileTypeOK' /\ TsLocals'
  <2>1. TurnstileTypeOK'
    BY <1>3, <1>4, <1>5 DEF TsInv, TurnstileTypeOK, Joins
  <2> QED  BY <1>4, <1>6, <2>1 DEF TsInv, TsLocals
<1>11. Calm(c)
  <2>1. Others(c)
    BY <1>4, <1>5, <1>6 DEF Others
  <2>2. \A s \in KThreads : DISP_PRIO(s, t_epri)' = DISP_PRIO(s, t_epri) /\ DISP_PRIO(s, t_epri) \in Nat
    BY <1>4, PriorityIs DEF DISP_PRIO
  <2>3. Rises
    BY <2>2 DEF Rises
  <2>4. StayAsleep
    BY <1>2, <1>7 DEF StayAsleep
  <2>5. Owned
    BY <1>4, <1>9 DEF Owned
  <2>6. Locked(c)
    BY <1>1, <1>4, <1>7 DEF Locked, Free
  <2> QED  BY <2>1, <2>3, <2>4, <2>5, <2>6 DEF Calm
<1>12. PlacesRight'
  <2>1. ASSUME NEW d \in KThreads, d # c PROVE PlaceRight(d)'
    <3>1. PlaceRight(d)
      BY DEF TsInv, PlacesRight
    <3> QED  BY <1>4, <1>5, <1>6, <1>7, <1>8, <2>1, <3>1 DEF PlaceRight
  <2>2. PlaceRight(c)'
    BY <1>2, <1>4, <1>5, <1>6, <1>7, <1>8 DEF PlaceRight, Blocking, Following, o
  <2> QED  BY <2>1, <2>2 DEF PlacesRight
<1>13. OwnersRight'
  <2>1. SUFFICES ASSUME NEW d \in KThreads PROVE OwnsRight(d)'
    BY DEF OwnersRight
  <2>2. OwnsRight(d)
    BY DEF TsInv, OwnersRight
  <2>3. CASE d = c
    BY <1>1, <1>2, <1>4, <1>6, <2>2, <2>3 DEF OwnsRight, Blocking, Following
  <2>4. CASE d # c
    BY <1>4, <1>6, <2>2, <2>4 DEF OwnsRight
  <2> QED  BY <2>3, <2>4
<1>14. SpinsRight'
  <2>1. SpinRight(c)'
    BY <1>2, <1>4, <1>5, <1>6 DEF SpinRight, Walking
  <2> QED  BY <1>10, <1>11, <1>12, <2>1, SpinOthers DEF SpinsRight
<1>15. WalksRight'
  <2>1. WalkRight(c)'
    <3>1. LockRank[o] <= LockRank[o]
      BY <1>2, RankIsOrder
    <3>2. {c} \in SUBSET KThreads /\ c \in {c} /\ {c} \ {c} = {}
      OBVIOUS
    <3> QED  BY <1>4, <1>5, <1>7, <3>1, <3>2 DEF WalkRight, o
  <2> QED  BY <1>10, <1>11, <1>12, <2>1, WalkOthers DEF WalksRight
<1>16. TurnstilesPlaced' /\ QueuesRight' /\ SparesRight'
  BY <1>1, <1>3, BlockPlaced
<1>17. WaitedFor'
  <2>1. ASSUME NEW t \in KThreads, Sleeps(t)', ~Releasing(t_wchan[t])', t # c
        PROVE  owner[t_wchan[t]] # Null /\ m_waiters[t_wchan[t]] /\ t_wchan'[owner[t_wchan[t]]] # t_wchan[t]
    <3>1. Sleeps(t) /\ t_wchan[t] \in Objects
      BY <1>8, <2>1, SleeperIs
    <3>2. ~Releasing(t_wchan[t])
      BY <1>7, <1>9, <2>1 DEF Releasing, Waking
    <3>3. owner[t_wchan[t]] # Null /\ m_waiters[t_wchan[t]] /\ t_wchan[owner[t_wchan[t]]] # t_wchan[t]
      BY <3>1, <3>2 DEF TsInv, WaitedFor
    <3>4. owner[t_wchan[t]] \in KThreads
      BY <3>1, <3>3, TypesAre
    <3>5. CASE owner[t_wchan[t]] = c
      BY <1>2, <1>7, <3>3, <3>5
    <3>6. CASE owner[t_wchan[t]] # c
      BY <1>7, <3>3, <3>4, <3>6
    <3> QED  BY <3>5, <3>6
  <2>2. owner[o] # Null /\ m_waiters[o] /\ t_wchan'[owner[o]] # o
    BY <1>2, <1>7, ConstantsAre
  <2>3. ASSUME NEW d \in KThreads, t_pc'[d] = "block"
        PROVE  owner[obj[d]] # Null /\ m_waiters[obj[d]] /\ owner[obj[d]] # d
    <3>1. t_pc[d] = "block"
      BY <1>6, <2>3
    <3> QED  BY <3>1 DEF TsInv, WaitedFor
  <2>4. ASSUME NEW t \in KThreads, Sleeps(t)'
        PROVE  \/ Releasing(t_wchan[t])'
               \/ owner[t_wchan'[t]] # Null /\ m_waiters[t_wchan'[t]] /\ t_wchan'[owner[t_wchan'[t]]] # t_wchan'[t]
    BY <1>7, <2>1, <2>2, <2>4 DEF Releasing, Waking
  <2> QED  BY <1>4, <2>3, <2>4 DEF WaitedFor, Releasing, Waking
<1>18. ExitsRight'
  <2>1. SUFFICES ASSUME NEW d \in KThreads, t_pc'[d] \in {"waive", "wake"} PROVE ExitRight(d)'
    BY DEF ExitsRight, ExitRight
  <2>2. d # c /\ t_pc'[d] = t_pc[d]
    BY <1>6, <2>1
  <2>3. ExitRight(d) /\ obj[d] \in Objects /\ held[Chain[obj[d]]] = d
    BY <2>1, <2>2 DEF TsInv, ExitsRight, PlacesRight, PlaceRight, SpinsRight, SpinRight
  <2>4. obj[d] # o
    BY <1>2, <2>2, <2>3
  <2>5. Active(obj[d])' = Active(obj[d]) /\ ts \notin Active(obj[d]) /\ obj'[d] = obj[d]
    <3>1. \A p \in Objects \ {o} : Active(p)' = Active(p) /\ ts \notin Active(p)
      BY <1>3 DEF Joins, o
    <3> QED  BY <1>4, <2>3, <2>4, <3>1 DEF Active
  <2>6. \A x \in Active(obj[d]) : ts_sleepq'[x] = ts_sleepq[x]
    <3>1. \A x \in Active(obj[d]) : x \in KThreads
      BY <2>3, ActiveIs
    <3>2. \A x \in KThreads \ {ts} : ts_sleepq'[x] = ts_sleepq[x]
      BY <1>3 DEF Joins
    <3> QED  BY <2>5, <3>1, <3>2
  <2>7. \A t \in KThreads : t_wchan'[t] = obj[d] => t_wchan[t] = obj[d]
    BY <1>7, <2>4
  <2> QED  BY <1>4, <2>1, <2>2, <2>3, <2>5, <2>6, <2>7 DEF ExitRight
<1>19. WillsRight'
  <2>1. Inheritors' /\ \A t \in KThreads : EpriRight(t)'
    BY <1>4 DEF TsInv, WillsRight, Inheritors, EpriRight
  <2>2. ASSUME NEW x \in KThreads PROVE WillRight(x)'
    <3>1. SUFFICES ASSUME ts_inheritor[x] # Null PROVE WillRight(x)'
      BY <1>4 DEF WillRight
    <3>2. /\ x \in Live /\ ts_inheritor[x] \in KThreads /\ ts_epri[x] > Pri[ts_inheritor[x]]
          /\ \/ owner[ts_sobj[x]] = ts_inheritor[x]
             \/ t_pc[ts_inheritor[x]] = "waive" /\ obj[ts_inheritor[x]] = ts_sobj[x]
      BY <3>1, InheritorIs
    <3>3. x \in Live' /\ ts_sobj'[x] = ts_sobj[x]
      BY <1>3, <3>2 DEF Joins
    <3>4. t_pc[ts_inheritor[x]] = "waive" => t_pc'[ts_inheritor[x]] = "waive"
      BY <1>1, <1>6, <3>2
    <3> QED  BY <1>4, <3>2, <3>3, <3>4 DEF WillRight
  <2> QED  BY <2>1, <2>2 DEF WillsRight
<1>20. PriorityRight'
  <2>1. ASSUME NEW t \in KThreads, Sleeps(t), t # c PROVE PriRight(t)'
    <3>1. t_wchan'[t] = t_wchan[t] /\ t_ts'[t] = t_ts[t]
      BY <1>7, <2>1
    <3>2. Releasing(t_wchan[t]) => PriRight(t)'
      BY <1>9, <3>1 DEF PriRight, Releasing, Waking
    <3>3. Covered(t) => PriRight(t)'
      BY <1>4, <3>1, CoveredFrame DEF PriRight
    <3>4. ~Bound(c, t)
      BY <1>1 DEF Bound, Following
    <3> QED  BY <1>10, <1>11, <2>1, <3>2, <3>3, <3>4, PriFrame
  <2>2. PriRight(c)'
    <3>1. {c} \in SUBSET KThreads /\ c \in {c} /\ {c} \ {c} = {}
      OBVIOUS
    <3>2. From(c)' = c
      BY <1>5, <1>6 DEF From
    <3>3. Bound(c, c)'
      BY <1>6, <3>1, <3>2 DEF Bound, Following
    <3> QED  BY <3>3 DEF PriRight
  <2> QED  BY <1>8, <2>1, <2>2 DEF PriorityRight, PriRight
<1>21. QueuesSorted'
  <2>1. SUFFICES ASSUME NEW x \in KThreads PROVE Sorted(ts_sleepq'[x], Prio(t_epri))
    BY <1>4 DEF QueuesSorted, Prio, DISP_PRIO
  <2>2. /\ Sorted(ts_sleepq'[ts], Prio(t_epri)) /\ \A y \in KThreads \ {ts} : ts_sleepq'[y] = ts_sleepq[y]
    BY <1>3 DEF Joins
  <2> QED  BY <2>2 DEF TsInv, QueuesSorted
<1> QED  BY <1>10, <1>12, <1>13, <1>14, <1>15, <1>16, <1>17, <1>18, <1>19, <1>20, <1>21 DEF TsInv

-----------------------------------------------------------------------------
(* Willing priority                                                        *)

LEMMA RemoveLen ==
  ASSUME NEW T, NEW q \in Seq(T), NEW t \in Elems(q)
  PROVE  Len(Remove(q, t)) = Len(q) - 1
<1>1. Len(q) \in Nat /\ Len(q) >= 1
  BY DEF Elems
<1> DEFINE k == CHOOSE i \in 1 .. Len(q) : q[i] = t
           r == [i \in 1 .. Len(q) - 1 |-> IF i < k THEN q[i] ELSE q[i + 1]]
<1>2. Remove(q, t) = r
  BY DEF Remove
<1>3. k \in 1 .. Len(q)
  BY DEF Elems
<1> HIDE DEF k
<1>4. Len(q) - 1 \in Nat /\ DOMAIN r = 1 .. Len(q) - 1
  BY <1>1
<1>5. r \in Seq(T)
  BY <1>1, <1>3
<1> HIDE DEF r
<1>6. Len(r) = Len(q) - 1
  BY <1>4, <1>5
<1> QED  BY <1>2, <1>6

\* Who sleeps in which queue.
LEMMA QueuedIs ==
  ASSUME TsInv, NEW x \in KThreads, NEW y \in KThreads
  PROVE  /\ ts_sleepq[x] \in Seq(KThreads) /\ Distinct(ts_sleepq[x]) /\ Sorted(ts_sleepq[x], Prio(t_epri))
         /\ y \in Elems(ts_sleepq[x]) <=> Sleeps(y) /\ x = t_ts[y]
<1>1. ts_sleepq[x] \in Seq(KThreads) /\ Sorted(ts_sleepq[x], Prio(t_epri))
  BY DEF TsInv, TurnstileTypeOK, QueuesSorted
<1>2. Distinct(ts_sleepq[x])
  BY EmptyQueue DEF TsInv, QueuesRight
<1>3. Sleeps(y) /\ x = t_ts[y] => y \in Elems(ts_sleepq[x])
  BY SleeperIs
<1>4. ASSUME y \in Elems(ts_sleepq[x]) PROVE Sleeps(y) /\ x = t_ts[y]
  <2>1. x \in Live
    BY <1>4, EmptyQueue DEF TsInv, QueuesRight
  <2>2. ts_sobj[x] \in Objects /\ x \in Active(ts_sobj[x]) /\ t_wchan[y] = ts_sobj[x]
    BY <1>4, <2>1, LiveIs DEF TsInv, QueuesRight
  <2> QED  BY <2>2, ActiveIs
<1> QED  BY <1>1, <1>2, <1>3, <1>4

\* A thread of more priority moves in its queue.
LEMMA Raised ==
  ASSUME TsInv, NEW y \in KThreads, NEW p \in Nat, p > DISP_PRIO(y, t_epri), thread_change_epri(y, p)
  PROVE  /\ t_epri' \in [KThreads -> Nat] /\ t_epri'[y] = p /\ \A s \in KThreads \ {y} : t_epri'[s] = t_epri[s]
         /\ ts_sleepq' \in [KThreads -> Seq(KThreads)]
         /\ \A x \in KThreads : ~Sleeps(y) \/ x # t_ts[y] => ts_sleepq'[x] = ts_sleepq[x]
         /\ \A x \in KThreads : /\ Elems(ts_sleepq'[x]) = Elems(ts_sleepq[x]) /\ Distinct(ts_sleepq'[x])
                                /\ Len(ts_sleepq'[x]) = Len(ts_sleepq[x])
                                /\ Sorted(ts_sleepq'[x], Prio(t_epri'))
<1>1. /\ t_epri \in [KThreads -> Nat] /\ t_epri' = [t_epri EXCEPT ![y] = p]
      /\ ts_sleepq \in [KThreads -> Seq(KThreads)] /\ t_ts \in [KThreads -> KThreads]
  BY DEF thread_change_epri, TsInv, TurnstileTypeOK
<1>2. t_epri' \in [KThreads -> Nat] /\ t_epri'[y] = p /\ \A s \in KThreads \ {y} : t_epri'[s] = t_epri[s]
  BY <1>1
<1>3. \A s \in KThreads : DISP_PRIO(s, t_epri') \in Nat
  BY <1>2, ConstantsAre DEF DISP_PRIO
<1> DEFINE P2 == Prio(t_epri')
<1>4. P2 \in [KThreads -> Int] /\ \A s \in KThreads \ {y} : P2[s] = Prio(t_epri)[s]
  BY <1>2, <1>3 DEF Prio, DISP_PRIO
<1> HIDE DEF P2
<1>5. ASSUME NEW x \in KThreads, ~Sleeps(y) \/ x # t_ts[y]
      PROVE  /\ ts_sleepq'[x] = ts_sleepq[x] /\ Distinct(ts_sleepq[x]) /\ Sorted(ts_sleepq[x], P2)
  <2>1. ts_sleepq'[x] = ts_sleepq[x]
    BY <1>1, <1>5 DEF thread_change_epri, Sleeps
  <2>2. /\ ts_sleepq[x] \in Seq(KThreads) /\ Distinct(ts_sleepq[x]) /\ Sorted(ts_sleepq[x], Prio(t_epri))
        /\ y \notin Elems(ts_sleepq[x])
    BY <1>5, QueuedIs
  <2>3. Elems(ts_sleepq[x]) \subseteq KThreads
    BY <2>2, ElemsEmpty
  <2>4. \A s \in Elems(ts_sleepq[x]) : P2[s] = Prio(t_epri)[s]
    BY <1>4, <2>2, <2>3
  <2>5. Sorted(ts_sleepq[x], P2)
    BY <2>2, <2>4, SortedDepends
  <2> QED  BY <2>1, <2>2, <2>5
<1>6. ASSUME Sleeps(y)
      PROVE  LET x == t_ts[y] IN
             /\ ts_sleepq'[x] \in Seq(KThreads) /\ Elems(ts_sleepq'[x]) = Elems(ts_sleepq[x])
             /\ Distinct(ts_sleepq'[x]) /\ Len(ts_sleepq'[x]) = Len(ts_sleepq[x]) /\ Sorted(ts_sleepq'[x], P2)
  <2> DEFINE x == t_ts[y]
             q == ts_sleepq[x]
             r == Remove(q, y)
             n == Insert(r, P2, y)
  <2>1. x \in KThreads /\ ts_sleepq'[x] = n
    BY <1>1, <1>6 DEF thread_change_epri, Sleeps, P2
  <2>2. q \in Seq(KThreads) /\ Distinct(q) /\ Sorted(q, Prio(t_epri)) /\ y \in Elems(q)
    BY <1>6, <2>1, QueuedIs
  <2> HIDE DEF x, q, r, n
  <2>3. r \in Seq(KThreads) /\ Distinct(r) /\ Elems(r) = Elems(q) \ {y} /\ Sorted(r, Prio(t_epri))
    BY <2>2, RemoveQueue DEF r
  <2>4. Len(r) = Len(q) - 1 /\ Len(q) \in Nat
    BY <2>2, RemoveLen DEF r
  <2>5. Elems(r) \subseteq KThreads
    BY <2>3, ElemsEmpty
  <2>6. \A s \in Elems(r) : P2[s] = Prio(t_epri)[s]
    BY <1>4, <2>3, <2>5
  <2>7. Sorted(r, P2)
    BY <2>3, <2>6, SortedDepends
  <2>8. y \notin Elems(r)
    BY <2>3
  <2>9. n \in Seq(KThreads) /\ Distinct(n) /\ Elems(n) = Elems(r) \cup {y} /\ Sorted(n, P2)
    BY <1>4, <2>3, <2>7, <2>8, InsertQueue DEF n
  <2>10. Len(n) = Len(r) + 1
    BY <2>3, InsertLen DEF n
  <2>11. Elems(n) = Elems(q) /\ Len(n) = Len(q)
    BY <2>2, <2>3, <2>4, <2>9, <2>10
  <2> QED  BY <2>1, <2>9, <2>11 DEF x, q
<1>7. ts_sleepq' \in [KThreads -> Seq(KThreads)]
  <2>1. CASE ~Sleeps(y)
    BY <1>1, <2>1 DEF thread_change_epri, Sleeps
  <2>2. CASE Sleeps(y)
    <3>1. ts_sleepq' = [ts_sleepq EXCEPT ![t_ts[y]] = ts_sleepq'[t_ts[y]]]
      BY <1>1, <2>2 DEF thread_change_epri, Sleeps
    <3> QED  BY <1>1, <1>6, <2>2, <3>1
  <2> QED  BY <2>1, <2>2
<1>8. ASSUME NEW x \in KThreads
      PROVE  /\ Elems(ts_sleepq'[x]) = Elems(ts_sleepq[x]) /\ Distinct(ts_sleepq'[x])
             /\ Len(ts_sleepq'[x]) = Len(ts_sleepq[x]) /\ Sorted(ts_sleepq'[x], P2)
  BY <1>5, <1>6
<1> QED  BY <1>2, <1>5, <1>7, <1>8 DEF P2

\* Thread c wills the priority p of thread t, which it is at, to the owner y.
Wills(c, t, y, p) ==
  LET x == t_ts[t] IN
  /\ ts_inheritor' \in [KThreads -> KThreads \cup {Null}] /\ ts_epri' \in [KThreads -> Nat]
  /\ t_prioinv' \in [KThreads -> SUBSET KThreads] /\ t_epri' \in [KThreads -> Nat]
  /\ ts_sleepq' \in [KThreads -> Seq(KThreads)]
  /\ \A s \in KThreads \ {y} : t_epri'[s] = t_epri[s] /\ t_prioinv'[s] = t_prioinv[s]
  /\ \A z \in KThreads \ {x} : ts_inheritor'[z] = ts_inheritor[z] /\ ts_epri'[z] = ts_epri[z]
  /\ p <= Pri[y] => t_epri'[y] = t_epri[y] /\ UNCHANGED inherits
  /\ p > Pri[y] => /\ ts_inheritor'[x] = y /\ ts_epri'[x] >= p /\ t_prioinv'[y] = t_prioinv[y] \cup {x}
                   /\ ts_inheritor[x] = y => ts_epri'[x] >= ts_epri[x]
  /\ EpriRight(y)'
  /\ DISP_PRIO(y, t_epri)' >= DISP_PRIO(y, t_epri)
  /\ \A z \in KThreads : ~Sleeps(y) \/ z # t_ts[y] => ts_sleepq'[z] = ts_sleepq[z]
  /\ \A z \in KThreads : /\ Elems(ts_sleepq'[z]) = Elems(ts_sleepq[z]) /\ Distinct(ts_sleepq'[z])
                         /\ Len(ts_sleepq'[z]) = Len(ts_sleepq[z])
                         /\ Sorted(ts_sleepq'[z], Prio(t_epri'))

LEMMA WillerIs ==
  ASSUME TsInv, NEW c \in KThreads, t_pc[c] = "inherit"
  PROVE  LET t == at[c]
             y == Blocker(c)
             x == t_ts[t]
         IN  /\ t \in KThreads /\ Sleeps(t) /\ inverted[c] /\ held[t_lockp[t]] = c /\ t_wchan[t] \in Objects
             /\ t_lockp[t] = Chain[t_wchan[t]] /\ ~Releasing(t_wchan[t])
             /\ y \in KThreads /\ y = owner[t_wchan[t]] /\ held[t_lockp[y]] = c /\ t_wchan[y] # t_wchan[t] /\ y # t
             /\ x \in KThreads /\ x \in Live /\ ts_sobj[x] = t_wchan[t] /\ ts_inheritor[x] \in {Null, y}
             /\ t_lockp[t] \in Locks /\ t_lockp[y] \in Locks
             /\ t_pc[c] \in Walking /\ t_pc[c] \in Following
<1> DEFINE t == at[c]
           y == Blocker(c)
           x == t_ts[t]
<1>1. t_pc[c] \in Walking /\ t_pc[c] \in Walking \ {"follow"} /\ t_pc[c] \in Following
  BY DEF Walking, Following
<1>2. ~Ends(c) /\ held[t_lockp[y]] = c
  BY <1>1 DEF TsInv, SpinsRight, SpinRight
<1>3. /\ t \in KThreads /\ held[t_lockp[t]] = c /\ Sleeps(t) /\ inverted[c] /\ t_wchan[t] \in Objects
      /\ t_lockp[t] = Chain[t_wchan[t]] /\ ~Releasing(t_wchan[t])
      /\ y \in KThreads /\ y = owner[t_wchan[t]] /\ t_wchan[y] # t_wchan[t]
  BY <1>1, <1>2, WalkerIs
<1>4. x \in KThreads /\ x \in Live /\ ts_sobj[x] = t_wchan[t]
  BY <1>3, SleeperIs DEF TsInv, TurnstilesPlaced
<1>5. y # t
  BY <1>3
<1>6. t_lockp[t] \in Locks /\ t_lockp[y] \in Locks
  BY <1>3 DEF TsInv, TurnstileTypeOK
<1> HIDE DEF y, t, x
<1>7. ts_inheritor[x] \in {Null, y}
  <2>1. SUFFICES ASSUME ts_inheritor[x] # Null, ts_inheritor[x] # y PROVE FALSE
    OBVIOUS
  <2>2. PICK d \in KThreads : t_pc[d] = "waive" /\ obj[d] = t_wchan[t]
    BY <1>3, <1>4, <2>1, InheritorIs
  <2>3. held[Chain[t_wchan[t]]] = d
    BY <2>2 DEF TsInv, SpinsRight, SpinRight
  <2> QED  BY <1>3, <2>2, <2>3
<1> QED  BY <1>1, <1>2, <1>3, <1>4, <1>5, <1>6, <1>7 DEF t, y, x

LEMMA WillsIs ==
  ASSUME TsInv, NEW t \in KThreads, NEW y \in KThreads, NEW p, p = DISP_PRIO(t, t_epri), t_ts[t] \in KThreads,
         ts_inheritor[t_ts[t]] \in {Null, y}, turnstile_pi_inherit(t_ts[t], y, p), NEW c
  PROVE  Wills(c, t, y, p)
<1> DEFINE x == t_ts[t]
<1>1. /\ p \in Nat /\ Pri[y] \in Nat /\ DISP_PRIO(y, t_epri) \in Nat /\ DISP_PRIO(y, t_epri) >= t_epri[y]
      /\ t_epri[y] \in Nat /\ DISP_PRIO(y, t_epri) >= Pri[y] /\ (t_epri[y] # 0 => t_epri[y] > Pri[y])
      /\ \A z \in KThreads : ts_inheritor[z] = y => ts_epri[z] <= t_epri[y] /\ ts_epri[z] > Pri[y]
  BY PriorityIs
<1>2. /\ ts_inheritor \in [KThreads -> KThreads \cup {Null}] /\ ts_epri \in [KThreads -> Nat]
      /\ t_prioinv \in [KThreads -> SUBSET KThreads] /\ t_epri \in [KThreads -> Nat]
      /\ ts_sleepq \in [KThreads -> Seq(KThreads)]
  BY DEF TsInv, TurnstileTypeOK
<1>3. EpriRight(y) /\ Inheritors
  BY DEF TsInv, WillsRight
<1>4. ASSUME UNCHANGED <<t_epri, ts_sleepq>>
      PROVE  /\ \A z \in KThreads : /\ Elems(ts_sleepq'[z]) = Elems(ts_sleepq[z]) /\ Distinct(ts_sleepq'[z])
                                    /\ Len(ts_sleepq'[z]) = Len(ts_sleepq[z])
                                    /\ Sorted(ts_sleepq'[z], Prio(t_epri'))
             /\ DISP_PRIO(y, t_epri)' = DISP_PRIO(y, t_epri)
  BY <1>4, QueuedIs DEF Prio, DISP_PRIO
<1>5. CASE p <= Pri[y]
  <2>1. UNCHANGED <<inherits, ts_sleepq>>
    BY <1>5 DEF turnstile_pi_inherit
  <2>2. /\ ts_inheritor' = ts_inheritor /\ ts_epri' = ts_epri /\ t_prioinv' = t_prioinv /\ t_epri' = t_epri
        /\ ts_sleepq' = ts_sleepq
    BY <2>1 DEF inherits
  <2>3. EpriRight(y)'
    BY <1>3, <2>2 DEF EpriRight
  <2>4. DISP_PRIO(y, t_epri)' >= DISP_PRIO(y, t_epri)
    BY <1>1, <1>4, <2>2
  <2>5. ~(p > Pri[y])
    BY <1>1, <1>5
  <2> QED  BY <1>2, <1>4, <2>1, <2>2, <2>3, <2>4, <2>5 DEF Wills
<1>6. CASE ~(p <= Pri[y])
  <2>1. p > Pri[y]
    BY <1>1, <1>6
  <2>2. /\ ts_epri' = [ts_epri EXCEPT ![x] = IF ts_inheritor[x] = Null \/ @ < p THEN p ELSE @]
        /\ ts_inheritor' = [ts_inheritor EXCEPT ![x] = IF @ = Null THEN y ELSE @]
        /\ t_prioinv' = IF ts_inheritor[x] = Null THEN [t_prioinv EXCEPT ![y] = @ \cup {x}] ELSE t_prioinv
        /\ IF p > DISP_PRIO(y, t_epri) THEN thread_change_epri(y, p) ELSE UNCHANGED <<t_epri, ts_sleepq>>
    BY <1>6 DEF turnstile_pi_inherit
  <2> HIDE DEF x
  <2>x. x \in KThreads /\ ts_inheritor[x] \in {Null, y}
    BY DEF x
  <2>3. /\ ts_epri' \in [KThreads -> Nat] /\ ts_epri'[x] = (IF ts_inheritor[x] = Null \/ ts_epri[x] < p THEN p ELSE ts_epri[x])
        /\ \A z \in KThreads \ {x} : ts_epri'[z] = ts_epri[z]
    BY <1>1, <1>2, <2>2, <2>x
  <2>4. /\ ts_inheritor' \in [KThreads -> KThreads \cup {Null}] /\ ts_inheritor'[x] = y
        /\ \A z \in KThreads \ {x} : ts_inheritor'[z] = ts_inheritor[z]
    BY <1>2, <2>2, <2>x
  <2>5. /\ t_prioinv' \in [KThreads -> SUBSET KThreads] /\ t_prioinv'[y] = t_prioinv[y] \cup {x}
        /\ \A s \in KThreads \ {y} : t_prioinv'[s] = t_prioinv[s]
    <3>1. CASE ts_inheritor[x] = Null
      BY <1>2, <2>2, <2>x, <3>1
    <3>2. CASE ts_inheritor[x] # Null
      <4>1. ts_inheritor[x] = y
        BY <2>x, <3>2
      <4>2. x \in t_prioinv[y]
        BY <1>3, <2>x, <4>1 DEF Inheritors
      <4> QED  BY <1>2, <2>2, <3>2, <4>2
    <3> QED  BY <3>1, <3>2
  <2>6. ts_epri'[x] >= p /\ (ts_inheritor[x] = y => ts_epri'[x] >= ts_epri[x]) /\ ts_epri[x] \in Nat
    <3>1. ts_epri[x] \in Nat
      BY <1>2, <2>x
    <3> QED  BY <1>1, <2>3, <3>1, ConstantsAre
  <2>7. CASE p > DISP_PRIO(y, t_epri)
    <3>1. thread_change_epri(y, p)
      BY <2>2, <2>7
    <3>2. /\ t_epri' \in [KThreads -> Nat] /\ t_epri'[y] = p /\ \A s \in KThreads \ {y} : t_epri'[s] = t_epri[s]
          /\ ts_sleepq' \in [KThreads -> Seq(KThreads)]
          /\ \A z \in KThreads : ~Sleeps(y) \/ z # t_ts[y] => ts_sleepq'[z] = ts_sleepq[z]
          /\ \A z \in KThreads : /\ Elems(ts_sleepq'[z]) = Elems(ts_sleepq[z]) /\ Distinct(ts_sleepq'[z])
                                 /\ Len(ts_sleepq'[z]) = Len(ts_sleepq[z])
                                 /\ Sorted(ts_sleepq'[z], Prio(t_epri'))
      BY <1>1, <2>7, <3>1, Raised
    <3>3. ts_epri'[x] = p
      <4>1. ts_inheritor[x] = y => ts_epri[x] < p
        BY <1>1, <2>x, <2>6, <2>7
      <4> QED  BY <2>3, <2>x, <4>1
    <3>4. EpriRight(y)'
      <4>1. \A z \in t_prioinv[y] : z \in KThreads /\ ts_epri[z] <= t_epri[y] /\ ts_epri[z] \in Nat
        BY <1>2, <1>3 DEF EpriRight
      <4>2. ASSUME NEW z \in t_prioinv'[y] PROVE ts_epri'[z] <= p
        <5>1. CASE z = x
          BY <1>1, <3>3, <5>1
        <5>2. CASE z # x
          <6>1. z \in t_prioinv[y]
            BY <2>5, <5>2
          <6> QED  BY <1>1, <2>3, <2>7, <4>1, <5>2, <6>1
        <5> QED  BY <5>1, <5>2
      <4> QED  BY <2>5, <3>2, <3>3, <4>2 DEF EpriRight
    <3>5. DISP_PRIO(y, t_epri)' >= DISP_PRIO(y, t_epri)
      BY <1>1, <2>7, <3>2 DEF DISP_PRIO
    <3> QED  BY <1>6, <2>1, <2>3, <2>4, <2>5, <2>6, <3>2, <3>4, <3>5 DEF Wills, x
  <2>8. CASE ~(p > DISP_PRIO(y, t_epri))
    <3>1. UNCHANGED <<t_epri, ts_sleepq>>
      BY <2>2, <2>8
    <3>2. t_epri[y] >= p /\ t_epri[y] # 0
      BY <1>1, <2>1, <2>8 DEF DISP_PRIO
    <3>3. EpriRight(y)'
      <4>1. \A z \in t_prioinv[y] : z \in KThreads /\ ts_epri[z] <= t_epri[y] /\ ts_epri[z] \in Nat
        BY <1>2, <1>3 DEF EpriRight
      <4>2. ts_epri'[x] <= t_epri[y] /\ (ts_inheritor[x] = y => ts_epri[x] <= t_epri[y])
        BY <1>1, <2>3, <2>x, <3>2
      <4>3. ASSUME NEW z \in t_prioinv'[y] PROVE ts_epri'[z] <= t_epri[y]
        BY <2>3, <2>5, <4>1, <4>2
      <4>4. PICK z \in t_prioinv[y] : t_epri[y] = ts_epri[z]
        BY <1>3, <3>2 DEF EpriRight
      <4>5. ts_epri'[z] = ts_epri[z]
        <5>1. CASE z # x
          BY <2>3, <4>1, <5>1
        <5>2. CASE z = x
          <6>1. ts_inheritor[x] = y
            BY <1>3, <2>x, <5>2 DEF Inheritors
          <6>2. ts_inheritor[x] # Null
            BY <6>1, ConstantsAre
          <6>3. ~(ts_epri[x] < p)
            BY <1>1, <2>6, <3>2, <4>4, <5>2
          <6> QED  BY <2>3, <5>2, <6>2, <6>3
        <5> QED  BY <5>1, <5>2
      <4>6. z \in t_prioinv'[y]
        BY <2>5
      <4> QED  BY <3>1, <4>3, <4>4, <4>5, <4>6 DEF EpriRight
    <3>4. DISP_PRIO(y, t_epri)' >= DISP_PRIO(y, t_epri)
      BY <1>1, <1>4, <3>1
    <3> QED  BY <1>2, <1>4, <1>6, <2>1, <2>3, <2>4, <2>5, <2>6, <3>1, <3>3, <3>4 DEF Wills, x
  <2> QED  BY <2>7, <2>8
<1> QED  BY <1>5, <1>6

LEMMA WillKeeps ==
  ASSUME TsInv, NEW c \in KThreads, will(c)
  PROVE  TsInv'
<1>0. t_pc[c] = "inherit"
  BY DEF will
<1>a. PICK t \in KThreads : t = at[c]
  BY <1>0, WillerIs
<1>b. PICK y \in KThreads : y = Blocker(c)
  BY <1>0, WillerIs
<1> DEFINE p == DISP_PRIO(t, t_epri)
           x == t_ts[t]
           o == t_wchan[t]
<1>1. /\ Sleeps(t) /\ inverted[c] /\ held[t_lockp[t]] = c /\ o \in Objects
      /\ t_lockp[t] = Chain[o] /\ ~Releasing(o)
      /\ y = owner[o] /\ held[t_lockp[y]] = c /\ t_wchan[y] # o /\ y # t
      /\ x \in KThreads /\ x \in Live /\ ts_sobj[x] = o /\ ts_inheritor[x] \in {Null, y}
      /\ t_lockp[t] \in Locks /\ t_lockp[y] \in Locks
      /\ t_pc[c] \in Walking /\ t_pc[c] \in Following
  BY <1>0, <1>a, <1>b, WillerIs
<1>2. /\ turnstile_pi_inherit(x, y, p)
      /\ inverted' = [inverted EXCEPT ![c] = p > Pri[y]]
      /\ held' = IF t_lockp[t] # t_lockp[y] THEN [held EXCEPT ![t_lockp[t]] = Null] ELSE held
      /\ at' = [at EXCEPT ![c] = y]
      /\ t_pc' = [t_pc EXCEPT ![c] = "follow"]
      /\ UNCHANGED <<objects, tc_first, t_ts, ts_sobj, ts_free, t_wchan, t_lockp, obj, olp, towake, step>>
  BY <1>a, <1>b DEF will, TsGoto
<1>3. Wills(c, t, y, p)
  BY <1>1, <1>2, WillsIs
<1>4. p \in Nat /\ Pri[y] \in Nat
  BY PriorityIs
<1>5. /\ owner' = owner /\ m_waiters' = m_waiters /\ tc_first' = tc_first /\ t_ts' = t_ts /\ ts_sobj' = ts_sobj
      /\ ts_free' = ts_free /\ t_wchan' = t_wchan /\ t_lockp' = t_lockp /\ obj' = obj /\ olp' = olp
      /\ towake' = towake /\ step' = step
  BY <1>2 DEF objects
<1> HIDE DEF p, x, o
<1>6. /\ inverted' \in [KThreads -> BOOLEAN] /\ (inverted'[c] <=> p > Pri[y])
      /\ \A d \in KThreads \ {c} : inverted'[d] = inverted[d]
  <2>1. \E b \in BOOLEAN : b = (p > Pri[y])
    <3>1. (p > Pri[y]) = TRUE \/ (p > Pri[y]) = FALSE
      BY <1>4
    <3> QED  BY <3>1, Zenon
  <2>a. PICK b \in BOOLEAN : b = (p > Pri[y])
    BY <2>1
  <2>2. inverted \in [KThreads -> BOOLEAN] /\ inverted' = [inverted EXCEPT ![c] = b]
    BY <1>2, <2>a DEF TsInv, TsLocals
  <2>3. inverted' \in [KThreads -> BOOLEAN] /\ inverted'[c] = b /\ \A d \in KThreads \ {c} : inverted'[d] = inverted[d]
    BY <2>2
  <2> QED  BY <2>a, <2>3
<1>7. /\ held' \in [Locks -> KThreads \cup {Null}] /\ held'[t_lockp[y]] = c
      /\ \A d \in KThreads \ {c} : \A m \in Locks : held[m] = d => held'[m] = d
  <2>1. held \in [Locks -> KThreads \cup {Null}]
    BY TypesAre
  <2>2. CASE t_lockp[t] = t_lockp[y]
    BY <1>1, <1>2, <2>1, <2>2
  <2>3. CASE t_lockp[t] # t_lockp[y]
    BY <1>1, <1>2, <2>1, <2>3
  <2> QED  BY <2>2, <2>3
<1>8. /\ at' \in [KThreads -> KThreads] /\ at'[c] = y /\ \A d \in KThreads \ {c} : at'[d] = at[d]
      /\ t_pc' \in [KThreads -> {"run", "lookup", "block", "exit", "waive", "wake"} \cup Blocking]
      /\ t_pc'[c] = "follow" /\ \A d \in KThreads \ {c} : t_pc'[d] = t_pc[d]
  BY <1>2 DEF TsInv, TurnstileTypeOK, TsLocals, Blocking, Following
<1>9. /\ \A s : Sleeps(s)' <=> Sleeps(s)
      /\ \A q : Releasing(q)' <=> Releasing(q)
      /\ Live' = Live /\ \A q : Active(q)' = Active(q)
  <2>1. \A d \in KThreads : \A q : Waking(d, q)' <=> Waking(d, q)
    BY <1>0, <1>5, <1>8 DEF Waking
  <2>2. \A s : Sleeps(s)' <=> Sleeps(s)
    BY <1>5 DEF Sleeps
  <2>3. Live' = Live /\ \A q : Active(q)' = Active(q)
    BY <1>5 DEF Live, Active
  <2> QED  BY <2>1, <2>2, <2>3 DEF Releasing
<1>10. TurnstileTypeOK' /\ TsLocals'
  <2>1. TurnstileTypeOK'
    BY <1>3, <1>5, <1>7, <1>8 DEF TsInv, TurnstileTypeOK, Wills
  <2> QED  BY <1>5, <1>6, <1>8, <2>1 DEF TsInv, TsLocals
<1>11. /\ \A s \in KThreads : DISP_PRIO(s, t_epri)' >= DISP_PRIO(s, t_epri)
       /\ \A s \in KThreads \ {y} : DISP_PRIO(s, t_epri)' = DISP_PRIO(s, t_epri)
  <2>1. \A s \in KThreads \ {y} : DISP_PRIO(s, t_epri)' = DISP_PRIO(s, t_epri) /\ DISP_PRIO(s, t_epri) \in Nat
    BY <1>3, PriorityIs DEF Wills, DISP_PRIO
  <2>2. DISP_PRIO(y, t_epri)' >= DISP_PRIO(y, t_epri)
    BY <1>3 DEF Wills
  <2>3. ASSUME NEW s \in KThreads PROVE DISP_PRIO(s, t_epri)' >= DISP_PRIO(s, t_epri)
    <3>1. CASE s = y
      BY <2>2, <3>1
    <3>2. CASE s # y
      BY <2>1, <3>2
    <3> QED  BY <3>1, <3>2
  <2> QED  BY <2>1, <2>3
<1>12. Calm(c)
  <2>1. Others(c)
    BY <1>5, <1>6, <1>7, <1>8 DEF Others
  <2>2. Rises
    BY <1>11 DEF Rises
  <2> QED  BY <1>5, <1>9, <2>1, <2>2 DEF Calm, StayAsleep, Owned, Locked
<1>13. /\ t_pc[c] \in Blocking /\ t_pc'[c] \in Blocking /\ t_pc[c] # "run" /\ t_pc'[c] # "run"
       /\ t_pc'[c] # "exit" /\ t_pc[c] # "exit"
       /\ \A d \in KThreads, m \in {"run", "lookup", "block", "exit", "waive", "wake"} : t_pc'[d] = m <=> t_pc[d] = m
       /\ \A d \in KThreads : t_pc'[d] \in Blocking <=> t_pc[d] \in Blocking
  BY <1>0, <1>8 DEF Blocking, Following
<1>14. PlacesRight' /\ OwnersRight'
  <2>1. ASSUME NEW d \in KThreads PROVE PlaceRight(d)'
    <3>1. PlaceRight(d)
      BY DEF TsInv, PlacesRight
    <3> QED  BY <1>5, <1>9, <1>13, <3>1 DEF PlaceRight
  <2>2. ASSUME NEW d \in KThreads PROVE OwnsRight(d)'
    <3>1. OwnsRight(d)
      BY DEF TsInv, OwnersRight
    <3> QED  BY <1>5, <1>13, <3>1 DEF OwnsRight
  <2> QED  BY <2>1, <2>2 DEF PlacesRight, OwnersRight
<1>15. SpinsRight'
  <2>1. SpinRight(c)'
    BY <1>5, <1>7, <1>8 DEF SpinRight, Walking
  <2> QED  BY <1>10, <1>12, <1>14, <2>1, SpinOthers DEF SpinsRight
<1>16. \A z \in KThreads : /\ Elems(ts_sleepq'[z]) = Elems(ts_sleepq[z]) /\ Distinct(ts_sleepq'[z])
                           /\ Len(ts_sleepq'[z]) = Len(ts_sleepq[z]) /\ Sorted(ts_sleepq'[z], Prio(t_epri'))
  BY <1>3 DEF Wills
<1>17. TurnstilesPlaced' /\ SparesRight'
  <2>1. TurnstilesPlaced'
    BY <1>5, <1>9 DEF TsInv, TurnstilesPlaced
  <2>2. SparesRight'
    BY <1>5, <1>9 DEF TsInv, SparesRight
  <2> QED  BY <2>1, <2>2
<1>18. QueuesRight'
  <2>1. ASSUME NEW z \in Live
        PROVE  /\ Elems(ts_sleepq'[z]) = {s \in KThreads : t_wchan[s] = ts_sobj[z]}
               /\ Distinct(ts_sleepq'[z]) /\ Len(ts_sleepq'[z]) = Len(ts_free[z]) + 1
    BY <1>16, LiveIs DEF TsInv, QueuesRight
  <2>2. ASSUME NEW z \in KThreads \ Live PROVE ts_sleepq'[z] = <<>> /\ ts_free[z] = <<>>
    <3>1. ts_sleepq[z] = <<>> /\ ts_free[z] = <<>>
      BY DEF TsInv, QueuesRight
    <3>2. ~Sleeps(y) \/ z # t_ts[y]
      BY <2>2 DEF TsInv, TurnstilesPlaced
    <3>3. ts_sleepq'[z] = ts_sleepq[z]
      BY <1>3, <3>2 DEF Wills
    <3> QED  BY <3>1, <3>3
  <2> QED  BY <1>5, <1>9, <2>1, <2>2 DEF QueuesRight
<1>19. WaitedFor'
  BY <1>5, <1>9, <1>13 DEF TsInv, WaitedFor
<1>20. ExitsRight'
  <2>1. SUFFICES ASSUME NEW d \in KThreads, t_pc'[d] \in {"waive", "wake"} PROVE ExitRight(d)'
    BY DEF ExitsRight, ExitRight
  <2>2. d # c /\ t_pc'[d] = t_pc[d]
    BY <1>8, <2>1
  <2>3. ExitRight(d) /\ obj[d] \in Objects /\ held[Chain[obj[d]]] = d
    BY <2>1, <2>2 DEF TsInv, ExitsRight, PlacesRight, PlaceRight, SpinsRight, SpinRight
  <2>4. ASSUME NEW z \in Active(obj[d]) PROVE ts_sleepq'[z] = ts_sleepq[z] /\ ts_inheritor'[z] = ts_inheritor[z]
    <3>1. z \in KThreads /\ ts_sobj[z] = obj[d]
      BY <2>3, ActiveIs
    <3>2. z # x
      BY <1>1, <2>2, <2>3, <3>1
    <3>3. ~Sleeps(y) \/ z # t_ts[y]
      <4>1. SUFFICES ASSUME Sleeps(y), z = t_ts[y] PROVE FALSE
        OBVIOUS
      <4>2. t_wchan[y] = obj[d] /\ t_lockp[y] = Chain[t_wchan[y]]
        BY <3>1, <4>1, SleeperIs DEF TsInv, TurnstilesPlaced
      <4> QED  BY <1>1, <2>2, <2>3, <4>2
    <3> QED  BY <1>3, <3>1, <3>2, <3>3 DEF Wills, x
  <2> QED  BY <1>5, <1>9, <2>1, <2>2, <2>3, <2>4 DEF ExitRight
<1>21. WillsRight'
  <2>1. Inheritors'
    <3>1. ASSUME NEW s \in KThreads, NEW z \in KThreads PROVE z \in t_prioinv'[s] <=> ts_inheritor'[z] = s
      <4>1. z \in t_prioinv[s] <=> ts_inheritor[z] = s
        BY DEF TsInv, WillsRight, Inheritors
      <4>2. CASE p <= Pri[y]
        BY <1>3, <4>1, <4>2 DEF Wills, inherits
      <4>3. CASE p > Pri[y]
        <5>1. /\ ts_inheritor'[x] = y /\ t_prioinv'[y] = t_prioinv[y] \cup {x}
              /\ \A u \in KThreads \ {y} : t_prioinv'[u] = t_prioinv[u]
              /\ \A v \in KThreads \ {x} : ts_inheritor'[v] = ts_inheritor[v]
          BY <1>3, <4>3 DEF Wills, x
        <5> QED  BY <1>1, <4>1, <5>1, ConstantsAre
      <4> QED  BY <1>4, <4>2, <4>3
    <3> QED  BY <3>1 DEF Inheritors
  <2>2. ASSUME NEW s \in KThreads PROVE EpriRight(s)'
    <3>1. CASE s = y
      BY <1>3, <3>1 DEF Wills
    <3>2. CASE s # y
      <4>1. EpriRight(s) /\ \A z \in t_prioinv[s] : z \in KThreads /\ ts_inheritor[z] = s
        BY DEF TsInv, WillsRight, Inheritors, TurnstileTypeOK
      <4>2. x \notin t_prioinv[s]
        BY <1>1, <3>2, <4>1, ConstantsAre
      <4>3. t_epri'[s] = t_epri[s] /\ t_prioinv'[s] = t_prioinv[s]
            /\ \A z \in t_prioinv[s] : ts_epri'[z] = ts_epri[z]
        BY <1>3, <3>2, <4>1, <4>2 DEF Wills, x
      <4> QED  BY <4>1, <4>3 DEF EpriRight
    <3> QED  BY <3>1, <3>2
  <2>3. ASSUME NEW z \in KThreads PROVE WillRight(z)'
    <3>1. CASE z # x \/ p <= Pri[y]
      <4>1. ts_inheritor'[z] = ts_inheritor[z] /\ ts_epri'[z] = ts_epri[z]
        BY <1>3, <3>1 DEF Wills, x, inherits
      <4>2. SUFFICES ASSUME ts_inheritor[z] # Null PROVE WillRight(z)'
        BY <4>1 DEF WillRight
      <4> QED  BY <1>5, <1>9, <1>13, <4>1, <4>2, InheritorIs DEF WillRight
    <3>2. CASE z = x /\ p > Pri[y]
      <4>1. ts_inheritor'[x] = y /\ ts_epri'[x] >= p /\ ts_epri'[x] \in Nat
        BY <1>1, <1>3, <3>2 DEF Wills, x
      <4>2. ts_epri'[x] > Pri[y]
        BY <1>4, <3>2, <4>1
      <4> QED  BY <1>1, <1>5, <1>9, <3>2, <4>1, <4>2 DEF WillRight
    <3> QED  BY <1>4, <3>1, <3>2
  <2> QED  BY <2>1, <2>2, <2>3 DEF WillsRight
<1>22. QueuesSorted'
  BY <1>16 DEF QueuesSorted, Prio, DISP_PRIO
<1>s. ASSUME NEW S \in SUBSET KThreads, NEW s \in S
      PROVE  /\ WaitsIn(S, s)' <=> WaitsIn(S, s)
             /\ WaitsIn(S, s) /\ Urgent(s) => Urgent(s)'
  <2>1. WaitsIn(S, s)' <=> WaitsIn(S, s)
    BY <1>5, <1>9 DEF WaitsIn, Releasing, Waking
  <2>2. ASSUME WaitsIn(S, s), Urgent(s) PROVE Urgent(s)'
    <3>1. PICK u \in KThreads : u = owner[t_wchan[s]]
      BY <2>2 DEF WaitsIn
    <3>2. /\ DISP_PRIO(s, t_epri)' >= DISP_PRIO(s, t_epri) /\ DISP_PRIO(s, t_epri) > Pri[u]
          /\ Pri[u] \in Nat /\ DISP_PRIO(s, t_epri) \in Nat
      BY <1>11, <2>2, <3>1, PriorityIs DEF Urgent
    <3>3. DISP_PRIO(s, t_epri)' \in Nat
      BY <1>10, ConstantsAre DEF DISP_PRIO, TurnstileTypeOK
    <3>4. DISP_PRIO(s, t_epri)' > Pri[u]
      BY <3>2, <3>3
    <3> QED  BY <1>5, <3>1, <3>4 DEF Urgent
  <2> QED  BY <2>1, <2>2
<1>t. /\ \A S \in SUBSET KThreads : y \in S => WaitsIn(S, t)'
      /\ p > Pri[y] => Urgent(t)'
  <2>1. DISP_PRIO(t, t_epri)' = p
    BY <1>1, <1>11 DEF p
  <2>2. \A S \in SUBSET KThreads : y \in S => WaitsIn(S, t)'
    BY <1>1, <1>5, <1>9 DEF WaitsIn, o, Releasing, Waking
  <2> QED  BY <1>1, <1>5, <2>1, <2>2 DEF Urgent, o
<1>23. WalksRight'
  <2>1. WalkRight(c)'
    <3>1. SUFFICES ASSUME Sleeps(y) PROVE WalkRight(c)'
      BY <1>8, <1>9 DEF WalkRight, Sleeps
    <3>2. LockRank[obj[c]] <= LockRank[t_wchan[y]]
      <4>1. LockRank[obj[c]] <= LockRank[o]
        BY <1>a, <1>1 DEF TsInv, WalksRight, WalkRight, o
      <4>2. LockRank[o] < LockRank[t_wchan[y]] /\ LockRank[o] \in Nat /\ LockRank[t_wchan[y]] \in Nat
        BY <1>1, <3>1, OwnerIsAhead
      <4>3. LockRank[obj[c]] \in Nat
        BY <1>13, RankIsOrder DEF TsInv, PlacesRight, PlaceRight
      <4> QED  BY <4>1, <4>2, <4>3
    <3>3. PICK P \in SUBSET KThreads :
            /\ c \in P /\ t \in P
            /\ \A s \in P \ {t} : WaitsIn(P, s) /\ Urgent(s)
      BY <1>a, <1>1 DEF TsInv, WalksRight, WalkRight
    <3> DEFINE R == P \cup {y}
    <3>4. ASSUME NEW s \in R \ {y} PROVE WaitsIn(R, s)' /\ (inverted'[c] => Urgent(s)')
      <4>1. CASE s = t
        BY <1>t, <1>6, <3>3, <4>1
      <4>2. CASE s # t
        <5>1. s \in P \ {t}
          BY <3>4, <4>2
        <5>2. WaitsIn(P, s)' /\ Urgent(s)'
          BY <1>s, <3>3, <5>1
        <5> QED  BY <5>2 DEF WaitsIn
      <4> QED  BY <4>1, <4>2
    <3>5. R \in SUBSET KThreads /\ c \in R /\ y \in R
      BY <3>3
    <3> HIDE DEF R
    <3> QED  BY <1>5, <1>8, <3>2, <3>4, <3>5 DEF WalkRight
  <2> QED  BY <1>10, <1>12, <1>14, <2>1, WalkOthers DEF WalksRight
<1>24. PriorityRight'
  <2>1. SUFFICES ASSUME NEW s \in KThreads, Sleeps(s) PROVE PriRight(s)'
    BY <1>9 DEF PriorityRight, PriRight
  <2>2. Releasing(t_wchan[s]) => PriRight(s)'
    BY <1>5, <1>9 DEF PriRight, Releasing, Waking
  <2>3. CASE s = t
    <3>1. DISP_PRIO(t, t_epri)' = p
      BY <1>1, <1>11 DEF p
    <3>2. \/ p <= Pri[y]
          \/ ts_inheritor'[x] = y /\ p <= ts_epri'[x]
      <4>1. CASE p > Pri[y]
        <5>1. ts_inheritor'[x] = y /\ ts_epri'[x] >= p /\ ts_epri'[x] \in Nat
          BY <1>1, <1>3, <4>1 DEF Wills, x
        <5> QED  BY <1>4, <5>1
      <4> QED  BY <1>4, <4>1
    <3>3. Covered(t)'
      BY <1>1, <1>5, <3>1, <3>2 DEF Covered, o, x
    <3> QED  BY <2>3, <3>3 DEF PriRight
  <2>4. CASE s = y /\ p > Pri[y]
    <3>1. From(c)' = y
      BY <1>8 DEF From, Walking
    <3>2. {y} \in SUBSET KThreads /\ y \in {y} /\ {y} \ {y} = {}
      OBVIOUS
    <3>3. Bound(c, y)'
      BY <1>6, <1>8, <2>4, <3>1, <3>2 DEF Bound, Following
    <3> QED  BY <2>4, <3>3 DEF PriRight
  <2>5. CASE s # t /\ (s = y => ~(p > Pri[y]))
    <3>1. t_epri'[s] = t_epri[s] /\ DISP_PRIO(s, t_epri)' = DISP_PRIO(s, t_epri)
      <4>1. t_epri'[s] = t_epri[s]
        BY <1>3, <1>4, <2>5 DEF Wills
      <4> QED  BY <4>1 DEF DISP_PRIO
    <3>2. ASSUME Covered(s) PROVE PriRight(s)'
      <4>1. CASE ts_inheritor'[t_ts[s]] = ts_inheritor[t_ts[s]] /\ ts_epri'[t_ts[s]] = ts_epri[t_ts[s]]
        <5>1. Covered(s)'
          BY <1>5, <3>1, <3>2, <4>1 DEF Covered
        <5> QED  BY <5>1 DEF PriRight
      <4>2. CASE ~(ts_inheritor'[t_ts[s]] = ts_inheritor[t_ts[s]] /\ ts_epri'[t_ts[s]] = ts_epri[t_ts[s]])
        <5>1. t_ts[s] \in KThreads
          BY DEF TsInv, TurnstileTypeOK
        <5>2. t_ts[s] = x /\ p > Pri[y]
          <6>1. \A z \in KThreads \ {x} : ts_inheritor'[z] = ts_inheritor[z] /\ ts_epri'[z] = ts_epri[z]
            BY <1>3 DEF Wills, x
          <6>2. p <= Pri[y] => ts_inheritor' = ts_inheritor /\ ts_epri' = ts_epri
            BY <1>3 DEF Wills, inherits
          <6> QED  BY <1>4, <4>2, <5>1, <6>1, <6>2
        <5>3. t_wchan[s] = o
          BY <1>1, <2>1, <5>2 DEF TsInv, TurnstilesPlaced
        <5>4. /\ ts_inheritor'[x] = y /\ (ts_inheritor[x] = y => ts_epri'[x] >= ts_epri[x])
              /\ ts_epri'[x] \in Nat /\ ts_epri[x] \in Nat
          BY <1>1, <1>3, <5>2 DEF Wills, x, TsInv, TurnstileTypeOK
        <5>5. DISP_PRIO(s, t_epri) \in Nat
          BY PriorityIs
        <5>6. DISP_PRIO(s, t_epri) <= Pri[y] \/ (ts_inheritor'[x] = y /\ DISP_PRIO(s, t_epri) <= ts_epri'[x])
          BY <1>1, <3>2, <5>2, <5>3, <5>4, <5>5 DEF Covered
        <5>7. Covered(s)'
          BY <1>1, <1>5, <3>1, <5>2, <5>3, <5>6 DEF Covered
        <5> QED  BY <5>7 DEF PriRight
      <4> QED  BY <4>1, <4>2
    <3>3. ASSUME Bound(c, s) PROVE PriRight(s)'
      <4>1. PICK S \in SUBSET KThreads :
              /\ t \in S /\ s \in S
              /\ \A u \in S \ {s} : WaitsIn(S, u) /\ Urgent(u)
        BY <1>a, <1>1, <3>3 DEF Bound, From
      <4>2. WaitsIn(S, t) /\ Urgent(t)
        BY <2>5, <4>1
      <4>3. y \in S /\ p > Pri[y]
        BY <1>1, <4>2 DEF WaitsIn, Urgent, o, p
      <4>4. \A u \in S \ {s} : WaitsIn(S, u)' /\ Urgent(u)'
        BY <1>s, <4>1
      <4>5. From(c)' = y
        BY <1>8 DEF From, Walking
      <4>6. Bound(c, s)'
        BY <1>6, <1>8, <4>1, <4>3, <4>4, <4>5 DEF Bound, Following
      <4> QED  BY <4>6 DEF PriRight
    <3> QED  BY <1>10, <1>12, <2>1, <2>2, <3>2, <3>3, PriFrame
  <2> QED  BY <2>3, <2>4, <2>5
<1> QED  BY <1>10, <1>14, <1>15, <1>17, <1>18, <1>19, <1>20, <1>21, <1>22, <1>23, <1>24 DEF TsInv

-----------------------------------------------------------------------------
(* Waiving priority                                                        *)

\* The largest of some numbers.
LEMMA MaxIs ==
  ASSUME NEW S, NEW n \in Nat, S \subseteq 0 .. n, S # {}
  PROVE  Max(S) \in S /\ \A v \in S : Max(S) >= v
<1> DEFINE K == {(n + 1) - v : v \in S}
<1>a. ASSUME NEW v \in S PROVE (n + 1) - v \in 1 .. n + 1 /\ (n + 1) - v \in K
  <2>1. v \in 0 .. n
    OBVIOUS
  <2>2. (n + 1) - v \in 1 .. n + 1
    BY <2>1
  <2> QED  BY <2>2
<1>b. K \subseteq 1 .. n + 1
  BY <1>a
<1>c. K # {}
  <2>1. PICK v \in S : TRUE
    OBVIOUS
  <2> QED  BY <1>a, <2>1
<1>1. n + 1 \in Nat /\ K \in SUBSET (1 .. n + 1) /\ K # {}
  BY <1>b, <1>c
<1>2. PICK i \in K : \A j \in K : i <= j
  BY <1>1, LeastIndex
<1>3. PICK w \in S : i = (n + 1) - w
  BY <1>2
<1>4. ASSUME NEW v \in S PROVE w >= v
  <2>1. (n + 1) - v \in K
    OBVIOUS
  <2>2. (n + 1) - w <= (n + 1) - v
    BY <1>2, <1>3, <2>1
  <2>3. v \in Int /\ w \in Int
    OBVIOUS
  <2> QED  BY <2>2, <2>3
<1>5. \E m \in S : \A v \in S : m >= v
  BY <1>4
<1> QED  BY <1>5 DEF Max

\* A thread that waives what it has from the turnstile of its object.
LEMMA WaiverIs ==
  ASSUME TsInv, NEW c \in KThreads, t_pc[c] \in {"waive", "wake"}, towake[c] > 0
  PROVE  LET o == obj[c]
             ts == Turnstile(o)
         IN  /\ o \in Objects /\ held[Chain[o]] = c /\ Waking(c, o) /\ Releasing(o) /\ ts \in Active(o)
             /\ ts \in KThreads /\ ts \in Live /\ ts_sobj[ts] = o /\ Active(o) = {ts}
             /\ ts_inheritor[ts] = (IF t_pc[c] = "waive" THEN c ELSE Null)
             /\ ~Sleeps(c) /\ t_wchan[c] = Null /\ t_lockp[c] = RunLock[c] /\ step[c] <= Len(Script[c])
             /\ o \notin Taken(c, step[c]) /\ \A p \in Objects : owner[p] = c <=> p \in Taken(c, step[c])
             /\ \A d \in KThreads \ {c} : t_pc[d] \in {"block", "waive", "wake"} => obj[d] \in Objects \ {o}
<1> DEFINE o == obj[c]
           ts == Turnstile(o)
<1>1. t_pc[c] \in Outside /\ t_pc[c] # "exit"
  BY DEF Outside
<1>2. /\ ~Sleeps(c) /\ t_wchan[c] = Null /\ t_lockp[c] = RunLock[c] /\ step[c] <= Len(Script[c])
      /\ \A p \in Objects : owner[p] = c <=> p \in Taken(c, step[c])
  BY <1>1, AwakeIs
<1>3. o \in Objects /\ held[Chain[o]] = c /\ o \notin Taken(c, step[c])
  BY DEF TsInv, PlacesRight, PlaceRight, SpinsRight, SpinRight
<1>4. Waking(c, o) /\ Releasing(o)
  BY DEF Waking, Releasing
<1>5. ExitRight(c)
  BY DEF TsInv, ExitsRight
<1>6. Active(o) # {}
  BY <1>5 DEF ExitRight
<1>7. ts \in Active(o)
  BY <1>6 DEF Turnstile
<1>8. ts_inheritor[ts] = (IF t_pc[c] = "waive" THEN c ELSE Null)
  BY <1>5, <1>7 DEF ExitRight
<1>9. ts \in KThreads /\ ts \in Live /\ ts_sobj[ts] = o /\ Active(o) = {ts}
  BY <1>3, <1>7, ActiveIs
<1>10. ASSUME NEW d \in KThreads \ {c}, t_pc[d] \in {"block", "waive", "wake"} PROVE obj[d] \in Objects \ {o}
  <2>1. obj[d] \in Objects /\ held[Chain[obj[d]]] = d
    BY <1>10 DEF TsInv, PlacesRight, PlaceRight, SpinsRight, SpinRight
  <2> QED  BY <1>3, <2>1
<1> QED  BY <1>2, <1>3, <1>4, <1>7, <1>8, <1>9, <1>10

LEMMA WaiveKeeps ==
  ASSUME TsInv, NEW c \in KThreads, waive(c)
  PROVE  TsInv'
<1> USE DEF turnstiles
<1>0. t_pc[c] = "waive" /\ towake[c] > 0
  <2>1. t_pc[c] = "waive"
    BY DEF waive
  <2> QED  BY <2>1 DEF TsInv, ExitsRight, ExitRight
<1> DEFINE o == obj[c]
           ts == Turnstile(o)
           E == {ts_epri[x] : x \in t_prioinv[c] \ {ts}} \cup {0}
           p == Max(E)
<1>1. /\ o \in Objects /\ held[Chain[o]] = c /\ Releasing(o) /\ ts \in Active(o)
      /\ ts \in KThreads /\ ts \in Live /\ ts_sobj[ts] = o /\ Active(o) = {ts} /\ ts_inheritor[ts] = c
      /\ ~Sleeps(c) /\ t_wchan[c] = Null /\ t_lockp[c] = RunLock[c] /\ step[c] <= Len(Script[c])
      /\ o \notin Taken(c, step[c]) /\ (\A q \in Objects : owner[q] = c <=> q \in Taken(c, step[c]))
      /\ \A d \in KThreads \ {c} : t_pc[d] \in {"block", "waive", "wake"} => obj[d] \in Objects \ {o}
  BY <1>0, WaiverIs
<1>2. /\ t_prioinv' = [t_prioinv EXCEPT ![c] = @ \ {ts}]
      /\ t_epri' = IF p # DISP_PRIO(c, t_epri) THEN [t_epri EXCEPT ![c] = p] ELSE t_epri
      /\ ts_inheritor' = [ts_inheritor EXCEPT ![ts] = Null]
      /\ ts_epri' = ts_epri
      /\ t_pc' = [t_pc EXCEPT ![c] = "wake"]
      /\ UNCHANGED <<objects, turnstiles, locks, local>>
  BY <1>1 DEF waive, turnstile_pi_waive, turnstile_pi_tsdelete, TsGoto
<1>3. /\ owner' = owner /\ m_waiters' = m_waiters /\ tc_first' = tc_first /\ t_ts' = t_ts /\ ts_sobj' = ts_sobj
      /\ ts_free' = ts_free /\ ts_sleepq' = ts_sleepq /\ t_wchan' = t_wchan /\ t_lockp' = t_lockp /\ held' = held
      /\ obj' = obj /\ at' = at /\ olp' = olp /\ inverted' = inverted /\ towake' = towake /\ step' = step
  BY <1>2 DEF objects, locks, local
<1>4. /\ ts_inheritor \in [KThreads -> KThreads \cup {Null}] /\ ts_epri \in [KThreads -> Nat]
      /\ t_prioinv \in [KThreads -> SUBSET KThreads] /\ t_epri \in [KThreads -> Nat]
  BY DEF TsInv, TurnstileTypeOK
<1>5. EpriRight(c) /\ Inheritors
  BY DEF TsInv, WillsRight
<1>6. \A x \in t_prioinv[c] : x \in KThreads /\ ts_inheritor[x] = c /\ ts_epri[x] \in Nat /\ ts_epri[x] <= t_epri[c]
                              /\ ts_epri[x] > Pri[c]
  BY <1>4, <1>5, PriorityIs DEF EpriRight, Inheritors
<1>7. ts \in t_prioinv[c] /\ t_epri[c] \in Nat /\ Pri[c] \in Nat
  BY <1>1, <1>4, <1>5, ConstantsAre DEF Inheritors
<1>8. p \in E /\ \A v \in E : p >= v
  <2>1. E \subseteq 0 .. t_epri[c] /\ E # {}
    BY <1>6, <1>7
  <2> QED  BY <1>7, <2>1, MaxIs
<1> HIDE DEF o, ts, p
<1>9. p \in Nat
  BY <1>6, <1>8
<1>10. /\ t_epri' \in [KThreads -> Nat] /\ t_epri'[c] = p /\ \A s \in KThreads \ {c} : t_epri'[s] = t_epri[s]
  <2>1. t_epri[c] # 0
    BY <1>6, <1>7
  <2>2. DISP_PRIO(c, t_epri) = t_epri[c]
    BY <2>1 DEF DISP_PRIO
  <2> QED  BY <1>2, <1>4, <1>9, <2>2
<1>11. /\ t_prioinv' \in [KThreads -> SUBSET KThreads] /\ t_prioinv'[c] = t_prioinv[c] \ {ts}
       /\ \A s \in KThreads \ {c} : t_prioinv'[s] = t_prioinv[s]
  BY <1>2, <1>4
<1>12. /\ ts_inheritor' \in [KThreads -> KThreads \cup {Null}] /\ ts_inheritor'[ts] = Null
       /\ \A x \in KThreads \ {ts} : ts_inheritor'[x] = ts_inheritor[x]
  BY <1>1, <1>2, <1>4
<1>13. /\ t_pc' \in [KThreads -> {"run", "lookup", "block", "exit", "waive", "wake"} \cup Blocking]
       /\ t_pc'[c] = "wake" /\ \A d \in KThreads \ {c} : t_pc'[d] = t_pc[d]
  BY <1>2 DEF TsInv, TsLocals
<1>14. TurnstileTypeOK' /\ TsLocals'
  <2>1. TurnstileTypeOK'
    BY <1>2, <1>3, <1>10, <1>11, <1>12 DEF TsInv, TurnstileTypeOK
  <2> QED  BY <1>3, <1>13, <2>1 DEF TsInv, TsLocals
<1>15. \A s : Sleeps(s)' <=> Sleeps(s)
  BY <1>3 DEF Sleeps
<1>16. \A q : Releasing(q)' <=> Releasing(q)
  <2>1. \A d \in KThreads : \A q : Waking(d, q)' <=> Waking(d, q)
    BY <1>0, <1>3, <1>13 DEF Waking
  <2> QED  BY <2>1 DEF Releasing
<1>17. \A s \in KThreads \ {c} : DISP_PRIO(s, t_epri)' = DISP_PRIO(s, t_epri) /\ DISP_PRIO(s, t_epri) \in Nat
  BY <1>10, PriorityIs DEF DISP_PRIO
<1>18. Calm(c)
  <2>1. Others(c)
    BY <1>3, <1>13 DEF Others
  <2>2. Rises
    <3>1. SUFFICES ASSUME NEW s \in KThreads, Sleeps(s) PROVE DISP_PRIO(s, t_epri)' >= DISP_PRIO(s, t_epri)
      BY DEF Rises
    <3>2. s # c
      BY <1>1, <3>1
    <3> QED  BY <1>17, <3>2
  <2> QED  BY <1>3, <1>16, <2>1, <2>2 DEF Calm, StayAsleep, Owned, Locked
<1>19. PlacesRight' /\ OwnersRight'
  <2>1. ASSUME NEW d \in KThreads PROVE PlaceRight(d)'
    <3>1. PlaceRight(d)
      BY DEF TsInv, PlacesRight
    <3>2. CASE d # c
      BY <1>3, <1>13, <1>15, <3>1, <3>2 DEF PlaceRight
    <3>3. CASE d = c
      BY <1>1, <1>3, <1>13, <1>15, <3>3 DEF PlaceRight, Blocking, Following, o
    <3> QED  BY <3>2, <3>3
  <2>2. ASSUME NEW d \in KThreads PROVE OwnsRight(d)'
    <3>1. OwnsRight(d)
      BY DEF TsInv, OwnersRight
    <3>2. CASE d # c
      BY <1>3, <1>13, <3>1, <3>2 DEF OwnsRight
    <3>3. CASE d = c
      BY <1>1, <1>3, <1>13, <3>3 DEF OwnsRight, Taken
    <3> QED  BY <3>2, <3>3
  <2> QED  BY <2>1, <2>2 DEF PlacesRight, OwnersRight
<1>20. SpinsRight' /\ WalksRight'
  <2>1. SpinRight(c)'
    BY <1>1, <1>3, <1>13 DEF SpinRight, Walking, o
  <2>2. WalkRight(c)'
    BY <1>13 DEF WalkRight, Walking
  <2> QED  BY <1>14, <1>18, <1>19, <2>1, <2>2, SpinOthers, WalkOthers DEF SpinsRight, WalksRight
<1>21. TurnstilesPlaced' /\ QueuesRight' /\ SparesRight' /\ Live' = Live /\ (\A q : Active(q)' = Active(q))
  BY <1>2, TurnstilesFrame
<1>22. WaitedFor'
  <2>1. \A d \in KThreads : t_pc'[d] = "block" => t_pc[d] = "block"
    BY <1>13
  <2> QED  BY <1>3, <1>15, <1>16, <2>1 DEF TsInv, WaitedFor
<1>23. ExitsRight'
  <2>1. SUFFICES ASSUME NEW d \in KThreads, t_pc'[d] \in {"waive", "wake"} PROVE ExitRight(d)'
    BY DEF ExitsRight, ExitRight
  <2>2. CASE d # c
    <3>1. t_pc'[d] = t_pc[d]
      BY <1>13, <2>2
    <3>2. ExitRight(d) /\ obj[d] \in Objects \ {o}
      BY <1>1, <2>1, <2>2, <3>1 DEF TsInv, ExitsRight
    <3>3. \A x \in Active(obj[d]) : ts_inheritor'[x] = ts_inheritor[x]
      <4>1. \A x \in Active(obj[d]) : x \in KThreads /\ ts_sobj[x] = obj[d]
        BY <3>2, ActiveIs
      <4> QED  BY <1>1, <1>12, <3>2, <4>1
    <3> QED  BY <1>3, <1>21, <2>2, <3>1, <3>2, <3>3 DEF ExitRight
  <2>3. CASE d = c
    <3>1. ExitRight(c)
      BY DEF TsInv, ExitsRight
    <3>2. Active(obj[c])' = {ts} /\ Active(obj[c]) = {ts}
      BY <1>1, <1>21, <1>3 DEF o
    <3> QED  BY <1>0, <1>3, <1>12, <1>13, <2>3, <3>1, <3>2 DEF ExitRight
  <2> QED  BY <2>2, <2>3
<1>24. WillsRight'
  <2>1. Inheritors'
    BY <1>1, <1>5, <1>11, <1>12, ConstantsAre DEF Inheritors
  <2>2. ASSUME NEW s \in KThreads PROVE EpriRight(s)'
    <3>1. CASE s # c
      BY <1>2, <1>10, <1>11, <3>1 DEF EpriRight, TsInv, WillsRight
    <3>2. CASE s = c
      <4>1. \A x \in t_prioinv'[c] : ts_epri[x] \in E /\ ts_epri[x] > Pri[c] /\ ts_epri[x] \in Nat
        BY <1>6, <1>11
      <4>2. \A x \in t_prioinv'[c] : ts_epri[x] <= p
        BY <1>8, <1>9, <4>1
      <4>3. CASE t_prioinv'[c] = {}
        <5>1. E = {0}
          BY <1>11, <4>3
        <5>2. p = 0
          BY <1>8, <5>1
        <5> QED  BY <1>2, <1>10, <3>2, <4>3, <5>2 DEF EpriRight
      <4>4. CASE t_prioinv'[c] # {}
        <5>1. p # 0
          BY <1>7, <1>9, <4>1, <4>2, <4>4
        <5>2. \E x \in t_prioinv'[c] : p = ts_epri[x]
          BY <1>8, <1>11, <5>1
        <5> QED  BY <1>2, <1>10, <3>2, <4>2, <4>4, <5>2 DEF EpriRight
      <4> QED  BY <4>3, <4>4
    <3> QED  BY <3>1, <3>2
  <2>3. ASSUME NEW x \in KThreads PROVE WillRight(x)'
    <3>1. SUFFICES ASSUME x # ts, ts_inheritor[x] # Null PROVE WillRight(x)'
      BY <1>12 DEF WillRight
    <3>2. /\ ts_inheritor[x] \in KThreads /\ x \in Live /\ ts_sobj[x] \in Objects /\ x \in Active(ts_sobj[x])
          /\ ts_epri[x] > Pri[ts_inheritor[x]]
          /\ \/ owner[ts_sobj[x]] = ts_inheritor[x]
             \/ t_pc[ts_inheritor[x]] = "waive" /\ obj[ts_inheritor[x]] = ts_sobj[x]
      BY <3>1, InheritorIs
    <3>3. ts_sobj[x] # o
      BY <1>1, <3>1, <3>2
    <3>4. t_pc[ts_inheritor[x]] = "waive" /\ obj[ts_inheritor[x]] = ts_sobj[x] => ts_inheritor[x] # c
      BY <3>3 DEF o
    <3> QED  BY <1>2, <1>3, <1>12, <1>13, <1>21, <3>1, <3>2, <3>4 DEF WillRight
  <2> QED  BY <2>1, <2>2, <2>3 DEF WillsRight
<1>25. PriorityRight'
  <2>1. SUFFICES ASSUME NEW s \in KThreads, Sleeps(s) PROVE PriRight(s)'
    BY <1>15 DEF PriorityRight, PriRight
  <2>2. Releasing(t_wchan[s]) => PriRight(s)'
    BY <1>3, <1>16 DEF PriRight, Releasing, Waking
  <2>3. ASSUME Covered(s), ~Releasing(t_wchan[s]) PROVE PriRight(s)'
    <3>1. t_wchan[s] # o /\ s # c
      BY <1>1, <2>1, <2>3
    <3>2. t_ts[s] # ts /\ t_ts[s] \in KThreads
      BY <1>1, <2>1, <3>1, SleeperIs DEF TsInv, TurnstilesPlaced
    <3>3. ts_inheritor'[t_ts[s]] = ts_inheritor[t_ts[s]] /\ DISP_PRIO(s, t_epri)' = DISP_PRIO(s, t_epri)
      BY <1>12, <1>17, <3>1, <3>2
    <3>4. Covered(s)'
      BY <1>2, <1>3, <2>3, <3>3 DEF Covered
    <3> QED  BY <3>4 DEF PriRight
  <2>4. ~Bound(c, s)
    BY <1>0 DEF Bound, Following
  <2> QED  BY <1>14, <1>18, <2>1, <2>2, <2>3, <2>4, PriFrame
<1>26. QueuesSorted'
  <2>1. SUFFICES ASSUME NEW x \in KThreads PROVE Sorted(ts_sleepq[x], Prio(t_epri'))
    BY <1>3 DEF QueuesSorted, Prio, DISP_PRIO
  <2>2. /\ ts_sleepq[x] \in Seq(KThreads) /\ Sorted(ts_sleepq[x], Prio(t_epri)) /\ c \notin Elems(ts_sleepq[x])
    BY <1>1, QueuedIs
  <2>3. \A s \in Elems(ts_sleepq[x]) : s \in KThreads \ {c}
    BY <2>2, ElemsEmpty
  <2>4. \A s \in KThreads \ {c} : Prio(t_epri')[s] = Prio(t_epri)[s]
    BY <1>10 DEF Prio, DISP_PRIO
  <2>5. \A s \in Elems(ts_sleepq[x]) : Prio(t_epri')[s] = Prio(t_epri)[s]
    BY <2>3, <2>4
  <2> HIDE DEF E
  <2> QED  BY <2>2, <2>5, SortedDepends
<1> QED  BY <1>14, <1>19, <1>20, <1>21, <1>22, <1>23, <1>24, <1>25, <1>26 DEF TsInv
-----------------------------------------------------------------------------
(* Waking up                                                               *)

LEMMA LenZero ==
  ASSUME NEW T, NEW r \in Seq(T)
  PROVE  r = <<>> <=> Len(r) = 0
OBVIOUS

\* The thread that is woken next.
LEMMA LeaverIs ==
  ASSUME TsInv, NEW c \in KThreads, t_pc[c] = "wake", towake[c] > 0
  PROVE  LET o == obj[c]
             ts == Turnstile(o)
             q == ts_sleepq[ts]
             t == Head(q)
         IN  /\ t \in KThreads /\ t # c /\ Sleeps(t) /\ t_wchan[t] = o /\ t_ts[t] = ts /\ t_lockp[t] = Chain[o]
             /\ t_pc[t] \in Blocking /\ obj[t] = o
             /\ q \in Seq(KThreads) /\ Distinct(q) /\ Elems(q) = {s \in KThreads : t_wchan[s] = o}
             /\ Len(q) \in Nat /\ Len(q) = Len(ts_free[ts]) + 1 /\ ts_free[ts] \in Seq(KThreads)
             /\ Tail(q) \in Seq(KThreads) /\ Distinct(Tail(q)) /\ Elems(Tail(q)) = Elems(q) \ {t}
             /\ Sorted(Tail(q), Prio(t_epri)) /\ Len(Tail(q)) = Len(q) - 1
             /\ o \in Handoff => towake[c] = 1 /\ owner[o] = t /\ (Len(q) > 1 => m_waiters[o])
             /\ o \notin Handoff => towake[c] = Len(q) /\ owner[o] # t
<1> DEFINE o == obj[c]
           ts == Turnstile(o)
           q == ts_sleepq[ts]
           t == Head(q)
<1>1. /\ o \in Objects /\ ts \in Active(o) /\ ts \in KThreads /\ ~Sleeps(c)
  BY WaiverIs
<1>2. /\ q \in Seq(KThreads) /\ Distinct(q) /\ q # <<>> /\ Len(q) > 0 /\ Len(q) \in Nat
      /\ Elems(q) = {s \in KThreads : t_wchan[s] = o}
      /\ ts_free[ts] \in Seq(KThreads) /\ Len(q) = Len(ts_free[ts]) + 1
      /\ t \in KThreads /\ t_wchan[t] = o
      /\ \A s \in KThreads : t_wchan[s] = o => Sleeps(s) /\ t_ts[s] = ts
  BY <1>1, ActiveIs
<1>3. Sleeps(t) /\ t_ts[t] = ts /\ t # c
  BY <1>1, <1>2
<1>4. t_lockp[t] = Chain[o] /\ t_pc[t] \in Blocking /\ obj[t] = o
  BY <1>2, <1>3, SleeperIs
<1>5. Sorted(q, Prio(t_epri))
  BY <1>1 DEF TsInv, QueuesSorted
<1>6. ExitRight(c)
  BY DEF TsInv, ExitsRight
<1>7. /\ o \notin Handoff => towake[c] = Len(q)
      /\ o \in Handoff => towake[c] <= 1
      /\ o \in Handoff /\ towake[c] = 1 => owner[o] = t /\ (Len(q) > 1 => m_waiters[o])
  BY <1>1, <1>6 DEF ExitRight
<1>8. towake[c] \in Nat
  BY TypesAre
<1>9. o \in Handoff => towake[c] = 1
  BY <1>7, <1>8
<1>10. o \notin Handoff => owner[o] # t
  <2>1. OwnsRight(t) /\ PlaceRight(t)
    BY <1>2 DEF TsInv, OwnersRight, PlacesRight
  <2>2. t_pc[t] # "run" /\ t_pc[t] # "exit"
    BY <1>4 DEF Blocking, Following
  <2>3. o \notin Taken(t, step[t])
    BY <1>4, <2>1, <2>2 DEF PlaceRight
  <2> QED  BY <1>1, <1>4, <2>1, <2>2, <2>3 DEF OwnsRight
<1> HIDE DEF q, ts, o
<1>11. t = q[1] /\ Len(Tail(q)) = Len(q) - 1
  BY <1>2
<1>12. Tail(q) \in Seq(KThreads) /\ Distinct(Tail(q)) /\ Elems(Tail(q)) = Elems(q) \ {q[1]} /\ Sorted(Tail(q), Prio(t_epri))
  BY <1>2, <1>5, TailQueue
<1> HIDE DEF t
<1>13. Elems(Tail(q)) = Elems(q) \ {t}
  BY <1>11, <1>12
<1> QED  BY <1>2, <1>3, <1>4, <1>7, <1>9, <1>10, <1>11, <1>12, <1>13 DEF o, ts, q, t

\* What turnstile_dequeue() does with thread t on turnstile ts of object o,
\* which gets turnstile g.
Leaves(o, t, ts, g) ==
  LET q == ts_sleepq[ts] IN
  /\ ts_sobj' = ts_sobj
  /\ t_wchan' \in [KThreads -> Objects \cup {Null}] /\ t_wchan'[t] = Null
  /\ \A s \in KThreads \ {t} : t_wchan'[s] = t_wchan[s]
  /\ t_ts' \in [KThreads -> KThreads] /\ t_ts'[t] = g /\ \A s \in KThreads \ {t} : t_ts'[s] = t_ts[s]
  /\ tc_first' \in [Chains -> SUBSET KThreads] /\ \A k \in Chains : tc_first'[k] \subseteq tc_first[k]
  /\ Live' = IF Tail(q) = <<>> THEN Live \ {ts} ELSE Live
  /\ Active(o)' = IF Tail(q) = <<>> THEN {} ELSE {ts}
  /\ \A p \in Objects \ {o} : Active(p)' = Active(p)
  /\ ts_sleepq' \in [KThreads -> Seq(KThreads)] /\ ts_sleepq'[ts] = Tail(q)
  /\ ts_free' \in [KThreads -> Seq(KThreads)] /\ Distinct(ts_free'[ts])
  /\ Elems(ts_free'[ts]) = Elems(ts_free[ts]) \ {g}
  /\ \A x \in KThreads \ {ts} : ts_sleepq'[x] = ts_sleepq[x] /\ ts_free'[x] = ts_free[x]
  /\ IF Tail(q) = <<>> THEN g = ts /\ ts_free'[ts] = <<>>
     ELSE g \in Elems(ts_free[ts]) /\ Len(Tail(q)) = Len(ts_free'[ts]) + 1

\* It leaves the turnstile to the others and takes a spare one.
LEMMA LeavesOthers ==
  ASSUME TsInv, NEW c \in KThreads, turnstile_wakeup(c), NEW o, o = obj[c], NEW ts, ts = Turnstile(o),
         NEW t, t = Head(ts_sleepq[ts]), ts_free[ts] # <<>>
  PROVE  Leaves(o, t, ts, Head(ts_free[ts]))
<1> DEFINE q == ts_sleepq[ts]
           f == ts_free[ts]
<1>1. t_pc[c] = "wake" /\ towake[c] > 0
  BY DEF turnstile_wakeup
<1>2. /\ o \in Objects /\ ts \in Active(o) /\ ts \in KThreads /\ ts \in Live /\ ts_sobj[ts] = o /\ Active(o) = {ts}
  BY <1>1, WaiverIs
<1>3. /\ t \in KThreads /\ t_ts[t] = ts /\ Len(q) \in Nat /\ Len(q) = Len(f) + 1 /\ f \in Seq(KThreads)
      /\ Tail(q) \in Seq(KThreads) /\ Len(Tail(q)) = Len(q) - 1
  BY <1>1, LeaverIs
<1>4. /\ t_ts' = [t_ts EXCEPT ![t] = Head(f)]
      /\ ts_free' = [ts_free EXCEPT ![ts] = Tail(@)] /\ tc_first' = tc_first
      /\ t_wchan' = [t_wchan EXCEPT ![t] = Null] /\ ts_sobj' = ts_sobj
      /\ ts_sleepq' = [ts_sleepq EXCEPT ![ts] = Tail(@)]
  BY <1>3 DEF turnstile_wakeup, turnstile_dequeue
<1>5. /\ tc_first \in [Chains -> SUBSET KThreads]
      /\ ts_sleepq \in [KThreads -> Seq(KThreads)] /\ ts_free \in [KThreads -> Seq(KThreads)]
      /\ t_ts \in [KThreads -> KThreads] /\ t_wchan \in [KThreads -> Objects \cup {Null}]
  BY DEF TsInv, TurnstileTypeOK
<1>6. Distinct(f)
  BY <1>2 DEF TsInv, SparesRight
<1> HIDE DEF q, f
<1>f. f # <<>>
  BY DEF f
<1>7. Tail(f) \in Seq(KThreads) /\ Distinct(Tail(f)) /\ Head(f) = f[1] /\ Head(f) \in KThreads /\ Len(Tail(f)) = Len(f) - 1 /\ Len(f) \in Nat
      /\ Len(f) > 0
  BY <1>3, <1>6, <1>f, TailQueue
<1>8. Elems(Tail(f)) = Elems(f) \ {Head(f)} /\ Head(f) \in Elems(f)
  <2>1. Elems(Tail(f)) = Elems(f) \ {f[1]} /\ f[1] \in Elems(f)
    BY <1>3, <1>6, <1>f, TailQueue
  <2> QED  BY <1>7, <2>1
<1>9. Tail(q) # <<>> /\ Len(Tail(q)) = Len(Tail(f)) + 1
  <2>1. Len(Tail(q)) > 0 /\ Len(Tail(q)) = Len(Tail(f)) + 1
    BY <1>3, <1>7
  <2>2. Tail(q) = <<>> => Len(Tail(q)) = 0
    BY <1>3, LenZero
  <2> QED  BY <2>1, <2>2
<1>10. t_wchan' \in [KThreads -> Objects \cup {Null}] /\ t_wchan'[t] = Null /\ \A s \in KThreads \ {t} : t_wchan'[s] = t_wchan[s]
  BY <1>3, <1>4, <1>5
<1>11. t_ts' \in [KThreads -> KThreads] /\ t_ts'[t] = Head(f) /\ \A s \in KThreads \ {t} : t_ts'[s] = t_ts[s]
  BY <1>3, <1>4, <1>5, <1>7
<1>12. ts_sleepq' \in [KThreads -> Seq(KThreads)] /\ ts_sleepq'[ts] = Tail(q) /\ \A x \in KThreads \ {ts} : ts_sleepq'[x] = ts_sleepq[x]
  BY <1>2, <1>3, <1>4, <1>5 DEF q
<1>13. ts_free' \in [KThreads -> Seq(KThreads)] /\ ts_free'[ts] = Tail(f) /\ \A x \in KThreads \ {ts} : ts_free'[x] = ts_free[x]
  BY <1>2, <1>4, <1>5, <1>7 DEF f
<1>14. Live' = Live
  BY <1>4 DEF Live
<1>15. Active(o)' = {ts} /\ \A p \in Objects : Active(p)' = Active(p)
  <2>1. \A p \in Objects : Active(p)' = Active(p)
    BY <1>4 DEF Active
  <2>2. Active(o)' = Active(o)
    BY <1>4 DEF Active
  <2> QED  BY <1>2, <2>1, <2>2
<1>16. tc_first' \in [Chains -> SUBSET KThreads] /\ \A k \in Chains : tc_first'[k] \subseteq tc_first[k]
  BY <1>4, <1>5
<1> QED  BY <1>4, <1>7, <1>8, <1>9, <1>10, <1>11, <1>12, <1>13, <1>14, <1>15, <1>16 DEF Leaves, q, f

\* The last one takes the turnstile with it.
LEMMA LeavesLast ==
  ASSUME TsInv, NEW c \in KThreads, turnstile_wakeup(c), NEW o, o = obj[c], NEW ts, ts = Turnstile(o),
         NEW t, t = Head(ts_sleepq[ts]), ts_free[ts] = <<>>
  PROVE  Leaves(o, t, ts, ts)
<1> DEFINE q == ts_sleepq[ts]
<1>1. t_pc[c] = "wake" /\ towake[c] > 0
  BY DEF turnstile_wakeup
<1>2. /\ o \in Objects /\ ts \in Active(o) /\ ts \in KThreads /\ ts \in Live /\ ts_sobj[ts] = o /\ Active(o) = {ts}
  BY <1>1, WaiverIs
<1>3. /\ t \in KThreads /\ t_ts[t] = ts /\ Len(q) \in Nat /\ Len(q) = Len(ts_free[ts]) + 1
      /\ Tail(q) \in Seq(KThreads) /\ Len(Tail(q)) = Len(q) - 1
  BY <1>1, LeaverIs
<1>4. /\ t_ts' = t_ts /\ ts_free' = ts_free /\ tc_first' = [tc_first EXCEPT ![Chain[o]] = @ \ {ts}]
      /\ t_wchan' = [t_wchan EXCEPT ![t] = Null] /\ ts_sobj' = ts_sobj
      /\ ts_sleepq' = [ts_sleepq EXCEPT ![ts] = Tail(@)]
  BY <1>3 DEF turnstile_wakeup, turnstile_dequeue
<1>5. /\ tc_first \in [Chains -> SUBSET KThreads] /\ Chain[o] \in Chains
      /\ ts_sleepq \in [KThreads -> Seq(KThreads)] /\ ts_free \in [KThreads -> Seq(KThreads)]
      /\ t_ts \in [KThreads -> KThreads] /\ t_wchan \in [KThreads -> Objects \cup {Null}]
  BY <1>2, ConstantsAre DEF TsInv, TurnstileTypeOK
<1> HIDE DEF q
<1>6. Tail(q) = <<>>
  <2>1. Len(ts_free[ts]) = 0
    OBVIOUS
  <2>2. Len(Tail(q)) = 0
    BY <1>3, <2>1
  <2> QED  BY <1>3, <2>2, LenZero
<1>7. t_wchan' \in [KThreads -> Objects \cup {Null}] /\ t_wchan'[t] = Null /\ \A s \in KThreads \ {t} : t_wchan'[s] = t_wchan[s]
  BY <1>3, <1>4, <1>5
<1>8. t_ts' \in [KThreads -> KThreads] /\ t_ts'[t] = ts /\ \A s \in KThreads \ {t} : t_ts'[s] = t_ts[s]
  BY <1>3, <1>4, <1>5
<1>9. ts_sleepq' \in [KThreads -> Seq(KThreads)] /\ ts_sleepq'[ts] = Tail(q) /\ \A x \in KThreads \ {ts} : ts_sleepq'[x] = ts_sleepq[x]
  BY <1>2, <1>3, <1>4, <1>5 DEF q
<1>10. ts_free' \in [KThreads -> Seq(KThreads)] /\ ts_free'[ts] = <<>> /\ \A x \in KThreads \ {ts} : ts_free'[x] = ts_free[x]
  BY <1>4, <1>5
<1>11. tc_first' \in [Chains -> SUBSET KThreads] /\ tc_first'[Chain[o]] = tc_first[Chain[o]] \ {ts}
       /\ \A k \in Chains \ {Chain[o]} : tc_first'[k] = tc_first[k]
  BY <1>4, <1>5
<1>12. \A k \in Chains : ts \in tc_first[k] => k = Chain[o]
  BY <1>2 DEF TsInv, TurnstilesPlaced
<1>13. \A k \in Chains : tc_first'[k] = tc_first[k] \ {ts}
  BY <1>5, <1>11, <1>12
<1>14. Live' = Live \ {ts}
  BY <1>13 DEF Live
<1>15. ASSUME NEW p \in Objects PROVE Active(p)' = Active(p) \ {ts}
  BY <1>4, <1>13, ConstantsAre DEF Active
<1>o. Active(o)' = {}
  <2>1. Active(o)' = Active(o) \ {ts}
    BY <1>2, <1>4, <1>13, ConstantsAre DEF Active
  <2> QED  BY <1>2, <2>1
<1>16. \A p \in Objects \ {o} : Active(p)' = Active(p)
  <2>1. \A p \in Objects \ {o} : ts \notin Active(p)
    BY <1>2 DEF Active
  <2> QED  BY <1>15, <2>1
<1>17. Elems(<<>>) = {} /\ Distinct(<<>>)
  BY EmptyQueue
<1>18. \A k \in Chains : tc_first'[k] \subseteq tc_first[k]
  BY <1>13
<1> QED  BY <1>4, <1>6, <1>7, <1>8, <1>9, <1>10, <1>11, <1>14, <1>o, <1>16, <1>17, <1>18 DEF Leaves, q

LEMMA LeavesPlaced ==
  ASSUME TsInv, NEW c \in KThreads, t_pc[c] = "wake", towake[c] > 0, NEW o, o = obj[c], NEW ts, ts = Turnstile(o),
         NEW t, t = Head(ts_sleepq[ts]), NEW g, Leaves(o, t, ts, g)
  PROVE  TurnstilesPlaced' /\ QueuesRight' /\ SparesRight'
<1> DEFINE q == ts_sleepq[ts]
           r == Tail(q)
<1>1. /\ o \in Objects /\ ts \in KThreads /\ ts \in Live /\ ts_sobj[ts] = o
  BY WaiverIs
<1>2. /\ t \in KThreads /\ Sleeps(t) /\ t_wchan[t] = o /\ t_ts[t] = ts
      /\ Elems(q) = {s \in KThreads : t_wchan[s] = o} /\ Distinct(r) /\ Elems(r) = Elems(q) \ {t}
  BY LeaverIs
<1>3. /\ ts_sobj' = ts_sobj
      /\ t_wchan'[t] = Null /\ \A s \in KThreads \ {t} : t_wchan'[s] = t_wchan[s]
  BY DEF Leaves
<1>4. /\ t_ts' \in [KThreads -> KThreads] /\ t_ts'[t] = g /\ \A s \in KThreads \ {t} : t_ts'[s] = t_ts[s]
  BY DEF Leaves
<1>5. /\ \A k \in Chains : tc_first'[k] \subseteq tc_first[k]
      /\ Live' = IF r = <<>> THEN Live \ {ts} ELSE Live
  BY DEF Leaves
<1>6. /\ ts_sleepq'[ts] = r /\ Distinct(ts_free'[ts])
      /\ Elems(ts_free'[ts]) = Elems(ts_free[ts]) \ {g}
      /\ \A x \in KThreads \ {ts} : ts_sleepq'[x] = ts_sleepq[x] /\ ts_free'[x] = ts_free[x]
      /\ IF r = <<>> THEN g = ts /\ ts_free'[ts] = <<>>
         ELSE g \in Elems(ts_free[ts]) /\ Len(r) = Len(ts_free'[ts]) + 1
  BY DEF Leaves
<1> HIDE DEF q, r
<1>7. ~Sleeps(t)' /\ \A s \in KThreads \ {t} : Sleeps(s)' <=> Sleeps(s)
  BY <1>3 DEF Sleeps
<1>8. \A s \in KThreads \ {t} : t_wchan'[s] # o \/ r # <<>>
  <2>1. r = <<>> => Elems(r) = {}
    BY EmptyQueue
  <2> QED  BY <1>2, <1>3, <2>1
<1>9. \A x \in KThreads : /\ Distinct(ts_free[x]) /\ Elems(ts_free[x]) \cap Live = {}
                          /\ \A s \in KThreads : ~Sleeps(s) => t_ts[s] \notin Elems(ts_free[x])
  BY DEF TsInv, SparesRight
<1>10. g \notin Live' /\ g \in KThreads /\ \A s \in KThreads \ {t} : ~Sleeps(s) => t_ts[s] # g
  <2>1. CASE r = <<>>
    <3>1. \A s \in KThreads : ~Sleeps(s) => t_ts[s] \notin Live
      BY DEF TsInv, TurnstilesPlaced
    <3> QED  BY <1>1, <1>5, <1>6, <2>1, <3>1
  <2>2. CASE r # <<>>
    <3>1. g \in KThreads
      BY <1>2, <1>4
    <3> QED  BY <1>1, <1>5, <1>6, <1>9, <2>2, <3>1
  <2> QED  BY <2>1, <2>2
<1>11. TurnstilesPlaced'
  <2>1. ASSUME NEW k \in Chains, NEW x \in tc_first'[k] PROVE ts_sobj'[x] \in Objects /\ Chain[ts_sobj'[x]] = k
    <3>1. x \in tc_first[k]
      BY <1>5
    <3> QED  BY <1>3, <3>1 DEF TsInv, TurnstilesPlaced
  <2>2. ASSUME NEW x \in Live', NEW y \in Live', ts_sobj'[x] = ts_sobj'[y] PROVE x = y
    <3>1. x \in Live /\ y \in Live
      BY <1>5
    <3> QED  BY <1>3, <2>2, <3>1 DEF TsInv, TurnstilesPlaced
  <2>3. ASSUME NEW s \in KThreads, Sleeps(s)' PROVE t_ts'[s] \in Live' /\ ts_sobj'[t_ts'[s]] = t_wchan'[s]
    <3>1. s # t /\ Sleeps(s)
      BY <1>7, <2>3
    <3>2. t_ts[s] \in Live /\ ts_sobj[t_ts[s]] = t_wchan[s]
      BY <3>1 DEF TsInv, TurnstilesPlaced
    <3>3. r = <<>> => t_ts[s] # ts
      BY <1>1, <1>3, <1>8, <3>1, <3>2
    <3> QED  BY <1>3, <1>4, <1>5, <3>1, <3>2, <3>3
  <2>4. ASSUME NEW s \in KThreads, ~Sleeps(s)' PROVE t_ts'[s] \notin Live'
    <3>1. CASE s = t
      BY <1>4, <1>10, <3>1
    <3>2. CASE s # t
      <4>1. ~Sleeps(s)
        BY <1>7, <2>4, <3>2
      <4>2. t_ts[s] \notin Live
        BY <4>1 DEF TsInv, TurnstilesPlaced
      <4> QED  BY <1>4, <1>5, <3>2, <4>2
    <3> QED  BY <3>1, <3>2
  <2>5. ASSUME NEW s \in KThreads, NEW u \in KThreads, ~Sleeps(s)', ~Sleeps(u)', t_ts'[s] = t_ts'[u] PROVE s = u
    <3>1. CASE s # t /\ u # t
      <4>1. ~Sleeps(s) /\ ~Sleeps(u) /\ t_ts[s] = t_ts[u]
        BY <1>4, <1>7, <2>5, <3>1
      <4> QED  BY <4>1 DEF TsInv, TurnstilesPlaced
    <3>2. CASE s = t /\ u # t
      <4>1. ~Sleeps(u) /\ t_ts[u] = g
        BY <1>4, <1>7, <2>5, <3>2
      <4> QED  BY <1>10, <3>2, <4>1
    <3>3. CASE s # t /\ u = t
      <4>1. ~Sleeps(s) /\ t_ts[s] = g
        BY <1>4, <1>7, <2>5, <3>3
      <4> QED  BY <1>10, <3>3, <4>1
    <3> QED  BY <3>1, <3>2, <3>3
  <2> QED  BY <2>1, <2>2, <2>3, <2>4, <2>5 DEF TurnstilesPlaced
<1>12. QueuesRight'
  <2>1. ASSUME NEW x \in Live'
        PROVE  /\ Elems(ts_sleepq'[x]) = {s \in KThreads : t_wchan'[s] = ts_sobj'[x]}
               /\ Distinct(ts_sleepq'[x])
               /\ Len(ts_sleepq'[x]) = Len(ts_free'[x]) + 1
    <3>0. x \in Live
      BY <1>5
    <3>1. CASE x = ts
      <4>1. r # <<>>
        BY <1>5, <3>1
      <4>2. Elems(r) = {s \in KThreads : t_wchan'[s] = o}
        BY <1>1, <1>2, <1>3, ConstantsAre
      <4> QED  BY <1>1, <1>2, <1>3, <1>6, <3>1, <4>1, <4>2
    <3>2. CASE x # ts
      <4>1. x \in KThreads /\ ts_sobj[x] \in Objects
        BY <3>0, LiveIs
      <4>2. /\ Elems(ts_sleepq[x]) = {s \in KThreads : t_wchan[s] = ts_sobj[x]}
            /\ Distinct(ts_sleepq[x]) /\ Len(ts_sleepq[x]) = Len(ts_free[x]) + 1
        BY <3>0 DEF TsInv, QueuesRight
      <4>3. ts_sobj[x] # o /\ ts_sobj[x] # Null
        <5>1. ts_sobj[x] # ts_sobj[ts]
          BY <1>1, <3>0, <3>2 DEF TsInv, TurnstilesPlaced
        <5> QED  BY <1>1, <4>1, <5>1, ConstantsAre
      <4>4. {s \in KThreads : t_wchan'[s] = ts_sobj[x]} = {s \in KThreads : t_wchan[s] = ts_sobj[x]}
        BY <1>2, <1>3, <4>3
      <4> QED  BY <1>3, <1>6, <3>2, <4>1, <4>2, <4>4
    <3> QED  BY <3>1, <3>2
  <2>2. ASSUME NEW x \in KThreads \ Live' PROVE ts_sleepq'[x] = <<>> /\ ts_free'[x] = <<>>
    <3>1. CASE x = ts
      BY <1>1, <1>5, <1>6, <3>1
    <3>2. CASE x # ts
      <4>1. x \in KThreads \ Live
        BY <1>5, <3>2
      <4>2. ts_sleepq[x] = <<>> /\ ts_free[x] = <<>>
        BY <4>1 DEF TsInv, QueuesRight
      <4> QED  BY <1>6, <3>2, <4>2
    <3> QED  BY <3>1, <3>2
  <2> QED  BY <2>1, <2>2 DEF QueuesRight
<1>13. SparesRight'
  <2>1. \A x \in KThreads : Elems(ts_free'[x]) \subseteq Elems(ts_free[x]) /\ Distinct(ts_free'[x])
    BY <1>6, <1>9
  <2>2. \A x \in KThreads : Elems(ts_free'[x]) \cap Live' = {}
    BY <1>5, <1>9, <2>1
  <2>3. \A x, y \in KThreads : x # y => Elems(ts_free[x]) \cap Elems(ts_free[y]) = {}
    BY DEF TsInv, SparesRight
  <2>4. \A x, y \in KThreads : x # y => Elems(ts_free'[x]) \cap Elems(ts_free'[y]) = {}
    BY <2>1, <2>3
  <2>5. ASSUME NEW x \in KThreads PROVE g \notin Elems(ts_free'[x])
    <3>1. CASE x = ts
      BY <1>6, <3>1
    <3>2. CASE x # ts /\ r = <<>>
      BY <1>1, <1>6, <1>9, <2>1, <3>2
    <3>3. CASE x # ts /\ r # <<>>
      <4>1. g \in Elems(ts_free[ts])
        BY <1>6, <3>3
      <4>2. Elems(ts_free[x]) \cap Elems(ts_free[ts]) = {}
        BY <1>1, <2>3, <3>3
      <4> QED  BY <2>1, <4>1, <4>2
    <3> QED  BY <3>1, <3>2, <3>3
  <2>6. ASSUME NEW x \in KThreads, NEW s \in KThreads, ~Sleeps(s)' PROVE t_ts'[s] \notin Elems(ts_free'[x])
    <3>1. CASE s = t
      BY <1>4, <2>5, <3>1
    <3>2. CASE s # t
      <4>1. ~Sleeps(s)
        BY <1>7, <2>6, <3>2
      <4>2. t_ts[s] \notin Elems(ts_free[x])
        BY <1>9, <4>1
      <4> QED  BY <1>4, <2>1, <3>2, <4>2
    <3> QED  BY <3>1, <3>2
  <2> QED  BY <2>1, <2>2, <2>4, <2>6 DEF SparesRight
<1> QED  BY <1>11, <1>12, <1>13

\* The new owner t has priority p from those who still sleep on ts.
Given(t, ts, p) ==
  /\ ts_inheritor' \in [KThreads -> KThreads \cup {Null}] /\ ts_epri' \in [KThreads -> Nat]
  /\ t_prioinv' \in [KThreads -> SUBSET KThreads] /\ t_epri' \in [KThreads -> Nat]
  /\ \A s \in KThreads \ {t} : t_epri'[s] = t_epri[s] /\ t_prioinv'[s] = t_prioinv[s]
  /\ \A z \in KThreads \ {ts} : ts_inheritor'[z] = ts_inheritor[z] /\ ts_epri'[z] = ts_epri[z]
  /\ p <= Pri[t] => ts_inheritor' = ts_inheritor /\ ts_epri' = ts_epri /\ t_prioinv' = t_prioinv
  /\ p > Pri[t] => ts_inheritor'[ts] = t /\ ts_epri'[ts] = p /\ t_prioinv'[t] = t_prioinv[t] \cup {ts}
  /\ EpriRight(t)'
  /\ DISP_PRIO(t, t_epri)' >= DISP_PRIO(t, t_epri)

LEMMA GivenNothing ==
  ASSUME TsInv, NEW t \in KThreads, NEW ts, NEW p \in Nat, p <= Pri[t], UNCHANGED inherits
  PROVE  Given(t, ts, p)
<1>1. ts_inheritor' = ts_inheritor /\ ts_epri' = ts_epri /\ t_prioinv' = t_prioinv /\ t_epri' = t_epri
  BY DEF inherits
<1>2. Pri[t] \in Nat /\ DISP_PRIO(t, t_epri) \in Nat
  BY PriorityIs
<1>3. DISP_PRIO(t, t_epri)' = DISP_PRIO(t, t_epri)
  BY <1>1 DEF DISP_PRIO
<1>4. EpriRight(t)'
  BY <1>1 DEF TsInv, WillsRight, EpriRight
<1>5. /\ ts_inheritor \in [KThreads -> KThreads \cup {Null}] /\ ts_epri \in [KThreads -> Nat]
      /\ t_prioinv \in [KThreads -> SUBSET KThreads] /\ t_epri \in [KThreads -> Nat]
  BY DEF TsInv, TurnstileTypeOK
<1>6. ~(p > Pri[t]) /\ DISP_PRIO(t, t_epri)' >= DISP_PRIO(t, t_epri)
  BY <1>2, <1>3
<1> QED  BY <1>1, <1>4, <1>5, <1>6 DEF Given

LEMMA GivenPriority ==
  ASSUME TsInv, NEW t \in KThreads, NEW ts \in KThreads, NEW p \in Nat, p > Pri[t], ts_inheritor[ts] = Null,
         ts_inheritor' = [ts_inheritor EXCEPT ![ts] = t], ts_epri' = [ts_epri EXCEPT ![ts] = p],
         t_prioinv' = [t_prioinv EXCEPT ![t] = @ \cup {ts}],
         t_epri' = IF p > DISP_PRIO(t, t_epri) THEN [t_epri EXCEPT ![t] = p] ELSE t_epri
  PROVE  Given(t, ts, p)
<1>1. /\ Pri[t] \in Nat /\ DISP_PRIO(t, t_epri) \in Nat /\ DISP_PRIO(t, t_epri) >= t_epri[t]
      /\ t_epri[t] \in Nat /\ DISP_PRIO(t, t_epri) >= Pri[t]
  BY PriorityIs
<1>2. /\ ts_inheritor \in [KThreads -> KThreads \cup {Null}] /\ ts_epri \in [KThreads -> Nat]
      /\ t_prioinv \in [KThreads -> SUBSET KThreads] /\ t_epri \in [KThreads -> Nat]
  BY DEF TsInv, TurnstileTypeOK
<1>3. EpriRight(t) /\ Inheritors
  BY DEF TsInv, WillsRight
<1>4. /\ ts_epri' \in [KThreads -> Nat] /\ ts_epri'[ts] = p /\ \A z \in KThreads \ {ts} : ts_epri'[z] = ts_epri[z]
  BY <1>2
<1>5. /\ ts_inheritor' \in [KThreads -> KThreads \cup {Null}] /\ ts_inheritor'[ts] = t
      /\ \A z \in KThreads \ {ts} : ts_inheritor'[z] = ts_inheritor[z]
  BY <1>2
<1>6. /\ t_prioinv' \in [KThreads -> SUBSET KThreads] /\ t_prioinv'[t] = t_prioinv[t] \cup {ts}
      /\ \A s \in KThreads \ {t} : t_prioinv'[s] = t_prioinv[s]
  BY <1>2
<1>7. ts \notin t_prioinv[t]
  BY <1>3, ConstantsAre DEF Inheritors
<1>8. \A z \in t_prioinv[t] : z \in KThreads \ {ts} /\ ts_epri[z] <= t_epri[t] /\ ts_epri[z] \in Nat /\ ts_epri'[z] = ts_epri[z]
  BY <1>2, <1>3, <1>4, <1>7 DEF EpriRight
<1>9. CASE p > DISP_PRIO(t, t_epri)
  <2>1. t_epri' \in [KThreads -> Nat] /\ t_epri'[t] = p /\ \A s \in KThreads \ {t} : t_epri'[s] = t_epri[s]
    BY <1>2, <1>9
  <2>2. \A z \in t_prioinv'[t] : ts_epri'[z] <= p
    BY <1>1, <1>4, <1>6, <1>8, <1>9
  <2>3. EpriRight(t)'
    BY <1>4, <1>6, <2>1, <2>2 DEF EpriRight
  <2>4. DISP_PRIO(t, t_epri)' >= DISP_PRIO(t, t_epri)
    BY <1>1, <1>9, <2>1 DEF DISP_PRIO
  <2>5. ~(p <= Pri[t])
    BY <1>1
  <2> QED  BY <1>4, <1>5, <1>6, <2>1, <2>3, <2>4, <2>5 DEF Given
<1>10. CASE ~(p > DISP_PRIO(t, t_epri))
  <2>1. t_epri' = t_epri
    BY <1>10
  <2>2. t_epri[t] >= p /\ t_epri[t] # 0
    BY <1>1, <1>10 DEF DISP_PRIO
  <2>3. \A z \in t_prioinv'[t] : ts_epri'[z] <= t_epri[t]
    BY <1>1, <1>4, <1>6, <1>8, <2>2
  <2>4. PICK z \in t_prioinv[t] : t_epri[t] = ts_epri[z]
    BY <1>3, <2>2 DEF EpriRight
  <2>5. EpriRight(t)'
    BY <1>6, <1>8, <2>1, <2>3, <2>4 DEF EpriRight
  <2>6. DISP_PRIO(t, t_epri)' = DISP_PRIO(t, t_epri)
    BY <2>1 DEF DISP_PRIO
  <2>7. ~(p <= Pri[t]) /\ DISP_PRIO(t, t_epri)' >= DISP_PRIO(t, t_epri)
    BY <1>1, <2>6
  <2> QED  BY <1>2, <1>4, <1>5, <1>6, <2>1, <2>5, <2>7 DEF Given
<1> QED  BY <1>9, <1>10

\* What the woken thread has from those who still sleep.
LEMMA WokenIs ==
  ASSUME TsInv, NEW c \in KThreads, turnstile_wakeup(c), NEW o, o = obj[c], NEW ts, ts = Turnstile(o),
         NEW t, t = Head(ts_sleepq[ts])
  PROVE  \E p \in Nat :
           /\ Given(t, ts, p)
           /\ p > Pri[t] => Tail(ts_sleepq[ts]) # <<>> /\ owner[o] = t
           /\ owner[o] = t => \A s \in Elems(Tail(ts_sleepq[ts])) : DISP_PRIO(s, t_epri) <= p
<1> DEFINE r == Tail(ts_sleepq[ts])
<1>1. t_pc[c] = "wake" /\ towake[c] > 0
  BY DEF turnstile_wakeup
<1>2. /\ o \in Objects /\ ts \in KThreads /\ ts_inheritor[ts] = Null
  BY <1>1, WaiverIs
<1>3. /\ t \in KThreads /\ r \in Seq(KThreads) /\ Sorted(r, Prio(t_epri))
  BY <1>1, LeaverIs
<1>4. /\ owner[o] = t => Inherits(ts, t, r)
      /\ owner[o] # t => UNCHANGED inherits
  BY DEF turnstile_wakeup
<1>5. Pri[t] \in Nat
  BY <1>3, ConstantsAre
<1> HIDE DEF r
<1>6. CASE owner[o] # t
  <2>1. Given(t, ts, 0)
    BY <1>3, <1>4, <1>5, <1>6, GivenNothing
  <2>2. 0 \in Nat /\ ~(0 > Pri[t])
    BY <1>5
  <2> QED  BY <1>6, <2>1, <2>2
<1>7. CASE owner[o] = t /\ r = <<>>
  <2>1. UNCHANGED inherits
    BY <1>4, <1>5, <1>7 DEF Inherits
  <2>2. Given(t, ts, 0)
    BY <1>3, <1>5, <2>1, GivenNothing
  <2>3. 0 \in Nat /\ ~(0 > Pri[t]) /\ Elems(r) = {}
    BY <1>5, <1>7, EmptyQueue
  <2> QED  BY <2>2, <2>3 DEF r
<1>8. CASE owner[o] = t /\ r # <<>>
  <2> DEFINE p == DISP_PRIO(Head(r), t_epri)
  <2>1. Head(r) = r[1] /\ Head(r) \in KThreads /\ Len(r) \in Nat /\ Len(r) > 0
    BY <1>3, <1>8
  <2>2. p \in Nat
    BY <2>1, PriorityIs
  <2>3. ASSUME NEW s \in Elems(r) PROVE DISP_PRIO(s, t_epri) <= p
    <3>1. PICK i \in 1 .. Len(r) : s = r[i]
      BY DEF Elems
    <3>2. s \in KThreads
      BY <1>3, <3>1
    <3>3. DISP_PRIO(s, t_epri) \in Nat /\ Prio(t_epri)[s] = DISP_PRIO(s, t_epri) /\ Prio(t_epri)[Head(r)] = p
      BY <2>1, <3>2, PriorityIs, PrioIs
    <3>4. CASE i = 1
      BY <2>1, <2>2, <3>1, <3>4
    <3>5. CASE i # 1
      <4>1. 1 \in 1 .. Len(r) /\ 1 < i
        BY <2>1, <3>5
      <4>2. Prio(t_epri)[r[1]] >= Prio(t_epri)[r[i]]
        BY <1>3, <4>1 DEF Sorted
      <4> HIDE DEF p
      <4> QED  BY <2>1, <2>2, <3>1, <3>3, <4>2
    <3> QED  BY <3>4, <3>5
  <2>4. Given(t, ts, p)
    <3>1. CASE p <= Pri[t]
      <4>1. UNCHANGED inherits
        BY <1>4, <1>8, <3>1 DEF Inherits
      <4> QED  BY <1>3, <2>2, <3>1, <4>1, GivenNothing
    <3>2. CASE ~(p <= Pri[t])
      <4>1. /\ ts_inheritor' = [ts_inheritor EXCEPT ![ts] = t] /\ ts_epri' = [ts_epri EXCEPT ![ts] = p]
            /\ t_prioinv' = [t_prioinv EXCEPT ![t] = @ \cup {ts}]
            /\ t_epri' = IF p > DISP_PRIO(t, t_epri) THEN [t_epri EXCEPT ![t] = p] ELSE t_epri
        BY <1>4, <1>8, <3>2 DEF Inherits
      <4>2. p > Pri[t]
        BY <1>5, <2>2, <3>2
      <4> HIDE DEF p
      <4> QED  BY <1>2, <1>3, <2>2, <4>1, <4>2, GivenPriority
    <3> QED  BY <3>1, <3>2
  <2> HIDE DEF p
  <2> QED  BY <1>8, <2>2, <2>3, <2>4 DEF r
<1> QED  BY <1>6, <1>7, <1>8

LEMMA WakeupStep ==
  ASSUME TsInv, NEW c \in KThreads, turnstile_wakeup(c), NEW o, o = obj[c], NEW ts, ts = Turnstile(o),
         NEW q, q = ts_sleepq[ts], NEW t, t = Head(q), NEW r, r = Tail(q)
  PROVE  TsInv'
<1>1. t_pc[c] = "wake" /\ towake[c] > 0
  BY DEF turnstile_wakeup
<1>2. /\ o \in Objects /\ held[Chain[o]] = c /\ Waking(c, o) /\ Releasing(o) /\ ts \in Active(o)
      /\ ts \in KThreads /\ ts \in Live /\ ts_sobj[ts] = o /\ Active(o) = {ts} /\ ts_inheritor[ts] = Null
      /\ ~Sleeps(c) /\ t_wchan[c] = Null
      /\ \A d \in KThreads \ {c} : t_pc[d] \in {"block", "waive", "wake"} => obj[d] \in Objects \ {o}
  BY <1>1, WaiverIs
<1>3. /\ t \in KThreads /\ t # c /\ Sleeps(t) /\ t_wchan[t] = o /\ t_ts[t] = ts /\ t_lockp[t] = Chain[o]
      /\ t_pc[t] \in Blocking /\ obj[t] = o
      /\ q \in Seq(KThreads) /\ Elems(q) = {s \in KThreads : t_wchan[s] = o} /\ Len(q) \in Nat
      /\ r \in Seq(KThreads) /\ Elems(r) = Elems(q) \ {t} /\ Sorted(r, Prio(t_epri)) /\ Len(r) = Len(q) - 1
      /\ o \in Handoff => towake[c] = 1 /\ owner[o] = t /\ (Len(q) > 1 => m_waiters[o])
      /\ o \notin Handoff => towake[c] = Len(q) /\ owner[o] # t
  BY <1>1, LeaverIs
<1>4. /\ owner' = owner /\ m_waiters' = m_waiters /\ held' = held /\ obj' = obj /\ at' = at /\ olp' = olp
      /\ inverted' = inverted /\ step' = step /\ t_pc' = t_pc
      /\ t_lockp' = [t_lockp EXCEPT ![t] = RunLock[t]] /\ towake' = [towake EXCEPT ![c] = @ - 1]
  BY DEF turnstile_wakeup, objects
<1>5. PICK g : Leaves(o, t, ts, g)
  <2>1. CASE ts_free[ts] = <<>>
    BY <2>1, LeavesLast
  <2>2. CASE ts_free[ts] # <<>>
    BY <2>2, LeavesOthers
  <2> QED  BY <2>1, <2>2
<1>6. PICK p \in Nat : /\ Given(t, ts, p)
                       /\ p > Pri[t] => r # <<>> /\ owner[o] = t
                       /\ owner[o] = t => \A s \in Elems(r) : DISP_PRIO(s, t_epri) <= p
  BY WokenIs
<1>7. TurnstilesPlaced' /\ QueuesRight' /\ SparesRight'
  BY <1>1, <1>5, LeavesPlaced
<1>8. /\ t_lockp' \in [KThreads -> Locks] /\ t_lockp'[t] = RunLock[t] /\ \A d \in KThreads \ {t} : t_lockp'[d] = t_lockp[d]
  BY <1>3, <1>4, ConstantsAre DEF TsInv, TurnstileTypeOK
<1>9. /\ towake' \in [KThreads -> Nat] /\ towake'[c] = towake[c] - 1 /\ \A d \in KThreads \ {c} : towake'[d] = towake[d]
  BY <1>1, <1>4, TypesAre
<1>10. /\ t_wchan' \in [KThreads -> Objects \cup {Null}] /\ t_wchan'[t] = Null
       /\ \A s \in KThreads \ {t} : t_wchan'[s] = t_wchan[s] /\ t_ts'[s] = t_ts[s]
  BY <1>5 DEF Leaves
<1>11. ~Sleeps(t)' /\ \A s \in KThreads \ {t} : Sleeps(s)' <=> Sleeps(s)
  BY <1>10 DEF Sleeps
<1>12. /\ \A s \in KThreads \ {t} : t_epri'[s] = t_epri[s] /\ t_prioinv'[s] = t_prioinv[s]
       /\ \A z \in KThreads \ {ts} : ts_inheritor'[z] = ts_inheritor[z] /\ ts_epri'[z] = ts_epri[z]
       /\ p <= Pri[t] => ts_inheritor' = ts_inheritor /\ ts_epri' = ts_epri /\ t_prioinv' = t_prioinv
       /\ p > Pri[t] => ts_inheritor'[ts] = t /\ ts_epri'[ts] = p /\ t_prioinv'[t] = t_prioinv[t] \cup {ts}
       /\ EpriRight(t)'
       /\ DISP_PRIO(t, t_epri)' >= DISP_PRIO(t, t_epri)
  BY <1>6 DEF Given
<1>13. Pri[t] \in Nat /\ (p <= Pri[t] \/ p > Pri[t])
  BY <1>3, <1>6, ConstantsAre
<1>14. TurnstileTypeOK' /\ TsLocals'
  <2>1. TurnstileTypeOK'
    <3>1. /\ owner' \in [Objects -> KThreads \cup {Null}] /\ m_waiters' \in [Objects -> BOOLEAN]
          /\ held' \in [Locks -> KThreads \cup {Null}] /\ at' \in [KThreads -> KThreads] /\ olp' \in [KThreads -> Locks]
      BY <1>4 DEF TsInv, TurnstileTypeOK
    <3>2. /\ tc_first' \in [Chains -> SUBSET KThreads] /\ t_ts' \in [KThreads -> KThreads]
          /\ ts_sobj' \in [KThreads -> Objects \cup {Null}]
          /\ ts_free' \in [KThreads -> Seq(KThreads)] /\ ts_sleepq' \in [KThreads -> Seq(KThreads)]
      BY <1>5 DEF Leaves, TsInv, TurnstileTypeOK
    <3>3. /\ ts_inheritor' \in [KThreads -> KThreads \cup {Null}] /\ ts_epri' \in [KThreads -> Nat]
          /\ t_prioinv' \in [KThreads -> SUBSET KThreads] /\ t_epri' \in [KThreads -> Nat]
      BY <1>6 DEF Given
    <3> QED  BY <1>8, <1>9, <1>10, <3>1, <3>2, <3>3 DEF TurnstileTypeOK
  <2> QED  BY <1>4, <2>1 DEF TsInv, TsLocals
<1>15. /\ \A w : w # o => (Releasing(w)' <=> Releasing(w))
       /\ Releasing(o)' <=> towake'[c] > 0
  <2>1. \A d \in KThreads \ {c} : \A w : Waking(d, w)' <=> Waking(d, w)
    BY <1>4, <1>9 DEF Waking
  <2>2. \A w : w # o => ~Waking(c, w)' /\ ~Waking(c, w)
    BY <1>4 DEF Waking
  <2>3. Waking(c, o)' <=> towake'[c] > 0
    BY <1>1, <1>4 DEF Waking
  <2>4. \A d \in KThreads \ {c} : ~Waking(d, o)
    BY <1>2 DEF Waking
  <2>5. \A d \in KThreads \ {c} : ~Waking(d, o)'
    BY <1>2, <1>4 DEF Waking
  <2> QED  BY <2>1, <2>2, <2>3, <2>5 DEF Releasing
<1>16. \A s \in KThreads \ {t} : DISP_PRIO(s, t_epri)' = DISP_PRIO(s, t_epri) /\ DISP_PRIO(s, t_epri) \in Nat
  BY <1>12, PriorityIs DEF DISP_PRIO
<1>17. Calm(c)
  <2>1. Others(c)
    BY <1>4, <1>9 DEF Others
  <2>2. StayAsleep
    BY <1>2, <1>3, <1>10 DEF StayAsleep
  <2>3. Owned
    BY <1>2, <1>4, <1>15 DEF Owned
  <2>4. Rises
    <3>1. SUFFICES ASSUME NEW s \in KThreads, Sleeps(s) PROVE DISP_PRIO(s, t_epri)' >= DISP_PRIO(s, t_epri)
      BY DEF Rises
    <3>2. CASE s = t
      BY <1>12, <3>2
    <3>3. CASE s # t
      BY <1>16, <3>3
    <3> QED  BY <3>2, <3>3
  <2>5. Locked(c)
    BY <1>3, <1>4, <1>10 DEF Locked
  <2> QED  BY <2>1, <2>2, <2>3, <2>4, <2>5 DEF Calm
<1>18. PlacesRight'
  <2>1. SUFFICES ASSUME NEW d \in KThreads PROVE PlaceRight(d)'
    BY DEF PlacesRight
  <2>2. PlaceRight(d)
    BY DEF TsInv, PlacesRight
  <2>3. CASE d = t
    BY <1>4, <1>8, <1>11, <2>2, <2>3 DEF PlaceRight
  <2>4. CASE d # t
    BY <1>4, <1>8, <1>10, <1>11, <2>2, <2>4 DEF PlaceRight
  <2> QED  BY <2>3, <2>4
<1>19. OwnersRight'
  BY <1>4 DEF TsInv, OwnersRight, OwnsRight
<1>20. SpinsRight' /\ WalksRight'
  <2>1. SpinRight(c)'
    BY <1>1, <1>2, <1>4 DEF SpinRight, Walking
  <2>2. WalkRight(c)'
    BY <1>1, <1>4 DEF WalkRight, Walking
  <2> QED  BY <1>14, <1>17, <1>18, <2>1, <2>2, SpinOthers, WalkOthers DEF SpinsRight, WalksRight
<1>21. ASSUME NEW s \in KThreads, s # t, t_wchan[s] = o, ~(towake'[c] > 0)
       PROVE  o \in Handoff /\ owner[o] = t /\ m_waiters[o] /\ s \in Elems(r)
  <2>1. s \in Elems(r)
    BY <1>3, <1>21
  <2>2. Len(r) > 0
    <3>1. r # <<>>
      BY <2>1, EmptyQueue
    <3> QED  BY <1>3, <3>1
  <2>3. Len(q) > 1
    BY <1>3, <2>2
  <2>4. o \in Handoff
    BY <1>3, <1>9, <1>21, <2>3
  <2> QED  BY <1>3, <2>1, <2>3, <2>4
<1>22. WaitedFor'
  <2>1. ASSUME NEW s \in KThreads, Sleeps(s)', ~Releasing(t_wchan[s])'
        PROVE  owner[t_wchan[s]] # Null /\ m_waiters[t_wchan[s]] /\ t_wchan'[owner[t_wchan[s]]] # t_wchan[s]
    <3>1. s # t /\ Sleeps(s) /\ t_wchan'[s] = t_wchan[s] /\ t_wchan[s] \in Objects /\ t_wchan[s] # Null
      BY <1>10, <1>11, <2>1, SleeperIs DEF Sleeps
    <3>2. CASE t_wchan[s] = o
      <4>1. ~Releasing(o)'
        BY <2>1, <3>1, <3>2 DEF Releasing, Waking
      <4>2. owner[o] = t /\ m_waiters[o]
        BY <1>15, <1>21, <3>1, <3>2, <4>1
      <4> QED  BY <1>3, <1>10, <3>1, <3>2, <4>2, ConstantsAre
    <3>3. CASE t_wchan[s] # o
      <4>1. ~Releasing(t_wchan[s])
        BY <1>15, <2>1, <3>1, <3>3 DEF Releasing, Waking
      <4>2. owner[t_wchan[s]] # Null /\ m_waiters[t_wchan[s]] /\ t_wchan[owner[t_wchan[s]]] # t_wchan[s]
        BY <3>1, <4>1 DEF TsInv, WaitedFor
      <4>3. owner[t_wchan[s]] \in KThreads
        BY <3>1, <4>2, TypesAre
      <4> QED  BY <1>10, <3>1, <4>2, <4>3
    <3> QED  BY <3>2, <3>3
  <2>2. ASSUME NEW s \in KThreads, Sleeps(s)' PROVE t_wchan'[s] = t_wchan[s]
    BY <1>10, <1>11, <2>2
  <2> QED  BY <1>4, <2>1, <2>2 DEF TsInv, WaitedFor, Releasing, Waking
<1>23. /\ \A x \in KThreads \ {ts} : ts_sleepq'[x] = ts_sleepq[x]
       /\ \A w \in Objects \ {o} : Active(w)' = Active(w)
       /\ ts_sleepq'[ts] = r
       /\ Live' = IF r = <<>> THEN Live \ {ts} ELSE Live
       /\ ts_sobj' = ts_sobj
  BY <1>5 DEF Leaves
<1>a. Active(obj[c])' = IF r = <<>> THEN {} ELSE {ts}
  <2>1. Active(o)' = IF r = <<>> THEN {} ELSE {ts}
    BY <1>5 DEF Leaves
  <2> QED  BY <1>4, <2>1 DEF Active
<1>24. ExitsRight'
  <2>1. SUFFICES ASSUME NEW d \in KThreads, t_pc[d] \in {"waive", "wake"} PROVE ExitRight(d)'
    BY <1>4 DEF ExitsRight, ExitRight
  <2>2. CASE d # c
    <3>1. ExitRight(d) /\ obj[d] \in Objects \ {o}
      BY <1>2, <2>1, <2>2 DEF TsInv, ExitsRight
    <3>2. Active(obj[d])' = Active(obj[d])
      BY <1>4, <1>23, <3>1 DEF Active
    <3>3. \A x \in Active(obj[d]) : x \in KThreads \ {ts}
      <4>1. \A x \in Active(obj[d]) : x \in KThreads /\ ts_sobj[x] = obj[d]
        BY <3>1, ActiveIs
      <4> QED  BY <1>2, <3>1, <4>1
    <3>4. \A x \in Active(obj[d]) : ts_inheritor'[x] = ts_inheritor[x] /\ ts_sleepq'[x] = ts_sleepq[x]
      BY <1>12, <1>23, <3>3
    <3>5. \A s \in KThreads : t_wchan'[s] = obj[d] => t_wchan[s] = obj[d]
      BY <1>10, <3>1, ConstantsAre
    <3> QED  BY <1>4, <1>9, <2>1, <2>2, <3>1, <3>2, <3>4, <3>5 DEF ExitRight
  <2>3. CASE d = c
    <3>1. o \in Handoff => towake'[c] = 0
      BY <1>3, <1>9
    <3>2. o \notin Handoff => towake'[c] = Len(r) /\ ts_inheritor'[ts] = Null
      <4>1. ASSUME o \notin Handoff PROVE towake'[c] = Len(r) /\ ts_inheritor'[ts] = Null
        <5>1. towake'[c] = Len(r)
          BY <1>3, <1>9, <4>1
        <5>2. p <= Pri[t]
          BY <1>3, <1>6, <1>13, <4>1
        <5> QED  BY <1>2, <1>12, <5>1, <5>2
      <4> QED  BY <4>1
    <3>3. towake'[c] > 0 => r # <<>>
      <4>1. r = <<>> => Len(r) = 0
        BY <1>3, LenZero
      <4>2. o \notin Handoff => towake'[c] = Len(r)
        BY <3>2
      <4>3. r = <<>> => towake'[c] = 0
        BY <3>1, <4>1, <4>2
      <4> QED  BY <4>3
    <3>4. o \notin Handoff => \A s \in KThreads : t_wchan'[s] = o => towake'[c] > 0
      BY <1>2, <1>10, <1>21, ConstantsAre
    <3>5. \A x \in Active(obj[c])' : x = ts
      BY <1>a
    <3>6. towake'[c] > 0 => Active(obj[c])' # {}
      BY <1>a, <3>3
    <3>7. obj'[c] = o /\ t_pc'[c] = "wake" /\ towake'[c] \in Nat
      BY <1>1, <1>4, <1>9
    <3>8. o \in Handoff => ~(towake'[c] > 0) /\ towake'[c] <= 1 /\ towake'[c] # 1
      BY <3>1
    <3> QED  BY <1>23, <2>3, <3>2, <3>4, <3>5, <3>6, <3>7, <3>8 DEF ExitRight
  <2> QED  BY <2>2, <2>3
<1>25. WillsRight'
  <2>0. Inheritors
    BY DEF TsInv, WillsRight
  <2>a. \A s \in KThreads : ts \notin t_prioinv[s] /\ t_prioinv[s] \subseteq KThreads
    BY <1>2, <2>0, ConstantsAre DEF Inheritors, TsInv, TurnstileTypeOK
  <2>1. Inheritors'
    <3>1. CASE p <= Pri[t]
      BY <1>12, <2>0, <3>1 DEF Inheritors
    <3>2. CASE p > Pri[t]
      <4>1. /\ ts_inheritor'[ts] = t /\ t_prioinv'[t] = t_prioinv[t] \cup {ts}
        BY <1>12, <3>2
      <4>2. SUFFICES ASSUME NEW s \in KThreads, NEW x \in KThreads PROVE x \in t_prioinv'[s] <=> ts_inheritor'[x] = s
        BY DEF Inheritors
      <4>3. CASE x = ts
        BY <1>12, <2>a, <4>1, <4>3
      <4>4. CASE x # ts
        BY <1>12, <2>0, <4>1, <4>4 DEF Inheritors
      <4> QED  BY <4>3, <4>4
    <3> QED  BY <1>13, <3>1, <3>2
  <2>2. ASSUME NEW s \in KThreads PROVE EpriRight(s)'
    <3>1. CASE s = t
      BY <1>12, <3>1
    <3>2. CASE s # t
      <4>1. EpriRight(s)
        BY DEF TsInv, WillsRight
      <4>2. \A x \in t_prioinv[s] : ts_epri'[x] = ts_epri[x]
        BY <1>12, <2>a
      <4> QED  BY <1>12, <3>2, <4>1, <4>2 DEF EpriRight
    <3> QED  BY <3>1, <3>2
  <2>3. ASSUME NEW x \in KThreads PROVE WillRight(x)'
    <3>1. CASE x = ts
      <4>1. CASE p <= Pri[t]
        BY <1>2, <1>12, <3>1, <4>1 DEF WillRight
      <4>2. CASE p > Pri[t]
        <5>1. r # <<>> /\ owner[o] = t
          BY <1>6, <4>2
        <5>2. ts \in Live'
          BY <1>2, <1>23, <5>1
        <5>3. ts_inheritor'[ts] = t /\ ts_epri'[ts] = p /\ ts_sobj'[ts] = o
          BY <1>2, <1>12, <1>23, <4>2
        <5> QED  BY <1>4, <3>1, <4>2, <5>1, <5>2, <5>3 DEF WillRight
      <4> QED  BY <1>13, <4>1, <4>2
    <3>2. CASE x # ts
      <4>1. WillRight(x)
        BY DEF TsInv, WillsRight
      <4>2. x \in Live => x \in Live'
        BY <1>23, <3>2
      <4>3. ts_inheritor'[x] = ts_inheritor[x] /\ ts_epri'[x] = ts_epri[x]
        BY <1>12, <3>2
      <4> QED  BY <1>4, <1>23, <4>1, <4>2, <4>3 DEF WillRight
    <3> QED  BY <3>1, <3>2
  <2> QED  BY <2>1, <2>2, <2>3 DEF WillsRight
<1>26. PriorityRight'
  <2>1. SUFFICES ASSUME NEW s \in KThreads, s # t, Sleeps(s) PROVE PriRight(s)'
    BY <1>11 DEF PriorityRight, PriRight
  <2>2. t_wchan'[s] = t_wchan[s] /\ t_ts'[s] = t_ts[s]
    BY <1>10, <2>1
  <2>3. CASE t_wchan[s] = o
    <3>1. CASE towake'[c] > 0
      <4>1. Releasing(t_wchan[s])'
        BY <1>15, <2>2, <2>3, <3>1 DEF Releasing, Waking
      <4> QED  BY <4>1 DEF PriRight
    <3>2. CASE ~(towake'[c] > 0)
      <4>1. owner[o] = t /\ s \in Elems(r)
        BY <1>21, <2>1, <2>3, <3>2
      <4>2. DISP_PRIO(s, t_epri)' <= p
        BY <1>6, <1>16, <2>1, <4>1
      <4>3. t_ts[s] = ts
        BY <1>2, <2>1, <2>3, SleeperIs
      <4>4. p \in Nat /\ DISP_PRIO(s, t_epri)' \in Nat
        BY <1>6, <1>16, <2>1
      <4>5. CASE p <= Pri[t]
        <5>1. DISP_PRIO(s, t_epri)' <= Pri[t]
          BY <1>13, <4>2, <4>4, <4>5
        <5>2. Covered(s)'
          BY <1>4, <2>2, <2>3, <4>1, <5>1 DEF Covered
        <5> QED  BY <5>2 DEF PriRight
      <4>6. CASE p > Pri[t]
        <5>1. ts_inheritor'[ts] = t /\ ts_epri'[ts] = p
          BY <1>12, <4>6
        <5>2. Covered(s)'
          BY <1>4, <2>2, <2>3, <4>1, <4>2, <4>3, <5>1 DEF Covered
        <5> QED  BY <5>2 DEF PriRight
      <4> QED  BY <1>13, <4>5, <4>6
    <3> QED  BY <3>1, <3>2
  <2>4. CASE t_wchan[s] # o
    <3>1. Releasing(t_wchan[s]) => PriRight(s)'
      <4>0. PICK w : w = t_wchan[s]
        OBVIOUS
      <4>1. Releasing(t_wchan[s]) => Releasing(t_wchan[s])'
        BY <1>15, <2>2, <2>4, <4>0 DEF Releasing, Waking
      <4> QED  BY <4>1 DEF PriRight
    <3>2. ASSUME Covered(s) PROVE PriRight(s)'
      <4>1. t_ts[s] \in KThreads \ {ts}
        BY <1>2, <2>1, <2>4, SleeperIs DEF TsInv, TurnstilesPlaced
      <4>2. /\ ts_inheritor'[t_ts[s]] = ts_inheritor[t_ts[s]] /\ ts_epri'[t_ts[s]] = ts_epri[t_ts[s]]
            /\ DISP_PRIO(s, t_epri)' = DISP_PRIO(s, t_epri)
        BY <1>12, <1>16, <2>1, <4>1
      <4>3. Covered(s)'
        BY <1>4, <2>2, <3>2, <4>2 DEF Covered
      <4> QED  BY <4>3 DEF PriRight
    <3>3. ~Bound(c, s)
      BY <1>1 DEF Bound, Following
    <3> QED  BY <1>14, <1>17, <2>1, <3>1, <3>2, <3>3, PriFrame
  <2> QED  BY <2>3, <2>4
<1>27. QueuesSorted'
  <2>1. SUFFICES ASSUME NEW x \in KThreads PROVE Sorted(ts_sleepq'[x], Prio(t_epri'))
    BY DEF QueuesSorted, Prio, DISP_PRIO
  <2>2. /\ ts_sleepq'[x] \in Seq(KThreads) /\ Sorted(ts_sleepq'[x], Prio(t_epri)) /\ t \notin Elems(ts_sleepq'[x])
    <3>1. CASE x = ts
      BY <1>3, <1>23, <3>1
    <3>2. CASE x # ts
      BY <1>3, <1>23, <3>2, QueuedIs
    <3> QED  BY <3>1, <3>2
  <2>3. \A s \in Elems(ts_sleepq'[x]) : s \in KThreads \ {t}
    <3>1. Elems(ts_sleepq'[x]) \subseteq KThreads
      BY <2>2 DEF Elems
    <3> QED  BY <2>2, <3>1
  <2>4. \A s \in KThreads \ {t} : Prio(t_epri')[s] = Prio(t_epri)[s]
    BY <1>12 DEF Prio, DISP_PRIO
  <2>5. \A s \in Elems(ts_sleepq'[x]) : Prio(t_epri')[s] = Prio(t_epri)[s]
    BY <2>3, <2>4
  <2> QED  BY <2>2, <2>5, SortedDepends
<1> QED  BY <1>7, <1>14, <1>18, <1>19, <1>20, <1>22, <1>24, <1>25, <1>26, <1>27 DEF TsInv

LEMMA WakeupKeeps ==
  ASSUME TsInv, NEW c \in KThreads, turnstile_wakeup(c)
  PROVE  TsInv'
<1>1. PICK o, ts, q, t, r : o = obj[c] /\ ts = Turnstile(o) /\ q = ts_sleepq[ts] /\ t = Head(q) /\ r = Tail(q)
  OBVIOUS
<1> QED  BY <1>1, WakeupStep

-----------------------------------------------------------------------------
(* The invariant                                                           *)

LEMMA TsInitial == TurnstileInit => TsInv
<1> SUFFICES ASSUME TurnstileInit PROVE TsInv
  OBVIOUS
<1>1. /\ owner = [o \in Objects |-> Null] /\ m_waiters = [o \in Objects |-> FALSE]
      /\ tc_first = [k \in Chains |-> {}]
      /\ t_ts = [t \in KThreads |-> t]
      /\ ts_sobj = [t \in KThreads |-> Null] /\ ts_free = [t \in KThreads |-> <<>>]
      /\ ts_sleepq = [t \in KThreads |-> <<>>] /\ ts_inheritor = [t \in KThreads |-> Null]
      /\ ts_epri = [t \in KThreads |-> 0] /\ t_prioinv = [t \in KThreads |-> {}]
      /\ t_epri = [t \in KThreads |-> 0] /\ t_wchan = [t \in KThreads |-> Null]
      /\ t_lockp = RunLock /\ held = [l \in Locks |-> Null]
  BY DEF TurnstileInit
<1>2. /\ t_pc = [t \in KThreads |-> "run"] /\ obj = [t \in KThreads |-> Null]
      /\ at = [t \in KThreads |-> t] /\ olp = [t \in KThreads |-> RunLock[t]]
      /\ inverted = [t \in KThreads |-> FALSE] /\ towake = [t \in KThreads |-> 0]
      /\ step = [t \in KThreads |-> 0]
  BY DEF TurnstileInit
<1>3. TurnstileTypeOK
  <2>1. /\ owner \in [Objects -> KThreads \cup {Null}] /\ m_waiters \in [Objects -> BOOLEAN]
        /\ tc_first \in [Chains -> SUBSET KThreads] /\ t_ts \in [KThreads -> KThreads]
        /\ ts_sobj \in [KThreads -> Objects \cup {Null}]
    BY <1>1
  <2>2. /\ ts_free \in [KThreads -> Seq(KThreads)] /\ ts_sleepq \in [KThreads -> Seq(KThreads)]
    BY <1>1
  <2>3. /\ ts_inheritor \in [KThreads -> KThreads \cup {Null}] /\ ts_epri \in [KThreads -> Nat]
        /\ t_prioinv \in [KThreads -> SUBSET KThreads] /\ t_epri \in [KThreads -> Nat]
        /\ t_wchan \in [KThreads -> Objects \cup {Null}]
    BY <1>1
  <2>4. /\ t_lockp \in [KThreads -> Locks] /\ held \in [Locks -> KThreads \cup {Null}]
    BY <1>1, SetsAssumption DEF Locks
  <2>5. /\ at \in [KThreads -> KThreads] /\ olp \in [KThreads -> Locks] /\ towake \in [KThreads -> Nat]
    BY <1>2, ConstantsAre
  <2> QED  BY <2>1, <2>2, <2>3, <2>4, <2>5 DEF TurnstileTypeOK
<1>4. TsLocals
  BY <1>2 DEF TsLocals
<1>5. \A t \in KThreads : ~Sleeps(t) /\ t_wchan[t] = Null /\ t_pc[t] = "run"
  BY <1>1, <1>2 DEF Sleeps
<1>6. PlacesRight
  BY <1>1, <1>2, <1>5, ConstantsAre DEF PlacesRight, PlaceRight, Blocking, Following
<1>7. OwnersRight
  <2>1. \A t \in KThreads : Taken(t, step[t]) = {}
    BY <1>2, TakenNone
  <2> QED  BY <1>1, <1>5, <2>1, ConstantsAre DEF OwnersRight, OwnsRight
<1>8. SpinsRight
  BY <1>5 DEF SpinsRight, SpinRight, Walking
<1>9. Live = {}
  BY <1>1 DEF Live
<1>10. TurnstilesPlaced
  BY <1>1, <1>5, <1>9 DEF TurnstilesPlaced
<1>11. QueuesRight
  BY <1>1, <1>9 DEF QueuesRight
<1>12. SparesRight
  <2>1. Elems(<<>>) = {} /\ Distinct(<<>>)
    BY EmptyQueue
  <2> QED  BY <1>1, <2>1 DEF SparesRight
<1>13. WaitedFor
  BY <1>5 DEF WaitedFor
<1>14. ExitsRight
  BY <1>5 DEF ExitsRight, ExitRight
<1>15. WillsRight
  BY <1>1, ConstantsAre DEF WillsRight, Inheritors, WillRight, EpriRight
<1>16. WalksRight
  BY <1>5 DEF WalksRight, WalkRight, Walking
<1>17. PriorityRight
  BY <1>5 DEF PriorityRight, PriRight
<1>18. QueuesSorted
  <2>1. Sorted(<<>>, Prio(t_epri))
    BY EmptyQueue
  <2> QED  BY <1>1, <2>1 DEF QueuesSorted
<1> QED  BY <1>3, <1>4, <1>6, <1>7, <1>8, <1>10, <1>11, <1>12, <1>13, <1>14, <1>15, <1>16, <1>17, <1>18 DEF TsInv

LEMMA TsStutters ==
  ASSUME TsInv, UNCHANGED ts_vars
  PROVE  TsInv'
<1>1. /\ UNCHANGED <<owner, m_waiters>> /\ UNCHANGED <<tc_first, t_ts, ts_sobj, ts_free, ts_sleepq, t_wchan>>
      /\ UNCHANGED <<ts_inheritor, ts_epri, t_prioinv, t_epri>> /\ UNCHANGED <<t_lockp, held>>
      /\ UNCHANGED <<obj, at, olp, inverted, towake, step>> /\ t_pc' = t_pc
  BY DEF ts_vars, objects, turnstiles, inherits, locks, local
<1>2. TurnstileTypeOK'
  BY <1>1 DEF TsInv, TurnstileTypeOK
<1>3. TsLocals' /\ PlacesRight' /\ OwnersRight'
  BY <1>1 DEF TsInv, TsLocals, PlacesRight, PlaceRight, OwnersRight, OwnsRight, Sleeps
<1>4. SpinsRight'
  BY <1>1 DEF TsInv, SpinsRight, SpinRight, Ends, Blocker
<1>5. UNCHANGED turnstiles
  BY <1>1 DEF turnstiles
<1>6. TurnstilesPlaced' /\ QueuesRight' /\ SparesRight' /\ \A o : Active(o)' = Active(o)
  BY <1>5, TurnstilesFrame
<1>7. \A o : Releasing(o)' <=> Releasing(o)
  BY <1>1 DEF Releasing, Waking
<1>8. \A t : Sleeps(t)' <=> Sleeps(t)
  BY <1>1 DEF Sleeps
<1>9. WaitedFor'
  BY <1>1, <1>7, <1>8 DEF TsInv, WaitedFor
<1>10. ExitsRight'
  BY <1>1, <1>6 DEF TsInv, ExitsRight, ExitRight
<1>11. WillsRight'
  BY <1>1 DEF TsInv, WillsRight, Inheritors, WillRight, EpriRight, Live
<1>12. /\ \A S, s : WaitsIn(S, s)' <=> WaitsIn(S, s)
       /\ \A s : Urgent(s)' <=> Urgent(s)
       /\ \A c : From(c)' = From(c)
       /\ \A s : Covered(s)' <=> Covered(s)
  BY <1>1, <1>7, <1>8 DEF WaitsIn, Urgent, From, Covered, DISP_PRIO
<1>13. WalksRight'
  BY <1>1, <1>8, <1>12 DEF TsInv, WalksRight, WalkRight
<1>14. \A c, t : Bound(c, t)' <=> Bound(c, t)
  BY <1>1, <1>12 DEF Bound
<1>15. PriorityRight'
  BY <1>1, <1>7, <1>8, <1>12, <1>14 DEF TsInv, PriorityRight, PriRight
<1>16. QueuesSorted'
  BY <1>1, SortedFrame
<1> QED  BY <1>2, <1>3, <1>4, <1>6, <1>9, <1>10, <1>11, <1>13, <1>15, <1>16 DEF TsInv

\* The invariant of the turnstiles holds always: where every turnstile is,
\* who owns what, who holds which spin lock, and for every sleeper why the
\* owner it waits for has its priority, or is about to get it.
THEOREM TurnstileInvariant == TurnstileSpec => []TsInv
<1>1. TurnstileInit => TsInv
  BY TsInitial
<1>2. TsInv /\ [TurnstileNext]_ts_vars => TsInv'
  <2> SUFFICES ASSUME TsInv, [TurnstileNext]_ts_vars PROVE TsInv'
    OBVIOUS
  <2>1. ASSUME NEW c \in KThreads, Follow(c) PROVE TsInv'
    BY <2>1, SwtchKeeps, InterlockKeeps, TryKeeps, WrongKeeps, FailKeeps, SpinKeeps, LoseKeeps, LostKeeps,
       RestartKeeps, WillKeeps DEF Follow
  <2>2. ASSUME NEW c \in KThreads, Step(c) PROVE TsInv'
    BY <2>1, <2>2, EnterKeeps, LookupKeeps, BlockKeeps, ResumeKeeps, ExitKeeps, ExitLookupKeeps, WaiveKeeps,
       WakeupKeeps, WakeupExitKeeps DEF Step
  <2>3. CASE UNCHANGED ts_vars
    BY <2>3, TsStutters
  <2>4. CASE Done
    BY <2>4, TsStutters DEF Done
  <2> QED  BY <2>2, <2>3, <2>4 DEF TurnstileNext
<1> QED  BY <1>1, <1>2, PTL DEF TurnstileSpec

\* Turnstiles, sleep queues and inherited priorities are accounted for,
\* through turnstile_block(), turnstile_wakeup() and the interlock.
THEOREM TurnstilesAreRight == TurnstileSpec => []TurnstilesRight
BY TurnstileInvariant, TurnstilesFollow, PTL

\* turnstile_pi_inherit() is called with both thread locks held, and the
\* panic "cycle in blocking chain" does not happen to threads that take
\* locks in one order.
THEOREM LocksAreHeldToWill == TurnstileSpec => []LocksHeldToWill
BY TurnstileInvariant, HeldToWill, PTL

\* When turnstile_block() and turnstile_wakeup() have come to an end, no owner
\* of an object has less priority than who sleeps on it.
THEOREM NoInversionIsLeft == TurnstileSpec => []NoInversion
BY TurnstileInvariant, NoneInverted, PTL
=============================================================================
