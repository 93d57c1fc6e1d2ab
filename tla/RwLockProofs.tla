---------------------------- MODULE RwLockProofs ----------------------------
(***************************************************************************)
(* Proofs about RwLock, for any finite set of threads and any priorities:  *)
(* IInv is inductive, the safety properties follow from it, and every step *)
(* of the code is a step of RwSpec or leaves the abstract lock unchanged.  *)
(***************************************************************************)
EXTENDS RwLock, FiniteSetTheorems, TLAPS

(***************************************************************************)
(* Sleep queues.                                                           *)
(***************************************************************************)

\* sleepq_insert() and rw_readers_to_wake() stop inside the queue; a walk for
\* the priority -1 of no waiting writer goes to the end of it.
LEMMA WalkBound ==
  ASSUME NEW s \in Seq(Threads), NEW p \in Int
  PROVE  /\ Walk(s, p) \in 0..Len(s)
         /\ pri \in [Threads -> Priorities] => Walk(s, -1) = Len(s)
PROOF
<1> DEFINE W == {i \in 1..Len(s) : \A j \in 1..i : pri[s[j]] >= p}
           V == {i \in 1..Len(s) : \A j \in 1..i : pri[s[j]] >= -1}
<1>1. Len(s) \in Nat
  OBVIOUS
<1>2. IsFiniteSet(1..Len(s)) /\ Cardinality(1..Len(s)) = Len(s)
  <2>1. /\ IsFiniteSet(1..Len(s))
        /\ Cardinality(1..Len(s)) = IF 1 > Len(s) THEN 0 ELSE Len(s) - 1 + 1
    BY <1>1, FS_Interval, SMTT(30)
  <2> QED  BY <1>1, <2>1
<1>3. IsFiniteSet(W) /\ Cardinality(W) <= Len(s)
  <2>1. W \in SUBSET (1..Len(s))
    OBVIOUS
  <2> QED  BY <1>2, <2>1, FS_Subset
<1>4. Cardinality(W) \in Nat
  BY <1>3, FS_CardinalityType
<1>5. ASSUME pri \in [Threads -> Priorities]
      PROVE  V = 1..Len(s)
  <2>1. \A j \in 1..Len(s) : s[j] \in Threads
    OBVIOUS
  <2>2. \A t \in Threads : pri[t] \in Nat
    BY <1>5, PrioritiesAssumption
  <2>3. \A j \in 1..Len(s) : pri[s[j]] >= -1
    BY <2>1, <2>2
  <2>4. \A i \in 1..Len(s) : \A j \in 1..i : j \in 1..Len(s)
    BY <1>1
  <2> QED  BY <2>3, <2>4
<1>6. Walk(s, p) = Cardinality(W) /\ Walk(s, -1) = Cardinality(V)
  BY DEF Walk
<1> HIDE DEF W, V
<1> QED  BY <1>1, <1>2, <1>3, <1>4, <1>5, <1>6

\* A queue is empty exactly if nobody is on it.
LEMMA ElemsEmpty ==
  ASSUME NEW s \in Seq(Threads)
  PROVE  /\ s = <<>> <=> Elems(s) = {}
         /\ s # <<>> <=> Len(s) > 0
         /\ Elems(s) \subseteq Threads
BY DEF Elems

\* The first n threads of a queue are n threads of it.
LEMMA FrontCardinality ==
  ASSUME NEW s \in Seq(Threads), NoRepeats(s), NEW n \in 0..Len(s)
  PROVE  /\ IsFiniteSet(Front(s, n)) /\ Cardinality(Front(s, n)) = n
         /\ Front(s, n) \subseteq Elems(s)
         /\ n = 0 <=> Front(s, n) = {}
PROOF
<1> DEFINE f == [i \in 1..n |-> s[i]]
<1>1. f \in Bijection(1..n, Front(s, n))
  <2>1. f \in [1..n -> Front(s, n)]
    BY DEF Front
  <2>2. \A i, j \in 1..n : f[i] = f[j] => i = j
    BY DEF NoRepeats
  <2>3. \A x \in Front(s, n) : \E i \in 1..n : f[i] = x
    BY DEF Front
  <2> QED  BY <2>1, <2>2, <2>3 DEF Bijection, Injection, Surjection, IsInjective
<1>2. ExistsBijection(1..n, Front(s, n))
  BY <1>1 DEF ExistsBijection
<1>3. Cardinality(Front(s, n)) = n
  BY <1>2, FS_CountingElements
<1>4. IsFiniteSet(Front(s, n))
  BY <1>2, FS_NatBijection
<1>5. Front(s, n) \subseteq Elems(s)
  BY DEF Front, Elems
<1>6. n = 0 <=> Front(s, n) = {}
  BY DEF Front
<1> QED  BY <1>3, <1>4, <1>5, <1>6

\* What is left of a queue when its first n threads are woken.
LEMMA AfterQueue ==
  ASSUME NEW s \in Seq(Threads), NoRepeats(s), NEW n \in 0..Len(s)
  PROVE  /\ After(s, n) \in Seq(Threads)
         /\ NoRepeats(After(s, n))
         /\ Elems(After(s, n)) = Elems(s) \ Front(s, n)
         /\ Len(After(s, n)) = Len(s) - n
PROOF
<1>1. /\ After(s, n) \in Seq(Threads)
      /\ Len(After(s, n)) = Len(s) - n
      /\ \A i \in 1..Len(s) - n : After(s, n)[i] = s[n + i]
  BY DEF After
<1>2. NoRepeats(After(s, n))
  <2> SUFFICES ASSUME NEW i \in 1..Len(s) - n, NEW j \in 1..Len(s) - n,
                      After(s, n)[i] = After(s, n)[j]
               PROVE  i = j
    BY <1>1 DEF NoRepeats
  <2>1. n + i \in 1..Len(s) /\ n + j \in 1..Len(s) /\ s[n + i] = s[n + j]
    BY <1>1
  <2> QED  BY <2>1 DEF NoRepeats
<1>3. ASSUME NEW x \in Elems(After(s, n))
      PROVE  x \in Elems(s) /\ x \notin Front(s, n)
  <2>1. PICK i \in 1..Len(s) - n : x = s[n + i]
    BY <1>1 DEF Elems
  <2>2. n + i \in 1..Len(s) /\ n + i \notin 1..n
    OBVIOUS
  <2>3. x \in Elems(s)
    BY <2>1, <2>2 DEF Elems
  <2>4. \A j \in 1..n : j \in 1..Len(s) /\ s[j] # x
    BY <2>1, <2>2 DEF NoRepeats
  <2> QED  BY <2>3, <2>4 DEF Front
<1>4. ASSUME NEW x \in Elems(s), x \notin Front(s, n)
      PROVE  x \in Elems(After(s, n))
  <2>1. PICK i \in 1..Len(s) : x = s[i]
    BY DEF Elems
  <2>2. i \notin 1..n
    BY <1>4, <2>1 DEF Front
  <2>3. i - n \in 1..Len(s) - n /\ n + (i - n) = i
    BY <2>2
  <2> QED  BY <1>1, <2>1, <2>3 DEF Elems
<1> QED  BY <1>1, <1>2, <1>3, <1>4

\* sleepq_insert() adds the thread and keeps the others.
LEMMA SpliceQueue ==
  ASSUME NEW s \in Seq(Threads), NoRepeats(s), NEW k \in 0..Len(s),
         NEW t \in Threads, t \notin Elems(s)
  PROVE  /\ SpliceAt(s, k, t) \in Seq(Threads)
         /\ NoRepeats(SpliceAt(s, k, t))
         /\ Elems(SpliceAt(s, k, t)) = Elems(s) \cup {t}
PROOF
<1> DEFINE r == SpliceAt(s, k, t)
<1>1. /\ r \in Seq(Threads) /\ Len(r) = Len(s) + 1
      /\ \A i \in 1..Len(s) + 1 :
           r[i] = IF i <= k THEN s[i] ELSE IF i = k + 1 THEN t ELSE s[i - 1]
  BY DEF SpliceAt
<1>2. \A i \in 1..Len(s) : s[i] # t
  BY DEF Elems
<1>3. NoRepeats(r)
  <2> SUFFICES ASSUME NEW i \in 1..Len(s) + 1, NEW j \in 1..Len(s) + 1,
                      r[i] = r[j]
               PROVE  i = j
    BY <1>1 DEF NoRepeats
  <2> DEFINE g(l) == IF l <= k THEN l ELSE l - 1
  <2>1. CASE i = k + 1 \/ j = k + 1
    <3>1. ASSUME NEW l \in 1..Len(s) + 1, l # k + 1
          PROVE  r[l] # t
      <4>1. g(l) \in 1..Len(s) /\ r[l] = s[g(l)]
        BY <1>1, <3>1
      <4> QED  BY <1>2, <4>1
    <3>2. r[k + 1] = t
      BY <1>1
    <3> QED  BY <2>1, <3>1, <3>2
  <2>2. CASE i # k + 1 /\ j # k + 1
    <3>1. g(i) \in 1..Len(s) /\ g(j) \in 1..Len(s)
      BY <2>2
    <3>2. s[g(i)] = s[g(j)]
      BY <1>1, <2>2
    <3>3. g(i) = g(j)
      BY <3>1, <3>2 DEF NoRepeats
    <3> QED  BY <2>2, <3>3
  <2> QED  BY <2>1, <2>2
<1>4. \A i \in 1..Len(s) : s[i] = IF i <= k THEN r[i] ELSE r[i + 1]
  BY <1>1
<1>5. r[k + 1] = t
  BY <1>1
<1> HIDE DEF r
<1>6. ASSUME NEW x \in Elems(r)
      PROVE  x \in Elems(s) \cup {t}
  <2>1. PICK i \in 1..Len(s) + 1 : x = r[i]
    BY <1>1 DEF Elems
  <2>2. CASE i <= k
    BY <1>1, <2>1, <2>2 DEF Elems
  <2>3. CASE i = k + 1
    BY <1>5, <2>1, <2>3
  <2>4. CASE i > k + 1
    <3>1. i - 1 \in 1..Len(s) /\ x = s[i - 1]
      BY <1>1, <2>1, <2>4
    <3> QED  BY <3>1 DEF Elems
  <2> QED  BY <2>2, <2>3, <2>4
<1>7. ASSUME NEW x \in Elems(s)
      PROVE  x \in Elems(r)
  <2>1. PICK i \in 1..Len(s) : x = s[i]
    BY DEF Elems
  <2>2. i \in 1..Len(r) /\ i + 1 \in 1..Len(r)
    BY <1>1
  <2> QED  BY <1>4, <2>1, <2>2 DEF Elems
<1>8. t \in Elems(r)
  <2>1. k + 1 \in 1..Len(r)
    BY <1>1
  <2> QED  BY <1>5, <2>1 DEF Elems
<1> QED  BY <1>1, <1>3, <1>6, <1>7, <1>8 DEF r

\* sleepq_dequeue() takes the thread out and keeps the others.
LEMMA DequeueQueue ==
  ASSUME NEW s \in Seq(Threads), NoRepeats(s), NEW t \in Elems(s)
  PROVE  /\ sleepq_dequeue(s, t) \in Seq(Threads)
         /\ NoRepeats(sleepq_dequeue(s, t))
         /\ Elems(sleepq_dequeue(s, t)) = Elems(s) \ {t}
PROOF
<1> DEFINE p == CHOOSE i \in 1..Len(s) : s[i] = t
           r == sleepq_dequeue(s, t)
<1>1. p \in 1..Len(s) /\ s[p] = t
  BY DEF Elems
<1>2. /\ r \in Seq(Threads) /\ Len(r) = Len(s) - 1
      /\ \A i \in 1..Len(s) - 1 : r[i] = IF i < p THEN s[i] ELSE s[i + 1]
  BY <1>1 DEF sleepq_dequeue
<1> HIDE DEF p, r
<1>3. \A i \in 1..Len(s) : s[i] = t <=> i = p
  BY <1>1 DEF NoRepeats
<1>4. NoRepeats(r)
  BY <1>1, <1>2, SMTT(30) DEF NoRepeats
<1>5. Elems(r) \subseteq Elems(s) \ {t}
  BY <1>1, <1>2, <1>3 DEF Elems
<1>6. ASSUME NEW x \in Elems(s) \ {t}
      PROVE  x \in Elems(r)
  <2>1. PICK i \in 1..Len(s) : x = s[i]
    BY DEF Elems
  <2>2. i # p
    BY <1>1, <2>1
  <2>3. CASE i < p
    BY <1>1, <1>2, <2>1, <2>3 DEF Elems
  <2>4. CASE i > p
    <3>1. i - 1 \in 1..Len(s) - 1 /\ ~(i - 1 < p) /\ (i - 1) + 1 = i
      BY <1>1, <2>4
    <3> QED  BY <1>2, <2>1, <3>1 DEF Elems
  <2> QED  BY <1>1, <2>2, <2>3, <2>4
<1> QED  BY <1>2, <1>4, <1>5, <1>6 DEF r

-----------------------------------------------------------------------------
(***************************************************************************)
(* What the word says about the threads inside.                            *)
(***************************************************************************)

\* What IInv says of the word and of the threads inside.
LEMMA InsideFacts ==
  ASSUME IInv
  PROVE  /\ IsFiniteSet(ReadHolders)
         /\ wwwh.holds \in Nat
         /\ wwwh.holds = 0 <=> ReadHolders = {}
         /\ \A t \in ReadHolders : /\ wwwh.holds > 0 /\ wwwh.owner = NoThread
                                   /\ wwwh.holds = 1 => ReadHolders = {t}
         /\ \A t \in WriteHolders : /\ wwwh.owner = t /\ wwwh.holds = 0
                                    /\ Holders = {t}
PROOF
<1>1. IsFiniteSet(ReadHolders)
  <2>1. ReadHolders \in SUBSET Threads
    BY DEF ReadHolders, Holders
  <2> QED  BY <2>1, FS_Subset, ThreadsAssumption
<1>2. wwwh.holds \in Nat /\ wwwh.holds = Cardinality(ReadHolders)
  BY DEF IInv, TypeOK, rw_wwwh, HoldCountExact
<1>3. wwwh.holds = 0 <=> ReadHolders = {}
  BY <1>1, <1>2, FS_EmptySet
<1>4. Holders = ReadHolders \cup WriteHolders
  BY DEF IInv, TypeOK, krw_t, ReadHolders, WriteHolders, Holders
<1>5. ASSUME NEW t \in WriteHolders
      PROVE  wwwh.owner = t /\ wwwh.holds = 0 /\ Holders = {t}
  <2>1. wwwh.owner = t /\ WriteHolders = {t} /\ t # NoThread
    BY DEF IInv, HoldCountExact
  <2>2. wwwh.holds = 0
    BY <2>1 DEF IInv, BitsInv, RW_WRITE_LOCKED
  <2> QED  BY <1>3, <1>4, <2>1, <2>2
<1>6. ASSUME NEW t \in ReadHolders
      PROVE  /\ wwwh.holds > 0 /\ wwwh.owner = NoThread
             /\ wwwh.holds = 1 => ReadHolders = {t}
  <2>1. wwwh.holds > 0
    BY <1>2, <1>3
  <2>2. wwwh.owner = NoThread
    BY <2>1 DEF IInv, BitsInv, RW_WRITE_LOCKED
  <2>3. wwwh.holds = 1 => \E x : ReadHolders = {x}
    BY <1>1, <1>2, FS_Singleton
  <2> QED  BY <2>1, <2>2, <2>3
<1> QED  BY <1>1, <1>2, <1>3, <1>5, <1>6

\* Dispatch priorities are numbers.
LEMMA PriorityType ==
  ASSUME IInv, NEW t \in Threads
  PROVE  pri[t] \in Nat /\ pri[t] \in Int
PROOF
<1>1. pri \in [Threads -> Priorities]
  BY DEF IInv, TypeOK
<1>2. pri[t] \in Nat
  BY <1>1, PrioritiesAssumption
<1> QED  BY <1>2

\* rw_init() establishes the inductive invariant.
LEMMA InitInv == Init => IInv
PROOF
<1> SUFFICES ASSUME Init PROVE IInv
  OBVIOUS
<1>1. TypeOK
  BY DEF Init, TypeOK, RW_UNHELD, rw_wwwh, Labels, krw_t, RW_READER, RW_WRITER
<1>2. QueueInv
  <2>1. \A s \in Seq(Threads) : s = <<>> => Elems(s) = {} /\ NoRepeats(s)
    BY DEF Elems, NoRepeats
  <2>2. \A q \in krw_t : sleepq[q] = <<>> /\ Sleepers(q) = {}
    BY DEF Init, Sleepers
  <2> QED  BY <1>1, <2>1, <2>2 DEF QueueInv, TypeOK
<1>3. HoldCountExact
  <2>1. ReadHolders = {} /\ WriteHolders = {}
    BY DEF Init, Holders, Holding, ReadHolders, WriteHolders
  <2> QED  BY <2>1, FS_EmptySet DEF HoldCountExact, Init, RW_UNHELD
<1>4. ChainInv
  BY ThreadsAssumption DEF Init, ChainInv
<1>5. BitsInv
  BY DEF Init, BitsInv, RW_UNHELD, RW_WRITE_LOCKED
<1>6. DowngradeInv /\ ExitInv
  BY DEF Init, DowngradeInv, ExitInv, RW_UNHELD
<1>7. KpriBalanced
  BY DEF Init, KpriBalanced
<1> QED  BY <1>1, <1>2, <1>3, <1>4, <1>5, <1>6, <1>7 DEF IInv

-----------------------------------------------------------------------------

\* rw_enter() up to its look at the lock.
LEMMA EnterInv ==
  ASSUME IInv, NEW t \in Threads, NEW m \in krw_t, rw_enter(t, m)
  PROVE  IInv'
PROOF
<1> USE DEF rw_enter, Goto, RW_READER, RW_WRITER, krw_t
<1>1. TypeOK'
  BY DEF IInv, TypeOK, Labels, Holding, KpriRequest
<1>2. QueueInv'
  <2>1. sleepq' = sleepq /\ \A q \in krw_t : Sleepers(q)' = Sleepers(q)
    BY DEF IInv, TypeOK, Sleepers
  <2> QED  BY <2>1 DEF IInv, QueueInv
<1>3. Holders' = Holders /\ ReadHolders' = ReadHolders /\ WriteHolders' = WriteHolders
  BY DEF IInv, TypeOK, Holders, ReadHolders, WriteHolders, Holding
<1>4. HoldCountExact'
  BY <1>3 DEF IInv, TypeOK, HoldCountExact
<1>5. ChainInv'
  BY ThreadsAssumption DEF IInv, TypeOK, ChainInv
<1>6. BitsInv'
  BY DEF IInv, TypeOK, BitsInv
<1>7. DowngradeInv'
  BY DEF IInv, TypeOK, DowngradeInv
<1>8. ExitInv'
  BY <1>3 DEF IInv, TypeOK, ExitInv
<1>9. KpriBalanced'
  BY DEF IInv, TypeOK, KpriBalanced, KpriRequest
<1> QED  BY <1>1, <1>2, <1>4, <1>5, <1>6, <1>7, <1>8, <1>9 DEF IInv

\* The way to the turnstile lock.
LEMMA EnterBusyInv ==
  ASSUME IInv, NEW t \in Threads, rw_enter_busy(t)
  PROVE  IInv'
PROOF
<1> USE DEF rw_enter_busy, Goto, RW_READER, RW_WRITER, krw_t
<1>1. TypeOK'
  BY DEF IInv, TypeOK, Labels, Holding
<1>2. QueueInv'
  <2>1. sleepq' = sleepq /\ \A q \in krw_t : Sleepers(q)' = Sleepers(q)
    BY DEF IInv, TypeOK, Sleepers
  <2> QED  BY <2>1 DEF IInv, QueueInv
<1>3. Holders' = Holders /\ ReadHolders' = ReadHolders /\ WriteHolders' = WriteHolders
  BY DEF IInv, TypeOK, Holders, ReadHolders, WriteHolders, Holding
<1>4. HoldCountExact'
  BY <1>3 DEF IInv, TypeOK, HoldCountExact
<1>5. ChainInv'
  BY ThreadsAssumption DEF IInv, TypeOK, ChainInv
<1>6. BitsInv'
  BY DEF IInv, TypeOK, BitsInv
<1>7. DowngradeInv'
  BY DEF IInv, TypeOK, DowngradeInv
<1>8. ExitInv'
  BY <1>3 DEF IInv, TypeOK, ExitInv
<1>9. KpriBalanced'
  BY DEF IInv, TypeOK, KpriBalanced
<1> QED  BY <1>1, <1>2, <1>4, <1>5, <1>6, <1>7, <1>8, <1>9 DEF IInv

\* turnstile_lookup().
LEMMA LookupInv ==
  ASSUME IInv, NEW t \in Threads, turnstile_lookup(t)
  PROVE  IInv'
PROOF
<1> USE DEF turnstile_lookup, Goto, RW_READER, RW_WRITER, krw_t
<1>1. TypeOK'
  BY DEF IInv, TypeOK, Labels, Holding, LookupNext
<1>2. QueueInv'
  <2>1. sleepq' = sleepq /\ \A q \in krw_t : Sleepers(q)' = Sleepers(q)
    BY DEF IInv, TypeOK, Sleepers, LookupNext
  <2> QED  BY <2>1 DEF IInv, QueueInv
<1>3. Holders' = Holders /\ ReadHolders' = ReadHolders /\ WriteHolders' = WriteHolders
  BY DEF IInv, TypeOK, Holders, ReadHolders, WriteHolders, Holding, LookupNext
<1>4. HoldCountExact'
  BY <1>3 DEF IInv, TypeOK, HoldCountExact
<1>5. ChainInv'
  BY ThreadsAssumption DEF IInv, TypeOK, ChainInv, LookupNext
<1>6. BitsInv'
  BY DEF IInv, TypeOK, BitsInv, LookupNext
<1>7. DowngradeInv'
  BY DEF IInv, TypeOK, DowngradeInv, LookupNext
<1>8. ExitInv'
  BY <1>3 DEF IInv, TypeOK, ExitInv, LookupNext
<1>9. KpriBalanced'
  BY DEF IInv, TypeOK, KpriBalanced, LookupNext
<1> QED  BY <1>1, <1>2, <1>4, <1>5, <1>6, <1>7, <1>8, <1>9 DEF IInv

\* The bits are set on a lock that is still busy.
LEMMA MarkInv ==
  ASSUME IInv, NEW t \in Threads, rw_enter_mark(t)
  PROVE  IInv'
PROOF
<1> USE DEF rw_enter_mark, Goto, RW_READER, RW_WRITER, krw_t
<1>1. TypeOK'
  BY DEF IInv, TypeOK, Labels, Holding, rw_wwwh, lock_wait
<1>2. QueueInv'
  <2>1. sleepq' = sleepq /\ \A q \in krw_t : Sleepers(q)' = Sleepers(q)
    BY DEF IInv, TypeOK, Sleepers
  <2> QED  BY <2>1 DEF IInv, QueueInv
<1>3. Holders' = Holders /\ ReadHolders' = ReadHolders /\ WriteHolders' = WriteHolders
  BY DEF IInv, TypeOK, Holders, ReadHolders, WriteHolders, Holding
<1>4. HoldCountExact'
  BY <1>3 DEF IInv, TypeOK, rw_wwwh, HoldCountExact, lock_wait
<1>5. ChainInv'
  BY ThreadsAssumption DEF IInv, TypeOK, ChainInv
<1>6. BitsInv'
  BY DEF IInv, TypeOK, rw_wwwh, BitsInv, RW_LOCKED, RW_WRITE_LOCKED, RW_WRITE_CLAIMED, lock_busy, lock_wait
<1>7. DowngradeInv'
  BY DEF IInv, TypeOK, rw_wwwh, DowngradeInv, RW_WRITE_LOCKED, RW_WRITE_CLAIMED, lock_busy, lock_wait
<1>8. ExitInv'
  BY <1>3 DEF IInv, TypeOK, rw_wwwh, ExitInv, lock_wait
<1>9. KpriBalanced'
  BY DEF IInv, TypeOK, KpriBalanced
<1> QED  BY <1>1, <1>2, <1>4, <1>5, <1>6, <1>7, <1>8, <1>9 DEF IInv

\* The lock is free after all.
LEMMA RetryInv ==
  ASSUME IInv, NEW t \in Threads, rw_enter_retry(t)
  PROVE  IInv'
PROOF
<1> USE DEF rw_enter_retry, Goto, RW_READER, RW_WRITER, krw_t
<1>1. TypeOK'
  BY DEF IInv, TypeOK, Labels, Holding
<1>2. QueueInv'
  <2>1. sleepq' = sleepq /\ \A q \in krw_t : Sleepers(q)' = Sleepers(q)
    BY DEF IInv, TypeOK, Sleepers
  <2> QED  BY <2>1 DEF IInv, QueueInv
<1>3. Holders' = Holders /\ ReadHolders' = ReadHolders /\ WriteHolders' = WriteHolders
  BY DEF IInv, TypeOK, Holders, ReadHolders, WriteHolders, Holding
<1>4. HoldCountExact'
  BY <1>3 DEF IInv, TypeOK, HoldCountExact
<1>5. ChainInv'
  BY ThreadsAssumption DEF IInv, TypeOK, ChainInv
<1>6. BitsInv'
  BY DEF IInv, TypeOK, BitsInv
<1>7. DowngradeInv'
  BY DEF IInv, TypeOK, DowngradeInv
<1>8. ExitInv'
  BY <1>3 DEF IInv, TypeOK, ExitInv
<1>9. KpriBalanced'
  BY DEF IInv, TypeOK, KpriBalanced
<1> QED  BY <1>1, <1>2, <1>4, <1>5, <1>6, <1>7, <1>8, <1>9 DEF IInv

\* The decision to make the final exit: the thread is alone inside, and a
\* reader that decides so has a writer waiting.
LEMMA ExitFinalInv ==
  ASSUME IInv, NEW t \in Threads, rw_exit_final(t)
  PROVE  IInv'
PROOF
<1> USE DEF rw_exit_final, Goto, RW_READER, RW_WRITER, krw_t
<1>1. TypeOK'
  BY DEF IInv, TypeOK, Labels, Holding
<1>2. QueueInv'
  <2>1. sleepq' = sleepq /\ \A q \in krw_t : Sleepers(q)' = Sleepers(q)
    BY DEF IInv, TypeOK, Sleepers
  <2> QED  BY <2>1 DEF IInv, QueueInv
<1>3. Holders' = Holders /\ ReadHolders' = ReadHolders /\ WriteHolders' = WriteHolders
  BY DEF IInv, TypeOK, Holders, ReadHolders, WriteHolders, Holding
<1>4. HoldCountExact'
  BY <1>3 DEF IInv, TypeOK, HoldCountExact
<1>5. ChainInv'
  BY ThreadsAssumption DEF IInv, TypeOK, ChainInv
<1>6. BitsInv'
  BY DEF IInv, TypeOK, BitsInv
<1>7. DowngradeInv'
  BY DEF IInv, TypeOK, DowngradeInv
<1>8. ExitInv'
  <2>1. t \in Holders /\ wwwh.waiters /\ ~RW_LOCKED(Drop(wwwh, rw[t]))
    BY DEF Holders, Holding, FinalExit
  <2>2. CASE rw[t] = RW_WRITER
    BY <1>3, <2>1, <2>2, InsideFacts DEF IInv, TypeOK, ExitInv, WriteHolders
  <2>3. CASE rw[t] = RW_READER
    <3>1. t \in ReadHolders
      BY <2>1, <2>3 DEF ReadHolders
    <3>2. wwwh.owner = NoThread /\ wwwh.holds \in Nat /\ wwwh.holds > 0
      BY <3>1, InsideFacts
    <3>3. Drop(wwwh, rw[t]).holds = wwwh.holds - 1
      BY <2>3 DEF Drop, IInv, TypeOK, rw_wwwh
    <3>4. wwwh.holds = 1
      BY <2>1, <3>2, <3>3 DEF RW_LOCKED
    <3>5. ReadHolders = {t}
      BY <3>1, <3>4, InsideFacts
    <3>6. WriteHolders = {}
      BY <3>2 DEF IInv, HoldCountExact
    <3>7. Holders = {t}
      BY <3>5, <3>6 DEF IInv, TypeOK, ReadHolders, WriteHolders, Holders
    <3>8. \A u \in Threads : pc[u] \notin {"down_lookup", "down_wake"}
      BY <3>7 DEF Holders, Holding
    <3>9. wwwh.wanted
      BY <2>1, <3>2, <3>8 DEF IInv, DowngradeInv, RW_WRITE_CLAIMED, RW_WRITE_LOCKED
    <3> QED  BY <1>3, <2>1, <3>7, <3>9 DEF IInv, TypeOK, ExitInv
  <2> QED  BY <2>2, <2>3 DEF IInv, TypeOK
<1>9. KpriBalanced'
  BY DEF IInv, TypeOK, KpriBalanced
<1> QED  BY <1>1, <1>2, <1>4, <1>5, <1>6, <1>7, <1>8, <1>9 DEF IInv

\* A priority change of a thread that is not asleep.
LEMMA ThreadChangePriInv ==
  ASSUME IInv, NEW t \in Threads, NEW p \in Priorities, thread_change_pri(t, p)
  PROVE  IInv'
PROOF
<1> USE DEF thread_change_pri, Goto, RW_READER, RW_WRITER, krw_t
<1>1. TypeOK'
  BY DEF IInv, TypeOK, Labels, Holding
<1>2. QueueInv'
  <2>1. sleepq' = sleepq /\ \A q \in krw_t : Sleepers(q)' = Sleepers(q)
    BY DEF IInv, TypeOK, Sleepers
  <2> QED  BY <2>1 DEF IInv, QueueInv
<1>3. Holders' = Holders /\ ReadHolders' = ReadHolders /\ WriteHolders' = WriteHolders
  BY DEF IInv, TypeOK, Holders, ReadHolders, WriteHolders, Holding
<1>4. HoldCountExact'
  BY <1>3 DEF IInv, TypeOK, HoldCountExact
<1>5. ChainInv'
  BY ThreadsAssumption DEF IInv, TypeOK, ChainInv
<1>6. BitsInv'
  BY DEF IInv, TypeOK, BitsInv
<1>7. DowngradeInv'
  BY DEF IInv, TypeOK, DowngradeInv
<1>8. ExitInv'
  BY <1>3 DEF IInv, TypeOK, ExitInv
<1>9. KpriBalanced'
  BY DEF IInv, TypeOK, KpriBalanced
<1> QED  BY <1>1, <1>2, <1>4, <1>5, <1>6, <1>7, <1>8, <1>9 DEF IInv

\* Entering a lock that is not busy, by rw_enter() or rw_tryenter().
LEMMA GrabInv ==
  ASSUME IInv, NEW t \in Threads, NEW m \in krw_t,
         pc[t] \notin {"asleep", "enter_block", "enter_mark"}, t \notin Holders,
         ~lock_busy(m, wwwh), wwwh' = Grab(wwwh, m, t),
         rw' = [rw EXCEPT ![t] = m], Goto(t, "held"), KpriBalanced',
         kpri' \in [Threads -> Int], UNCHANGED <<tc_lock, sleepq, pri>>
  PROVE  IInv'
PROOF
<1> USE DEF Goto, RW_READER, RW_WRITER, krw_t
<1>1. TypeOK'
  <2>1. wwwh' \in rw_wwwh
    <3>1. CASE m = RW_READER
      <4>1. wwwh' = [wwwh EXCEPT !.holds = wwwh.holds + 1]
        BY <3>1 DEF Grab
      <4>2. wwwh.holds + 1 \in Nat
        BY DEF IInv, TypeOK, rw_wwwh
      <4> QED  BY <4>1, <4>2 DEF IInv, TypeOK, rw_wwwh
    <3>2. CASE m = RW_WRITER
      BY <3>2 DEF IInv, TypeOK, rw_wwwh, Grab
    <3> QED  BY <3>1, <3>2
  <2> QED  BY <2>1 DEF IInv, TypeOK, Labels, Holding
<1>2. QueueInv'
  <2>1. sleepq' = sleepq /\ \A q \in krw_t : Sleepers(q)' = Sleepers(q)
    BY DEF IInv, TypeOK, Sleepers
  <2> QED  BY <2>1 DEF IInv, QueueInv
<1>3. Holders' = Holders \cup {t}
  BY DEF IInv, TypeOK, Holders, Holding
<1>4. wwwh.owner = NoThread /\ WriteHolders = {}
  BY DEF lock_busy, RW_LOCKED, RW_WRITE_CLAIMED, RW_WRITE_LOCKED, IInv, HoldCountExact
<1>5. wwwh' = IF m = RW_READER THEN [wwwh EXCEPT !.holds = @ + 1]
                                ELSE [wwwh EXCEPT !.owner = t]
  BY DEF Grab
<1>6. \A u \in Threads : pc[u] \notin {"exit_lookup", "exit_wake"}
  <2> SUFFICES ASSUME NEW u \in Threads, pc[u] \in {"exit_lookup", "exit_wake"}
               PROVE  FALSE
    OBVIOUS
  <2>1. u \in Holders /\ u \notin WriteHolders
    BY <1>4 DEF Holders, Holding
  <2>2. rw[u] = RW_READER /\ u \in ReadHolders
    BY <2>1 DEF WriteHolders, ReadHolders, IInv, TypeOK
  <2>3. wwwh.wanted /\ wwwh.holds > 0
    BY <2>2, InsideFacts DEF IInv, ExitInv
  <2> QED  BY <2>3 DEF lock_busy, RW_LOCKED, RW_WRITE_CLAIMED
<1>7. CASE m = RW_READER
  <2>1. ReadHolders' = ReadHolders \cup {t} /\ WriteHolders' = WriteHolders
    BY <1>3, <1>7 DEF IInv, TypeOK, Holders, Holding, ReadHolders, WriteHolders
  <2>2. Cardinality(ReadHolders') = Cardinality(ReadHolders) + 1
    <3>1. t \notin ReadHolders
      BY DEF ReadHolders
    <3> QED  BY <2>1, <3>1, InsideFacts, FS_AddElement
  <2>3. HoldCountExact'
    BY <1>4, <1>5, <1>7, <2>1, <2>2 DEF IInv, TypeOK, rw_wwwh, HoldCountExact
  <2>4. ~wwwh.wanted
    BY <1>7 DEF lock_busy, RW_WRITE_CLAIMED
  <2>5. BitsInv'
    BY <1>5, <1>7, <1>4, <2>4 DEF IInv, TypeOK, rw_wwwh, BitsInv, RW_LOCKED, RW_WRITE_LOCKED
  <2>6. DowngradeInv'
    BY <1>4, <1>5, <1>7 DEF IInv, TypeOK, rw_wwwh, DowngradeInv, RW_WRITE_CLAIMED,
       RW_WRITE_LOCKED, Holders, Holding
  <2> QED  BY <2>3, <2>5, <2>6, <1>1, <1>2, <1>6 DEF IInv, TypeOK, ChainInv, ExitInv, Holders, Holding
<1>8. CASE m = RW_WRITER
  <2>1. wwwh.holds = 0 /\ ReadHolders = {} /\ ~wwwh.waiters
    BY <1>8, <1>4, InsideFacts DEF lock_busy, RW_LOCKED, IInv, BitsInv, RW_WRITE_LOCKED
  <2>2. ReadHolders' = {} /\ WriteHolders' = {t}
    BY <1>3, <1>4, <1>8, <2>1 DEF IInv, TypeOK, Holders, Holding, ReadHolders, WriteHolders
  <2>3. HoldCountExact'
    BY <1>5, <1>8, <2>1, <2>2, FS_EmptySet, ThreadsAssumption
    DEF IInv, TypeOK, rw_wwwh, HoldCountExact
  <2>5. BitsInv'
    BY <1>5, <1>8, <2>1 DEF IInv, TypeOK, rw_wwwh, BitsInv, RW_LOCKED, RW_WRITE_LOCKED
  <2>6. DowngradeInv'
    BY <1>5, <1>8, <2>1 DEF IInv, TypeOK, rw_wwwh, DowngradeInv, RW_WRITE_CLAIMED,
       RW_WRITE_LOCKED, Holders, Holding
  <2> QED  BY <2>3, <2>5, <2>6, <1>1, <1>2, <1>6 DEF IInv, TypeOK, ChainInv, ExitInv, Holders, Holding
<1> QED  BY <1>7, <1>8

\* rw_enter() gets the lock.
LEMMA EnterGrabInv ==
  ASSUME IInv, NEW t \in Threads, rw_enter_grab(t)
  PROVE  IInv'
PROOF
<1> USE DEF rw_enter_grab, Goto
<1>1. KpriBalanced' /\ kpri' \in [Threads -> Int]
  BY DEF IInv, TypeOK, KpriBalanced
<1>2. rw' = [rw EXCEPT ![t] = rw[t]] /\ rw[t] \in krw_t
  BY DEF IInv, TypeOK
<1>3. t \notin Holders /\ pc[t] \notin {"asleep", "enter_block", "enter_mark"}
  BY DEF Holders, Holding
<1> QED  BY <1>1, <1>2, <1>3, GrabInv

\* rw_tryenter() gets the lock.
LEMMA TryEnterInv ==
  ASSUME IInv, NEW t \in Threads, NEW m \in krw_t, rw_tryenter(t, m)
  PROVE  IInv'
PROOF
<1> USE DEF rw_tryenter, Goto, krw_t, RW_READER, RW_WRITER
<1>1. KpriBalanced' /\ kpri' \in [Threads -> Int]
  BY DEF IInv, TypeOK, KpriBalanced, KpriRequest
<1>2. ~lock_busy(m, wwwh)
  BY DEF lock_busy, RW_UNHELD, RW_LOCKED, RW_WRITE_LOCKED
<1>3. t \notin Holders /\ pc[t] \notin {"asleep", "enter_block", "enter_mark"}
  BY DEF Holders, Holding
<1> QED  BY <1>1, <1>2, <1>3, GrabInv

\* turnstile_block().
LEMMA BlockInv ==
  ASSUME IInv, NEW t \in Threads, turnstile_block(t)
  PROVE  IInv'
PROOF
<1> USE DEF turnstile_block, Goto, RW_READER, RW_WRITER, krw_t
<1>1. rw[t] \in krw_t /\ sleepq[rw[t]] \in Seq(Threads) /\ NoRepeats(sleepq[rw[t]])
  BY DEF IInv, TypeOK, QueueInv
<1>2. t \notin Elems(sleepq[rw[t]])
  BY <1>1 DEF IInv, QueueInv, Sleepers
<1>3. Walk(sleepq[rw[t]], pri[t]) \in 0..Len(sleepq[rw[t]])
  BY <1>1, PriorityType, WalkBound
<1>4. /\ sleepq'[rw[t]] \in Seq(Threads) /\ NoRepeats(sleepq'[rw[t]])
      /\ Elems(sleepq'[rw[t]]) = Elems(sleepq[rw[t]]) \cup {t}
  <2>1. sleepq'[rw[t]] = SpliceAt(sleepq[rw[t]], Walk(sleepq[rw[t]], pri[t]), t)
    BY <1>1 DEF IInv, TypeOK, sleepq_insert
  <2> QED  BY <1>1, <1>2, <1>3, <2>1, SpliceQueue
<1>5. \A q \in krw_t : q # rw[t] => sleepq'[q] = sleepq[q]
  BY DEF IInv, TypeOK
<1>6. TypeOK'
  <2>1. sleepq' \in [krw_t -> Seq(Threads)]
    BY <1>1, <1>4, <1>5 DEF IInv, TypeOK
  <2> QED  BY <2>1 DEF IInv, TypeOK, Labels, KpriRelease
<1>7. QueueInv'
  <2>1. \A q \in krw_t : Sleepers(q)' = IF q = rw[t] THEN Sleepers(q) \cup {t} ELSE Sleepers(q)
    BY DEF IInv, TypeOK, Sleepers
  <2> QED  BY <1>4, <1>5, <2>1 DEF IInv, QueueInv
<1>8. Holders' = Holders /\ ReadHolders' = ReadHolders /\ WriteHolders' = WriteHolders
  BY DEF IInv, TypeOK, Holders, ReadHolders, WriteHolders, Holding
<1>9. HoldCountExact'
  BY <1>8 DEF IInv, HoldCountExact
<1>10. ChainInv'
  BY ThreadsAssumption DEF IInv, TypeOK, ChainInv
<1>11. BitsInv'
  BY DEF IInv, TypeOK, BitsInv
<1>12. DowngradeInv'
  BY DEF IInv, TypeOK, DowngradeInv
<1>13. ExitInv'
  BY <1>8 DEF IInv, TypeOK, ExitInv
<1>14. KpriBalanced'
  BY DEF IInv, TypeOK, KpriBalanced, KpriRelease
<1> QED  BY <1>6, <1>7, <1>9, <1>10, <1>11, <1>12, <1>13, <1>14 DEF IInv

\* A priority change of a sleeper.
LEMMA ChangePriInv ==
  ASSUME IInv, NEW t \in Threads, NEW p \in Priorities, turnstile_change_pri(t, p)
  PROVE  IInv'
PROOF
<1> USE DEF turnstile_change_pri
<1> DEFINE q == rw[t]
           d == sleepq_dequeue(sleepq[q], t)
<1>1. q \in krw_t /\ sleepq[q] \in Seq(Threads) /\ NoRepeats(sleepq[q]) /\ p \in Int
  BY PrioritiesAssumption DEF IInv, TypeOK, QueueInv
<1>2. t \in Elems(sleepq[q])
  BY <1>1 DEF IInv, QueueInv, Sleepers
<1>3. d \in Seq(Threads) /\ NoRepeats(d) /\ Elems(d) = Elems(sleepq[q]) \ {t}
  BY <1>1, <1>2, DequeueQueue
<1>4. sleepq'[q] = SpliceAt(d, Walk(d, p), t)
  BY <1>1 DEF IInv, TypeOK
<1> HIDE DEF d
<1>5. /\ sleepq'[q] \in Seq(Threads) /\ NoRepeats(sleepq'[q])
      /\ Elems(sleepq'[q]) = Elems(sleepq[q])
  <2>1. Walk(d, p) \in 0..Len(d)
    BY <1>1, <1>3, WalkBound
  <2>2. t \notin Elems(d) /\ Elems(d) \cup {t} = Elems(sleepq[q])
    BY <1>2, <1>3
  <2>3. \A k \in 0..Len(d) :
          /\ SpliceAt(d, k, t) \in Seq(Threads) /\ NoRepeats(SpliceAt(d, k, t))
          /\ Elems(SpliceAt(d, k, t)) = Elems(d) \cup {t}
    BY <1>3, <2>2, SpliceQueue
  <2> QED  BY <1>4, <2>1, <2>2, <2>3
<1>6. \A r \in krw_t : r # q => sleepq'[r] = sleepq[r]
  BY DEF IInv, TypeOK
<1>7. TypeOK'
  <2>1. sleepq' \in [krw_t -> Seq(Threads)]
    BY <1>1, <1>5, <1>6 DEF IInv, TypeOK
  <2> QED  BY <2>1 DEF IInv, TypeOK
<1>8. QueueInv'
  <2>1. \A r \in krw_t : Sleepers(r)' = Sleepers(r)
    BY DEF Sleepers
  <2> QED  BY <1>5, <1>6, <2>1 DEF IInv, QueueInv
<1>9. Holders' = Holders /\ ReadHolders' = ReadHolders /\ WriteHolders' = WriteHolders
  BY DEF Holders, ReadHolders, WriteHolders
<1>10. HoldCountExact' /\ ChainInv' /\ ExitInv'
  BY <1>9 DEF IInv, HoldCountExact, ChainInv, ExitInv
<1>11. BitsInv' /\ DowngradeInv' /\ KpriBalanced'
  BY DEF IInv, BitsInv, DowngradeInv, KpriBalanced
<1> QED  BY <1>7, <1>8, <1>10, <1>11 DEF IInv

\* rw_exit() when it is not the final exit of a lock with waiters.
LEMMA ExitInvariant ==
  ASSUME IInv, NEW t \in Threads, rw_exit(t)
  PROVE  IInv'
PROOF
<1> USE DEF rw_exit, Leave, Goto, RW_READER, RW_WRITER, krw_t
<1>1. t \in Holders /\ Holders' = Holders \ {t}
  BY DEF IInv, TypeOK, Holders, Holding
<1>2. QueueInv'
  <2>1. sleepq' = sleepq /\ \A q \in krw_t : Sleepers(q)' = Sleepers(q)
    BY DEF IInv, TypeOK, Sleepers
  <2> QED  BY <2>1 DEF IInv, QueueInv
<1>3. ChainInv'
  BY DEF IInv, TypeOK, ChainInv
<1>4. ExitInv'
  <2>1. \A u \in Threads : pc[u] \notin {"exit_lookup", "exit_wake"}
    BY <1>1 DEF IInv, ExitInv
  <2> QED  BY <2>1 DEF IInv, TypeOK, ExitInv
<1>5. KpriBalanced'
  BY DEF IInv, TypeOK, KpriBalanced, KpriRelease
<1>6. CASE rw[t] = RW_READER
  <2>1. t \in ReadHolders
    BY <1>1, <1>6 DEF ReadHolders
  <2>2. wwwh.holds \in Nat /\ wwwh.holds > 0 /\ wwwh.owner = NoThread
    BY <2>1, InsideFacts
  <2>3. wwwh' = [wwwh EXCEPT !.holds = wwwh.holds - 1]
    BY <1>6 DEF Drop
  <2>4. wwwh.waiters => wwwh'.holds > 0
    BY <1>6, <2>2, <2>3 DEF FinalExit, Drop, RW_LOCKED, RW_WRITE_LOCKED, IInv, TypeOK, rw_wwwh
  <2>5. TypeOK'
    <3>1. wwwh' \in rw_wwwh
      <4>1. wwwh.holds - 1 \in Nat
        BY <2>2
      <4> QED  BY <2>3, <4>1 DEF IInv, TypeOK, rw_wwwh
    <3> QED  BY <3>1 DEF IInv, TypeOK, Labels, KpriRelease
  <2>6. HoldCountExact'
    <3>1. ReadHolders' = ReadHolders \ {t} /\ WriteHolders' = WriteHolders
      BY <1>1, <1>6 DEF IInv, TypeOK, Holders, ReadHolders, WriteHolders
    <3>2. Cardinality(ReadHolders') = Cardinality(ReadHolders) - 1
      BY <2>1, <3>1, InsideFacts, FS_RemoveElement
    <3> QED  BY <2>3, <3>1, <3>2 DEF IInv, TypeOK, rw_wwwh, HoldCountExact
  <2>7. BitsInv'
    BY <2>2, <2>3, <2>4 DEF IInv, TypeOK, rw_wwwh, BitsInv, RW_LOCKED, RW_WRITE_LOCKED
  <2>8. DowngradeInv'
    BY <2>3 DEF IInv, TypeOK, rw_wwwh, DowngradeInv, RW_WRITE_CLAIMED, RW_WRITE_LOCKED
  <2> QED  BY <1>2, <1>3, <1>4, <1>5, <2>5, <2>6, <2>7, <2>8 DEF IInv
<1>7. CASE rw[t] = RW_WRITER
  <2>1. t \in WriteHolders
    BY <1>1, <1>7 DEF WriteHolders
  <2>2. wwwh.holds = 0 /\ Holders = {t}
    BY <2>1, InsideFacts
  <2>3. wwwh' = [wwwh EXCEPT !.owner = NoThread]
    BY <1>7 DEF Drop
  <2>4. ~wwwh.waiters
    <3>1. Drop(wwwh, rw[t]).holds = 0 /\ Drop(wwwh, rw[t]).owner = NoThread
      BY <1>7, <2>2 DEF Drop, IInv, TypeOK, rw_wwwh
    <3> QED  BY <3>1 DEF FinalExit, RW_LOCKED, RW_WRITE_LOCKED
  <2>5. TypeOK'
    <3>1. wwwh' \in rw_wwwh
      BY <2>3 DEF IInv, TypeOK, rw_wwwh
    <3> QED  BY <3>1 DEF IInv, TypeOK, Labels, KpriRelease
  <2>6. HoldCountExact'
    <3>1. ReadHolders' = {} /\ WriteHolders' = {}
      BY <1>1, <2>2 DEF ReadHolders, WriteHolders
    <3> QED  BY <2>2, <2>3, <3>1, FS_EmptySet DEF IInv, TypeOK, rw_wwwh, HoldCountExact
  <2>7. BitsInv'
    BY <2>2, <2>3, <2>4 DEF IInv, TypeOK, rw_wwwh, BitsInv, RW_WRITE_LOCKED
  <2>8. DowngradeInv'
    BY <2>3, <2>4 DEF IInv, TypeOK, rw_wwwh, DowngradeInv
  <2> QED  BY <1>2, <1>3, <1>4, <1>5, <2>5, <2>6, <2>7, <2>8 DEF IInv
<1> QED  BY <1>6, <1>7 DEF IInv, TypeOK

\* The atomic add of rw_downgrade().
LEMMA DowngradeStepInv ==
  ASSUME IInv, NEW t \in Threads, rw_downgrade(t)
  PROVE  IInv'
PROOF
<1> USE DEF rw_downgrade, Goto, RW_READER, RW_WRITER, krw_t
<1>1. t \in WriteHolders /\ t \in Holders
  BY DEF WriteHolders, Holders, Holding
<1>2. wwwh.owner = t /\ wwwh.holds = 0 /\ Holders = {t}
  BY <1>1, InsideFacts
<1>3. wwwh' = [wwwh EXCEPT !.owner = NoThread, !.holds = 1]
  BY <1>2
<1>4. TypeOK'
  <2>1. wwwh' \in rw_wwwh
    BY ONLY IInv, <1>3 DEF IInv, TypeOK, rw_wwwh
  <2> QED  BY <2>1 DEF IInv, TypeOK, Labels, Holding, KpriRequest
<1>5. QueueInv'
  <2>1. sleepq' = sleepq /\ \A q \in krw_t : Sleepers(q)' = Sleepers(q)
    BY DEF IInv, TypeOK, Sleepers
  <2> QED  BY <2>1 DEF IInv, QueueInv
<1>6. HoldCountExact'
  <2>1. Holders' = {t}
    BY <1>2 DEF IInv, TypeOK, Holders, Holding
  <2>2. ReadHolders' = {t} /\ WriteHolders' = {}
    BY <2>1 DEF IInv, TypeOK, ReadHolders, WriteHolders
  <2> QED  BY <1>3, <2>2, FS_Singleton DEF IInv, TypeOK, rw_wwwh, HoldCountExact
<1>7. ChainInv'
  BY DEF IInv, TypeOK, ChainInv
<1>8. BitsInv'
  BY <1>3 DEF IInv, TypeOK, rw_wwwh, BitsInv, RW_LOCKED, RW_WRITE_LOCKED
<1>9. DowngradeInv'
  <2>1. \A u \in Threads \ {t} : pc'[u] \notin {"down_lookup", "down_wake"}
    BY <1>2 DEF IInv, TypeOK, Holders, Holding
  <2>2. wwwh'.waiters = wwwh.waiters
    BY <1>3 DEF IInv, TypeOK, rw_wwwh
  <2> QED  BY <2>1, <2>2 DEF IInv, TypeOK, DowngradeInv
<1>10. ExitInv'
  BY <1>2 DEF IInv, TypeOK, ExitInv
<1>11. KpriBalanced'
  BY DEF IInv, TypeOK, KpriBalanced, KpriRequest
<1> QED  BY <1>4, <1>5, <1>6, <1>7, <1>8, <1>9, <1>10, <1>11 DEF IInv

\* rw_tryupgrade() succeeds only on a lock that nobody waits for.
LEMMA TryUpgradeInv ==
  ASSUME IInv, NEW t \in Threads, rw_tryupgrade(t)
  PROVE  IInv'
PROOF
<1> USE DEF rw_tryupgrade, RW_READER, RW_WRITER, krw_t
<1>1. t \in ReadHolders /\ t \in Holders
  BY DEF ReadHolders, Holders, Holding
<1>2. ReadHolders = {t} /\ WriteHolders = {} /\ ~wwwh.wanted
  BY <1>1, InsideFacts DEF IInv, HoldCountExact, RW_WRITE_CLAIMED, RW_WRITE_LOCKED
<1>3. Holders = {t}
  BY <1>2 DEF IInv, TypeOK, Holders, ReadHolders, WriteHolders
<1>4. ~wwwh.waiters
  <2>1. \A u \in Threads : pc[u] \notin {"down_lookup", "down_wake"}
    BY <1>3 DEF Holders, Holding
  <2> QED  BY <2>1 DEF IInv, DowngradeInv
<1>5. TypeOK'
  <2>1. wwwh' \in rw_wwwh
    BY DEF IInv, TypeOK, rw_wwwh
  <2> QED  BY <2>1 DEF IInv, TypeOK, KpriRelease
<1>6. QueueInv'
  <2>1. sleepq' = sleepq /\ \A q \in krw_t : Sleepers(q)' = Sleepers(q)
    BY DEF IInv, TypeOK, Sleepers
  <2> QED  BY <2>1 DEF IInv, QueueInv
<1>7. HoldCountExact'
  <2>1. Holders' = {t}
    BY <1>3 DEF Holders
  <2>2. ReadHolders' = {} /\ WriteHolders' = {t}
    BY <2>1 DEF IInv, TypeOK, ReadHolders, WriteHolders
  <2> QED  BY <2>2, FS_EmptySet, ThreadsAssumption DEF IInv, TypeOK, rw_wwwh, HoldCountExact
<1>8. ChainInv'
  BY DEF IInv, TypeOK, ChainInv
<1>9. BitsInv' /\ DowngradeInv'
  BY <1>2, <1>4 DEF IInv, TypeOK, rw_wwwh, BitsInv, DowngradeInv, RW_LOCKED, RW_WRITE_LOCKED
<1>10. ExitInv'
  BY <1>3, ZenonT(60) DEF IInv, TypeOK, ExitInv
<1>11. KpriBalanced'
  BY DEF IInv, TypeOK, KpriBalanced, KpriRelease
<1> QED  BY <1>5, <1>6, <1>7, <1>8, <1>9, <1>10, <1>11 DEF IInv

-----------------------------------------------------------------------------
(***************************************************************************)
(* The three handoffs.                                                     *)
(***************************************************************************)

\* What a thread that holds the turnstile lock to wake others finds.
LEMMA WakeFacts ==
  ASSUME IInv, NEW t \in Threads, pc[t] \in {"exit_wake", "down_wake"}
  PROVE  /\ tc_lock = t
         /\ \A u \in Threads : pc[u] \notin {"enter_mark", "enter_block"}
         /\ \A u \in Threads \ {t} : pc[u] \notin {"exit_wake", "down_wake"}
         /\ readers_q \in Seq(Threads) /\ NoRepeats(readers_q)
         /\ Elems(readers_q) = Sleepers(RW_READER)
         /\ writers_q \in Seq(Threads) /\ NoRepeats(writers_q)
         /\ Elems(writers_q) = Sleepers(RW_WRITER)
         /\ rw_readers_to_wake \in 0..Len(readers_q)
         /\ writers_q = <<>> => rw_readers_to_wake = Len(readers_q)
         /\ wwwh.waiters /\ ts_waiters > 0
         /\ wwwh.wanted <=> writers_q # <<>>
PROOF
<1>1. tc_lock = t /\ \A u \in Threads \ {t} :
        pc[u] \notin {"enter_mark", "enter_block", "exit_wake", "down_wake"}
  BY DEF IInv, ChainInv
<1>2. /\ readers_q \in Seq(Threads) /\ NoRepeats(readers_q)
      /\ Elems(readers_q) = Sleepers(RW_READER)
      /\ writers_q \in Seq(Threads) /\ NoRepeats(writers_q)
      /\ Elems(writers_q) = Sleepers(RW_WRITER)
  BY DEF IInv, TypeOK, QueueInv, readers_q, writers_q, krw_t
<1>3. /\ rw_readers_to_wake \in 0..Len(readers_q)
      /\ writers_q = <<>> => rw_readers_to_wake = Len(readers_q)
  <2>1. writers_q # <<>> => writers_q[1] \in Threads
    BY <1>2
  <2>2. writers_q # <<>> => pri[writers_q[1]] \in Int
    BY <2>1, PriorityType
  <2>3. pri \in [Threads -> Priorities]
    BY DEF IInv, TypeOK
  <2>4. -1 \in Int
    OBVIOUS
  <2>5. CASE writers_q = <<>>
    <3>1. rw_readers_to_wake = Walk(readers_q, -1)
      BY <2>5 DEF rw_readers_to_wake
    <3> QED  BY <1>2, <2>3, <2>4, <2>5, <3>1, WalkBound
  <2>6. CASE writers_q # <<>>
    <3>1. rw_readers_to_wake = Walk(readers_q, pri[writers_q[1]])
      BY <2>6 DEF rw_readers_to_wake
    <3> QED  BY <1>2, <2>2, <2>6, <3>1, WalkBound
  <2> QED  BY <2>5, <2>6
<1>4. wwwh.waiters
  BY DEF IInv, DowngradeInv, ExitInv
<1>5. wwwh.wanted <=> writers_q # <<>>
  BY <1>1, <1>2, ElemsEmpty DEF IInv, BitsInv, Sleepers
<1>6. ts_waiters > 0
  <2>1. \E u \in Threads : pc[u] = "asleep"
    BY <1>1, <1>4 DEF IInv, BitsInv
  <2>2. Elems(readers_q) # {} \/ Elems(writers_q) # {}
    BY <1>2, <2>1 DEF IInv, TypeOK, Sleepers, krw_t
  <2> QED  BY <1>2, <2>2, ElemsEmpty DEF ts_waiters
<1> QED  BY <1>1, <1>2, <1>3, <1>4, <1>5, <1>6

\* The target of a handoff: a writer, unless a writer wakes readers.
LEMMA HandoffTarget ==
  ASSUME IInv, NEW t \in Threads, pc[t] \in {"exit_wake", "down_wake"}
  PROVE  /\ ts_waiters > 0
         /\ pc[t] = "exit_wake" =>
              \/ rw[t] = RW_WRITER /\ rw_readers_to_wake > 0
              \/ writers_q # <<>> /\ wwwh.wanted
PROOF
<1>1. ts_waiters > 0 /\ (wwwh.wanted <=> writers_q # <<>>)
  BY WakeFacts
<1>2. ASSUME pc[t] = "exit_wake", ~wwwh.wanted
      PROVE  rw[t] = RW_WRITER /\ rw_readers_to_wake > 0
  <2>1. rw[t] = RW_WRITER
    BY <1>2 DEF IInv, ExitInv, TypeOK, krw_t
  <2>2. writers_q = <<>> /\ rw_readers_to_wake = Len(readers_q)
    BY <1>1, <1>2, WakeFacts
  <2> QED  BY <1>1, <2>1, <2>2 DEF ts_waiters
<1> QED  BY <1>1, <1>2

\* Waking the first n readers.
LEMMA WakeReaders ==
  ASSUME IInv, NEW t \in Threads, pc[t] \in {"exit_wake", "down_wake"},
         sleepq' = [sleepq EXCEPT ![RW_READER] = After(@, rw_readers_to_wake)]
  PROVE  LET n == rw_readers_to_wake
             S == Front(readers_q, n)
         IN  /\ IsFiniteSet(S) /\ Cardinality(S) = n
             /\ S \subseteq Sleepers(RW_READER) /\ t \notin S
             /\ sleepq' \in [krw_t -> Seq(Threads)]
             /\ \A q \in krw_t : NoRepeats(sleepq'[q])
             /\ Elems(sleepq'[RW_READER]) = Sleepers(RW_READER) \ S
             /\ Elems(sleepq'[RW_WRITER]) = Sleepers(RW_WRITER)
             /\ ts_waiters > n <=> \E u \in Threads : pc[u] = "asleep" /\ u \notin S
PROOF
<1> DEFINE n == rw_readers_to_wake
           S == Front(readers_q, n)
<1>1. n \in 0..Len(readers_q) /\ readers_q \in Seq(Threads) /\ NoRepeats(readers_q)
  BY WakeFacts
<1>2. IsFiniteSet(S) /\ Cardinality(S) = n /\ S \subseteq Elems(readers_q)
  BY <1>1, FrontCardinality
<1>3. S \subseteq Sleepers(RW_READER) /\ t \notin S
  BY <1>2, WakeFacts DEF Sleepers
<1>4. sleepq'[RW_READER] = After(readers_q, n) /\ sleepq'[RW_WRITER] = writers_q
      /\ DOMAIN sleepq' = krw_t
  BY DEF readers_q, writers_q, IInv, TypeOK, krw_t, RW_READER, RW_WRITER
<1>5. /\ After(readers_q, n) \in Seq(Threads) /\ NoRepeats(After(readers_q, n))
      /\ Elems(After(readers_q, n)) = Elems(readers_q) \ S
      /\ Len(After(readers_q, n)) = Len(readers_q) - n
  BY <1>1, AfterQueue
<1>6. sleepq' \in [krw_t -> Seq(Threads)] /\ \A q \in krw_t : NoRepeats(sleepq'[q])
  BY <1>4, <1>5, WakeFacts DEF krw_t, IInv, TypeOK
<1>7. ts_waiters > n <=> \E u \in Threads : pc[u] = "asleep" /\ u \notin S
  <2>1. ts_waiters > n <=> Len(readers_q) - n > 0 \/ Len(writers_q) > 0
    BY <1>1, WakeFacts DEF ts_waiters
  <2>2. Len(readers_q) - n > 0 <=> Sleepers(RW_READER) \ S # {}
    BY <1>5, ElemsEmpty, WakeFacts
  <2>3. Len(writers_q) > 0 <=> Sleepers(RW_WRITER) \ S # {}
    <3>1. Sleepers(RW_WRITER) \ S = Sleepers(RW_WRITER)
      BY <1>3 DEF Sleepers, RW_READER, RW_WRITER
    <3> QED  BY <3>1, ElemsEmpty, WakeFacts
  <2> QED  BY <2>1, <2>2, <2>3 DEF Sleepers, IInv, TypeOK, krw_t
<1> QED  BY <1>2, <1>3, <1>4, <1>5, <1>6, <1>7, WakeFacts

\* A writer's exit that grants the lock to readers.
LEMMA ExitWakeReadersInv ==
  ASSUME IInv, NEW t \in Threads, rw_exit_wakeup_readers(t)
  PROVE  IInv'
PROOF
<1> DEFINE n == rw_readers_to_wake
           S == Front(readers_q, n)
<1>1. /\ pc[t] = "exit_wake" /\ rw[t] = RW_WRITER /\ n > 0
      /\ wwwh' = [holds |-> n, owner |-> NoThread,
                  wanted |-> writers_q # <<>>, waiters |-> ts_waiters > n]
      /\ sleepq' = [sleepq EXCEPT ![RW_READER] = After(@, n)]
      /\ kpri' = [u \in Threads |-> IF u \in S THEN kpri[u] + 1 ELSE kpri[u]]
      /\ tc_lock' = NoThread
      /\ rw' = [rw EXCEPT ![t] = RW_READER]
      /\ pc' = [u \in Threads |-> IF u = t THEN "idle"
                                  ELSE IF u \in S THEN "held" ELSE pc[u]]
      /\ pri' = pri
  BY DEF rw_exit_wakeup_readers, Woken
<1>2. /\ IsFiniteSet(S) /\ Cardinality(S) = n
      /\ S \subseteq Sleepers(RW_READER) /\ t \notin S
      /\ sleepq' \in [krw_t -> Seq(Threads)]
      /\ \A q \in krw_t : NoRepeats(sleepq'[q])
      /\ Elems(sleepq'[RW_READER]) = Sleepers(RW_READER) \ S
      /\ Elems(sleepq'[RW_WRITER]) = Sleepers(RW_WRITER)
      /\ ts_waiters > n <=> \E u \in Threads : pc[u] = "asleep" /\ u \notin S
  BY <1>1, WakeReaders
<1>3. n \in Nat /\ wwwh.waiters
  BY <1>1, WakeFacts
<1> HIDE DEF n, S
<1> USE DEF RW_READER, RW_WRITER, krw_t
<1>4. Holders = {t}
  BY <1>1 DEF IInv, ExitInv
<1>5. \A u \in S : u \in Threads /\ pc[u] = "asleep" /\ rw[u] = RW_READER
  BY <1>2 DEF Sleepers
<1>6. TypeOK'
  <2>1. wwwh' \in rw_wwwh
    BY <1>1, <1>3 DEF rw_wwwh
  <2> QED  BY <1>1, <1>2, <2>1 DEF IInv, TypeOK, Labels, Holding
<1>7. QueueInv'
  <2>1. Sleepers(RW_READER)' = Sleepers(RW_READER) \ S
    BY <1>1, <1>5 DEF IInv, TypeOK, Sleepers
  <2>2. Sleepers(RW_WRITER)' = Sleepers(RW_WRITER)
    BY <1>1, <1>5 DEF IInv, TypeOK, Sleepers
  <2> QED  BY <1>2, <2>1, <2>2 DEF QueueInv
<1>8. Holders' = S
  BY <1>1, <1>4, <1>5 DEF Holders, Holding
<1>9. HoldCountExact'
  <2>1. ReadHolders' = S /\ WriteHolders' = {}
    BY <1>1, <1>2, <1>5, <1>8 DEF IInv, TypeOK, ReadHolders, WriteHolders
  <2> QED  BY <1>1, <1>2, <2>1 DEF HoldCountExact
<1>10. ChainInv'
  BY <1>1, <1>5, ThreadsAssumption, WakeFacts DEF ChainInv
<1>11. BitsInv'
  <2>1. wwwh'.waiters <=> \E u \in Threads : pc'[u] \in {"enter_block", "asleep"}
    BY <1>1, <1>2, <1>5, WakeFacts
  <2>2. wwwh'.wanted <=> \E u \in Threads : pc'[u] \in {"enter_block", "asleep"} /\ rw'[u] = RW_WRITER
    <3>1. writers_q # <<>> <=> \E u \in Threads : pc[u] = "asleep" /\ rw[u] = RW_WRITER
      BY <1>1, WakeFacts, ElemsEmpty DEF Sleepers
    <3> QED  BY <1>1, <1>5, <3>1, WakeFacts DEF IInv, TypeOK
  <2>3. wwwh'.holds > 0 /\ wwwh'.owner = NoThread
    BY <1>1
  <2> QED  BY <2>1, <2>2, <2>3 DEF BitsInv, RW_LOCKED, RW_WRITE_LOCKED
<1>12. DowngradeInv'
  <2>1. writers_q = <<>> => ~(ts_waiters > n)
    BY <1>1, WakeFacts DEF ts_waiters, n
  <2>2. \A u \in Threads : pc'[u] \notin {"down_lookup", "down_wake"}
    BY <1>1, <1>4 DEF Holders, Holding
  <2> QED  BY <1>1, <2>1, <2>2 DEF DowngradeInv, RW_WRITE_CLAIMED
<1>13. ExitInv'
  <2>1. \A u \in Threads : pc'[u] \notin {"exit_lookup", "exit_wake"}
    BY <1>1, <1>4 DEF Holders, Holding
  <2> QED  BY <2>1 DEF ExitInv
<1>14. KpriBalanced'
  BY <1>1, <1>5 DEF IInv, TypeOK, KpriBalanced
<1> QED  BY <1>6, <1>7, <1>9, <1>10, <1>11, <1>12, <1>13, <1>14 DEF IInv

\* The readers woken by a downgrade.
LEMMA DowngradeWakeInv ==
  ASSUME IInv, NEW t \in Threads, rw_downgrade_wakeup(t)
  PROVE  IInv'
PROOF
<1> DEFINE n == rw_readers_to_wake
           S == Front(readers_q, n)
<1>1. /\ pc[t] = "down_wake"
      /\ wwwh' = [wwwh EXCEPT !.holds = wwwh.holds + n,
                              !.waiters = wwwh.waiters /\ ~(n > 0 /\ ts_waiters = n)]
      /\ sleepq' = [sleepq EXCEPT ![RW_READER] = After(@, n)]
      /\ kpri' = [u \in Threads |-> IF u \in S THEN kpri[u] + 1 ELSE kpri[u]]
      /\ tc_lock' = NoThread
      /\ pc' = [u \in Threads |-> IF u = t \/ u \in S THEN "held" ELSE pc[u]]
      /\ pri' = pri /\ rw' = rw
  BY DEF rw_downgrade_wakeup, Woken
<1>2. /\ IsFiniteSet(S) /\ Cardinality(S) = n
      /\ S \subseteq Sleepers(RW_READER) /\ t \notin S
      /\ sleepq' \in [krw_t -> Seq(Threads)]
      /\ \A q \in krw_t : NoRepeats(sleepq'[q])
      /\ Elems(sleepq'[RW_READER]) = Sleepers(RW_READER) \ S
      /\ Elems(sleepq'[RW_WRITER]) = Sleepers(RW_WRITER)
      /\ ts_waiters > n <=> \E u \in Threads : pc[u] = "asleep" /\ u \notin S
  BY <1>1, WakeReaders
<1>3. n \in Nat /\ wwwh.waiters /\ ts_waiters > 0 /\ ts_waiters \in Nat /\ ts_waiters >= n
  BY <1>1, WakeFacts DEF ts_waiters
<1>4. wwwh'.waiters <=> ts_waiters > n
  <2>1. wwwh'.waiters = (wwwh.waiters /\ ~(n > 0 /\ ts_waiters = n))
    BY <1>1 DEF IInv, TypeOK, rw_wwwh
  <2>2. ~(n > 0 /\ ts_waiters = n) <=> ts_waiters > n
    BY <1>3
  <2> QED  BY <1>3, <2>1, <2>2
<1>5. rw[t] = RW_READER /\ t \in ReadHolders
  BY <1>1 DEF IInv, DowngradeInv, ReadHolders, Holders, Holding
<1>6. wwwh.owner = NoThread /\ wwwh.holds \in Nat /\ wwwh.holds > 0
  BY <1>5, InsideFacts
<1> HIDE DEF n, S
<1> USE DEF RW_READER, RW_WRITER, krw_t
<1>7. \A u \in S : u \in Threads /\ pc[u] = "asleep" /\ rw[u] = RW_READER
  BY <1>2 DEF Sleepers
<1>8. /\ wwwh' \in rw_wwwh /\ wwwh'.holds = wwwh.holds + n
      /\ wwwh'.owner = NoThread /\ wwwh'.wanted = wwwh.wanted
  <2>1. wwwh.holds + n \in Nat
    BY <1>3, <1>6
  <2> QED  BY <1>1, <1>6, <2>1 DEF IInv, TypeOK, rw_wwwh
<1>9. TypeOK'
  BY <1>1, <1>2, <1>8 DEF IInv, TypeOK, Labels, Holding
<1>10. QueueInv'
  <2>1. Sleepers(RW_READER)' = Sleepers(RW_READER) \ S
    BY <1>1, <1>7 DEF IInv, TypeOK, Sleepers
  <2>2. Sleepers(RW_WRITER)' = Sleepers(RW_WRITER)
    BY <1>1, <1>7 DEF IInv, TypeOK, Sleepers
  <2> QED  BY <1>2, <2>1, <2>2 DEF QueueInv
<1>11. HoldCountExact'
  <2>1. ReadHolders' = ReadHolders \cup S /\ WriteHolders' = WriteHolders
    BY <1>1, <1>7 DEF IInv, TypeOK, Holders, Holding, ReadHolders, WriteHolders
  <2>2. ReadHolders \cap S = {}
    BY <1>7 DEF ReadHolders, Holders, Holding
  <2>3. Cardinality(ReadHolders \cup S) = Cardinality(ReadHolders) + n
    <3>1. Cardinality(ReadHolders \cup S) =
            Cardinality(ReadHolders) + Cardinality(S) - Cardinality(ReadHolders \cap S)
      BY <1>2, InsideFacts, FS_Union
    <3>2. Cardinality(ReadHolders \cap S) = 0
      BY <2>2, FS_EmptySet
    <3>3. Cardinality(ReadHolders) \in Nat
      BY InsideFacts, FS_CardinalityType
    <3> QED  BY <1>2, <1>3, <3>1, <3>2, <3>3
  <2> QED  BY <1>6, <1>8, <2>1, <2>3 DEF IInv, HoldCountExact
<1>12. ChainInv'
  BY <1>1, <1>7, ThreadsAssumption, WakeFacts DEF ChainInv
<1>13. BitsInv'
  <2>1. wwwh'.waiters <=> \E u \in Threads : pc'[u] \in {"enter_block", "asleep"}
    BY <1>1, <1>2, <1>4, <1>7, WakeFacts
  <2>2. wwwh'.wanted <=> \E u \in Threads : pc'[u] \in {"enter_block", "asleep"} /\ rw'[u] = RW_WRITER
    BY <1>1, <1>7, <1>8 DEF IInv, BitsInv
  <2> QED  BY <1>3, <1>6, <1>8, <2>1, <2>2 DEF BitsInv, RW_LOCKED, RW_WRITE_LOCKED
<1>14. DowngradeInv'
  <2>1. ~wwwh.wanted => ~(ts_waiters > n)
    BY <1>1, WakeFacts DEF ts_waiters, n
  <2>2. \A u \in Threads : pc'[u] \notin {"down_lookup", "down_wake"}
    BY <1>1 DEF IInv, DowngradeInv
  <2> QED  BY <1>1, <1>4, <1>8, <2>1, <2>2 DEF DowngradeInv, RW_WRITE_CLAIMED
<1>15. ExitInv'
  <2>1. \A u \in Threads : pc[u] \notin {"exit_lookup", "exit_wake"}
    BY <1>1, <1>5 DEF IInv, ExitInv, ReadHolders
  <2> QED  BY <1>1, <2>1 DEF ExitInv
<1>16. KpriBalanced'
  BY <1>1, <1>5, <1>7 DEF IInv, TypeOK, KpriBalanced
<1> QED  BY <1>9, <1>10, <1>11, <1>12, <1>13, <1>14, <1>15, <1>16 DEF IInv

\* An exit that hands the lock to the first waiting writer.
LEMMA ExitWakeWriterInv ==
  ASSUME IInv, NEW t \in Threads, rw_exit_wakeup_writer(t)
  PROVE  IInv'
PROOF
<1> DEFINE w == writers_q[1]
<1>1. /\ pc[t] = "exit_wake"
      /\ ~(rw[t] = RW_WRITER /\ rw_readers_to_wake > 0)
      /\ wwwh' = [holds |-> 0, owner |-> w,
                  wanted |-> Len(writers_q) > 1, waiters |-> ts_waiters > 1]
      /\ sleepq' = [sleepq EXCEPT ![RW_WRITER] = After(@, 1)]
      /\ KpriRelease(t, rw[t])
      /\ tc_lock' = NoThread
      /\ rw' = [rw EXCEPT ![t] = RW_READER]
      /\ pc' = [u \in Threads |-> IF u = t THEN "idle"
                                  ELSE IF u = w THEN "held" ELSE pc[u]]
      /\ pri' = pri
  BY DEF rw_exit_wakeup_writer, Woken
<1>2. Holders = {t} /\ wwwh.waiters /\ (rw[t] = RW_READER => wwwh.wanted)
  BY <1>1 DEF IInv, ExitInv
<1>3. writers_q # <<>>
  BY <1>1, HandoffTarget
<1>4. 1 \in 0..Len(writers_q) /\ w \in Elems(writers_q) /\ Front(writers_q, 1) = {w}
  BY <1>1, <1>3, WakeFacts DEF Elems, Front
<1>5. w \in Threads /\ pc[w] = "asleep" /\ rw[w] = RW_WRITER /\ w # t
  BY <1>1, <1>4, WakeFacts DEF Sleepers
<1>6. /\ After(writers_q, 1) \in Seq(Threads) /\ NoRepeats(After(writers_q, 1))
      /\ Elems(After(writers_q, 1)) = Sleepers(RW_WRITER) \ {w}
      /\ Len(After(writers_q, 1)) = Len(writers_q) - 1
  BY <1>1, <1>4, AfterQueue, WakeFacts
<1>7. /\ sleepq'[RW_WRITER] = After(writers_q, 1) /\ sleepq'[RW_READER] = readers_q
      /\ sleepq' \in [krw_t -> Seq(Threads)]
  BY <1>1, <1>6 DEF readers_q, writers_q, IInv, TypeOK, krw_t, RW_READER, RW_WRITER
<1>8. Len(writers_q) > 1 <=> Sleepers(RW_WRITER) \ {w} # {}
  BY <1>1, <1>6, WakeFacts, ElemsEmpty
<1>9. ts_waiters > 1 <=> \E u \in Threads : pc[u] = "asleep" /\ u # w
  <2>1. ts_waiters > 1 <=> Len(readers_q) > 0 \/ Len(writers_q) > 1
    BY <1>1, <1>4, WakeFacts DEF ts_waiters
  <2>2. Len(readers_q) > 0 <=> Sleepers(RW_READER) # {}
    BY <1>1, WakeFacts, ElemsEmpty
  <2> QED  BY <1>5, <1>8, <2>1, <2>2 DEF Sleepers, IInv, TypeOK, krw_t, RW_READER, RW_WRITER
<1> HIDE DEF w
<1> USE DEF RW_READER, RW_WRITER, krw_t
<1>10. TypeOK'
  <2>1. wwwh' \in rw_wwwh
    BY <1>1, <1>5 DEF rw_wwwh
  <2> QED  BY <1>1, <1>7, <2>1 DEF IInv, TypeOK, Labels, Holding, KpriRelease
<1>11. QueueInv'
  <2>1. Sleepers(RW_READER)' = Sleepers(RW_READER)
    BY <1>1, <1>5 DEF IInv, TypeOK, Sleepers
  <2>2. Sleepers(RW_WRITER)' = Sleepers(RW_WRITER) \ {w}
    BY <1>1, <1>5 DEF IInv, TypeOK, Sleepers
  <2> QED  BY <1>1, <1>6, <1>7, <2>1, <2>2, WakeFacts DEF QueueInv
<1>12. Holders' = {w}
  BY <1>1, <1>2, <1>5 DEF Holders, Holding
<1>13. HoldCountExact'
  <2>1. ReadHolders' = {} /\ WriteHolders' = {w}
    BY <1>1, <1>5, <1>12 DEF IInv, TypeOK, ReadHolders, WriteHolders
  <2> QED  BY <1>1, <1>5, <2>1, FS_EmptySet, ThreadsAssumption DEF HoldCountExact
<1>14. ChainInv'
  BY <1>1, <1>5, ThreadsAssumption, WakeFacts DEF ChainInv
<1>15. BitsInv'
  <2>1. wwwh'.waiters <=> \E u \in Threads : pc'[u] \in {"enter_block", "asleep"}
    BY <1>1, <1>5, <1>9, WakeFacts
  <2>2. wwwh'.wanted <=> \E u \in Threads : pc'[u] \in {"enter_block", "asleep"} /\ rw'[u] = RW_WRITER
    BY <1>1, <1>5, <1>8, WakeFacts DEF IInv, TypeOK, Sleepers
  <2>3. wwwh'.holds = 0 /\ wwwh'.owner # NoThread
    BY <1>1, <1>5, ThreadsAssumption
  <2> QED  BY <2>1, <2>2, <2>3 DEF BitsInv, RW_LOCKED, RW_WRITE_LOCKED
<1>16. DowngradeInv' /\ ExitInv'
  <2>1. \A u \in Threads : pc'[u] \notin {"down_lookup", "down_wake", "exit_lookup", "exit_wake"}
    BY <1>1, <1>2 DEF Holders, Holding
  <2>2. RW_WRITE_CLAIMED(wwwh')
    BY <1>1, <1>5, ThreadsAssumption DEF RW_WRITE_CLAIMED, RW_WRITE_LOCKED
  <2> QED  BY <2>1, <2>2 DEF DowngradeInv, ExitInv
<1>17. KpriBalanced'
  BY <1>1, <1>5 DEF IInv, TypeOK, KpriBalanced, KpriRelease
<1> QED  BY <1>10, <1>11, <1>13, <1>14, <1>15, <1>16, <1>17 DEF IInv

-----------------------------------------------------------------------------
(***************************************************************************)
(* IInv is an invariant, and what follows from it.                         *)
(***************************************************************************)

\* Every step of the code preserves the inductive invariant.
LEMMA NextInv == IInv /\ [Next]_vars => IInv'
PROOF
<1> SUFFICES ASSUME IInv, [Next]_vars PROVE IInv'
  OBVIOUS
<1>1. CASE LockNext
  BY <1>1, EnterInv, TryEnterInv, EnterGrabInv, EnterBusyInv, LookupInv, MarkInv,
     RetryInv, BlockInv, ExitWakeReadersInv, ExitWakeWriterInv, DowngradeWakeInv,
     ExitInvariant, ExitFinalInv, DowngradeStepInv, TryUpgradeInv
  DEF LockNext, Progress, Release
<1>2. CASE PriorityNext
  BY <1>2, ThreadChangePriInv, ChangePriInv DEF PriorityNext
<1>3. CASE UNCHANGED vars
  BY <1>3 DEF vars, IInv, TypeOK, QueueInv, HoldCountExact, ChainInv, BitsInv,
     DowngradeInv, ExitInv, KpriBalanced, Holders, ReadHolders, WriteHolders, Sleepers
<1> QED  BY <1>1, <1>2, <1>3 DEF Next

\* The inductive invariant of rwlock.c holds in every reachable state.
THEOREM InductiveInvariant == Spec => []IInv
BY InitInv, NextInv, PTL DEF Spec

\* The lock word, the queues and the per-thread state keep their types; in
\* particular the hold count never goes below zero and a handoff never
\* names a writer that is not there.
THEOREM TypeCorrectness == Spec => []TypeOK
PROOF
<1>1. IInv => TypeOK
  BY DEF IInv
<1> QED  BY <1>1, InductiveInvariant, PTL

\* A writer is alone inside the lock, for any number of threads.
THEOREM WriterExclusion == Spec => []MutualExclusion
PROOF
<1>1. IInv => MutualExclusion
  BY InsideFacts DEF MutualExclusion
<1> QED  BY <1>1, InductiveInvariant, PTL

\* The lock word counts the readers inside and names the writer inside, for
\* any number of threads.
THEOREM HoldCountCorrect == Spec => []HoldCountExact
PROOF
<1>1. IInv => HoldCountExact
  BY DEF IInv
<1> QED  BY <1>1, InductiveInvariant, PTL

\* Rule (2) of the Big Theory Statement: the bits agree with the turnstile.
THEOREM WaitersBitsCorrect == Spec => []WaitersBitsExact
PROOF
<1>1. ASSUME IInv PROVE WaitersBitsExact
  <2> SUFFICES ASSUME tc_lock = NoThread
               PROVE  /\ wwwh.waiters <=> ts_waiters > 0
                      /\ wwwh.wanted <=> writers_q # <<>>
    BY DEF WaitersBitsExact
  <2>1. \A t \in Threads : pc[t] # "enter_block"
    BY <1>1, ThreadsAssumption DEF IInv, ChainInv
  <2>2. /\ readers_q \in Seq(Threads) /\ Elems(readers_q) = Sleepers(RW_READER)
        /\ writers_q \in Seq(Threads) /\ Elems(writers_q) = Sleepers(RW_WRITER)
    BY <1>1 DEF IInv, TypeOK, QueueInv, readers_q, writers_q, krw_t
  <2>3. writers_q # <<>> <=> wwwh.wanted
    BY <1>1, <2>1, <2>2, ElemsEmpty DEF IInv, BitsInv, Sleepers
  <2>4. ts_waiters > 0 <=> Sleepers(RW_READER) # {} \/ Sleepers(RW_WRITER) # {}
    BY <2>2, ElemsEmpty DEF ts_waiters
  <2>5. ts_waiters > 0 <=> wwwh.waiters
    BY <1>1, <2>1, <2>4 DEF IInv, TypeOK, BitsInv, Sleepers, krw_t
  <2> QED  BY <2>3, <2>5
<1> QED  BY <1>1, InductiveInvariant, PTL

\* Nobody sleeps for a lock that is available to it.
THEOREM NoSleepOnFreeLock == Spec => []BlockedForCause
PROOF
<1>1. ASSUME IInv PROVE BlockedForCause
  <2>1. /\ readers_q \in Seq(Threads) /\ Elems(readers_q) = Sleepers(RW_READER)
        /\ writers_q \in Seq(Threads) /\ Elems(writers_q) = Sleepers(RW_WRITER)
    BY <1>1 DEF IInv, TypeOK, QueueInv, readers_q, writers_q, krw_t
  <2>2. writers_q # <<>> \/ readers_q # <<>> => wwwh.waiters
    BY <1>1, <2>1, ElemsEmpty DEF IInv, BitsInv, Sleepers
  <2> QED  BY <1>1, <2>2 DEF IInv, BitsInv, DowngradeInv, BlockedForCause
<1> QED  BY <1>1, InductiveInvariant, PTL

\* The comment in rw_exit_wakeup(): "there must be at least one waiting
\* writer" where the lock is not granted to readers.
THEOREM HandoffCorrect == Spec => []HandoffHasTarget
PROOF
<1>1. ASSUME IInv PROVE HandoffHasTarget
  BY <1>1, HandoffTarget DEF HandoffHasTarget
<1> QED  BY <1>1, InductiveInvariant, PTL

\* Between the load that decides the final exit and the store that hands the
\* lock over, nobody enters or leaves.
THEOREM FinalExitCorrect == Spec => FinalExitIsFinal
PROOF
<1>1. ASSUME IInv, IInv', NEW t \in Threads,
             pc[t] \in {"exit_lookup", "exit_wake"},
             pc'[t] \in {"exit_lookup", "exit_wake"}
      PROVE  Holders' = Holders /\ Holders = {t}
  BY <1>1 DEF IInv, ExitInv
<1>2. IInv /\ IInv' =>
        [\A t \in Threads :
           /\ pc[t] \in {"exit_lookup", "exit_wake"}
           /\ pc'[t] \in {"exit_lookup", "exit_wake"}
           => Holders' = Holders /\ Holders = {t}]_vars
  BY <1>1
<1> QED  BY <1>2, InductiveInvariant, PTL DEF FinalExitIsFinal

\* A reader inside or on its way in holds exactly one kernel priority
\* request, and nobody else holds any.
THEOREM KpriCorrect == Spec => []KpriBalanced
PROOF
<1>1. IInv => KpriBalanced
  BY DEF IInv
<1> QED  BY <1>1, InductiveInvariant, PTL

-----------------------------------------------------------------------------
(***************************************************************************)
(* The refinement of RwSpec, step by step.                                 *)
(***************************************************************************)

inside == [t \in Threads |-> IF pc[t] \in Holding THEN rw[t] ELSE "none"]
waiting == [t \in Threads |-> IF pc[t] = "asleep" THEN rw[t] ELSE "none"]

\* Who is inside and who waits, in terms of the code's own sets.
LEMMA AbstractSets ==
  ASSUME TypeOK
  PROVE  /\ Abstract!In("reader") = ReadHolders
         /\ Abstract!In("writer") = WriteHolders
         /\ Abstract!Waiting("reader") = Sleepers(RW_READER)
         /\ Abstract!Waiting("writer") = Sleepers(RW_WRITER)
         /\ Holders = ReadHolders \cup WriteHolders
         /\ \A t \in Threads : inside[t] = "none" <=> t \notin Holders
         /\ \A t \in Threads : waiting[t] = "none" <=> pc[t] # "asleep"
BY DEF TypeOK, Abstract!In, Abstract!Waiting, ReadHolders, WriteHolders, Holders,
   Sleepers, krw_t, RW_READER, RW_WRITER, inside, waiting

\* Steps that move nobody in or out are stuttering steps.
LEMMA Stutter ==
  ASSUME TypeOK, TypeOK',
         \A u \in Threads : /\ pc'[u] \in Holding <=> pc[u] \in Holding
                            /\ pc'[u] = "asleep" <=> pc[u] = "asleep"
                            /\ pc[u] \in Holding \cup {"asleep"} => rw'[u] = rw[u]
  PROVE  UNCHANGED Abstract!specvars
BY DEF Abstract!specvars, TypeOK, Labels, Holding

\* Calls, busy loads, the turnstile lock, the waiters bits and priority changes
\* move nobody in or out of the abstract lock.
LEMMA QuietSteps ==
  ASSUME IInv, IInv', NEW t \in Threads,
         \/ \E m \in krw_t : rw_enter(t, m)
         \/ rw_enter_busy(t) \/ turnstile_lookup(t) \/ rw_enter_mark(t)
         \/ rw_enter_retry(t) \/ rw_exit_final(t)
         \/ \E p \in Priorities : thread_change_pri(t, p) \/ turnstile_change_pri(t, p)
  PROVE  UNCHANGED Abstract!specvars
PROOF
<1>1. ASSUME pc' = [pc EXCEPT ![t] = pc'[t]],
             pc[t] \in Holding <=> pc'[t] \in Holding,
             pc[t] # "asleep" /\ pc'[t] # "asleep",
             \A u \in Threads : u # t \/ pc[t] \in Holding => rw'[u] = rw[u]
      PROVE  UNCHANGED Abstract!specvars
  <2>1. \A u \in Threads : /\ pc'[u] \in Holding <=> pc[u] \in Holding
                           /\ pc'[u] = "asleep" <=> pc[u] = "asleep"
                           /\ pc[u] \in Holding \cup {"asleep"} => rw'[u] = rw[u]
    BY <1>1 DEF IInv, TypeOK
  <2> QED  BY <2>1, Stutter DEF IInv
<1>2. CASE \E m \in krw_t : rw_enter(t, m)
  BY <1>1, <1>2 DEF rw_enter, Goto, IInv, TypeOK, Holding
<1>3. CASE rw_enter_busy(t)
  BY <1>1, <1>3 DEF rw_enter_busy, Goto, IInv, TypeOK, Holding
<1>4. CASE turnstile_lookup(t)
  BY <1>1, <1>4 DEF turnstile_lookup, LookupNext, Goto, IInv, TypeOK, Holding
<1>5. CASE rw_enter_mark(t)
  BY <1>1, <1>5 DEF rw_enter_mark, Goto, IInv, TypeOK, Holding
<1>6. CASE rw_enter_retry(t)
  BY <1>1, <1>6 DEF rw_enter_retry, Goto, IInv, TypeOK, Holding
<1>7. CASE rw_exit_final(t)
  BY <1>1, <1>7 DEF rw_exit_final, Goto, IInv, TypeOK, Holding
<1>8. CASE \E p \in Priorities : thread_change_pri(t, p) \/ turnstile_change_pri(t, p)
  BY <1>8, Stutter DEF thread_change_pri, turnstile_change_pri, IInv
<1> QED  BY <1>2, <1>3, <1>4, <1>5, <1>6, <1>7, <1>8

\* A thread that finds the lock not busy enters it by itself.
LEMMA EnterStep ==
  ASSUME IInv, IInv', NEW t \in Threads, NEW m \in krw_t,
         rw_tryenter(t, m) \/ (rw_enter_grab(t) /\ m = rw[t])
  PROVE  Abstract!Enter(t, m)
PROOF
<1> USE DEF krw_t, RW_READER, RW_WRITER
<1>1. ~lock_busy(m, wwwh)
  BY DEF rw_tryenter, rw_enter_grab, lock_busy, RW_UNHELD, RW_LOCKED, RW_WRITE_LOCKED
<1>2. /\ pc[t] \notin Holding \cup {"asleep"}
      /\ pc' = [pc EXCEPT ![t] = "held"] /\ rw' = [rw EXCEPT ![t] = m]
  BY DEF rw_tryenter, rw_enter_grab, Goto, Holding, IInv, TypeOK
<1>3. WriteHolders = {}
  BY <1>1 DEF IInv, HoldCountExact, lock_busy, RW_LOCKED, RW_WRITE_CLAIMED, RW_WRITE_LOCKED
<1>4. m = "reader" => Sleepers(RW_WRITER) = {}
  BY <1>1 DEF lock_busy, RW_WRITE_CLAIMED, IInv, BitsInv, Sleepers
<1>5. m = "writer" => ReadHolders = {} /\ ~wwwh.waiters
  BY <1>1, InsideFacts DEF lock_busy, RW_LOCKED, IInv, BitsInv
<1>6. m = "writer" => Sleepers(RW_WRITER) = {} /\ Sleepers(RW_READER) = {}
  BY <1>5 DEF IInv, BitsInv, Sleepers
<1>7. inside' = [inside EXCEPT ![t] = m] /\ waiting' = waiting
  BY <1>2 DEF inside, waiting, IInv, TypeOK, Holding
<1>8. inside[t] = "none" /\ waiting[t] = "none"
  BY <1>2 DEF inside, waiting
<1> QED
  BY <1>3, <1>4, <1>5, <1>6, <1>7, <1>8, AbstractSets
  DEF Abstract!Enter, Abstract!Nobody, Abstract!NobodyWaits, inside, waiting, IInv

\* turnstile_block() puts a thread to sleep while somebody is inside.
LEMMA WaitStep ==
  ASSUME IInv, IInv', NEW t \in Threads, turnstile_block(t)
  PROVE  \E m \in {"reader", "writer"} : Abstract!Wait(t, m)
PROOF
<1> USE DEF krw_t, RW_READER, RW_WRITER
<1>1. pc[t] = "enter_block" /\ pc' = [pc EXCEPT ![t] = "asleep"] /\ rw' = rw
  BY DEF turnstile_block, Goto
<1>2. ReadHolders # {} \/ WriteHolders # {}
  <2>1. RW_LOCKED(wwwh)
    BY <1>1 DEF IInv, BitsInv
  <2> QED  BY <2>1, InsideFacts DEF RW_LOCKED, RW_WRITE_LOCKED, IInv, HoldCountExact
<1>3. inside' = inside /\ waiting' = [waiting EXCEPT ![t] = rw[t]]
  BY <1>1 DEF inside, waiting, IInv, TypeOK, Holding
<1>4. inside[t] = "none" /\ waiting[t] = "none" /\ rw[t] \in {"reader", "writer"}
  BY <1>1 DEF inside, waiting, Holding, IInv, TypeOK
<1>5. PICK m \in {"reader", "writer"} : m = rw[t]
  BY <1>4
<1>6. Abstract!Wait(t, m)
  BY <1>2, <1>3, <1>4, <1>5, AbstractSets
  DEF Abstract!Wait, Abstract!Nobody, inside, waiting, IInv
<1> QED  BY <1>6

\* rw_exit() that is not a final exit frees no lock that is waited for.
LEMMA LeaveStep ==
  ASSUME IInv, IInv', NEW t \in Threads, rw_exit(t)
  PROVE  Abstract!Leave(t)
PROOF
<1> USE DEF krw_t, RW_READER, RW_WRITER
<1>1. /\ pc[t] = "held" /\ pc' = [pc EXCEPT ![t] = "idle"]
      /\ rw' = [rw EXCEPT ![t] = RW_READER]
      /\ wwwh'.waiters = wwwh.waiters
  BY DEF rw_exit, Leave, Goto, Drop, IInv, TypeOK, rw_wwwh
<1>2. inside[t] # "none"
  BY <1>1, AbstractSets DEF IInv, Holders, Holding
<1>3. inside' = [inside EXCEPT ![t] = "none"] /\ waiting' = waiting
  BY <1>1 DEF inside, waiting, IInv, TypeOK, Holding
<1>4. CASE wwwh.waiters
  <2>1. RW_LOCKED(wwwh')
    BY <1>1, <1>4 DEF IInv, BitsInv
  <2>2. Holders' # {}
    <3> SUFFICES ASSUME Holders' = {} PROVE FALSE
      OBVIOUS
    <3>1. ReadHolders' = {} /\ WriteHolders' = {}
      BY DEF ReadHolders, WriteHolders
    <3>2. wwwh'.holds = 0 /\ wwwh'.owner = NoThread
      BY <3>1, FS_EmptySet DEF IInv, HoldCountExact
    <3> QED  BY <2>1, <3>2 DEF RW_LOCKED, RW_WRITE_LOCKED
  <2>3. \E u \in Threads \ {t} : u \in Holders
    BY <1>1, <2>2 DEF Holders, Holding, IInv, TypeOK
  <2>4. \E u \in Threads \ {t} : inside[u] # "none"
    BY <2>3, AbstractSets DEF IInv
  <2> QED  BY <1>2, <1>3, <2>4 DEF Abstract!Leave, inside, waiting
<1>5. CASE ~wwwh.waiters
  <2>1. Sleepers(RW_READER) = {} /\ Sleepers(RW_WRITER) = {}
    BY <1>5 DEF IInv, BitsInv, Sleepers
  <2>2. Abstract!NobodyWaits
    BY <2>1, AbstractSets DEF Abstract!NobodyWaits, IInv
  <2> QED  BY <1>2, <1>3, <2>2 DEF Abstract!Leave, inside, waiting
<1> QED  BY <1>4, <1>5

\* The final exit of a writer that grants the lock to waiting readers.
LEMMA HandOffReadersStep ==
  ASSUME IInv, IInv', NEW t \in Threads, rw_exit_wakeup_readers(t)
  PROVE  \E X \in SUBSET Threads : Abstract!HandOff(t, X)
PROOF
<1> DEFINE n == rw_readers_to_wake
           S == Front(readers_q, n)
<1>1. /\ pc[t] = "exit_wake" /\ rw[t] = RW_WRITER /\ n > 0
      /\ sleepq' = [sleepq EXCEPT ![RW_READER] = After(@, n)]
      /\ rw' = [rw EXCEPT ![t] = RW_READER]
      /\ pc' = [u \in Threads |-> IF u = t THEN "idle"
                                  ELSE IF u \in S THEN "held" ELSE pc[u]]
  BY DEF rw_exit_wakeup_readers, Woken
<1>2. S \subseteq Sleepers(RW_READER) /\ t \notin S /\ IsFiniteSet(S) /\ Cardinality(S) = n
  BY <1>1, WakeReaders
<1>3. S # {} /\ S \subseteq Threads
  BY <1>1, <1>2, FS_EmptySet DEF Sleepers
<1>4. Holders = {t}
  BY <1>1 DEF IInv, ExitInv
<1> HIDE DEF n, S
<1> USE DEF krw_t, RW_READER, RW_WRITER
<1>5. \A u \in S : pc[u] = "asleep" /\ rw[u] = RW_READER
  BY <1>2 DEF Sleepers
<1>6. inside[t] = "writer" /\ \A u \in Threads \ {t} : inside[u] = "none"
  BY <1>1, <1>4 DEF inside, Holders, Holding
<1>7. inside' = [u \in Threads |-> IF u \in S THEN waiting[u] ELSE "none"]
  BY <1>1, <1>2, <1>3, <1>4, <1>5 DEF inside, waiting, IInv, TypeOK, Holders, Holding
<1>8. waiting' = [u \in Threads |-> IF u \in S THEN "none" ELSE waiting[u]]
  BY <1>1, <1>2, <1>5 DEF waiting, IInv, TypeOK
<1>9. S \subseteq Abstract!Waiting("reader")
  BY <1>2, AbstractSets DEF IInv
<1>10. PICK X \in SUBSET Threads : X = S
  BY <1>3
<1>11. Abstract!HandOff(t, X)
  BY <1>3, <1>6, <1>7, <1>8, <1>9, <1>10 DEF Abstract!HandOff, inside, waiting
<1> QED  BY <1>11

\* A final exit that hands the lock to the first waiting writer.
LEMMA HandOffWriterStep ==
  ASSUME IInv, IInv', NEW t \in Threads, rw_exit_wakeup_writer(t)
  PROVE  \E x \in Threads : Abstract!HandOff(t, {x})
PROOF
<1> DEFINE w == writers_q[1]
<1>1. /\ pc[t] = "exit_wake"
      /\ rw' = [rw EXCEPT ![t] = RW_READER]
      /\ wwwh'.owner = w
      /\ pc' = [u \in Threads |-> IF u = t THEN "idle"
                                  ELSE IF u = w THEN "held" ELSE pc[u]]
  BY DEF rw_exit_wakeup_writer, Woken
<1>2. /\ ~(rw[t] = RW_WRITER /\ rw_readers_to_wake > 0)
      /\ writers_q \in Seq(Threads) /\ Elems(writers_q) = Sleepers(RW_WRITER)
  BY <1>1, WakeFacts DEF rw_exit_wakeup_writer
<1>3. writers_q # <<>>
  BY <1>1, <1>2, HandoffTarget
<1>4. w \in Sleepers(RW_WRITER)
  BY <1>2, <1>3 DEF Elems
<1>5. Holders = {t}
  BY <1>1 DEF IInv, ExitInv
<1> HIDE DEF w
<1> USE DEF krw_t, RW_READER, RW_WRITER
<1>6. w \in Threads /\ pc[w] = "asleep" /\ rw[w] = RW_WRITER /\ w # t
  BY <1>1, <1>4 DEF Sleepers
<1>7. inside[t] # "none" /\ \A u \in Threads \ {t} : inside[u] = "none"
  BY <1>1, <1>5 DEF inside, Holders, Holding, IInv, TypeOK
<1>8. inside' = [u \in Threads |-> IF u \in {w} THEN waiting[u] ELSE "none"]
  BY <1>1, <1>5, <1>6 DEF inside, waiting, IInv, TypeOK, Holders, Holding
<1>9. waiting' = [u \in Threads |-> IF u \in {w} THEN "none" ELSE waiting[u]]
  BY <1>1, <1>6 DEF waiting, IInv, TypeOK
<1>10. w \in Abstract!Waiting("writer")
  BY <1>4, AbstractSets DEF IInv
<1>11. PICK x \in Threads : x = w
  BY <1>6
<1>12. Abstract!HandOff(t, {x})
  BY <1>7, <1>8, <1>9, <1>10, <1>11 DEF Abstract!HandOff, inside, waiting
<1> QED  BY <1>12

\* rw_downgrade(), the grant that follows it, and rw_tryupgrade().
LEMMA DowngradeStep ==
  ASSUME IInv, IInv', NEW t \in Threads, rw_downgrade(t)
  PROVE  Abstract!Downgrade(t)
PROOF
<1> USE DEF krw_t, RW_READER, RW_WRITER
<1>1. /\ pc[t] = "held" /\ rw[t] = RW_WRITER
      /\ rw' = [rw EXCEPT ![t] = RW_READER]
      /\ pc' = [pc EXCEPT ![t] = IF wwwh.waiters THEN "down_lookup" ELSE "held"]
  BY DEF rw_downgrade, Goto
<1>2. inside' = [inside EXCEPT ![t] = "reader"] /\ waiting' = waiting
  BY <1>1 DEF inside, waiting, IInv, TypeOK, Holding
<1>3. inside[t] = "writer"
  BY <1>1 DEF inside, Holding
<1> QED  BY <1>2, <1>3 DEF Abstract!Downgrade, inside, waiting

\* The wakeup that follows a downgrade admits waiting readers.
LEMMA AdmitStep ==
  ASSUME IInv, IInv', NEW t \in Threads, rw_downgrade_wakeup(t)
  PROVE  \E X \in SUBSET Threads : Abstract!Admit(X)
PROOF
<1> DEFINE n == rw_readers_to_wake
           S == Front(readers_q, n)
<1>1. /\ pc[t] = "down_wake" /\ rw' = rw
      /\ sleepq' = [sleepq EXCEPT ![RW_READER] = After(@, n)]
      /\ pc' = [u \in Threads |-> IF u = t \/ u \in S THEN "held" ELSE pc[u]]
  BY DEF rw_downgrade_wakeup, Woken
<1>2. S \subseteq Sleepers(RW_READER) /\ t \notin S
  BY <1>1, WakeReaders
<1>3. t \in ReadHolders /\ WriteHolders = {}
  <2>1. t \in ReadHolders
    BY <1>1 DEF IInv, DowngradeInv, ReadHolders, Holders, Holding
  <2> QED  BY <2>1, InsideFacts DEF IInv, HoldCountExact
<1> HIDE DEF n, S
<1> USE DEF krw_t, RW_READER, RW_WRITER
<1>4. \A u \in S : u \in Threads /\ pc[u] = "asleep" /\ rw[u] = RW_READER
  BY <1>2 DEF Sleepers
<1>5. inside' = [u \in Threads |-> IF u \in S THEN "reader" ELSE inside[u]]
  BY <1>1, <1>2, <1>4 DEF inside, IInv, TypeOK, Holding
<1>6. waiting' = [u \in Threads |-> IF u \in S THEN "none" ELSE waiting[u]]
  BY <1>1, <1>2, <1>4 DEF waiting, IInv, TypeOK
<1>7. S \in SUBSET Threads /\ S \subseteq Abstract!Waiting("reader")
  BY <1>2, <1>4, AbstractSets DEF IInv
<1>8. Abstract!In("reader") # {} /\ Abstract!In("writer") = {}
  BY <1>3, AbstractSets DEF IInv
<1>9. PICK X \in SUBSET Threads : X = S
  BY <1>7
<1>10. Abstract!Admit(X)
  BY <1>5, <1>6, <1>7, <1>8, <1>9 DEF Abstract!Admit, inside, waiting
<1> QED  BY <1>10

\* rw_tryupgrade() turns the only thread inside into a writer.
LEMMA UpgradeStep ==
  ASSUME IInv, IInv', NEW t \in Threads, rw_tryupgrade(t)
  PROVE  Abstract!Upgrade(t)
PROOF
<1> USE DEF krw_t, RW_READER, RW_WRITER
<1>1. /\ pc[t] = "held" /\ rw[t] = RW_READER /\ pc' = pc
      /\ rw' = [rw EXCEPT ![t] = RW_WRITER]
      /\ wwwh.holds = 1 /\ ~RW_WRITE_CLAIMED(wwwh)
  BY DEF rw_tryupgrade
<1>2. ReadHolders = {t}
  BY <1>1, InsideFacts DEF ReadHolders, Holders, Holding
<1>3. WriteHolders = {} /\ Sleepers(RW_WRITER) = {}
  BY <1>1 DEF IInv, HoldCountExact, BitsInv, Sleepers, RW_WRITE_CLAIMED, RW_WRITE_LOCKED
<1>4. inside' = [inside EXCEPT ![t] = "writer"] /\ waiting' = waiting
  BY <1>1 DEF inside, waiting, IInv, TypeOK, Holding
<1>5. inside[t] = "reader"
  BY <1>1 DEF inside, Holding
<1>6. \A u \in Threads \ {t} : inside[u] = "none"
  BY <1>2, <1>3, AbstractSets DEF IInv
<1> QED  BY <1>3, <1>4, <1>5, <1>6, AbstractSets DEF Abstract!Upgrade, inside, waiting, IInv

-----------------------------------------------------------------------------
\* rwlock.c with its assembly fast paths implements the abstract
\* readers/writer lock, for any finite set of threads and any priorities.
THEOREM Refinement == Spec => ImplementsRwSpec
PROOF
<1>1. Init => Abstract!Init
  BY DEF Init, Abstract!Init, Holding
<1>2. ASSUME IInv, IInv', [Next]_vars
      PROVE  [Abstract!Next]_(Abstract!specvars)
  <2>1. ASSUME NEW t \in Threads,
               \/ \E m \in krw_t : rw_enter(t, m) \/ rw_tryenter(t, m)
               \/ Progress(t) \/ Release(t) \/ rw_downgrade(t) \/ rw_tryupgrade(t)
        PROVE  [Abstract!Next]_(Abstract!specvars)
    <3>1. CASE \/ \E m \in krw_t : rw_enter(t, m)
               \/ rw_enter_busy(t) \/ turnstile_lookup(t) \/ rw_enter_mark(t)
               \/ rw_enter_retry(t) \/ rw_exit_final(t)
      BY <1>2, <3>1, QuietSteps
    <3>2. CASE \E m \in krw_t : rw_tryenter(t, m) \/ (rw_enter_grab(t) /\ m = rw[t])
      BY <1>2, <3>2, EnterStep DEF Abstract!Next, krw_t, RW_READER, RW_WRITER
    <3>3. rw_enter_grab(t) => \E m \in krw_t : rw_enter_grab(t) /\ m = rw[t]
      BY <1>2 DEF IInv, TypeOK
    <3>4. CASE turnstile_block(t)
      BY <1>2, <3>4, WaitStep DEF Abstract!Next
    <3>5. CASE rw_exit(t) \/ rw_downgrade(t) \/ rw_tryupgrade(t)
      BY <1>2, <3>5, LeaveStep, DowngradeStep, UpgradeStep DEF Abstract!Next
    <3>6. CASE rw_exit_wakeup_readers(t)
      BY <1>2, <3>6, HandOffReadersStep DEF Abstract!Next
    <3>7. CASE rw_exit_wakeup_writer(t)
      <4>1. PICK w \in Threads : Abstract!HandOff(t, {w})
        BY <1>2, <3>7, HandOffWriterStep
      <4>2. {w} \in SUBSET Threads
        OBVIOUS
      <4> QED  BY <4>1, <4>2 DEF Abstract!Next
    <3>8. CASE rw_downgrade_wakeup(t)
      BY <1>2, <3>8, AdmitStep DEF Abstract!Next
    <3> QED  BY <2>1, <3>1, <3>2, <3>3, <3>4, <3>5, <3>6, <3>7, <3>8 DEF Progress, Release
  <2>2. CASE PriorityNext
    BY <1>2, <2>2, QuietSteps DEF PriorityNext
  <2>3. CASE UNCHANGED vars
    BY <2>3 DEF vars, Abstract!specvars
  <2> QED  BY <1>2, <2>1, <2>2, <2>3 DEF Next, LockNext
<1> QED  BY <1>1, <1>2, InductiveInvariant, PTL DEF Spec, ImplementsRwSpec, Abstract!Spec
=============================================================================
