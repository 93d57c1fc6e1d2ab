------------------------- MODULE SleepQueueTheorems -------------------------
(***************************************************************************)
(* Facts about the queues of SleepQueue, for any threads and priorities:   *)
(* who is on a queue after an operation on it, and that it stays in order. *)
(***************************************************************************)
EXTENDS SleepQueue, FiniteSetTheorems, TLAPS

\* A thread is on a queue once.
Distinct(q) == \A i, j \in 1 .. Len(q) : q[i] = q[j] => i = j

\* A queue is empty exactly if nobody is on it.
LEMMA ElemsEmpty ==
  ASSUME NEW T, NEW q \in Seq(T)
  PROVE  /\ q = <<>> <=> Elems(q) = {}
         /\ q # <<>> <=> Len(q) > 0
         /\ Elems(q) \subseteq T
BY DEF Elems

\* The empty queue is in order.
LEMMA EmptyQueue ==
  ASSUME NEW prio
  PROVE  Elems(<<>>) = {} /\ Distinct(<<>>) /\ Sorted(<<>>, prio)
BY DEF Elems, Distinct, Sorted

\* sleepq_insert() stops its walk at the first thread of less priority than p.
LEMMA PassedIs ==
  ASSUME NEW T, NEW q \in Seq(T), NEW prio, NEW p
  PROVE  /\ Passed(q, prio, p) \in 0 .. Len(q)
         /\ \A i \in 1 .. Len(q) :
              i <= Passed(q, prio, p) <=> \A j \in 1 .. i : prio[q[j]] >= p
<1> DEFINE W == {i \in 1 .. Len(q) : \A j \in 1 .. i : prio[q[j]] >= p}
           k == Cardinality(W)
<1>1. Passed(q, prio, p) = k
  BY DEF Passed
<1>2. \A n \in Nat : IsFiniteSet(1 .. n) /\ Cardinality(1 .. n) = n
  <2> SUFFICES ASSUME NEW n \in Nat
               PROVE  IsFiniteSet(1 .. n) /\ Cardinality(1 .. n) = n
    OBVIOUS
  <2>1. /\ IsFiniteSet(1 .. n)
        /\ Cardinality(1 .. n) = IF 1 > n THEN 0 ELSE n - 1 + 1
    BY FS_Interval
  <2> QED  BY <2>1
<1>3. Len(q) \in Nat /\ W \in SUBSET (1 .. Len(q))
  OBVIOUS
<1>4. IsFiniteSet(W) /\ k <= Len(q)
  BY <1>2, <1>3, FS_Subset
<1>5. k \in Nat
  BY <1>4, FS_CardinalityType
<1>6. ASSUME NEW i \in W
      PROVE  i <= k
  <2>1. 1 .. i \in SUBSET W /\ i \in Nat
    BY <1>6
  <2>2. Cardinality(1 .. i) <= Cardinality(W)
    BY <1>4, <2>1, FS_Subset
  <2> QED  BY <1>2, <2>1, <2>2
<1>7. ASSUME NEW i \in 1 .. Len(q), i \notin W
      PROVE  ~(i <= k)
  <2>1. W \in SUBSET (1 .. i - 1) /\ i - 1 \in Nat
    <3>1. ASSUME NEW m \in W
          PROVE  m < i
      BY <1>7, <3>1
    <3> QED  BY <1>3, <3>1
  <2>2. k <= i - 1
    BY <1>2, <2>1, FS_Subset
  <2> QED  BY <1>5, <2>2
<1> HIDE DEF k
<1>8. \A i \in 1 .. Len(q) : i <= k <=> i \in W
  BY <1>6, <1>7
<1> QED  BY <1>1, <1>3, <1>4, <1>5, <1>8

\* A thread that is put anywhere in a queue is on it, and so are the others.
LEMMA SpliceQueue ==
  ASSUME NEW T, NEW q \in Seq(T), NEW k \in 0 .. Len(q), NEW t \in T
  PROVE  /\ Splice(q, k, t) \in Seq(T) /\ Len(Splice(q, k, t)) = Len(q) + 1
         /\ \A i \in 1 .. Len(q) + 1 :
              Splice(q, k, t)[i] = IF i <= k THEN q[i] ELSE IF i = k + 1 THEN t ELSE q[i - 1]
         /\ Elems(Splice(q, k, t)) = Elems(q) \cup {t}
         /\ Distinct(q) /\ t \notin Elems(q) => Distinct(Splice(q, k, t))
<1> DEFINE r == Splice(q, k, t)
<1>1. /\ r \in Seq(T) /\ Len(r) = Len(q) + 1
      /\ \A i \in 1 .. Len(q) + 1 :
           r[i] = IF i <= k THEN q[i] ELSE IF i = k + 1 THEN t ELSE q[i - 1]
  BY DEF Splice
<1> HIDE DEF r
<1>2. ASSUME NEW x \in Elems(r)
      PROVE  x \in Elems(q) \cup {t}
  <2>1. PICK i \in 1 .. Len(q) + 1 : x = r[i]
    BY <1>1 DEF Elems
  <2>2. CASE i <= k
    BY <1>1, <2>1, <2>2 DEF Elems
  <2>3. CASE i = k + 1
    BY <1>1, <2>1, <2>3
  <2>4. CASE i > k + 1
    <3>1. i - 1 \in 1 .. Len(q) /\ x = q[i - 1]
      BY <1>1, <2>1, <2>4
    <3> QED  BY <3>1 DEF Elems
  <2> QED  BY <2>2, <2>3, <2>4
<1>3. ASSUME NEW x \in Elems(q)
      PROVE  x \in Elems(r)
  <2>1. PICK i \in 1 .. Len(q) : x = q[i]
    BY DEF Elems
  <2>2. i \in 1 .. Len(r) /\ i + 1 \in 1 .. Len(r)
    BY <1>1
  <2>3. q[i] = IF i <= k THEN r[i] ELSE r[i + 1]
    BY <1>1
  <2> QED  BY <2>1, <2>2, <2>3 DEF Elems
<1>4. t \in Elems(r)
  <2>1. k + 1 \in 1 .. Len(r) /\ r[k + 1] = t
    BY <1>1
  <2> QED  BY <2>1 DEF Elems
<1>5. ASSUME Distinct(q), t \notin Elems(q)
      PROVE  Distinct(r)
  <2> DEFINE g(l) == IF l <= k THEN l ELSE l - 1
  <2> SUFFICES ASSUME NEW i \in 1 .. Len(q) + 1, NEW j \in 1 .. Len(q) + 1, r[i] = r[j]
               PROVE  i = j
    BY <1>1 DEF Distinct
  <2>1. \A l \in 1 .. Len(q) + 1 : l # k + 1 => g(l) \in 1 .. Len(q) /\ r[l] = q[g(l)]
    BY <1>1
  <2>2. \A l \in 1 .. Len(q) + 1 : r[l] = t <=> l = k + 1
    BY <1>1, <1>5, <2>1, SMTT(30) DEF Elems
  <2>3. CASE i # k + 1 /\ j # k + 1
    <3>1. g(i) = g(j)
      BY <1>5, <2>1, <2>3 DEF Distinct
    <3> QED  BY <2>3, <3>1
  <2> QED  BY <2>2, <2>3
<1> QED  BY <1>1, <1>2, <1>3, <1>4, <1>5 DEF r

\* Insert() adds the thread, keeps the others and keeps the order.
LEMMA InsertQueue ==
  ASSUME NEW T, NEW q \in Seq(T), NEW prio \in [T -> Int], NEW t \in T, t \notin Elems(q),
         Distinct(q)
  PROVE  /\ Insert(q, prio, t) \in Seq(T)
         /\ Distinct(Insert(q, prio, t))
         /\ Elems(Insert(q, prio, t)) = Elems(q) \cup {t}
         /\ Sorted(q, prio) => Sorted(Insert(q, prio, t), prio)
<1> DEFINE k == Passed(q, prio, prio[t])
           r == Splice(q, k, t)
<1>1. /\ k \in 0 .. Len(q)
      /\ \A i \in 1 .. Len(q) : i <= k <=> \A j \in 1 .. i : prio[q[j]] >= prio[t]
  BY PassedIs
<1> HIDE DEF k
<1>2. /\ r \in Seq(T) /\ Distinct(r) /\ Elems(r) = Elems(q) \cup {t} /\ Len(r) = Len(q) + 1
      /\ \A i \in 1 .. Len(q) + 1 :
           r[i] = IF i <= k THEN q[i] ELSE IF i = k + 1 THEN t ELSE q[i - 1]
  <2>1. k \in 0 .. Len(q)
    BY <1>1
  <2>2. Len(r) = Len(q) + 1 /\ r \in Seq(T) /\ Elems(r) = Elems(q) \cup {t}
    BY <2>1, SpliceQueue
  <2>3. Distinct(r)
    BY <2>1, SpliceQueue
  <2>4. \A i \in 1 .. Len(q) + 1 :
          r[i] = IF i <= k THEN q[i] ELSE IF i = k + 1 THEN t ELSE q[i - 1]
    BY <2>1, SpliceQueue
  <2> QED  BY <2>2, <2>3, <2>4
<1>3. Insert(q, prio, t) = r
  BY DEF Insert, k
<1> HIDE DEF r
<1>4. ASSUME Sorted(q, prio)
      PROVE  Sorted(r, prio)
  <2>1. \A i \in 1 .. Len(q) : prio[q[i]] \in Int /\ prio[t] \in Int
    OBVIOUS
  <2>2. \A i \in 1 .. Len(q) : i <= k => prio[q[i]] >= prio[t]
    BY <1>1
  <2>3. ASSUME NEW i \in 1 .. Len(q), i > k
        PROVE  prio[q[i]] < prio[t]
    <3>1. PICK j \in 1 .. i : ~(prio[q[j]] >= prio[t])
      BY <1>1, <2>3
    <3>2. prio[q[j]] >= prio[q[i]]
      BY <1>4, <2>1, <3>1 DEF Sorted
    <3> QED  BY <2>1, <3>1, <3>2
  <2> SUFFICES ASSUME NEW i \in 1 .. Len(q) + 1, NEW j \in 1 .. Len(q) + 1, i < j
               PROVE  prio[r[i]] >= prio[r[j]]
    BY <1>2 DEF Sorted
  <2>4. CASE j <= k
    <3>1. i \in 1 .. Len(q) /\ j \in 1 .. Len(q) /\ r[i] = q[i] /\ r[j] = q[j]
      <4>1. i \in Int /\ j \in Int /\ k \in Int /\ Len(q) \in Nat /\ i <= k /\ k <= Len(q)
        BY <1>1, <2>4
      <4> QED  BY <1>2, <2>4, <4>1, SMTT(30)
    <3> QED  BY <1>4, <3>1 DEF Sorted
  <2>5. CASE j = k + 1
    <3>1. i \in 1 .. Len(q) /\ i <= k /\ r[i] = q[i] /\ r[j] = t
      BY <1>1, <1>2, <2>5, SMTT(30)
    <3> QED  BY <2>2, <3>1
  <2>6. CASE j > k + 1
    <3>1. j - 1 \in 1 .. Len(q) /\ j - 1 > k /\ r[j] = q[j - 1]
      BY <1>1, <1>2, <2>6
    <3>2. CASE i <= k
      <4>1. i \in 1 .. Len(q) /\ i < j - 1 /\ r[i] = q[i]
        BY <1>1, <1>2, <2>6, <3>2
      <4> QED  BY <1>4, <3>1, <4>1 DEF Sorted
    <3>3. CASE i = k + 1
      <4>1. r[i] = t
        BY <1>1, <1>2, <3>3
      <4> QED  BY <2>1, <2>3, <3>1, <4>1
    <3>4. CASE i > k + 1
      <4>1. i - 1 \in 1 .. Len(q) /\ i - 1 < j - 1 /\ r[i] = q[i - 1]
        BY <1>1, <1>2, <3>4
      <4> QED  BY <1>4, <3>1, <4>1 DEF Sorted
    <3> QED  BY <1>1, <3>2, <3>3, <3>4
  <2> QED  BY <1>1, <2>4, <2>5, <2>6
<1> QED  BY <1>2, <1>3, <1>4

\* Remove() takes the thread out, if it is there, and keeps the others and the order.
LEMMA RemoveQueue ==
  ASSUME NEW T, NEW q \in Seq(T), NEW t, Distinct(q)
  PROVE  /\ Remove(q, t) \in Seq(T)
         /\ Distinct(Remove(q, t))
         /\ Elems(Remove(q, t)) = Elems(q) \ {t}
         /\ \A prio : Sorted(q, prio) => Sorted(Remove(q, t), prio)
<1>1. CASE t \notin Elems(q)
  BY <1>1 DEF Remove
<1>2. CASE t \in Elems(q)
  <2> DEFINE p == CHOOSE i \in 1 .. Len(q) : q[i] = t
             r == Remove(q, t)
  <2>1. p \in 1 .. Len(q) /\ q[p] = t
    BY <1>2 DEF Elems
  <2>2. /\ r \in Seq(T) /\ Len(r) = Len(q) - 1
        /\ \A i \in 1 .. Len(q) - 1 : r[i] = IF i < p THEN q[i] ELSE q[i + 1]
    BY <1>2, <2>1 DEF Remove
  <2> HIDE DEF p, r
  <2>3. \A i \in 1 .. Len(q) : q[i] = t <=> i = p
    BY <2>1 DEF Distinct
  <2>4. Distinct(r)
    BY <2>1, <2>2 DEF Distinct
  <2>5. Elems(r) \subseteq Elems(q) \ {t}
    BY <2>1, <2>2, <2>3 DEF Elems
  <2>6. ASSUME NEW x \in Elems(q) \ {t}
        PROVE  x \in Elems(r)
    <3>1. PICK i \in 1 .. Len(q) : x = q[i]
      BY DEF Elems
    <3>2. i # p
      BY <2>1, <3>1
    <3>3. CASE i < p
      BY <2>1, <2>2, <3>1, <3>3 DEF Elems
    <3>4. CASE i > p
      <4>1. i - 1 \in 1 .. Len(q) - 1 /\ ~(i - 1 < p) /\ (i - 1) + 1 = i
        BY <2>1, <3>4
      <4> QED  BY <2>2, <3>1, <4>1 DEF Elems
    <3> QED  BY <2>1, <3>2, <3>3, <3>4
  <2>7. ASSUME NEW prio, Sorted(q, prio)
        PROVE  Sorted(r, prio)
    <3> SUFFICES ASSUME NEW i \in 1 .. Len(q) - 1, NEW j \in 1 .. Len(q) - 1, i < j
                 PROVE  prio[r[i]] >= prio[r[j]]
      BY <2>2 DEF Sorted
    <3> DEFINE g(l) == IF l < p THEN l ELSE l + 1
    <3>1. /\ g(i) \in 1 .. Len(q) /\ g(j) \in 1 .. Len(q) /\ g(i) < g(j)
          /\ r[i] = q[g(i)] /\ r[j] = q[g(j)]
      BY <2>1, <2>2
    <3> QED  BY <2>7, <3>1 DEF Sorted
  <2> QED  BY <2>2, <2>4, <2>5, <2>6, <2>7 DEF r
<1> QED  BY <1>1, <1>2

\* The first is woken: the others stay, in order.
LEMMA TailQueue ==
  ASSUME NEW T, NEW q \in Seq(T), q # <<>>, Distinct(q)
  PROVE  /\ Tail(q) \in Seq(T) /\ q[1] \in Elems(q)
         /\ Distinct(Tail(q))
         /\ Elems(Tail(q)) = Elems(q) \ {q[1]}
         /\ \A prio : Sorted(q, prio) => Sorted(Tail(q), prio)
<1>1. /\ Tail(q) \in Seq(T) /\ Len(Tail(q)) = Len(q) - 1 /\ Len(q) > 0
      /\ \A i \in 1 .. Len(q) - 1 : Tail(q)[i] = q[i + 1] /\ i + 1 \in 1 .. Len(q)
  OBVIOUS
<1>2. Distinct(Tail(q))
  <2> SUFFICES ASSUME NEW i \in 1 .. Len(q) - 1, NEW j \in 1 .. Len(q) - 1,
                      Tail(q)[i] = Tail(q)[j]
               PROVE  i = j
    BY <1>1 DEF Distinct
  <2> QED  BY <1>1 DEF Distinct
<1>3. ASSUME NEW x \in Elems(Tail(q))
      PROVE  x \in Elems(q) /\ x # q[1]
  <2>1. PICK i \in 1 .. Len(q) - 1 : x = q[i + 1]
    BY <1>1 DEF Elems
  <2> QED  BY <1>1, <2>1 DEF Elems, Distinct
<1>4. ASSUME NEW x \in Elems(q), x # q[1]
      PROVE  x \in Elems(Tail(q))
  <2>1. PICK i \in 1 .. Len(q) : x = q[i]
    BY DEF Elems
  <2>2. i - 1 \in 1 .. Len(q) - 1 /\ (i - 1) + 1 = i
    BY <1>4, <2>1
  <2> QED  BY <1>1, <2>1, <2>2 DEF Elems
<1>5. ASSUME NEW prio, Sorted(q, prio)
      PROVE  Sorted(Tail(q), prio)
  <2> SUFFICES ASSUME NEW i \in 1 .. Len(q) - 1, NEW j \in 1 .. Len(q) - 1, i < j
               PROVE  prio[Tail(q)[i]] >= prio[Tail(q)[j]]
    BY <1>1 DEF Sorted
  <2>1. i + 1 \in 1 .. Len(q) /\ j + 1 \in 1 .. Len(q) /\ i + 1 < j + 1
    BY <1>1
  <2> QED  BY <1>1, <1>5, <2>1 DEF Sorted
<1>6. q[1] \in Elems(q)
  BY <1>1 DEF Elems
<1> QED  BY <1>1, <1>2, <1>3, <1>4, <1>5, <1>6

\* The order depends on the priorities of who is on the queue only.
LEMMA SortedDepends ==
  ASSUME NEW T, NEW q \in Seq(T), NEW prio, NEW prio2, Sorted(q, prio),
         \A x \in Elems(q) : prio2[x] = prio[x]
  PROVE  Sorted(q, prio2)
BY DEF Sorted, Elems

\* The place of i among the indexes in K.
Rank(K, i) == Cardinality({j \in K : j <= i})

\* The places of the indexes in K are 1, 2 and so on, in their order.
LEMMA RankIs ==
  ASSUME NEW n \in Nat, NEW K \in SUBSET (1 .. n)
  PROVE  /\ Cardinality(K) \in Nat /\ K \subseteq Int
         /\ \A i \in K : Rank(K, i) \in 1 .. Cardinality(K)
         /\ \A i, j \in K : i < j <=> Rank(K, i) < Rank(K, j)
         /\ \A i, j \in K : i = j <=> Rank(K, i) = Rank(K, j)
         /\ \A m \in 1 .. Cardinality(K) : \E i \in K : Rank(K, i) = m
<1> DEFINE c == Cardinality(K)
           upto(i) == {j \in K : j <= i}
<1>1. K \subseteq Int
  OBVIOUS
<1>2. IsFiniteSet(K) /\ c \in Nat
  <2>1. IsFiniteSet(1 .. n)
    BY FS_Interval
  <2> QED  BY <2>1, FS_Subset, FS_CardinalityType
<1>3. \A i \in K : IsFiniteSet(upto(i)) /\ Rank(K, i) \in 1 .. c
  <2> SUFFICES ASSUME NEW i \in K
               PROVE  IsFiniteSet(upto(i)) /\ Rank(K, i) \in 1 .. c
    OBVIOUS
  <2>1. upto(i) \in SUBSET K /\ i \in upto(i)
    BY <1>1
  <2>2. IsFiniteSet(upto(i)) /\ Cardinality(upto(i)) <= c
    BY <1>2, <2>1, FS_Subset
  <2>3. Cardinality(upto(i)) \in Nat /\ Cardinality(upto(i)) # 0
    BY <2>1, <2>2, FS_CardinalityType, FS_EmptySet
  <2>4. Rank(K, i) = Cardinality(upto(i))
    BY DEF Rank
  <2> HIDE DEF upto, c
  <2> QED  BY <1>2, <2>2, <2>3, <2>4
<1>4. ASSUME NEW i \in K, NEW j \in K, i < j
      PROVE  Rank(K, i) < Rank(K, j)
  <2>1. upto(i) \in SUBSET (upto(j) \ {j}) /\ j \in upto(j)
    <3>1. i \in Int /\ j \in Int
      BY <1>1
    <3>2. \A k \in K : k <= i => k <= j /\ k # j
      BY <1>1, <1>4, <3>1
    <3>3. j <= j
      BY <3>1
    <3>4. \A k : k \in upto(i) => k \in upto(j) /\ k # j
      BY <3>2
    <3>5. j \in upto(j)
      BY <3>3
    <3> HIDE DEF upto
    <3> QED  BY <3>4, <3>5
  <2>2. /\ IsFiniteSet(upto(j) \ {j})
        /\ Cardinality(upto(j) \ {j}) = Cardinality(upto(j)) - 1
    BY <1>3, <2>1, FS_RemoveElement
  <2>3. Cardinality(upto(i)) <= Cardinality(upto(j)) - 1
    BY <2>1, <2>2, FS_Subset
  <2>4. Rank(K, i) <= Rank(K, j) - 1
    BY <2>3 DEF Rank
  <2>5. Rank(K, i) \in 1 .. c /\ Rank(K, j) \in 1 .. c
    BY <1>3
  <2> HIDE DEF c
  <2> QED  BY <1>2, <2>4, <2>5
<1> HIDE DEF c, upto
<1>5. ASSUME NEW i \in K, NEW j \in K
      PROVE  (i < j <=> Rank(K, i) < Rank(K, j)) /\ (i = j <=> Rank(K, i) = Rank(K, j))
  <2>1. i \in Int /\ j \in Int /\ Rank(K, i) \in Int /\ Rank(K, j) \in Int
    BY <1>1, <1>2, <1>3
  <2>2. (i < j => Rank(K, i) < Rank(K, j)) /\ (j < i => Rank(K, j) < Rank(K, i))
    BY <1>4
  <2> QED  BY <2>1, <2>2
<1>6. ASSUME NEW m \in 1 .. c, \A i \in K : Rank(K, i) # m
      PROVE  FALSE
  <2> DEFINE f == [i \in K |-> Rank(K, i)]
             D == (1 .. c) \ {m}
  <2>1. f \in [K -> D]
    BY <1>3, <1>6
  <2>2. IsFiniteSet(1 .. c) /\ Cardinality(1 .. c) = c
    <3>1. /\ IsFiniteSet(1 .. c)
          /\ Cardinality(1 .. c) = IF 1 > c THEN 0 ELSE c - 1 + 1
      BY <1>2, FS_Interval
    <3> QED  BY <1>2, <3>1
  <2>3. IsFiniteSet(D) /\ Cardinality(D) = c - 1
    BY <2>2, FS_RemoveElement
  <2>4. Cardinality(D) < Cardinality(K)
    BY <1>2, <2>3 DEF c
  <2>5. \A i \in K : f[i] = Rank(K, i)
    OBVIOUS
  <2> HIDE DEF f, D
  <2>6. \E i, j \in K : i # j /\ f[i] = f[j]
    BY <1>2, <2>1, <2>3, <2>4, FS_PigeonHole
  <2> QED  BY <1>5, <2>5, <2>6
<1> QED  BY <1>1, <1>2, <1>3, <1>5, <1>6 DEF c

\* Among indexes there is a least one.
LEMMA LeastIndex ==
  ASSUME NEW n \in Nat, NEW K \in SUBSET (1 .. n), K # {}
  PROVE  \E i \in K : \A j \in K : i <= j
<1>1. 1 \in 1 .. Cardinality(K)
  <2>1. PICK k \in K : TRUE
    OBVIOUS
  <2>2. Rank(K, k) \in 1 .. Cardinality(K) /\ Cardinality(K) \in Nat
    BY <2>1, RankIs
  <2> QED  BY <2>2
<1>2. PICK i \in K : Rank(K, i) = 1
  <2>1. \A m \in 1 .. Cardinality(K) : \E i \in K : Rank(K, i) = m
    BY RankIs
  <2> QED  BY <1>1, <2>1
<1>3. ASSUME NEW j \in K
      PROVE  i <= j
  <2>1. /\ i \in Int /\ j \in Int /\ Rank(K, j) \in 1 .. Cardinality(K) /\ Cardinality(K) \in Nat
        /\ j < i <=> Rank(K, j) < Rank(K, i)
    BY RankIs
  <2> QED  BY <1>2, <2>1
<1> QED  BY <1>3

\* Without() takes the threads of S out and keeps the others, in order.
LEMMA WithoutQueue ==
  ASSUME NEW T, NEW q \in Seq(T), NEW S, Distinct(q)
  PROVE  /\ Without(q, S) \in Seq(T)
         /\ Distinct(Without(q, S))
         /\ Elems(Without(q, S)) = Elems(q) \ S
         /\ \A prio : Sorted(q, prio) => Sorted(Without(q, S), prio)
<1> DEFINE keep == {i \in 1 .. Len(q) : q[i] \notin S}
           n == Cardinality(keep)
           nth(m) == CHOOSE i \in keep : Rank(keep, i) = m
           r == Without(q, S)
<1>1. r = [m \in 1 .. n |-> q[nth(m)]]
  BY DEF Without, Rank
<1>2. Len(q) \in Nat /\ keep \in SUBSET (1 .. Len(q))
  OBVIOUS
<1>3. \A i \in 1 .. Len(q) : i \in keep <=> q[i] \notin S
  OBVIOUS
<1> HIDE DEF keep
<1>4. /\ n \in Nat /\ keep \subseteq Int
      /\ \A i \in keep : Rank(keep, i) \in 1 .. n
      /\ \A i, j \in keep : i < j <=> Rank(keep, i) < Rank(keep, j)
      /\ \A i, j \in keep : i = j <=> Rank(keep, i) = Rank(keep, j)
      /\ \A m \in 1 .. n : \E i \in keep : Rank(keep, i) = m
  BY <1>2, RankIs
<1>5. \A m \in 1 .. n : nth(m) \in keep /\ Rank(keep, nth(m)) = m
  BY <1>4
<1> HIDE DEF nth, n, r
<1>6. /\ r \in Seq(T) /\ Len(r) = n
      /\ \A m \in 1 .. n : r[m] = q[nth(m)] /\ nth(m) \in 1 .. Len(q) /\ q[nth(m)] \notin S
  <2>1. \A m \in 1 .. n : nth(m) \in 1 .. Len(q) /\ q[nth(m)] \notin S
    BY <1>2, <1>3, <1>5
  <2>2. \A m \in 1 .. n : q[nth(m)] \in T
    BY <2>1
  <2>3. r \in Seq(T) /\ Len(r) = n
    BY <1>1, <1>4, <2>2
  <2> QED  BY <1>1, <2>1, <2>3
<1>7. Distinct(r)
  <2> SUFFICES ASSUME NEW l \in 1 .. n, NEW m \in 1 .. n, r[l] = r[m]
               PROVE  l = m
    BY <1>6 DEF Distinct
  <2>1. nth(l) = nth(m)
    BY <1>6 DEF Distinct
  <2> QED  BY <1>5, <2>1
<1>8. Elems(r) \subseteq Elems(q) \ S
  BY <1>6 DEF Elems
<1>9. ASSUME NEW x \in Elems(q) \ S
      PROVE  x \in Elems(r)
  <2>1. PICK i \in 1 .. Len(q) : x = q[i]
    BY DEF Elems
  <2>2. i \in keep
    BY <1>3, <2>1
  <2>3. Rank(keep, i) \in 1 .. n
    BY <1>4, <2>2
  <2>4. nth(Rank(keep, i)) = i
    BY <1>4, <1>5, <2>2, <2>3
  <2> QED  BY <1>6, <2>1, <2>3, <2>4 DEF Elems
<1>10. ASSUME NEW prio, Sorted(q, prio)
       PROVE  Sorted(r, prio)
  <2> SUFFICES ASSUME NEW l \in 1 .. n, NEW m \in 1 .. n, l < m
               PROVE  prio[r[l]] >= prio[r[m]]
    BY <1>6 DEF Sorted
  <2>1. nth(l) < nth(m)
    BY <1>4, <1>5
  <2> QED  BY <1>6, <1>10, <2>1 DEF Sorted
<1> QED  BY <1>6, <1>7, <1>8, <1>9, <1>10 DEF r
=============================================================================
