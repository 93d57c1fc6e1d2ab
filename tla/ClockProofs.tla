---------------------------- MODULE ClockProofs ----------------------------
(***************************************************************************)
(* What the clock drives.  The safety properties of Callout, proved for    *)
(* any number of structures, threads, chains and clock values, and that    *)
(* callouts keep what TimeoutSpec promises; then the safety properties of  *)
(* CyclicSoft, for any number of cyclics, sizes and expirations.           *)
(***************************************************************************)
EXTENDS Callout, CyclicSoft, FiniteSetTheorems, WellFoundedInduction, TLAPS

-----------------------------------------------------------------------------
(* The invariant                                                           *)

\* How far ahead of the clock a time is.
Ahead(x) == Minus(x, lbolt)

ExecutorLabels == {"idle", "start", "func", "end"}
ClientLabels == {"idle", "untimeout", "wait", "woken"}
Callouts == [Structs -> [c_xid : Ids \cup {Null}, executing : BOOLEAN,
                         c_runtime : Time, c_executor : Executors \cup {Null}]]
Hashes == [0 .. Buckets - 1 -> Seq(Structs)]

\* A step of callout_execute() takes the table through states in which it is
\* consistent although ct_lock is held, so the parts of the invariant have the
\* values they are about as parameters: the structures co, the chains, the
\* structures st that threads are at, the run times rt of the executors, where
\* the threads are.
Live(co) == {s \in Structs : co[s].c_xid # Null}

\* Each structure in use is once on the chain of its run time.
Chaining(co, hash) ==
  \A b \in 0 .. Buckets - 1 :
    /\ \A i, j \in 1 .. Len(hash[b]) : i # j => hash[b][i] # hash[b][j]
    /\ \A i \in 1 .. Len(hash[b]) :
         hash[b][i] \in Live(co) /\ CALLOUT_LBHASH(co[hash[b][i]].c_runtime) = b
    /\ \A s \in Live(co) : CALLOUT_LBHASH(co[s].c_runtime) = b =>
         \E i \in 1 .. Len(hash[b]) : hash[b][i] = s

\* What is executing is executed by one thread, and the others execute nothing.
RunsRight(co, st, rt, p) ==
  /\ \A e \in Executors :
       /\ p[e] \in ExecutorLabels /\ (st[e] # Null <=> p[e] = "func")
       /\ p[e] = "func" =>
            /\ st[e] \in Live(co) /\ co[st[e]].executing
            /\ co[st[e]].c_executor = e /\ co[st[e]].c_runtime = rt[e]
  /\ \A s \in Structs : co[s].executing =>
       s \in Live(co) /\ co[s].c_executor \in Executors /\ st[co[s].c_executor] = s

\* ct_runtime is past ct_curtime by at most one tick and ct_curtime is not
\* ahead of the clock; what is pending is not behind ct_runtime, what is
\* executing is not beyond it.
ClockRight(r) ==
  Ahead(ct_curtime) <= 0 /\ -MaxLag <= Ahead(r) /\ Ahead(r) <= Ahead(ct_curtime) + 1
TimesRight(co, r) ==
  \A s \in Live(co) :
    IF co[s].executing
    THEN /\ -(MaxLag + 1) <= Ahead(co[s].c_runtime) /\ Ahead(co[s].c_runtime) <= Ahead(ct_curtime)
         /\ Ahead(co[s].c_runtime) <= Ahead(r)
    ELSE Ahead(r) <= Ahead(co[s].c_runtime) /\ Ahead(co[s].c_runtime) <= MaxDelta

\* "only newly-created timeouts can precede cp on ct_lbhash": a thread that
\* executes s at ct_runtime has left nothing to be executed behind it.
Passed(co, chain, s, r) ==
  \A i, j \in 1 .. Len(chain) :
    i < j /\ chain[j] = s /\ co[chain[i]].c_runtime = r => co[chain[i]].executing
WalkRight(co, hash, r, st, rt, p) ==
  \A e \in Executors : p[e] = "func" /\ rt[e] = r =>
    Passed(co, hash[CALLOUT_LBHASH(r)], st[e], r)

\* What client c waits for is executing, on another thread.
Elsewhere(x, c) == x.executing /\ x.c_executor # curthread[c]

\* An identifier belongs to one structure; who waits in untimeout() has found
\* the only structure that can have it.
IdsRight(co, st, p) ==
  /\ \A r, s \in Live(co) : co[r].c_xid = co[s].c_xid => r = s
  /\ \A c \in Clients :
       /\ p[c] \in ClientLabels /\ (id[c] = Null <=> p[c] = "idle")
       /\ st[c] # Null <=> p[c] \in {"wait", "woken"}
       /\ p[c] \in {"wait", "woken"} =>
            \A s \in Live(co) : co[s].c_xid = id[c] => s = st[c] /\ Elsewhere(co[s], c)
       /\ p[c] = "wait" => co[st[c]].c_xid = id[c] /\ Elsewhere(co[st[c]], c)

\* Every task structure is free, queued, or with a thread.
Busy == {e \in Executors : pc[e] # "idle"}
TasksRight ==
  IF Realtime THEN tq_task \in 0 .. 1
  ELSE tq_freelist + tq_task + Cardinality(Busy) = TaskStructs

\* The table in the middle of a step, with ct_runtime at r.
Table(co, hash, free, r, st, rt, p) ==
  /\ co \in Callouts /\ hash \in Hashes /\ free \subseteq Structs /\ free \cap Live(co) = {}
  /\ r \in Time /\ st \in [Threads -> Structs \cup {Null}] /\ rt \in [Executors -> Time]
  /\ DOMAIN p = Threads
  /\ Chaining(co, hash) /\ RunsRight(co, st, rt, p) /\ TimesRight(co, r)
  /\ WalkRight(co, hash, r, st, rt, p) /\ IdsRight(co, st, p)

\* The rest of the state: the clock, the task queue and the arguments.
Types ==
  /\ lbolt \in Time /\ ct_curtime \in Time
  /\ clock \in {"tick", "schedule", "dispatch"} /\ cpr_stop_callout \in BOOLEAN
  /\ tq_task \in 0 .. TaskStructs /\ tq_freelist \in 0 .. TaskStructs \cup {Null}
  /\ id \in [Clients -> Ids \cup {Null}] /\ delta \in [Clients -> Deltas \cup {Null}]

CoInv ==
  /\ Types /\ TasksRight /\ ClockRight(ct_runtime) /\ pc \in [Threads -> ExecutorLabels \cup ClientLabels]
  /\ Table(callout, ct_lbhash, ct_freelist, ct_runtime, cp, runtime, pc)

-----------------------------------------------------------------------------
(* Time                                                                    *)

Half == TimeMod \div 2

\* Half of the range of clock_t is more than what the code has to tell apart.
LEMMA HalfIs ==
  /\ TimeMod \in Nat \ {0} /\ Half \in Nat /\ TimeMod = 2 * Half
  /\ MaxLag \in Nat /\ MaxDelta \in Nat /\ MaxDelta > 0 /\ MaxLag + MaxDelta < Half
BY TimeAssumption DEF Half

\* The remainder of a number that is out of range by less than the range.
LEMMA ModIs ==
  ASSUME NEW m \in Nat, m > 0, NEW x \in Int
  PROVE  /\ x \in 0 .. m - 1 => x % m = x
         /\ x \in m .. 2 * m - 1 => x % m = x - m
         /\ x \in -m .. -1 => x % m = x + m
OBVIOUS

\* The signed difference, up to a multiple of the range.
LEMMA MinusIs ==
  ASSUME NEW a \in Time, NEW b \in Time
  PROVE  /\ Minus(a, b) \in Int /\ -Half <= Minus(a, b) /\ Minus(a, b) < Half
         /\ Minus(a, b) = a - b \/ Minus(a, b) = a - b + TimeMod \/ Minus(a, b) = a - b - TimeMod
<1>1. /\ a - b \in 0 .. TimeMod - 1 => (a - b) % TimeMod = a - b
      /\ a - b \in -TimeMod .. -1 => (a - b) % TimeMod = a - b + TimeMod
  BY HalfIs, ModIs DEF Time
<1> QED  BY <1>1, HalfIs DEF Minus, Half, Time

\* The sum, up to a multiple of the range.
LEMMA PlusIs ==
  ASSUME NEW a \in Time, NEW d \in -TimeMod .. TimeMod
  PROVE  /\ Plus(a, d) \in Time
         /\ Plus(a, d) = a + d \/ Plus(a, d) = a + d + TimeMod \/ Plus(a, d) = a + d - TimeMod
<1>1. /\ a + d \in 0 .. TimeMod - 1 => (a + d) % TimeMod = a + d
      /\ a + d \in TimeMod .. 2 * TimeMod - 1 => (a + d) % TimeMod = a + d - TimeMod
      /\ a + d \in -TimeMod .. -1 => (a + d) % TimeMod = a + d + TimeMod
  BY HalfIs, ModIs DEF Time
<1> QED  BY <1>1, HalfIs DEF Plus, Time

\* Differences to a third time add up, as long as they are less than half of
\* the range.
LEMMA MinusMinus ==
  ASSUME NEW x \in Time, NEW y \in Time, NEW z \in Time
  PROVE  /\ Minus(x, z) - Minus(y, z) \in -Half .. Half - 1 => Minus(x, y) = Minus(x, z) - Minus(y, z)
         /\ Minus(x, z) = Minus(y, z) => x = y
<1>1. /\ Minus(x, z) \in Int /\ -Half <= Minus(x, z) /\ Minus(x, z) < Half
      /\ Minus(x, z) = x - z \/ Minus(x, z) = x - z + TimeMod \/ Minus(x, z) = x - z - TimeMod
  BY MinusIs
<1>2. /\ Minus(y, z) \in Int /\ -Half <= Minus(y, z) /\ Minus(y, z) < Half
      /\ Minus(y, z) = y - z \/ Minus(y, z) = y - z + TimeMod \/ Minus(y, z) = y - z - TimeMod
  BY MinusIs
<1>3. /\ Minus(x, y) \in Int /\ -Half <= Minus(x, y) /\ Minus(x, y) < Half
      /\ Minus(x, y) = x - y \/ Minus(x, y) = x - y + TimeMod \/ Minus(x, y) = x - y - TimeMod
  BY MinusIs
<1> QED  BY <1>1, <1>2, <1>3, HalfIs DEF Time

LEMMA MinusPlus ==
  ASSUME NEW x \in Time, NEW z \in Time, NEW d \in -Half .. Half,
         Minus(x, z) + d \in -Half .. Half - 1
  PROVE  Plus(x, d) \in Time /\ Minus(Plus(x, d), z) = Minus(x, z) + d
<1>1. d \in -TimeMod .. TimeMod
  BY HalfIs
<1>2. Plus(x, d) \in Time
  BY <1>1, PlusIs
<1>3. Plus(x, d) = x + d \/ Plus(x, d) = x + d + TimeMod \/ Plus(x, d) = x + d - TimeMod
  BY <1>1, PlusIs
<1>4. /\ Minus(x, z) \in Int /\ -Half <= Minus(x, z) /\ Minus(x, z) < Half
      /\ Minus(x, z) = x - z \/ Minus(x, z) = x - z + TimeMod \/ Minus(x, z) = x - z - TimeMod
  BY MinusIs
<1>5. /\ Minus(Plus(x, d), z) \in Int /\ -Half <= Minus(Plus(x, d), z) /\ Minus(Plus(x, d), z) < Half
      /\ Minus(Plus(x, d), z) = Plus(x, d) - z \/ Minus(Plus(x, d), z) = Plus(x, d) - z + TimeMod \/ Minus(Plus(x, d), z) = Plus(x, d) - z - TimeMod
  BY <1>2, MinusIs
<1> QED  BY <1>2, <1>3, <1>4, <1>5, HalfIs DEF Time

LEMMA MinusTick ==
  ASSUME NEW x \in Time, NEW z \in Time, Minus(x, z) > -Half
  PROVE  Plus(z, 1) \in Time /\ Minus(x, Plus(z, 1)) = Minus(x, z) - 1
<1>1. 1 \in -TimeMod .. TimeMod
  BY HalfIs
<1>2. Plus(z, 1) \in Time
  BY <1>1, PlusIs
<1>3. Plus(z, 1) = z + 1 \/ Plus(z, 1) = z + 1 + TimeMod \/ Plus(z, 1) = z + 1 - TimeMod
  BY <1>1, PlusIs
<1>4. /\ Minus(x, z) \in Int /\ -Half <= Minus(x, z) /\ Minus(x, z) < Half
      /\ Minus(x, z) = x - z \/ Minus(x, z) = x - z + TimeMod \/ Minus(x, z) = x - z - TimeMod
  BY MinusIs
<1>5. /\ Minus(x, Plus(z, 1)) \in Int /\ -Half <= Minus(x, Plus(z, 1)) /\ Minus(x, Plus(z, 1)) < Half
      /\ Minus(x, Plus(z, 1)) = x - Plus(z, 1) \/ Minus(x, Plus(z, 1)) = x - Plus(z, 1) + TimeMod \/ Minus(x, Plus(z, 1)) = x - Plus(z, 1) - TimeMod
  BY <1>2, MinusIs
<1> QED  BY <1>2, <1>3, <1>4, <1>5, HalfIs DEF Time

\* The chain of a time is one of the table.
LEMMA BucketIs == \A r \in Time : CALLOUT_LBHASH(r) \in 0 .. Buckets - 1
BY TimeAssumption DEF CALLOUT_LBHASH, Time

-----------------------------------------------------------------------------
(* The least place                                                         *)

\* A set of natural numbers has a least element.
LEMMA MinIs ==
  ASSUME NEW S \in SUBSET Nat, S # {}
  PROVE  Min(S) \in S /\ \A y \in S : Min(S) <= y
<1> DEFINE R == {ss \in Nat \X Nat : ss[1] < ss[2]}
<1>1. IsWellFoundedOn(R, Nat)
  BY NatLessThanWellFounded DEF OpToRel
<1> HIDE DEF R
<1>2. \E x \in S : \A y \in S : <<y, x>> \notin R
  BY <1>1, WFMin
<1>3. \A x, y \in S : <<y, x>> \notin R => x <= y
  BY DEF R
<1>4. \E x \in S : \A y \in S : x =< y
  BY <1>2, <1>3
<1> QED  BY <1>4 DEF Min

-----------------------------------------------------------------------------
(* The walk over the chains                                                *)

\* FirstDue() stops at the first time, from "from" on, that something is to
\* be executed at, and goes past the limit by one tick at most.
StopsAt(co, hash, from, limit, r) ==
  /\ r \in Time /\ Ahead(from) <= Ahead(r) /\ Ahead(r) <= Ahead(limit) + 1
  /\ Ahead(r) <= Ahead(limit) => Due(co, hash[CALLOUT_LBHASH(r)], r) # {}
  /\ \A q \in Time : Ahead(from) <= Ahead(q) /\ Ahead(q) < Ahead(r) =>
                       Due(co, hash[CALLOUT_LBHASH(q)], q) = {}
  /\ Minus(r, limit) = Ahead(r) - Ahead(limit)
LEMMA FirstDueIs ==
  ASSUME NEW co, NEW hash, NEW from \in Time, NEW limit \in Time, lbolt \in Time,
         -MaxLag <= Ahead(from), Ahead(limit) <= 0, Ahead(from) <= Ahead(limit) + 1,
         NEW r, r = FirstDue(co, hash, from, limit)
  PROVE  StopsAt(co, hash, from, limit, r)
<1> DEFINE z == lbolt
<1>0. /\ -MaxLag <= Minus(from, z) /\ Minus(limit, z) <= 0 /\ Minus(from, z) <= Minus(limit, z) + 1
      /\ z \in Time
  BY DEF Ahead
<1> HIDE DEF z
<1> DEFINE a == Minus(from, z)
           l == Minus(limit, z)
           Has(q) == Due(co, hash[CALLOUT_LBHASH(q)], q) # {}
           found == {d \in 0 .. Minus(limit, from) : Has(Plus(from, d))}
<1>1. a \in Int /\ l \in Int /\ -MaxLag <= a /\ l <= 0 /\ a <= l + 1
  BY <1>0, MinusIs
<1>2. Minus(limit, from) = l - a
  BY <1>1, MinusMinus, HalfIs, <1>0
<1>3. r = IF found # {} THEN Plus(from, Min(found))
          ELSE IF Minus(limit, from) < 0 THEN from ELSE Plus(limit, 1)
  BY DEF FirstDue
<1> HIDE DEF Has
<1>4. ASSUME NEW d \in 0 .. l - a
      PROVE  Plus(from, d) \in Time /\ Minus(Plus(from, d), z) = a + d
  <2>1. d \in -Half .. Half /\ a + d \in -Half .. Half - 1
    BY <1>1, HalfIs
  <2> QED  BY <2>1, <1>0, MinusPlus
<1>5. ASSUME NEW q \in Time, a <= Minus(q, z), Minus(q, z) <= l
      PROVE  Minus(q, z) - a \in 0 .. l - a /\ Plus(from, Minus(q, z) - a) = q
  <2>1. Minus(q, z) \in Int
    BY MinusIs, <1>0
  <2>2. Minus(q, z) - a \in 0 .. l - a
    BY <2>1, <1>1, <1>5
  <2>3. Plus(from, Minus(q, z) - a) \in Time /\ Minus(Plus(from, Minus(q, z) - a), z) = Minus(q, z)
    BY <2>1, <2>2, <1>1, <1>4
  <2> QED  BY <2>2, <2>3, MinusMinus, <1>0
<1>6. /\ r \in Time /\ a <= Minus(r, z) /\ Minus(r, z) <= l + 1 /\ Minus(r, z) \in Int
      /\ Minus(r, z) <= l => Has(r)
      /\ \A q \in Time : a <= Minus(q, z) /\ Minus(q, z) < Minus(r, z) => ~Has(q)
  <2>1. CASE found # {}
    <3>1. found \subseteq 0 .. l - a
      BY <1>2
    <3>2. found \in SUBSET Nat
      BY <3>1, <1>1
    <3>3. Min(found) \in found /\ \A y \in found : Min(found) <= y
      BY <2>1, <3>2, MinIs
    <3> DEFINE m == Min(found)
    <3> HIDE DEF m
    <3>4. m \in 0 .. l - a /\ r = Plus(from, m) /\ Has(Plus(from, m))
      BY <3>1, <3>3, <2>1, <1>3 DEF m
    <3>5. r \in Time /\ Minus(r, z) = a + m /\ Has(r)
      BY <3>4, <1>4
    <3>6. ASSUME NEW q \in Time, a <= Minus(q, z), Minus(q, z) < Minus(r, z), Has(q)
          PROVE  FALSE
      <4>1. Minus(q, z) \in Int /\ Minus(q, z) <= l
        BY <3>4, <3>5, <3>6, <1>1, MinusIs, <1>0
      <4>2. Minus(q, z) - a \in 0 .. l - a /\ Plus(from, Minus(q, z) - a) = q
        BY <4>1, <3>6, <1>5
      <4>3. Minus(q, z) - a \in found
        BY <4>2, <3>6, <1>2
      <4>4. m <= Minus(q, z) - a
        BY <4>3, <3>3 DEF m
      <4> QED  BY <4>1, <4>4, <3>4, <3>5, <3>6, <1>1
    <3> QED  BY <3>4, <3>5, <3>6, <1>1
  <2>2. CASE found = {}
    <3>1. Minus(r, z) = l + 1 /\ r \in Time
      <4>1. CASE l - a < 0
        BY <4>1, <2>2, <1>1, <1>2, <1>3
      <4>2. CASE ~(l - a < 0)
        BY <4>2, <2>2, <1>1, <1>2, <1>3, MinusPlus, HalfIs, <1>0
      <4> QED  BY <4>1, <4>2
    <3>2. ASSUME NEW q \in Time, a <= Minus(q, z), Minus(q, z) < Minus(r, z), Has(q)
          PROVE  FALSE
      <4>1. Minus(q, z) \in Int /\ Minus(q, z) <= l
        BY <3>1, <3>2, <1>1, MinusIs, <1>0
      <4>2. Minus(q, z) - a \in 0 .. l - a /\ Plus(from, Minus(q, z) - a) = q
        BY <4>1, <3>2, <1>5
      <4> QED  BY <4>2, <3>2, <2>2, <1>2
    <3> QED  BY <3>1, <3>2, <1>1
  <2> QED  BY <2>1, <2>2
<1>7. Minus(r, limit) = Minus(r, z) - l
  BY <1>1, <1>6, MinusMinus, HalfIs, <1>0
<1> QED  BY <1>6, <1>7 DEF StopsAt, Has, Ahead, z

-----------------------------------------------------------------------------
(* What the operations do to the table                                     *)

\* A chain without the structure at place p: the others, in their order.
LEMMA WithoutIs ==
  ASSUME NEW chain \in Seq(Structs), NEW p \in 1 .. Len(chain),
         \A i, j \in 1 .. Len(chain) : i # j => chain[i] # chain[j]
  PROVE  /\ Without(chain, p) \in Seq(Structs) /\ Len(Without(chain, p)) = Len(chain) - 1
         /\ \A i \in 1 .. Len(chain) - 1 :
              Without(chain, p)[i] = chain[IF i < p THEN i ELSE i + 1] /\ Without(chain, p)[i] # chain[p]
         /\ \A i, j \in 1 .. Len(chain) - 1 : i # j => Without(chain, p)[i] # Without(chain, p)[j]
         /\ \A i \in 1 .. Len(chain) : i # p => \E k \in 1 .. Len(chain) - 1 : Without(chain, p)[k] = chain[i]
<1> DEFINE w == Without(chain, p)
<1>1. Len(chain) \in Nat /\ Len(chain) - 1 \in Nat
  OBVIOUS
<1>2. \A i \in 1 .. Len(chain) - 1 : (IF i < p THEN i ELSE i + 1) \in 1 .. Len(chain) \ {p}
  BY <1>1
<1>3. w \in Seq(Structs) /\ Len(w) = Len(chain) - 1
  BY <1>1, <1>2 DEF Without
<1>4. \A i \in 1 .. Len(chain) - 1 : w[i] = chain[IF i < p THEN i ELSE i + 1]
  BY DEF Without
<1> HIDE DEF w
<1>5. \A i \in 1 .. Len(chain) - 1 : w[i] # chain[p]
  BY <1>2, <1>4
<1>6. \A i, j \in 1 .. Len(chain) - 1 : i # j => w[i] # w[j]
  <2> TAKE i, j \in 1 .. Len(chain) - 1
  <2> HAVE i # j
  <2>1. (IF i < p THEN i ELSE i + 1) # (IF j < p THEN j ELSE j + 1)
    OBVIOUS
  <2> QED  BY <2>1, <1>2, <1>4
<1>7. ASSUME NEW i \in 1 .. Len(chain), i # p
      PROVE  \E k \in 1 .. Len(chain) - 1 : w[k] = chain[i]
  <2>1. CASE i < p
    <3>1. i \in 1 .. Len(chain) - 1 /\ w[i] = chain[i]
      BY <1>1, <1>4, <2>1
    <3> QED  BY <3>1
  <2>2. CASE i > p
    <3>1. i - 1 \in 1 .. Len(chain) - 1 /\ w[i - 1] = chain[i]
      BY <1>1, <1>4, <2>2
    <3> QED  BY <3>1
  <2> QED  BY <2>1, <2>2, <1>7
<1> QED  BY <1>3, <1>4, <1>5, <1>6, <1>7 DEF w

\* A structure in use is at its place on the chain of its time.
LEMMA PlaceIs ==
  ASSUME callout \in Callouts, ct_lbhash \in Hashes, Chaining(callout, ct_lbhash), NEW s \in Live(callout)
  PROVE  /\ s \in Structs /\ CALLOUT_LBHASH(callout[s].c_runtime) \in 0 .. Buckets - 1
         /\ ChainOf(s) \in Seq(Structs)
         /\ Place(s) \in 1 .. Len(ChainOf(s)) /\ ChainOf(s)[Place(s)] = s
<1>1. s \in Structs /\ callout[s].c_runtime \in Time
  BY DEF Live, Callouts
<1>2. CALLOUT_LBHASH(callout[s].c_runtime) \in 0 .. Buckets - 1
  BY <1>1, BucketIs
<1>3. ChainOf(s) \in Seq(Structs)
  BY <1>2 DEF ChainOf, Hashes
<1>4. \E i \in 1 .. Len(ChainOf(s)) : ChainOf(s)[i] = s
  BY <1>2 DEF Chaining, ChainOf
<1> QED  BY <1>1, <1>2, <1>3, <1>4 DEF Place

\* What follows what on a chain has done so before.
SameOrder(old, new) ==
  \A b \in 0 .. Buckets - 1 : \A i, j \in 1 .. Len(new[b]) : i < j =>
    \E k, m \in 1 .. Len(old[b]) : k < m /\ new[b][i] = old[b][k] /\ new[b][j] = old[b][m]

\* Deleting and freeing a structure.
Unlinked(s, co, hash) ==
  /\ co \in Callouts /\ Live(co) = Live(callout) \ {s} /\ \A x \in Structs \ {s} : co[x] = callout[x]
  /\ hash \in Hashes /\ Chaining(co, hash) /\ SameOrder(ct_lbhash, hash)

LEMMA UnlinkIs ==
  ASSUME callout \in Callouts, ct_lbhash \in Hashes, Chaining(callout, ct_lbhash), NEW s \in Live(callout),
         NEW co, co = [callout EXCEPT ![s] = FreeStruct], NEW hash, hash = Unlink(s)
  PROVE  Unlinked(s, co, hash)
<1> DEFINE h == CALLOUT_LBHASH(callout[s].c_runtime)
           ch == ct_lbhash[h]
           p == Place(s)
<1>1. s \in Structs /\ h \in 0 .. Buckets - 1 /\ ch \in Seq(Structs) /\ p \in 1 .. Len(ch) /\ ch[p] = s
  BY PlaceIs DEF ChainOf
<1>2. FreeStruct \in [c_xid : Ids \cup {Null}, executing : BOOLEAN, c_runtime : Time, c_executor : Executors \cup {Null}]
      /\ FreeStruct.c_xid = Null
  BY HalfIs DEF FreeStruct, Time
<1>3. co \in Callouts /\ Live(co) = Live(callout) \ {s} /\ \A x \in Structs \ {s} : co[x] = callout[x]
  BY <1>1, <1>2 DEF Callouts, Live
<1>4. hash = [ct_lbhash EXCEPT ![h] = Without(ch, p)]
  BY DEF Unlink, ChainOf
<1> HIDE DEF h, p
<1>5. \A i, j \in 1 .. Len(ch) : i # j => ch[i] # ch[j]
  BY <1>1 DEF Chaining
<1> HIDE DEF ch
<1>6. /\ Without(ch, p) \in Seq(Structs) /\ Len(Without(ch, p)) = Len(ch) - 1
      /\ \A i \in 1 .. Len(ch) - 1 : Without(ch, p)[i] = ch[IF i < p THEN i ELSE i + 1] /\ Without(ch, p)[i] # s
      /\ \A i, j \in 1 .. Len(ch) - 1 : i # j => Without(ch, p)[i] # Without(ch, p)[j]
      /\ \A i \in 1 .. Len(ch) : i # p => \E k \in 1 .. Len(ch) - 1 : Without(ch, p)[k] = ch[i]
  <2>1. ch \in Seq(Structs) /\ p \in 1 .. Len(ch) /\ ch[p] = s
    BY <1>1 DEF ch
  <2>2. /\ Without(ch, p) \in Seq(Structs) /\ Len(Without(ch, p)) = Len(ch) - 1
        /\ \A i \in 1 .. Len(ch) - 1 :
             Without(ch, p)[i] = ch[IF i < p THEN i ELSE i + 1] /\ Without(ch, p)[i] # ch[p]
        /\ \A i, j \in 1 .. Len(ch) - 1 : i # j => Without(ch, p)[i] # Without(ch, p)[j]
        /\ \A i \in 1 .. Len(ch) : i # p => \E k \in 1 .. Len(ch) - 1 : Without(ch, p)[k] = ch[i]
    BY <2>1, <1>5, WithoutIs, Zenon
  <2> QED  BY <2>1, <2>2
<1>7. hash \in Hashes /\ hash[h] = Without(ch, p) /\ \A b \in (0 .. Buckets - 1) \ {h} : hash[b] = ct_lbhash[b]
  BY <1>1, <1>4, <1>6 DEF Hashes
<1> DEFINE up(b, i) == IF b = h /\ i >= p THEN i + 1 ELSE i
<1>8. ASSUME NEW b \in 0 .. Buckets - 1, NEW i \in 1 .. Len(hash[b])
      PROVE  up(b, i) \in 1 .. Len(ct_lbhash[b]) /\ hash[b][i] = ct_lbhash[b][up(b, i)] /\ hash[b][i] # s
  <2>1. CASE b = h
    <3>1. i \in 1 .. Len(ch) - 1 /\ Len(ch) \in Nat
      BY <1>1, <1>6, <1>7, <2>1
    <3> QED  BY <3>1, <1>1, <1>6, <1>7, <2>1 DEF ch
  <2>2. CASE b # h
    <3>1. hash[b] = ct_lbhash[b] /\ ct_lbhash[b] \in Seq(Structs)
      BY <1>7, <2>2 DEF Hashes
    <3>2. CALLOUT_LBHASH(callout[ct_lbhash[b][i]].c_runtime) = b
      BY <3>1 DEF Chaining
    <3> QED  BY <3>1, <3>2, <2>2 DEF h
  <2> QED  BY <2>1, <2>2
<1>9. Chaining(co, hash)
  <2> SUFFICES ASSUME NEW b \in 0 .. Buckets - 1
      PROVE  /\ \A i, j \in 1 .. Len(hash[b]) : i # j => hash[b][i] # hash[b][j]
             /\ \A i \in 1 .. Len(hash[b]) :
                  hash[b][i] \in Live(co) /\ CALLOUT_LBHASH(co[hash[b][i]].c_runtime) = b
             /\ \A x \in Live(co) : CALLOUT_LBHASH(co[x].c_runtime) = b =>
                  \E i \in 1 .. Len(hash[b]) : hash[b][i] = x
    BY DEF Chaining
  <2>1. \A i, j \in 1 .. Len(hash[b]) : i # j => hash[b][i] # hash[b][j]
    <3> TAKE i, j \in 1 .. Len(hash[b])
    <3>1. i # j => up(b, i) # up(b, j)
      BY <1>1 DEF p
    <3>2. up(b, i) \in 1 .. Len(ct_lbhash[b]) /\ up(b, j) \in 1 .. Len(ct_lbhash[b])
          /\ hash[b][i] = ct_lbhash[b][up(b, i)] /\ hash[b][j] = ct_lbhash[b][up(b, j)]
      BY <1>8
    <3> HIDE DEF up
    <3> QED  BY <3>1, <3>2 DEF Chaining
  <2>2. ASSUME NEW i \in 1 .. Len(hash[b])
        PROVE  hash[b][i] \in Live(co) /\ CALLOUT_LBHASH(co[hash[b][i]].c_runtime) = b
    <3>1. up(b, i) \in 1 .. Len(ct_lbhash[b]) /\ hash[b][i] = ct_lbhash[b][up(b, i)] /\ hash[b][i] # s
      BY <1>8
    <3> HIDE DEF up
    <3>2. hash[b][i] \in Live(callout) /\ CALLOUT_LBHASH(callout[hash[b][i]].c_runtime) = b
      BY <3>1 DEF Chaining
    <3> QED  BY <3>1, <3>2, <1>3 DEF Live
  <2>3. ASSUME NEW x \in Live(co), CALLOUT_LBHASH(co[x].c_runtime) = b
        PROVE  \E i \in 1 .. Len(hash[b]) : hash[b][i] = x
    <3>1. x \in Live(callout) /\ x # s /\ CALLOUT_LBHASH(callout[x].c_runtime) = b
      BY <2>3, <1>3 DEF Live
    <3>2. PICK i \in 1 .. Len(ct_lbhash[b]) : ct_lbhash[b][i] = x
      BY <3>1 DEF Chaining
    <3>3. CASE b = h
      <4>1. i \in 1 .. Len(ch) /\ i # p /\ ch[i] = x
        BY <3>1, <3>2, <3>3, <1>1 DEF ch
      <4> QED  BY <4>1, <1>6, <1>7, <3>3
    <3>4. CASE b # h
      BY <3>2, <3>4, <1>7
    <3> QED  BY <3>3, <3>4
  <2> QED  BY <2>1, <2>2, <2>3
<1>10. ASSUME NEW b \in 0 .. Buckets - 1, NEW i \in 1 .. Len(hash[b]), NEW j \in 1 .. Len(hash[b]), i < j
       PROVE  \E k, m \in 1 .. Len(ct_lbhash[b]) : k < m /\ hash[b][i] = ct_lbhash[b][k] /\ hash[b][j] = ct_lbhash[b][m]
  <2>1. up(b, i) < up(b, j)
    BY <1>1, <1>10
  <2>2. up(b, i) \in 1 .. Len(ct_lbhash[b]) /\ up(b, j) \in 1 .. Len(ct_lbhash[b])
        /\ hash[b][i] = ct_lbhash[b][up(b, i)] /\ hash[b][j] = ct_lbhash[b][up(b, j)]
    BY <1>8
  <2> HIDE DEF up
  <2> QED  BY <2>1, <2>2
<1> QED  BY <1>3, <1>7, <1>9, <1>10 DEF SameOrder, Unlinked

\* A structure is deleted and freed: the thread that executes it, if there is
\* one, is done with it, and who waits for it is woken.
Released(s, st, p) ==
  /\ st \in [Threads -> Structs \cup {Null}] /\ DOMAIN p = Threads
  /\ \A f \in Executors : IF cp[f] = s THEN st[f] = Null /\ p[f] = "start" ELSE st[f] = cp[f] /\ p[f] = pc[f]
  /\ \A c \in Clients : st[c] = cp[c] /\ p[c] = IF pc[c] = "wait" /\ cp[c] = s THEN "woken" ELSE pc[c]

LEMMA FreeTable ==
  ASSUME Table(callout, ct_lbhash, ct_freelist, ct_runtime, cp, runtime, pc),
         NEW s \in Live(callout), NEW co, co = [callout EXCEPT ![s] = FreeStruct], NEW hash, hash = Unlink(s),
         NEW st, NEW p, Released(s, st, p)
  PROVE  Table(co, hash, ct_freelist \cup {s}, ct_runtime, st, runtime, p)
<1>0. /\ st \in [Threads -> Structs \cup {Null}] /\ DOMAIN p = Threads
      /\ \A f \in Executors : IF cp[f] = s THEN st[f] = Null /\ p[f] = "start" ELSE st[f] = cp[f] /\ p[f] = pc[f]
      /\ \A c \in Clients : st[c] = cp[c] /\ p[c] = IF pc[c] = "wait" /\ cp[c] = s THEN "woken" ELSE pc[c]
  BY DEF Released
<1>1. /\ callout \in Callouts /\ ct_lbhash \in Hashes /\ ct_freelist \subseteq Structs
      /\ ct_freelist \cap Live(callout) = {} /\ ct_runtime \in Time
      /\ cp \in [Threads -> Structs \cup {Null}] /\ runtime \in [Executors -> Time] /\ DOMAIN pc = Threads
      /\ Chaining(callout, ct_lbhash) /\ RunsRight(callout, cp, runtime, pc)
      /\ TimesRight(callout, ct_runtime) /\ WalkRight(callout, ct_lbhash, ct_runtime, cp, runtime, pc)
      /\ IdsRight(callout, cp, pc)
  BY DEF Table
<1>2. s \in Structs /\ s # Null
  BY ThreadsAssumption DEF Live
<1>3. /\ co \in Callouts /\ Live(co) = Live(callout) \ {s} /\ \A x \in Structs \ {s} : co[x] = callout[x]
      /\ hash \in Hashes /\ Chaining(co, hash)
      /\ SameOrder(ct_lbhash, hash)
  BY <1>1, UnlinkIs DEF Unlinked
<1>4. ~co[s].executing
  BY <1>1, <1>2 DEF FreeStruct, Callouts
<1>5. RunsRight(co, st, runtime, p)
  <2>1. ASSUME NEW f \in Executors
        PROVE  /\ p[f] \in ExecutorLabels /\ (st[f] # Null <=> p[f] = "func")
               /\ p[f] = "func" => /\ st[f] \in Live(co) /\ co[st[f]].executing
                                   /\ co[st[f]].c_executor = f /\ co[st[f]].c_runtime = runtime[f]
    <3>1. CASE cp[f] = s
      BY <3>1, <1>0 DEF ExecutorLabels
    <3>2. CASE cp[f] # s
      <4>1. st[f] = cp[f] /\ p[f] = pc[f]
        BY <3>2, <1>0
      <4>2. /\ pc[f] \in ExecutorLabels /\ (cp[f] # Null <=> pc[f] = "func")
            /\ pc[f] = "func" => /\ cp[f] \in Live(callout) /\ callout[cp[f]].executing
                                 /\ callout[cp[f]].c_executor = f /\ callout[cp[f]].c_runtime = runtime[f]
        BY <1>1, Zenon DEF RunsRight
      <4>3. pc[f] = "func" => cp[f] \in Structs \ {s} /\ cp[f] \in Live(callout) \ {s}
        BY <4>2, <3>2 DEF Live
      <4>4. pc[f] = "func" => co[cp[f]] = callout[cp[f]] /\ cp[f] \in Live(co)
        BY <4>3, <1>3
      <4> QED  BY <4>1, <4>2, <4>4
    <3> QED  BY <3>1, <3>2
  <2>2. ASSUME NEW x \in Structs, co[x].executing
        PROVE  x \in Live(co) /\ co[x].c_executor \in Executors /\ st[co[x].c_executor] = x
    <3>1. x # s /\ co[x] = callout[x]
      BY <2>2, <1>3, <1>4
    <3>2. x \in Live(callout) /\ callout[x].c_executor \in Executors /\ cp[callout[x].c_executor] = x
      BY <3>1, <2>2, <1>1 DEF RunsRight
    <3> QED  BY <3>1, <3>2, <1>0, <1>3
  <2> QED  BY <2>1, <2>2 DEF RunsRight
<1>6. TimesRight(co, ct_runtime)
  BY <1>1, <1>3 DEF TimesRight, Live
<1>7. WalkRight(co, hash, ct_runtime, st, runtime, p)
  <2> DEFINE b == CALLOUT_LBHASH(ct_runtime)
  <2> SUFFICES ASSUME NEW f \in Executors, p[f] = "func", runtime[f] = ct_runtime,
                      NEW i \in 1 .. Len(hash[b]), NEW j \in 1 .. Len(hash[b]),
                      i < j, hash[b][j] = st[f], co[hash[b][i]].c_runtime = ct_runtime
      PROVE  co[hash[b][i]].executing
    BY DEF WalkRight, Passed
  <2>1. b \in 0 .. Buckets - 1
    BY <1>1, BucketIs
  <2>2. pc[f] = "func" /\ st[f] = cp[f]
    BY <1>0 DEF ExecutorLabels
  <2>3. Passed(callout, ct_lbhash[b], cp[f], ct_runtime)
    BY <2>2, <1>1 DEF WalkRight
  <2> HIDE DEF b
  <2>4. hash[b][i] \in Live(co)
    BY <2>1, <1>3 DEF Chaining
  <2>5. co[hash[b][i]] = callout[hash[b][i]]
    BY <2>4, <1>3 DEF Live
  <2>6. \E k, m \in 1 .. Len(ct_lbhash[b]) : k < m /\ hash[b][i] = ct_lbhash[b][k] /\ hash[b][j] = ct_lbhash[b][m]
    BY <2>1, <1>3, Zenon DEF SameOrder
  <2>7. PICK k \in 1 .. Len(ct_lbhash[b]), m \in 1 .. Len(ct_lbhash[b]) :
          k < m /\ hash[b][i] = ct_lbhash[b][k] /\ hash[b][j] = ct_lbhash[b][m]
    BY <2>6, Zenon
  <2> QED  BY <2>2, <2>3, <2>5, <2>7 DEF Passed
<1>8. IdsRight(co, st, p)
  <2>1. \A x, y \in Live(co) : co[x].c_xid = co[y].c_xid => x = y
    BY <1>1, <1>3 DEF IdsRight, Live
  <2>2. ASSUME NEW c \in Clients
        PROVE  /\ p[c] \in ClientLabels /\ (id[c] = Null <=> p[c] = "idle")
               /\ st[c] # Null <=> p[c] \in {"wait", "woken"}
               /\ p[c] \in {"wait", "woken"} =>
                    \A x \in Live(co) : co[x].c_xid = id[c] => x = st[c] /\ Elsewhere(co[x], c)
               /\ p[c] = "wait" => co[st[c]].c_xid = id[c] /\ Elsewhere(co[st[c]], c)
    <3>1. /\ pc[c] \in ClientLabels /\ (id[c] = Null <=> pc[c] = "idle")
          /\ cp[c] # Null <=> pc[c] \in {"wait", "woken"}
          /\ pc[c] \in {"wait", "woken"} =>
               \A x \in Live(callout) : callout[x].c_xid = id[c] => x = cp[c] /\ Elsewhere(callout[x], c)
          /\ pc[c] = "wait" => callout[cp[c]].c_xid = id[c] /\ Elsewhere(callout[cp[c]], c)
      BY <1>1, Zenon DEF IdsRight
    <3>2. st[c] = cp[c] /\ p[c] = IF pc[c] = "wait" /\ cp[c] = s THEN "woken" ELSE pc[c]
      BY <1>0
    <3>3. p[c] = "wait" => pc[c] = "wait" /\ cp[c] # s /\ cp[c] \in Structs
      <4>1. c \in Threads
        BY DEF Threads
      <4> QED  BY <4>1, <3>1, <3>2, <1>1
    <3>4. \A x \in Live(co) : x \in Live(callout) /\ co[x] = callout[x]
      BY <1>3 DEF Live
    <3>5. p[c] \in {"wait", "woken"} <=> pc[c] \in {"wait", "woken"}
      BY <3>2
    <3>6. p[c] \in ClientLabels /\ (id[c] = Null <=> p[c] = "idle") /\ (st[c] # Null <=> p[c] \in {"wait", "woken"})
      BY <3>1, <3>2 DEF ClientLabels
    <3>7. ASSUME p[c] \in {"wait", "woken"}, NEW x \in Live(co), co[x].c_xid = id[c]
          PROVE  x = st[c] /\ Elsewhere(co[x], c)
      BY <3>7, <3>5, <3>4, <3>2, <3>1
    <3>8. p[c] = "wait" => co[st[c]].c_xid = id[c] /\ Elsewhere(co[st[c]], c)
      BY <3>1, <3>2, <3>3, <1>3
    <3> QED  BY <3>6, <3>7, <3>8
  <2> QED  BY <2>1, <2>2 DEF IdsRight
<1>9. (ct_freelist \cup {s}) \cap Live(co) = {} /\ ct_freelist \cup {s} \subseteq Structs
  BY <1>1, <1>2, <1>3
<1> QED  BY <1>0, <1>1, <1>3, <1>5, <1>6, <1>7, <1>8, <1>9 DEF Table

\* What Call() does to the structures.
Marked(co, x, e) == [co EXCEPT ![x].executing = TRUE, ![x].c_executor = e]

\* A thread marks a structure that is due at ct_runtime, the first one that is.
LEMMA MarkTable ==
  ASSUME NEW co, NEW hash, NEW free, NEW r, NEW st, NEW rt, NEW p, NEW co2, NEW st2, NEW rt2, NEW p2,
         lbolt \in Time, Table(co, hash, free, r, st, rt, p), -MaxLag <= Ahead(r), Ahead(r) <= Ahead(ct_curtime),
         NEW e \in Executors, p[e] = "start", NEW x \in Live(co), ~co[x].executing, co[x].c_runtime = r,
         Passed(co, hash[CALLOUT_LBHASH(r)], x, r),
         co2 = Marked(co, x, e),
         st2 = [st EXCEPT ![e] = x], rt2 = [rt EXCEPT ![e] = r], p2 = [p EXCEPT ![e] = "func"]
  PROVE  Table(co2, hash, free, r, st2, rt2, p2)
<1> USE DEF Callouts
<1>1. /\ co \in Callouts /\ hash \in Hashes /\ free \subseteq Structs /\ free \cap Live(co) = {}
      /\ r \in Time /\ st \in [Threads -> Structs \cup {Null}] /\ rt \in [Executors -> Time] /\ DOMAIN p = Threads
      /\ Chaining(co, hash) /\ RunsRight(co, st, rt, p)
      /\ TimesRight(co, r) /\ WalkRight(co, hash, r, st, rt, p) /\ IdsRight(co, st, p)
  BY DEF Table
<1>2. x \in Structs /\ x # Null /\ e \in Threads /\ e \notin Clients /\ Clients \subseteq Threads /\ Executors \subseteq Threads
  BY ThreadsAssumption DEF Live, Threads
<1>3. /\ co2 \in Callouts
      /\ \A y \in Structs : co2[y].c_xid = co[y].c_xid /\ co2[y].c_runtime = co[y].c_runtime
      /\ \A y \in Structs \ {x} : co2[y] = co[y]
      /\ co2[x].executing /\ co2[x].c_executor = e
  BY <1>1, <1>2 DEF Marked
<1>4. Live(co2) = Live(co)
  BY <1>3 DEF Live
<1>5. /\ st2 \in [Threads -> Structs \cup {Null}] /\ st2[e] = x /\ rt2 \in [Executors -> Time] /\ rt2[e] = r
      /\ DOMAIN p2 = Threads /\ p2[e] = "func"
      /\ \A t \in Threads \ {e} : st2[t] = st[t] /\ p2[t] = p[t]
      /\ \A f \in Executors \ {e} : rt2[f] = rt[f]
  BY <1>1, <1>2
<1>6. st[e] = Null
  BY <1>1 DEF RunsRight
<1>7. Chaining(co2, hash)
  BY <1>1, <1>3, <1>4 DEF Chaining, Live
<1>8. RunsRight(co2, st2, rt2, p2)
  <2>1. ASSUME NEW f \in Executors
        PROVE  /\ p2[f] \in ExecutorLabels /\ (st2[f] # Null <=> p2[f] = "func")
               /\ p2[f] = "func" => /\ st2[f] \in Live(co2) /\ co2[st2[f]].executing
                                    /\ co2[st2[f]].c_executor = f /\ co2[st2[f]].c_runtime = rt2[f]
    <3>1. CASE f = e
      BY <3>1, <1>2, <1>3, <1>4, <1>5 DEF ExecutorLabels
    <3>2. CASE f # e
      <4>1. p[f] = "func" => st[f] \in Live(co) /\ st[f] # x /\ st[f] \in Structs
        BY <1>1 DEF RunsRight, Live
      <4> QED  BY <4>1, <3>2, <1>1, <1>2, <1>3, <1>4, <1>5 DEF RunsRight
    <3> QED  BY <3>1, <3>2
  <2>2. ASSUME NEW y \in Structs, co2[y].executing
        PROVE  y \in Live(co2) /\ co2[y].c_executor \in Executors /\ st2[co2[y].c_executor] = y
    <3>1. CASE y = x
      BY <3>1, <1>3, <1>4, <1>5
    <3>2. CASE y # x
      <4>1. co2[y] = co[y]
        BY <3>2, <1>3
      <4>2. y \in Live(co) /\ co[y].c_executor \in Executors /\ st[co[y].c_executor] = y
        BY <4>1, <2>2, <1>1 DEF RunsRight
      <4>3. co[y].c_executor # e /\ y # Null
        BY <4>2, <1>6, ThreadsAssumption
      <4> QED  BY <4>1, <4>2, <4>3, <1>2, <1>4, <1>5
    <3> QED  BY <3>1, <3>2
  <2> QED  BY <2>1, <2>2 DEF RunsRight
<1>9. TimesRight(co2, r)
  <2>1. MaxLag \in Nat /\ Ahead(r) \in Int
    BY <1>1, HalfIs, MinusIs DEF Ahead
  <2>2. ASSUME NEW y \in Live(co2)
        PROVE  IF co2[y].executing
               THEN /\ -(MaxLag + 1) <= Ahead(co2[y].c_runtime) /\ Ahead(co2[y].c_runtime) <= Ahead(ct_curtime)
                    /\ Ahead(co2[y].c_runtime) <= Ahead(r)
               ELSE Ahead(r) <= Ahead(co2[y].c_runtime) /\ Ahead(co2[y].c_runtime) <= MaxDelta
    <3>1. CASE y = x
      BY <3>1, <2>1, <1>2, <1>3
    <3>2. CASE y # x
      BY <3>2, <1>1, <1>3, <1>4 DEF TimesRight, Live
    <3> QED  BY <3>1, <3>2
  <2> QED  BY <2>2 DEF TimesRight
<1>10. WalkRight(co2, hash, r, st2, rt2, p2)
  <2> SUFFICES ASSUME NEW f \in Executors, p2[f] = "func", rt2[f] = r
      PROVE  Passed(co2, hash[CALLOUT_LBHASH(r)], st2[f], r)
    BY DEF WalkRight
  <2>1. Passed(co, hash[CALLOUT_LBHASH(r)], st2[f], r)
    <3>1. CASE f = e
      BY <3>1, <1>5
    <3>2. CASE f # e
      BY <3>2, <1>1, <1>2, <1>5 DEF WalkRight
    <3> QED  BY <3>1, <3>2
  <2>2. \A i \in 1 .. Len(hash[CALLOUT_LBHASH(r)]) : hash[CALLOUT_LBHASH(r)][i] \in Structs
    BY <1>1, BucketIs DEF Chaining, Live
  <2>3. \A y \in Structs : co2[y].c_runtime = co[y].c_runtime /\ (co[y].executing => co2[y].executing)
    BY <1>3
  <2> QED  BY <2>1, <2>2, <2>3 DEF Passed
<1>11. IdsRight(co2, st2, p2)
  <2>1. \A y, z \in Live(co2) : co2[y].c_xid = co2[z].c_xid => y = z
    BY <1>1, <1>3, <1>4 DEF IdsRight, Live
  <2>2. \A y \in Structs : /\ co2[y].c_xid = co[y].c_xid
                           /\ \A c \in Clients : Elsewhere(co[y], c) => Elsewhere(co2[y], c)
    <3>1. \A c \in Clients : ~Elsewhere(co[x], c)
      BY DEF Elsewhere
    <3> QED  BY <3>1, <1>3
  <2>3. \A c \in Clients : st2[c] = st[c] /\ p2[c] = p[c] /\ (st[c] # Null => st[c] \in Structs)
    BY <1>1, <1>2, <1>5
  <2> QED  BY <2>1, <2>2, <2>3, <1>1, <1>4 DEF IdsRight, Live
<1> QED  BY <1>1, <1>3, <1>4, <1>5, <1>7, <1>8, <1>9, <1>10, <1>11 DEF Table

\* ct_runtime goes on to a time before which nothing is to be executed.
LEMMA AdvanceTable ==
  ASSUME NEW co, NEW hash, NEW free, NEW r, NEW st, NEW rt, NEW p, NEW q \in Time,
         lbolt \in Time, Table(co, hash, free, r, st, rt, p), Ahead(r) <= Ahead(q),
         \A s \in Live(co) : ~co[s].executing => Ahead(q) <= Ahead(co[s].c_runtime)
  PROVE  Table(co, hash, free, q, st, rt, p)
<1>1. /\ TimesRight(co, r) /\ WalkRight(co, hash, r, st, rt, p) /\ RunsRight(co, st, rt, p)
      /\ r \in Time /\ co \in Callouts /\ rt \in [Executors -> Time]
  BY DEF Table
<1>2. Ahead(r) \in Int /\ Ahead(q) \in Int /\ \A s \in Structs : Ahead(co[s].c_runtime) \in Int
  BY <1>1, MinusIs DEF Ahead, Callouts
<1>3. TimesRight(co, q)
  BY <1>1, <1>2 DEF TimesRight, Live
<1>4. WalkRight(co, hash, q, st, rt, p)
  <2> SUFFICES ASSUME NEW e \in Executors, p[e] = "func", rt[e] = q
      PROVE  Passed(co, hash[CALLOUT_LBHASH(q)], st[e], q)
    BY DEF WalkRight
  <2>1. st[e] \in Live(co) /\ co[st[e]].executing /\ co[st[e]].c_runtime = q
    BY <1>1 DEF RunsRight
  <2>2. Ahead(q) <= Ahead(r)
    BY <2>1, <1>1 DEF TimesRight
  <2>3. Ahead(q) = Ahead(r)
    BY <2>2, <1>2
  <2>4. q = r
    BY <2>3, <1>1, MinusMinus DEF Ahead
  <2> QED  BY <2>4, <1>1 DEF WalkRight
<1> QED  BY <1>3, <1>4 DEF Table

\* A thread that executes nothing goes on.
LEMMA LabelTable ==
  ASSUME NEW co, NEW hash, NEW free, NEW r, NEW st, NEW rt, NEW p, Table(co, hash, free, r, st, rt, p),
         NEW e \in Executors, p[e] # "func", NEW l \in ExecutorLabels, l # "func", NEW v \in Time
  PROVE  Table(co, hash, free, r, st, [rt EXCEPT ![e] = v], [p EXCEPT ![e] = l])
<1> DEFINE rt2 == [rt EXCEPT ![e] = v]
           p2 == [p EXCEPT ![e] = l]
<1>1. /\ rt \in [Executors -> Time] /\ DOMAIN p = Threads /\ RunsRight(co, st, rt, p)
      /\ WalkRight(co, hash, r, st, rt, p) /\ IdsRight(co, st, p)
  BY DEF Table
<1>2. e \in Threads /\ e \notin Clients /\ Clients \subseteq Threads /\ Executors \subseteq Threads
  BY ThreadsAssumption DEF Threads
<1>3. /\ rt2 \in [Executors -> Time] /\ DOMAIN p2 = Threads /\ p2[e] = l
      /\ \A f \in Executors \ {e} : rt2[f] = rt[f] /\ p2[f] = p[f]
      /\ \A c \in Clients : p2[c] = p[c]
  BY <1>1, <1>2
<1> HIDE DEF rt2, p2
<1>4. RunsRight(co, st, rt2, p2)
  <2>1. ASSUME NEW f \in Executors
        PROVE  /\ p2[f] \in ExecutorLabels /\ (st[f] # Null <=> p2[f] = "func")
               /\ p2[f] = "func" => /\ st[f] \in Live(co) /\ co[st[f]].executing
                                    /\ co[st[f]].c_executor = f /\ co[st[f]].c_runtime = rt2[f]
    <3>1. CASE f = e
      BY <3>1, <1>1, <1>3 DEF RunsRight
    <3>2. CASE f # e
      BY <3>2, <1>1, <1>3 DEF RunsRight
    <3> QED  BY <3>1, <3>2
  <2> QED  BY <2>1, <1>1 DEF RunsRight
<1>5. WalkRight(co, hash, r, st, rt2, p2)
  BY <1>1, <1>3 DEF WalkRight
<1>6. IdsRight(co, st, p2)
  BY <1>1, <1>3 DEF IdsRight
<1>7. Table(co, hash, free, r, st, rt2, p2)
  BY <1>3, <1>4, <1>5, <1>6 DEF Table
<1> QED  BY <1>7 DEF rt2, p2

\* What is pending is due on its chain at its time.
LEMMA DueIs ==
  ASSUME NEW co \in Callouts, NEW hash, Chaining(co, hash), NEW s \in Live(co), ~co[s].executing
  PROVE  Due(co, hash[CALLOUT_LBHASH(co[s].c_runtime)], co[s].c_runtime) # {}
<1>1. CALLOUT_LBHASH(co[s].c_runtime) \in 0 .. Buckets - 1
  BY BucketIs DEF Callouts, Live
<1>2. \E i \in 1 .. Len(hash[CALLOUT_LBHASH(co[s].c_runtime)]) : hash[CALLOUT_LBHASH(co[s].c_runtime)][i] = s
  BY <1>1 DEF Chaining
<1> QED  BY <1>2 DEF Due

\* The first that is due on the chain of a time leaves nothing behind.
LEMMA FirstIs ==
  ASSUME NEW co \in Callouts, NEW hash \in Hashes, Chaining(co, hash), NEW r \in Time,
         Due(co, hash[CALLOUT_LBHASH(r)], r) # {},
         NEW x, x = hash[CALLOUT_LBHASH(r)][Min(Due(co, hash[CALLOUT_LBHASH(r)], r))]
  PROVE  x \in Live(co) /\ ~co[x].executing /\ co[x].c_runtime = r /\ Passed(co, hash[CALLOUT_LBHASH(r)], x, r)
<1> DEFINE chain == hash[CALLOUT_LBHASH(r)]
           m == Min(Due(co, chain, r))
<1>1. chain \in Seq(Structs) /\ CALLOUT_LBHASH(r) \in 0 .. Buckets - 1
  BY BucketIs DEF Hashes
<1>2. Due(co, chain, r) \in SUBSET Nat
  BY <1>1 DEF Due
<1>3. m \in Due(co, chain, r) /\ \A y \in Due(co, chain, r) : m <= y
  BY <1>2, MinIs
<1>4. /\ \A i, j \in 1 .. Len(chain) : i # j => chain[i] # chain[j]
      /\ \A i \in 1 .. Len(chain) : chain[i] \in Live(co)
  BY <1>1 DEF Chaining
<1> HIDE DEF chain, m
<1>5. m \in 1 .. Len(chain) /\ x = chain[m] /\ ~co[x].executing /\ co[x].c_runtime = r
  BY <1>3 DEF Due, chain, m
<1>6. Passed(co, chain, x, r)
  <2> SUFFICES ASSUME NEW i \in 1 .. Len(chain), NEW j \in 1 .. Len(chain), i < j, chain[j] = x,
                      co[chain[i]].c_runtime = r, ~co[chain[i]].executing
      PROVE  FALSE
    BY DEF Passed
  <2>1. j = m
    BY <1>4, <1>5
  <2>2. i \in Due(co, chain, r)
    BY DEF Due
  <2>3. m <= i
    BY <2>2, <1>3
  <2>4. Len(chain) \in Nat
    BY <1>1 DEF chain
  <2> QED  BY <2>1, <2>3, <2>4
<1> QED  BY <1>4, <1>5, <1>6 DEF chain

\* The loop over run times takes ct_runtime past nothing that is pending.
LEMMA WalkTable ==
  ASSUME NEW co, NEW hash, NEW free, NEW from, NEW st, NEW rt, NEW p, NEW limit \in Time,
         lbolt \in Time, Table(co, hash, free, from, st, rt, p),
         -MaxLag <= Ahead(from), Ahead(limit) <= 0, Ahead(from) <= Ahead(limit) + 1,
         NEW r, r = FirstDue(co, hash, from, limit)
  PROVE  /\ Table(co, hash, free, r, st, rt, p) /\ r \in Time
         /\ -MaxLag <= Ahead(r) /\ Ahead(r) <= Ahead(limit) + 1
         /\ Minus(r, limit) = Ahead(r) - Ahead(limit)
         /\ Minus(r, limit) <= 0 => Due(co, hash[CALLOUT_LBHASH(r)], r) # {} /\ Ahead(r) <= Ahead(limit)
<1>1. from \in Time /\ co \in Callouts /\ Chaining(co, hash) /\ TimesRight(co, from)
  BY DEF Table
<1>2. /\ r \in Time /\ Ahead(from) <= Ahead(r) /\ Ahead(r) <= Ahead(limit) + 1
      /\ Ahead(r) <= Ahead(limit) => Due(co, hash[CALLOUT_LBHASH(r)], r) # {}
      /\ \A q \in Time : Ahead(from) <= Ahead(q) /\ Ahead(q) < Ahead(r) =>
                           Due(co, hash[CALLOUT_LBHASH(q)], q) = {}
      /\ Minus(r, limit) = Ahead(r) - Ahead(limit)
  <2>1. StopsAt(co, hash, from, limit, r)
    BY <1>1, FirstDueIs
  <2> QED  BY <2>1 DEF StopsAt
<1>3. /\ Ahead(r) \in Int /\ Ahead(from) \in Int /\ Ahead(limit) \in Int /\ MaxLag \in Int
      /\ \A s \in Live(co) : co[s].c_runtime \in Time /\ Ahead(co[s].c_runtime) \in Int
  BY <1>1, <1>2, MinusIs, HalfIs DEF Ahead, Live, Callouts
<1>4. ASSUME NEW s \in Live(co), ~co[s].executing
      PROVE  Ahead(r) <= Ahead(co[s].c_runtime)
  <2>1. Ahead(from) <= Ahead(co[s].c_runtime)
    BY <1>4, <1>1 DEF TimesRight
  <2>2. Due(co, hash[CALLOUT_LBHASH(co[s].c_runtime)], co[s].c_runtime) # {}
    BY <1>4, <1>1, DueIs
  <2> QED  BY <2>1, <2>2, <1>2, <1>3
<1>5. Table(co, hash, free, r, st, rt, p)
  BY <1>2, <1>4, AdvanceTable
<1> QED  BY <1>2, <1>3, <1>5

\* The outer loop of callout_execute(), for a thread that executes nothing: what
\* Loop() does, to given values.
Walked(e, co, hash, from, st, rt, p, co2, r2, st2, rt2, p2) ==
  LET x == hash[CALLOUT_LBHASH(r2)][Min(Due(co, hash[CALLOUT_LBHASH(r2)], r2))] IN
  /\ r2 = FirstDue(co, hash, from, ct_curtime)
  /\ IF Minus(r2, ct_curtime) <= 0
     THEN /\ co2 = Marked(co, x, e)
          /\ st2 = [st EXCEPT ![e] = x] /\ rt2 = [rt EXCEPT ![e] = r2] /\ p2 = [p EXCEPT ![e] = "func"]
     ELSE co2 = co /\ st2 = st /\ rt2 = [rt EXCEPT ![e] = 0] /\ p2 = [p EXCEPT ![e] = "end"]

\* The structures after the next one, if there is one, has been marked.
Goes(co, co2, e) == co2 = co \/ \E x \in Live(co) : ~co[x].executing /\ co2 = Marked(co, x, e)

LEMMA LoopTable ==
  ASSUME NEW co, NEW hash, NEW free, NEW from, NEW st, NEW rt, NEW p,
         NEW co2, NEW r2, NEW st2, NEW rt2, NEW p2,
         Types, ClockRight(from), Table(co, hash, free, from, st, rt, p), NEW e \in Executors, p[e] = "start",
         Walked(e, co, hash, from, st, rt, p, co2, r2, st2, rt2, p2)
  PROVE  /\ Table(co2, hash, free, r2, st2, rt2, p2) /\ ClockRight(r2) /\ Goes(co, co2, e)
         /\ p2 = [p EXCEPT ![e] = "func"] \/ p2 = [p EXCEPT ![e] = "end"]
<1> DEFINE x == hash[CALLOUT_LBHASH(r2)][Min(Due(co, hash[CALLOUT_LBHASH(r2)], r2))]
<1>0. /\ r2 = FirstDue(co, hash, from, ct_curtime)
      /\ IF Minus(r2, ct_curtime) <= 0
         THEN /\ co2 = Marked(co, x, e)
              /\ st2 = [st EXCEPT ![e] = x] /\ rt2 = [rt EXCEPT ![e] = r2] /\ p2 = [p EXCEPT ![e] = "func"]
         ELSE co2 = co /\ st2 = st /\ rt2 = [rt EXCEPT ![e] = 0] /\ p2 = [p EXCEPT ![e] = "end"]
  BY DEF Walked
<1> HIDE DEF x
<1>1. lbolt \in Time /\ ct_curtime \in Time
  BY DEF Types
<1>2. co \in Callouts /\ hash \in Hashes /\ Chaining(co, hash)
  BY DEF Table
<1>4. /\ Table(co, hash, free, r2, st, rt, p) /\ r2 \in Time
      /\ -MaxLag <= Ahead(r2) /\ Ahead(r2) <= Ahead(ct_curtime) + 1
      /\ Minus(r2, ct_curtime) <= 0 => Due(co, hash[CALLOUT_LBHASH(r2)], r2) # {} /\ Ahead(r2) <= Ahead(ct_curtime)
  BY <1>0, <1>1, WalkTable DEF ClockRight
<1>6. ClockRight(r2)
  BY <1>4 DEF ClockRight
<1>7. CASE Minus(r2, ct_curtime) <= 0
  <2>1. x \in Live(co) /\ ~co[x].executing /\ co[x].c_runtime = r2 /\ Passed(co, hash[CALLOUT_LBHASH(r2)], x, r2)
    BY <1>7, <1>2, <1>4, FirstIs DEF x
  <2>2. /\ co2 = Marked(co, x, e)
        /\ st2 = [st EXCEPT ![e] = x] /\ rt2 = [rt EXCEPT ![e] = r2] /\ p2 = [p EXCEPT ![e] = "func"]
    BY <1>0, <1>7
  <2>3. -MaxLag <= Ahead(r2) /\ Ahead(r2) <= Ahead(ct_curtime) /\ Table(co, hash, free, r2, st, rt, p)
    BY <1>4, <1>7
  <2>4. Table(co2, hash, free, r2, st2, rt2, p2)
    BY <2>1, <2>2, <2>3, <1>1, MarkTable
  <2> QED  BY <2>1, <2>2, <2>4, <1>6 DEF Goes
<1>8. CASE ~(Minus(r2, ct_curtime) <= 0)
  <2>1. "end" \in ExecutorLabels /\ 0 \in Time
    BY HalfIs DEF ExecutorLabels, Time
  <2>2. Table(co, hash, free, r2, st, [rt EXCEPT ![e] = 0], [p EXCEPT ![e] = "end"])
    BY <2>1, <1>4, LabelTable
  <2> QED  BY <2>2, <1>0, <1>6, <1>8 DEF Goes
<1> QED  BY <1>7, <1>8

\* The function that a thread has called returns: its callout is deleted.
Returned(e, s, r, co, hash, st, p) ==
  /\ pc[e] = "func" /\ s = cp[e] /\ r = runtime[e] /\ co = [callout EXCEPT ![s] = FreeStruct] /\ hash = Unlink(s)
  /\ st = [cp EXCEPT ![e] = Null] /\ p = [Awaken(s) EXCEPT ![e] = "start"]
From(r) == IF ct_runtime = r THEN Plus(r, 1) ELSE ct_runtime

LEMMA DoneTable ==
  ASSUME CoInv, NEW e \in Executors,
         NEW s, NEW r, NEW co, NEW hash, NEW st, NEW p, Returned(e, s, r, co, hash, st, p)
  PROVE  /\ Table(co, hash, ct_freelist \cup {s}, ct_runtime, st, runtime, p) /\ p[e] = "start"
         /\ s \in Live(callout) /\ callout[s].executing /\ callout[s].c_runtime = r
<1>0. /\ pc[e] = "func" /\ s = cp[e] /\ r = runtime[e] /\ co = [callout EXCEPT ![s] = FreeStruct] /\ hash = Unlink(s)
      /\ st = [cp EXCEPT ![e] = Null] /\ p = [Awaken(s) EXCEPT ![e] = "start"]
  BY DEF Returned
<1>1. /\ cp \in [Threads -> Structs \cup {Null}] /\ DOMAIN pc = Threads /\ RunsRight(callout, cp, runtime, pc)
      /\ Table(callout, ct_lbhash, ct_freelist, ct_runtime, cp, runtime, pc)
  BY DEF CoInv, Table
<1>2. s \in Live(callout) /\ callout[s].executing /\ callout[s].c_runtime = r /\ callout[s].c_executor = e
  BY <1>0, <1>1 DEF RunsRight
<1>3. e \in Threads /\ Clients \subseteq Threads /\ Executors \subseteq Threads /\ e \notin Clients /\ s # Null
  BY <1>2, ThreadsAssumption DEF Threads, Live
<1>4. \A f \in Executors : pc[f] # "wait" /\ (cp[f] = s <=> f = e)
  <2> TAKE f \in Executors
  <2>1. pc[f] \in ExecutorLabels /\ (cp[f] # Null <=> pc[f] = "func") /\ (pc[f] = "func" => callout[cp[f]].c_executor = f)
    BY <1>1, Zenon DEF RunsRight
  <2> QED  BY <2>1, <1>0, <1>2, <1>3 DEF ExecutorLabels
<1>5. st \in [Threads -> Structs \cup {Null}] /\ DOMAIN p = Threads /\ p[e] = "start"
  BY <1>0, <1>1, <1>3 DEF Awaken
<1>6. Released(s, st, p)
  <2>1. \A f \in Executors : IF cp[f] = s THEN st[f] = Null /\ p[f] = "start" ELSE st[f] = cp[f] /\ p[f] = pc[f]
    BY <1>0, <1>1, <1>3, <1>4 DEF Awaken
  <2>2. \A c \in Clients : st[c] = cp[c] /\ p[c] = IF pc[c] = "wait" /\ cp[c] = s THEN "woken" ELSE pc[c]
    BY <1>0, <1>1, <1>3, <1>4 DEF Awaken
  <2> QED  BY <2>1, <2>2, <1>5 DEF Released
<1>7. Table(co, hash, ct_freelist \cup {s}, ct_runtime, st, runtime, p)
  BY <1>0, <1>1, <1>2, <1>6, FreeTable
<1> QED  BY <1>2, <1>5, <1>7

\* What is still to be executed at ct_runtime follows what has just been: the
\* claim of the comment in callout_execute().
LEMMA NewOnesPrecede ==
  ASSUME CoInv, NEW e \in Executors,
         NEW s, NEW r, NEW co, NEW hash, NEW st, NEW p, Returned(e, s, r, co, hash, st, p), ct_runtime = r,
         NEW k \in 1 .. Len(ChainOf(s)), ChainOf(s)[k] # s,
         co[ChainOf(s)[k]].c_runtime = r, ~co[ChainOf(s)[k]].executing
  PROVE  k \in Rest(co, s, r)
<1>0. /\ pc[e] = "func" /\ s = cp[e] /\ r = runtime[e] /\ co = [callout EXCEPT ![s] = FreeStruct] /\ hash = Unlink(s)
      /\ st = [cp EXCEPT ![e] = Null] /\ p = [Awaken(s) EXCEPT ![e] = "start"]
  BY DEF Returned
<1>1. /\ callout \in Callouts /\ ct_lbhash \in Hashes /\ Chaining(callout, ct_lbhash)
      /\ RunsRight(callout, cp, runtime, pc) /\ WalkRight(callout, ct_lbhash, ct_runtime, cp, runtime, pc)
  BY DEF CoInv, Table
<1>2. s \in Live(callout) /\ callout[s].c_runtime = r
  BY <1>0, <1>1 DEF RunsRight
<1>3. /\ s \in Structs /\ ChainOf(s) \in Seq(Structs)
      /\ Place(s) \in 1 .. Len(ChainOf(s)) /\ ChainOf(s)[Place(s)] = s
  BY <1>1, <1>2, PlaceIs
<1>4. Passed(callout, ChainOf(s), s, r)
  BY <1>0, <1>1, <1>2 DEF WalkRight, ChainOf
<1>5. ChainOf(s)[k] \in Structs
  BY <1>3
<1>6. co[ChainOf(s)[k]] = callout[ChainOf(s)[k]]
  BY <1>0, <1>1, <1>5 DEF Callouts
<1>7. ~(k < Place(s))
  BY <1>3, <1>4, <1>6 DEF Passed
<1>8. k > Place(s)
  BY <1>3, <1>7
<1> QED  BY <1>8 DEF Rest, Due

\* The inner loop of callout_execute() goes on with the next on the chain.
LEMMA MoreTable ==
  ASSUME CoInv, NEW e \in Executors,
         NEW s, NEW r, NEW co, NEW hash, NEW st, NEW p, Returned(e, s, r, co, hash, st, p),
         Rest(co, s, r) # {}, NEW x, x = ChainOf(s)[Min(Rest(co, s, r))],
         NEW co2, NEW st2, NEW rt2, NEW p2, co2 = Marked(co, x, e),
         st2 = [st EXCEPT ![e] = x], rt2 = [runtime EXCEPT ![e] = r], p2 = [p EXCEPT ![e] = "func"]
  PROVE  Table(co2, hash, ct_freelist \cup {s}, ct_runtime, st2, rt2, p2) /\ Goes(co, co2, e)
<1> DEFINE chain == ChainOf(s)
           m == Min(Rest(co, s, r))
<1>0. /\ pc[e] = "func" /\ s = cp[e] /\ r = runtime[e] /\ co = [callout EXCEPT ![s] = FreeStruct] /\ hash = Unlink(s)
      /\ st = [cp EXCEPT ![e] = Null] /\ p = [Awaken(s) EXCEPT ![e] = "start"]
  BY DEF Returned
<1>1. /\ callout \in Callouts /\ ct_lbhash \in Hashes /\ Chaining(callout, ct_lbhash)
      /\ TimesRight(callout, ct_runtime) /\ runtime \in [Executors -> Time] /\ ct_runtime \in Time
      /\ lbolt \in Time /\ ct_curtime \in Time /\ ClockRight(ct_runtime)
  BY DEF CoInv, Table, Types
<1>2. /\ Table(co, hash, ct_freelist \cup {s}, ct_runtime, st, runtime, p) /\ p[e] = "start"
      /\ s \in Live(callout) /\ callout[s].executing /\ callout[s].c_runtime = r
  BY DoneTable
<1>3. /\ s \in Structs /\ chain \in Seq(Structs) /\ chain = ct_lbhash[CALLOUT_LBHASH(r)]
      /\ CALLOUT_LBHASH(r) \in 0 .. Buckets - 1 /\ Place(s) \in 1 .. Len(chain) /\ chain[Place(s)] = s
  <2>1. chain = ct_lbhash[CALLOUT_LBHASH(r)] /\ CALLOUT_LBHASH(callout[s].c_runtime) = CALLOUT_LBHASH(r)
    BY <1>2 DEF ChainOf
  <2> QED  BY <2>1, <1>1, <1>2, PlaceIs
<1>4. co \in Callouts /\ Live(co) = Live(callout) \ {s} /\ \A y \in Structs \ {s} : co[y] = callout[y]
  <2>1. Unlinked(s, co, hash)
    BY <1>1, <1>2, <1>0, UnlinkIs
  <2> QED  BY <2>1 DEF Unlinked
<1>5. SameOrder(ct_lbhash, hash)
  BY <1>1, <1>2, <1>0, UnlinkIs DEF Unlinked
<1> HIDE DEF chain
<1>6. Rest(co, s, r) \in SUBSET Nat
  <2>1. Rest(co, s, r) \subseteq 1 .. Len(chain)
    BY DEF Rest, Due, chain
  <2>2. 1 .. Len(chain) \subseteq Nat
    BY <1>3
  <2> QED  BY <2>1, <2>2
<1>7. m \in Rest(co, s, r) /\ \A y \in Rest(co, s, r) : m <= y
  BY <1>6, MinIs
<1>8. /\ \A i, j \in 1 .. Len(chain) : i # j => chain[i] # chain[j]
      /\ \A i \in 1 .. Len(chain) : chain[i] \in Live(callout)
  BY <1>1, <1>3 DEF Chaining
<1>9. m \in 1 .. Len(chain) /\ m > Place(s) /\ x = chain[m] /\ co[x].c_runtime = r /\ ~co[x].executing
  BY <1>7 DEF Rest, Due, chain
<1> HIDE DEF m
<1>10. x \in Live(callout) /\ x # s /\ x \in Live(co) /\ x \in Structs
  <2>1. m # Place(s) /\ m \in Int
    BY <1>3, <1>9
  <2> QED  BY <2>1, <1>3, <1>4, <1>8, <1>9 DEF Live
<1>11. ct_runtime = r /\ -MaxLag <= Ahead(r) /\ Ahead(r) <= Ahead(ct_curtime)
  <2>1. callout[x].c_runtime = r /\ ~callout[x].executing /\ r \in Time
    BY <1>0, <1>1, <1>4, <1>9, <1>10
  <2>2. Ahead(ct_runtime) <= Ahead(r)
    BY <2>1, <1>1, <1>10 DEF TimesRight
  <2>3. Ahead(r) <= Ahead(ct_runtime) /\ Ahead(r) <= Ahead(ct_curtime)
    BY <1>1, <1>2 DEF TimesRight
  <2>4. Ahead(r) \in Int /\ Ahead(ct_runtime) \in Int
    BY <1>1, <2>1, MinusIs DEF Ahead
  <2>5. Ahead(r) = Ahead(ct_runtime)
    BY <2>2, <2>3, <2>4
  <2>6. ct_runtime = r
    BY <2>5, <2>1, <1>1, MinusMinus DEF Ahead
  <2> QED  BY <2>3, <2>5, <2>6, <1>1 DEF ClockRight
<1>12. Passed(co, hash[CALLOUT_LBHASH(r)], x, r)
  <2> DEFINE b == CALLOUT_LBHASH(r)
  <2> SUFFICES ASSUME NEW i \in 1 .. Len(hash[b]), NEW j \in 1 .. Len(hash[b]), i < j, hash[b][j] = x,
                      co[hash[b][i]].c_runtime = r, ~co[hash[b][i]].executing
      PROVE  FALSE
    BY DEF Passed
  <2>1. hash[b][i] \in Live(co)
    BY <1>2, <1>3 DEF Table, Chaining
  <2>0. b \in 0 .. Buckets - 1 /\ chain = ct_lbhash[b]
    BY <1>3
  <2> HIDE DEF b
  <2>2. \E k, l \in 1 .. Len(ct_lbhash[b]) : k < l /\ hash[b][i] = ct_lbhash[b][k] /\ hash[b][j] = ct_lbhash[b][l]
    BY <2>0, <1>5, Zenon DEF SameOrder
  <2>3. PICK k \in 1 .. Len(chain), l \in 1 .. Len(chain) :
          k < l /\ hash[b][i] = chain[k] /\ hash[b][j] = chain[l]
    BY <2>2, <2>0, Zenon
  <2>4. l = m
    BY <2>3, <1>8, <1>9
  <2>5. chain[k] # s
    BY <2>1, <2>3, <1>4
  <2>6. k \in Rest(co, s, r)
    BY <2>3, <2>5, <1>11, NewOnesPrecede DEF chain
  <2>7. m <= k
    BY <2>6, <1>7
  <2>8. k < m /\ Len(chain) \in Nat
    BY <2>3, <2>4, <1>3
  <2> QED  BY <2>7, <2>8, <1>9
<1>13. Table(co2, hash, ct_freelist \cup {s}, ct_runtime, st2, rt2, p2)
  BY <1>1, <1>2, <1>9, <1>10, <1>11, <1>12, MarkTable
<1> QED  BY <1>9, <1>10, <1>13 DEF Goes

\* The outer loop of callout_execute() goes on past what is done at ct_runtime.
LEMMA PastTable ==
  ASSUME CoInv, NEW e \in Executors,
         NEW s, NEW r, NEW co, NEW hash, NEW st, NEW p, Returned(e, s, r, co, hash, st, p),
         Rest(co, s, r) = {}, NEW from, from = From(r)
  PROVE  Table(co, hash, ct_freelist \cup {s}, from, st, runtime, p) /\ ClockRight(from) /\ p[e] = "start"
<1>0. /\ pc[e] = "func" /\ s = cp[e] /\ r = runtime[e] /\ co = [callout EXCEPT ![s] = FreeStruct] /\ hash = Unlink(s)
      /\ st = [cp EXCEPT ![e] = Null] /\ p = [Awaken(s) EXCEPT ![e] = "start"]
  BY DEF Returned
<1>1. /\ callout \in Callouts /\ ct_lbhash \in Hashes /\ Chaining(callout, ct_lbhash)
      /\ TimesRight(callout, ct_runtime) /\ runtime \in [Executors -> Time] /\ ct_runtime \in Time
      /\ lbolt \in Time /\ ct_curtime \in Time /\ ClockRight(ct_runtime)
  BY DEF CoInv, Table, Types
<1>2. /\ Table(co, hash, ct_freelist \cup {s}, ct_runtime, st, runtime, p) /\ p[e] = "start"
      /\ s \in Live(callout) /\ callout[s].executing /\ callout[s].c_runtime = r
  BY DoneTable
<1>3. CASE ct_runtime # r
  BY <1>1, <1>2, <1>3 DEF From
<1>4. CASE ct_runtime = r
  <2>1. /\ Ahead(r) \in Int /\ Ahead(ct_curtime) \in Int /\ -MaxLag <= Ahead(r) /\ Ahead(r) <= Ahead(ct_curtime)
        /\ Ahead(ct_curtime) <= 0
    <3>1. Ahead(r) <= Ahead(ct_curtime)
      BY <1>1, <1>2 DEF TimesRight
    <3> QED  BY <3>1, <1>1, <1>4, MinusIs DEF ClockRight, Ahead
  <2>2. from \in Time /\ Ahead(from) = Ahead(r) + 1
    BY <2>1, <1>1, <1>4, MinusPlus, HalfIs DEF Ahead, From
  <2>3. ASSUME NEW y \in Live(co), ~co[y].executing
        PROVE  Ahead(from) <= Ahead(co[y].c_runtime)
    <3>1. Ahead(r) <= Ahead(co[y].c_runtime) /\ co[y].c_runtime \in Time /\ y \in Structs
      BY <2>3, <1>2, <1>4 DEF Table, TimesRight, Callouts, Live
    <3>2. Ahead(co[y].c_runtime) \in Int
      BY <3>1, <1>1, MinusIs DEF Ahead
    <3>3. ASSUME Ahead(co[y].c_runtime) = Ahead(r)
          PROVE  FALSE
      <4>1. co[y].c_runtime = r
        BY <3>1, <3>3, <1>1, <1>4, MinusMinus DEF Ahead
      <4>2. Unlinked(s, co, hash)
        BY <1>1, <1>2, <1>0, UnlinkIs
      <4>3. y \in Live(callout) /\ y # s /\ callout[y].c_runtime = r
        BY <4>1, <4>2, <3>1 DEF Unlinked
      <4>4. CALLOUT_LBHASH(r) \in 0 .. Buckets - 1 /\ ChainOf(s) = ct_lbhash[CALLOUT_LBHASH(r)]
        BY <1>1, <1>2, <1>4, BucketIs DEF ChainOf
      <4>5. \E k \in 1 .. Len(ChainOf(s)) : ChainOf(s)[k] = y
        BY <4>3, <4>4, <1>1 DEF Chaining
      <4>6. PICK k \in 1 .. Len(ChainOf(s)) : ChainOf(s)[k] = y
        BY <4>5
      <4>7. k \in Rest(co, s, r)
        BY <4>1, <4>3, <4>6, <2>3, <1>4, NewOnesPrecede
      <4> QED  BY <4>7
    <3> QED  BY <3>1, <3>2, <3>3, <2>1, <2>2
  <2>4. Table(co, hash, ct_freelist \cup {s}, from, st, runtime, p)
    <3>1. Ahead(ct_runtime) <= Ahead(from)
      BY <2>1, <2>2, <1>4
    <3> QED  BY <3>1, <2>2, <2>3, <1>1, <1>2, AdvanceTable
  <2>5. ClockRight(from)
    BY <2>1, <2>2, HalfIs DEF ClockRight
  <2> QED  BY <2>4, <2>5, <1>2
<1> QED  BY <1>3, <1>4

-----------------------------------------------------------------------------
(* The steps                                                               *)

\* The table after a step, which leaves the clock and the arguments alone.
LEMMA NewTable ==
  ASSUME NEW co, NEW hash, NEW free, NEW r, NEW st, NEW rt, NEW p, Table(co, hash, free, r, st, rt, p),
         lbolt' = lbolt, ct_curtime' = ct_curtime, id' = id,
         callout' = co, ct_lbhash' = hash, ct_freelist' = free, ct_runtime' = r, cp' = st, runtime' = rt, pc' = p
  PROVE  Table(callout, ct_lbhash, ct_freelist, ct_runtime, cp, runtime, pc)'
<1>1. IdsRight(co, st, p) => IdsRight(callout, cp, pc)'
  BY DEF IdsRight, Live
<1>2. TimesRight(co, r) => TimesRight(callout, ct_runtime)'
  BY DEF TimesRight, Ahead, Live
<1>3. /\ Chaining(co, hash) => Chaining(callout, ct_lbhash)'
      /\ RunsRight(co, st, rt, p) => RunsRight(callout, cp, runtime, pc)'
      /\ WalkRight(co, hash, r, st, rt, p) => WalkRight(callout, ct_lbhash, ct_runtime, cp, runtime, pc)'
  BY DEF Chaining, RunsRight, WalkRight, Passed, Live
<1> QED  BY <1>1, <1>2, <1>3 DEF Table, Live

\* Task structures when the step takes none and no thread begins or ends.
LEMMA SameTasks ==
  ASSUME TasksRight, UNCHANGED tasks, \A e \in Executors : pc'[e] # "idle" <=> pc[e] # "idle"
  PROVE  TasksRight'
BY DEF TasksRight, Busy, tasks, Realtime, TaskStructs

\* The loop that a thread begins.
LEMMA StepExecuteStart ==
  ASSUME CoInv, NEW e \in Executors, execute_start(e)
  PROVE  CoInv' /\ Goes(callout, callout', e)
<1>1. /\ Types /\ TasksRight /\ ClockRight(ct_runtime) /\ pc \in [Threads -> ExecutorLabels \cup ClientLabels]
      /\ Table(callout, ct_lbhash, ct_freelist, ct_runtime, cp, runtime, pc)
      /\ cp \in [Threads -> Structs \cup {Null}] /\ RunsRight(callout, cp, runtime, pc)
  BY DEF CoInv, Table
<1>2. e \in Threads /\ e \notin Clients /\ cp[e] = Null /\ pc[e] = "start"
  BY <1>1, ThreadsAssumption DEF Threads, RunsRight, execute_start
<1>3. UNCHANGED <<lbolt, clock, cpr_stop_callout, ct_curtime, ct_lbhash, ct_freelist, tq_task, tq_freelist, id, delta>>
  BY DEF execute_start, ticks, tasks
<1>4. Walked(e, callout, ct_lbhash, ct_runtime, cp, runtime, pc, callout', ct_runtime', cp', runtime', pc')
  BY <1>1, <1>2 DEF execute_start, Loop, Call, Marked, Walked
<1>5. /\ Table(callout', ct_lbhash, ct_freelist, ct_runtime', cp', runtime', pc') /\ ClockRight(ct_runtime')
      /\ Goes(callout, callout', e)
      /\ pc' = [pc EXCEPT ![e] = "func"] \/ pc' = [pc EXCEPT ![e] = "end"]
  BY <1>1, <1>2, <1>4, LoopTable
<1>6. Table(callout, ct_lbhash, ct_freelist, ct_runtime, cp, runtime, pc)'
  BY <1>3, <1>5, NewTable
<1>7. ClockRight(ct_runtime)'
  BY <1>3, <1>5 DEF ClockRight, Ahead
<1>8. TasksRight'
  BY <1>1, <1>2, <1>3, <1>5, SameTasks DEF tasks, Threads
<1>9. pc' \in [Threads -> ExecutorLabels \cup ClientLabels]
  BY <1>1, <1>5 DEF ExecutorLabels
<1>10. Types'
  BY <1>1, <1>3 DEF Types, TaskStructs
<1> QED  BY <1>5, <1>6, <1>7, <1>8, <1>9, <1>10 DEF CoInv

\* The step that ends one callout and goes on to the next.
LEMMA StepExecuteReturn ==
  ASSUME CoInv, NEW e \in Executors, execute_return(e)
  PROVE  /\ CoInv' /\ Goes([callout EXCEPT ![cp[e]] = FreeStruct], callout', e)
         /\ cp[e] \in Live(callout) /\ callout[cp[e]].executing
<1> DEFINE s == cp[e]
           r == runtime[e]
           co == [callout EXCEPT ![s] = FreeStruct]
           hash == Unlink(s)
           st == [cp EXCEPT ![e] = Null]
           p == [Awaken(s) EXCEPT ![e] = "start"]
           more == Rest(co, s, r)
           x == ChainOf(s)[Min(more)]
           from == From(r)
<1>1. /\ Types /\ TasksRight /\ ClockRight(ct_runtime) /\ pc \in [Threads -> ExecutorLabels \cup ClientLabels]
      /\ cp \in [Threads -> Structs \cup {Null}] /\ RunsRight(callout, cp, runtime, pc)
  BY DEF CoInv, Table
<1>2. e \in Threads /\ e \notin Clients /\ pc[e] = "func" /\ \A f \in Executors : pc[f] # "wait" /\ f \in Threads
  BY <1>1, ThreadsAssumption DEF Threads, RunsRight, ExecutorLabels, execute_return, Returning
<1>3. UNCHANGED <<lbolt, clock, cpr_stop_callout, ct_curtime, tq_task, tq_freelist, id, delta>>
  BY DEF execute_return, ticks, tasks
<1>4. ct_lbhash' = hash /\ ct_freelist' = ct_freelist \cup {s}
  BY DEF execute_return
<1>5. /\ Table(callout', hash, ct_freelist \cup {s}, ct_runtime', cp', runtime', pc') /\ ClockRight(ct_runtime')
      /\ Goes(co, callout', e)
      /\ pc' = [p EXCEPT ![e] = "func"] \/ pc' = [p EXCEPT ![e] = "end"]
  <2>1. CASE more # {}
    <3>1. /\ callout' = Marked(co, x, e) /\ cp' = [cp EXCEPT ![e] = x] /\ runtime' = [runtime EXCEPT ![e] = r]
          /\ pc' = Awaken(s) /\ ct_runtime' = ct_runtime
      BY <2>1 DEF execute_return, Call, Marked
    <3>2. [p EXCEPT ![e] = "func"] = Awaken(s) /\ [st EXCEPT ![e] = x] = [cp EXCEPT ![e] = x]
      <4>1. Awaken(s)[e] = "func"
        BY <1>2 DEF Awaken
      <4>2. [p EXCEPT ![e] = "func"] = Awaken(s)
        BY <4>1, <1>2 DEF Awaken
      <4> HIDE DEF x
      <4> QED  BY <4>2, <1>1, <1>2
    <3>3. cp' = [st EXCEPT ![e] = x] /\ pc' = [p EXCEPT ![e] = "func"]
      BY <3>1, <3>2
    <3>4. Returned(e, s, r, co, hash, st, p) /\ Rest(co, s, r) # {} /\ x = ChainOf(s)[Min(Rest(co, s, r))]
      BY <2>1, <1>2 DEF Returned
    <3> HIDE DEF s, r, co, hash, st, p, x, more
    <3>5. Table(callout', hash, ct_freelist \cup {s}, ct_runtime, cp', runtime', pc') /\ Goes(co, callout', e)
      <4>1. /\ callout' = Marked(co, x, e) /\ cp' = [st EXCEPT ![e] = x]
            /\ runtime' = [runtime EXCEPT ![e] = r] /\ pc' = [p EXCEPT ![e] = "func"]
        BY <3>1, <3>3
      <4> QED  BY <4>1, <3>4, MoreTable
    <3> QED  BY <3>1, <3>3, <3>5, <1>1
  <2>2. CASE more = {}
    <3>1. Walked(e, co, hash, from, st, runtime, p, callout', ct_runtime', cp', runtime', pc')
      <4>1. Loop(e, co, hash, from, Awaken(s))
        BY <2>2 DEF execute_return, From
      <4> HIDE DEF s, r, co, hash, from
      <4> QED  BY <4>1, <1>1, <1>2 DEF Loop, Call, Marked, Walked
    <3>2. Returned(e, s, r, co, hash, st, p) /\ Rest(co, s, r) = {} /\ from = From(r)
      BY <2>2, <1>2 DEF Returned
    <3> HIDE DEF s, r, co, hash, st, p, from, more
    <3>3. Table(co, hash, ct_freelist \cup {s}, from, st, runtime, p) /\ ClockRight(from) /\ p[e] = "start"
      BY <3>2, <1>2, PastTable
    <3> DEFINE free == ct_freelist \cup {s}
    <3>4. Table(co, hash, free, from, st, runtime, p) /\ ClockRight(from) /\ p[e] = "start" /\ Types
      BY <3>3, <1>1
    <3> HIDE DEF free
    <3>5. /\ Table(callout', hash, free, ct_runtime', cp', runtime', pc') /\ ClockRight(ct_runtime')
          /\ Goes(co, callout', e)
          /\ pc' = [p EXCEPT ![e] = "func"] \/ pc' = [p EXCEPT ![e] = "end"]
      BY <3>1, <3>4, LoopTable
    <3> QED  BY <3>5 DEF free
  <2> QED  BY <2>1, <2>2
<1>6. \A t \in Threads : pc'[t] = IF t = e THEN pc'[e] ELSE IF pc[t] = "wait" /\ cp[t] = s THEN "woken" ELSE pc[t]
  BY <1>5 DEF Awaken
<1>7. DOMAIN pc' = Threads /\ pc'[e] \in {"func", "end"}
  BY <1>2, <1>5 DEF Awaken
<1> HIDE DEF s, r, co, hash, st, p, from, more, x
<1>8. Table(callout, ct_lbhash, ct_freelist, ct_runtime, cp, runtime, pc)'
  BY <1>3, <1>4, <1>5, NewTable
<1>9. ClockRight(ct_runtime)'
  BY <1>3, <1>5 DEF ClockRight, Ahead
<1>10. TasksRight'
  <2>1. \A f \in Executors : pc'[f] # "idle" <=> pc[f] # "idle"
    BY <1>2, <1>6, <1>7
  <2> QED  BY <2>1, <1>1, <1>3, SameTasks DEF tasks
<1>11. pc' \in [Threads -> ExecutorLabels \cup ClientLabels]
  <2>1. \A t \in Threads : pc'[t] \in ExecutorLabels \cup ClientLabels
    BY <1>1, <1>6, <1>7 DEF ExecutorLabels, ClientLabels
  <2>2. \E q, w : pc' = [[t \in Threads |-> q[t]] EXCEPT ![e] = w]
    BY <1>5 DEF p, Awaken
  <2> QED  BY <2>1, <2>2
<1>12. Types'
  BY <1>1, <1>3 DEF Types, TaskStructs
<1>13. cp[e] \in Live(callout) /\ callout[cp[e]].executing
  BY <1>1, <1>2 DEF RunsRight
<1> QED  BY <1>5, <1>8, <1>9, <1>10, <1>11, <1>12, <1>13 DEF CoInv, co, s

\* A thread in untimeout() goes on, with an argument i, at a structure y.
ClientAt(c, co, i, l, y) ==
  /\ i \in Ids \cup {Null} /\ y \in Structs \cup {Null}
  /\ l \in ClientLabels /\ (i = Null <=> l = "idle") /\ (y # Null <=> l \in {"wait", "woken"})
  /\ l \in {"wait", "woken"} => \A s \in Live(co) : co[s].c_xid = i => s = y /\ Elsewhere(co[s], c)
  /\ l = "wait" => co[y].c_xid = i /\ Elsewhere(co[y], c)

LEMMA ClientTable ==
  ASSUME NEW co, NEW hash, NEW free, NEW r, NEW st, NEW rt, NEW p, Table(co, hash, free, r, st, rt, p),
         id \in [Clients -> Ids \cup {Null}], NEW c \in Clients, NEW i, NEW l, NEW y, ClientAt(c, co, i, l, y),
         lbolt' = lbolt, ct_curtime' = ct_curtime, id' = [id EXCEPT ![c] = i],
         callout' = co, ct_lbhash' = hash, ct_freelist' = free, ct_runtime' = r,
         cp' = [st EXCEPT ![c] = y], runtime' = rt, pc' = [p EXCEPT ![c] = l]
  PROVE  Table(callout, ct_lbhash, ct_freelist, ct_runtime, cp, runtime, pc)'
<1>1. /\ st \in [Threads -> Structs \cup {Null}] /\ DOMAIN p = Threads /\ RunsRight(co, st, rt, p)
      /\ WalkRight(co, hash, r, st, rt, p) /\ IdsRight(co, st, p) /\ TimesRight(co, r)
  BY DEF Table
<1>2. c \in Threads /\ c \notin Executors /\ Clients \subseteq Threads /\ Executors \subseteq Threads
  BY ThreadsAssumption DEF Threads
<1>3. /\ cp' \in [Threads -> Structs \cup {Null}] /\ DOMAIN pc' = Threads
      /\ cp'[c] = y /\ pc'[c] = l /\ id'[c] = i
      /\ \A e \in Executors : cp'[e] = st[e] /\ pc'[e] = p[e]
      /\ \A d \in Clients \ {c} : cp'[d] = st[d] /\ pc'[d] = p[d] /\ id'[d] = id[d]
  BY <1>1, <1>2 DEF ClientAt
<1>4. RunsRight(callout, cp, runtime, pc)'
  <2>1. \A s \in Structs : co[s].executing =>
          s \in Live(co) /\ co[s].c_executor \in Executors /\ cp'[co[s].c_executor] = s
    BY <1>1, <1>3 DEF RunsRight
  <2>2. \A e \in Executors :
          /\ pc'[e] \in ExecutorLabels /\ (cp'[e] # Null <=> pc'[e] = "func")
          /\ pc'[e] = "func" =>
               /\ cp'[e] \in Live(co) /\ co[cp'[e]].executing
               /\ co[cp'[e]].c_executor = e /\ co[cp'[e]].c_runtime = rt[e]
    BY <1>1, <1>3 DEF RunsRight
  <2> QED  BY <2>1, <2>2 DEF RunsRight, Live
<1>5. WalkRight(callout, ct_lbhash, ct_runtime, cp, runtime, pc)'
  BY <1>1, <1>3 DEF WalkRight, Passed
<1>6. TimesRight(callout, ct_runtime)'
  BY <1>1 DEF TimesRight, Ahead, Live
<1>7. IdsRight(callout, cp, pc)'
  <2>1. \A a, b \in Live(co) : co[a].c_xid = co[b].c_xid => a = b
    BY <1>1 DEF IdsRight
  <2>2. ASSUME NEW d \in Clients
        PROVE  /\ pc'[d] \in ClientLabels /\ (id'[d] = Null <=> pc'[d] = "idle")
               /\ cp'[d] # Null <=> pc'[d] \in {"wait", "woken"}
               /\ pc'[d] \in {"wait", "woken"} =>
                    \A s \in Live(co) : co[s].c_xid = id'[d] => s = cp'[d] /\ Elsewhere(co[s], d)
               /\ pc'[d] = "wait" => co[cp'[d]].c_xid = id'[d] /\ Elsewhere(co[cp'[d]], d)
    <3>1. CASE d = c
      BY <3>1, <1>3 DEF ClientAt
    <3>2. CASE d # c
      <4>1. cp'[d] = st[d] /\ pc'[d] = p[d] /\ id'[d] = id[d]
        BY <3>2, <1>3
      <4> QED  BY <4>1, <1>1 DEF IdsRight
    <3> QED  BY <3>1, <3>2
  <2> QED  BY <2>1, <2>2 DEF IdsRight, Live
<1>8. Chaining(callout, ct_lbhash)'
  BY DEF Table, Chaining, Live
<1> QED  BY <1>3, <1>4, <1>5, <1>6, <1>7, <1>8 DEF Table, Live

\* The rest of the invariant, when a thread in untimeout() goes on.
LEMMA ClientRest ==
  ASSUME CoInv, NEW c \in Clients, NEW l \in ClientLabels, NEW i \in Ids \cup {Null},
         pc' = [pc EXCEPT ![c] = l], id' = [id EXCEPT ![c] = i],
         UNCHANGED <<ticks, times, tasks, delta>>
  PROVE  Types' /\ TasksRight' /\ ClockRight(ct_runtime)' /\ pc' \in [Threads -> ExecutorLabels \cup ClientLabels]
<1>1. Types /\ TasksRight /\ ClockRight(ct_runtime) /\ pc \in [Threads -> ExecutorLabels \cup ClientLabels]
  BY DEF CoInv
<1>2. UNCHANGED <<lbolt, clock, cpr_stop_callout, ct_curtime, ct_runtime, tq_task, tq_freelist, delta>>
  BY DEF ticks, times, tasks
<1>3. Types'
  BY <1>1, <1>2 DEF Types, TaskStructs
<1>4. TasksRight'
  <2>1. \A e \in Executors : pc'[e] = pc[e]
    BY <1>1, ThreadsAssumption DEF Threads
  <2> QED  BY <2>1, <1>1, SameTasks
<1>5. ClockRight(ct_runtime)'
  BY <1>1, <1>2 DEF ClockRight, Ahead
<1> QED  BY <1>1, <1>3, <1>4, <1>5

\* The steps of untimeout().
LEMMA StepUntimeout ==
  ASSUME CoInv, NEW c \in Clients,
         \/ \E i \in Ids : untimeout(c, i)
         \/ untimeout_pending(c) \/ untimeout_executing(c) \/ untimeout_self(c) \/ untimeout_bogus(c)
         \/ untimeout_woken(c)
  PROVE  CoInv'
<1>1. /\ callout \in Callouts /\ id \in [Clients -> Ids \cup {Null}] /\ DOMAIN pc = Threads
      /\ cp \in [Threads -> Structs \cup {Null}] /\ c \in Threads
      /\ Table(callout, ct_lbhash, ct_freelist, ct_runtime, cp, runtime, pc)
      /\ RunsRight(callout, cp, runtime, pc) /\ IdsRight(callout, cp, pc)
  BY DEF CoInv, Table, Types, Threads
<1>2. /\ \A a, b \in Live(callout) : callout[a].c_xid = callout[b].c_xid => a = b
      /\ pc[c] \in ClientLabels /\ (id[c] = Null <=> pc[c] = "idle")
      /\ cp[c] # Null <=> pc[c] \in {"wait", "woken"}
      /\ pc[c] \in {"wait", "woken"} =>
           \A s \in Live(callout) : callout[s].c_xid = id[c] => s = cp[c] /\ Elsewhere(callout[s], c)
  BY <1>1, Zenon DEF IdsRight
<1>3. Chained = Live(callout) /\ Live(callout) \subseteq Structs
  BY DEF Chained, Live
<1>4. "idle" \in ClientLabels /\ "untimeout" \in ClientLabels /\ "wait" \in ClientLabels
  BY DEF ClientLabels
<1>5. ClientAt(c, callout, Null, "idle", Null)
  BY <1>4 DEF ClientAt
<1>6. ASSUME NEW l \in ClientLabels, NEW i \in Ids \cup {Null}, NEW y, ClientAt(c, callout, i, l, y),
             pc' = [pc EXCEPT ![c] = l], id' = [id EXCEPT ![c] = i], cp' = [cp EXCEPT ![c] = y],
             UNCHANGED <<ticks, times, table, tasks, runtime, delta>>
      PROVE  CoInv'
  <2>1. /\ lbolt' = lbolt /\ ct_curtime' = ct_curtime /\ callout' = callout /\ ct_lbhash' = ct_lbhash
        /\ ct_freelist' = ct_freelist /\ ct_runtime' = ct_runtime /\ runtime' = runtime
    BY <1>6 DEF ticks, times, table
  <2>2. Table(callout, ct_lbhash, ct_freelist, ct_runtime, cp, runtime, pc)'
    BY <2>1, <1>1, <1>6, ClientTable
  <2>3. Types' /\ TasksRight' /\ ClockRight(ct_runtime)' /\ pc' \in [Threads -> ExecutorLabels \cup ClientLabels]
    BY <1>6, ClientRest
  <2> QED  BY <2>2, <2>3 DEF CoInv
<1>7. ASSUME NEW i \in Ids, untimeout(c, i)
      PROVE  CoInv'
  <2>1. cp[c] = Null /\ i # Null
    BY <1>2, <1>7, ThreadsAssumption DEF untimeout, MayCall, Outside
  <2>2. ClientAt(c, callout, i, "untimeout", Null)
    BY <2>1, <1>4 DEF ClientAt
  <2>3. cp' = [cp EXCEPT ![c] = Null]
    BY <2>1, <1>1, <1>7 DEF untimeout
  <2> QED  BY <2>2, <2>3, <1>4, <1>6, <1>7 DEF untimeout
<1>8. CASE untimeout_executing(c)
  <2>1. PICK s \in Chained : callout[s].c_xid = id[c] /\ Elsewhere(callout[s], c) /\ cp' = [cp EXCEPT ![c] = s]
    BY <1>8 DEF untimeout_executing, Elsewhere
  <2>2. s \in Live(callout) /\ s \in Structs /\ s # Null /\ id[c] # Null /\ id[c] \in Ids \cup {Null}
    BY <2>1, <1>1, <1>2, <1>3, <1>8, ThreadsAssumption DEF untimeout_executing
  <2>3. ClientAt(c, callout, id[c], "wait", s)
    BY <2>1, <2>2, <1>2, <1>4 DEF ClientAt
  <2>4. id' = [id EXCEPT ![c] = id[c]]
    BY <1>1, <1>8 DEF untimeout_executing
  <2> QED  BY <2>1, <2>2, <2>3, <2>4, <1>4, <1>6, <1>8 DEF untimeout_executing
<1>9. CASE untimeout_bogus(c) \/ untimeout_self(c)
  BY <1>4, <1>5, <1>6, <1>9 DEF untimeout_bogus, untimeout_self, Return
<1>10. CASE untimeout_woken(c)
  <2>1. CASE callout[cp[c]].c_xid = id[c] /\ callout[cp[c]].executing
    <3>1. pc' = [pc EXCEPT ![c] = "wait"] /\ cp' = cp /\ id' = id /\ pc[c] = "woken"
      BY <2>1, <1>10 DEF untimeout_woken
    <3>2. id[c] # Null /\ id[c] \in Ids \cup {Null} /\ cp[c] \in Structs \cup {Null} /\ cp[c] # Null
      BY <3>1, <1>1, <1>2
    <3>3. ClientAt(c, callout, id[c], "wait", cp[c])
      <4>1. cp[c] \in Live(callout)
        BY <2>1, <3>2 DEF Live
      <4> QED  BY <4>1, <2>1, <3>1, <3>2, <1>2, <1>4 DEF ClientAt
    <3>4. id' = [id EXCEPT ![c] = id[c]] /\ cp' = [cp EXCEPT ![c] = cp[c]]
      BY <3>1, <1>1
    <3> QED  BY <3>1, <3>2, <3>3, <3>4, <1>4, <1>6, <1>10 DEF untimeout_woken
  <2>2. CASE ~(callout[cp[c]].c_xid = id[c] /\ callout[cp[c]].executing)
    BY <2>2, <1>4, <1>5, <1>6, <1>10 DEF untimeout_woken, Return
  <2> QED  BY <2>1, <2>2
<1>11. CASE untimeout_pending(c)
  <2>1. PICK s \in Chained : /\ callout[s].c_xid = id[c] /\ ~callout[s].executing
                             /\ ct_lbhash' = Unlink(s) /\ callout' = [callout EXCEPT ![s] = FreeStruct]
                             /\ ct_freelist' = ct_freelist \cup {s}
    BY <1>11 DEF untimeout_pending
  <2>2. s \in Live(callout) /\ s # Null
    BY <2>1, <1>3, ThreadsAssumption
  <2>3. Released(s, cp, pc)
    <3>1. \A f \in Executors : cp[f] # s
      BY <2>1, <2>2, <1>1 DEF RunsRight
    <3>2. \A d \in Clients : ~(pc[d] = "wait" /\ cp[d] = s)
      BY <2>1, <1>1 DEF IdsRight, Elsewhere
    <3> QED  BY <3>1, <3>2, <1>1 DEF Released
  <2>4. Table(callout', ct_lbhash', ct_freelist', ct_runtime, cp, runtime, pc)
    BY <2>1, <2>2, <2>3, <1>1, FreeTable
  <2>5. ClientAt(c, callout', Null, "idle", Null)
    BY <1>4 DEF ClientAt
  <2>6. /\ pc' = [pc EXCEPT ![c] = "idle"] /\ id' = [id EXCEPT ![c] = Null] /\ cp' = [cp EXCEPT ![c] = Null]
        /\ UNCHANGED <<ticks, times, tasks, delta>> /\ runtime' = runtime
    BY <1>11 DEF untimeout_pending, Return
  <2>7. lbolt' = lbolt /\ ct_curtime' = ct_curtime /\ ct_runtime' = ct_runtime
    BY <2>6 DEF ticks, times
  <2>8. Table(callout, ct_lbhash, ct_freelist, ct_runtime, cp, runtime, pc)'
    BY <2>4, <2>5, <2>6, <2>7, <1>1, ClientTable
  <2>9. Types' /\ TasksRight' /\ ClockRight(ct_runtime)' /\ pc' \in [Threads -> ExecutorLabels \cup ClientLabels]
    BY <2>6, <1>4, ClientRest
  <2> QED  BY <2>8, <2>9 DEF CoInv
<1> QED  BY <1>7, <1>8, <1>9, <1>10, <1>11

\* The clock is not ahead of itself, and a time behind it is as far behind it
\* as the clock is ahead of that time.
LEMMA AheadIs ==
  ASSUME lbolt \in Time
  PROVE  /\ Ahead(lbolt) = 0
         /\ \A x \in Time : Ahead(x) \in Int /\ (-Half < Ahead(x) => Minus(lbolt, x) = -Ahead(x))
<1>1. Ahead(lbolt) = 0
  BY HalfIs, ModIs DEF Ahead, Minus, Time, Half
<1>2. ASSUME NEW x \in Time
      PROVE  Ahead(x) \in Int /\ (-Half < Ahead(x) => Minus(lbolt, x) = -Ahead(x))
  <2>1. Ahead(x) \in Int /\ Ahead(x) < Half /\ -Half <= Ahead(x)
    BY MinusIs DEF Ahead
  <2>2. -Half < Ahead(x) => 0 - Ahead(x) \in -Half .. Half - 1
    BY <2>1, HalfIs
  <2> QED  BY <2>1, <2>2, <1>1, MinusMinus DEF Ahead
<1> QED  BY <1>1, <1>2

\* timeout_common() inserts a structure that is not in use at the head of its
\* chain, with an identifier that is not in use.
LEMMA InsertTable ==
  ASSUME CoInv, NEW s \in Structs, s \notin Live(callout), NEW i \in Ids \ InUse, NEW d \in Deltas,
         NEW r, r = Plus(lbolt, Ticks(d)), NEW free, free \subseteq ct_freelist \ {s},
         NEW co, co = [callout EXCEPT ![s] =
                         [c_xid |-> i, executing |-> FALSE, c_runtime |-> r, c_executor |-> Null]],
         NEW hash, hash = [ct_lbhash EXCEPT ![CALLOUT_LBHASH(r)] = <<s>> \o @]
  PROVE  Table(co, hash, free, ct_runtime, cp, runtime, pc)
<1>1. /\ callout \in Callouts /\ ct_lbhash \in Hashes /\ ct_freelist \subseteq Structs
      /\ ct_freelist \cap Live(callout) = {} /\ ct_runtime \in Time
      /\ cp \in [Threads -> Structs \cup {Null}] /\ runtime \in [Executors -> Time] /\ DOMAIN pc = Threads
      /\ Chaining(callout, ct_lbhash) /\ RunsRight(callout, cp, runtime, pc)
      /\ TimesRight(callout, ct_runtime) /\ WalkRight(callout, ct_lbhash, ct_runtime, cp, runtime, pc)
      /\ IdsRight(callout, cp, pc) /\ lbolt \in Time /\ ct_curtime \in Time /\ ClockRight(ct_runtime)
  BY DEF CoInv, Table, Types
<1>2. r \in Time /\ Ahead(r) \in 1 .. MaxDelta
  <2>1. Ticks(d) \in 1 .. MaxDelta /\ MaxDelta \in Nat /\ Ticks(d) \in Int
    BY TimeAssumption DEF Ticks
  <2>2. Ticks(d) \in -Half .. Half /\ Ahead(lbolt) + Ticks(d) \in -Half .. Half - 1
    BY <2>1, <1>1, HalfIs, AheadIs
  <2>3. r \in Time /\ Ahead(r) = Ahead(lbolt) + Ticks(d)
    BY <2>2, <1>1, MinusPlus DEF Ahead
  <2> QED  BY <2>1, <2>3, <1>1, AheadIs
<1>3. CALLOUT_LBHASH(r) \in 0 .. Buckets - 1
  BY <1>2, BucketIs
<1>4. i \in Ids /\ i # Null /\ (\A x \in Live(callout) : callout[x].c_xid # i) /\ \A c \in Clients : id[c] # i
  BY ThreadsAssumption DEF InUse, Chained, Live
<1>5. /\ co \in Callouts /\ co[s].c_xid = i /\ ~co[s].executing /\ co[s].c_runtime = r
      /\ \A x \in Structs \ {s} : co[x] = callout[x]
  BY <1>1, <1>2, <1>4 DEF Callouts
<1>6. Live(co) = Live(callout) \cup {s}
  BY <1>4, <1>5 DEF Live
<1>7. ~callout[s].executing
  BY <1>1 DEF RunsRight
<1>8. \A x \in Live(callout) : x \in Structs /\ x # s /\ co[x] = callout[x]
  BY <1>5 DEF Live
<1> DEFINE h == CALLOUT_LBHASH(r)
           ch == ct_lbhash[h]
<1>9. /\ hash \in Hashes /\ \A b \in (0 .. Buckets - 1) \ {h} : hash[b] = ct_lbhash[b]
      /\ hash[h] = <<s>> \o ch /\ ch \in Seq(Structs)
  <2>1. ch \in Seq(Structs)
    BY <1>1, <1>3 DEF Hashes
  <2>2. <<s>> \o ch \in Seq(Structs)
    BY <2>1
  <2> QED  BY <2>1, <2>2, <1>1, <1>3 DEF Hashes
<1>10. /\ Len(hash[h]) = Len(ch) + 1 /\ hash[h][1] = s /\ Len(ch) \in Nat
       /\ \A k \in 2 .. Len(ch) + 1 : hash[h][k] = ch[k - 1] /\ k - 1 \in 1 .. Len(ch)
       /\ \A k \in 1 .. Len(ch) : hash[h][k + 1] = ch[k] /\ k + 1 \in 1 .. Len(ch) + 1
  BY <1>9
<1> HIDE DEF h, ch
<1>11. Chaining(co, hash)
  <2> SUFFICES ASSUME NEW b \in 0 .. Buckets - 1
      PROVE  /\ \A k, j \in 1 .. Len(hash[b]) : k # j => hash[b][k] # hash[b][j]
             /\ \A k \in 1 .. Len(hash[b]) :
                  hash[b][k] \in Live(co) /\ CALLOUT_LBHASH(co[hash[b][k]].c_runtime) = b
             /\ \A x \in Live(co) : CALLOUT_LBHASH(co[x].c_runtime) = b =>
                  \E k \in 1 .. Len(hash[b]) : hash[b][k] = x
    BY DEF Chaining
  <2>1. /\ \A k, j \in 1 .. Len(ct_lbhash[b]) : k # j => ct_lbhash[b][k] # ct_lbhash[b][j]
        /\ \A k \in 1 .. Len(ct_lbhash[b]) :
             ct_lbhash[b][k] \in Live(callout) /\ CALLOUT_LBHASH(callout[ct_lbhash[b][k]].c_runtime) = b
        /\ \A x \in Live(callout) : CALLOUT_LBHASH(callout[x].c_runtime) = b =>
             \E k \in 1 .. Len(ct_lbhash[b]) : ct_lbhash[b][k] = x
    BY <1>1 DEF Chaining
  <2>2. CASE b # h
    <3>1. hash[b] = ct_lbhash[b]
      BY <2>2, <1>9
    <3>2. CALLOUT_LBHASH(co[s].c_runtime) # b
      BY <2>2, <1>5 DEF h
    <3>3. \A k \in 1 .. Len(hash[b]) : hash[b][k] \in Live(co) /\ CALLOUT_LBHASH(co[hash[b][k]].c_runtime) = b
      BY <3>1, <2>1, <1>6, <1>8
    <3>4. \A x \in Live(co) : CALLOUT_LBHASH(co[x].c_runtime) = b => x \in Live(callout) /\ co[x] = callout[x]
      BY <3>2, <1>6, <1>8
    <3>5. ASSUME NEW x \in Live(co), CALLOUT_LBHASH(co[x].c_runtime) = b
          PROVE  \E k \in 1 .. Len(hash[b]) : hash[b][k] = x
      <4>1. x \in Live(callout) /\ CALLOUT_LBHASH(callout[x].c_runtime) = b
        BY <3>4, <3>5
      <4>2. \E k \in 1 .. Len(ct_lbhash[b]) : ct_lbhash[b][k] = x
        BY <4>1, <2>1
      <4> QED  BY <4>2, <3>1
    <3>6. \A k, j \in 1 .. Len(hash[b]) : k # j => hash[b][k] # hash[b][j]
      <4>1. \A k, j \in 1 .. Len(ct_lbhash[b]) : k # j => ct_lbhash[b][k] # ct_lbhash[b][j]
        BY <2>1
      <4> QED  BY <4>1, <3>1, Zenon
    <3> QED  BY <3>3, <3>5, <3>6
  <2>3. CASE b = h
    <3>1. ct_lbhash[b] = ch
      BY <2>3 DEF ch
    <3>2. \A k \in 1 .. Len(ch) + 1 : k = 1 \/ (k - 1 \in 1 .. Len(ch) /\ hash[b][k] = ch[k - 1] /\ hash[b][k] # s)
      <4> TAKE k \in 1 .. Len(ch) + 1
      <4>1. k # 1 => k \in 2 .. Len(ch) + 1
        BY <1>10
      <4> QED  BY <4>1, <3>1, <2>1, <2>3, <1>8, <1>10
    <3>3. \A k, j \in 1 .. Len(hash[b]) : k # j => hash[b][k] # hash[b][j]
      <4> TAKE k, j \in 1 .. Len(hash[b])
      <4> HAVE k # j
      <4>1. k \in 1 .. Len(ch) + 1 /\ j \in 1 .. Len(ch) + 1
        BY <2>3, <1>10
      <4>2. CASE k = 1
        BY <4>1, <4>2, <3>2, <2>3, <1>10
      <4>3. CASE j = 1
        BY <4>1, <4>3, <3>2, <2>3, <1>10
      <4>4. CASE k # 1 /\ j # 1
        <5>1. k - 1 # j - 1
          BY <4>1
        <5> QED  BY <5>1, <4>1, <4>4, <3>1, <3>2, <2>1
      <4> QED  BY <4>2, <4>3, <4>4
    <3>4. ASSUME NEW k \in 1 .. Len(hash[b])
          PROVE  hash[b][k] \in Live(co) /\ CALLOUT_LBHASH(co[hash[b][k]].c_runtime) = b
      <4>1. k \in 1 .. Len(ch) + 1
        BY <2>3, <1>10
      <4>2. CASE k = 1
        BY <4>2, <2>3, <1>5, <1>6, <1>10 DEF h
      <4>3. CASE k # 1
        <5>1. k - 1 \in 1 .. Len(ch) /\ hash[b][k] = ch[k - 1]
          BY <4>1, <4>3, <3>2
        <5>2. hash[b][k] \in Live(callout) /\ CALLOUT_LBHASH(callout[hash[b][k]].c_runtime) = b
          BY <5>1, <3>1, <2>1
        <5> QED  BY <5>2, <1>6, <1>8
      <4> QED  BY <4>2, <4>3
    <3>5. ASSUME NEW x \in Live(co), CALLOUT_LBHASH(co[x].c_runtime) = b
          PROVE  \E k \in 1 .. Len(hash[b]) : hash[b][k] = x
      <4>1. CASE x = s
        <5>1. 1 \in 1 .. Len(hash[b]) /\ hash[b][1] = x
          BY <4>1, <2>3, <1>10
        <5> QED  BY <5>1
      <4>2. CASE x # s
        <5>1. PICK k \in 1 .. Len(ch) : ch[k] = x
          BY <4>2, <3>1, <3>5, <2>1, <1>6, <1>8
        <5>2. k + 1 \in 1 .. Len(hash[b]) /\ hash[b][k + 1] = x
          BY <5>1, <2>3, <1>10
        <5> QED  BY <5>2
      <4> QED  BY <4>1, <4>2
    <3> QED  BY <3>3, <3>4, <3>5
  <2> QED  BY <2>2, <2>3
<1>12. RunsRight(co, cp, runtime, pc)
  <2>1. ASSUME NEW e \in Executors
        PROVE  /\ pc[e] \in ExecutorLabels /\ (cp[e] # Null <=> pc[e] = "func")
               /\ pc[e] = "func" => /\ cp[e] \in Live(co) /\ co[cp[e]].executing
                                    /\ co[cp[e]].c_executor = e /\ co[cp[e]].c_runtime = runtime[e]
    <3>1. /\ pc[e] \in ExecutorLabels /\ (cp[e] # Null <=> pc[e] = "func")
          /\ pc[e] = "func" => /\ cp[e] \in Live(callout) /\ callout[cp[e]].executing
                               /\ callout[cp[e]].c_executor = e /\ callout[cp[e]].c_runtime = runtime[e]
      BY <1>1, Zenon DEF RunsRight
    <3> QED  BY <3>1, <1>6, <1>8
  <2>2. ASSUME NEW x \in Structs, co[x].executing
        PROVE  x \in Live(co) /\ co[x].c_executor \in Executors /\ cp[co[x].c_executor] = x
    <3>1. co[x] = callout[x] /\ x # s
      BY <2>2, <1>5
    <3> QED  BY <3>1, <2>2, <1>1, <1>6 DEF RunsRight
  <2> QED  BY <2>1, <2>2 DEF RunsRight
<1>13. /\ Ahead(ct_runtime) \in Int /\ Ahead(ct_curtime) \in Int /\ MaxDelta \in Int /\ Ahead(r) \in Int
       /\ Ahead(ct_curtime) <= 0 /\ Ahead(ct_runtime) <= Ahead(ct_curtime) + 1
  BY <1>1, <1>2, AheadIs, HalfIs DEF ClockRight
<1>14. TimesRight(co, ct_runtime)
  <2> SUFFICES ASSUME NEW x \in Live(co)
      PROVE  IF co[x].executing
             THEN /\ -(MaxLag + 1) <= Ahead(co[x].c_runtime) /\ Ahead(co[x].c_runtime) <= Ahead(ct_curtime)
                  /\ Ahead(co[x].c_runtime) <= Ahead(ct_runtime)
             ELSE Ahead(ct_runtime) <= Ahead(co[x].c_runtime) /\ Ahead(co[x].c_runtime) <= MaxDelta
    BY DEF TimesRight
  <2>1. CASE x = s
    BY <2>1, <1>2, <1>5, <1>13
  <2>2. CASE x # s
    BY <2>2, <1>1, <1>6, <1>8 DEF TimesRight
  <2> QED  BY <2>1, <2>2
<1>15. WalkRight(co, hash, ct_runtime, cp, runtime, pc)
  <2> DEFINE b == CALLOUT_LBHASH(ct_runtime)
  <2> SUFFICES ASSUME NEW e \in Executors, pc[e] = "func", runtime[e] = ct_runtime,
                      NEW k \in 1 .. Len(hash[b]), NEW j \in 1 .. Len(hash[b]),
                      k < j, hash[b][j] = cp[e], co[hash[b][k]].c_runtime = ct_runtime
      PROVE  co[hash[b][k]].executing
    BY DEF WalkRight, Passed
  <2>1. b \in 0 .. Buckets - 1
    BY <1>1, BucketIs
  <2>2. Passed(callout, ct_lbhash[b], cp[e], ct_runtime)
    BY <1>1 DEF WalkRight
  <2>3. cp[e] \in Live(callout) /\ callout[cp[e]].executing /\ callout[cp[e]].c_runtime = ct_runtime
    BY <1>1 DEF RunsRight
  <2>4. Ahead(ct_runtime) <= Ahead(ct_curtime)
    BY <2>3, <1>1 DEF TimesRight
  <2>5. r # ct_runtime
    BY <2>4, <1>2, <1>13
  <2> HIDE DEF b
  <2>6. hash[b][k] \in Live(co) /\ hash[b][k] # s
    BY <2>1, <2>5, <1>5, <1>11 DEF Chaining
  <2>7. hash[b][k] \in Live(callout) /\ co[hash[b][k]] = callout[hash[b][k]]
    BY <2>6, <1>6, <1>8
  <2>8. CASE b # h
    BY <2>8, <2>1, <2>2, <2>7, <1>9 DEF Passed
  <2>9. CASE b = h
    <3>1. k \in 1 .. Len(ch) + 1 /\ j \in 1 .. Len(ch) + 1 /\ k # 1
      BY <2>6, <2>9, <1>10
    <3>2. k \in 2 .. Len(ch) + 1 /\ j \in 2 .. Len(ch) + 1
      BY <3>1, <1>10
    <3>3. /\ hash[b][k] = ch[k - 1] /\ k - 1 \in 1 .. Len(ch)
          /\ hash[b][j] = ch[j - 1] /\ j - 1 \in 1 .. Len(ch) /\ k - 1 < j - 1
      BY <3>2, <2>9, <1>10
    <3>4. ct_lbhash[b] = ch
      BY <2>9 DEF ch
    <3> QED  BY <3>3, <3>4, <2>2, <2>7 DEF Passed
  <2> QED  BY <2>8, <2>9
<1>16. IdsRight(co, cp, pc)
  <2>1. \A x, y \in Live(co) : co[x].c_xid = co[y].c_xid => x = y
    <3>1. \A x, y \in Live(callout) : callout[x].c_xid = callout[y].c_xid => x = y
      BY <1>1 DEF IdsRight
    <3> TAKE x, y \in Live(co)
    <3> HAVE co[x].c_xid = co[y].c_xid
    <3>2. CASE x = s
      BY <3>2, <1>4, <1>5, <1>6, <1>8
    <3>3. CASE y = s
      BY <3>3, <1>4, <1>5, <1>6, <1>8
    <3>4. CASE x # s /\ y # s
      BY <3>4, <3>1, <1>6, <1>8
    <3> QED  BY <3>2, <3>3, <3>4
  <2>2. ASSUME NEW c \in Clients
        PROVE  /\ pc[c] \in ClientLabels /\ (id[c] = Null <=> pc[c] = "idle")
               /\ cp[c] # Null <=> pc[c] \in {"wait", "woken"}
               /\ pc[c] \in {"wait", "woken"} =>
                    \A x \in Live(co) : co[x].c_xid = id[c] => x = cp[c] /\ Elsewhere(co[x], c)
               /\ pc[c] = "wait" => co[cp[c]].c_xid = id[c] /\ Elsewhere(co[cp[c]], c)
    <3>1. /\ pc[c] \in ClientLabels /\ (id[c] = Null <=> pc[c] = "idle")
          /\ cp[c] # Null <=> pc[c] \in {"wait", "woken"}
          /\ pc[c] \in {"wait", "woken"} =>
               \A x \in Live(callout) : callout[x].c_xid = id[c] => x = cp[c] /\ Elsewhere(callout[x], c)
          /\ pc[c] = "wait" => callout[cp[c]].c_xid = id[c] /\ Elsewhere(callout[cp[c]], c)
      BY <1>1, Zenon DEF IdsRight
    <3>2. pc[c] = "wait" => cp[c] \in Structs /\ cp[c] # s
      <4>1. c \in Threads
        BY DEF Threads
      <4> QED  BY <4>1, <3>1, <1>1, <1>7 DEF Elsewhere
    <3>3. ASSUME pc[c] \in {"wait", "woken"}, NEW x \in Live(co), co[x].c_xid = id[c]
          PROVE  x = cp[c] /\ Elsewhere(co[x], c)
      <4>1. x # s
        BY <3>3, <1>4, <1>5
      <4> QED  BY <4>1, <3>1, <3>3, <1>6, <1>8
    <3>4. pc[c] = "wait" => co[cp[c]].c_xid = id[c] /\ Elsewhere(co[cp[c]], c)
      BY <3>1, <3>2, <1>5
    <3> QED  BY <3>1, <3>3, <3>4
  <2> QED  BY <2>1, <2>2 DEF IdsRight
<1> QED  BY <1>1, <1>5, <1>6, <1>9, <1>11, <1>12, <1>14, <1>15, <1>16 DEF Table

\* The steps of timeout().
LEMMA StepTimeout ==
  ASSUME CoInv, NEW t \in Clients,
         callout_alloc(t) \/ \E d \in Deltas : timeout_free(t, d) \/ timeout_alloc(t, d)
  PROVE  CoInv'
<1>1. /\ Types /\ TasksRight /\ ClockRight(ct_runtime) /\ pc \in [Threads -> ExecutorLabels \cup ClientLabels]
      /\ Table(callout, ct_lbhash, ct_freelist, ct_runtime, cp, runtime, pc)
      /\ ct_freelist \subseteq Structs /\ ct_freelist \cap Live(callout) = {}
  BY DEF CoInv, Table
<1>2. UNCHANGED <<lbolt, clock, cpr_stop_callout, ct_curtime, ct_runtime, tq_task, tq_freelist, cp, runtime, id, pc>>
  BY DEF callout_alloc, timeout_free, timeout_alloc, ticks, times, tasks, locals
<1>3. delta' \in [Clients -> Deltas \cup {Null}]
  <2>1. delta \in [Clients -> Deltas \cup {Null}]
    BY <1>1 DEF Types
  <2>2. CASE callout_alloc(t)
    BY <2>1, <2>2 DEF callout_alloc
  <2>3. CASE \E d \in Deltas : timeout_free(t, d) \/ timeout_alloc(t, d)
    BY <2>1, <2>3 DEF timeout_free, timeout_alloc, locals
  <2> QED  BY <2>2, <2>3
<1>4. Types'
  BY <1>1, <1>2, <1>3 DEF Types, TaskStructs
<1>5. TasksRight'
  BY <1>1, <1>2, SameTasks DEF tasks
<1>6. ClockRight(ct_runtime)' /\ pc' \in [Threads -> ExecutorLabels \cup ClientLabels]
  BY <1>1, <1>2 DEF ClockRight, Ahead
<1>7. ASSUME NEW s \in Structs, s \notin Live(callout), NEW d \in Deltas, timeout_insert(s, d),
             ct_freelist' \subseteq ct_freelist \ {s}
      PROVE  Table(callout', ct_lbhash', ct_freelist', ct_runtime, cp, runtime, pc)
  <2> DEFINE r == Plus(lbolt, Ticks(d))
  <2>1. PICK i \in Ids \ InUse :
          /\ callout' = [callout EXCEPT ![s] =
               [c_xid |-> i, executing |-> FALSE, c_runtime |-> r, c_executor |-> Null]]
          /\ ct_lbhash' = [ct_lbhash EXCEPT ![CALLOUT_LBHASH(r)] = <<s>> \o @]
    BY <1>7 DEF timeout_insert
  <2>2. r = Plus(lbolt, Ticks(d))
    OBVIOUS
  <2> HIDE DEF r
  <2> QED  BY <2>1, <2>2, <1>7, InsertTable
<1>8. Table(callout', ct_lbhash', ct_freelist', ct_runtime, cp, runtime, pc)
  <2>1. CASE callout_alloc(t)
    <3>1. delta[t] \in Deltas /\ ct_freelist' = ct_freelist
      BY <2>1, <1>1 DEF callout_alloc, Types
    <3>2. PICK s \in Unallocated : timeout_insert(s, delta[t])
      BY <2>1 DEF callout_alloc
    <3>3. s \in Structs /\ s \notin Live(callout) /\ s \notin ct_freelist
      BY <3>2 DEF Unallocated, Chained, Live
    <3> QED  BY <3>1, <3>2, <3>3, <1>7
  <2>2. ASSUME NEW d \in Deltas, timeout_free(t, d)
        PROVE  Table(callout', ct_lbhash', ct_freelist', ct_runtime, cp, runtime, pc)
    <3>1. PICK s \in ct_freelist : timeout_insert(s, d) /\ ct_freelist' = ct_freelist \ {s}
      BY <2>2 DEF timeout_free
    <3>2. s \in Structs /\ s \notin Live(callout)
      BY <3>1, <1>1
    <3> QED  BY <3>1, <3>2, <1>7
  <2>3. ASSUME NEW d \in Deltas, timeout_alloc(t, d)
        PROVE  Table(callout', ct_lbhash', ct_freelist', ct_runtime, cp, runtime, pc)
    <3>1. callout' = callout /\ ct_lbhash' = ct_lbhash /\ ct_freelist' = ct_freelist
      BY <2>3 DEF timeout_alloc, table
    <3> QED  BY <3>1, <1>1
  <2> QED  BY <2>1, <2>2, <2>3
<1>9. Table(callout, ct_lbhash, ct_freelist, ct_runtime, cp, runtime, pc)'
  BY <1>2, <1>8, NewTable
<1> QED  BY <1>4, <1>5, <1>6, <1>9 DEF CoInv

\* The task structures are enough for every thread, twice.
LEMMA TaskStructsIs ==
  /\ IsFiniteSet(Executors) /\ Cardinality(Executors) \in Nat /\ Cardinality(Executors) > 0
  /\ TaskStructs \in Nat /\ TaskStructs = 2 * Cardinality(Executors)
  /\ IsFiniteSet(Busy) /\ Cardinality(Busy) \in Nat /\ Cardinality(Busy) <= Cardinality(Executors)
<1>1. IsFiniteSet(Executors) /\ Cardinality(Executors) \in Nat /\ Cardinality(Executors) # 0
  BY ThreadsAssumption, FS_CardinalityType, FS_EmptySet
<1>2. Busy \subseteq Executors
  BY DEF Busy
<1>3. IsFiniteSet(Busy) /\ Cardinality(Busy) \in Nat /\ Cardinality(Busy) <= Cardinality(Executors)
  BY <1>1, <1>2, FS_Subset, FS_CardinalityType
<1> QED  BY <1>1, <1>3 DEF TaskStructs

\* A thread takes a task, or is done with it.
LEMMA StepTask ==
  ASSUME CoInv, NEW e \in Executors, callout_execute(e) \/ execute_end(e)
  PROVE  CoInv'
<1>1. /\ Types /\ TasksRight /\ ClockRight(ct_runtime) /\ pc \in [Threads -> ExecutorLabels \cup ClientLabels]
      /\ Table(callout, ct_lbhash, ct_freelist, ct_runtime, cp, runtime, pc)
      /\ runtime \in [Executors -> Time] /\ e \in Threads
  BY DEF CoInv, Table, Threads
<1>2. UNCHANGED <<lbolt, clock, cpr_stop_callout, ct_curtime, ct_runtime, ct_lbhash, ct_freelist, callout, cp, runtime, id, delta>>
  BY DEF callout_execute, execute_end, ticks, times, table, locals
<1>3. \E l \in {"start", "idle"} : pc' = [pc EXCEPT ![e] = l] /\ pc[e] # "func"
  BY DEF callout_execute, execute_end
<1>4. PICK l \in {"start", "idle"} : pc' = [pc EXCEPT ![e] = l] /\ pc[e] # "func"
  BY <1>3
<1>5. Table(callout, ct_lbhash, ct_freelist, ct_runtime, cp, runtime, pc)'
  <2>1. l \in ExecutorLabels /\ l # "func" /\ runtime[e] \in Time /\ [runtime EXCEPT ![e] = runtime[e]] = runtime
    BY <1>1 DEF ExecutorLabels
  <2>2. Table(callout, ct_lbhash, ct_freelist, ct_runtime, cp, [runtime EXCEPT ![e] = runtime[e]], [pc EXCEPT ![e] = l])
    BY <2>1, <1>1, <1>4, LabelTable
  <2>3. Table(callout, ct_lbhash, ct_freelist, ct_runtime, cp, runtime, pc')
    BY <2>1, <2>2, <1>4
  <2> QED  BY <2>3, <1>2, NewTable
<1>6. ClockRight(ct_runtime)' /\ pc' \in [Threads -> ExecutorLabels \cup ClientLabels]
  BY <1>1, <1>2, <1>4 DEF ClockRight, Ahead, ExecutorLabels
<1>7. \A f \in Executors \ {e} : pc'[f] = pc[f]
  BY <1>1, <1>4 DEF Threads
<1>8. TasksRight' /\ tq_task' \in 0 .. TaskStructs /\ tq_freelist' \in 0 .. TaskStructs \cup {Null}
  <2>1. tq_task \in 0 .. TaskStructs /\ tq_freelist \in 0 .. TaskStructs \cup {Null} /\ Null \notin Int
    BY <1>1, ThreadsAssumption DEF Types
  <2>2. CASE callout_execute(e)
    <3>1. Busy' = Busy \cup {e} /\ e \notin Busy
      BY <2>2, <1>1, <1>7 DEF Busy, callout_execute
    <3>2. Cardinality(Busy') = Cardinality(Busy) + 1
      BY <3>1, FS_AddElement, TaskStructsIs
    <3>3. tq_freelist' = tq_freelist /\ tq_task' = tq_task - 1 /\ tq_task > 0
      BY <2>2 DEF callout_execute
    <3>4. CASE Realtime
      BY <3>3, <3>4, <2>1, <1>1, TaskStructsIs DEF TasksRight, Realtime
    <3>5. CASE ~Realtime
      BY <3>2, <3>3, <3>5, <2>1, <1>1, TaskStructsIs DEF TasksRight, Realtime, TaskStructs
    <3> QED  BY <3>4, <3>5
  <2>3. CASE execute_end(e)
    <3>1. Busy' = Busy \ {e} /\ e \in Busy
      BY <2>3, <1>1, <1>7 DEF Busy, execute_end
    <3>2. Cardinality(Busy') = Cardinality(Busy) - 1
      BY <3>1, FS_RemoveElement, TaskStructsIs
    <3>3. tq_task' = tq_task /\ tq_freelist' = IF Realtime THEN tq_freelist ELSE tq_freelist + 1
      BY <2>3 DEF execute_end
    <3>4. CASE Realtime
      BY <3>3, <3>4, <2>1, <1>1, TaskStructsIs DEF TasksRight, Realtime
    <3>5. CASE ~Realtime
      <4>1. Cardinality(Busy) > 0
        BY <3>1, TaskStructsIs, FS_EmptySet
      <4> QED  BY <4>1, <3>2, <3>3, <3>5, <2>1, <1>1, TaskStructsIs DEF TasksRight, Realtime, TaskStructs
    <3> QED  BY <3>4, <3>5
  <2> QED  BY <2>2, <2>3
<1>9. Types'
  BY <1>1, <1>2, <1>8 DEF Types, TaskStructs
<1> QED  BY <1>5, <1>6, <1>8, <1>9 DEF CoInv

\* The clock ticks, unless something is late.
LEMMA StepTick ==
  ASSUME CoInv, clock_tick
  PROVE  CoInv'
<1>1. /\ Types /\ TasksRight /\ ClockRight(ct_runtime) /\ pc \in [Threads -> ExecutorLabels \cup ClientLabels]
      /\ Table(callout, ct_lbhash, ct_freelist, ct_runtime, cp, runtime, pc)
      /\ TimesRight(callout, ct_runtime) /\ IdsRight(callout, cp, pc) /\ callout \in Callouts
      /\ lbolt \in Time /\ ct_curtime \in Time /\ ct_runtime \in Time
  BY DEF CoInv, Table, Types
<1>2. /\ UNCHANGED <<cpr_stop_callout, ct_curtime, ct_runtime, ct_lbhash, ct_freelist, callout,
                     tq_task, tq_freelist, cp, runtime, id, delta, pc>>
      /\ lbolt' = IF Late THEN lbolt ELSE Plus(lbolt, 1)
      /\ clock' = "schedule"
  BY DEF clock_tick, times, table, tasks, locals
<1>3. TasksRight'
  BY <1>1, <1>2, SameTasks DEF tasks
<1>4. CASE lbolt' = lbolt
  <2>1. Table(callout, ct_lbhash, ct_freelist, ct_runtime, cp, runtime, pc)'
    BY <1>1, <1>2, <1>4, NewTable
  <2>2. Types' /\ ClockRight(ct_runtime)'
    BY <1>1, <1>2, <1>4 DEF Types, TaskStructs, ClockRight, Ahead
  <2> QED  BY <2>1, <2>2, <1>1, <1>2, <1>3 DEF CoInv
<1>5. CASE ~Late /\ lbolt' = Plus(lbolt, 1)
  <2>1. \A x \in Time : Ahead(x) \in Int /\ (-Half < Ahead(x) => Minus(lbolt, x) = -Ahead(x))
    BY <1>1, AheadIs
  <2>2. \A x \in Time : Ahead(x) > -Half => lbolt' \in Time /\ Minus(x, lbolt') = Ahead(x) - 1
    BY <1>1, <1>5, MinusTick DEF Ahead
  <2>3. /\ Ahead(ct_curtime) <= 0 /\ -MaxLag <= Ahead(ct_runtime) /\ Ahead(ct_runtime) <= Ahead(ct_curtime) + 1
        /\ MaxLag \in Nat /\ MaxDelta \in Nat /\ MaxLag + 1 < Half /\ Half \in Nat
    BY <1>1, HalfIs DEF ClockRight
  <2>4. /\ -MaxLag < Ahead(ct_runtime) /\ Ahead(ct_runtime) \in Int /\ Ahead(ct_curtime) \in Int
        /\ Ahead(ct_runtime) > -Half /\ Ahead(ct_curtime) > -Half
    <3>1. ~(Minus(lbolt, ct_runtime) >= MaxLag)
      BY <1>5 DEF Late
    <3>2. Ahead(ct_runtime) \in Int /\ Ahead(ct_curtime) \in Int
      BY <1>1, <2>1
    <3>3. Ahead(ct_runtime) > -Half
      BY <3>2, <2>3
    <3>4. Minus(lbolt, ct_runtime) = -Ahead(ct_runtime)
      BY <3>3, <1>1, <2>1
    <3> QED  BY <3>1, <3>2, <3>3, <3>4, <2>3
  <2>5. lbolt' \in Time /\ Minus(ct_runtime, lbolt') = Ahead(ct_runtime) - 1 /\ Minus(ct_curtime, lbolt') = Ahead(ct_curtime) - 1
    BY <2>2, <2>4, <1>1
  <2>6. ClockRight(ct_runtime)'
    BY <2>3, <2>4, <2>5, <1>2 DEF ClockRight, Ahead
  <2>7. TimesRight(callout, ct_runtime)'
    <3> SUFFICES ASSUME NEW s \in Live(callout)
        PROVE  IF callout[s].executing
               THEN /\ -(MaxLag + 1) <= Minus(callout[s].c_runtime, lbolt')
                    /\ Minus(callout[s].c_runtime, lbolt') <= Minus(ct_curtime, lbolt')
                    /\ Minus(callout[s].c_runtime, lbolt') <= Minus(ct_runtime, lbolt')
               ELSE /\ Minus(ct_runtime, lbolt') <= Minus(callout[s].c_runtime, lbolt')
                    /\ Minus(callout[s].c_runtime, lbolt') <= MaxDelta
      BY <1>2 DEF TimesRight, Ahead, Live
    <3>1. callout[s].c_runtime \in Time /\ Ahead(callout[s].c_runtime) \in Int
      BY <1>1, <2>1 DEF Callouts, Live
    <3>2. CASE callout[s].executing
      <4>1. /\ -(MaxLag + 1) <= Ahead(callout[s].c_runtime) /\ Ahead(callout[s].c_runtime) <= Ahead(ct_curtime)
            /\ Ahead(callout[s].c_runtime) <= Ahead(ct_runtime)
        BY <3>2, <1>1 DEF TimesRight
      <4>2. ~(Minus(lbolt, callout[s].c_runtime) > MaxLag)
        BY <3>2, <1>5 DEF Late, Chained, Live
      <4>3. Ahead(callout[s].c_runtime) > -Half
        BY <4>1, <3>1, <2>3
      <4>4. -MaxLag <= Ahead(callout[s].c_runtime)
        BY <4>2, <4>3, <3>1, <2>1, <2>3
      <4> QED  BY <4>1, <4>3, <4>4, <3>1, <3>2, <2>2, <2>3, <2>4, <2>5
    <3>3. CASE ~callout[s].executing
      <4>1. Ahead(ct_runtime) <= Ahead(callout[s].c_runtime) /\ Ahead(callout[s].c_runtime) <= MaxDelta
        BY <3>3, <1>1 DEF TimesRight
      <4> QED  BY <4>1, <3>1, <3>3, <2>2, <2>3, <2>4, <2>5
    <3> QED  BY <3>2, <3>3
  <2>8. IdsRight(callout, cp, pc)'
    BY <1>1, <1>2 DEF IdsRight, Live
  <2>9. Table(callout, ct_lbhash, ct_freelist, ct_runtime, cp, runtime, pc)'
    <3>1. Chaining(callout, ct_lbhash)' /\ RunsRight(callout, cp, runtime, pc)'
      BY <1>1, <1>2 DEF Table, Chaining, RunsRight, Live
    <3>2. WalkRight(callout, ct_lbhash, ct_runtime, cp, runtime, pc)'
      BY <1>1, <1>2 DEF Table, WalkRight, Passed
    <3> QED  BY <3>1, <3>2, <2>7, <2>8, <1>1, <1>2 DEF Table, Live
  <2>10. Types'
    BY <2>5, <1>1, <1>2 DEF Types, TaskStructs
  <2> QED  BY <2>6, <2>9, <2>10, <1>1, <1>2, <1>3 DEF CoInv
<1> QED  BY <1>2, <1>4, <1>5

\* callout_schedule_1() moves ct_curtime to the clock, and ct_runtime on to the
\* first time that has something to execute.
LEMMA StepSchedule ==
  ASSUME CoInv, callout_schedule
  PROVE  CoInv'
<1>1. /\ Types /\ TasksRight /\ ClockRight(ct_runtime) /\ pc \in [Threads -> ExecutorLabels \cup ClientLabels]
      /\ Table(callout, ct_lbhash, ct_freelist, ct_runtime, cp, runtime, pc)
      /\ lbolt \in Time /\ ct_curtime \in Time /\ ct_runtime \in Time /\ callout \in Callouts
  BY DEF CoInv, Table, Types
<1>2. UNCHANGED <<lbolt, cpr_stop_callout, ct_lbhash, ct_freelist, callout,
                  tq_task, tq_freelist, cp, runtime, id, delta, pc>>
  BY DEF callout_schedule, table, tasks, locals
<1>3. clock' \in {"tick", "schedule", "dispatch"}
  BY DEF callout_schedule
<1>4. TasksRight'
  BY <1>1, <1>2, SameTasks DEF tasks
<1>5. CASE cpr_stop_callout
  <2>1. ct_curtime' = ct_curtime /\ ct_runtime' = ct_runtime
    BY <1>5 DEF callout_schedule, times
  <2>2. Table(callout, ct_lbhash, ct_freelist, ct_runtime, cp, runtime, pc)'
    BY <2>1, <1>1, <1>2, NewTable
  <2>3. Types' /\ ClockRight(ct_runtime)'
    BY <2>1, <1>1, <1>2, <1>3 DEF Types, TaskStructs, ClockRight, Ahead
  <2> QED  BY <2>2, <2>3, <1>1, <1>2, <1>4 DEF CoInv
<1>6. CASE ~cpr_stop_callout
  <2> DEFINE r == FirstDue(callout, ct_lbhash, ct_runtime, lbolt)
  <2>1. ct_curtime' = lbolt /\ ct_runtime' = r /\ r = FirstDue(callout, ct_lbhash, ct_runtime, lbolt)
    BY <1>6 DEF callout_schedule
  <2> HIDE DEF r
  <2>2. /\ Ahead(lbolt) = 0 /\ Ahead(ct_curtime) <= 0 /\ Ahead(ct_curtime) \in Int /\ Ahead(ct_runtime) \in Int
        /\ -MaxLag <= Ahead(ct_runtime) /\ Ahead(ct_runtime) <= Ahead(lbolt) + 1 /\ Ahead(lbolt) <= 0
    BY <1>1, AheadIs DEF ClockRight
  <2>3. /\ Table(callout, ct_lbhash, ct_freelist, r, cp, runtime, pc) /\ r \in Time
        /\ -MaxLag <= Ahead(r) /\ Ahead(r) <= Ahead(lbolt) + 1
    BY <2>1, <2>2, <1>1, WalkTable
  <2>4. ClockRight(ct_runtime)'
    BY <2>1, <2>2, <2>3, <1>2 DEF ClockRight, Ahead
  <2>5. TimesRight(callout, ct_runtime)'
    <3>1. TimesRight(callout, r)
      BY <2>3 DEF Table
    <3>2. \A s \in Live(callout) : callout[s].c_runtime \in Time /\ Ahead(callout[s].c_runtime) \in Int
      BY <1>1, AheadIs DEF Live, Callouts
    <3>3. \A s \in Live(callout) :
            IF callout[s].executing
            THEN /\ -(MaxLag + 1) <= Ahead(callout[s].c_runtime) /\ Ahead(callout[s].c_runtime) <= Ahead(lbolt)
                 /\ Ahead(callout[s].c_runtime) <= Ahead(r)
            ELSE Ahead(r) <= Ahead(callout[s].c_runtime) /\ Ahead(callout[s].c_runtime) <= MaxDelta
      BY <3>1, <3>2, <2>2 DEF TimesRight
    <3> QED  BY <3>3, <2>1, <1>2 DEF TimesRight, Ahead, Live
  <2>6. Table(callout, ct_lbhash, ct_freelist, ct_runtime, cp, runtime, pc)'
    <3>1. Chaining(callout, ct_lbhash)' /\ RunsRight(callout, cp, runtime, pc)' /\ IdsRight(callout, cp, pc)'
      BY <2>3, <1>2 DEF Table, Chaining, RunsRight, IdsRight, Live
    <3>2. WalkRight(callout, ct_lbhash, ct_runtime, cp, runtime, pc)'
      BY <2>1, <2>3, <1>2 DEF Table, WalkRight, Passed
    <3> QED  BY <3>1, <3>2, <2>1, <2>3, <2>5, <1>2 DEF Table, Live
  <2>7. Types'
    BY <2>1, <1>1, <1>2, <1>3 DEF Types, TaskStructs
  <2> QED  BY <2>4, <2>6, <2>7, <1>1, <1>2, <1>4 DEF CoInv
<1> QED  BY <1>5, <1>6

\* The clock dispatches an execution, or cannot; a checkpoint comes or goes.
LEMMA StepOther ==
  ASSUME CoInv, schedule_dispatch \/ (\E stop \in BOOLEAN : callout_cpr_callb(stop)) \/ UNCHANGED vars
  PROVE  CoInv'
<1>1. /\ Types /\ TasksRight /\ ClockRight(ct_runtime) /\ pc \in [Threads -> ExecutorLabels \cup ClientLabels]
      /\ Table(callout, ct_lbhash, ct_freelist, ct_runtime, cp, runtime, pc)
  BY DEF CoInv
<1>2. UNCHANGED <<lbolt, ct_curtime, ct_runtime, ct_lbhash, ct_freelist, callout, cp, runtime, id, delta, pc>>
  BY DEF schedule_dispatch, callout_cpr_callb, vars, ticks, times, table, locals
<1>3. Table(callout, ct_lbhash, ct_freelist, ct_runtime, cp, runtime, pc)'
  BY <1>1, <1>2, NewTable
<1>4. ClockRight(ct_runtime)' /\ pc' \in [Threads -> ExecutorLabels \cup ClientLabels]
  BY <1>1, <1>2 DEF ClockRight, Ahead
<1>5. /\ TasksRight' /\ tq_task' \in 0 .. TaskStructs /\ tq_freelist' \in 0 .. TaskStructs \cup {Null}
      /\ clock' \in {"tick", "schedule", "dispatch"} /\ cpr_stop_callout' \in BOOLEAN
  <2>1. /\ tq_task \in 0 .. TaskStructs /\ tq_freelist \in 0 .. TaskStructs \cup {Null} /\ Null \notin Int
        /\ clock \in {"tick", "schedule", "dispatch"} /\ cpr_stop_callout \in BOOLEAN
    BY <1>1, ThreadsAssumption DEF Types
  <2>2. CASE schedule_dispatch
    <3>1. Busy' = Busy /\ Cardinality(Busy) \in Nat
      BY <1>2, TaskStructsIs DEF Busy
    <3>2. clock' = "tick" /\ cpr_stop_callout' = cpr_stop_callout
      BY <2>2 DEF schedule_dispatch
    <3>3. CASE Realtime
      <4>1. tq_task' = 1 /\ tq_freelist' = tq_freelist
        BY <2>2, <3>3 DEF schedule_dispatch
      <4> QED  BY <4>1, <3>2, <3>3, <2>1, TaskStructsIs DEF TasksRight, Realtime
    <3>4. CASE ~Realtime /\ tq_freelist > 0
      <4>1. tq_task' = tq_task + 1 /\ tq_freelist' = tq_freelist - 1
        BY <2>2, <3>4 DEF schedule_dispatch
      <4> QED  BY <4>1, <3>1, <3>2, <3>4, <2>1, <1>1, TaskStructsIs DEF TasksRight, Realtime, TaskStructs
    <3>5. CASE ~Realtime /\ ~(tq_freelist > 0)
      <4>1. tq_task' = tq_task /\ tq_freelist' = tq_freelist
        BY <2>2, <3>5 DEF schedule_dispatch, tasks
      <4> QED  BY <4>1, <3>1, <3>2, <3>5, <2>1, <1>1, TaskStructsIs DEF TasksRight, Realtime, TaskStructs
    <3> QED  BY <3>3, <3>4, <3>5
  <2>3. CASE (\E stop \in BOOLEAN : callout_cpr_callb(stop)) \/ UNCHANGED vars
    <3>1. UNCHANGED tasks /\ clock' = clock /\ cpr_stop_callout' \in BOOLEAN
      BY <2>1, <2>3 DEF callout_cpr_callb, vars, ticks
    <3>2. TasksRight'
      BY <3>1, <1>1, <1>2, SameTasks
    <3> QED  BY <3>1, <3>2, <2>1 DEF tasks
  <2> QED  BY <2>2, <2>3
<1>6. Types'
  BY <1>1, <1>2, <1>5 DEF Types, TaskStructs
<1> QED  BY <1>3, <1>4, <1>5, <1>6 DEF CoInv

-----------------------------------------------------------------------------
(* The theorems                                                            *)

LEMMA InitInvariant == Init => CoInv
<1> SUFFICES ASSUME Init
    PROVE  CoInv
  OBVIOUS
<1>1. lbolt \in Time /\ ct_curtime = lbolt /\ ct_runtime = lbolt
  BY HalfIs DEF Init, Time
<1>2. Ahead(lbolt) = 0
  BY <1>1, AheadIs
<1>3. ClockRight(ct_runtime)
  BY <1>1, <1>2, HalfIs DEF ClockRight
<1>4. Live(callout) = {} /\ \A s \in Structs : ~callout[s].executing
  BY DEF Init, Live, FreeStruct
<1>5. callout \in Callouts
  BY HalfIs DEF Init, Callouts, FreeStruct, Time
<1>6. ct_lbhash \in Hashes /\ \A b \in 0 .. Buckets - 1 : ct_lbhash[b] = <<>>
  BY DEF Init, Hashes
<1>7. Chaining(callout, ct_lbhash)
  BY <1>4, <1>6 DEF Chaining
<1>8. \A t \in Threads : pc[t] = "idle" /\ cp[t] = Null
  BY DEF Init
<1>9. RunsRight(callout, cp, runtime, pc) /\ IdsRight(callout, cp, pc)
  BY <1>4, <1>8 DEF RunsRight, IdsRight, Threads, ExecutorLabels, ClientLabels, Init
<1>10. TimesRight(callout, ct_runtime)
  BY <1>4 DEF TimesRight
<1>11. WalkRight(callout, ct_lbhash, ct_runtime, cp, runtime, pc)
  BY <1>8 DEF WalkRight, Threads
<1>12. Table(callout, ct_lbhash, ct_freelist, ct_runtime, cp, runtime, pc)
  BY <1>1, <1>5, <1>6, <1>7, <1>9, <1>10, <1>11, HalfIs DEF Table, Init, Time
<1>13. Types
  <2>1. tq_task \in 0 .. TaskStructs /\ tq_freelist \in 0 .. TaskStructs \cup {Null}
    BY TaskStructsIs DEF Init
  <2>2. id \in [Clients -> Ids \cup {Null}] /\ delta \in [Clients -> Deltas \cup {Null}]
    BY DEF Init
  <2>3. clock \in {"tick", "schedule", "dispatch"} /\ cpr_stop_callout \in BOOLEAN
    BY DEF Init
  <2> QED  BY <2>1, <2>2, <2>3, <1>1 DEF Types
<1>14. TasksRight
  <2>1. Busy = {}
    BY <1>8 DEF Busy, Threads
  <2>2. Cardinality(Busy) = 0
    BY <2>1, FS_EmptySet
  <2> QED  BY <2>2, TaskStructsIs DEF TasksRight, Init, Realtime, TaskStructs
<1>15. pc \in [Threads -> ExecutorLabels \cup ClientLabels]
  BY DEF Init, ExecutorLabels
<1> QED  BY <1>3, <1>12, <1>13, <1>14, <1>15 DEF CoInv

LEMMA NextInvariant == CoInv /\ [Next]_vars => CoInv'
<1> SUFFICES ASSUME CoInv, [Next]_vars
    PROVE  CoInv'
  OBVIOUS
<1>1. ASSUME NEW c \in Clients, Use(c) \/ Progress(c)
      PROVE  CoInv'
  <2>1. CASE callout_alloc(c) \/ \E d \in Deltas : timeout_free(c, d) \/ timeout_alloc(c, d)
    BY <2>1, StepTimeout
  <2>2. CASE \/ \E i \in Ids : untimeout(c, i)
             \/ untimeout_pending(c) \/ untimeout_executing(c) \/ untimeout_self(c) \/ untimeout_bogus(c)
             \/ untimeout_woken(c)
    BY <2>2, StepUntimeout
  <2> QED  BY <2>1, <2>2, <1>1 DEF Use, Progress
<1>2. ASSUME NEW e \in Executors, Execute(e)
      PROVE  CoInv'
  <2>1. CASE callout_execute(e) \/ execute_end(e)
    BY <2>1, StepTask
  <2>2. CASE execute_start(e)
    BY <2>2, StepExecuteStart
  <2>3. CASE execute_return(e)
    BY <2>3, StepExecuteReturn
  <2> QED  BY <2>1, <2>2, <2>3, <1>2 DEF Execute
<1>3. CASE clock_tick
  BY <1>3, StepTick
<1>4. CASE callout_schedule
  BY <1>4, StepSchedule
<1>5. CASE schedule_dispatch \/ (\E stop \in BOOLEAN : callout_cpr_callb(stop)) \/ UNCHANGED vars
  BY <1>5, StepOther
<1> QED  BY <1>1, <1>2, <1>3, <1>4, <1>5 DEF Next, Clock

\* The invariant is one of the specification.
THEOREM CalloutInvariant == Spec => []CoInv
BY InitInvariant, NextInvariant, PTL DEF Spec

\* The table is consistent whenever ct_lock is free: the chains hold what is in
\* use and nothing else, nothing runs early or twice, nobody sleeps in
\* untimeout() for a callout that has finished.
THEOREM TableConsistent == Spec => []Inv
<1>1. CoInv => Inv
  <2> SUFFICES ASSUME CoInv
      PROVE  Inv
    OBVIOUS
  <2>1. /\ Types /\ ClockRight(ct_runtime) /\ pc \in [Threads -> ExecutorLabels \cup ClientLabels]
        /\ callout \in Callouts /\ ct_lbhash \in Hashes /\ ct_freelist \subseteq Structs
        /\ ct_freelist \cap Live(callout) = {} /\ ct_runtime \in Time
        /\ cp \in [Threads -> Structs \cup {Null}] /\ runtime \in [Executors -> Time]
        /\ Chaining(callout, ct_lbhash) /\ RunsRight(callout, cp, runtime, pc)
        /\ TimesRight(callout, ct_runtime) /\ IdsRight(callout, cp, pc)
    BY DEF CoInv, Table
  <2>2. Chained = Live(callout)
    BY DEF Chained, Live
  <2>3. TypeOK
    BY <2>1 DEF TypeOK, Types, Callouts, Hashes, ExecutorLabels, ClientLabels
  <2>4. ChainsExact
    <3> SUFFICES ASSUME NEW b \in 0 .. Buckets - 1
        PROVE  /\ \A i, j \in 1 .. Len(ct_lbhash[b]) : i # j => ct_lbhash[b][i] # ct_lbhash[b][j]
               /\ {ct_lbhash[b][i] : i \in 1 .. Len(ct_lbhash[b])} =
                  {s \in Chained : CALLOUT_LBHASH(callout[s].c_runtime) = b}
      BY <2>1, <2>2 DEF ChainsExact
    <3>1. /\ \A i, j \in 1 .. Len(ct_lbhash[b]) : i # j => ct_lbhash[b][i] # ct_lbhash[b][j]
          /\ \A i \in 1 .. Len(ct_lbhash[b]) :
               ct_lbhash[b][i] \in Live(callout) /\ CALLOUT_LBHASH(callout[ct_lbhash[b][i]].c_runtime) = b
          /\ \A s \in Live(callout) : CALLOUT_LBHASH(callout[s].c_runtime) = b =>
               \E i \in 1 .. Len(ct_lbhash[b]) : ct_lbhash[b][i] = s
      BY <2>1 DEF Chaining
    <3>2. \A s : s \in {ct_lbhash[b][i] : i \in 1 .. Len(ct_lbhash[b])} <=>
                 s \in {x \in Chained : CALLOUT_LBHASH(callout[x].c_runtime) = b}
      BY <3>1, <2>2
    <3> QED  BY <3>1, <3>2
  <2>5. NeverEarly
    <3> SUFFICES ASSUME NEW s \in Live(callout), callout[s].executing
        PROVE  /\ Minus(callout[s].c_runtime, lbolt) <= 0
               /\ {e \in Executors : cp[e] = s} = {callout[s].c_executor}
      BY <2>2 DEF NeverEarly
    <3>1. s \in Structs /\ s # Null /\ callout[s].c_runtime \in Time /\ lbolt \in Time /\ ct_curtime \in Time
      BY <2>1, ThreadsAssumption DEF Live, Callouts, Types
    <3>2. Ahead(callout[s].c_runtime) <= Ahead(ct_curtime) /\ Ahead(ct_curtime) <= 0
      BY <2>1 DEF TimesRight, ClockRight
    <3>3. Ahead(callout[s].c_runtime) \in Int /\ Ahead(ct_curtime) \in Int
      BY <3>1, AheadIs
    <3>4. Minus(callout[s].c_runtime, lbolt) <= 0
      BY <3>2, <3>3 DEF Ahead
    <3>5. callout[s].c_executor \in Executors /\ cp[callout[s].c_executor] = s
      BY <3>1, <2>1 DEF RunsRight
    <3>6. \A e \in Executors : cp[e] = s => callout[s].c_executor = e
      BY <3>1, <2>1 DEF RunsRight
    <3> QED  BY <3>4, <3>5, <3>6
  <2>6. WaitersHaveCause
    BY <2>1 DEF IdsRight, WaitersHaveCause, Elsewhere
  <2> QED  BY <2>3, <2>4, <2>5, <2>6 DEF Inv
<1> QED  BY <1>1, CalloutInvariant, PTL

\* The claim of callout_execute() that it may pick up where it left off: no
\* callout that nobody executes is left behind by ct_runtime.
THEOREM NothingIsSkipped == Spec => []NothingSkipped
<1>1. CoInv => NothingSkipped
  <2> SUFFICES ASSUME CoInv, NEW s \in Chained, ~callout[s].executing
      PROVE  Minus(callout[s].c_runtime, ct_runtime) >= 0
    BY DEF NothingSkipped
  <2>1. /\ s \in Live(callout) /\ callout[s].c_runtime \in Time /\ lbolt \in Time /\ ct_runtime \in Time
        /\ TimesRight(callout, ct_runtime) /\ ClockRight(ct_runtime)
    BY DEF CoInv, Table, Types, Callouts, Chained, Live
  <2>2. /\ Ahead(ct_runtime) <= Ahead(callout[s].c_runtime) /\ Ahead(callout[s].c_runtime) <= MaxDelta
        /\ -MaxLag <= Ahead(ct_runtime)
    BY <2>1 DEF TimesRight, ClockRight
  <2>3. Ahead(callout[s].c_runtime) \in Int /\ Ahead(ct_runtime) \in Int
    BY <2>1, AheadIs
  <2>4. Ahead(callout[s].c_runtime) - Ahead(ct_runtime) \in -Half .. Half - 1
    BY <2>2, <2>3, HalfIs
  <2>5. Minus(callout[s].c_runtime, ct_runtime) = Ahead(callout[s].c_runtime) - Ahead(ct_runtime)
    BY <2>1, <2>4, MinusMinus DEF Ahead
  <2> QED  BY <2>2, <2>3, <2>5
<1> QED  BY <1>1, CalloutInvariant, PTL

\* The reason that callout_init() gives for ignoring the result of
\* taskq_dispatch(): when it fails, an execution is already scheduled.
THEOREM FailedDispatchIsNeedless == Spec => []DispatchSucceedsOrNeedless
<1>1. CoInv => DispatchSucceedsOrNeedless
  <2> SUFFICES ASSUME CoInv, ~Realtime, tq_freelist = 0
      PROVE  tq_task > 0
    BY DEF DispatchSucceedsOrNeedless
  <2>1. tq_freelist + tq_task + Cardinality(Busy) = TaskStructs /\ tq_task \in 0 .. TaskStructs
    BY DEF CoInv, TasksRight, Types
  <2> QED  BY <2>1, TaskStructsIs
<1> QED  BY <1>1, CalloutInvariant, PTL

-----------------------------------------------------------------------------
(* Callouts keep what TimeoutSpec promises                                 *)

Unique(co) == \A r, s \in Live(co) : co[r].c_xid = co[s].c_xid => r = s
Holders(co, i) == {s \in Structs : co[s].c_xid = i}
FateOf(x) == IF x.executing THEN x.c_executor ELSE "pending"
FateIn(co, i) ==
  IF Holders(co, i) = {} THEN "idle" ELSE FateOf(co[CHOOSE x \in Holders(co, i) : TRUE])

\* The fate of an identifier is what the structure that has it says.
LEMMA FateIs ==
  ASSUME NEW co, Unique(co)
  PROVE  /\ \A s \in Live(co) : FateIn(co, co[s].c_xid) = FateOf(co[s])
         /\ \A i \in Ids : (\A s \in Live(co) : co[s].c_xid # i) => FateIn(co, i) = "idle"
<1>1. ASSUME NEW s \in Live(co)
      PROVE  FateIn(co, co[s].c_xid) = FateOf(co[s])
  <2>1. s \in Holders(co, co[s].c_xid) /\ \A x \in Holders(co, co[s].c_xid) : x = s
    BY DEF Holders, Live, Unique
  <2>2. (CHOOSE x \in Holders(co, co[s].c_xid) : TRUE) = s
    BY <2>1
  <2> QED  BY <2>1, <2>2 DEF FateIn
<1>2. ASSUME NEW i \in Ids, \A s \in Live(co) : co[s].c_xid # i
      PROVE  FateIn(co, i) = "idle"
  <2>1. Holders(co, i) = {}
    BY <1>2, ThreadsAssumption DEF Holders, Live
  <2> QED  BY <2>1 DEF FateIn
<1> QED  BY <1>1, <1>2

\* A step that changes one structure changes the fate of its identifier only.
OnlyAt(co, co2, s, j) ==
  /\ s \in Structs /\ \A x \in Structs \ {s} : co2[x] = co[x]
  /\ co[s].c_xid \in {j, Null} /\ co2[s].c_xid \in {j, Null}

LEMMA FateStays ==
  ASSUME NEW co, NEW co2, NEW s, NEW j, OnlyAt(co, co2, s, j), NEW i \in Ids, i # j
  PROVE  FateIn(co2, i) = FateIn(co, i)
<1> USE DEF OnlyAt
<1>1. i # Null
  BY ThreadsAssumption
<1>2. Holders(co2, i) = Holders(co, i) /\ \A x \in Holders(co, i) : co2[x] = co[x]
  BY <1>1 DEF Holders
<1>3. CASE Holders(co, i) = {}
  BY <1>2, <1>3 DEF FateIn
<1>4. CASE Holders(co, i) # {}
  <2>1. (CHOOSE x \in Holders(co, i) : TRUE) \in Holders(co, i)
    BY <1>4
  <2> QED  BY <2>1, <1>2, <1>4 DEF FateIn
<1> QED  BY <1>3, <1>4

\* What marking a structure does to the fates.
Started(co, x, e, co2) ==
  /\ co[x].c_xid \in Ids /\ FateIn(co, co[x].c_xid) = "pending"
  /\ \A i \in Ids : FateIn(co2, i) = IF i = co[x].c_xid THEN e ELSE FateIn(co, i)

LEMMA MarkFate ==
  ASSUME NEW co \in Callouts, Unique(co), NEW x \in Live(co), ~co[x].executing, NEW e \in Executors,
         NEW co2, co2 = Marked(co, x, e)
  PROVE  Started(co, x, e, co2)
<1>1. /\ x \in Structs /\ co[x].c_xid \in Ids /\ co2[x].c_xid = co[x].c_xid /\ co2[x].executing /\ co2[x].c_executor = e
      /\ \A y \in Structs : co2[y].c_xid = co[y].c_xid
      /\ \A y \in Structs \ {x} : co2[y] = co[y]
  BY DEF Marked, Callouts, Live
<1>2. Live(co2) = Live(co)
  BY <1>1 DEF Live
<1>3. Unique(co2)
  BY <1>1, <1>2 DEF Unique, Live
<1>4. FateIn(co, co[x].c_xid) = "pending" /\ FateIn(co2, co[x].c_xid) = e
  BY <1>1, <1>2, <1>3, FateIs DEF FateOf
<1>5. \A i \in Ids : i # co[x].c_xid => FateIn(co2, i) = FateIn(co, i)
  <2>1. OnlyAt(co, co2, x, co[x].c_xid)
    BY <1>1 DEF OnlyAt
  <2> QED  BY ONLY <2>1, FateStays
<1> QED  BY <1>1, <1>4, <1>5 DEF Started

\* What freeing a structure does to them.
Freed(co, x, co2) ==
  /\ co2 \in Callouts /\ Unique(co2) /\ Live(co2) = Live(co) \ {x} /\ co[x].c_xid \in Ids
  /\ \A y \in Live(co2) : co2[y] = co[y]
  /\ \A i \in Ids : FateIn(co2, i) = IF i = co[x].c_xid THEN "idle" ELSE FateIn(co, i)

LEMMA FreeFate ==
  ASSUME NEW co \in Callouts, Unique(co), NEW x \in Live(co),
         NEW co2, co2 = [co EXCEPT ![x] = FreeStruct]
  PROVE  Freed(co, x, co2)
<1>1. /\ x \in Structs /\ co[x].c_xid \in Ids /\ co2[x].c_xid = Null
      /\ \A y \in Structs \ {x} : co2[y] = co[y]
  BY DEF FreeStruct, Callouts, Live
<1>2. co2 \in Callouts
  BY <1>1, HalfIs DEF FreeStruct, Callouts, Time
<1>3. Live(co2) = Live(co) \ {x}
  BY <1>1 DEF Live
<1>4. \A y \in Live(co2) : co2[y] = co[y] /\ y \in Live(co) /\ y # x
  BY <1>1, <1>3 DEF Live
<1>5. Unique(co2)
  BY <1>4 DEF Unique
<1>6. FateIn(co2, co[x].c_xid) = "idle"
  <2>1. \A y \in Live(co2) : co2[y].c_xid # co[x].c_xid
    BY <1>4 DEF Unique
  <2> QED  BY <2>1, <1>1, <1>5, FateIs
<1>7. \A i \in Ids : i # co[x].c_xid => FateIn(co2, i) = FateIn(co, i)
  <2>1. OnlyAt(co, co2, x, co[x].c_xid)
    BY <1>1 DEF OnlyAt
  <2> QED  BY ONLY <2>1, FateStays
<1> QED  BY <1>1, <1>2, <1>3, <1>4, <1>5, <1>6, <1>7 DEF Freed

\* The mapped state.
LEMMA FatesAre ==
  /\ fates = [i \in Ids |-> FateIn(callout, i)] /\ fates' = [i \in Ids |-> FateIn(callout', i)]
  /\ CoInv => Unique(callout) /\ callout \in Callouts
<1>1. \A i \in Ids : Fate(i) = FateIn(callout, i) /\ Fate(i)' = FateIn(callout', i)
  BY DEF Fate, FateIn, FateOf, Holders
<1>2. fates = [i \in Ids |-> FateIn(callout, i)]
  BY <1>1 DEF fates
<1>3. fates' = [i \in Ids |-> FateIn(callout', i)]
  BY <1>1 DEF fates
<1>4. CoInv => Unique(callout) /\ callout \in Callouts
  BY DEF CoInv, Table, IdsRight, Unique
<1> QED  BY <1>2, <1>3, <1>4

\* The thread that an identifier runs on is one executor, in its function; it
\* runs no other.
LEMMA RunnersAre ==
  ASSUME CoInv
  PROVE  /\ \A e \in Executors, i \in Ids : fates[i] = e =>
              cp[e] \in Live(callout) /\ callout[cp[e]].c_xid = i /\ pc[e] = "func"
         /\ \A e \in Executors : pc[e] = "func" => \E i \in Ids : fates[i] = e
<1>1. /\ RunsRight(callout, cp, runtime, pc) /\ callout \in Callouts /\ Unique(callout)
      /\ \A i \in Ids : fates[i] = FateIn(callout, i)
  BY FatesAre DEF CoInv, Table
<1>2. ASSUME NEW e \in Executors, NEW i \in Ids, fates[i] = e
      PROVE  cp[e] \in Live(callout) /\ callout[cp[e]].c_xid = i /\ pc[e] = "func"
  <2>1. e # "idle" /\ e # "pending"
    BY ThreadsAssumption
  <2>2. PICK s \in Live(callout) : callout[s].c_xid = i
    BY <2>1, <1>1, <1>2, FateIs
  <2>3. FateOf(callout[s]) = e
    BY <2>2, <1>1, <1>2, FateIs
  <2>4. callout[s].executing /\ callout[s].c_executor = e
    BY <2>1, <2>3 DEF FateOf
  <2>5. cp[e] = s /\ s # Null
    BY <2>2, <2>4, <1>1, ThreadsAssumption DEF RunsRight, Live
  <2>6. cp[e] # Null <=> pc[e] = "func"
    BY <1>1 DEF RunsRight
  <2> QED  BY <2>2, <2>5, <2>6
<1>3. ASSUME NEW e \in Executors, pc[e] = "func"
      PROVE  \E i \in Ids : fates[i] = e
  <2>1. cp[e] \in Live(callout) /\ callout[cp[e]].executing /\ callout[cp[e]].c_executor = e
    BY <1>1, <1>3 DEF RunsRight
  <2>2. callout[cp[e]].c_xid \in Ids
    BY <2>1, <1>1 DEF Live, Callouts
  <2>3. FateOf(callout[cp[e]]) = e
    BY <2>1 DEF FateOf
  <2> QED  BY <2>1, <2>2, <2>3, <1>1, FateIs
<1> QED  BY <1>2, <1>3

\* A step that leaves the structures and the arguments alone.
LEMMA RefineStutter ==
  ASSUME callout' = callout, id' = id
  PROVE  UNCHANGED Promise!vars
BY FatesAre DEF Promise!vars

\* timeout() issues an identifier.
LEMMA RefineIssue ==
  ASSUME CoInv, NEW s \in Structs, s \notin Live(callout), NEW d \in Deltas, timeout_insert(s, d), id' = id
  PROVE  \E i \in Ids : Promise!Issue(i)
<1>1. PICK i \in Ids \ InUse : callout' = [callout EXCEPT ![s] =
        [c_xid |-> i, executing |-> FALSE, c_runtime |-> Plus(lbolt, Ticks(d)), c_executor |-> Null]]
  BY DEF timeout_insert
<1>2. callout \in Callouts /\ Unique(callout)
  BY FatesAre
<1>3. i \in Ids /\ i # Null /\ (\A x \in Live(callout) : callout[x].c_xid # i) /\ \A c \in Clients : id[c] # i
  BY ThreadsAssumption DEF InUse, Chained, Live
<1>4. /\ callout'[s].c_xid = i /\ ~callout'[s].executing /\ callout[s].c_xid = Null
      /\ \A x \in Structs \ {s} : callout'[x] = callout[x]
  BY <1>1, <1>2 DEF Callouts, Live
<1>5. \A j \in Ids : j # i => FateIn(callout', j) = FateIn(callout, j)
  <2>1. OnlyAt(callout, callout', s, i)
    BY <1>4 DEF OnlyAt
  <2> QED  BY <2>1, FateStays
<1>6. FateIn(callout, i) = "idle"
  BY <1>2, <1>3, FateIs
<1>7. FateIn(callout', i) = "pending"
  <2>1. s \in Live(callout')
    BY <1>3, <1>4 DEF Live
  <2>2. \A x \in Live(callout') : callout'[x].c_xid = i => x = s
    BY <1>3, <1>4 DEF Live
  <2>3. Holders(callout', i) = {s}
    BY <2>1, <2>2, <1>3, <1>4 DEF Holders, Live
  <2>4. (CHOOSE x \in Holders(callout', i) : TRUE) = s
    BY <2>3
  <2> QED  BY <2>3, <2>4, <1>4 DEF FateIn, FateOf
<1>8. fates[i] = "idle" /\ fates' = [fates EXCEPT ![i] = "pending"]
  BY <1>3, <1>5, <1>6, <1>7, FatesAre
<1> QED  BY <1>3, <1>8 DEF Promise!Issue, Promise!Becomes

\* callout_execute() calls a function, or returns.
LEMMA RefineStart ==
  ASSUME CoInv, NEW e \in Executors, pc[e] # "func", Goes(callout, callout', e), id' = id
  PROVE  (\E i \in Ids : Promise!Start(i)) \/ UNCHANGED Promise!vars
<1>1. CASE callout' = callout
  BY <1>1, RefineStutter
<1>2. CASE \E x \in Live(callout) : ~callout[x].executing /\ callout' = Marked(callout, x, e)
  <2>1. PICK x \in Live(callout) : ~callout[x].executing /\ callout' = Marked(callout, x, e)
    BY <1>2
  <2> DEFINE i == callout[x].c_xid
  <2>2. /\ i \in Ids /\ FateIn(callout, i) = "pending"
        /\ \A j \in Ids : FateIn(callout', j) = IF j = i THEN e ELSE FateIn(callout, j)
    <3>1. Started(callout, x, e, callout')
      BY <2>1, FatesAre, MarkFate
    <3> QED  BY <3>1 DEF Started
  <2> HIDE DEF i
  <2>3. fates[i] = "pending" /\ fates' = [fates EXCEPT ![i] = e]
    BY <2>2, FatesAre
  <2>4. Promise!Free(e)
    BY RunnersAre DEF Promise!Free
  <2> QED  BY <2>2, <2>3, <2>4 DEF Promise!Start, Promise!Becomes
<1> QED  BY <1>1, <1>2 DEF Goes

\* A function returns, and perhaps another is called.
LEMMA RefineFinish ==
  ASSUME CoInv, NEW e \in Executors, Returning(e), NEW s \in Live(callout), s = cp[e],
         NEW co, co = [callout EXCEPT ![s] = FreeStruct], Goes(co, callout', e), id' = id
  PROVE  \E i \in Ids : Promise!Finish(i) \/ Promise!FinishStart(i)
<1> DEFINE i == callout[s].c_xid
<1>1. callout \in Callouts /\ Unique(callout) /\ callout[s].executing /\ callout[s].c_executor = e
  BY FatesAre DEF CoInv, Table, RunsRight, Returning
<1>2. /\ co \in Callouts /\ Unique(co) /\ Live(co) = Live(callout) \ {s} /\ i \in Ids
      /\ \A y \in Live(co) : co[y] = callout[y]
      /\ \A k \in Ids : FateIn(co, k) = IF k = i THEN "idle" ELSE FateIn(callout, k)
  <2>1. Freed(callout, s, co)
    BY <1>1, FreeFate
  <2> QED  BY <2>1 DEF Freed
<1>3. FateIn(callout, i) = e
  BY <1>1, FateIs DEF FateOf
<1> HIDE DEF i
<1>4. fates[i] = e /\ fates[i] \in Executors
  BY <1>2, <1>3, FatesAre
<1>5. Promise!Outside(fates[i])
  <2>1. \A c \in Clients : curthread[c] = e => pc[c] = "idle"
    BY DEF Returning, Outside
  <2>2. \A c \in Clients : pc[c] = "idle" => id[c] = Null
    BY DEF CoInv, Table, IdsRight
  <2> QED  BY <2>1, <2>2, <1>4 DEF Promise!Outside
<1>6. CASE callout' = co
  <2>1. fates' = [fates EXCEPT ![i] = "idle"]
    BY <1>2, <1>6, FatesAre
  <2> QED  BY <2>1, <1>2, <1>4, <1>5 DEF Promise!Finish, Promise!Becomes
<1>7. CASE \E x \in Live(co) : ~co[x].executing /\ callout' = Marked(co, x, e)
  <2>1. PICK x \in Live(co) : ~co[x].executing /\ callout' = Marked(co, x, e)
    BY <1>7
  <2> DEFINE j == co[x].c_xid
  <2>2. /\ j \in Ids /\ FateIn(co, j) = "pending"
        /\ \A k \in Ids : FateIn(callout', k) = IF k = j THEN e ELSE FateIn(co, k)
    <3>1. Started(co, x, e, callout')
      BY <2>1, <1>2, MarkFate
    <3> QED  BY <3>1 DEF Started
  <2> HIDE DEF j
  <2>3. j # i /\ FateIn(callout, j) = "pending"
    BY <2>2, <1>2
  <2>4. fates[j] = "pending"
    BY <2>2, <2>3, FatesAre
  <2>5. fates' = [fates EXCEPT ![i] = "idle", ![j] = e]
    BY <2>2, <2>3, <1>2, FatesAre
  <2> QED  BY <2>2, <2>4, <2>5, <1>2, <1>4, <1>5 DEF Promise!FinishStart
<1> QED  BY <1>6, <1>7 DEF Goes

\* untimeout() is called, goes on, and returns.
LEMMA RefineUntimeout ==
  ASSUME CoInv, NEW c \in Clients,
         \/ \E i \in Ids : untimeout(c, i)
         \/ untimeout_pending(c) \/ untimeout_executing(c) \/ untimeout_self(c) \/ untimeout_bogus(c)
         \/ untimeout_woken(c)
  PROVE  \/ \E i \in Ids : Promise!Call(c, i)
         \/ Promise!Prevent(c) \/ Promise!TooLate(c) \/ Promise!Itself(c) \/ UNCHANGED Promise!vars
<1>1. /\ callout \in Callouts /\ Unique(callout) /\ id \in [Clients -> Ids \cup {Null}] /\ IdsRight(callout, cp, pc)
      /\ Chained = Live(callout)
  BY FatesAre DEF CoInv, Types, Table, Chained, Live
<1>2. /\ id[c] = Null <=> pc[c] = "idle"
      /\ pc[c] \in {"wait", "woken"} =>
           \A s \in Live(callout) : callout[s].c_xid = id[c] => s = cp[c] /\ callout[s].executing
  BY <1>1, Zenon DEF IdsRight, Elsewhere
<1>3. ASSUME callout' = callout
      PROVE  fates' = fates
  BY <1>3, FatesAre
<1>4. ASSUME id[c] # Null, \A s \in Live(callout) : callout[s].c_xid # id[c], Return(c), callout' = callout
      PROVE  Promise!TooLate(c)
  <2>1. id[c] \in Ids
    BY <1>1, <1>4
  <2>2. FateIn(callout, id[c]) = "idle"
    BY <1>1, <1>4, FateIs
  <2>3. fates[id[c]] = "idle"
    BY <2>1, <2>2, FatesAre
  <2> QED  BY <2>3, <1>3, <1>4 DEF Promise!TooLate, Promise!Returns, Return
<1>5. ASSUME NEW i \in Ids, untimeout(c, i)
      PROVE  Promise!Call(c, i)
  <2>1. id[c] = Null /\ id' = [id EXCEPT ![c] = i] /\ callout' = callout
    BY <1>2, <1>5 DEF untimeout, MayCall, Outside, table
  <2>2. curthread[c] \in Executors => ~Promise!Free(curthread[c])
    BY <1>5, RunnersAre DEF untimeout, MayCall, Promise!Free
  <2> QED  BY <2>1, <2>2, <1>3 DEF Promise!Call
<1>6. CASE untimeout_pending(c)
  <2>1. PICK s \in Live(callout) : /\ callout[s].c_xid = id[c] /\ ~callout[s].executing
                                   /\ callout' = [callout EXCEPT ![s] = FreeStruct]
    BY <1>1, <1>6 DEF untimeout_pending
  <2>2. id[c] # Null /\ id' = [id EXCEPT ![c] = Null]
    BY <1>2, <1>6 DEF untimeout_pending, Return
  <2> DEFINE i == callout[s].c_xid
  <2>3. i \in Ids /\ \A k \in Ids : FateIn(callout', k) = IF k = i THEN "idle" ELSE FateIn(callout, k)
    <3>1. Freed(callout, s, callout')
      BY <2>1, <1>1, FreeFate
    <3> QED  BY <3>1 DEF Freed
  <2>4. FateIn(callout, i) = "pending"
    BY <2>1, <1>1, FateIs DEF FateOf
  <2>5. i = id[c]
    BY <2>1
  <2> HIDE DEF i
  <2>6. fates[i] = "pending" /\ fates' = [fates EXCEPT ![i] = "idle"]
    BY <2>3, <2>4, FatesAre
  <2> QED  BY <2>2, <2>5, <2>6 DEF Promise!Prevent, Promise!Returns, Promise!Becomes
<1>7. CASE untimeout_executing(c)
  BY <1>7, RefineStutter DEF untimeout_executing, table
<1>8. CASE untimeout_bogus(c)
  BY <1>1, <1>2, <1>4, <1>8 DEF untimeout_bogus, table
<1>9. CASE untimeout_woken(c)
  <2>1. CASE callout[cp[c]].c_xid = id[c] /\ callout[cp[c]].executing
    BY <2>1, <1>9, RefineStutter DEF untimeout_woken, table
  <2>2. CASE ~(callout[cp[c]].c_xid = id[c] /\ callout[cp[c]].executing)
    <3>1. Return(c) /\ callout' = callout /\ id[c] # Null /\ pc[c] = "woken"
      BY <2>2, <1>2, <1>9 DEF untimeout_woken, table
    <3>2. \A s \in Live(callout) : callout[s].c_xid # id[c]
      BY <3>1, <2>2, <1>2
    <3> QED  BY <3>1, <3>2, <1>4
  <2> QED  BY <2>1, <2>2
<1>10. CASE untimeout_self(c)
  <2>1. PICK s \in Live(callout) : /\ callout[s].c_xid = id[c] /\ callout[s].executing
                                   /\ callout[s].c_executor = curthread[c]
    BY <1>1, <1>10 DEF untimeout_self
  <2>2. id[c] \in Ids /\ id[c] # Null
    BY <2>1, <1>1, <1>2, <1>10 DEF untimeout_self
  <2>3. FateIn(callout, id[c]) = FateOf(callout[s])
    BY <2>1, <1>1, FateIs
  <2>4. fates[id[c]] = curthread[c]
    BY <2>1, <2>2, <2>3, FatesAre DEF FateOf
  <2>5. Return(c) /\ callout' = callout
    BY <1>10 DEF untimeout_self, table
  <2> QED  BY <2>2, <2>4, <2>5, <1>3 DEF Promise!Itself, Promise!Returns, Return
<1> QED  BY <1>5, <1>6, <1>7, <1>8, <1>9, <1>10

\* Every step is one of TimeoutSpec, or changes nothing there.
LEMMA RefineNext ==
  ASSUME CoInv, [Next]_vars
  PROVE  [Promise!Next]_(Promise!vars)
<1>1. ASSUME NEW c \in Clients, Use(c) \/ Progress(c)
      PROVE  [Promise!Next]_(Promise!vars)
  <2>1. ASSUME callout_alloc(c)
        PROVE  \E i \in Ids : Promise!Issue(i)
    <3>1. delta[c] \in Deltas /\ id' = id
      BY <2>1 DEF callout_alloc, CoInv, Types
    <3>2. PICK s \in Unallocated : timeout_insert(s, delta[c])
      BY <2>1 DEF callout_alloc
    <3>3. s \in Structs /\ s \notin Live(callout)
      BY <3>2 DEF Unallocated, Chained, Live
    <3> QED  BY <3>1, <3>2, <3>3, RefineIssue
  <2>2. ASSUME NEW d \in Deltas, timeout_free(c, d)
        PROVE  \E i \in Ids : Promise!Issue(i)
    <3>1. PICK s \in ct_freelist : timeout_insert(s, d)
      BY <2>2 DEF timeout_free
    <3>2. s \in Structs /\ s \notin Live(callout) /\ id' = id
      BY <2>2, <3>1 DEF CoInv, Table, timeout_free, locals
    <3> QED  BY <3>1, <3>2, RefineIssue
  <2>3. ASSUME NEW d \in Deltas, timeout_alloc(c, d)
        PROVE  UNCHANGED Promise!vars
    BY <2>3, RefineStutter DEF timeout_alloc, table
  <2>4. CASE \/ \E i \in Ids : untimeout(c, i)
             \/ untimeout_pending(c) \/ untimeout_executing(c) \/ untimeout_self(c) \/ untimeout_bogus(c)
             \/ untimeout_woken(c)
    BY <2>4, RefineUntimeout DEF Promise!Next
  <2> QED  BY <2>1, <2>2, <2>3, <2>4, <1>1 DEF Use, Progress, Promise!Next
<1>2. ASSUME NEW e \in Executors, Execute(e)
      PROVE  [Promise!Next]_(Promise!vars)
  <2>1. ASSUME callout_execute(e) \/ execute_end(e)
        PROVE  UNCHANGED Promise!vars
    BY <2>1, RefineStutter DEF callout_execute, execute_end, table, locals
  <2>2. ASSUME execute_start(e)
        PROVE  (\E i \in Ids : Promise!Start(i)) \/ UNCHANGED Promise!vars
    <3>1. Goes(callout, callout', e) /\ id' = id /\ pc[e] = "start"
      BY <2>2, StepExecuteStart DEF execute_start
    <3> QED  BY <3>1, RefineStart
  <2>3. ASSUME execute_return(e)
        PROVE  \E i \in Ids : Promise!Finish(i) \/ Promise!FinishStart(i)
    <3>1. /\ Goes([callout EXCEPT ![cp[e]] = FreeStruct], callout', e) /\ id' = id
          /\ cp[e] \in Live(callout) /\ Returning(e)
      BY <2>3, StepExecuteReturn DEF execute_return
    <3> QED  BY <3>1, RefineFinish
  <2> QED  BY <2>1, <2>2, <2>3, <1>2 DEF Execute, Promise!Next
<1>3. CASE Clock \/ (\E stop \in BOOLEAN : callout_cpr_callb(stop)) \/ UNCHANGED vars
  <2>1. callout' = callout /\ id' = id
    BY <1>3 DEF Clock, clock_tick, callout_schedule, schedule_dispatch, callout_cpr_callb, vars, table, locals
  <2> QED  BY <2>1, RefineStutter
<1> QED  BY <1>1, <1>2, <1>3 DEF Next

\* Callouts implement TimeoutSpec: a function that untimeout() has prevented is
\* not called, and when untimeout() returns -1 it does not run any more, unless
\* it has called untimeout() on itself.
THEOREM CalloutRefinement == Spec => KeepsPromise
<1>1. Init => Promise!Init
  <2> SUFFICES ASSUME Init
      PROVE  Promise!Init
    OBVIOUS
  <2>1. Live(callout) = {}
    BY DEF Init, Live, FreeStruct
  <2>2. \A i \in Ids : FateIn(callout, i) = "idle"
    BY <2>1, FateIs DEF Unique
  <2> QED  BY <2>2, FatesAre DEF Promise!Init, Init
<1>2. CoInv /\ [Next]_vars => [Promise!Next]_(Promise!vars)
  BY RefineNext
<1> QED  BY <1>1, <1>2, CalloutInvariant, PTL DEF Spec, KeepsPromise, Promise!Spec

-----------------------------------------------------------------------------
(* Cyclics: the invariant                                                  *)

SoftLabels == {"off", "top", "while", "call", "reread", "zero", "cas", "rpend", "next",
               "drained", "levels", "kick", "post"}
InBuffer == {"while", "call", "reread", "zero", "cas", "rpend", "next", "drained"}
InEntry == {"call", "reread", "zero", "cas", "rpend"}
Indexes == 0 .. Wrap - 1

CyTypes ==
  /\ cyp_rpend \in Nat /\ cyp_modify_wait \in {0, 1} /\ cyp_modify_levels \in {0, 1, 2}
  /\ cyp_size \in Sizes /\ cyp_cyclics \in Both /\ cy_pend \in [Both -> [Slots -> Nat]]
  /\ cy_handler \in [Both -> [Slots -> Cyclics \cup {NoCyclic}]]
  /\ slot \in [Cyclics -> Slots \cup {NoCyclic}]
  /\ cys_hard \in [SoftLevels -> Both] /\ cys_soft \in [SoftLevels -> Both]
  /\ cypc_buf \in [SoftLevels -> [Both -> [Slots -> Slots]]]
  /\ cypc_prodndx \in [SoftLevels -> [Both -> Indexes]]
  /\ cypc_consndx \in [SoftLevels -> [Both -> Indexes]]
  /\ cypc_size \in [SoftLevels -> [Both -> Sizes \cup {0}]]
  /\ posted \subseteq SoftLevels /\ softpc \in [SoftLevels -> SoftLabels]
  /\ cyclics \in [SoftLevels -> Both] /\ soft \in [SoftLevels -> Both]
  /\ ndx \in [SoftLevels -> Slots] /\ consndx \in [SoftLevels -> Indexes]
  /\ handler \in [SoftLevels -> Cyclics \cup {NoCyclic}] /\ pend \in [SoftLevels -> Nat]
  /\ resized \in [SoftLevels -> BOOLEAN] /\ owed \in [Cyclics -> Nat]

\* What the thread with cpu_lock is at.
Phases ==
  /\ op \in {"idle", "add", "expand", "expand_wait", "remove", "remove_wait"}
  /\ op \in {"idle", "add"} => cyp_state = "ONLINE"
  /\ op \in {"expand", "expand_wait"} => cyp_state = "EXPANDING"
  /\ op \in {"remove", "remove_wait"} => cyp_state = "REMOVING"
  /\ op = "idle" => opc = NoCyclic
  /\ op # "idle" => opc \in Cyclics /\ (slot[opc] # NoCyclic <=> op = "remove")
  /\ op # "remove_wait" => cyp_rpend = 0
  /\ op \notin {"expand_wait", "remove_wait"} => cyp_modify_wait = 0
  /\ op = "remove_wait" /\ cyp_rpend = 0 => cyp_modify_wait = 0
  /\ op = "expand" => cyp_size < MaxSize /\ cyp_modify_levels = 0

\* A cyclic has a slot of the array to itself; only slots in use have counts.
SlotsRight ==
  /\ \A c \in Cyclics : slot[c] # NoCyclic => slot[c] < cyp_size /\ cy_handler[cyp_cyclics][slot[c]] = c
  /\ \A i \in Slots : cy_pend[1 - cyp_cyclics][i] = 0
  /\ \A i \in Slots : i \notin Used => cy_pend[cyp_cyclics][i] = 0
  /\ \A i \in Slots : i >= cyp_size => cy_handler[cyp_cyclics][i] = NoCyclic
  /\ op = "expand_wait" => cy_handler[0] = cy_handler[1]

\* The buffers to produce into are as large as the array; the others are there
\* during a resize.
BufferAt(l) ==
  /\ cypc_size[l][cys_hard[l]] = cyp_size
  /\ op = "expand" => /\ cypc_size[l][1 - cys_hard[l]] = 2 * cyp_size
                      /\ cypc_prodndx[l][1 - cys_hard[l]] = 0 /\ cypc_consndx[l][1 - cys_hard[l]] = 0
  /\ op = "expand_wait" => cypc_size[l][1 - cys_hard[l]] # 0
  /\ op \notin {"expand", "expand_wait"} => cypc_size[l][1 - cys_hard[l]] = 0
BuffersRight == \A l \in SoftLevels : BufferAt(l)

\* What a soft interrupt knows where it is.
SoftAt(l) ==
  /\ cys_soft[l] # cys_hard[l] => op = "expand_wait"
  /\ softpc[l] \in InBuffer => soft[l] = cys_soft[l] /\ consndx[l] = cypc_consndx[l][soft[l]]
  /\ softpc[l] \in InBuffer \cup {"top"} /\ cyclics[l] # cyp_cyclics =>
       ~resized[l] /\ cys_soft[l] # cys_hard[l]
  /\ resized[l] => /\ op = "expand_wait" /\ cys_soft[l] = cys_hard[l]
                   /\ softpc[l] \in InBuffer \cup {"top"}
  /\ softpc[l] \in {"levels", "kick"} => op = "expand_wait" /\ cys_soft[l] = cys_hard[l]
  /\ softpc[l] = "post" => l = 1
  /\ softpc[l] \in InEntry =>
       /\ consndx[l] # cypc_prodndx[l][soft[l]] /\ ndx[l] = Entry(l, soft[l], consndx[l])
       /\ handler[l] = cy_handler[cyp_cyclics][ndx[l]]
  /\ softpc[l] \notin InEntry \cup {"next"} => handler[l] = NoCyclic
  /\ softpc[l] = "cas" => pend[l] > 0
  /\ softpc[l] = "zero" => IF op = "remove_wait" THEN handler[l] = opc ELSE cyclics[l] # cyp_cyclics
  /\ softpc[l] = "rpend" => op = "remove_wait" /\ handler[l] = opc
SoftRight == \A l \in SoftLevels : SoftAt(l)

\* A resize is told of by both levels, and ends once.
Count(b) == IF b THEN 1 ELSE 0
Told(l) == cys_soft[l] = cys_hard[l] /\ ~resized[l] /\ softpc[l] # "levels"
ResizeRight ==
  op = "expand_wait" =>
    /\ cyp_modify_levels = Count(Told(0)) + Count(Told(1))
    /\ cyp_modify_wait + Count(softpc[0] = "kick") + Count(softpc[1] = "kick") = Count(cyp_modify_levels = 2)

\* There are calls left to make for the cyclic that is removed.
Removal == op = "remove_wait" /\ cyp_rpend > 0 /\ cyp_modify_wait = 0

\* What is in a buffer is pending, or is what the removal waits for.
Pending(l, i) == \E c \in Cyclics : slot[c] = i /\ cy_level[c] = l /\ cy_pend[cyp_cyclics][i] > 0
LeftOver(l, i) == Removal /\ i \notin Used /\ cy_handler[cyp_cyclics][i] = opc /\ cy_level[opc] = l
EntriesValid ==
  \A l \in SoftLevels, b \in Both : \A x \in Unread(l, b) : Pending(l, Entry(l, b, x)) \/ LeftOver(l, Entry(l, b, x))

\* It is there once.
Alike(i, j) == i = j \/ (i \notin Used /\ j \notin Used)
EntriesOnce ==
  \A k, l \in SoftLevels, a, b \in Both : \A x \in Unread(k, a), y \in Unread(l, b) :
    Alike(Entry(k, a, x), Entry(l, b, y)) => k = l /\ a = b /\ x = y

\* What a cyclic has to be called for is what is counted, where it is counted.
Flight(c) == Count(softpc[cy_level[c]] \in {"reread", "zero", "cas"} /\ handler[cy_level[c]] = c)
OwedAt(c) ==
  /\ slot[c] # NoCyclic => owed[c] = cy_pend[cyp_cyclics][slot[c]] - Flight(c)
  /\ slot[c] = NoCyclic /\ ~(Removal /\ opc = c) => owed[c] = 0
  /\ Removal /\ opc = c => owed[c] = IF softpc[cy_level[c]] = "rpend" THEN pend[cy_level[c]]
                                     ELSE cyp_rpend - Flight(c)
OwedRight == \A c \in Cyclics : OwedAt(c)

CyInv ==
  /\ CyTypes /\ Phases /\ SlotsRight /\ BuffersRight /\ SoftRight /\ ResizeRight
  /\ EntriesValid /\ EntriesOnce /\ OwedRight

-----------------------------------------------------------------------------
(* Rings                                                                   *)

LEMMA SizesAre ==
  /\ Wrap \in Nat /\ MaxSize \in Nat /\ MaxSize + 1 < Wrap /\ Wrap > 1
  /\ \A s \in Sizes : s \in Nat /\ s > 0 /\ s <= MaxSize /\ s < Wrap
                      /\ Wrap % s = 0 /\ 0 \in Slots /\ (s < MaxSize => 2 * s \in Sizes)
  /\ Size \in Sizes /\ 0 \notin Sizes
BY CyclicAssumption DEF Slots

LEMMA ConstantsAre ==
  /\ NoCyclic \notin Cyclics /\ NoCyclic \notin Slots /\ IsFiniteSet(Cyclics)
  /\ cy_level \in [Cyclics -> SoftLevels]
BY CyclicAssumption DEF Slots

LEMMA LevelsAre == SoftLevels = {0, 1} /\ CY_SOFT_LEVELS = 2 /\ CY_LOW_LEVEL = 0 /\ CY_LOCK_LEVEL = 1
<1>1. SoftLevels = 0 .. 1 /\ SoftLevels = {0, 1}
  BY DEF SoftLevels, CY_LOW_LEVEL, CY_LOCK_LEVEL
<1>2. IsFiniteSet({0}) /\ Cardinality({0}) = 1
  BY FS_Singleton
<1>3. Cardinality({0} \cup {1}) = 1 + 1
  BY <1>2, FS_AddElement
<1>4. SoftLevels = {0} \cup {1}
  BY <1>1
<1> QED  BY <1>1, <1>3, <1>4 DEF CY_SOFT_LEVELS, CY_LOW_LEVEL, CY_LOCK_LEVEL

LEMMA BothAre ==
  /\ \A b \in Both : b \in Int /\ 1 - b \in Both /\ 1 - b # b /\ 1 - (1 - b) = b
  /\ \A a, b \in Both : a # b => a = 1 - b
BY DEF Both

\* How far a is behind b on the ring.
Lead(a, b) == (a - b) % Wrap

LEMMA LeadIs ==
  ASSUME NEW a \in Indexes, NEW b \in Indexes
  PROVE  /\ Lead(a, b) \in Indexes
         /\ Lead(a, b) = IF b <= a THEN a - b ELSE a - b + Wrap
<1>1. a - b \in -Wrap .. Wrap - 1 /\ a - b \in Int
  BY SizesAre DEF Indexes
<1>2. /\ a - b \in 0 .. Wrap - 1 => (a - b) % Wrap = a - b
      /\ a - b \in -Wrap .. -1 => (a - b) % Wrap = a - b + Wrap
  BY <1>1, SizesAre
<1> QED  BY <1>1, <1>2, SizesAre DEF Lead, Indexes

Succ(a) == (a + 1) % Wrap

LEMMA SuccIs ==
  ASSUME NEW a \in Indexes
  PROVE  Succ(a) \in Indexes /\ Succ(a) = IF a = Wrap - 1 THEN 0 ELSE a + 1
<1>1. /\ a + 1 \in 0 .. Wrap - 1 => (a + 1) % Wrap = a + 1
      /\ a + 1 = Wrap => (a + 1) % Wrap = 0
  BY SizesAre DEF Indexes
<1> QED  BY <1>1, SizesAre DEF Succ, Indexes

\* The indexes from f up to p.
Ring(f, p) == {x \in Indexes : Lead(x, f) < Lead(p, f)}

\* One more is produced, if there is room for it.
LEMMA RingAdd ==
  ASSUME NEW f \in Indexes, NEW p \in Indexes, Lead(p, f) + 1 < Wrap
  PROVE  Ring(f, Succ(p)) = Ring(f, p) \cup {p} /\ p \notin Ring(f, p)
<1>1. Succ(p) \in Indexes /\ Succ(p) = IF p = Wrap - 1 THEN 0 ELSE p + 1
  BY SuccIs
<1>2. ASSUME NEW x \in Indexes PROVE Lead(x, f) < Lead(Succ(p), f) <=> Lead(x, f) < Lead(p, f) \/ x = p
  <2>1. /\ Lead(x, f) = IF f <= x THEN x - f ELSE x - f + Wrap
        /\ Lead(p, f) = IF f <= p THEN p - f ELSE p - f + Wrap
        /\ Lead(Succ(p), f) = IF f <= Succ(p) THEN Succ(p) - f ELSE Succ(p) - f + Wrap
    BY <1>1, LeadIs
  <2> QED  BY <1>1, <2>1, SizesAre DEF Indexes
<1>3. ~(Lead(p, f) < Lead(p, f))
  BY LeadIs DEF Indexes
<1> QED  BY <1>2, <1>3 DEF Ring

\* One is consumed.
LEMMA RingDrop ==
  ASSUME NEW f \in Indexes, NEW p \in Indexes, f # p
  PROVE  Ring(Succ(f), p) = Ring(f, p) \ {f} /\ f \in Ring(f, p)
<1>1. Succ(f) \in Indexes /\ Succ(f) = IF f = Wrap - 1 THEN 0 ELSE f + 1
  BY SuccIs
<1>2. ASSUME NEW x \in Indexes PROVE Lead(x, Succ(f)) < Lead(p, Succ(f)) <=> Lead(x, f) < Lead(p, f) /\ x # f
  <2>1. /\ Lead(x, f) = IF f <= x THEN x - f ELSE x - f + Wrap
        /\ Lead(p, f) = IF f <= p THEN p - f ELSE p - f + Wrap
        /\ Lead(x, Succ(f)) = IF Succ(f) <= x THEN x - Succ(f) ELSE x - Succ(f) + Wrap
        /\ Lead(p, Succ(f)) = IF Succ(f) <= p THEN p - Succ(f) ELSE p - Succ(f) + Wrap
    BY <1>1, LeadIs
  <2> QED  BY <1>1, <2>1, SizesAre DEF Indexes
<1>3. Lead(f, f) < Lead(p, f)
  <2>1. Lead(p, f) = (IF f <= p THEN p - f ELSE p - f + Wrap) /\ Lead(f, f) = f - f
    BY LeadIs DEF Indexes
  <2> QED  BY <2>1, SizesAre DEF Indexes
<1> QED  BY <1>2, <1>3 DEF Ring

LEMMA RingEmpty == \A f \in Indexes : Ring(f, f) = {}
<1>1. ASSUME NEW f \in Indexes, NEW x \in Indexes PROVE ~(Lead(x, f) < Lead(f, f))
  BY LeadIs DEF Indexes
<1> QED  BY <1>1 DEF Ring

\* A multiple of s between -s and s is 0.
LEMMA SmallMultiple ==
  ASSUME NEW s \in Nat, s > 0, NEW d \in Int, s * d < s, -s < s * d
  PROVE  d = 0
<1>1. d >= 1 => s * d >= s
  OBVIOUS
<1>2. d <= -1 => s * d <= -s
  OBVIOUS
<1> QED  BY <1>1, <1>2

\* Two numbers with the same remainder are a multiple of the divisor apart.
LEMMA SameRemainder ==
  ASSUME NEW s \in Nat, s > 0, NEW x \in Int, NEW y \in Int, x % s = y % s, x - y < s, y - x < s
  PROVE  x = y
<1>1. x = s * (x \div s) + (x % s) /\ y = s * (y \div s) + (y % s) /\ x \div s \in Int /\ y \div s \in Int
  OBVIOUS
<1>2. PICK d \in Int : d = (x \div s) - (y \div s)
  BY <1>1
<1>3. x - y = s * d
  BY <1>1, <1>2
<1>4. d = 0
  BY <1>2, <1>3, SmallMultiple
<1> QED  BY <1>3, <1>4

\* The wrap of the index does not change the place in the buffer.
LEMMA WrapPlace ==
  ASSUME NEW s \in Sizes, NEW x \in Int
  PROVE  (x + Wrap) % s = x % s
<1>1. s \in Nat /\ s > 0 /\ Wrap \in Nat /\ Wrap % s = 0
  BY SizesAre
<1>2. PICK k \in Int : k = Wrap \div s
  BY <1>1
<1>3. Wrap = s * k
  BY <1>1, <1>2
<1>4. PICK y \in Int : y = x + Wrap
  BY <1>1
<1>5. /\ x = s * (x \div s) + (x % s) /\ x \div s \in Int /\ x % s \in 0 .. s - 1
      /\ y = s * (y \div s) + (y % s) /\ y \div s \in Int /\ y % s \in 0 .. s - 1
  BY <1>1, <1>4
<1>6. PICK d \in Int : d = (x \div s) + k - (y \div s)
  BY <1>2, <1>5
<1>7. (y % s) - (x % s) = s * d
  BY <1>1, <1>3, <1>4, <1>5, <1>6
<1>8. d = 0
  BY <1>1, <1>5, <1>6, <1>7, SmallMultiple
<1> QED  BY <1>4, <1>5, <1>7, <1>8, <1>1

\* Two indexes less than the size of the buffer apart are different places in it.
LEMMA PlacesDiffer ==
  ASSUME NEW s \in Sizes, NEW x \in Indexes, NEW p \in Indexes, Lead(p, x) < s, x # p
  PROVE  x % s # p % s
<1>1. s \in Nat /\ s > 0 /\ Wrap \in Nat
  BY SizesAre
<1>2. x \in Int /\ p \in Int /\ Lead(p, x) = (IF x <= p THEN p - x ELSE p - x + Wrap) /\ Lead(p, x) \in 0 .. Wrap - 1
  BY LeadIs, <1>1 DEF Indexes
<1>3. CASE x <= p
  BY <1>1, <1>2, <1>3, SameRemainder
<1>4. CASE ~(x <= p)
  <2>1. (p + Wrap) % s = p % s
    BY <1>2, WrapPlace
  <2>2. p + Wrap \in Int /\ p + Wrap - x < s /\ x - (p + Wrap) < s /\ p + Wrap # x
    BY <1>1, <1>2, <1>4 DEF Indexes
  <2> QED  BY <2>1, <2>2, <1>1, <1>2, SameRemainder
<1> QED  BY <1>3, <1>4

-----------------------------------------------------------------------------
(* What is in the buffers                                                  *)

\* A buffer in use.
LEMMA UnreadIs ==
  ASSUME CyTypes, NEW l \in SoftLevels, NEW b \in Both
  PROVE  /\ First(l, b) \in Indexes /\ cypc_prodndx[l][b] \in Indexes
         /\ cypc_size[l][b] \in Sizes => Unread(l, b) = Ring(First(l, b), cypc_prodndx[l][b])
         /\ cypc_size[l][b] = 0 => Unread(l, b) = {}
         /\ Unread(l, b) \subseteq Indexes
<1>1. cypc_prodndx[l][b] \in Indexes /\ cypc_consndx[l][b] \in Indexes
  BY DEF CyTypes
<1>2. First(l, b) \in Indexes
  BY <1>1, SuccIs DEF First, Succ
<1>3. cypc_size[l][b] \in Sizes => cypc_size[l][b] # 0
  BY SizesAre
<1> QED  BY <1>1, <1>2, <1>3 DEF Unread, Ring, Lead, Indexes

\* What is in a buffer is a slot.
LEMMA EntryIs ==
  ASSUME CyTypes, NEW l \in SoftLevels, NEW b \in Both, cypc_size[l][b] \in Sizes, NEW x \in Indexes
  PROVE  x % cypc_size[l][b] \in Slots /\ Entry(l, b, x) \in Slots
<1>1. PICK s \in Sizes : s = cypc_size[l][b]
  OBVIOUS
<1>a. s \in Nat /\ s > 0 /\ s <= MaxSize
  BY SizesAre
<1>b. x \in Nat
  BY SizesAre DEF Indexes
<1>2. x % s \in 0 .. s - 1 /\ s <= MaxSize /\ s \in Nat
  BY <1>a, <1>b
<1>3. x % s \in Slots
  BY <1>2, SizesAre DEF Slots
<1> QED  BY <1>1, <1>3 DEF Entry, CyTypes

LEMMA EntryInSlots ==
  ASSUME CyTypes
  PROVE  \A l \in SoftLevels, b \in Both : \A x \in Unread(l, b) : Entry(l, b, x) \in Slots
<1>1. SUFFICES ASSUME NEW l \in SoftLevels, NEW b \in Both, NEW x \in Unread(l, b) PROVE Entry(l, b, x) \in Slots
  OBVIOUS
<1>2. x \in Indexes /\ cypc_size[l][b] \in Sizes
  BY DEF Unread, Indexes, CyTypes
<1> QED  BY <1>2, EntryIs

\* The buffer that a soft level reads exists.
LEMMA SoftSize ==
  ASSUME CyTypes, BuffersRight, SoftRight, NEW l \in SoftLevels
  PROVE  /\ cys_soft[l] \in Both /\ cypc_size[l][cys_soft[l]] \in Sizes
         /\ cys_hard[l] \in Both /\ cypc_size[l][cys_hard[l]] = cyp_size /\ cyp_size \in Sizes
<1>1. cys_soft[l] \in Both /\ cys_hard[l] \in Both /\ cyp_size \in Sizes
      /\ \A b \in Both : cypc_size[l][b] \in Sizes \cup {0}
  BY DEF CyTypes
<1>2. cypc_size[l][cys_hard[l]] = cyp_size
  BY DEF BuffersRight, BufferAt
<1>3. CASE cys_soft[l] = cys_hard[l]
  BY <1>1, <1>2, <1>3
<1>4. CASE cys_soft[l] # cys_hard[l]
  <2>1. op = "expand_wait" /\ cys_soft[l] = 1 - cys_hard[l]
    BY <1>1, <1>4, BothAre DEF SoftRight, SoftAt
  <2>2. cypc_size[l][cys_soft[l]] # 0
    BY <2>1 DEF BuffersRight, BufferAt
  <2> QED  BY <1>1, <1>2, <2>2
<1> QED  BY <1>3, <1>4

\* A slot that is in use has one cyclic.
LEMMA SlotIs ==
  ASSUME CyTypes, SlotsRight
  PROVE  /\ \A c \in Cyclics : slot[c] # NoCyclic => slot[c] \in Slots /\ slot[c] \in Used
         /\ \A c, d \in Cyclics : slot[c] # NoCyclic /\ slot[c] = slot[d] => c = d
         /\ \A i \in Used : \E c \in Cyclics : slot[c] = i /\ slot[c] # NoCyclic
         /\ NoCyclic \notin Used
BY ConstantsAre DEF CyTypes, SlotsRight, Used

\* The entry that a soft level handles is the first in its buffer; its cyclic is
\* pending at this level or is what the removal waits for.
LEMMA HeadIs ==
  ASSUME CyInv, NEW l \in SoftLevels, softpc[l] \in InEntry
  PROVE  /\ consndx[l] \in Unread(l, soft[l]) /\ Entry(l, soft[l], consndx[l]) = ndx[l]
         /\ First(l, soft[l]) = consndx[l] /\ soft[l] = cys_soft[l] /\ soft[l] \in Both
         /\ handler[l] \in Cyclics /\ cy_level[handler[l]] = l /\ ndx[l] \in Slots
         /\ \/ slot[handler[l]] = ndx[l] /\ cy_pend[cyp_cyclics][ndx[l]] > 0
            \/ Removal /\ handler[l] = opc /\ slot[opc] = NoCyclic /\ ndx[l] \notin Used
<1>1. CyTypes /\ SlotsRight /\ BuffersRight /\ SoftRight /\ EntriesValid /\ Phases
  BY DEF CyInv
<1>2. softpc[l] \in InBuffer /\ softpc[l] # "next"
  BY DEF InEntry, InBuffer
<1>3. SoftAt(l)
  BY <1>1 DEF SoftRight
<1>4. /\ soft[l] = cys_soft[l] /\ consndx[l] = cypc_consndx[l][soft[l]]
      /\ consndx[l] # cypc_prodndx[l][soft[l]] /\ ndx[l] = Entry(l, soft[l], consndx[l])
      /\ handler[l] = cy_handler[cyp_cyclics][ndx[l]]
  BY <1>2, <1>3 DEF SoftAt
<1>5. /\ soft[l] \in Both /\ consndx[l] \in Indexes /\ cypc_prodndx[l][soft[l]] \in Indexes
      /\ ndx[l] \in Slots
  BY <1>1 DEF CyTypes
<1>6. First(l, soft[l]) = consndx[l]
  BY <1>2, <1>4 DEF First
<1>7. consndx[l] \in Unread(l, soft[l])
  BY <1>1, <1>4, <1>5, <1>6, SoftSize, UnreadIs, RingDrop
<1>8. Pending(l, ndx[l]) \/ LeftOver(l, ndx[l])
  BY <1>1, <1>4, <1>5, <1>7 DEF EntriesValid
<1>9. CASE Pending(l, ndx[l])
  <2>1. PICK c \in Cyclics : slot[c] = ndx[l] /\ cy_level[c] = l /\ cy_pend[cyp_cyclics][ndx[l]] > 0
    BY <1>9 DEF Pending
  <2>2. slot[c] # NoCyclic
    BY <2>1, <1>5, ConstantsAre
  <2>3. handler[l] = c
    BY <2>1, <2>2, <1>1, <1>4 DEF SlotsRight
  <2> QED  BY <2>1, <2>3, <1>4, <1>5, <1>6, <1>7
<1>10. CASE LeftOver(l, ndx[l])
  <2>1. Removal /\ ndx[l] \notin Used /\ handler[l] = opc /\ cy_level[opc] = l
    BY <1>10, <1>4 DEF LeftOver
  <2>2. opc \in Cyclics /\ slot[opc] = NoCyclic
    BY <2>1, <1>1 DEF Removal, Phases
  <2> QED  BY <2>1, <2>2, <1>4, <1>5, <1>6, <1>7
<1> QED  BY <1>8, <1>9, <1>10

\* The index k after f.
At(f, k) == (f + k) % Wrap

LEMMA AtIs ==
  ASSUME NEW f \in Indexes, NEW k \in Indexes
  PROVE  At(f, k) \in Indexes /\ Lead(At(f, k), f) = k
<1>1. f \in Int /\ k \in Int /\ f + k \in Int /\ f + k >= 0 /\ f + k < Wrap + Wrap /\ Wrap \in Nat
  BY SizesAre DEF Indexes
<1>2. /\ f + k < Wrap => (f + k) % Wrap = f + k
      /\ ~(f + k < Wrap) => (f + k) % Wrap = f + k - Wrap
  BY <1>1
<1>3. At(f, k) = IF f + k < Wrap THEN f + k ELSE f + k - Wrap
  BY <1>2 DEF At
<1>4. At(f, k) \in Indexes
  BY <1>1, <1>3 DEF Indexes
<1>5. Lead(At(f, k), f) = IF f <= At(f, k) THEN At(f, k) - f ELSE At(f, k) - f + Wrap
  BY <1>4, LeadIs
<1> QED  BY <1>1, <1>3, <1>4, <1>5 DEF Indexes

\* What is in a buffer is a slot of the array.
LEMMA EntryBelow ==
  ASSUME CyInv, NEW l \in SoftLevels, NEW b \in Both, NEW x \in Unread(l, b)
  PROVE  /\ Entry(l, b, x) \in 0 .. cyp_size - 1
         /\ Entry(l, b, x) \in Used => cy_pend[cyp_cyclics][Entry(l, b, x)] > 0
<1> DEFINE e == Entry(l, b, x)
<1>1. CyTypes /\ SlotsRight /\ EntriesValid /\ Phases
  BY DEF CyInv
<1>2. x \in Indexes /\ cypc_size[l][b] # 0 /\ cypc_size[l][b] \in Sizes
  BY <1>1 DEF Unread, Indexes, CyTypes
<1>3. e \in Slots
  BY <1>1, <1>2, EntryIs
<1>4. Pending(l, e) \/ LeftOver(l, e)
  BY <1>1 DEF EntriesValid
<1>5. cyp_size \in Nat
  BY <1>1, SizesAre DEF CyTypes
<1>6. CASE Pending(l, e)
  <2>1. PICK c \in Cyclics : slot[c] = e /\ cy_pend[cyp_cyclics][e] > 0
    BY <1>6 DEF Pending
  <2>2. slot[c] < cyp_size
    BY <2>1, <1>1, <1>3, ConstantsAre DEF SlotsRight
  <2> QED  BY <2>1, <2>2, <1>3, <1>5 DEF Slots
<1>7. CASE LeftOver(l, e)
  <2>1. cy_handler[cyp_cyclics][e] = opc /\ opc \in Cyclics /\ e \notin Used
    BY <1>7, <1>1 DEF LeftOver, Removal, Phases
  <2>2. ~(e >= cyp_size)
    BY <2>1, <1>1, <1>3, ConstantsAre DEF SlotsRight
  <2> QED  BY <2>1, <2>2, <1>3, <1>5 DEF Slots
<1> QED  BY <1>4, <1>6, <1>7

\* There is room for a cyclic that is not pending.
LEMMA RoomLeft ==
  ASSUME CyInv, NEW l \in SoftLevels, NEW c \in Cyclics, slot[c] # NoCyclic, cy_pend[cyp_cyclics][slot[c]] = 0
  PROVE  Lead(cypc_prodndx[l][cys_hard[l]], First(l, cys_hard[l])) < cyp_size
<1> DEFINE b == cys_hard[l]   f == First(l, b)   p == cypc_prodndx[l][b]   i == slot[c]
           S == 0 .. cyp_size - 1   g == [k \in S |-> Entry(l, b, At(f, k))]
<1>1. CyTypes /\ SlotsRight /\ BuffersRight /\ SoftRight /\ EntriesOnce
  BY DEF CyInv
<1>2. b \in Both /\ cypc_size[l][b] = cyp_size /\ cyp_size \in Sizes /\ cyp_size \in Nat /\ cyp_size < Wrap
  BY <1>1, SoftSize, SizesAre
<1>3. f \in Indexes /\ p \in Indexes /\ Unread(l, b) = Ring(f, p)
  BY <1>1, <1>2, UnreadIs
<1>4. i \in S /\ i \in Used
  <2>1. i \in Slots /\ i < cyp_size /\ i \in Used
    BY <1>1, SlotIs DEF SlotsRight
  <2> QED  BY <2>1, <1>2 DEF Slots
<1>5. Lead(p, f) \in Int
  BY <1>3, LeadIs DEF Indexes
<1>6. SUFFICES ASSUME cyp_size <= Lead(p, f) PROVE FALSE
  BY <1>2, <1>5
<1>7. \A k \in S : k \in Indexes /\ At(f, k) \in Unread(l, b) /\ Lead(At(f, k), f) = k
  <2>1. SUFFICES ASSUME NEW k \in S PROVE k \in Indexes /\ At(f, k) \in Unread(l, b) /\ Lead(At(f, k), f) = k
    OBVIOUS
  <2>2. k \in Indexes /\ k < Lead(p, f)
    BY <1>2, <1>5, <1>6, SizesAre DEF Indexes
  <2>3. At(f, k) \in Indexes /\ Lead(At(f, k), f) = k
    BY <1>3, <2>2, AtIs
  <2> QED  BY <1>3, <2>2, <2>3 DEF Ring
<1>8. \A k \in S : g[k] \in S \ {i}
  <2>1. SUFFICES ASSUME NEW k \in S PROVE g[k] \in S \ {i}
    OBVIOUS
  <2>2. Entry(l, b, At(f, k)) \in S /\ Entry(l, b, At(f, k)) # i
    BY <1>2, <1>4, <1>7, EntryBelow, 0 \in Int
  <2> QED  BY <2>2
<1>9. \A j, k \in S : g[j] = g[k] => j = k
  <2>1. SUFFICES ASSUME NEW j \in S, NEW k \in S, g[j] = g[k] PROVE j = k
    OBVIOUS
  <2>2. At(f, j) = At(f, k)
    BY <2>1, <1>1, <1>2, <1>7 DEF EntriesOnce, Alike
  <2> QED  BY <2>2, <1>7
<1>10. g \in Injection(S, S \ {i})
  <2> HIDE DEF g
  <2>1. g = [k \in S |-> g[k]] /\ DOMAIN g = S
    BY DEF g
  <2>2. g \in [S -> S \ {i}]
    BY <2>1, <1>8
  <2> QED  BY <2>1, <2>2, <1>9 DEF Injection, IsInjective
<1>11. IsFiniteSet(S) /\ Cardinality(S) = cyp_size
  <2>1. IsFiniteSet(S) /\ Cardinality(S) = IF 0 > cyp_size - 1 THEN 0 ELSE cyp_size - 1 - 0 + 1
    BY <1>2, FS_Interval, cyp_size - 1 \in Int, 0 \in Int
  <2> QED  BY <2>1, <1>2
<1>12. IsFiniteSet(S \ {i}) /\ Cardinality(S \ {i}) = Cardinality(S) - 1
  BY <1>4, <1>11, FS_RemoveElement
<1>13. Cardinality(S) <= Cardinality(S \ {i})
  BY <1>10, <1>12, FS_Injection
<1> QED  BY <1>2, <1>11, <1>12, <1>13

-----------------------------------------------------------------------------
(* The soft interrupts                                                     *)

\* What the array says is the same and the buffers hold the same.
LEMMA EntriesSame ==
  ASSUME CyInv, UNCHANGED <<array, cypc_buf, cypc_prodndx, cypc_size, opc>>, Removal' <=> Removal,
         \A k \in SoftLevels, b \in Both : First(k, b)' = First(k, b)
  PROVE  EntriesValid' /\ EntriesOnce'
<1>1. \A k \in SoftLevels, b \in Both : Unread(k, b)' = Unread(k, b)
  BY DEF Unread
<1>2. \A k, b, x : Entry(k, b, x)' = Entry(k, b, x)
  BY DEF Entry
<1>3. Used' = Used
  BY DEF Used, array
<1>4. \A k, i : Pending(k, i)' <=> Pending(k, i)
  BY DEF Pending, array
<1>5. \A k, i : LeftOver(k, i)' <=> LeftOver(k, i)
  BY <1>3 DEF LeftOver, array
<1>6. EntriesValid /\ EntriesOnce
  BY DEF CyInv
<1>7. EntriesValid'
  BY <1>1, <1>2, <1>4, <1>5, <1>6 DEF EntriesValid
<1>8. EntriesOnce'
  BY <1>1, <1>2, <1>3, <1>6 DEF EntriesOnce, Alike
<1> QED  BY <1>7, <1>8

\* Nothing changes but what belongs to level l.
Only(l) ==
  /\ \A k \in SoftLevels : k # l =>
       /\ softpc'[k] = softpc[k] /\ cyclics'[k] = cyclics[k] /\ soft'[k] = soft[k] /\ ndx'[k] = ndx[k]
       /\ consndx'[k] = consndx[k] /\ handler'[k] = handler[k] /\ pend'[k] = pend[k]
       /\ resized'[k] = resized[k] /\ cys_soft'[k] = cys_soft[k]
       /\ cypc_consndx'[k] = cypc_consndx[k]
  /\ UNCHANGED <<cyp_state, cyp_rpend, cyp_size, cyp_cyclics, cy_handler, slot, cys_hard, cypc_buf, cypc_prodndx,
                 cypc_size, op, opc>>

LEMMA OtherLevels ==
  ASSUME CyInv, NEW l \in SoftLevels, Only(l), NEW k \in SoftLevels, k # l
  PROVE  SoftAt(k)' /\ \A b \in Both : First(k, b)' = First(k, b)
<1>1. SoftAt(k)
  BY DEF CyInv, SoftRight
<1>2. \A x : Entry(k, soft[k], x)' = Entry(k, soft[k], x)
  BY DEF Only, Entry
<1>3. SoftAt(k)'
  BY <1>1, <1>2 DEF SoftAt, Only
<1> QED  BY <1>3 DEF First, Only

\* A step of level l that leaves the counts alone.
LEMMA SoftStep ==
  ASSUME CyInv, NEW l \in SoftLevels, Only(l), CyTypes', cy_pend' = cy_pend,
         cyp_modify_wait' = cyp_modify_wait \/ op = "expand_wait",
         op = "expand" => cyp_modify_levels' = cyp_modify_levels,
         SoftAt(l)', ResizeRight',
         \A b \in Both : First(l, b)' = First(l, b),
         op = "expand" => cypc_consndx'[l][1 - cys_hard[l]] = cypc_consndx[l][1 - cys_hard[l]],
         \A c \in Cyclics : IF cy_level[c] = l THEN OwedAt(c)' ELSE owed'[c] = owed[c]
  PROVE  CyInv'
<1>1. CyTypes /\ Phases /\ SlotsRight /\ BuffersRight /\ SoftRight /\ OwedRight
  BY DEF CyInv
<1>2. Phases'
  BY <1>1 DEF Phases, Only
<1>3. SlotsRight'
  BY <1>1 DEF SlotsRight, Only, Used
<1>4. BuffersRight'
  <2>1. SUFFICES ASSUME NEW k \in SoftLevels PROVE BufferAt(k)'
    BY DEF BuffersRight
  <2>2. BufferAt(k)
    BY <1>1 DEF BuffersRight
  <2>3. op = "expand" => cypc_consndx'[k][1 - cys_hard[k]] = cypc_consndx[k][1 - cys_hard[k]]
    BY DEF Only
  <2> QED  BY <2>2, <2>3 DEF BufferAt, Only
<1>5. SoftRight'
  BY OtherLevels DEF SoftRight
<1>6. Removal' <=> Removal
  BY DEF Removal, Only
<1>7. EntriesValid' /\ EntriesOnce'
  <2>1. \A k \in SoftLevels, b \in Both : First(k, b)' = First(k, b)
    BY OtherLevels
  <2> QED  BY <1>6, <2>1, EntriesSame DEF Only, array
<1>8. OwedRight'
  <2>1. SUFFICES ASSUME NEW c \in Cyclics, cy_level[c] # l PROVE OwedAt(c)'
    BY DEF OwedRight
  <2>2. cy_level[c] \in SoftLevels
    BY ConstantsAre
  <2>3. OwedAt(c) /\ owed'[c] = owed[c]
    BY <1>1, <2>1 DEF OwedRight
  <2> QED  BY <1>6, <2>1, <2>2, <2>3 DEF OwedAt, Flight, Only
<1> QED  BY <1>2, <1>3, <1>4, <1>5, <1>7, <1>8 DEF CyInv

\* Who has told of the resize, and who is about to end it.
LEMMA ResizeSame ==
  ASSUME ResizeRight, UNCHANGED <<op, cyp_modify_levels, cyp_modify_wait>>,
         \A k \in SoftLevels : (Told(k)' <=> Told(k)) /\ (softpc'[k] = "kick" <=> softpc[k] = "kick")
  PROVE  ResizeRight'
BY LevelsAre DEF ResizeRight, Count

\* The same calls are left to be made.
LEMMA OwedSame ==
  ASSUME CyInv, NEW l \in SoftLevels, Only(l), cy_pend' = cy_pend, Removal' <=> Removal,
         NEW c \in Cyclics, cy_level[c] = l, owed'[c] = owed[c], Flight(c)' = Flight(c),
         Removal /\ opc = c => /\ softpc'[l] = "rpend" <=> softpc[l] = "rpend"
                               /\ softpc[l] = "rpend" => pend'[l] = pend[l]
  PROVE  OwedAt(c)'
<1>1. OwedAt(c)
  BY DEF CyInv, OwedRight
<1> QED  BY <1>1 DEF OwedAt, Only

LEMMA StepSoftint ==
  ASSUME CyInv, NEW l \in SoftLevels, softint(l)
  PROVE  CyInv'
<1>1. CyTypes /\ Phases /\ SoftAt(l) /\ ResizeRight
  BY DEF CyInv, SoftRight
<1>2. Only(l) /\ cy_pend' = cy_pend
  BY <1>1 DEF softint, Only, Goto, Set, CyTypes, cpu, array, buffer, local, thread
<1>3. CyTypes'
  BY <1>1 DEF softint, CyTypes, Goto, Set, SoftLabels, cpu, array, buffer, local, thread
<1>4. SoftAt(l)'
  BY <1>1 DEF softint, CyTypes, SoftAt, Entry, Goto, Set, InBuffer, InEntry, cpu, array, buffer, local, thread
<1>5. ResizeRight'
  <2>1. UNCHANGED <<op, cyp_modify_levels, cyp_modify_wait>>
    BY DEF softint, cpu, thread
  <2>2. (Told(l)' <=> Told(l)) /\ (softpc'[l] = "kick" <=> softpc[l] = "kick")
    BY <1>1 DEF softint, CyTypes, SoftAt, InBuffer, Told, Goto, Set, buffer, local
  <2>3. \A k \in SoftLevels : k # l => (Told(k)' <=> Told(k)) /\ (softpc'[k] = "kick" <=> softpc[k] = "kick")
    BY <1>2 DEF Told, Only
  <2> QED  BY <1>1, <2>1, <2>2, <2>3, ResizeSame
<1>6. \A b \in Both : First(l, b)' = First(l, b)
  BY <1>1 DEF softint, CyTypes, SoftAt, InBuffer, First, Goto, Set, buffer, local
<1>7. \A c \in Cyclics : IF cy_level[c] = l THEN OwedAt(c)' ELSE owed'[c] = owed[c]
  <2>1. Removal' <=> Removal
    BY DEF softint, Removal, cpu, thread
  <2>2. \A c \in Cyclics : cy_level[c] = l => Flight(c)' = Flight(c)
    BY <1>1 DEF softint, CyTypes, SoftAt, InEntry, Flight, Goto, Set, local
  <2>3. owed' = owed /\ ~(softpc[l] = "rpend") /\ ~(softpc'[l] = "rpend")
    BY <1>1 DEF softint, CyTypes, Goto
  <2> QED  BY <1>2, <2>1, <2>2, <2>3, OwedSame
<1> QED  BY <1>2, <1>3, <1>4, <1>5, <1>6, <1>7, SoftStep DEF softint, cpu, buffer

LEMMA StepTop ==
  ASSUME CyInv, NEW l \in SoftLevels, softint_top(l)
  PROVE  CyInv'
<1>1. CyTypes /\ Phases /\ SoftAt(l) /\ ResizeRight
  BY DEF CyInv, SoftRight
<1>2. Only(l) /\ cy_pend' = cy_pend
  BY <1>1 DEF softint_top, Only, Goto, Set, CyTypes, cpu, array, buffer, local, thread
<1>3. CyTypes'
  BY <1>1 DEF softint_top, CyTypes, Goto, Set, SoftLabels, cpu, array, buffer, local, thread
<1>4. SoftAt(l)'
  BY <1>1 DEF softint_top, CyTypes, SoftAt, Entry, Goto, Set, InBuffer, InEntry, cpu, array, buffer, local, thread
<1>5. ResizeRight'
  <2>1. UNCHANGED <<op, cyp_modify_levels, cyp_modify_wait>>
    BY DEF softint_top, cpu, thread
  <2>2. (Told(l)' <=> Told(l)) /\ (softpc'[l] = "kick" <=> softpc[l] = "kick")
    BY <1>1 DEF softint_top, CyTypes, SoftAt, InBuffer, Told, Goto, Set, buffer, local
  <2>3. \A k \in SoftLevels : k # l => (Told(k)' <=> Told(k)) /\ (softpc'[k] = "kick" <=> softpc[k] = "kick")
    BY <1>2 DEF Told, Only
  <2> QED  BY <1>1, <2>1, <2>2, <2>3, ResizeSame
<1>6. \A b \in Both : First(l, b)' = First(l, b)
  BY <1>1 DEF softint_top, CyTypes, SoftAt, InBuffer, First, Goto, Set, buffer, local
<1>7. \A c \in Cyclics : IF cy_level[c] = l THEN OwedAt(c)' ELSE owed'[c] = owed[c]
  <2>1. Removal' <=> Removal
    BY DEF softint_top, Removal, cpu, thread
  <2>2. \A c \in Cyclics : cy_level[c] = l => Flight(c)' = Flight(c)
    BY <1>1 DEF softint_top, CyTypes, SoftAt, InEntry, Flight, Goto, Set, local
  <2>3. owed' = owed /\ ~(softpc[l] = "rpend") /\ ~(softpc'[l] = "rpend")
    BY <1>1 DEF softint_top, CyTypes, Goto
  <2> QED  BY <1>2, <2>1, <2>2, <2>3, OwedSame
<1> QED  BY <1>2, <1>3, <1>4, <1>5, <1>6, <1>7, SoftStep DEF softint_top, cpu, buffer

LEMMA StepPost ==
  ASSUME CyInv, NEW l \in SoftLevels, softint_post(l)
  PROVE  CyInv'
<1>1. CyTypes /\ Phases /\ SoftAt(l) /\ ResizeRight
  BY DEF CyInv, SoftRight
<1>a. l = 1
  BY <1>1 DEF softint_post, SoftAt
<1>2. Only(l) /\ cy_pend' = cy_pend
  BY <1>1 DEF softint_post, Only, Goto, Set, CyTypes, cpu, array, buffer, local, thread
<1>3. CyTypes'
  BY <1>1, <1>a, LevelsAre DEF softint_post, CyTypes, Goto, Set, SoftLabels, cpu, array, buffer, local, thread
<1>4. SoftAt(l)'
  BY <1>1 DEF softint_post, CyTypes, SoftAt, Entry, Goto, Set, InBuffer, InEntry, cpu, array, buffer, local, thread
<1>5. ResizeRight'
  <2>1. UNCHANGED <<op, cyp_modify_levels, cyp_modify_wait>>
    BY DEF softint_post, cpu, thread
  <2>2. (Told(l)' <=> Told(l)) /\ (softpc'[l] = "kick" <=> softpc[l] = "kick")
    BY <1>1 DEF softint_post, CyTypes, SoftAt, InBuffer, Told, Goto, Set, buffer, local
  <2>3. \A k \in SoftLevels : k # l => (Told(k)' <=> Told(k)) /\ (softpc'[k] = "kick" <=> softpc[k] = "kick")
    BY <1>2 DEF Told, Only
  <2> QED  BY <1>1, <2>1, <2>2, <2>3, ResizeSame
<1>6. \A b \in Both : First(l, b)' = First(l, b)
  BY <1>1 DEF softint_post, CyTypes, SoftAt, InBuffer, First, Goto, Set, buffer, local
<1>7. \A c \in Cyclics : IF cy_level[c] = l THEN OwedAt(c)' ELSE owed'[c] = owed[c]
  <2>1. Removal' <=> Removal
    BY DEF softint_post, Removal, cpu, thread
  <2>2. \A c \in Cyclics : cy_level[c] = l => Flight(c)' = Flight(c)
    BY <1>1 DEF softint_post, CyTypes, SoftAt, InEntry, Flight, Goto, Set, local
  <2>3. owed' = owed /\ ~(softpc[l] = "rpend") /\ ~(softpc'[l] = "rpend")
    BY <1>1 DEF softint_post, CyTypes, Goto
  <2> QED  BY <1>2, <2>1, <2>2, <2>3, OwedSame
<1> QED  BY <1>2, <1>3, <1>4, <1>5, <1>6, <1>7, SoftStep DEF softint_post, cpu, buffer

LEMMA StepWhile ==
  ASSUME CyInv, NEW l \in SoftLevels, softint_while(l)
  PROVE  CyInv'
<1>1. CyTypes /\ Phases /\ SoftAt(l) /\ ResizeRight
  BY DEF CyInv, SoftRight
<1>a. /\ soft[l] \in Both /\ soft[l] = cys_soft[l] /\ consndx[l] \in Indexes /\ cyclics[l] \in Both
      /\ Entry(l, soft[l], consndx[l]) \in Slots
      /\ cypc_buf[l][soft[l]][consndx[l] % cypc_size[l][soft[l]]] = Entry(l, soft[l], consndx[l])
  <2>1. soft[l] \in Both /\ soft[l] = cys_soft[l] /\ consndx[l] \in Indexes /\ cyclics[l] \in Both
    BY <1>1 DEF softint_while, CyTypes, SoftAt, InBuffer
  <2>2. cypc_size[l][soft[l]] \in Sizes
    BY <2>1, SoftSize DEF CyInv
  <2> QED  BY <1>1, <2>1, <2>2, EntryIs DEF Entry
<1>b. \A i \in Slots : cy_handler[cyclics[l]][i] = cy_handler[cyp_cyclics][i]
  <2>1. CASE cyclics[l] = cyp_cyclics
    BY <2>1
  <2>2. CASE cyclics[l] # cyp_cyclics
    <3>1. op = "expand_wait"
      BY <1>1, <2>2 DEF softint_while, SoftAt, InBuffer
    <3>2. cy_handler[0] = cy_handler[1] /\ cyclics[l] \in {0, 1} /\ cyp_cyclics \in {0, 1}
      BY <3>1, <1>1 DEF CyInv, SlotsRight, CyTypes, Both
    <3> QED  BY <3>2
  <2> QED  BY <2>1, <2>2
<1>c. \A x : Entry(l, soft[l], x)' = Entry(l, soft[l], x)
  BY DEF softint_while, Entry, buffer
<1>2. Only(l) /\ cy_pend' = cy_pend
  BY <1>1 DEF softint_while, Only, Goto, Set, CyTypes, cpu, array, buffer, local, thread
<1>3. CyTypes'
  <2>1. softpc' \in [SoftLevels -> SoftLabels]
    <3>1. softpc' = [softpc EXCEPT ![l] = "drained"] \/ softpc' = [softpc EXCEPT ![l] = "call"]
      BY DEF softint_while, Goto
    <3> QED  BY <1>1, <3>1 DEF CyTypes, SoftLabels
  <2>2. ndx' \in [SoftLevels -> Slots]
    BY <1>1, <1>a DEF softint_while, CyTypes, Set
  <2>3. handler' \in [SoftLevels -> Cyclics \cup {NoCyclic}]
    <3>1. cy_handler[cyclics[l]][Entry(l, soft[l], consndx[l])] \in Cyclics \cup {NoCyclic}
      BY <1>1, <1>a DEF CyTypes
    <3>2. \/ handler' = handler
          \/ handler' = [handler EXCEPT ![l] = cy_handler[cyclics[l]][Entry(l, soft[l], consndx[l])]]
      BY <1>a DEF softint_while, Set
    <3> QED  BY <1>1, <3>1, <3>2 DEF CyTypes
  <2> QED  BY <1>1, <2>1, <2>2, <2>3 DEF softint_while, CyTypes, cpu, array, buffer, thread
<1>4. SoftAt(l)'
  BY <1>1, <1>a, <1>b, <1>c DEF softint_while, CyTypes, SoftAt, Entry, Goto, Set, InBuffer, InEntry, cpu, array, buffer, local, thread
<1>5. ResizeRight'
  <2>1. UNCHANGED <<op, cyp_modify_levels, cyp_modify_wait>>
    BY DEF softint_while, cpu, thread
  <2>2. (Told(l)' <=> Told(l)) /\ (softpc'[l] = "kick" <=> softpc[l] = "kick")
    BY <1>1 DEF softint_while, CyTypes, SoftAt, InBuffer, Told, Goto, Set, buffer, local
  <2>3. \A k \in SoftLevels : k # l => (Told(k)' <=> Told(k)) /\ (softpc'[k] = "kick" <=> softpc[k] = "kick")
    BY <1>2 DEF Told, Only
  <2> QED  BY <1>1, <2>1, <2>2, <2>3, ResizeSame
<1>6. \A b \in Both : First(l, b)' = First(l, b)
  BY <1>1 DEF softint_while, CyTypes, SoftAt, InBuffer, First, Goto, Set, buffer, local
<1>7. \A c \in Cyclics : IF cy_level[c] = l THEN OwedAt(c)' ELSE owed'[c] = owed[c]
  <2>1. Removal' <=> Removal
    BY DEF softint_while, Removal, cpu, thread
  <2>2. \A c \in Cyclics : cy_level[c] = l => Flight(c)' = Flight(c)
    BY <1>1 DEF softint_while, CyTypes, SoftAt, InEntry, Flight, Goto, Set, local
  <2>3. owed' = owed /\ ~(softpc[l] = "rpend") /\ ~(softpc'[l] = "rpend")
    BY <1>1 DEF softint_while, CyTypes, Goto
  <2> QED  BY <1>2, <2>1, <2>2, <2>3, OwedSame
<1> QED  BY <1>2, <1>3, <1>4, <1>5, <1>6, <1>7, SoftStep DEF softint_while, cpu, buffer

LEMMA StepCall ==
  ASSUME CyInv, NEW l \in SoftLevels, call(l)
  PROVE  CyInv'
<1>1. CyTypes /\ Phases /\ SoftAt(l) /\ ResizeRight
  BY DEF CyInv, SoftRight
<1>a. /\ handler[l] \in Cyclics /\ cy_level[handler[l]] = l /\ ndx[l] \in Slots
      /\ \/ slot[handler[l]] = ndx[l] /\ cy_pend[cyp_cyclics][ndx[l]] > 0
         \/ Removal /\ handler[l] = opc /\ slot[opc] = NoCyclic
  BY HeadIs DEF call, InEntry
<1>b. owed[handler[l]] > 0
  <2>1. OwedAt(handler[l]) /\ Flight(handler[l]) = 0 /\ softpc[l] # "rpend"
    BY <1>a DEF CyInv, OwedRight, Flight, Count, call
  <2>2. cyp_rpend \in Int /\ cy_pend[cyp_cyclics][ndx[l]] \in Int
    BY <1>1, <1>a DEF CyTypes
  <2> QED  BY <1>a, <2>1, <2>2, ConstantsAre DEF OwedAt, Removal
<1>c. owed' \in [Cyclics -> Nat]
  BY <1>1, <1>a, <1>b DEF call, Handled, CyTypes
<1>2. Only(l) /\ cy_pend' = cy_pend
  BY <1>1 DEF call, Only, Goto, Set, CyTypes, cpu, array, buffer, local, thread
<1>3. CyTypes'
  BY <1>1, <1>b, <1>c DEF call, CyTypes, Goto, Set, SoftLabels, cpu, array, buffer, local, thread
<1>4. SoftAt(l)'
  BY <1>1 DEF call, CyTypes, SoftAt, Entry, Goto, Set, InBuffer, InEntry, cpu, array, buffer, local, thread
<1>5. ResizeRight'
  <2>1. UNCHANGED <<op, cyp_modify_levels, cyp_modify_wait>>
    BY DEF call, cpu, thread
  <2>2. (Told(l)' <=> Told(l)) /\ (softpc'[l] = "kick" <=> softpc[l] = "kick")
    BY <1>1 DEF call, CyTypes, SoftAt, InBuffer, Told, Goto, Set, buffer, local
  <2>3. \A k \in SoftLevels : k # l => (Told(k)' <=> Told(k)) /\ (softpc'[k] = "kick" <=> softpc[k] = "kick")
    BY <1>2 DEF Told, Only
  <2> QED  BY <1>1, <2>1, <2>2, <2>3, ResizeSame
<1>6. \A b \in Both : First(l, b)' = First(l, b)
  BY <1>1 DEF call, CyTypes, SoftAt, InBuffer, First, Goto, Set, buffer, local
<1>7. \A c \in Cyclics : IF cy_level[c] = l THEN OwedAt(c)' ELSE owed'[c] = owed[c]
  <2>1. SUFFICES ASSUME NEW c \in Cyclics PROVE IF cy_level[c] = l THEN OwedAt(c)' ELSE owed'[c] = owed[c]
    OBVIOUS
  <2>2. Removal' <=> Removal
    BY DEF call, Removal, cpu, thread
  <2>3. CASE c # handler[l]
    <3>1. owed'[c] = owed[c]
      BY <1>1, <2>3 DEF call, Handled, CyTypes
    <3>2. cy_level[c] = l => Flight(c)' = Flight(c)
      BY <1>1, <2>3 DEF call, Flight, Goto, CyTypes, local
    <3>3. Removal /\ opc = c => /\ softpc'[l] = "rpend" <=> softpc[l] = "rpend"
                                /\ softpc[l] = "rpend" => pend'[l] = pend[l]
      BY <1>1 DEF call, Goto, CyTypes
    <3> QED  BY <1>2, <2>2, <3>1, <3>2, <3>3, OwedSame
  <2>4. CASE c = handler[l]
    <3>1. cy_level[c] = l /\ OwedAt(c) /\ owed[c] \in Nat /\ owed'[c] = owed[c] - 1
      BY <1>1, <1>a, <2>4 DEF CyInv, OwedRight, CyTypes, call, Handled
    <3>2. Flight(c) = 0 /\ Flight(c)' = 1 /\ softpc[l] # "rpend" /\ softpc'[l] # "rpend"
      BY <1>1, <2>4, <3>1 DEF Flight, Count, call, CyTypes, Goto, local
    <3>3. (Removal /\ opc = c) \/ slot[c] # NoCyclic
      BY <1>1, <1>a, <2>4, ConstantsAre
    <3>4. UNCHANGED <<slot, cy_pend, cyp_cyclics, opc, cyp_rpend>>
      BY DEF call, array, cpu, thread
    <3>5. cyp_rpend \in Int /\ cy_pend[cyp_cyclics][ndx[l]] \in Int
      BY <1>1, <1>a DEF CyTypes
    <3>6. slot[c] # NoCyclic => cy_pend[cyp_cyclics][slot[c]] \in Int
      BY <1>1 DEF CyTypes
    <3> QED  BY <2>2, <3>1, <3>2, <3>3, <3>4, <3>5, <3>6 DEF OwedAt
  <2> QED  BY <2>3, <2>4
<1> QED  BY <1>2, <1>3, <1>4, <1>5, <1>6, <1>7, SoftStep DEF call, cpu, buffer

LEMMA StepReread ==
  ASSUME CyInv, NEW l \in SoftLevels, reread(l)
  PROVE  CyInv'
<1>1. CyTypes /\ Phases /\ SoftAt(l) /\ ResizeRight
  BY DEF CyInv, SoftRight
<1>a. /\ handler[l] \in Cyclics /\ cy_level[handler[l]] = l /\ ndx[l] \in Slots
      /\ \/ slot[handler[l]] = ndx[l] /\ cy_pend[cyp_cyclics][ndx[l]] > 0
         \/ op = "remove_wait" /\ handler[l] = opc /\ slot[opc] = NoCyclic
  BY HeadIs DEF reread, InEntry, Removal
<1>b. cyclics[l] \in Both /\ cyp_cyclics \in Both /\ cy_pend[cyclics[l]][ndx[l]] \in Nat
  BY <1>1, <1>a DEF CyTypes
<1>2. Only(l) /\ cy_pend' = cy_pend
  BY <1>1 DEF reread, Only, Goto, Set, CyTypes, cpu, array, buffer, local, thread
<1>3. CyTypes'
  BY <1>1, <1>b DEF reread, CyTypes, Goto, Set, SoftLabels, cpu, array, buffer, local, thread
<1>4. SoftAt(l)'
  BY <1>1, <1>a, <1>b DEF reread, CyTypes, SoftAt, Entry, Goto, Set, InBuffer, InEntry, cpu, array, buffer, local, thread
<1>5. ResizeRight'
  <2>1. UNCHANGED <<op, cyp_modify_levels, cyp_modify_wait>>
    BY DEF reread, cpu, thread
  <2>2. (Told(l)' <=> Told(l)) /\ (softpc'[l] = "kick" <=> softpc[l] = "kick")
    BY <1>1 DEF reread, CyTypes, SoftAt, InBuffer, Told, Goto, Set, buffer, local
  <2>3. \A k \in SoftLevels : k # l => (Told(k)' <=> Told(k)) /\ (softpc'[k] = "kick" <=> softpc[k] = "kick")
    BY <1>2 DEF Told, Only
  <2> QED  BY <1>1, <2>1, <2>2, <2>3, ResizeSame
<1>6. \A b \in Both : First(l, b)' = First(l, b)
  BY <1>1 DEF reread, CyTypes, SoftAt, InBuffer, First, Goto, Set, buffer, local
<1>7. \A c \in Cyclics : IF cy_level[c] = l THEN OwedAt(c)' ELSE owed'[c] = owed[c]
  <2>1. Removal' <=> Removal
    BY DEF reread, Removal, cpu, thread
  <2>2. \A c \in Cyclics : cy_level[c] = l => Flight(c)' = Flight(c)
    BY <1>1 DEF reread, CyTypes, SoftAt, InEntry, Flight, Goto, Set, local
  <2>3. owed' = owed /\ ~(softpc[l] = "rpend") /\ ~(softpc'[l] = "rpend")
    BY <1>1 DEF reread, CyTypes, Goto
  <2> QED  BY <1>2, <2>1, <2>2, <2>3, OwedSame
<1> QED  BY <1>2, <1>3, <1>4, <1>5, <1>6, <1>7, SoftStep DEF reread, cpu, buffer

LEMMA StepZero ==
  ASSUME CyInv, NEW l \in SoftLevels, zero(l)
  PROVE  CyInv'
<1>1. CyTypes /\ Phases /\ SoftAt(l) /\ ResizeRight
  BY DEF CyInv, SoftRight
<1>b. cyp_state = "REMOVING" => /\ Removal /\ handler[l] = opc /\ slot[opc] = NoCyclic
                                 /\ cyp_rpend > 0 /\ cyp_rpend - 1 \in Nat /\ op = "remove_wait"
  <2>1. op = "remove_wait" => handler[l] = opc /\ slot[opc] = NoCyclic
    BY <1>1 DEF zero, SoftAt, Phases
  <2>2. cyp_state = "REMOVING" => op = "remove_wait"
    BY <1>1 DEF zero, Phases, SoftAt, InBuffer
  <2>3. op = "remove_wait" => Removal
    BY <2>1, HeadIs, ConstantsAre DEF zero, InEntry
  <2> QED  BY <2>1, <2>2, <2>3, <1>1 DEF Removal, CyTypes
<1>c. cyp_state # "REMOVING" => op # "remove_wait"
  BY <1>1 DEF Phases
<1>2. Only(l) /\ cy_pend' = cy_pend
  BY <1>1 DEF zero, Only, Goto, Set, CyTypes, cpu, array, buffer, local, thread
<1>3. CyTypes'
  BY <1>1, <1>b DEF zero, CyTypes, Goto, Set, SoftLabels, cpu, array, buffer, local, thread
<1>4. SoftAt(l)'
  BY <1>1, <1>b, <1>c DEF zero, CyTypes, SoftAt, Entry, Goto, Set, InBuffer, InEntry, cpu, array, buffer, local, thread
<1>5. ResizeRight'
  <2>1. UNCHANGED <<op, cyp_modify_levels, cyp_modify_wait>>
    BY DEF zero, cpu, thread
  <2>2. (Told(l)' <=> Told(l)) /\ (softpc'[l] = "kick" <=> softpc[l] = "kick")
    BY <1>1 DEF zero, CyTypes, SoftAt, InBuffer, Told, Goto, Set, buffer, local
  <2>3. \A k \in SoftLevels : k # l => (Told(k)' <=> Told(k)) /\ (softpc'[k] = "kick" <=> softpc[k] = "kick")
    BY <1>2 DEF Told, Only
  <2> QED  BY <1>1, <2>1, <2>2, <2>3, ResizeSame
<1>6. \A b \in Both : First(l, b)' = First(l, b)
  BY <1>1 DEF zero, CyTypes, SoftAt, InBuffer, First, Goto, Set, buffer, local
<1>7. \A c \in Cyclics : IF cy_level[c] = l THEN OwedAt(c)' ELSE owed'[c] = owed[c]
  <2>1. SUFFICES ASSUME NEW c \in Cyclics, cy_level[c] = l PROVE OwedAt(c)'
    BY DEF zero
  <2>2. (Removal' <=> Removal) /\ owed' = owed
    BY DEF zero, Removal, cpu, thread
  <2>3. CASE cyp_state # "REMOVING"
    <3>1. Flight(c)' = Flight(c) /\ softpc[l] # "rpend" /\ softpc'[l] # "rpend"
      BY <1>1, <2>1, <2>3 DEF zero, Flight, Goto, CyTypes
    <3> QED  BY <1>2, <2>1, <2>2, <3>1, OwedSame
  <2>4. CASE cyp_state = "REMOVING" /\ handler[l] # c
    <3>1. Flight(c)' = Flight(c) /\ ~(Removal /\ opc = c)
      BY <1>1, <1>b, <2>1, <2>4 DEF zero, Flight, CyTypes
    <3> QED  BY <1>2, <2>1, <2>2, <3>1, OwedSame
  <2>5. CASE cyp_state = "REMOVING" /\ handler[l] = c
    <3>1. OwedAt(c) /\ c = opc /\ Removal /\ cyp_rpend \in Nat /\ slot[c] = NoCyclic
      BY <1>1, <1>b, <2>5 DEF CyInv, OwedRight, CyTypes
    <3>2. Flight(c) = 1 /\ softpc[l] # "rpend" /\ softpc'[l] = "rpend" /\ pend'[l] = cyp_rpend - 1
      BY <1>1, <2>1, <2>5 DEF zero, Goto, Set, Flight, Count, CyTypes
    <3>3. UNCHANGED <<slot, opc>>
      BY DEF zero, array, thread
    <3> QED  BY <2>1, <2>2, <3>1, <3>2, <3>3 DEF OwedAt
  <2> QED  BY <2>3, <2>4, <2>5
<1> QED  BY <1>2, <1>3, <1>4, <1>5, <1>6, <1>7, SoftStep DEF zero, cpu, buffer

LEMMA StepDrained ==
  ASSUME CyInv, NEW l \in SoftLevels, softint_drained(l)
  PROVE  CyInv'
<1>1. CyTypes /\ Phases /\ SoftAt(l) /\ ResizeRight
  BY DEF CyInv, SoftRight
<1>a. soft[l] = cys_soft[l]
  BY <1>1 DEF softint_drained, SoftAt, InBuffer
<1>b. 0 \in Both /\ 0 \in Indexes
  BY SizesAre DEF Both, Indexes
<1>2. Only(l) /\ cy_pend' = cy_pend
  BY <1>1 DEF softint_drained, Only, Goto, Set, Leave, CyTypes, cpu, array, buffer, local, thread
<1>3. CyTypes'
  <2>1. CASE soft[l] # cys_hard[l]
    <3>1. softpc' = [softpc EXCEPT ![l] = "top"] /\ resized' = [resized EXCEPT ![l] = TRUE]
      BY <2>1 DEF softint_drained, Goto, Set
    <3>2. softpc' \in [SoftLevels -> SoftLabels] /\ resized' \in [SoftLevels -> BOOLEAN]
      BY <1>1, <3>1 DEF CyTypes, SoftLabels
    <3>3. cyclics' \in [SoftLevels -> Both] /\ cys_soft' \in [SoftLevels -> Both]
      <4>1. /\ cyclics' = [cyclics EXCEPT ![l] = cyp_cyclics] /\ cys_soft' = [cys_soft EXCEPT ![l] = cys_hard[l]]
        BY <2>1 DEF softint_drained, Set
      <4> QED  BY <1>1, <4>1 DEF CyTypes
    <3> QED  BY <1>1, <2>1, <3>2, <3>3 DEF softint_drained, CyTypes, cpu, array, thread
  <2>2. CASE soft[l] = cys_hard[l]
    <3>1. softpc' \in [SoftLevels -> SoftLabels]
      BY <1>1, <2>2 DEF softint_drained, CyTypes, Goto, Leave, SoftLabels
    <3>2. /\ cyclics' \in [SoftLevels -> Both] /\ soft' \in [SoftLevels -> Both]
          /\ consndx' \in [SoftLevels -> Indexes]
      <4>1. /\ cyclics' = [cyclics EXCEPT ![l] = 0] /\ soft' = [soft EXCEPT ![l] = 0]
            /\ consndx' = [consndx EXCEPT ![l] = 0]
        BY <2>2 DEF softint_drained, Set, Leave
      <4> QED  BY <1>1, <1>b, <4>1 DEF CyTypes
    <3>3. resized' = [resized EXCEPT ![l] = FALSE]
      BY <2>2 DEF softint_drained, Set, Leave
    <3>4. resized' \in [SoftLevels -> BOOLEAN]
      BY <1>1, <3>3 DEF CyTypes
    <3> QED  BY <1>1, <2>2, <3>1, <3>2, <3>4 DEF softint_drained, CyTypes, Leave, cpu, array, thread
  <2> QED  BY <2>1, <2>2
<1>4. SoftAt(l)'
  BY <1>1, <1>a DEF softint_drained, CyTypes, SoftAt, Entry, Goto, Set, Leave, InBuffer, InEntry, cpu, array, buffer, local, thread
<1>5. ResizeRight'
  <2>1. UNCHANGED <<op, cyp_modify_levels, cyp_modify_wait>>
    BY DEF softint_drained, cpu, thread
  <2>2. (Told(l)' <=> Told(l)) /\ (softpc'[l] = "kick" <=> softpc[l] = "kick")
    <3>1. CASE soft[l] # cys_hard[l]
      BY <1>1, <1>a, <3>1 DEF softint_drained, CyTypes, Told, Goto, Set
    <3>2. CASE soft[l] = cys_hard[l] /\ resized[l]
      BY <1>1, <1>a, <3>2 DEF softint_drained, CyTypes, Told, Goto, Leave
    <3>3. CASE soft[l] = cys_hard[l] /\ ~resized[l]
      BY <1>1, <1>a, <3>3 DEF softint_drained, CyTypes, Told, Goto, Set, Leave
    <3> QED  BY <3>1, <3>2, <3>3
  <2>3. \A k \in SoftLevels : k # l => (Told(k)' <=> Told(k)) /\ (softpc'[k] = "kick" <=> softpc[k] = "kick")
    BY <1>2 DEF Told, Only
  <2> QED  BY <1>1, <2>1, <2>2, <2>3, ResizeSame
<1>6. \A b \in Both : First(l, b)' = First(l, b)
  BY <1>1 DEF softint_drained, CyTypes, SoftAt, InBuffer, First, Goto, Set, Leave, buffer, local
<1>7. \A c \in Cyclics : IF cy_level[c] = l THEN OwedAt(c)' ELSE owed'[c] = owed[c]
  <2>1. Removal' <=> Removal
    BY DEF softint_drained, Removal, cpu, thread
  <2>2. \A c \in Cyclics : cy_level[c] = l => Flight(c)' = Flight(c)
    BY <1>1 DEF softint_drained, CyTypes, SoftAt, InEntry, Flight, Goto, Set, Leave, local
  <2>3. owed' = owed /\ ~(softpc[l] = "rpend") /\ ~(softpc'[l] = "rpend")
    BY <1>1 DEF softint_drained, CyTypes, Goto, Leave
  <2> QED  BY <1>2, <2>1, <2>2, <2>3, OwedSame
<1> QED  BY <1>2, <1>3, <1>4, <1>5, <1>6, <1>7, SoftStep DEF softint_drained, cpu, buffer

LEMMA StepLevels ==
  ASSUME CyInv, NEW l \in SoftLevels, softint_levels(l)
  PROVE  CyInv'
<1>1. CyTypes /\ Phases /\ SoftAt(l) /\ ResizeRight
  BY DEF CyInv, SoftRight
<1>a. cyp_modify_levels < 2
  BY <1>1, LevelsAre DEF softint_levels, SoftAt, ResizeRight, Told, Count
<1>b. cyp_modify_levels + 1 \in {0, 1, 2}
  BY <1>1, <1>a DEF CyTypes
<1>d. op = "expand_wait"
  BY <1>1 DEF softint_levels, SoftAt
<1>2. Only(l) /\ cy_pend' = cy_pend
  BY <1>1 DEF softint_levels, Only, Goto, Set, CyTypes, cpu, array, buffer, local, thread
<1>3. CyTypes'
  BY <1>1, <1>a, <1>b DEF softint_levels, CyTypes, Goto, Set, SoftLabels, cpu, array, buffer, local, thread
<1>4. SoftAt(l)'
  BY <1>1, LevelsAre DEF softint_levels, CyTypes, SoftAt, Entry, Goto, Set, InBuffer, InEntry, cpu, array, buffer, local, thread
<1>5. ResizeRight'
  <2>1. op = "expand_wait" /\ op' = op /\ cyp_modify_wait' = cyp_modify_wait
    BY <1>1 DEF softint_levels, SoftAt, thread
  <2>2. ~Told(l) /\ Told(l)' /\ (softpc'[l] = "kick" <=> cyp_modify_levels + 1 = 2) /\ softpc[l] # "kick"
    BY <1>1, <1>a, LevelsAre DEF softint_levels, Told, Goto, CyTypes, SoftAt, InBuffer, buffer, local
  <2>3. \A k \in SoftLevels : k # l => (Told(k)' <=> Told(k)) /\ (softpc'[k] = "kick" <=> softpc[k] = "kick")
    BY <1>2 DEF Told, Only
  <2>4. cyp_modify_levels' = cyp_modify_levels + 1 /\ l \in {0, 1}
    BY LevelsAre DEF softint_levels
  <2> QED  BY <1>1, <2>1, <2>2, <2>3, <2>4, LevelsAre DEF ResizeRight, Count, CyTypes
<1>6. \A b \in Both : First(l, b)' = First(l, b)
  BY <1>1 DEF softint_levels, CyTypes, SoftAt, InBuffer, First, Goto, Set, buffer, local
<1>7. \A c \in Cyclics : IF cy_level[c] = l THEN OwedAt(c)' ELSE owed'[c] = owed[c]
  <2>1. Removal' <=> Removal
    BY DEF softint_levels, Removal, cpu, thread
  <2>2. \A c \in Cyclics : cy_level[c] = l => Flight(c)' = Flight(c)
    BY <1>1 DEF softint_levels, CyTypes, SoftAt, InEntry, Flight, Goto, Set, local
  <2>3. owed' = owed /\ ~(softpc[l] = "rpend") /\ ~(softpc'[l] = "rpend")
    BY <1>1 DEF softint_levels, CyTypes, Goto
  <2> QED  BY <1>2, <2>1, <2>2, <2>3, OwedSame
<1> QED  BY <1>2, <1>3, <1>4, <1>5, <1>6, <1>7, <1>d, SoftStep DEF softint_levels, cpu, buffer

LEMMA StepKick ==
  ASSUME CyInv, NEW l \in SoftLevels, softint_kick(l)
  PROVE  CyInv'
<1>1. CyTypes /\ Phases /\ SoftAt(l) /\ ResizeRight
  BY DEF CyInv, SoftRight
<1>d. op = "expand_wait"
  BY <1>1 DEF softint_kick, SoftAt
<1>a. cyp_modify_wait = 0
  BY <1>1, <1>d, LevelsAre DEF softint_kick, ResizeRight, Count, CyTypes
<1>2. Only(l) /\ cy_pend' = cy_pend
  BY <1>1 DEF softint_kick, Only, Goto, Set, CyTypes, cpu, array, buffer, local, thread
<1>3. CyTypes'
  BY <1>1, <1>a DEF softint_kick, CyTypes, Goto, Set, SoftLabels, cpu, array, buffer, local, thread
<1>4. SoftAt(l)'
  BY <1>1 DEF softint_kick, CyTypes, SoftAt, Entry, Goto, Set, InBuffer, InEntry, cpu, array, buffer, local, thread
<1>5. ResizeRight'
  <2>1. op = "expand_wait" /\ op' = op /\ cyp_modify_levels' = cyp_modify_levels
    BY <1>1 DEF softint_kick, SoftAt, thread
  <2>2. (Told(l)' <=> Told(l)) /\ softpc'[l] # "kick" /\ softpc[l] = "kick"
    BY <1>1 DEF softint_kick, Told, Goto, CyTypes, buffer, local
  <2>3. \A k \in SoftLevels : k # l => (Told(k)' <=> Told(k)) /\ (softpc'[k] = "kick" <=> softpc[k] = "kick")
    BY <1>2 DEF Told, Only
  <2>4. cyp_modify_wait' = cyp_modify_wait + 1 /\ l \in {0, 1}
    BY LevelsAre DEF softint_kick
  <2> QED  BY <1>1, <2>1, <2>2, <2>3, <2>4, LevelsAre DEF ResizeRight, Count, CyTypes
<1>6. \A b \in Both : First(l, b)' = First(l, b)
  BY <1>1 DEF softint_kick, CyTypes, SoftAt, InBuffer, First, Goto, Set, buffer, local
<1>7. \A c \in Cyclics : IF cy_level[c] = l THEN OwedAt(c)' ELSE owed'[c] = owed[c]
  <2>1. Removal' <=> Removal
    BY <1>d DEF softint_kick, Removal, cpu, thread
  <2>2. \A c \in Cyclics : cy_level[c] = l => Flight(c)' = Flight(c)
    BY <1>1 DEF softint_kick, CyTypes, SoftAt, InEntry, Flight, Goto, Set, local
  <2>3. owed' = owed /\ ~(softpc[l] = "rpend") /\ ~(softpc'[l] = "rpend")
    BY <1>1 DEF softint_kick, CyTypes, Goto
  <2> QED  BY <1>2, <2>1, <2>2, <2>3, OwedSame
<1> QED  BY <1>2, <1>3, <1>4, <1>5, <1>6, <1>7, <1>d, SoftStep DEF softint_kick, cpu, buffer

LEMMA StepNext ==
  ASSUME CyInv, NEW l \in SoftLevels, softint_next(l)
  PROVE  CyInv'
<1>1. CyTypes /\ Phases /\ SoftAt(l) /\ ResizeRight
  BY DEF CyInv, SoftRight
<1>a. 0 \in Slots /\ (consndx[l] + 1) % Wrap \in Indexes
  <2>1. consndx[l] \in Indexes /\ cyp_size \in Sizes
    BY <1>1 DEF CyTypes
  <2> QED  BY <2>1, SuccIs, SizesAre DEF Succ
<1>b. soft[l] = cys_soft[l] /\ consndx[l] = cypc_consndx[l][soft[l]] /\ soft[l] \in Both
  BY <1>1 DEF softint_next, SoftAt, InBuffer, CyTypes
<1>d. op = "expand" => cypc_consndx'[l][1 - cys_hard[l]] = cypc_consndx[l][1 - cys_hard[l]]
  <2>1. op = "expand" => soft[l] = cys_hard[l]
    BY <1>1, <1>b DEF SoftAt
  <2>2. cys_hard[l] \in Both /\ 1 - cys_hard[l] # cys_hard[l]
    BY <1>1, BothAre DEF CyTypes
  <2> QED  BY <1>1, <2>1, <2>2 DEF softint_next, CyTypes
<1>2. Only(l) /\ cy_pend' = cy_pend
  BY <1>1 DEF softint_next, Only, Goto, Set, CyTypes, cpu, array, buffer, local, thread
<1>3. CyTypes'
  BY <1>1, <1>a DEF softint_next, CyTypes, Goto, Set, SoftLabels, cpu, array, buffer, local, thread
<1>4. SoftAt(l)'
  BY <1>1, <1>b, SuccIs DEF softint_next, CyTypes, SoftAt, Entry, Goto, Set, InBuffer, InEntry, cpu, array, buffer, local, thread
<1>5. ResizeRight'
  <2>1. UNCHANGED <<op, cyp_modify_levels, cyp_modify_wait>>
    BY DEF softint_next, cpu, thread
  <2>2. (Told(l)' <=> Told(l)) /\ (softpc'[l] = "kick" <=> softpc[l] = "kick")
    BY <1>1 DEF softint_next, CyTypes, SoftAt, InBuffer, Told, Goto, Set, buffer, local
  <2>3. \A k \in SoftLevels : k # l => (Told(k)' <=> Told(k)) /\ (softpc'[k] = "kick" <=> softpc[k] = "kick")
    BY <1>2 DEF Told, Only
  <2> QED  BY <1>1, <2>1, <2>2, <2>3, ResizeSame
<1>6. \A b \in Both : First(l, b)' = First(l, b)
  BY <1>1, <1>b DEF softint_next, CyTypes, SoftAt, InBuffer, First, Goto, Set, buffer, local
<1>7. \A c \in Cyclics : IF cy_level[c] = l THEN OwedAt(c)' ELSE owed'[c] = owed[c]
  <2>1. Removal' <=> Removal
    BY DEF softint_next, Removal, cpu, thread
  <2>2. \A c \in Cyclics : cy_level[c] = l => Flight(c)' = Flight(c)
    BY <1>1 DEF softint_next, CyTypes, SoftAt, InEntry, Flight, Goto, Set, local
  <2>3. owed' = owed /\ ~(softpc[l] = "rpend") /\ ~(softpc'[l] = "rpend")
    BY <1>1 DEF softint_next, CyTypes, Goto
  <2> QED  BY <1>2, <2>1, <2>2, <2>3, OwedSame
<1> QED  BY <1>2, <1>3, <1>4, <1>5, <1>6, <1>7, <1>d, SoftStep DEF softint_next, cpu, buffer

\* The first entry is as good as consumed; nobody else has its slot.
LEMMA DropHead ==
  ASSUME CyInv, NEW l \in SoftLevels, softpc[l] \in InEntry, softpc'[l] = "next", Only(l),
         soft' = soft, cypc_consndx' = cypc_consndx
  PROVE  /\ \A k \in SoftLevels, b \in Both : \A x \in Unread(k, b)' :
              /\ x \in Unread(k, b) /\ Entry(k, b, x)' = Entry(k, b, x)
              /\ ~Alike(Entry(k, b, x), ndx[l])
<1>1. CyTypes /\ BuffersRight /\ SoftRight /\ EntriesOnce /\ SoftAt(l)
  BY DEF CyInv, SoftRight
<1>2. /\ consndx[l] \in Unread(l, soft[l]) /\ Entry(l, soft[l], consndx[l]) = ndx[l]
      /\ First(l, soft[l]) = consndx[l] /\ soft[l] = cys_soft[l] /\ soft[l] \in Both
  BY HeadIs
<1>3. /\ softpc[l] \in InBuffer /\ softpc[l] # "next"
      /\ consndx[l] = cypc_consndx[l][soft[l]] /\ consndx[l] # cypc_prodndx[l][soft[l]]
      /\ consndx[l] \in Indexes /\ cypc_prodndx[l][soft[l]] \in Indexes
  BY <1>1 DEF InBuffer, InEntry, SoftAt, CyTypes
<1>4. cypc_size[l][soft[l]] \in Sizes /\ cypc_size[l][soft[l]] # 0
  BY <1>1, <1>2, SoftSize, SizesAre
<1>5. Unread(l, soft[l])' = Unread(l, soft[l]) \ {consndx[l]}
  <2>1. First(l, soft[l])' = Succ(consndx[l])
    BY <1>3 DEF First, Succ
  <2>2. Unread(l, soft[l])' = Ring(Succ(consndx[l]), cypc_prodndx[l][soft[l]])
    BY <2>1, <1>4 DEF Unread, Ring, Lead, Indexes, Only
  <2>3. Unread(l, soft[l]) = Ring(consndx[l], cypc_prodndx[l][soft[l]])
    BY <1>1, <1>2, <1>4, UnreadIs
  <2> QED  BY <2>2, <2>3, <1>3, RingDrop
<1>6. \A k \in SoftLevels, b \in Both : k # l \/ b # soft[l] => Unread(k, b)' = Unread(k, b)
  <2>1. SUFFICES ASSUME NEW k \in SoftLevels, NEW b \in Both, k # l \/ b # soft[l] PROVE Unread(k, b)' = Unread(k, b)
    OBVIOUS
  <2>2. First(k, b)' = First(k, b)
    BY <2>1, <1>3 DEF First, Only
  <2> QED  BY <2>2 DEF Unread, Only
<1>7. \A k, b, x : Entry(k, b, x)' = Entry(k, b, x)
  BY DEF Entry, Only
<1>8. SUFFICES ASSUME NEW k \in SoftLevels, NEW b \in Both, NEW x \in Unread(k, b)'
               PROVE  x \in Unread(k, b) /\ ~Alike(Entry(k, b, x), ndx[l])
  BY <1>7
<1>9. x \in Unread(k, b) /\ ~(k = l /\ b = soft[l] /\ x = consndx[l])
  BY <1>5, <1>6, <1>8
<1> QED  BY <1>1, <1>2, <1>9 DEF EntriesOnce

\* Nothing new is in the buffers, and what is there is still valid.
LEMMA EntriesDropped ==
  ASSUME CyInv, Used' = Used,
         \A k \in SoftLevels, b \in Both : \A x \in Unread(k, b)' :
            x \in Unread(k, b) /\ Entry(k, b, x)' = Entry(k, b, x),
         \A k \in SoftLevels, b \in Both : \A x \in Unread(k, b)' : \A e :
            e = Entry(k, b, x) /\ (Pending(k, e) \/ LeftOver(k, e)) => Pending(k, e)' \/ LeftOver(k, e)'
  PROVE  EntriesValid' /\ EntriesOnce'
<1>1. EntriesValid /\ EntriesOnce
  BY DEF CyInv
<1>2. EntriesValid'
  BY <1>1 DEF EntriesValid
<1> QED  BY <1>1, <1>2 DEF EntriesOnce, Alike

\* What only the thread with cpu_lock changes.
LEMMA RestOfStep ==
  ASSUME CyInv, NEW l \in SoftLevels, Only(l), cypc_consndx' = cypc_consndx, cys_soft' = cys_soft,
         resized' = resized, cyp_modify_levels' = cyp_modify_levels,
         cyp_modify_wait' = cyp_modify_wait \/ op = "remove_wait",
         softpc[l] \notin {"levels", "kick"}, softpc'[l] \notin {"levels", "kick"}
  PROVE  BuffersRight' /\ ResizeRight'
<1>1. BuffersRight /\ ResizeRight
  BY DEF CyInv
<1>2. BuffersRight'
  BY <1>1 DEF BuffersRight, BufferAt, Only
<1>3. CASE op = "remove_wait"
  BY <1>2, <1>3 DEF ResizeRight, Only
<1>4. CASE op # "remove_wait"
  <2>1. \A k \in SoftLevels : (Told(k)' <=> Told(k)) /\ (softpc'[k] = "kick" <=> softpc[k] = "kick")
    BY DEF Told, Only
  <2> QED  BY <1>1, <1>2, <1>4, <2>1, ResizeSame DEF Only
<1> QED  BY <1>3, <1>4

\* The last call that a removal waits for.
LEMMA StepRemovePendCall ==
  ASSUME CyInv, NEW l \in SoftLevels, cyclic_remove_pend(l), pend[l] > 0
  PROVE  CyInv'
<1>1. CyTypes /\ Phases /\ SoftAt(l) /\ ResizeRight /\ pend[l] \in Nat
  BY DEF CyInv, SoftRight, CyTypes
<1>2. /\ softpc[l] = "rpend" /\ owed' = [owed EXCEPT ![handler[l]] = @ - 1]
      /\ pend' = [pend EXCEPT ![l] = pend[l] - 1] /\ UNCHANGED <<cyp_modify_wait, softpc>>
  BY <1>1 DEF cyclic_remove_pend, Handled, Set
<1>3. handler[l] = opc /\ opc \in Cyclics /\ cy_level[opc] = l /\ Removal /\ slot[opc] = NoCyclic
  <2>1. handler[l] = opc /\ slot[opc] = NoCyclic
    BY <1>1, <1>2 DEF SoftAt, Phases
  <2> QED  BY <2>1, <1>2, HeadIs, ConstantsAre DEF InEntry
<1>4. OwedAt(opc) /\ owed[opc] = pend[l]
  BY <1>2, <1>3 DEF CyInv, OwedRight, OwedAt
<1>5. Only(l) /\ cy_pend' = cy_pend
  BY <1>1, <1>2 DEF cyclic_remove_pend, Only, CyTypes, array, buffer, thread
<1>6. CyTypes'
  <2>1. owed' \in [Cyclics -> Nat] /\ pend' \in [SoftLevels -> Nat]
    BY <1>1, <1>2, <1>3, <1>4 DEF CyTypes
  <2> QED  BY <1>1, <1>2, <2>1 DEF cyclic_remove_pend, CyTypes, array, buffer, thread
<1>7. SoftAt(l)'
  BY <1>1, <1>2 DEF cyclic_remove_pend, CyTypes, SoftAt, Entry, InBuffer, InEntry, array, buffer, thread
<1>8. ResizeRight'
  BY <1>1, <1>2 DEF ResizeRight, Told, cyclic_remove_pend, SoftAt, buffer, thread
<1>9. \A b \in Both : First(l, b)' = First(l, b)
  BY <1>2 DEF cyclic_remove_pend, First, buffer
<1>10. \A c \in Cyclics : IF cy_level[c] = l THEN OwedAt(c)' ELSE owed'[c] = owed[c]
  <2>1. SUFFICES ASSUME NEW c \in Cyclics PROVE IF cy_level[c] = l THEN OwedAt(c)' ELSE owed'[c] = owed[c]
    OBVIOUS
  <2>2. (Removal' <=> Removal) /\ UNCHANGED <<opc, slot, cyp_rpend, cyp_cyclics>>
    BY <1>2 DEF cyclic_remove_pend, Removal, array, thread
  <2>3. CASE c # opc
    <3>1. owed'[c] = owed[c] /\ Flight(c)' = Flight(c) /\ OwedAt(c)
      BY <1>1, <1>2, <1>3, <2>3 DEF CyTypes, Flight, cyclic_remove_pend, CyInv, OwedRight
    <3> QED  BY <1>5, <2>2, <2>3, <3>1 DEF OwedAt
  <2>4. CASE c = opc
    <3>1. owed'[c] = owed[c] - 1 /\ pend'[l] = pend[l] - 1
      BY <1>1, <1>2, <1>3, <2>4 DEF CyTypes
    <3> QED  BY <1>2, <1>3, <1>4, <2>2, <2>4, <3>1 DEF OwedAt
  <2> QED  BY <2>3, <2>4
<1> QED  BY <1>2, <1>5, <1>6, <1>7, <1>8, <1>9, <1>10, SoftStep DEF cyclic_remove_pend, buffer

\* The removal goes on.
LEMMA StepRemovePendDone ==
  ASSUME CyInv, NEW l \in SoftLevels, cyclic_remove_pend(l), ~(pend[l] > 0)
  PROVE  CyInv'
<1>1. CyTypes /\ Phases /\ SlotsRight /\ SoftAt(l) /\ SoftRight /\ OwedRight /\ pend[l] \in Nat
  BY DEF CyInv, SoftRight, CyTypes
<1>2. /\ softpc[l] = "rpend" /\ softpc' = [softpc EXCEPT ![l] = "next"] /\ pend[l] = 0
      /\ cyp_modify_wait' = cyp_modify_wait + 1
      /\ UNCHANGED <<owed, pend, cyp_state, cyp_rpend, cyp_modify_levels, cyp_size, array, buffer, posted,
                     cyclics, soft, ndx, consndx, handler, resized, thread>>
  BY <1>1 DEF cyclic_remove_pend, Goto
<1>3. /\ handler[l] = opc /\ opc \in Cyclics /\ cy_level[opc] = l /\ Removal /\ slot[opc] = NoCyclic
      /\ ndx[l] \notin Used
  <2>1. handler[l] = opc /\ slot[opc] = NoCyclic
    BY <1>1, <1>2 DEF SoftAt, Phases
  <2> QED  BY <2>1, <1>2, HeadIs, ConstantsAre DEF InEntry
<1>4. op = "remove_wait" /\ cyp_rpend > 0 /\ cyp_modify_wait = 0 /\ cyp_modify_wait' = 1 /\ ~Removal'
  BY <1>2, <1>3 DEF Removal
<1>5. Only(l) /\ softpc'[l] = "next"
  BY <1>1, <1>2 DEF Only, CyTypes, array, buffer, thread
<1>6. CyTypes'
  BY <1>1, <1>2, <1>4 DEF CyTypes, SoftLabels, array, buffer, thread
<1>7. Phases' /\ SlotsRight'
  BY <1>1, <1>2, <1>4 DEF Phases, SlotsRight, Used, array, thread
<1>8. BuffersRight' /\ ResizeRight'
  BY <1>2, <1>4, <1>5, RestOfStep DEF buffer
<1>9. SoftRight'
  <2>1. SoftAt(l)'
    BY <1>1, <1>2, <1>5 DEF SoftAt, InBuffer, InEntry, buffer, array, thread
  <2> QED  BY <1>5, <2>1, OtherLevels DEF SoftRight
<1>10. EntriesValid' /\ EntriesOnce'
  <2>1. \A k \in SoftLevels, b \in Both : \A x \in Unread(k, b)' :
          x \in Unread(k, b) /\ Entry(k, b, x)' = Entry(k, b, x) /\ ~Alike(Entry(k, b, x), ndx[l])
    BY <1>2, <1>5, DropHead DEF InEntry, buffer
  <2>2. ASSUME NEW k \in SoftLevels, NEW b \in Both, NEW x \in Unread(k, b)', NEW e, e = Entry(k, b, x),
               Pending(k, e) \/ LeftOver(k, e)
        PROVE  Pending(k, e)'
    <3>1. e \in Used
      BY <2>1, <2>2, <1>3 DEF Alike
    <3>2. Pending(k, e)
      BY <2>2, <3>1 DEF LeftOver
    <3> QED  BY <3>2, <1>2 DEF Pending, array
  <2>3. Used' = Used
    BY <1>2 DEF Used, array
  <2> QED  BY <2>1, <2>2, <2>3, EntriesDropped
<1>11. OwedRight'
  <2>1. SUFFICES ASSUME NEW c \in Cyclics PROVE OwedAt(c)'
    BY DEF OwedRight
  <2>2. OwedAt(c) /\ cy_level[c] \in SoftLevels
    BY <1>1, ConstantsAre DEF OwedRight
  <2>3. Flight(c)' = Flight(c)
    BY <1>1, <1>2 DEF Flight, CyTypes
  <2>4. c = opc => owed[c] = 0
    BY <2>2, <1>2, <1>3 DEF OwedAt
  <2> QED  BY <2>2, <2>3, <2>4, <1>2, <1>3, <1>4 DEF OwedAt, array, thread
<1> QED  BY <1>6, <1>7, <1>8, <1>9, <1>10, <1>11 DEF CyInv

LEMMA StepRemovePend ==
  ASSUME CyInv, NEW l \in SoftLevels, cyclic_remove_pend(l)
  PROVE  CyInv'
BY StepRemovePendCall, StepRemovePendDone

\* A count that was read is compared with a count that has changed.
LEMMA StepCasFails ==
  ASSUME CyInv, NEW l \in SoftLevels, cas(l), cy_pend' = cy_pend, softpc' = [softpc EXCEPT ![l] = "reread"]
  PROVE  CyInv'
<1>1. CyTypes /\ Phases /\ SoftAt(l) /\ ResizeRight
  BY DEF CyInv, SoftRight
<1>2. /\ softpc[l] = "cas"
      /\ UNCHANGED <<cpu, cyp_cyclics, cy_handler, slot, buffer, posted, local, thread, owed>>
  BY DEF cas
<1>3. Only(l)
  BY <1>1, <1>2 DEF Only, CyTypes, cpu, buffer, local, thread
<1>4. CyTypes'
  BY <1>1, <1>2 DEF CyTypes, SoftLabels, cpu, buffer, local, thread
<1>5. SoftAt(l)'
  BY <1>1, <1>2 DEF CyTypes, SoftAt, Entry, InBuffer, InEntry, cpu, buffer, local, thread
<1>6. ResizeRight'
  <2>1. \A k \in SoftLevels : (Told(k)' <=> Told(k)) /\ (softpc'[k] = "kick" <=> softpc[k] = "kick")
    BY <1>1, <1>2 DEF CyTypes, Told, buffer, local
  <2> QED  BY <1>1, <1>2, <2>1, ResizeSame DEF cpu, thread
<1>7. \A b \in Both : First(l, b)' = First(l, b)
  BY <1>1, <1>2 DEF CyTypes, First, buffer, local
<1>8. \A c \in Cyclics : IF cy_level[c] = l THEN OwedAt(c)' ELSE owed'[c] = owed[c]
  <2>1. \A c \in Cyclics : cy_level[c] = l => Flight(c)' = Flight(c)
    BY <1>1, <1>2 DEF CyTypes, Flight, local
  <2>2. (Removal' <=> Removal) /\ owed' = owed /\ softpc[l] # "rpend" /\ softpc'[l] # "rpend"
    BY <1>1, <1>2 DEF Removal, cpu, thread, CyTypes
  <2> QED  BY <1>3, <2>1, <2>2, OwedSame
<1> QED  BY <1>2, <1>3, <1>4, <1>5, <1>6, <1>7, <1>8, SoftStep DEF cpu, buffer

\* The handler was called once for one that was counted.
LEMMA StepCasSwaps ==
  ASSUME CyInv, NEW l \in SoftLevels, cas(l), cy_pend[cyclics[l]][ndx[l]] = pend[l]
  PROVE  CyInv'
<1> DEFINE i == ndx[l]   d == handler[l]   n == IF pend[l] > 1 THEN "call" ELSE "next"
<1>1. CyTypes /\ Phases /\ SlotsRight /\ SoftAt(l) /\ SoftRight /\ OwedRight /\ EntriesValid
  BY DEF CyInv, SoftRight
<1>2. /\ softpc[l] = "cas" /\ cy_pend' = [cy_pend EXCEPT ![cyclics[l]][i] = pend[l] - 1]
      /\ softpc' = [softpc EXCEPT ![l] = n]
      /\ UNCHANGED <<cpu, cyp_cyclics, cy_handler, slot, buffer, posted, local, thread, owed>>
  BY DEF cas, Goto
<1>3. pend[l] > 0 /\ pend[l] \in Nat /\ i \in Slots /\ cyclics[l] \in Both /\ cyp_cyclics \in Both
  BY <1>1, <1>2 DEF SoftAt, CyTypes
<1>4. cyclics[l] = cyp_cyclics
  BY <1>1, <1>3, BothAre DEF SlotsRight
<1>5. d \in Cyclics /\ cy_level[d] = l /\ slot[d] = i /\ slot[d] # NoCyclic
  BY <1>1, <1>2, <1>3, <1>4, HeadIs, ConstantsAre DEF InEntry, SlotsRight
<1>6. /\ cy_pend'[cyp_cyclics][i] = cy_pend[cyp_cyclics][i] - 1 /\ cy_pend[cyp_cyclics][i] = pend[l]
      /\ \A j \in Slots : j # i => cy_pend'[cyp_cyclics][j] = cy_pend[cyp_cyclics][j]
      /\ cy_pend'[1 - cyp_cyclics] = cy_pend[1 - cyp_cyclics]
      /\ cy_pend' \in [Both -> [Slots -> Nat]]
  BY <1>1, <1>2, <1>3, <1>4, BothAre DEF CyTypes
<1>7. Only(l) /\ softpc'[l] = n
  BY <1>1, <1>2 DEF Only, CyTypes, cpu, buffer, local, thread
<1>8. CyTypes'
  BY <1>1, <1>2, <1>6 DEF CyTypes, SoftLabels, cpu, buffer, local, thread
<1>9. Phases'
  BY <1>1, <1>2 DEF Phases, cpu, thread
<1>10. SlotsRight'
  <2>1. Used' = Used /\ i \in Used
    BY <1>1, <1>2, <1>5, SlotIs DEF Used
  <2> QED  BY <1>1, <1>2, <1>6, <2>1 DEF SlotsRight, cpu, thread
<1>11. BuffersRight' /\ ResizeRight'
  BY <1>2, <1>7, RestOfStep DEF buffer, local, cpu
<1>12. SoftRight'
  <2>1. SoftAt(l)'
    BY <1>1, <1>2, <1>7 DEF SoftAt, Entry, InBuffer, InEntry, buffer, local, cpu, thread
  <2> QED  BY <1>7, <2>1, OtherLevels DEF SoftRight
<1>13. (Removal' <=> Removal) /\ Used' = Used
  BY <1>2 DEF Removal, Used, cpu, thread
<1>14. EntriesValid' /\ EntriesOnce'
  <2>1. \A k, e : LeftOver(k, e) => LeftOver(k, e)'
    BY <1>2, <1>13 DEF LeftOver, thread
  <2>2. \A k : \A e \in Slots : Pending(k, e) /\ (e # i \/ pend[l] > 1) => Pending(k, e)'
    BY <1>2, <1>3, <1>6 DEF Pending
  <2>3. \A k \in SoftLevels, b \in Both : \A x \in Unread(k, b) : Entry(k, b, x) \in Slots
    BY <1>1, EntryInSlots
  <2>4. CASE pend[l] > 1
    <3>1. \A k \in SoftLevels, b \in Both : First(k, b)' = First(k, b)
      BY <1>1, <1>2, <2>4 DEF CyTypes, First, buffer, local
    <3>2. \A k \in SoftLevels, b \in Both : Unread(k, b)' = Unread(k, b)
      BY <3>1, <1>2 DEF Unread, buffer
    <3>3. \A k, b, x : Entry(k, b, x)' = Entry(k, b, x)
      BY <1>2 DEF Entry, buffer
    <3> QED  BY <1>13, <2>1, <2>2, <2>3, <2>4, <3>2, <3>3, EntriesDropped
  <2>5. CASE ~(pend[l] > 1)
    <3>1. \A k \in SoftLevels, b \in Both : \A x \in Unread(k, b)' :
            x \in Unread(k, b) /\ Entry(k, b, x)' = Entry(k, b, x) /\ ~Alike(Entry(k, b, x), i)
      BY <1>2, <1>7, <2>5, DropHead DEF InEntry, buffer, local
    <3>2. \A k \in SoftLevels, b \in Both : \A x \in Unread(k, b)' : Entry(k, b, x) # i
      BY <3>1 DEF Alike
    <3> QED  BY <1>13, <2>1, <2>2, <2>3, <3>1, <3>2, EntriesDropped
  <2> QED  BY <2>4, <2>5
<1>15. OwedRight'
  <2>1. SUFFICES ASSUME NEW c \in Cyclics PROVE OwedAt(c)'
    BY DEF OwedRight
  <2>2. OwedAt(c) /\ cy_level[c] \in SoftLevels
    BY <1>1, ConstantsAre DEF OwedRight
  <2>3. softpc'[cy_level[c]] = "rpend" <=> softpc[cy_level[c]] = "rpend"
    BY <1>1, <1>2, <2>2 DEF CyTypes
  <2>4. CASE c # d
    <3>1. Flight(c)' = Flight(c)
      BY <1>1, <1>2, <2>2, <2>4 DEF Flight, CyTypes, local
    <3>2. slot[c] # NoCyclic => cy_pend'[cyp_cyclics][slot[c]] = cy_pend[cyp_cyclics][slot[c]]
      BY <1>1, <1>5, <1>6, <2>4, SlotIs
    <3> QED  BY <1>2, <1>13, <2>2, <2>3, <3>1, <3>2 DEF OwedAt, cpu, local, thread
  <2>5. CASE c = d
    <3>1. Flight(c) = 1 /\ Flight(c)' = 0
      BY <1>1, <1>2, <1>5, <2>5 DEF Flight, Count, CyTypes, local
    <3>2. ~(Removal /\ opc = c)
      BY <1>1, <1>5, <2>5 DEF Removal, Phases
    <3>3. owed[c] = cy_pend[cyp_cyclics][i] - 1
      BY <1>5, <2>2, <2>5, <3>1 DEF OwedAt
    <3> QED  BY <1>2, <1>3, <1>5, <1>6, <1>13, <2>5, <3>1, <3>2, <3>3 DEF OwedAt, thread
  <2> QED  BY <2>4, <2>5
<1> QED  BY <1>8, <1>9, <1>10, <1>11, <1>12, <1>14, <1>15 DEF CyInv

LEMMA StepCas ==
  ASSUME CyInv, NEW l \in SoftLevels, cas(l)
  PROVE  CyInv'
<1>1. CASE cy_pend[cyclics[l]][ndx[l]] = pend[l]
  BY <1>1, StepCasSwaps
<1>2. CASE cy_pend[cyclics[l]][ndx[l]] # pend[l]
  BY <1>2, StepCasFails DEF cas, Goto
<1> QED  BY <1>1, <1>2

-----------------------------------------------------------------------------
(* cyclic_expire()                                                         *)

\* What an expiration changes of the counts.
LEMMA ExpireCounts ==
  ASSUME CyInv, NEW c \in Cyclics, cyclic_expire(c)
  PROVE  /\ slot[c] \in Slots /\ slot[c] # NoCyclic /\ slot[c] \in Used /\ cyp_cyclics \in Both
         /\ cy_pend' \in [Both -> [Slots -> Nat]] /\ owed' \in [Cyclics -> Nat]
         /\ cy_pend'[cyp_cyclics][slot[c]] = cy_pend[cyp_cyclics][slot[c]] + 1
         /\ \A j \in Slots : j # slot[c] => cy_pend'[cyp_cyclics][j] = cy_pend[cyp_cyclics][j]
         /\ cy_pend'[1 - cyp_cyclics] = cy_pend[1 - cyp_cyclics]
         /\ Used' = Used
         /\ Phases' /\ SlotsRight' /\ ResizeRight' /\ OwedRight'
<1> DEFINE i == slot[c]
<1>1. CyTypes /\ Phases /\ SlotsRight /\ ResizeRight /\ OwedRight
  BY DEF CyInv
<1>2. /\ i # NoCyclic
      /\ cy_pend' = [cy_pend EXCEPT ![cyp_cyclics][i] = @ + 1]
      /\ owed' = [owed EXCEPT ![c] = @ + 1]
      /\ UNCHANGED <<cpu, cyp_cyclics, cy_handler, slot, cys_hard, cys_soft, softpc, local, thread>>
  BY DEF cyclic_expire
<1>3. i \in Slots /\ i \in Used /\ cyp_cyclics \in Both
  BY <1>1, <1>2, SlotIs DEF CyTypes
<1>4. /\ cy_pend' \in [Both -> [Slots -> Nat]] /\ owed' \in [Cyclics -> Nat]
      /\ cy_pend'[cyp_cyclics][i] = cy_pend[cyp_cyclics][i] + 1
      /\ \A j \in Slots : j # i => cy_pend'[cyp_cyclics][j] = cy_pend[cyp_cyclics][j]
      /\ cy_pend'[1 - cyp_cyclics] = cy_pend[1 - cyp_cyclics]
  BY <1>1, <1>2, <1>3, BothAre DEF CyTypes
<1>5. Used' = Used
  BY <1>2 DEF Used
<1>6. Phases' /\ ResizeRight'
  BY <1>1, <1>2 DEF Phases, ResizeRight, Told, cpu, local, thread
<1>7. SlotsRight'
  BY <1>1, <1>2, <1>3, <1>4, <1>5 DEF SlotsRight, cpu, thread
<1>8. OwedRight'
  <2>1. SUFFICES ASSUME NEW d \in Cyclics PROVE OwedAt(d)'
    BY DEF OwedRight
  <2>2. OwedAt(d) /\ (Removal' <=> Removal) /\ Flight(d)' = Flight(d) /\ Flight(d) \in {0, 1}
    BY <1>1, <1>2 DEF OwedRight, Removal, Flight, Count, cpu, local, thread
  <2>3. CASE d # c
    <3>1. owed'[d] = owed[d] /\ (slot[d] # NoCyclic => cy_pend'[cyp_cyclics][slot[d]] = cy_pend[cyp_cyclics][slot[d]])
      BY <1>1, <1>2, <1>4, <2>3, SlotIs DEF CyTypes
    <3> QED  BY <1>2, <2>2, <3>1 DEF OwedAt, cpu, local, thread
  <2>4. CASE d = c
    <3>1. owed'[d] = owed[d] + 1 /\ ~(Removal /\ opc = d)
      BY <1>1, <1>2, <2>4 DEF CyTypes, Removal, Phases
    <3>2. cy_pend[cyp_cyclics][i] \in Nat
      BY <1>1, <1>3 DEF CyTypes
    <3> QED  BY <1>2, <1>4, <2>2, <2>4, <3>1, <3>2 DEF OwedAt, thread
  <2> QED  BY <2>3, <2>4
<1> QED  BY <1>2, <1>3, <1>4, <1>5, <1>6, <1>7, <1>8

\* It was pending: it is in a buffer, or is left behind in one.
LEMMA StepExpireAgain ==
  ASSUME CyInv, NEW c \in Cyclics, cyclic_expire(c), ~Enqueues(c)
  PROVE  CyInv'
<1>1. CyTypes /\ BuffersRight /\ SoftRight /\ EntriesValid /\ EntriesOnce
  BY DEF CyInv
<1>2. /\ slot[c] # NoCyclic /\ posted' = posted \cup {cy_level[c]}
      /\ UNCHANGED <<cpu, cyp_cyclics, cy_handler, slot, buffer, softpc, local, thread>>
  BY DEF cyclic_expire, buffer
<1>3. CyTypes'
  BY <1>1, <1>2, ExpireCounts, ConstantsAre DEF CyTypes, cpu, buffer, local, thread
<1>4. BuffersRight' /\ SoftRight'
  BY <1>1, <1>2 DEF BuffersRight, BufferAt, SoftRight, SoftAt, Entry, cpu, buffer, local, thread
<1>5. \A k \in SoftLevels, b \in Both : Unread(k, b)' = Unread(k, b)
  BY <1>2 DEF Unread, First, buffer, local
<1>6. \A k, b, x : Entry(k, b, x)' = Entry(k, b, x)
  BY <1>2 DEF Entry, buffer
<1>7. \A k, e : LeftOver(k, e) => LeftOver(k, e)'
  BY <1>2, ExpireCounts DEF LeftOver, Removal, cpu, thread
<1>8. \A k : \A e \in Slots : Pending(k, e) => Pending(k, e)'
  <2>1. SUFFICES ASSUME NEW k, NEW e \in Slots, Pending(k, e) PROVE Pending(k, e)'
    OBVIOUS
  <2>2. PICK d \in Cyclics : slot[d] = e /\ cy_level[d] = k /\ cy_pend[cyp_cyclics][e] > 0
    BY <2>1 DEF Pending
  <2>3. cy_pend[cyp_cyclics][e] \in Nat /\ cyp_cyclics \in Both
    BY <1>1 DEF CyTypes
  <2> QED  BY <1>2, <2>2, <2>3, ExpireCounts DEF Pending
<1>9. EntriesValid'
  BY <1>1, <1>5, <1>6, <1>7, <1>8, EntryInSlots DEF EntriesValid
<1>10. EntriesOnce'
  BY <1>1, <1>5, <1>6, ExpireCounts DEF EntriesOnce, Alike
<1> QED  BY <1>3, <1>4, <1>9, <1>10, ExpireCounts DEF CyInv

\* It was not pending: it is entered.
LEMMA ExpireEnters ==
  ASSUME CyInv, NEW c \in Cyclics, cyclic_expire(c), Enqueues(c), NEW i, i = slot[c], NEW l, l = cy_level[c],
         NEW b, b = cys_hard[l], NEW p, p = cypc_prodndx[l][b], NEW f, f = First(l, b), NEW s, s = cypc_size[l][b]
  PROVE  CyInv'
<1>1. CyTypes /\ Phases /\ SlotsRight /\ BuffersRight /\ SoftRight /\ EntriesValid /\ EntriesOnce
  BY DEF CyInv
<1>2. /\ i # NoCyclic /\ posted' = posted \cup {l}
      /\ cypc_buf' = [cypc_buf EXCEPT ![l][b][p % s] = i]
      /\ cypc_prodndx' = [cypc_prodndx EXCEPT ![l][b] = (p + 1) % Wrap]
      /\ UNCHANGED <<cpu, cyp_cyclics, cy_handler, slot, cys_hard, cys_soft, cypc_consndx, cypc_size, softpc, local, thread>>
  BY DEF cyclic_expire
<1>3. l \in SoftLevels /\ b \in Both /\ s = cyp_size /\ s \in Sizes /\ s \in Nat /\ s + 1 < Wrap
  <2>1. l \in SoftLevels
    BY ConstantsAre
  <2>2. b \in Both /\ s = cyp_size /\ s \in Sizes
    BY <1>1, <2>1, SoftSize
  <2>3. s \in Nat /\ s <= MaxSize /\ MaxSize \in Nat /\ MaxSize + 1 < Wrap /\ Wrap \in Nat
    BY <2>2, SizesAre
  <2> QED  BY <2>1, <2>2, <2>3
<1>4. p \in Indexes /\ f \in Indexes /\ Unread(l, b) = Ring(f, p) /\ p % s \in Slots /\ i \in Slots
  <2>1. p \in Indexes /\ f \in Indexes /\ Unread(l, b) = Ring(f, p)
    BY <1>1, <1>3, UnreadIs
  <2>2. p % s \in Slots
    BY <1>1, <1>3, <2>1, EntryIs
  <2> QED  BY <2>1, <2>2, ExpireCounts
<1>5. Lead(p, f) < s
  BY <1>2, <1>3, RoomLeft DEF Enqueues
<1>6. Lead(p, f) + 1 < Wrap /\ Lead(p, f) \in Int
  <2>1. Lead(p, f) \in Int
    BY <1>4, LeadIs DEF Indexes
  <2> QED  BY <1>3, <1>5, <2>1, SizesAre
<1>7. Succ(p) \in Indexes /\ cypc_prodndx'[l][b] = Succ(p)
  BY <1>1, <1>2, <1>3, <1>4, SuccIs DEF Succ, CyTypes
<1>8. CyTypes'
  <2>1. cypc_buf' \in [SoftLevels -> [Both -> [Slots -> Slots]]]
    BY <1>1, <1>2, <1>3, <1>4 DEF CyTypes
  <2>2. cypc_prodndx' \in [SoftLevels -> [Both -> Indexes]]
    BY <1>1, <1>2, <1>3, <1>7 DEF CyTypes, Succ
  <2> QED  BY <1>1, <1>2, <1>3, <2>1, <2>2, ExpireCounts DEF CyTypes, cpu, local, thread
<1>9. \A k \in SoftLevels, a \in Both : First(k, a)' = First(k, a)
  BY <1>2 DEF First, local
<1>10. \A k \in SoftLevels, a \in Both : k # l \/ a # b => Unread(k, a)' = Unread(k, a)
  <2>1. SUFFICES ASSUME NEW k \in SoftLevels, NEW a \in Both, k # l \/ a # b PROVE Unread(k, a)' = Unread(k, a)
    OBVIOUS
  <2>2. cypc_prodndx'[k][a] = cypc_prodndx[k][a]
    BY <1>1, <1>2, <1>3, <2>1 DEF CyTypes
  <2> QED  BY <1>2, <1>9, <2>2 DEF Unread
<1>11. Unread(l, b)' = Unread(l, b) \cup {p} /\ p \notin Unread(l, b)
  <2>1. Unread(l, b)' = Ring(f, Succ(p))
    <3>1. cypc_size'[l][b] = s /\ s # 0 /\ First(l, b)' = f
      BY <1>2, <1>3, <1>9, SizesAre
    <3>2. {x \in 0 .. Wrap - 1 : /\ cypc_size'[l][b] # 0
                                 /\ (x - f) % Wrap < (cypc_prodndx'[l][b] - f) % Wrap} = Ring(f, Succ(p))
      BY <3>1, <1>7 DEF Ring, Lead, Indexes
    <3>3. Unread(l, b)' = {x \in 0 .. Wrap - 1 : /\ cypc_size'[l][b] # 0
                                 /\ (x - First(l, b)') % Wrap < (cypc_prodndx'[l][b] - First(l, b)') % Wrap}
      BY <1>2 DEF Unread
    <3> QED  BY <3>1, <3>2, <3>3
  <2> QED  BY <2>1, <1>4, <1>6, RingAdd
<1>12. \A x \in Unread(l, b) : x \in Indexes /\ x % s \in Slots /\ x % s # p % s
  <2>1. SUFFICES ASSUME NEW x \in Unread(l, b) PROVE x \in Indexes /\ x % s \in Slots /\ x % s # p % s
    OBVIOUS
  <2>2. x \in Indexes /\ Lead(x, f) < Lead(p, f) /\ x # p
    BY <1>4, <1>11 DEF Ring
  <2>3. Lead(p, x) < s
    <3>1. /\ Lead(x, f) = IF f <= x THEN x - f ELSE x - f + Wrap
          /\ Lead(p, f) = IF f <= p THEN p - f ELSE p - f + Wrap
          /\ Lead(p, x) = IF x <= p THEN p - x ELSE p - x + Wrap
      BY <1>4, <2>2, LeadIs
    <3> QED  BY <3>1, <2>2, <1>3, <1>4, <1>5, SizesAre DEF Indexes
  <2>4. x % s # p % s
    BY <1>3, <1>4, <2>2, <2>3, PlacesDiffer
  <2> QED  BY <2>2, <2>4, <1>1, <1>3, EntryIs
<1>13. Entry(l, b, p)' = i
  BY <1>1, <1>2, <1>3, <1>4 DEF Entry, CyTypes
<1>14. \A k \in SoftLevels, a \in Both : \A x \in Unread(k, a) : Entry(k, a, x)' = Entry(k, a, x)
  <2>1. SUFFICES ASSUME NEW k \in SoftLevels, NEW a \in Both, NEW x \in Unread(k, a) PROVE Entry(k, a, x)' = Entry(k, a, x)
    OBVIOUS
  <2>2. CASE k # l \/ a # b
    <3>1. cypc_buf'[k][a] = cypc_buf[k][a]
      BY <1>1, <1>2, <1>3, <2>2 DEF CyTypes
    <3> QED  BY <1>2, <3>1 DEF Entry
  <2>3. CASE k = l /\ a = b
    <3>1. x % s \in Slots /\ x % s # p % s
      BY <1>12, <2>3
    <3>2. cypc_buf'[l][b][x % s] = cypc_buf[l][b][x % s]
      BY <1>1, <1>2, <1>3, <1>4, <3>1 DEF CyTypes
    <3> QED  BY <1>2, <2>3, <3>2 DEF Entry
  <2> QED  BY <2>2, <2>3
<1>15. BuffersRight'
  <2>1. SUFFICES ASSUME NEW k \in SoftLevels PROVE BufferAt(k)'
    BY DEF BuffersRight
  <2>2. BufferAt(k) /\ cys_hard[k] \in Both /\ 1 - cys_hard[k] \in Both /\ 1 - cys_hard[k] # cys_hard[k]
    BY <1>1, BothAre DEF BuffersRight, CyTypes
  <2>3. cypc_prodndx'[k][1 - cys_hard[k]] = cypc_prodndx[k][1 - cys_hard[k]]
    BY <1>1, <1>2, <1>3, <2>2 DEF CyTypes
  <2> QED  BY <1>2, <2>2, <2>3 DEF BufferAt, cpu, thread
<1>16. SoftRight'
  <2>1. SUFFICES ASSUME NEW k \in SoftLevels PROVE SoftAt(k)'
    BY DEF SoftRight
  <2>2. SoftAt(k)
    BY <1>1 DEF SoftRight
  <2>3. softpc[k] \in InEntry => /\ consndx[k] # cypc_prodndx'[k][soft[k]]
                                 /\ ndx[k] = Entry(k, soft[k], consndx[k])'
    <3>1. SUFFICES ASSUME softpc[k] \in InEntry
                   PROVE  consndx[k] # cypc_prodndx'[k][soft[k]] /\ ndx[k] = Entry(k, soft[k], consndx[k])'
      OBVIOUS
    <3>2. /\ consndx[k] \in Unread(k, soft[k]) /\ Entry(k, soft[k], consndx[k]) = ndx[k]
          /\ First(k, soft[k]) = consndx[k] /\ soft[k] \in Both
      BY <3>1, HeadIs
    <3>3. (Entry(k, soft[k], consndx[k]))' = Entry(k, soft[k], consndx[k])
      <4>1. PICK a \in Both, x \in Indexes : a = soft[k] /\ x = consndx[k] /\ x \in Unread(k, a)
        BY <1>1, <3>2 DEF CyTypes
      <4>2. Entry(k, a, x)' = Entry(k, a, x)
        BY <1>14, <4>1
      <4> QED  BY <1>2, <4>1, <4>2 DEF Entry, local
    <3>4. CASE k # l \/ soft[k] # b
      <4>1. cypc_prodndx'[k][soft[k]] = cypc_prodndx[k][soft[k]]
        BY <1>1, <1>2, <1>3, <3>2, <3>4 DEF CyTypes
      <4> QED  BY <2>2, <3>1, <3>2, <3>3, <4>1 DEF SoftAt
    <3>5. CASE k = l /\ soft[k] = b
      <4>1. Lead(f, f) = 0 /\ Lead(Succ(p), f) # 0
        <5>1. /\ Lead(p, f) = IF f <= p THEN p - f ELSE p - f + Wrap
              /\ Lead(Succ(p), f) = IF f <= Succ(p) THEN Succ(p) - f ELSE Succ(p) - f + Wrap
              /\ Lead(f, f) = IF f <= f THEN f - f ELSE f - f + Wrap
              /\ Succ(p) = IF p = Wrap - 1 THEN 0 ELSE p + 1
          BY <1>4, <1>7, LeadIs, SuccIs
        <5> QED  BY <5>1, <1>4, <1>6, SizesAre DEF Indexes
      <4> QED  BY <1>7, <3>2, <3>3, <3>5, <4>1
    <3> QED  BY <3>4, <3>5
  <2> QED  BY <1>2, <2>2, <2>3 DEF SoftAt, Entry, local, thread
<1>17. \A k, e : LeftOver(k, e) => LeftOver(k, e)'
  BY <1>2, ExpireCounts DEF LeftOver, Removal, cpu, thread
<1>18. \A k : \A e \in Slots : Pending(k, e) => Pending(k, e)'
  <2>1. SUFFICES ASSUME NEW k, NEW e \in Slots, Pending(k, e) PROVE Pending(k, e)'
    OBVIOUS
  <2>2. PICK d \in Cyclics : slot[d] = e /\ cy_level[d] = k /\ cy_pend[cyp_cyclics][e] > 0
    BY <2>1 DEF Pending
  <2>3. cy_pend[cyp_cyclics][e] \in Nat /\ cyp_cyclics \in Both
    BY <1>1 DEF CyTypes
  <2> QED  BY <1>2, <2>2, <2>3, ExpireCounts DEF Pending
<1>19. Pending(l, i)'
  <2>1. cy_pend[cyp_cyclics][i] \in Nat /\ cy_pend'[cyp_cyclics][i] = cy_pend[cyp_cyclics][i] + 1
    BY <1>1, <1>4, ExpireCounts DEF CyTypes
  <2>2. slot'[c] = i /\ cy_pend'[cyp_cyclics'][i] > 0
    BY <1>2, <2>1
  <2> QED  BY <2>2 DEF Pending
<1>20. \A k \in SoftLevels, a \in Both : \A x \in Unread(k, a)' : x \in Unread(k, a) \/ (k = l /\ a = b /\ x = p)
  BY <1>3, <1>10, <1>11
<1>21. EntriesValid'
  <2>1. SUFFICES ASSUME NEW k \in SoftLevels, NEW a \in Both, NEW x \in Unread(k, a)'
                 PROVE  Pending(k, Entry(k, a, x))' \/ LeftOver(k, Entry(k, a, x))'
    BY DEF EntriesValid
  <2>2. CASE x \in Unread(k, a)
    <3>1. PICK e \in Slots : e = Entry(k, a, x) /\ e = Entry(k, a, x)'
      BY <1>1, <1>14, <2>2, EntryInSlots
    <3>2. Pending(k, e) \/ LeftOver(k, e)
      BY <1>1, <2>2, <3>1 DEF EntriesValid
    <3> QED  BY <1>17, <1>18, <3>1, <3>2
  <2>3. CASE k = l /\ a = b /\ x = p
    BY <1>13, <1>19, <2>3
  <2> QED  BY <1>20, <2>1, <2>2, <2>3
<1>22. \A k \in SoftLevels, a \in Both : \A x \in Unread(k, a) : ~Alike(Entry(k, a, x), i)
  <2>1. SUFFICES ASSUME NEW k \in SoftLevels, NEW a \in Both, NEW x \in Unread(k, a), Alike(Entry(k, a, x), i) PROVE FALSE
    OBVIOUS
  <2>2. i \in Used /\ cy_pend[cyp_cyclics][i] = 0
    BY ExpireCounts DEF Enqueues
  <2>3. Entry(k, a, x) = i
    BY <2>1, <2>2 DEF Alike
  <2> QED  BY <2>2, <2>3, EntryBelow
<1>23. EntriesOnce'
  <2>1. SUFFICES ASSUME NEW k \in SoftLevels, NEW m \in SoftLevels, NEW a \in Both, NEW d \in Both,
                        NEW x \in Unread(k, a)', NEW y \in Unread(m, d)',
                        Alike(Entry(k, a, x), Entry(m, d, y))'
                 PROVE  k = m /\ a = d /\ x = y
    BY DEF EntriesOnce
  <2>2. \A e, g : Alike(e, g)' <=> Alike(e, g)
    BY ExpireCounts DEF Alike
  <2>3. Alike(Entry(k, a, x)', Entry(m, d, y)')
    BY <2>1, ExpireCounts DEF Alike
  <2>4. CASE x \in Unread(k, a) /\ y \in Unread(m, d)
    BY <1>1, <1>14, <2>3, <2>4 DEF EntriesOnce
  <2>5. CASE x \in Unread(k, a) /\ (m = l /\ d = b /\ y = p)
    BY <1>13, <1>14, <1>22, <2>3, <2>5
  <2>6. CASE (k = l /\ a = b /\ x = p) /\ y \in Unread(m, d)
    BY <1>13, <1>14, <1>22, <2>3, <2>6 DEF Alike
  <2>7. CASE (k = l /\ a = b /\ x = p) /\ (m = l /\ d = b /\ y = p)
    BY <2>7
  <2> QED  BY <1>20, <2>4, <2>5, <2>6, <2>7
<1> QED  BY <1>8, <1>15, <1>16, <1>21, <1>23, ExpireCounts DEF CyInv

LEMMA StepExpireFirst ==
  ASSUME CyInv, NEW c \in Cyclics, cyclic_expire(c), Enqueues(c)
  PROVE  CyInv'
BY ExpireEnters

LEMMA StepExpire ==
  ASSUME CyInv, NEW c \in Cyclics, cyclic_expire(c)
  PROVE  CyInv'
BY StepExpireAgain, StepExpireFirst

-----------------------------------------------------------------------------
(* The thread with cpu_lock                                                *)

\* The buffers, and what is valid in them, are the same.
LEMMA EntriesStay ==
  ASSUME CyInv, UNCHANGED <<cypc_buf, cypc_prodndx, cypc_consndx, cypc_size, softpc, soft>>,
         \A k \in SoftLevels, b \in Both : \A x \in Unread(k, b) :
            \A e \in Slots : e = Entry(k, b, x) => Pending(k, e)' \/ LeftOver(k, e)',
         \A j, k \in SoftLevels, a, b \in Both : \A x \in Unread(j, a), y \in Unread(k, b) :
            \A d, e \in Slots : d = Entry(j, a, x) /\ e = Entry(k, b, y) /\ Alike(d, e)' => Alike(d, e)
  PROVE  EntriesValid' /\ EntriesOnce'
<1>1. CyTypes /\ EntriesValid /\ EntriesOnce
  BY DEF CyInv
<1>2. \A k \in SoftLevels, b \in Both : Unread(k, b)' = Unread(k, b)
  BY DEF Unread, First
<1>3. \A k, b, x : Entry(k, b, x)' = Entry(k, b, x)
  BY DEF Entry
<1>4. EntriesValid'
  <2>1. SUFFICES ASSUME NEW k \in SoftLevels, NEW b \in Both, NEW x \in Unread(k, b)'
                 PROVE  Pending(k, Entry(k, b, x))' \/ LeftOver(k, Entry(k, b, x))'
    BY DEF EntriesValid
  <2>2. PICK e \in Slots : e = Entry(k, b, x) /\ e = Entry(k, b, x)'
    BY <1>1, <1>2, <1>3, EntryInSlots
  <2> QED  BY <1>2, <2>1, <2>2
<1>5. EntriesOnce'
  <2>1. SUFFICES ASSUME NEW j \in SoftLevels, NEW k \in SoftLevels, NEW a \in Both, NEW b \in Both,
                        NEW x \in Unread(j, a)', NEW y \in Unread(k, b)',
                        Alike(Entry(j, a, x), Entry(k, b, y))'
                 PROVE  j = k /\ a = b /\ x = y
    BY DEF EntriesOnce
  <2>2. PICK d \in Slots : d = Entry(j, a, x) /\ d = Entry(j, a, x)'
    BY <1>1, <1>2, <1>3, EntryInSlots
  <2>3. PICK e \in Slots : e = Entry(k, b, y) /\ e = Entry(k, b, y)'
    BY <1>1, <1>2, <1>3, EntryInSlots
  <2>4. Alike(d, e)'
    BY <2>1, <2>2, <2>3 DEF Alike
  <2>5. Alike(d, e)
    BY <1>2, <2>1, <2>2, <2>3, <2>4
  <2>6. Alike(Entry(j, a, x), Entry(k, b, y)) /\ x \in Unread(j, a) /\ y \in Unread(k, b)
    BY <1>2, <2>2, <2>3, <2>5
  <2> QED  BY <1>1, <2>6 DEF EntriesOnce
<1> QED  BY <1>4, <1>5

\* Without a removal under way everything in the buffers is pending.
LEMMA AllPending ==
  ASSUME CyInv, ~Removal
  PROVE  \A k \in SoftLevels, b \in Both : \A x \in Unread(k, b) :
           Pending(k, Entry(k, b, x)) /\ Entry(k, b, x) \in Used
<1>1. CyTypes /\ EntriesValid
  BY DEF CyInv
<1>2. SUFFICES ASSUME NEW k \in SoftLevels, NEW b \in Both, NEW x \in Unread(k, b)
               PROVE  Pending(k, Entry(k, b, x)) /\ Entry(k, b, x) \in Used
  OBVIOUS
<1>3. Pending(k, Entry(k, b, x)) /\ Entry(k, b, x) \in Slots
  BY <1>1, EntryInSlots DEF EntriesValid, LeftOver
<1> QED  BY <1>3, ConstantsAre DEF Pending, Used

LEMMA StepAdd ==
  ASSUME CyInv, NEW c \in Cyclics, NEW i \in Slots, cyclic_add_xcall(c, i)
  PROVE  CyInv'
<1>1. CyTypes /\ Phases /\ SlotsRight /\ BuffersRight /\ SoftRight /\ ResizeRight /\ OwedRight
  BY DEF CyInv
<1>2. /\ op = "idle" \/ (op = "add" /\ opc = c)
      /\ slot[c] = NoCyclic /\ op' = "idle" /\ opc' = NoCyclic
      /\ slot' = [slot EXCEPT ![c] = i] /\ cy_handler' = [cy_handler EXCEPT ![cyp_cyclics][i] = c]
      /\ UNCHANGED <<cpu, cyp_cyclics, cy_pend, buffer, posted, softpc, local, owed>>
  BY DEF cyclic_add_xcall
<1>3. i < cyp_size /\ i \notin Used /\ cyp_size \in Nat /\ i # NoCyclic
  <2>1. i \in 0 .. cyp_size - 1 /\ i \notin Used
    BY DEF cyclic_add_xcall, Free
  <2>2. cyp_size \in Nat
    BY <1>1, SizesAre DEF CyTypes
  <2> QED  BY <2>1, <2>2, ConstantsAre
<1>4. ~Removal /\ ~Removal'
  BY <1>2 DEF Removal
<1>5. /\ slot' \in [Cyclics -> Slots \cup {NoCyclic}] /\ slot'[c] = i
      /\ \A d \in Cyclics : d # c => slot'[d] = slot[d]
      /\ cy_handler' \in [Both -> [Slots -> Cyclics \cup {NoCyclic}]]
      /\ cy_handler'[cyp_cyclics][i] = c
      /\ \A j \in Slots : j # i => cy_handler'[cyp_cyclics][j] = cy_handler[cyp_cyclics][j]
  BY <1>1, <1>2 DEF CyTypes
<1>6. CyTypes'
  BY <1>1, <1>2, <1>5 DEF CyTypes, cpu, buffer, local
<1>7. Phases'
  BY <1>1, <1>2 DEF Phases, cpu
<1>8. Used' = Used \cup {i}
  <2>1. \A e : e \in Used' <=> (\E d \in Cyclics : e = slot'[d]) /\ e # NoCyclic
    BY DEF Used
  <2>2. \A e : e \in Used <=> (\E d \in Cyclics : e = slot[d]) /\ e # NoCyclic
    BY DEF Used
  <2> QED  BY <1>2, <1>3, <1>5, <2>1, <2>2
<1>9. SlotsRight'
  <2>1. \A d \in Cyclics : d # c /\ slot[d] # NoCyclic => slot[d] \in Used /\ slot[d] \in Slots
    BY <1>1, SlotIs
  <2>2. \A d \in Cyclics : slot'[d] # NoCyclic => slot'[d] < cyp_size /\ cy_handler'[cyp_cyclics][slot'[d]] = d
    BY <1>1, <1>3, <1>5, <2>1 DEF SlotsRight
  <2>3. \A j \in Slots : j >= cyp_size => cy_handler'[cyp_cyclics][j] = NoCyclic
    BY <1>1, <1>3, <1>5 DEF SlotsRight, Slots
  <2> QED  BY <1>1, <1>2, <1>8, <2>2, <2>3 DEF SlotsRight, cpu
<1>10. BuffersRight'
  BY <1>1, <1>2 DEF BuffersRight, BufferAt, buffer, cpu
<1>11. SoftRight'
  <2>1. SUFFICES ASSUME NEW k \in SoftLevels PROVE SoftAt(k)'
    BY DEF SoftRight
  <2>2. SoftAt(k)
    BY <1>1 DEF SoftRight
  <2>3. softpc[k] \in InEntry => cy_handler'[cyp_cyclics][ndx[k]] = cy_handler[cyp_cyclics][ndx[k]]
    <3>1. softpc[k] \in InEntry => ndx[k] \in Slots /\ ndx[k] \in Used
      BY <1>4, HeadIs, ConstantsAre DEF Used
    <3> QED  BY <1>3, <1>5, <3>1
  <2> QED  BY <1>2, <2>2, <2>3 DEF SoftAt, Entry, buffer, local, cpu
<1>12. ResizeRight'
  BY <1>2 DEF ResizeRight
<1>13. EntriesValid' /\ EntriesOnce'
  <2>1. \A k : \A e \in Slots : Pending(k, e) => Pending(k, e)'
    BY <1>2, <1>5, ConstantsAre DEF Pending
  <2>2. \A k \in SoftLevels, b \in Both : \A x \in Unread(k, b) : Pending(k, Entry(k, b, x)) /\ Entry(k, b, x) \in Used
    BY <1>4, AllPending
  <2> QED  BY <1>2, <1>8, <2>1, <2>2, EntriesStay DEF Alike, buffer, local
<1>14. OwedRight'
  <2>1. SUFFICES ASSUME NEW d \in Cyclics PROVE OwedAt(d)'
    BY DEF OwedRight
  <2>2. OwedAt(d) /\ Flight(d)' = Flight(d)
    BY <1>1, <1>2 DEF OwedRight, Flight, local
  <2>3. CASE d # c
    BY <1>2, <1>4, <1>5, <2>2, <2>3 DEF OwedAt
  <2>4. CASE d = c
    <3>1. owed[c] = 0 /\ cy_pend[cyp_cyclics][i] = 0
      BY <1>1, <1>2, <1>3, <1>4, <2>2, <2>4 DEF OwedAt, SlotsRight
    <3>2. Flight(c) = 0
      <4>1. cy_level[c] \in SoftLevels
        BY ConstantsAre
      <4>2. softpc[cy_level[c]] \in InEntry => handler[cy_level[c]] # c
        BY <1>2, <1>4, <4>1, HeadIs, ConstantsAre
      <4> QED  BY <4>2 DEF Flight, Count, InEntry
    <3> QED  BY <1>2, <1>3, <1>4, <1>5, <2>2, <2>4, <3>1, <3>2 DEF OwedAt
  <2> QED  BY <2>3, <2>4
<1> QED  BY <1>6, <1>7, <1>9, <1>10, <1>11, <1>12, <1>13, <1>14 DEF CyInv

LEMMA StepRemoveHere ==
  ASSUME CyInv, NEW c \in Cyclics, cyclic_remove_here(c)
  PROVE  CyInv'
<1>1. CyTypes /\ Phases /\ SlotsRight /\ BuffersRight /\ SoftRight /\ OwedRight
  BY DEF CyInv
<1>2. /\ op = "idle" /\ slot[c] # NoCyclic /\ op' = "remove" /\ opc' = c /\ cyp_state' = "REMOVING"
      /\ UNCHANGED <<cyp_rpend, cyp_modify_levels, cyp_modify_wait, cyp_size, array, buffer, posted, softpc, local, owed>>
  BY DEF cyclic_remove_here
<1>3. ~Removal /\ ~Removal'
  BY <1>2 DEF Removal
<1>4. CyTypes'
  BY <1>1, <1>2 DEF CyTypes, array, buffer, local
<1>5. Phases' /\ SlotsRight' /\ BuffersRight' /\ ResizeRight'
  BY <1>1, <1>2 DEF Phases, SlotsRight, Used, BuffersRight, BufferAt, ResizeRight, array, buffer
<1>6. SoftRight'
  BY <1>1, <1>2 DEF SoftRight, SoftAt, Entry, array, buffer, local
<1>7. EntriesValid' /\ EntriesOnce'
  <2>1. (\A k, e : Pending(k, e) => Pending(k, e)') /\ Used' = Used
    BY <1>2 DEF Pending, Used, array
  <2> QED  BY <1>2, <1>3, <2>1, AllPending, EntriesStay DEF Alike, buffer, local
<1>8. OwedRight'
  BY <1>1, <1>2, <1>3 DEF OwedRight, OwedAt, Flight, array, local
<1> QED  BY <1>4, <1>5, <1>6, <1>7, <1>8 DEF CyInv

LEMMA StepRemoveXcall ==
  ASSUME CyInv, cyclic_remove_xcall
  PROVE  CyInv'
<1> DEFINE i == slot[opc]
<1>1. CyTypes /\ Phases /\ SlotsRight /\ BuffersRight /\ SoftRight /\ OwedRight
  BY DEF CyInv
<1>2. /\ op = "remove" /\ op' = "remove_wait"
      /\ cyp_rpend' = cy_pend[cyp_cyclics][i]
      /\ cy_pend' = [cy_pend EXCEPT ![cyp_cyclics][i] = 0]
      /\ slot' = [slot EXCEPT ![opc] = NoCyclic]
      /\ UNCHANGED <<cyp_state, cyp_modify_levels, cyp_modify_wait, cyp_size, cyp_cyclics, cy_handler,
                     buffer, posted, softpc, local, opc, owed>>
  BY DEF cyclic_remove_xcall
<1>3. /\ opc \in Cyclics /\ i # NoCyclic /\ i \in Slots /\ i \in Used /\ cyp_cyclics \in Both /\ cyp_rpend = 0
      /\ cyp_modify_wait = 0 /\ cyp_state = "REMOVING" /\ cy_handler[cyp_cyclics][i] = opc
      /\ cy_pend[cyp_cyclics][i] \in Nat
  BY <1>1, <1>2, SlotIs DEF Phases, CyTypes, SlotsRight
<1>4. ~Removal /\ (Removal' <=> cy_pend[cyp_cyclics][i] > 0)
  BY <1>2, <1>3 DEF Removal
<1>5. /\ slot' \in [Cyclics -> Slots \cup {NoCyclic}] /\ slot'[opc] = NoCyclic
      /\ \A d \in Cyclics : d # opc => slot'[d] = slot[d]
      /\ cy_pend' \in [Both -> [Slots -> Nat]] /\ cy_pend'[cyp_cyclics][i] = 0
      /\ \A j \in Slots : j # i => cy_pend'[cyp_cyclics][j] = cy_pend[cyp_cyclics][j]
      /\ cy_pend'[1 - cyp_cyclics] = cy_pend[1 - cyp_cyclics]
  BY <1>1, <1>2, <1>3, BothAre DEF CyTypes
<1>6. CyTypes'
  BY <1>1, <1>2, <1>3, <1>5 DEF CyTypes, buffer, local
<1>7. Phases'
  BY <1>1, <1>2, <1>3, <1>5 DEF Phases
<1>8. Used' = Used \ {i}
  <2>1. \A e : e \in Used' <=> (\E d \in Cyclics : e = slot'[d]) /\ e # NoCyclic
    BY DEF Used
  <2>2. \A e : e \in Used <=> (\E d \in Cyclics : e = slot[d]) /\ e # NoCyclic
    BY DEF Used
  <2>3. \A d \in Cyclics : slot[d] = i => d = opc
    BY <1>1, <1>3, SlotIs
  <2> QED  BY <1>3, <1>5, <2>1, <2>2, <2>3
<1>9. SlotsRight'
  <2>1. \A d \in Cyclics : slot'[d] # NoCyclic => slot'[d] = slot[d]
    BY <1>5
  <2>2. \A j \in Slots : j \notin Used' => cy_pend'[cyp_cyclics][j] = 0
    BY <1>1, <1>5, <1>8 DEF SlotsRight
  <2> QED  BY <1>1, <1>2, <1>5, <2>1, <2>2 DEF SlotsRight
<1>10. BuffersRight' /\ ResizeRight'
  BY <1>1, <1>2 DEF BuffersRight, BufferAt, ResizeRight, buffer
<1>11. SoftRight'
  BY <1>1, <1>2 DEF SoftRight, SoftAt, Entry, InBuffer, buffer, local
<1>12. EntriesValid' /\ EntriesOnce'
  <2>1. \A k \in SoftLevels, b \in Both : \A x \in Unread(k, b) : Pending(k, Entry(k, b, x)) /\ Entry(k, b, x) \in Used
    BY <1>4, AllPending
  <2>2. \A k \in SoftLevels : \A e \in Slots : Pending(k, e) => Pending(k, e)' \/ LeftOver(k, e)'
    <3>1. SUFFICES ASSUME NEW k \in SoftLevels, NEW e \in Slots, Pending(k, e) PROVE Pending(k, e)' \/ LeftOver(k, e)'
      OBVIOUS
    <3>2. PICK d \in Cyclics : slot[d] = e /\ cy_level[d] = k /\ cy_pend[cyp_cyclics][e] > 0
      BY <3>1 DEF Pending
    <3>3. CASE d = opc
      BY <1>2, <1>3, <1>4, <1>8, <3>2, <3>3 DEF LeftOver
    <3>4. CASE d # opc
      <4>1. e # i /\ slot'[d] = e
        BY <1>1, <1>3, <1>5, <3>2, <3>4, SlotIs
      <4> QED  BY <1>2, <1>5, <3>2, <4>1 DEF Pending
    <3> QED  BY <3>3, <3>4
  <2> QED  BY <1>2, <1>8, <2>1, <2>2, EntriesStay DEF Alike, buffer, local
<1>13. OwedRight'
  <2>1. SUFFICES ASSUME NEW d \in Cyclics PROVE OwedAt(d)'
    BY DEF OwedRight
  <2>2. OwedAt(d) /\ Flight(d)' = Flight(d) /\ Flight(d) \in {0, 1} /\ owed[d] \in Nat /\ cy_level[d] \in SoftLevels
    BY <1>1, <1>2, ConstantsAre DEF OwedRight, Flight, Count, local, CyTypes
  <2>3. CASE d # opc
    <3>1. slot[d] # NoCyclic => cy_pend'[cyp_cyclics][slot[d]] = cy_pend[cyp_cyclics][slot[d]]
      BY <1>1, <1>3, <1>5, <2>3, SlotIs
    <3> QED  BY <1>2, <1>5, <2>2, <2>3, <3>1 DEF OwedAt
  <2>4. CASE d = opc
    <3>1. softpc[cy_level[d]] # "rpend"
      BY <1>1, <1>2, <2>2 DEF SoftRight, SoftAt
    <3>2. owed[d] = cy_pend[cyp_cyclics][i] - Flight(d)
      BY <1>3, <2>2, <2>4 DEF OwedAt
    <3> QED  BY <1>2, <1>3, <1>4, <1>5, <2>2, <2>4, <3>1, <3>2 DEF OwedAt
  <2> QED  BY <2>3, <2>4
<1> QED  BY <1>6, <1>7, <1>9, <1>10, <1>11, <1>12, <1>13 DEF CyInv

LEMMA StepRemoveDone ==
  ASSUME CyInv, cyclic_remove_done
  PROVE  CyInv'
<1>1. CyTypes /\ Phases /\ SlotsRight /\ BuffersRight /\ SoftRight /\ OwedRight
  BY DEF CyInv
<1>2. /\ op = "remove_wait" /\ cyp_rpend' = 0 /\ cyp_state' = "ONLINE" /\ op' = "idle" /\ opc' = NoCyclic
      /\ UNCHANGED <<cyp_modify_levels, cyp_size, array, buffer, posted, softpc, local, owed>>
  BY DEF cyclic_remove_done
<1>3. ~Removal /\ ~Removal' /\ cyp_modify_wait' = 0 /\ opc \in Cyclics /\ slot[opc] = NoCyclic
  BY <1>1, <1>2 DEF Removal, cyclic_remove_done, Phases, CyTypes
<1>4. CyTypes'
  BY <1>1, <1>2, <1>3 DEF CyTypes, array, buffer, local
<1>5. Phases' /\ SlotsRight' /\ BuffersRight' /\ ResizeRight'
  BY <1>1, <1>2, <1>3 DEF Phases, SlotsRight, Used, BuffersRight, BufferAt, ResizeRight, array, buffer
<1>6. SoftRight'
  <2>1. SUFFICES ASSUME NEW k \in SoftLevels PROVE SoftAt(k)'
    BY DEF SoftRight
  <2>2. SoftAt(k)
    BY <1>1 DEF SoftRight
  <2>3. softpc[k] \notin {"zero", "rpend"}
    <3>1. softpc[k] \in {"zero", "rpend"} => handler[k] = opc
      BY <1>2, <2>2 DEF SoftAt
    <3> QED  BY <1>3, <3>1, HeadIs, ConstantsAre DEF InEntry
  <2> QED  BY <1>2, <2>2, <2>3 DEF SoftAt, Entry, array, buffer, local
<1>7. EntriesValid' /\ EntriesOnce'
  <2>1. (\A k, e : Pending(k, e) => Pending(k, e)') /\ Used' = Used
    BY <1>2 DEF Pending, Used, array
  <2> QED  BY <1>2, <1>3, <2>1, AllPending, EntriesStay DEF Alike, buffer, local
<1>8. OwedRight'
  BY <1>1, <1>2, <1>3 DEF OwedRight, OwedAt, Flight, array, local
<1> QED  BY <1>4, <1>5, <1>6, <1>7, <1>8 DEF CyInv

\* A field of the buffers that are not produced into.
Apart(f, v, g) ==
  \A k \in SoftLevels : g[k][cys_hard[k]] = f[k][cys_hard[k]] /\ g[k][1 - cys_hard[k]] = v

LEMMA OtherIs ==
  ASSUME CyTypes, NEW T, NEW f \in [SoftLevels -> [Both -> T]], NEW v \in T
  PROVE  Other(f, v) \in [SoftLevels -> [Both -> T]] /\ Apart(f, v, Other(f, v))
<1>1. \A k \in SoftLevels : /\ cys_hard[k] \in Both /\ 1 - cys_hard[k] \in Both /\ 1 - cys_hard[k] # cys_hard[k]
                            /\ \A b \in Both : b = cys_hard[k] \/ b = 1 - cys_hard[k]
  BY BothAre DEF CyTypes
<1>2. \A k \in SoftLevels : f[k] \in [Both -> T] /\ Other(f, v)[k] = [f[k] EXCEPT ![1 - cys_hard[k]] = v]
  BY DEF Other
<1>3. ASSUME NEW k \in SoftLevels PROVE Other(f, v)[k] \in [Both -> T]
  <2>1. PICK g \in [Both -> T] : g = f[k]
    BY <1>2
  <2>2. PICK o \in Both : o = 1 - cys_hard[k]
    BY <1>1
  <2>3. Other(f, v)[k] = [g EXCEPT ![o] = v]
    BY <1>2, <2>1, <2>2
  <2> QED  BY <2>3
<1>4. Other(f, v) \in [SoftLevels -> [Both -> T]]
  BY <1>3 DEF Other
<1> QED  BY <1>1, <1>2, <1>4 DEF Apart

LEMMA StepExpand ==
  ASSUME CyInv, NEW c \in Cyclics, cyclic_expand(c)
  PROVE  CyInv'
<1>1. CyTypes /\ Phases /\ SlotsRight /\ BuffersRight /\ SoftRight /\ OwedRight
  BY DEF CyInv
<1>2. /\ op = "idle" /\ slot[c] = NoCyclic /\ cyp_size < MaxSize
      /\ op' = "expand" /\ opc' = c /\ cyp_state' = "EXPANDING" /\ cyp_modify_levels' = 0
      /\ cypc_size' = Other(cypc_size, 2 * cyp_size)
      /\ cypc_prodndx' = Other(cypc_prodndx, 0) /\ cypc_consndx' = Other(cypc_consndx, 0)
      /\ UNCHANGED <<cyp_rpend, cyp_modify_wait, cyp_size, array, cys_hard, cys_soft, cypc_buf, posted, softpc, local, owed>>
  BY DEF cyclic_expand
<1>3. 2 * cyp_size \in Sizes \cup {0} /\ 0 \in Indexes /\ 0 \in Both
  BY <1>1, <1>2, SizesAre DEF CyTypes, Indexes, Both
<1>4. /\ cypc_size' \in [SoftLevels -> [Both -> Sizes \cup {0}]]
      /\ \A k \in SoftLevels : /\ cypc_size'[k][cys_hard[k]] = cypc_size[k][cys_hard[k]]
                               /\ cypc_size'[k][1 - cys_hard[k]] = 2 * cyp_size
  <2>1. cypc_size \in [SoftLevels -> [Both -> Sizes \cup {0}]] /\ 2 * cyp_size \in (Sizes \cup {0})
    BY <1>1, <1>3 DEF CyTypes
  <2>2. Other(cypc_size, 2 * cyp_size) \in [SoftLevels -> [Both -> Sizes \cup {0}]] /\ Apart(cypc_size, 2 * cyp_size, Other(cypc_size, 2 * cyp_size))
    BY <1>1, <2>1, OtherIs
  <2> QED  BY <1>2, <2>2 DEF Apart
<1>5. /\ cypc_prodndx' \in [SoftLevels -> [Both -> Indexes]]
      /\ \A k \in SoftLevels : /\ cypc_prodndx'[k][cys_hard[k]] = cypc_prodndx[k][cys_hard[k]]
                               /\ cypc_prodndx'[k][1 - cys_hard[k]] = 0
  <2>1. cypc_prodndx \in [SoftLevels -> [Both -> Indexes]] /\ 0 \in Indexes
    BY <1>1, <1>3 DEF CyTypes
  <2>2. Other(cypc_prodndx, 0) \in [SoftLevels -> [Both -> Indexes]] /\ Apart(cypc_prodndx, 0, Other(cypc_prodndx, 0))
    BY <1>1, <2>1, OtherIs
  <2> QED  BY <1>2, <2>2 DEF Apart
<1>6. /\ cypc_consndx' \in [SoftLevels -> [Both -> Indexes]]
      /\ \A k \in SoftLevels : /\ cypc_consndx'[k][cys_hard[k]] = cypc_consndx[k][cys_hard[k]]
                               /\ cypc_consndx'[k][1 - cys_hard[k]] = 0
  <2>1. cypc_consndx \in [SoftLevels -> [Both -> Indexes]] /\ 0 \in Indexes
    BY <1>1, <1>3 DEF CyTypes
  <2>2. Other(cypc_consndx, 0) \in [SoftLevels -> [Both -> Indexes]] /\ Apart(cypc_consndx, 0, Other(cypc_consndx, 0))
    BY <1>1, <2>1, OtherIs
  <2> QED  BY <1>2, <2>2 DEF Apart
<1>7. \A k \in SoftLevels : /\ cys_hard[k] \in Both /\ 1 - cys_hard[k] \in Both /\ 1 - cys_hard[k] # cys_hard[k]
                            /\ \A b \in Both : b = cys_hard[k] \/ b = 1 - cys_hard[k]
  BY <1>1, BothAre DEF CyTypes
<1>8. ~Removal /\ ~Removal'
  BY <1>2 DEF Removal
<1>9. CyTypes'
  BY <1>1, <1>2, <1>4, <1>5, <1>6 DEF CyTypes, array, local
<1>10. Phases' /\ SlotsRight' /\ ResizeRight'
  BY <1>1, <1>2 DEF Phases, SlotsRight, Used, ResizeRight, array
<1>11. BuffersRight'
  BY <1>1, <1>2, <1>4, <1>5, <1>6 DEF BuffersRight, BufferAt
<1>12. SoftRight'
  <2>1. SUFFICES ASSUME NEW k \in SoftLevels PROVE SoftAt(k)'
    BY DEF SoftRight
  <2>2. SoftAt(k) /\ (softpc[k] \in InBuffer => soft[k] = cys_hard[k])
    BY <1>1, <1>2 DEF SoftRight, SoftAt
  <2>3. softpc[k] \in InEntry => softpc[k] \in InBuffer
    BY DEF InEntry, InBuffer
  <2> QED  BY <1>2, <1>4, <1>5, <1>6, <2>2, <2>3 DEF SoftAt, Entry, array, local
<1>13. EntriesValid' /\ EntriesOnce'
  <2>1. ASSUME NEW k \in SoftLevels PROVE Unread(k, 1 - cys_hard[k])' = {}
    <3>1. PICK b \in Both : b = 1 - cys_hard[k] /\ b # cys_hard[k]
      BY <1>7
    <3>2. softpc[k] = "next" => soft[k] = cys_hard[k]
      BY <1>1, <1>2 DEF SoftRight, SoftAt, InBuffer
    <3>3. First(k, b)' = 0 /\ cypc_prodndx'[k][b] = 0
      BY <1>2, <1>5, <1>6, <3>1, <3>2 DEF First, local
    <3>4. \A x \in 0 .. Wrap - 1 : ~((x - 0) % Wrap < (0 - 0) % Wrap)
      BY SizesAre
    <3>5. Unread(k, b)' = {}
      BY <3>3, <3>4 DEF Unread
    <3> QED  BY <1>2, <3>1, <3>5
  <2>2. ASSUME NEW k \in SoftLevels PROVE Unread(k, cys_hard[k])' = Unread(k, cys_hard[k])
    BY <1>2, <1>4, <1>5, <1>6 DEF Unread, First, local
  <2>3. \A k \in SoftLevels, b \in Both : \A x \in Unread(k, b)' : x \in Unread(k, b) /\ Entry(k, b, x)' = Entry(k, b, x)
    <3>1. SUFFICES ASSUME NEW k \in SoftLevels, NEW b \in Both, NEW x \in Unread(k, b)'
                   PROVE  x \in Unread(k, b) /\ Entry(k, b, x)' = Entry(k, b, x)
      OBVIOUS
    <3>2. CASE b = cys_hard[k]
      <4>1. Unread(k, b)' = Unread(k, b)
        BY <1>2, <2>2, <3>2
      <4> QED  BY <1>2, <1>4, <3>2, <4>1 DEF Entry
    <3>3. CASE b = 1 - cys_hard[k]
      <4>1. Unread(k, b)' = {}
        BY <1>2, <2>1, <3>3
      <4> QED  BY <4>1
    <3> QED  BY <1>7, <3>2, <3>3
  <2>4. (\A k, e : Pending(k, e) => Pending(k, e)') /\ Used' = Used
    BY <1>2 DEF Pending, Used, array
  <2> QED  BY <1>8, <2>3, <2>4, EntriesDropped DEF LeftOver
<1>14. OwedRight'
  BY <1>1, <1>2, <1>8 DEF OwedRight, OwedAt, Flight, array, local
<1> QED  BY <1>9, <1>10, <1>11, <1>12, <1>13, <1>14 DEF CyInv

LEMMA StepExpandXcall ==
  ASSUME CyInv, cyclic_expand_xcall
  PROVE  CyInv'
<1>1. CyTypes /\ Phases /\ SlotsRight /\ BuffersRight /\ SoftRight /\ OwedRight
  BY DEF CyInv
<1>2. /\ op = "expand" /\ op' = "expand_wait" /\ cyp_size' = 2 * cyp_size
      /\ cyp_cyclics' = 1 - cyp_cyclics
      /\ cy_pend' = [a \in Both |-> IF a = cyp_cyclics THEN [i \in Slots |-> 0] ELSE cy_pend[cyp_cyclics]]
      /\ cy_handler' = [a \in Both |-> cy_handler[cyp_cyclics]]
      /\ cys_hard' = [l \in SoftLevels |-> 1 - cys_hard[l]] /\ posted' = posted \cup {CY_LOCK_LEVEL}
      /\ UNCHANGED <<cyp_state, cyp_rpend, cyp_modify_levels, cyp_modify_wait, slot,
                     cys_soft, cypc_buf, cypc_prodndx, cypc_consndx, cypc_size, softpc, local, opc, owed>>
  BY DEF cyclic_expand_xcall
<1>3. /\ cyp_size \in Sizes /\ cyp_size < MaxSize /\ 2 * cyp_size \in Sizes /\ cyp_size \in Nat
      /\ cyp_size > 0 /\ 2 * cyp_size > cyp_size
  <2>1. cyp_size \in Sizes /\ cyp_size < MaxSize
    BY <1>1, <1>2 DEF CyTypes, Phases
  <2>2. cyp_size \in Nat /\ cyp_size > 0 /\ 2 * cyp_size \in Sizes
    BY <2>1, SizesAre
  <2> QED  BY <2>1, <2>2
<1>4. /\ cyp_cyclics \in Both /\ 1 - cyp_cyclics \in Both /\ 1 - cyp_cyclics # cyp_cyclics /\ 1 - (1 - cyp_cyclics) = cyp_cyclics
      /\ \A a \in Both : a = cyp_cyclics \/ a = 1 - cyp_cyclics
  BY <1>1, BothAre DEF CyTypes
<1>5. /\ cy_pend'[cyp_cyclics'] = cy_pend[cyp_cyclics] /\ cy_pend'[1 - cyp_cyclics'] = [i \in Slots |-> 0]
      /\ cy_handler'[cyp_cyclics'] = cy_handler[cyp_cyclics] /\ cy_handler'[0] = cy_handler'[1]
      /\ cy_pend' \in [Both -> [Slots -> Nat]] /\ cy_handler' \in [Both -> [Slots -> Cyclics \cup {NoCyclic}]]
  BY <1>1, <1>2, <1>4 DEF CyTypes, Both
<1>6. /\ cys_hard' \in [SoftLevels -> Both]
      /\ \A k \in SoftLevels : /\ cys_hard[k] \in Both /\ cys_hard'[k] = 1 - cys_hard[k] /\ cys_hard'[k] # cys_hard[k]
                               /\ 1 - cys_hard'[k] = cys_hard[k] /\ cys_soft[k] = cys_hard[k]
  BY <1>1, <1>2, BothAre DEF CyTypes, SoftRight, SoftAt
<1>7. CyTypes'
  BY <1>1, <1>2, <1>3, <1>4, <1>5, <1>6, LevelsAre DEF CyTypes, local
<1>8. Phases'
  BY <1>1, <1>2 DEF Phases
<1>9. SlotsRight'
  <2>1. \A d \in Cyclics : slot[d] # NoCyclic => slot[d] < 2 * cyp_size /\ cy_handler[cyp_cyclics][slot[d]] = d
    <3>1. SUFFICES ASSUME NEW d \in Cyclics, slot[d] # NoCyclic
                   PROVE  slot[d] < 2 * cyp_size /\ cy_handler[cyp_cyclics][slot[d]] = d
      OBVIOUS
    <3>2. slot[d] < cyp_size /\ slot[d] \in Slots /\ cy_handler[cyp_cyclics][slot[d]] = d
      BY <1>1, <3>1, SlotIs DEF SlotsRight
    <3> QED  BY <1>3, <3>2 DEF Slots
  <2>2. \A i \in Slots : i >= 2 * cyp_size => cy_handler[cyp_cyclics][i] = NoCyclic
    BY <1>1, <1>3 DEF SlotsRight, Slots
  <2> QED  BY <1>1, <1>2, <1>5, <2>1, <2>2 DEF SlotsRight, Used
<1>10. BuffersRight'
  <2>1. SUFFICES ASSUME NEW k \in SoftLevels PROVE BufferAt(k)'
    BY DEF BuffersRight
  <2>2. BufferAt(k)
    BY <1>1 DEF BuffersRight
  <2> QED  BY <1>2, <1>3, <1>6, <2>2 DEF BufferAt
<1>11. SoftRight'
  <2>1. SUFFICES ASSUME NEW k \in SoftLevels PROVE SoftAt(k)'
    BY DEF SoftRight
  <2>2. SoftAt(k) /\ ~resized[k]
    BY <1>1, <1>2 DEF SoftRight, SoftAt
  <2>3. softpc[k] \notin {"zero", "levels", "kick", "rpend"}
    BY <1>2, <1>6, <2>2 DEF SoftAt, InBuffer
  <2> QED  BY <1>2, <1>5, <1>6, <2>2, <2>3 DEF SoftAt, Entry, local
<1>12. ResizeRight'
  <2>1. \A k \in SoftLevels : ~Told(k)' /\ softpc'[k] # "kick"
    BY <1>1, <1>2, <1>6 DEF Told, SoftRight, SoftAt
  <2>2. cyp_modify_levels' = 0 /\ cyp_modify_wait' = 0
    BY <1>1, <1>2 DEF Phases
  <2> QED  BY <2>1, <2>2, LevelsAre DEF ResizeRight, Count
<1>13. ~Removal /\ ~Removal'
  BY <1>2 DEF Removal
<1>14. EntriesValid' /\ EntriesOnce'
  <2>1. (\A k, e : Pending(k, e) => Pending(k, e)') /\ Used' = Used
    BY <1>2, <1>5 DEF Pending, Used
  <2> QED  BY <1>2, <1>13, <2>1, AllPending, EntriesStay DEF Alike, local
<1>15. OwedRight'
  BY <1>1, <1>2, <1>5, <1>13 DEF OwedRight, OwedAt, Flight, local
<1> QED  BY <1>7, <1>8, <1>9, <1>10, <1>11, <1>12, <1>14, <1>15 DEF CyInv

LEMMA StepExpandDone ==
  ASSUME CyInv, cyclic_expand_done
  PROVE  CyInv'
<1>1. CyTypes /\ Phases /\ SlotsRight /\ BuffersRight /\ SoftRight /\ ResizeRight /\ OwedRight
  BY DEF CyInv
<1> DEFINE N == [i \in Slots |-> NoCyclic]   Z == [i \in Slots |-> 0]
<1>2. /\ op = "expand_wait" /\ cyp_modify_wait > 0 /\ cyp_modify_wait' = cyp_modify_wait - 1
      /\ op' = "add" /\ cyp_state' = "ONLINE"
      /\ cypc_size' = Other(cypc_size, 0) /\ cypc_buf' = Other(cypc_buf, Z)
      /\ cypc_prodndx' = Other(cypc_prodndx, 0) /\ cypc_consndx' = Other(cypc_consndx, 0)
      /\ cy_handler' = [cy_handler EXCEPT ![1 - cyp_cyclics] = N]
      /\ UNCHANGED <<cyp_rpend, cyp_modify_levels, cyp_size, cyp_cyclics, cy_pend, slot, cys_hard, cys_soft,
                     posted, softpc, local, opc, owed>>
  BY DEF cyclic_expand_done
<1>3. 0 \in Indexes /\ 0 \in Slots /\ Z \in [Slots -> Slots] /\ N \in [Slots -> Cyclics \cup {NoCyclic}]
  <2>1. 0 \in Indexes /\ cyp_size \in Sizes
    BY <1>1, SizesAre DEF CyTypes, Indexes
  <2>2. 0 \in Slots
    BY <2>1, SizesAre
  <2> QED  BY <2>1, <2>2
<1>4. /\ cypc_size' \in [SoftLevels -> [Both -> Sizes \cup {0}]]
      /\ \A k \in SoftLevels : /\ cypc_size'[k][cys_hard[k]] = cypc_size[k][cys_hard[k]]
                               /\ cypc_size'[k][1 - cys_hard[k]] = 0
  <2>1. cypc_size \in [SoftLevels -> [Both -> Sizes \cup {0}]] /\ 0 \in (Sizes \cup {0})
    BY <1>1, <1>3 DEF CyTypes
  <2>2. Other(cypc_size, 0) \in [SoftLevels -> [Both -> Sizes \cup {0}]] /\ Apart(cypc_size, 0, Other(cypc_size, 0))
    BY <1>1, <2>1, OtherIs
  <2> QED  BY <1>2, <2>2 DEF Apart
<1>5. /\ cypc_prodndx' \in [SoftLevels -> [Both -> Indexes]]
      /\ \A k \in SoftLevels : cypc_prodndx'[k][cys_hard[k]] = cypc_prodndx[k][cys_hard[k]]
  <2>1. cypc_prodndx \in [SoftLevels -> [Both -> Indexes]] /\ 0 \in Indexes
    BY <1>1, <1>3 DEF CyTypes
  <2>2. Other(cypc_prodndx, 0) \in [SoftLevels -> [Both -> Indexes]] /\ Apart(cypc_prodndx, 0, Other(cypc_prodndx, 0))
    BY <1>1, <2>1, OtherIs
  <2> QED  BY <1>2, <2>2 DEF Apart
<1>6. /\ cypc_consndx' \in [SoftLevels -> [Both -> Indexes]]
      /\ \A k \in SoftLevels : cypc_consndx'[k][cys_hard[k]] = cypc_consndx[k][cys_hard[k]]
  <2>1. cypc_consndx \in [SoftLevels -> [Both -> Indexes]] /\ 0 \in Indexes
    BY <1>1, <1>3 DEF CyTypes
  <2>2. Other(cypc_consndx, 0) \in [SoftLevels -> [Both -> Indexes]] /\ Apart(cypc_consndx, 0, Other(cypc_consndx, 0))
    BY <1>1, <2>1, OtherIs
  <2> QED  BY <1>2, <2>2 DEF Apart
<1>7. /\ cypc_buf' \in [SoftLevels -> [Both -> [Slots -> Slots]]]
      /\ \A k \in SoftLevels : cypc_buf'[k][cys_hard[k]] = cypc_buf[k][cys_hard[k]]
  <2>1. cypc_buf \in [SoftLevels -> [Both -> [Slots -> Slots]]]
    BY <1>1 DEF CyTypes
  <2> HIDE DEF Z
  <2>2. Other(cypc_buf, Z) \in [SoftLevels -> [Both -> [Slots -> Slots]]] /\ Apart(cypc_buf, Z, Other(cypc_buf, Z))
    BY <1>1, <1>3, <2>1, OtherIs
  <2> QED  BY <1>2, <2>2 DEF Apart
<1>8. \A k \in SoftLevels : /\ cys_hard[k] \in Both
                            /\ \A b \in Both : b = cys_hard[k] \/ b = 1 - cys_hard[k]
  BY <1>1, BothAre DEF CyTypes
<1>9. /\ cyp_modify_wait = 1 /\ cyp_modify_wait' = 0 /\ cyp_modify_levels = 2
      /\ \A k \in SoftLevels : Told(k) /\ softpc[k] # "kick"
  BY <1>1, <1>2, LevelsAre DEF ResizeRight, Count, CyTypes
<1>10. /\ cy_handler' \in [Both -> [Slots -> Cyclics \cup {NoCyclic}]] /\ cy_handler'[cyp_cyclics] = cy_handler[cyp_cyclics]
  BY <1>1, <1>2, <1>3, BothAre DEF CyTypes
<1>11. CyTypes'
  BY <1>1, <1>2, <1>4, <1>5, <1>6, <1>7, <1>9, <1>10 DEF CyTypes, local
<1>12. Phases' /\ SlotsRight' /\ ResizeRight'
  BY <1>1, <1>2, <1>9, <1>10 DEF Phases, SlotsRight, Used, ResizeRight
<1>13. BuffersRight'
  BY <1>1, <1>2, <1>4 DEF BuffersRight, BufferAt
<1>14. SoftRight'
  <2>1. SUFFICES ASSUME NEW k \in SoftLevels PROVE SoftAt(k)'
    BY DEF SoftRight
  <2>2. /\ SoftAt(k) /\ cys_soft[k] = cys_hard[k] /\ ~resized[k] /\ softpc[k] \notin {"levels", "kick"}
        /\ softpc[k] \in InBuffer => soft[k] = cys_hard[k]
    BY <1>1, <1>9 DEF SoftRight, SoftAt, Told
  <2>3. softpc[k] \in InEntry => softpc[k] \in InBuffer
    BY DEF InEntry, InBuffer
  <2>4. softpc[k] \notin {"zero", "rpend"}
    BY <1>2, <2>2 DEF SoftAt, InBuffer
  <2>5. softpc[k] \in InBuffer => /\ cypc_consndx'[k][soft[k]] = cypc_consndx[k][soft[k]]
                                  /\ cypc_prodndx'[k][soft[k]] = cypc_prodndx[k][soft[k]]
                                  /\ Entry(k, soft[k], consndx[k])' = Entry(k, soft[k], consndx[k])
    BY <1>2, <1>4, <1>5, <1>6, <1>7, <2>2 DEF Entry, local
  <2>6. UNCHANGED <<softpc, soft, consndx, cyclics, ndx, handler, pend, resized, cys_soft, cys_hard, cyp_cyclics, opc>>
    BY <1>2 DEF local
  <2>7. op' = "add"
    BY <1>2
  <2> QED  BY <1>10, <2>2, <2>3, <2>4, <2>5, <2>6, <2>7 DEF SoftAt
<1>15. ~Removal /\ ~Removal'
  BY <1>2 DEF Removal
<1>16. EntriesValid' /\ EntriesOnce'
  <2>1. \A k \in SoftLevels, b \in Both : \A x \in Unread(k, b)' : x \in Unread(k, b) /\ Entry(k, b, x)' = Entry(k, b, x)
    <3>1. SUFFICES ASSUME NEW k \in SoftLevels, NEW b \in Both, NEW x \in Unread(k, b)'
                   PROVE  x \in Unread(k, b) /\ Entry(k, b, x)' = Entry(k, b, x)
      OBVIOUS
    <3>2. CASE b = cys_hard[k]
      <4>1. Unread(k, b)' = Unread(k, b)
        BY <1>2, <1>4, <1>5, <1>6, <3>2 DEF Unread, First, local
      <4> QED  BY <1>4, <1>7, <3>2, <4>1 DEF Entry
    <3>3. CASE b = 1 - cys_hard[k]
      <4>1. Unread(k, b)' = {}
        BY <1>4, <3>3 DEF Unread
      <4> QED  BY <4>1
    <3> QED  BY <1>8, <3>2, <3>3
  <2>2. (\A k, e : Pending(k, e) => Pending(k, e)') /\ Used' = Used
    BY <1>2 DEF Pending, Used
  <2> QED  BY <1>15, <2>1, <2>2, EntriesDropped DEF LeftOver
<1>17. OwedRight'
  BY <1>1, <1>2, <1>15 DEF OwedRight, OwedAt, Flight, local
<1> QED  BY <1>11, <1>12, <1>13, <1>14, <1>16, <1>17 DEF CyInv

-----------------------------------------------------------------------------
(* Cyclics: the theorems                                                   *)

LEMMA CyclicInitInvariant == CyclicInit => CyInv
<1>1. SUFFICES ASSUME CyclicInit PROVE CyInv
  OBVIOUS
<1>2. 0 \in Both /\ 1 \in Both /\ 0 \in Slots /\ 0 \in Indexes /\ Size \in Sizes
  BY SizesAre DEF Both, Indexes
<1>3. /\ cys_hard = [l \in SoftLevels |-> 0] /\ cys_soft = [l \in SoftLevels |-> 0]
      /\ cyclics = [l \in SoftLevels |-> 0] /\ soft = [l \in SoftLevels |-> 0] /\ ndx = [l \in SoftLevels |-> 0]
      /\ consndx = [l \in SoftLevels |-> 0] /\ pend = [l \in SoftLevels |-> 0]
      /\ softpc = [l \in SoftLevels |-> "off"] /\ resized = [l \in SoftLevels |-> FALSE]
      /\ handler = [l \in SoftLevels |-> NoCyclic]
      /\ cypc_buf = [l \in SoftLevels |-> [b \in Both |-> [i \in Slots |-> 0]]]
      /\ cypc_prodndx = [l \in SoftLevels |-> [b \in Both |-> 0]]
      /\ cypc_consndx = [l \in SoftLevels |-> [b \in Both |-> 0]]
      /\ cypc_size = [l \in SoftLevels |-> [b \in Both |-> IF b = 0 THEN Size ELSE 0]]
  BY <1>1 DEF CyclicInit, PerLevel
<1>4. CyTypes
  <2>1. /\ cyp_rpend \in Nat /\ cyp_modify_wait \in {0, 1} /\ cyp_modify_levels \in {0, 1, 2}
        /\ cyp_size \in Sizes /\ cyp_cyclics \in Both /\ posted \subseteq SoftLevels
        /\ cy_pend \in [Both -> [Slots -> Nat]] /\ cy_handler \in [Both -> [Slots -> Cyclics \cup {NoCyclic}]]
        /\ slot \in [Cyclics -> Slots \cup {NoCyclic}] /\ owed \in [Cyclics -> Nat]
    BY <1>1, <1>2 DEF CyclicInit
  <2>2. /\ cys_hard \in [SoftLevels -> Both] /\ cys_soft \in [SoftLevels -> Both] /\ cyclics \in [SoftLevels -> Both]
        /\ soft \in [SoftLevels -> Both] /\ ndx \in [SoftLevels -> Slots] /\ consndx \in [SoftLevels -> Indexes]
        /\ pend \in [SoftLevels -> Nat] /\ handler \in [SoftLevels -> Cyclics \cup {NoCyclic}]
    BY <1>2, <1>3
  <2>3. softpc \in [SoftLevels -> SoftLabels] /\ resized \in [SoftLevels -> BOOLEAN]
    BY <1>3 DEF SoftLabels
  <2>4. cypc_buf \in [SoftLevels -> [Both -> [Slots -> Slots]]]
    BY <1>2, <1>3
  <2>5. cypc_prodndx \in [SoftLevels -> [Both -> Indexes]] /\ cypc_consndx \in [SoftLevels -> [Both -> Indexes]]
    BY <1>2, <1>3
  <2>6. cypc_size \in [SoftLevels -> [Both -> Sizes \cup {0}]]
    BY <1>2, <1>3
  <2> QED  BY <2>1, <2>2, <2>3, <2>4, <2>5, <2>6 DEF CyTypes
<1>5. /\ op = "idle" /\ opc = NoCyclic /\ cyp_state = "ONLINE" /\ cyp_rpend = 0 /\ cyp_modify_wait = 0
      /\ cyp_cyclics = 0 /\ cyp_size = Size
      /\ \A c \in Cyclics : slot[c] = NoCyclic /\ owed[c] = 0
      /\ \A a \in Both, i \in Slots : cy_pend[a][i] = 0 /\ cy_handler[a][i] = NoCyclic
  BY <1>1 DEF CyclicInit
<1>6. \A l \in SoftLevels : softpc[l] = "off" /\ ~resized[l] /\ handler[l] = NoCyclic /\ cys_soft[l] = 0 /\ cys_hard[l] = 0
  BY <1>3
<1>7. Phases
  BY <1>5 DEF Phases
<1>8. SlotsRight
  BY <1>2, <1>5 DEF SlotsRight
<1>9. BuffersRight
  BY <1>2, <1>3, <1>5, <1>6 DEF BuffersRight, BufferAt
<1>10. SoftRight
  BY <1>6 DEF SoftRight, SoftAt, InBuffer, InEntry
<1>11. ResizeRight
  BY <1>5 DEF ResizeRight
<1>12. \A l \in SoftLevels, b \in Both : Unread(l, b) = {}
  <2>1. SUFFICES ASSUME NEW l \in SoftLevels, NEW b \in Both PROVE Unread(l, b) = {}
    OBVIOUS
  <2>2. First(l, b) = 0 /\ cypc_prodndx[l][b] = 0
    BY <1>3, <1>6 DEF First
  <2>3. \A x \in 0 .. Wrap - 1 : ~((x - 0) % Wrap < (0 - 0) % Wrap)
    BY SizesAre
  <2> QED  BY <2>2, <2>3 DEF Unread
<1>13. EntriesValid /\ EntriesOnce
  BY <1>12 DEF EntriesValid, EntriesOnce
<1>14. OwedRight
  BY <1>5 DEF OwedRight, OwedAt, Removal
<1> QED  BY <1>4, <1>7, <1>8, <1>9, <1>10, <1>11, <1>13, <1>14 DEF CyInv

LEMMA CyclicStutter == CyInv /\ UNCHANGED cyclic_vars => CyInv'
<1>1. SUFFICES ASSUME CyInv, UNCHANGED cyclic_vars PROVE CyInv'
  OBVIOUS
<1>2. CyTypes' /\ Phases' /\ SlotsRight' /\ BuffersRight' /\ SoftRight' /\ ResizeRight' /\ OwedRight'
  BY <1>1 DEF CyInv, CyTypes, Phases, SlotsRight, Used, BuffersRight, BufferAt, SoftRight, SoftAt, Entry, ResizeRight,
              Told, OwedRight, OwedAt, Removal, Flight, cyclic_vars, cpu, array, buffer, local, thread
<1>3. EntriesValid' /\ EntriesOnce'
  <2>1. UNCHANGED <<array, cypc_buf, cypc_prodndx, cypc_size, opc>> /\ (Removal' <=> Removal)
    BY <1>1 DEF Removal, cyclic_vars, cpu, buffer, thread
  <2>2. \A k \in SoftLevels, b \in Both : First(k, b)' = First(k, b)
    BY <1>1 DEF First, cyclic_vars, buffer, local
  <2> QED  BY <1>1, <2>1, <2>2, EntriesSame
<1> QED  BY <1>2, <1>3 DEF CyInv

LEMMA CyclicNextInvariant == CyInv /\ [CyclicNext]_cyclic_vars => CyInv'
<1>1. SUFFICES ASSUME CyInv, CyclicNext PROVE CyInv'
  BY CyclicStutter
<1>2. CASE \E l \in SoftLevels : Soft(l)
  BY <1>1, <1>2, StepSoftint, StepTop, StepWhile, StepCall, StepReread, StepZero, StepCas, StepRemovePend,
     StepNext, StepDrained, StepLevels, StepKick, StepPost DEF Soft
<1>3. CASE \E c \in Cyclics : cyclic_expire(c) \/ cyclic_remove_here(c) \/ cyclic_expand(c)
  BY <1>1, <1>3, StepExpire, StepRemoveHere, StepExpand
<1>4. CASE \E c \in Cyclics, i \in Slots : cyclic_add_xcall(c, i)
  BY <1>1, <1>4, StepAdd
<1>5. CASE Waits
  BY <1>1, <1>5, StepExpandXcall, StepExpandDone, StepRemoveXcall, StepRemoveDone DEF Waits
<1> QED  BY <1>1, <1>2, <1>3, <1>4, <1>5 DEF CyclicNext

\* Counts, arrays and buffers fit together: what is in a buffer is counted, is
\* there once, and what is owed is what is counted, wherever the count is.
THEOREM CyclicInvariant == CyclicSpec => []CyInv
<1>1. CyclicInit => CyInv
  BY CyclicInitInvariant
<1>2. CyInv /\ [CyclicNext]_cyclic_vars => CyInv'
  BY CyclicNextInvariant
<1> QED  BY <1>1, <1>2, PTL DEF CyclicSpec

\* A soft level calls the handler of a cyclic only at the cyclic's level.
LEMMA FlightIs ==
  ASSUME CyInv, NEW c \in Cyclics
  PROVE  Cardinality(InFlight(c)) = Flight(c)
<1>1. cy_level[c] \in SoftLevels
  BY ConstantsAre
<1>2. \A l \in SoftLevels : softpc[l] \in {"reread", "zero", "cas"} /\ handler[l] = c => l = cy_level[c]
  BY HeadIs DEF InEntry
<1>3. InFlight(c) = IF Flight(c) = 1 THEN {cy_level[c]} ELSE {}
  BY <1>1, <1>2 DEF InFlight, Flight, Count
<1>4. Cardinality({cy_level[c]}) = 1 /\ Cardinality({}) = 0
  BY FS_Singleton, FS_EmptySet
<1> QED  BY <1>3, <1>4 DEF Flight, Count

\* cyclic_expire() and cyclic_softint() agree: a slot is at most once in the
\* buffers of its level, and only while its count is not zero.
LEMMA EnteredOnce ==
  ASSUME CyInv, NEW c \in Cyclics, slot[c] # NoCyclic
  PROVE  Cardinality(Entries(cy_level[c], Both, slot[c])) <= IF cy_pend[cyp_cyclics][slot[c]] > 0 THEN 1 ELSE 0
<1> DEFINE l == cy_level[c]   i == slot[c]   E == Entries(l, Both, i)
<1>1. CyTypes /\ SlotsRight /\ EntriesOnce /\ l \in SoftLevels
  BY ConstantsAre DEF CyInv
<1>2. i \in Used
  BY <1>1, SlotIs
<1>3. \A e \in E : /\ e[1] \in Both /\ e[2] \in Unread(l, e[1]) /\ Entry(l, e[1], e[2]) = i /\ e = <<e[1], e[2]>>
  BY DEF Entries
<1>4. \A e, g \in E : e = g
  <2>1. SUFFICES ASSUME NEW e \in E, NEW g \in E PROVE e = g
    OBVIOUS
  <2>2. e[1] = g[1] /\ e[2] = g[2]
    <3>1. Alike(Entry(l, e[1], e[2]), Entry(l, g[1], g[2]))
      BY <1>3 DEF Alike
    <3> QED  BY <1>1, <1>3, <3>1 DEF EntriesOnce
  <2> QED  BY <1>3, <2>2
<1>5. E # {} => cy_pend[cyp_cyclics][i] > 0
  <2>1. SUFFICES ASSUME NEW e \in E PROVE cy_pend[cyp_cyclics][i] > 0
    OBVIOUS
  <2> QED  BY <1>1, <1>2, <1>3, EntryBelow
<1>6. CASE E = {}
  BY <1>6, FS_EmptySet
<1>7. CASE E # {}
  <2>1. PICK e : E = {e}
    BY <1>4, <1>7
  <2>2. Cardinality({e}) = 1
    BY FS_Singleton
  <2> QED  BY <1>5, <1>7, <2>1, <2>2
<1> QED  BY <1>6, <1>7

\* "there must be a one-to-one mapping between a cyclic's expiration [...] and
\* its execution": for any number of cyclics, sizes and expirations, through
\* removals and resizes at any moment, every expiration is counted once, is in a
\* buffer at most once, a count of zero has a cause, and nobody has a pointer to
\* what a resize frees.
THEOREM CyclicsAreRight == CyclicSpec => []CyclicsRight
<1>1. CyInv => CyclicsRight
  <2>1. SUFFICES ASSUME CyInv PROVE CyclicsRight
    OBVIOUS
  <2>2. CyTypes /\ Phases /\ SoftRight /\ OwedRight
    BY <2>1 DEF CyInv
  <2>3. CyclicTypeOK
    <3>1. cyp_size \in 1 .. MaxSize
      <4>1. cyp_size \in Sizes
        BY <2>2 DEF CyTypes
      <4>2. cyp_size \in Nat /\ cyp_size > 0 /\ cyp_size <= MaxSize /\ MaxSize \in Nat
        BY <4>1, SizesAre
      <4> QED  BY <4>2
    <3>2. cyp_state \in {"ONLINE", "EXPANDING", "REMOVING"}
      BY <2>2 DEF Phases
    <3> QED  BY <2>2, <3>1, <3>2, LevelsAre DEF CyclicTypeOK, CyTypes
  <2>4. OneToOne
    <3>1. SUFFICES ASSUME NEW c \in Cyclics
                   PROVE  IF slot[c] # NoCyclic
                          THEN owed[c] = cy_pend[cyp_cyclics][slot[c]] - Cardinality(InFlight(c))
                          ELSE ~Removing(c) => owed[c] = 0
      BY DEF OneToOne
    <3>2. OwedAt(c) /\ Cardinality(InFlight(c)) = Flight(c)
      BY <2>1, <2>2, FlightIs DEF OwedRight
    <3> QED  BY <3>2 DEF OwedAt, Removing, Removal
  <2>5. EnqueuedOnce
    BY <2>1, EnteredOnce DEF EnqueuedOnce
  <2>6. ZeroHasCause
    <3>1. SUFFICES ASSUME NEW l \in SoftLevels
                   PROVE  /\ softpc[l] = "zero" => \/ cyp_state = "REMOVING" /\ cyp_rpend > 0 /\ handler[l] = opc
                                                   \/ cyp_state = "EXPANDING" /\ cyclics[l] # cyp_cyclics /\ ~resized[l]
                          /\ softpc[l] = "levels" \/ (softpc[l] = "drained" /\ (soft[l] # cys_hard[l] \/ resized[l]))
                               => cyp_state = "EXPANDING"
      BY DEF ZeroHasCause
    <3>2. SoftAt(l)
      BY <2>2 DEF SoftRight
    <3>3. softpc[l] = "zero" /\ op = "remove_wait" => Removal /\ handler[l] = opc
      <4>1. SUFFICES ASSUME softpc[l] = "zero", op = "remove_wait" PROVE Removal /\ handler[l] = opc
        OBVIOUS
      <4>2. handler[l] = opc /\ slot[opc] = NoCyclic
        BY <2>2, <3>2, <4>1 DEF SoftAt, Phases
      <4> QED  BY <2>1, <4>1, <4>2, HeadIs, ConstantsAre DEF InEntry
    <3>4. softpc[l] = "zero" /\ op # "remove_wait" => op = "expand_wait" /\ cyclics[l] # cyp_cyclics /\ ~resized[l]
      BY <3>2 DEF SoftAt, InBuffer
    <3>5. softpc[l] = "levels" \/ (softpc[l] = "drained" /\ (soft[l] # cys_hard[l] \/ resized[l])) => op = "expand_wait"
      BY <3>2 DEF SoftAt, InBuffer
    <3> QED  BY <2>2, <3>3, <3>4, <3>5 DEF Removal, Phases
  <2>7. OldIsUnused
    <3>1. cyp_state # "EXPANDING" => op # "expand_wait"
      BY <2>2 DEF Phases
    <3>2. \A l \in SoftLevels : softpc[l] \in SoftLabels
      BY <2>2 DEF CyTypes
    <3> QED  BY <2>2, <3>1, <3>2 DEF OldIsUnused, SoftRight, SoftAt, SoftLabels, InBuffer
  <2> QED  BY <2>3, <2>4, <2>5, <2>6, <2>7 DEF CyclicsRight
<1> QED  BY <1>1, CyclicInvariant, PTL

\* "after cyclic_remove() returns, the cyclic handler has returned and will
\* never again be called": who is about to call a handler calls that of a cyclic
\* which is still there, or whose removal waits for the call.
THEOREM NothingAfterRemoval == CyclicSpec => []RemovedIsOver
<1>1. CyInv => RemovedIsOver
  <2>1. SUFFICES ASSUME CyInv, NEW l \in SoftLevels, softpc[l] \in {"call", "rpend"}
                 PROVE  slot[handler[l]] # NoCyclic \/ Removing(handler[l])
    BY DEF RemovedIsOver
  <2> QED  BY <2>1, HeadIs, ConstantsAre DEF InEntry, Removing, Removal
<1> QED  BY <1>1, CyclicInvariant, PTL
=============================================================================
