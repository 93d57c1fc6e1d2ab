---------------------------- MODULE CallbProofs ----------------------------
(***************************************************************************)
(* Proofs about Callb: the lists of the table stay exact through additions *)
(* and deletions, no function is called that is not registered, and an     *)
(* execution of a class that never has to wait passes over nobody.         *)
(***************************************************************************)
EXTENDS Callb, TLAPS

-----------------------------------------------------------------------------
(* The invariant                                                           *)

Labels == {"idle", "add_wait", "add_woken", "added", "delete_wait", "delete_woken",
           "start", "func", "wait", "woken", "return"}
ExecutorLabels == {"idle", "start", "func", "wait", "woken", "return"}

Types ==
  /\ ct_first_cb \in [Classes -> Entries \cup {Null}] /\ ct_freelist \in Entries \cup {Null}
  /\ ct_busy \in BOOLEAN /\ c_next \in [Entries -> Entries \cup {Null}]
  /\ c_class \in [Entries -> Classes \cup {Null}]
  /\ c_flag \in [Entries -> {"free", "taken", "executing"}] /\ allocated \subseteq Entries
  /\ entry \in [Clients -> Entries \cup {Null}] /\ cp \in [Executors -> Entries \cup {Null}]
  /\ class \in [Executors -> Classes \cup {Null}] /\ todo \in [Executors -> SUBSET Entries]
  /\ slept \subseteq Executors /\ failed \in [Executors -> BOOLEAN] /\ pc \in [Threads -> Labels]

\* Two entries do not lead to the same one, and no set of entries is linked in
\* itself.
Linked(next) ==
  /\ \A x, y \in Entries : x # y /\ next[x] # Null => next[x] # next[y]
  /\ \A S \in SUBSET Entries : S # {} => \E x \in S : next[x] \notin S

\* No entry leads to x.
Leads(next, x) == \E z \in Entries : next[z] = x
IsHead(next, x) == x # Null => ~Leads(next, x)

\* What is in which list.
Lists(first, free, next, cls, flag, alloc) ==
  /\ Linked(next)
  /\ \A k \in Classes : ListOf(next, first[k]) = {x \in Entries : flag[x] # "free" /\ cls[x] = k} /\ IsHead(next, first[k])
  /\ ListOf(next, free) = {x \in alloc : flag[x] = "free"} /\ IsHead(next, free)
  /\ \A x \in Entries : flag[x] # "free" => x \in alloc /\ cls[x] \in Classes
  /\ \A x \in Entries \ alloc : next[x] = Null

\* Who has which entry.
ClientsRight ==
  /\ \A c \in Clients :
       /\ entry[c] # Null <=> pc[c] \in {"added", "delete_wait", "delete_woken"}
       /\ entry[c] # Null => c_flag[entry[c]] # "free"
       /\ pc[c] = "delete_wait" => c_flag[entry[c]] = "executing"
       /\ pc[c] = "add_wait" => ct_busy
       /\ \A d \in Clients : c # d /\ entry[c] # Null => entry[c] # entry[d]
  /\ \A x \in Entries : c_flag[x] # "free" => \E c \in Clients : entry[c] = x

\* Where the executors are, and what those that never had to wait have still to call.
ExecutorRight(e) ==
  /\ pc[e] \in ExecutorLabels
  /\ pc[e] \in {"func", "wait", "woken"} => cp[e] # Null
  /\ pc[e] = "func" => c_flag[cp[e]] = "executing" /\ \A f \in Executors \ {e} : pc[f] = "func" => cp[f] # cp[e]
  /\ pc[e] = "wait" => c_flag[cp[e]] = "executing"
  /\ pc[e] \in {"wait", "woken"} => e \in slept
  /\ pc[e] = "start" => class[e] \in Classes /\ todo[e] \subseteq List(ct_first_cb[class[e]])
  /\ pc[e] = "func" /\ e \notin slept => c_class[cp[e]] = class[e] /\ todo[e] \subseteq List(c_next[cp[e]])
  /\ pc[e] = "return" /\ e \notin slept /\ ~failed[e] => todo[e] = {}
ExecutorsRight == \A e \in Executors : ExecutorRight(e)

CbInv == Types /\ Lists(ct_first_cb, ct_freelist, c_next, c_class, c_flag, allocated) /\ ClientsRight /\ ExecutorsRight

-----------------------------------------------------------------------------
(* Lists                                                                   *)

Nexts == [Entries -> Entries \cup {Null}]

LEMMA NullIs == Null \notin Entries /\ Null \notin Classes /\ Null \notin Threads
BY SetsAssumption

\* The list from x on has x, is closed, and is in every other such set.
LEMMA ListIs ==
  ASSUME NEW next \in Nexts, NEW x \in Entries
  PROVE  /\ x \in ListOf(next, x) /\ ListOf(next, x) \subseteq Entries /\ Closed(next, ListOf(next, x))
         /\ \A S \in SUBSET Entries : x \in S /\ Closed(next, S) => ListOf(next, x) \subseteq S
<1>1. x # Null
  BY NullIs
<1>2. x \in ListOf(next, x) /\ ListOf(next, x) \subseteq Entries
  BY <1>1 DEF ListOf
<1>3. ASSUME NEW y \in ListOf(next, x), next[y] # Null PROVE next[y] \in ListOf(next, x)
  <2>1. y \in Entries /\ next[y] \in Entries
    BY <1>3 DEF ListOf, Nexts
  <2>2. ASSUME NEW S \in SUBSET Entries, x \in S, Closed(next, S) PROVE next[y] \in S
    <3>1. y \in S
      BY <2>2 DEF ListOf
    <3> QED  BY <3>1, <2>2, <1>3 DEF Closed
  <2> QED  BY <2>1, <2>2, <1>1 DEF ListOf
<1>4. Closed(next, ListOf(next, x))
  BY <1>3 DEF Closed
<1>5. \A S \in SUBSET Entries : x \in S /\ Closed(next, S) => ListOf(next, x) \subseteq S
  BY DEF ListOf
<1> QED  BY <1>2, <1>4, <1>5

LEMMA ListNull == \A next : ListOf(next, Null) = {}
BY DEF ListOf

\* It is x and the list from the next one on.
LEMMA ListStep ==
  ASSUME NEW next \in Nexts, NEW x \in Entries
  PROVE  ListOf(next, x) = {x} \cup ListOf(next, next[x])
<1> DEFINE L == ListOf(next, x)   M == ListOf(next, next[x])
<1>1. /\ x \in L /\ L \subseteq Entries /\ Closed(next, L)
      /\ \A S \in SUBSET Entries : x \in S /\ Closed(next, S) => L \subseteq S
  BY ListIs
<1>2. CASE next[x] = Null
  <2>1. M = {}
    BY <1>2, ListNull
  <2>2. Closed(next, {x})
    BY <1>2 DEF Closed
  <2>3. L \subseteq {x}
    BY <2>2, <1>1
  <2> QED  BY <2>1, <2>3, <1>1
<1>3. CASE next[x] # Null
  <2>1. next[x] \in Entries
    BY <1>3 DEF Nexts
  <2>2. /\ next[x] \in M /\ M \subseteq Entries /\ Closed(next, M)
        /\ \A S \in SUBSET Entries : next[x] \in S /\ Closed(next, S) => M \subseteq S
    BY <2>1, ListIs
  <2>3. Closed(next, {x} \cup M)
    BY <2>2 DEF Closed
  <2>4. L \subseteq {x} \cup M
    <3>1. {x} \cup M \in SUBSET Entries /\ x \in {x} \cup M
      BY <2>2
    <3> QED  BY <3>1, <2>3, <1>1
  <2>5. M \subseteq L
    <3>1. next[x] \in L
      BY <1>1, <1>3 DEF Closed
    <3> QED  BY <3>1, <2>2, <1>1
  <2> QED  BY <2>4, <2>5, <1>1
<1> QED  BY <1>2, <1>3

\* A list is as it was if no link in it has changed.
LEMMA ListFrame ==
  ASSUME NEW next \in Nexts, NEW next2 \in Nexts, NEW x \in Entries \cup {Null},
         \A y \in ListOf(next, x) : next2[y] = next[y]
  PROVE  ListOf(next2, x) = ListOf(next, x)
<1>1. CASE x = Null
  BY <1>1, ListNull
<1>2. CASE x # Null
  <2> DEFINE L == ListOf(next, x)   M == ListOf(next2, x)
  <2>0. x \in Entries
    BY <1>2
  <2>1. /\ x \in L /\ L \subseteq Entries /\ Closed(next, L)
        /\ \A S \in SUBSET Entries : x \in S /\ Closed(next, S) => L \subseteq S
    BY <2>0, ListIs
  <2>2. /\ x \in M /\ M \subseteq Entries /\ Closed(next2, M)
        /\ \A S \in SUBSET Entries : x \in S /\ Closed(next2, S) => M \subseteq S
    BY <2>0, ListIs
  <2>3. Closed(next2, L)
    BY <2>1 DEF Closed
  <2>4. M \subseteq L
    BY <2>1, <2>2, <2>3
  <2>5. Closed(next, M)
    BY <2>4, <2>2 DEF Closed
  <2>6. L \subseteq M
    BY <2>1, <2>2, <2>5
  <2> QED  BY <2>4, <2>6
<1> QED  BY <1>1, <1>2

\* What nothing leads to is in no list but the one that begins with it.
LEMMA HeadIsFirst ==
  ASSUME NEW next \in Nexts, NEW x \in Entries, ~Leads(next, x), NEW h \in Entries \cup {Null}, h # x
  PROVE  x \notin ListOf(next, h)
<1>1. CASE h = Null
  BY <1>1, ListNull
<1>2. CASE h # Null
  <2> DEFINE L == ListOf(next, h)
  <2>0. h \in Entries
    BY <1>2
  <2>1. /\ h \in L /\ L \subseteq Entries /\ Closed(next, L)
        /\ \A S \in SUBSET Entries : h \in S /\ Closed(next, S) => L \subseteq S
    BY <2>0, ListIs
  <2>2. Closed(next, L \ {x})
    BY <2>1 DEF Closed, Leads
  <2>3. L \ {x} \in SUBSET Entries /\ h \in L \ {x}
    BY <2>1
  <2>4. L \subseteq L \ {x}
    BY <2>1, <2>2, <2>3
  <2> QED  BY <2>4
<1> QED  BY <1>1, <1>2

-----------------------------------------------------------------------------
(* An entry becomes the head of a list                                     *)

LEMMA PushLinked ==
  ASSUME NEW next \in Nexts, Linked(next), NEW x \in Entries, ~Leads(next, x),
         NEW h \in Entries \cup {Null}, IsHead(next, h), h # x
  PROVE  Linked([next EXCEPT ![x] = h])
<1> DEFINE next2 == [next EXCEPT ![x] = h]
<1>1. next2[x] = h /\ \A y \in Entries \ {x} : next2[y] = next[y]
  BY DEF Nexts
<1> HIDE DEF next2
<1>2. ASSUME NEW y \in Entries, NEW z \in Entries, y # z, next2[y] # Null PROVE next2[y] # next2[z]
  BY <1>1, <1>2 DEF Linked, IsHead, Leads
<1>3. ASSUME NEW S \in SUBSET Entries, S # {} PROVE \E y \in S : next2[y] \notin S
  <2>1. CASE S = {x}
    BY <2>1, <1>1
  <2>2. CASE S # {x}
    <3>1. S \ {x} \in SUBSET Entries /\ S \ {x} # {}
      BY <2>2, <1>3
    <3>2. PICK y \in S \ {x} : next[y] \notin S \ {x}
      BY <3>1 DEF Linked
    <3>3. next[y] # x
      BY <3>2, <3>1 DEF Leads
    <3> QED  BY <3>2, <3>3, <1>1
  <2> QED  BY <2>1, <2>2
<1> QED  BY <1>2, <1>3 DEF Linked, next2

Added(first, free, next, cls, flag, alloc, x, k) ==
  /\ Lists([first EXCEPT ![k] = x], next[x], [next EXCEPT ![x] = first[k]],
           [cls EXCEPT ![x] = k], [flag EXCEPT ![x] = "taken"], alloc \cup {x})
  /\ \A h \in Entries \cup {Null} : h # x => ListOf([next EXCEPT ![x] = first[k]], h) = ListOf(next, h)

\* callb_add(): x, which was free and is led to by nobody, is the head of list k.
LEMMA AddLists ==
  ASSUME NEW first \in [Classes -> Entries \cup {Null}], NEW free \in Entries \cup {Null}, NEW next \in Nexts,
         NEW cls \in [Entries -> Classes \cup {Null}], NEW flag \in [Entries -> {"free", "taken", "executing"}],
         NEW alloc \in SUBSET Entries, Lists(first, free, next, cls, flag, alloc),
         NEW x \in Entries, NEW k \in Classes, flag[x] = "free", ~Leads(next, x),
         x = free \/ (free = Null /\ x \notin alloc)
  PROVE  Added(first, free, next, cls, flag, alloc, x, k)
<1> DEFINE next2 == [next EXCEPT ![x] = first[k]]   first2 == [first EXCEPT ![k] = x]
           cls2 == [cls EXCEPT ![x] = k]   flag2 == [flag EXCEPT ![x] = "taken"]
<1>1. /\ next2 \in Nexts /\ next2[x] = first[k] /\ \A y \in Entries \ {x} : next2[y] = next[y]
      /\ first2[k] = x /\ \A j \in Classes \ {k} : first2[j] = first[j]
      /\ cls2[x] = k /\ \A y \in Entries \ {x} : cls2[y] = cls[y]
      /\ flag2[x] = "taken" /\ \A y \in Entries \ {x} : flag2[y] = flag[y]
  BY DEF Nexts
<1> HIDE DEF next2, first2, cls2, flag2
<1>2. \A h \in Entries \cup {Null} : h # x => x \notin ListOf(next, h)
  BY HeadIsFirst
<1>3. ASSUME NEW h \in Entries \cup {Null}, h # x PROVE ListOf(next2, h) = ListOf(next, h)
  <2>1. x \notin ListOf(next, h) /\ ListOf(next, h) \subseteq Entries
    BY <1>2, <1>3 DEF ListOf
  <2>2. \A y \in ListOf(next, h) : next2[y] = next[y]
    BY <2>1, <1>1
  <2> QED  BY <2>2, <1>1, ListFrame
<1>4. /\ Linked(next)
      /\ \A j \in Classes : ListOf(next, first[j]) = {y \in Entries : flag[y] # "free" /\ cls[y] = j} /\ IsHead(next, first[j])
      /\ ListOf(next, free) = {y \in alloc : flag[y] = "free"} /\ IsHead(next, free)
      /\ \A y \in Entries : flag[y] # "free" => y \in alloc /\ cls[y] \in Classes
      /\ \A y \in Entries \ alloc : next[y] = Null
  BY DEF Lists
<1>5. \A j \in Classes : first[j] # Null => first[j] \in Entries /\ flag[first[j]] # "free" /\ cls[first[j]] = j
  <2> TAKE j \in Classes
  <2> HAVE first[j] # Null
  <2>1. first[j] \in Entries
    OBVIOUS
  <2>2. first[j] \in ListOf(next, first[j])
    BY <2>1, ListIs
  <2> QED  BY <2>2, <1>4
<1>6. first[k] \in Entries \cup {Null} /\ first[k] # x
  BY <1>5, NullIs
<1>7. next[x] # Null => next[x] \in alloc /\ next[x] # x /\ flag[next[x]] = "free"
  <2> HAVE next[x] # Null
  <2>1. x = free /\ next[x] \in Entries
    BY <1>4 DEF Nexts
  <2>2. next[x] \in ListOf(next, free)
    BY <2>1, ListIs DEF Closed
  <2> QED  BY <2>1, <2>2, <1>4 DEF Leads
<1>8. ListOf(next, next[x]) = {y \in alloc : flag[y] = "free"} \ {x}
  <2>1. x \notin ListOf(next, next[x])
    BY <1>2, <1>7, NullIs DEF Nexts
  <2>2. CASE x = free
    <3>1. ListOf(next, x) = {x} \cup ListOf(next, next[x])
      BY ListStep
    <3> QED  BY <3>1, <2>1, <2>2, <1>4
  <2>3. CASE free = Null /\ x \notin alloc
    <3>1. next[x] = Null
      BY <2>3, <1>4
    <3>2. {y \in alloc : flag[y] = "free"} = {}
      BY <2>3, <1>4, ListNull
    <3> QED  BY <3>1, <3>2, ListNull
  <2> QED  BY <2>2, <2>3
<1>9. Linked(next2)
  BY <1>4, <1>6, PushLinked DEF next2
<1>10. ASSUME NEW j \in Classes
       PROVE  ListOf(next2, first2[j]) = {y \in Entries : flag2[y] # "free" /\ cls2[y] = j} /\ IsHead(next2, first2[j])
  <2>1. CASE j = k
    <3>1. ListOf(next2, x) = {x} \cup ListOf(next2, first[k])
      BY <1>1, ListStep
    <3>2. ListOf(next2, first[k]) = ListOf(next, first[k])
      BY <1>3, <1>6
    <3>3. ListOf(next2, x) = {y \in Entries : flag2[y] # "free" /\ cls2[y] = k}
      BY <3>1, <3>2, <1>1, <1>4
    <3>4. ~Leads(next2, x)
      BY <1>1, <1>6 DEF Leads
    <3> QED  BY <2>1, <3>3, <3>4, <1>1 DEF IsHead
  <2>2. CASE j # k
    <3>1. first2[j] = first[j] /\ first[j] # x /\ first[j] \in Entries \cup {Null}
      BY <2>2, <1>1, <1>5, NullIs
    <3>2. ListOf(next2, first[j]) = ListOf(next, first[j])
      BY <3>1, <1>3
    <3>3. ListOf(next2, first[j]) = {y \in Entries : flag2[y] # "free" /\ cls2[y] = j}
      BY <3>2, <2>2, <1>1, <1>4
    <3>4. IsHead(next2, first[j])
      <4>1. first[k] # first[j] \/ first[j] = Null
        BY <1>5, <2>2
      <4> QED  BY <4>1, <1>1, <1>4 DEF IsHead, Leads
    <3> QED  BY <3>1, <3>3, <3>4
  <2> QED  BY <2>1, <2>2
<1>11. ListOf(next2, next[x]) = {y \in alloc \cup {x} : flag2[y] = "free"} /\ IsHead(next2, next[x])
  <2>1. next[x] \in Entries \cup {Null} /\ next[x] # x
    BY <1>7, NullIs DEF Nexts
  <2>2. ListOf(next2, next[x]) = ListOf(next, next[x])
    BY <2>1, <1>3
  <2>3. ListOf(next2, next[x]) = {y \in alloc \cup {x} : flag2[y] = "free"}
    BY <2>2, <1>8, <1>1
  <2>4. IsHead(next2, next[x])
    <3>1. next[x] # Null => first[k] # next[x]
      BY <1>5, <1>7
    <3>2. \A z \in Entries \ {x} : next[x] # Null => next[z] # next[x]
      BY <1>4 DEF Linked
    <3> QED  BY <3>1, <3>2, <1>1 DEF IsHead, Leads
  <2> QED  BY <2>3, <2>4
<1>12. /\ \A y \in Entries : flag2[y] # "free" => y \in alloc \cup {x} /\ cls2[y] \in Classes
       /\ \A y \in Entries \ (alloc \cup {x}) : next2[y] = Null
  BY <1>1, <1>4
<1>13. Lists(first2, next[x], next2, cls2, flag2, alloc \cup {x})
  BY <1>9, <1>10, <1>11, <1>12 DEF Lists
<1> QED  BY <1>3, <1>13 DEF Added, next2, first2, cls2, flag2

-----------------------------------------------------------------------------
(* An entry leaves its list for the free list                              *)

\* next2: x is taken out after p, or was the head, and leads to f now.
Cut(next, p, x, f, next2) ==
  /\ next2 \in Nexts /\ next2[x] = f
  /\ \/ p = Null /\ ~Leads(next, x) /\ \A y \in Entries \ {x} : next2[y] = next[y]
     \/ /\ p \in Entries \ {x} /\ next[p] = x /\ next2[p] = next[x]
        /\ \A y \in Entries \ {x, p} : next2[y] = next[y]

LEMMA CutLinked ==
  ASSUME NEW next \in Nexts, Linked(next), NEW x \in Entries, NEW f \in Entries \cup {Null}, IsHead(next, f), f # x,
         NEW p, NEW next2, Cut(next, p, x, f, next2)
  PROVE  Linked(next2)
<1>1. CASE p = Null
  <2>1. next2 = [next EXCEPT ![x] = f]
    BY <1>1, NullIs DEF Cut, Nexts
  <2>2. ~Leads(next, x)
    BY <1>1, NullIs DEF Cut
  <2> QED  BY <2>1, <2>2, PushLinked
<1>2. CASE p # Null
  <2>1. /\ p \in Entries \ {x} /\ next[p] = x /\ next2[p] = next[x] /\ next2[x] = f
        /\ \A y \in Entries \ {x, p} : next2[y] = next[y]
    BY <1>2 DEF Cut
  <2>2. \A y, z \in Entries : y # z /\ next[y] # Null => next[y] # next[z]
    BY DEF Linked
  <2>3. \A y \in Entries : f # Null => next[y] # f
    BY DEF IsHead, Leads
  <2>4. ASSUME NEW y \in Entries, NEW z \in Entries, y # z, next2[y] # Null PROVE next2[y] # next2[z]
    BY <2>1, <2>2, <2>3, <2>4
  <2>5. ASSUME NEW S \in SUBSET Entries, S # {}, \A y \in S : next2[y] \in S PROVE FALSE
    <3>1. CASE p \in S
      <4>1. next[x] \in S
        BY <3>1, <2>1, <2>5
      <4>2. \A y \in S \cup {x} : next[y] \in S \cup {x}
        BY <4>1, <2>1, <2>5
      <4> QED  BY <4>2, <2>5 DEF Linked
    <3>2. CASE p \notin S
      <4>1. \A y \in S \ {x} : next[y] \in S \ {x}
        BY <3>2, <2>1, <2>2, <2>5, NullIs
      <4>2. S \ {x} # {}
        BY <2>1, <2>5
      <4>3. S \ {x} \in SUBSET Entries
        OBVIOUS
      <4> QED  BY <4>1, <4>2, <4>3 DEF Linked
    <3> QED  BY <3>1, <3>2
  <2> QED  BY <2>4, <2>5 DEF Linked
<1> QED  BY <1>1, <1>2

\* Nobody else leaves a list.
LEMMA CutKeeps ==
  ASSUME NEW next \in Nexts, Linked(next), NEW x \in Entries, NEW f, NEW p, NEW next2, Cut(next, p, x, f, next2),
         NEW h \in Entries \cup {Null}, h # x
  PROVE  ListOf(next, h) \ {x} \subseteq ListOf(next2, h)
<1>1. CASE h = Null
  BY <1>1, ListNull
<1>2. CASE h # Null
  <2> DEFINE M == ListOf(next2, h)   L == ListOf(next, h)
  <2>1. h \in Entries /\ next2 \in Nexts
    BY <1>2 DEF Cut
  <2>2. h \in M /\ M \subseteq Entries /\ Closed(next2, M)
    BY <2>1, ListIs
  <2>3. \A S \in SUBSET Entries : h \in S /\ Closed(next, S) => L \subseteq S
    BY <2>1, ListIs
  <2> HIDE DEF M, L
  <2>4. CASE p \in M
    <3>1. /\ p \in Entries \ {x} /\ next[p] = x /\ next2[p] = next[x]
          /\ \A y \in Entries \ {x, p} : next2[y] = next[y]
      BY <2>4, <2>2, NullIs DEF Cut
    <3>2. Closed(next, M \cup {x})
      BY <3>1, <2>4, <2>2 DEF Closed
    <3>3. M \cup {x} \in SUBSET Entries /\ h \in M \cup {x}
      BY <2>2
    <3>4. L \subseteq M \cup {x}
      BY <3>2, <3>3, <2>3
    <3> QED  BY <3>4 DEF L, M
  <2>5. CASE p \notin M
    <3>1. \A y \in M \ {x} : next2[y] = next[y] /\ next[y] # x
      BY <2>5, <2>2 DEF Cut, Linked, Leads, Nexts
    <3>2. Closed(next, M \ {x})
      BY <3>1, <2>2 DEF Closed
    <3>3. M \ {x} \in SUBSET Entries /\ h \in M \ {x}
      BY <2>2
    <3>4. L \subseteq M \ {x}
      BY <3>2, <3>3, <2>3
    <3> QED  BY <3>4 DEF L, M
  <2> QED  BY <2>4, <2>5
<1> QED  BY <1>1, <1>2

\* A list that x was in and did not begin has lost it and nothing else; one
\* that it was not in is the same.
LEMMA CutList ==
  ASSUME NEW next \in Nexts, Linked(next), NEW x \in Entries, NEW f, NEW p, NEW next2, Cut(next, p, x, f, next2),
         NEW h \in Entries \cup {Null}, h # x
  PROVE  ListOf(next2, h) = ListOf(next, h) \ {x} \/ (p # Null /\ p \notin ListOf(next, h) /\ x \in ListOf(next, h))
<1> SUFFICES ASSUME p = Null \/ p \in ListOf(next, h) \/ x \notin ListOf(next, h)
    PROVE ListOf(next2, h) \subseteq ListOf(next, h) \ {x}
  BY CutKeeps
<1>1. CASE h = Null
  BY <1>1, ListNull
<1>2. CASE h # Null
  <2> DEFINE M == ListOf(next2, h)   L == ListOf(next, h)
  <2>1. h \in Entries /\ next2 \in Nexts
    BY <1>2 DEF Cut
  <2>2. \A S \in SUBSET Entries : h \in S /\ Closed(next2, S) => M \subseteq S
    BY <2>1, ListIs
  <2>3. h \in L /\ L \subseteq Entries /\ Closed(next, L)
    BY <2>1, ListIs
  <2>4. p \in Entries => next[x] # x
    BY DEF Cut, Linked
  <2> HIDE DEF M, L
  <2>5. \A y \in L \ {x} : next2[y] # Null => next2[y] \in L \ {x}
    <3> SUFFICES ASSUME NEW y \in L \ {x}, next2[y] # Null PROVE next2[y] \in L \ {x}
      OBVIOUS
    <3>1. CASE y = p
      <4>1. next[y] = x /\ next2[y] = next[x] /\ x \in L
        BY <3>1, <2>3, NullIs DEF Cut, Closed
      <4> QED  BY <4>1, <3>1, <2>3, <2>4 DEF Closed
    <3>2. CASE y # p
      <4>1. next2[y] = next[y] /\ next[y] # x
        BY <3>2, <2>3 DEF Cut, Linked, Leads, Nexts
      <4> QED  BY <4>1, <2>3 DEF Closed
    <3> QED  BY <3>1, <3>2
  <2>6. Closed(next2, L \ {x})
    BY <2>5 DEF Closed
  <2>7. L \ {x} \in SUBSET Entries /\ h \in L \ {x}
    BY <2>3
  <2>8. M \subseteq L \ {x}
    BY <2>2, <2>6, <2>7
  <2> QED  BY <2>8 DEF L, M
<1> QED  BY <1>1, <1>2

\* callb_delete(): where x was in the list of its class, or what is before it.
CutFrom(first, next, k, p, x, first2) ==
  \/ p = Null /\ first[k] = x /\ first2 = [first EXCEPT ![k] = next[x]]
  \/ p \in ListOf(next, first[k]) /\ first[k] # x /\ first2 = first

LEMMA DeleteLists ==
  ASSUME NEW first \in [Classes -> Entries \cup {Null}], NEW free \in Entries \cup {Null}, NEW next \in Nexts,
         NEW cls \in [Entries -> Classes \cup {Null}], NEW flag \in [Entries -> {"free", "taken", "executing"}],
         NEW alloc \in SUBSET Entries, Lists(first, free, next, cls, flag, alloc),
         NEW x \in Entries, flag[x] # "free", NEW p, NEW next2, Cut(next, p, x, free, next2),
         NEW first2, CutFrom(first, next, cls[x], p, x, first2)
  PROVE  Lists(first2, x, next2, cls, [flag EXCEPT ![x] = "free"], alloc)
<1> DEFINE k == cls[x]   flag2 == [flag EXCEPT ![x] = "free"]
<1>1. /\ Linked(next)
      /\ \A j \in Classes : ListOf(next, first[j]) = {y \in Entries : flag[y] # "free" /\ cls[y] = j} /\ IsHead(next, first[j])
      /\ ListOf(next, free) = {y \in alloc : flag[y] = "free"} /\ IsHead(next, free)
      /\ \A y \in Entries : flag[y] # "free" => y \in alloc /\ cls[y] \in Classes
      /\ \A y \in Entries \ alloc : next[y] = Null
  BY DEF Lists
<1>2. /\ k \in Classes /\ x \in alloc /\ next2 \in Nexts /\ next2[x] = free
      /\ flag2[x] = "free" /\ \A y \in Entries \ {x} : flag2[y] = flag[y]
  BY <1>1 DEF Cut
<1>3. CutFrom(first, next, k, p, x, first2)
  OBVIOUS
<1> HIDE DEF k, flag2
<1>4. cls[x] = k
  BY DEF k
<1>5. \A j \in Classes : first[j] # Null => first[j] \in Entries /\ flag[first[j]] # "free" /\ cls[first[j]] = j
  <2> TAKE j \in Classes
  <2> HAVE first[j] # Null
  <2>1. first[j] \in Entries
    OBVIOUS
  <2>2. first[j] \in ListOf(next, first[j])
    BY <2>1, ListIs
  <2> QED  BY <2>2, <1>1
<1>6. free # x /\ (free # Null => free \in alloc /\ flag[free] = "free") /\ x \notin ListOf(next, free)
  <2>1. free # Null => free \in ListOf(next, free)
    BY ListIs
  <2> QED  BY <2>1, <1>1, NullIs
<1>7. x # Null /\ (p # Null => p \in Entries \ {x} /\ next[p] = x /\ next2[p] = next[x]
                               /\ \A y \in Entries \ {x, p} : next2[y] = next[y])
      /\ (p = Null => ~Leads(next, x) /\ \A y \in Entries \ {x} : next2[y] = next[y])
  BY NullIs DEF Cut
<1>8. \A y, z \in Entries : y # z /\ next[y] # Null => next[y] # next[z]
  BY <1>1 DEF Linked
<1>9. next[x] # x
  <2>1. CASE p = Null
    BY <2>1, <1>7 DEF Leads
  <2>2. CASE p # Null
    BY <2>2, <1>7, <1>8
  <2> QED  BY <2>1, <2>2
<1>10. next[x] # Null => next[x] \in Entries /\ flag[next[x]] # "free"
  <2> HAVE next[x] # Null
  <2>1. x \in ListOf(next, first[k]) /\ first[k] \in Entries \cup {Null}
    BY <1>1, <1>2, <1>4
  <2>2. first[k] \in Entries
    BY <2>1, ListNull
  <2>3. next[x] \in ListOf(next, first[k])
    BY <2>1, <2>2, ListIs DEF Closed
  <2> QED  BY <2>3, <1>1, <1>2
<1>11. Linked(next2)
  BY <1>1, <1>6, CutLinked
<1>12. ASSUME NEW h \in Entries \cup {Null}, h # x, p = Null \/ p \in ListOf(next, h) \/ x \notin ListOf(next, h)
       PROVE  ListOf(next2, h) = ListOf(next, h) \ {x}
  BY <1>12, <1>1, CutList
<1>13. ASSUME NEW y \in Entries, ~Leads(next, y), y # free, y # x PROVE ~Leads(next2, y)
  <2> SUFFICES ASSUME NEW z \in Entries, next2[z] = y PROVE FALSE
    BY DEF Leads
  <2>1. next[z] # y /\ next[x] # y
    BY <1>13 DEF Leads
  <2>2. z # x
    BY <1>2, <1>13
  <2>3. next2[z] = next[z] \/ next2[z] = next[x]
    BY <2>2, <1>7
  <2> QED  BY <2>1, <2>3
<1>14. ASSUME NEW j \in Classes
       PROVE  ListOf(next2, first2[j]) = {y \in Entries : flag2[y] # "free" /\ cls[y] = j} /\ IsHead(next2, first2[j])
  <2>1. ListOf(next, first[j]) = {y \in Entries : flag[y] # "free" /\ cls[y] = j} /\ IsHead(next, first[j])
    BY <1>1
  <2>2. CASE first2[j] = first[j] /\ first[j] # x /\ (j # k \/ p \in ListOf(next, first[j]))
    <3>1. x \in ListOf(next, first[j]) => j = k
      BY <2>1, <1>4
    <3>2. ListOf(next2, first[j]) = ListOf(next, first[j]) \ {x}
      BY <2>2, <3>1, <1>12
    <3>3. ListOf(next2, first[j]) = {y \in Entries : flag2[y] # "free" /\ cls[y] = j}
      BY <3>2, <2>1, <1>2
    <3>4. IsHead(next2, first[j])
      <4> SUFFICES ASSUME first[j] # Null PROVE ~Leads(next2, first[j])
        BY DEF IsHead
      <4>1. first[j] \in Entries /\ first[j] # free /\ ~Leads(next, first[j])
        BY <1>5, <1>6, <2>1 DEF IsHead
      <4> QED  BY <4>1, <2>2, <1>13
    <3> QED  BY <2>2, <3>3, <3>4
  <2>3. CASE j = k /\ p = Null
    <3>1. first[k] = x /\ first2[k] = next[x] /\ ~Leads(next, x)
      <4>1. p \notin ListOf(next, first[k])
        BY <2>3, NullIs DEF ListOf
      <4> QED  BY <4>1, <2>3, <1>2, <1>3, <1>7 DEF CutFrom
    <3>2. ListOf(next, x) = {x} \cup ListOf(next, next[x])
      BY ListStep
    <3>3. next[x] \in Entries \cup {Null}
      BY DEF Nexts
    <3>4. x \notin ListOf(next, next[x])
      BY <3>1, <3>3, <1>9, HeadIsFirst
    <3>5. ListOf(next2, next[x]) = ListOf(next, next[x]) \ {x}
      BY <3>3, <2>3, <1>9, <1>12
    <3>6. ListOf(next2, next[x]) = {y \in Entries : flag2[y] # "free" /\ cls[y] = k}
      BY <3>1, <3>2, <3>4, <3>5, <2>1, <2>3, <1>2
    <3>7. IsHead(next2, next[x])
      <4> SUFFICES ASSUME next[x] # Null, NEW z \in Entries, next2[z] = next[x] PROVE FALSE
        BY DEF IsHead, Leads
      <4>1. z # x
        BY <1>2, <1>6, <1>10
      <4>2. next[z] = next[x]
        BY <4>1, <2>3, <1>7
      <4> QED  BY <4>1, <4>2, <1>8
    <3> QED  BY <2>3, <3>1, <3>6, <3>7
  <2>4. j # k => first[j] # x
    BY <1>4, <1>5, <1>7
  <2>5. CASE p = Null
    <3>1. j # k => first2[j] = first[j]
      BY <2>5, <1>2, <1>3 DEF CutFrom
    <3> QED  BY <2>5, <3>1, <2>2, <2>3, <2>4
  <2>6. CASE p # Null
    <3>1. p \in ListOf(next, first[k]) /\ first[k] # x /\ first2 = first
      BY <2>6, <1>3 DEF CutFrom
    <3> QED  BY <3>1, <2>2, <2>4
  <2> QED  BY <2>5, <2>6
<1>15. ListOf(next2, x) = {y \in alloc : flag2[y] = "free"} /\ IsHead(next2, x)
  <2>1. ListOf(next2, x) = {x} \cup ListOf(next2, free)
    BY <1>2, ListStep
  <2>2. ListOf(next2, free) = ListOf(next, free) \ {x}
    BY <1>6, <1>12
  <2>3. ListOf(next2, x) = {y \in alloc : flag2[y] = "free"}
    BY <2>1, <2>2, <1>1, <1>2
  <2>4. ~Leads(next2, x)
    <3> SUFFICES ASSUME NEW z \in Entries, next2[z] = x PROVE FALSE
      BY DEF Leads
    <3>1. z # x
      BY <1>2, <1>6
    <3>2. z # p
      BY <1>7, <1>9, NullIs
    <3>3. next[z] = x
      BY <3>1, <3>2, <1>7
    <3> QED  BY <3>2, <3>3, <1>7, <1>8 DEF Leads
  <2> QED  BY <2>3, <2>4 DEF IsHead
<1>16. /\ \A y \in Entries : flag2[y] # "free" => y \in alloc /\ cls[y] \in Classes
       /\ \A y \in Entries \ alloc : next2[y] = Null
  <2>1. \A y \in Entries : flag2[y] # "free" => y \in alloc /\ cls[y] \in Classes
    BY <1>1, <1>2
  <2>2. p # Null => p \in alloc
    BY <1>3, <1>1, <1>2 DEF CutFrom
  <2> QED  BY <2>1, <2>2, <1>1, <1>2, <1>7
<1> QED  BY <1>11, <1>14, <1>15, <1>16 DEF Lists, flag2

\* An executor in the middle of a list has still the others before it.
LEMMA CutRest ==
  ASSUME NEW next \in Nexts, Linked(next), NEW x \in Entries, NEW f, NEW p, NEW next2, Cut(next, p, x, f, next2),
         next[x] # x, NEW z \in Entries \ {x}
  PROVE  ListOf(next, next[z]) \ {x} \subseteq ListOf(next2, next2[z])
<1>1. CASE z = p
  <2>1. next[z] = x /\ next2[z] = next[x] /\ next[x] \in Entries \cup {Null}
    BY <1>1, NullIs DEF Cut, Nexts
  <2>2. ListOf(next, x) = {x} \cup ListOf(next, next[x])
    BY ListStep
  <2>3. ListOf(next, next[x]) \ {x} \subseteq ListOf(next2, next[x])
    BY <2>1, CutKeeps
  <2> QED  BY <2>1, <2>2, <2>3
<1>2. CASE z # p
  <2>1. next2[z] = next[z] /\ next[z] # x /\ next[z] \in Entries \cup {Null}
    BY <1>2, NullIs DEF Cut, Linked, Leads, Nexts
  <2> QED  BY <2>1, CutKeeps
<1> QED  BY <1>1, <1>2

-----------------------------------------------------------------------------
(* The steps of the clients                                                *)

LEMMA ThreadsApart ==
  /\ \A c \in Clients : c \in Threads /\ c \notin Executors
  /\ \A e \in Executors : e \in Threads /\ e \notin Clients
BY SetsAssumption DEF Threads

LEMMA StepAdd ==
  ASSUME CbInv, NEW c \in Clients, NEW k \in Classes, callb_add(c, k)
  PROVE  CbInv'
<1> USE ThreadsApart, NullIs
<1>1. /\ Types /\ Lists(ct_first_cb, ct_freelist, c_next, c_class, c_flag, allocated) /\ ClientsRight /\ ExecutorsRight
  BY DEF CbInv
<1>2. PICK x \in Entries :
        /\ Insert(c, x, k) /\ ct_freelist' = c_next[x] /\ allocated' = allocated \cup {x}
        /\ x = ct_freelist \/ (ct_freelist = Null /\ x \notin allocated)
  <2>1. \A x \in Entries \ allocated : c_next[x] = Null
    BY <1>1 DEF Lists
  <2>2. CASE ct_freelist # Null
    <3>1. ct_freelist \in allocated
      <4>1. ct_freelist \in Entries
        BY <1>1, <2>2 DEF Types
      <4>2. ct_freelist \in ListOf(c_next, ct_freelist)
        BY <1>1, <4>1, ListIs DEF Types, Nexts
      <4> QED  BY <4>2, <1>1 DEF Lists
    <3>2. Insert(c, ct_freelist, k) /\ ct_freelist' = c_next[ct_freelist] /\ allocated' = allocated
      BY <2>2 DEF callb_add
    <3> QED  BY <3>1, <3>2, <1>1 DEF Types
  <2>3. CASE ct_freelist = Null
    <3>1. PICK x \in Entries \ allocated : Insert(c, x, k) /\ allocated' = allocated \cup {x} /\ ct_freelist' = ct_freelist
      BY <2>3 DEF callb_add
    <3> QED  BY <3>1, <2>1, <2>3
  <2> QED  BY <2>2, <2>3
<1>3. c_flag[x] = "free" /\ ~Leads(c_next, x)
  <2>1. CASE x = ct_freelist
    <3>1. x \in ListOf(c_next, ct_freelist)
      BY <2>1, <1>1, ListIs DEF Types, Nexts
    <3> QED  BY <3>1, <2>1, <1>1 DEF Lists, IsHead
  <2>2. CASE x # ct_freelist
    <3>1. x \notin allocated /\ ct_freelist = Null
      BY <2>2, <1>2
    <3>2. c_flag[x] = "free"
      BY <3>1, <1>1 DEF Lists, Types
    <3>3. ASSUME NEW z \in Entries, c_next[z] = x PROVE FALSE
      <4>1. z \in allocated
        BY <3>3, <1>1 DEF Lists
      <4>2. c_flag[z] # "free"
        <5>1. ListOf(c_next, ct_freelist) = {}
          BY <3>1, ListNull
        <5> QED  BY <5>1, <4>1, <1>1 DEF Lists
      <4>3. c_class[z] \in Classes /\ z \in ListOf(c_next, ct_first_cb[c_class[z]])
        BY <4>2, <1>1 DEF Lists
      <4>4. ct_first_cb[c_class[z]] \in Entries
        BY <4>3, <1>1, ListNull DEF Types
      <4>5. x \in ListOf(c_next, ct_first_cb[c_class[z]])
        BY <4>3, <4>4, <3>3, <1>1, ListIs DEF Closed, Types, Nexts
      <4> QED  BY <4>3, <4>5, <3>2, <1>1 DEF Lists
    <3> QED  BY <3>2, <3>3 DEF Leads
  <2> QED  BY <2>1, <2>2
<1>4. /\ entry' = [entry EXCEPT ![c] = x] /\ c_class' = [c_class EXCEPT ![x] = k]
      /\ c_flag' = [c_flag EXCEPT ![x] = "taken"] /\ c_next' = [c_next EXCEPT ![x] = ct_first_cb[k]]
      /\ ct_first_cb' = [ct_first_cb EXCEPT ![k] = x] /\ pc' = [pc EXCEPT ![c] = "added"]
      /\ pc[c] \in {"idle", "add_woken"} /\ UNCHANGED <<ct_busy, cp, class, todo, slept, failed>>
  BY <1>2 DEF Insert, Goto, callb_add, local
<1>5. /\ Lists(ct_first_cb', ct_freelist', c_next', c_class', c_flag', allocated')
      /\ \A h \in Entries \cup {Null} : h # x => ListOf(c_next', h) = ListOf(c_next, h)
  <2>1. c_next \in Nexts /\ ct_freelist \in Entries \cup {Null} /\ allocated \in SUBSET Entries
    BY <1>1 DEF Types, Nexts
  <2>2. /\ ct_first_cb \in [Classes -> Entries \cup {Null}] /\ c_class \in [Entries -> Classes \cup {Null}]
        /\ c_flag \in [Entries -> {"free", "taken", "executing"}]
    BY <1>1 DEF Types
  <2>3. Added(ct_first_cb, ct_freelist, c_next, c_class, c_flag, allocated, x, k)
    BY <1>1, <1>2, <1>3, <2>1, <2>2, AddLists
  <2> QED  BY ONLY <2>3, <1>2, <1>4 DEF Added
<1>6. Types'
  BY <1>1, <1>2, <1>4 DEF Types, Labels
<1>7. ClientsRight'
  <2>1. \A d \in Clients : entry[d] # x
    BY <1>1, <1>3 DEF ClientsRight
  <2>2. /\ entry'[c] = x /\ pc'[c] = "added" /\ c_flag'[x] = "taken"
        /\ \A d \in Clients \ {c} : entry'[d] = entry[d] /\ pc'[d] = pc[d]
        /\ \A y \in Entries \ {x} : c_flag'[y] = c_flag[y]
    BY <1>1, <1>4 DEF Types
  <2>3. entry[c] = Null
    BY <1>1, <1>4 DEF ClientsRight
  <2>4. ASSUME NEW d \in Clients
        PROVE  /\ entry'[d] # Null <=> pc'[d] \in {"added", "delete_wait", "delete_woken"}
               /\ entry'[d] # Null => c_flag'[entry'[d]] # "free"
               /\ pc'[d] = "delete_wait" => c_flag'[entry'[d]] = "executing"
               /\ pc'[d] = "add_wait" => ct_busy'
               /\ \A f \in Clients : d # f /\ entry'[d] # Null => entry'[d] # entry'[f]
    <3>1. CASE d = c
      BY <3>1, <2>1, <2>2, <2>3
    <3>2. CASE d # c
      <4>1. entry[d] \in Entries \cup {Null}
        BY <1>1 DEF Types
      <4> QED  BY <3>2, <4>1, <2>1, <2>2, <2>3, <1>1, <1>4 DEF ClientsRight
    <3> QED  BY <3>1, <3>2
  <2>5. ASSUME NEW y \in Entries, c_flag'[y] # "free" PROVE \E d \in Clients : entry'[d] = y
    <3>1. CASE y = x
      BY <3>1, <2>2
    <3>2. CASE y # x
      <4>1. PICK d \in Clients : entry[d] = y
        BY <3>2, <2>2, <2>5, <1>1 DEF ClientsRight
      <4> QED  BY <4>1, <2>2, <2>3
    <3> QED  BY <3>1, <3>2
  <2> QED  BY <2>4, <2>5 DEF ClientsRight
<1>8. ExecutorsRight'
  <2> SUFFICES ASSUME NEW e \in Executors PROVE ExecutorRight(e)'
    BY DEF ExecutorsRight
  <2>1. ExecutorRight(e) /\ \A f \in Executors : pc'[f] = pc[f]
    BY <1>1, <1>4 DEF ExecutorsRight, Types
  <2>2. \A y \in Entries : c_flag[y] # "free" => c_flag'[y] = c_flag[y] /\ c_class'[y] = c_class[y] /\ c_next'[y] = c_next[y]
    BY <1>1, <1>3, <1>4 DEF Types
  <2>3. cp[e] \in Entries \cup {Null}
    BY <1>1 DEF Types
  <2>4. ASSUME pc[e] = "start" PROVE todo[e] \subseteq ListOf(c_next', ct_first_cb'[class[e]])
    <3>1. class[e] \in Classes /\ todo[e] \subseteq ListOf(c_next, ct_first_cb[class[e]])
      BY <2>1, <2>4 DEF ExecutorRight, List
    <3>2. \A y \in Entries : c_flag[y] # "free" => c_flag'[y] # "free" /\ c_class'[y] = c_class[y]
      BY <2>2
    <3> QED  BY <3>1, <3>2, <1>1, <1>5 DEF Lists
  <2>5. ASSUME pc[e] = "func", e \notin slept PROVE todo[e] \subseteq ListOf(c_next', c_next'[cp[e]])
    <3>1. cp[e] \in Entries /\ c_flag[cp[e]] # "free" /\ todo[e] \subseteq ListOf(c_next, c_next[cp[e]])
      BY <2>1, <2>3, <2>5 DEF ExecutorRight, List
    <3>2. c_next[cp[e]] # x /\ c_next[cp[e]] \in Entries \cup {Null} /\ c_next'[cp[e]] = c_next[cp[e]]
      BY <3>1, <2>2, <1>1, <1>3 DEF Leads, Types
    <3> QED  BY <3>1, <3>2, <1>5
  <2> QED  BY <2>1, <2>2, <2>3, <2>4, <2>5, <1>4 DEF ExecutorRight, List
<1> QED  BY <1>5, <1>6, <1>7, <1>8 DEF CbInv

\* What callb_delete() leaves of the table.
LEMMA UnlinkIs ==
  ASSUME Types, Lists(ct_first_cb, ct_freelist, c_next, c_class, c_flag, allocated),
         NEW x \in Entries, c_flag[x] # "free", Unlink(x)
  PROVE  \E p : Cut(c_next, p, x, ct_freelist, c_next') /\ CutFrom(ct_first_cb, c_next, c_class[x], p, x, ct_first_cb')
<1>1. /\ c_next \in Nexts /\ ct_freelist \in Entries \cup {Null} /\ Linked(c_next) /\ c_class[x] \in Classes
      /\ IsHead(c_next, ct_first_cb[c_class[x]])
  BY DEF Types, Nexts, Lists
<1>2. CASE ct_first_cb[c_class[x]] = x
  <2>1. /\ ct_first_cb' = [ct_first_cb EXCEPT ![c_class[x]] = c_next[x]]
        /\ c_next' = [c_next EXCEPT ![x] = ct_freelist]
    BY <1>2 DEF Unlink
  <2>2. ~Leads(c_next, x)
    BY <1>1, <1>2, NullIs DEF IsHead
  <2>3. c_next' \in Nexts /\ c_next'[x] = ct_freelist /\ \A y \in Entries \ {x} : c_next'[y] = c_next[y]
    BY <2>1, <1>1 DEF Nexts
  <2>4. Cut(c_next, Null, x, ct_freelist, c_next')
    BY <2>2, <2>3 DEF Cut
  <2>5. CutFrom(ct_first_cb, c_next, c_class[x], Null, x, ct_first_cb')
    BY <2>1, <1>2 DEF CutFrom
  <2> QED  BY <2>4, <2>5
<1>3. CASE ct_first_cb[c_class[x]] # x
  <2>1. PICK p \in List(ct_first_cb[c_class[x]]) :
          c_next[p] = x /\ c_next' = [c_next EXCEPT ![p] = c_next[x], ![x] = ct_freelist]
    BY <1>3 DEF Unlink
  <2>2. p \in Entries /\ p \in ListOf(c_next, ct_first_cb[c_class[x]])
    BY <2>1 DEF List, ListOf
  <2>3. p # x
    <3>1. \E y \in {x} : c_next[y] \notin {x}
      <4>1. {x} \in SUBSET Entries /\ {x} # {}
        OBVIOUS
      <4> QED  BY <4>1, <1>1 DEF Linked
    <3> QED  BY <3>1, <2>1
  <2>4. /\ c_next' \in Nexts /\ c_next'[x] = ct_freelist /\ c_next'[p] = c_next[x]
        /\ \A y \in Entries \ {x, p} : c_next'[y] = c_next[y]
    BY <2>1, <2>2, <2>3, <1>1 DEF Nexts
  <2>5. Cut(c_next, p, x, ct_freelist, c_next')
    BY <2>1, <2>2, <2>3, <2>4 DEF Cut
  <2>6. CutFrom(ct_first_cb, c_next, c_class[x], p, x, ct_first_cb')
    BY <2>2, <1>3 DEF CutFrom, Unlink
  <2> QED  BY <2>5, <2>6
<1> QED  BY <1>2, <1>3

LEMMA StepDelete ==
  ASSUME CbInv, NEW c \in Clients, callb_delete(c)
  PROVE  CbInv'
<1> USE ThreadsApart, NullIs
<1> DEFINE x == entry[c]
<1>1. /\ Types /\ Lists(ct_first_cb, ct_freelist, c_next, c_class, c_flag, allocated) /\ ClientsRight /\ ExecutorsRight
  BY DEF CbInv
<1>2. /\ pc[c] \in {"added", "delete_woken"} /\ c_flag[x] # "executing" /\ Unlink(x)
      /\ c_flag' = [c_flag EXCEPT ![x] = "free"] /\ ct_freelist' = x
      /\ entry' = [entry EXCEPT ![c] = Null] /\ todo' = [e \in Executors |-> todo[e] \ {x}]
      /\ pc' = [pc EXCEPT ![c] = "idle"] /\ UNCHANGED <<c_class, allocated, ct_busy, cp, class, slept, failed>>
  BY DEF callb_delete, Free, Goto
<1>3. x \in Entries /\ c_flag[x] # "free"
  BY <1>1, <1>2 DEF ClientsRight, Types
<1> HIDE DEF x
<1>4. PICK p : Cut(c_next, p, x, ct_freelist, c_next') /\ CutFrom(ct_first_cb, c_next, c_class[x], p, x, ct_first_cb')
  BY <1>1, <1>2, <1>3, UnlinkIs
<1>5. c_next \in Nexts /\ c_next' \in Nexts /\ Linked(c_next) /\ ct_freelist \in Entries \cup {Null} /\ c_class[x] \in Classes
  BY <1>1, <1>3, <1>4 DEF Cut, Types, Nexts, Lists
<1>6. Lists(ct_first_cb', ct_freelist', c_next', c_class', c_flag', allocated')
  <2>1. /\ ct_first_cb \in [Classes -> Entries \cup {Null}] /\ c_class \in [Entries -> Classes \cup {Null}]
        /\ c_flag \in [Entries -> {"free", "taken", "executing"}] /\ allocated \in SUBSET Entries
    BY <1>1 DEF Types
  <2>2. Lists(ct_first_cb', x, c_next', c_class, [c_flag EXCEPT ![x] = "free"], allocated)
    BY <1>1, <1>3, <1>4, <1>5, <2>1, DeleteLists
  <2> QED  BY ONLY <2>2, <1>2
<1>7. ct_first_cb' \in [Classes -> Entries \cup {Null}]
  BY <1>1, <1>3, <1>4, <1>5 DEF CutFrom, Types, Nexts
<1>8. Types'
  BY <1>1, <1>2, <1>3, <1>5, <1>7 DEF Types, Labels, Nexts
<1>9. /\ entry'[c] = Null /\ pc'[c] = "idle" /\ c_flag'[x] = "free" /\ entry[c] = x
      /\ \A d \in Clients \ {c} : entry'[d] = entry[d] /\ pc'[d] = pc[d]
      /\ \A e \in Executors : pc'[e] = pc[e] /\ todo'[e] = todo[e] \ {x}
      /\ \A y \in Entries \ {x} : c_flag'[y] = c_flag[y]
  BY <1>1, <1>2, <1>3 DEF Types, x
<1>10. ClientsRight'
  <2>1. \A d \in Clients \ {c} : entry[d] # x
    BY <1>1, <1>3, <1>9 DEF ClientsRight
  <2>2. ASSUME NEW d \in Clients
        PROVE  /\ entry'[d] # Null <=> pc'[d] \in {"added", "delete_wait", "delete_woken"}
               /\ entry'[d] # Null => c_flag'[entry'[d]] # "free"
               /\ pc'[d] = "delete_wait" => c_flag'[entry'[d]] = "executing"
               /\ pc'[d] = "add_wait" => ct_busy'
               /\ \A f \in Clients : d # f /\ entry'[d] # Null => entry'[d] # entry'[f]
    <3>1. CASE d = c
      BY <3>1, <1>9
    <3>2. CASE d # c
      <4>1. entry[d] \in Entries \cup {Null}
        BY <1>1 DEF Types
      <4> QED  BY <3>2, <4>1, <2>1, <1>9, <1>1, <1>2 DEF ClientsRight
    <3> QED  BY <3>1, <3>2
  <2>3. ASSUME NEW y \in Entries, c_flag'[y] # "free" PROVE \E d \in Clients : entry'[d] = y
    <3>1. y # x /\ c_flag[y] # "free"
      BY <2>3, <1>9
    <3>2. PICK d \in Clients : entry[d] = y
      BY <3>1, <1>1 DEF ClientsRight
    <3> QED  BY <3>1, <3>2, <1>9
  <2> QED  BY <2>2, <2>3 DEF ClientsRight
<1>11. ExecutorsRight'
  <2> SUFFICES ASSUME NEW e \in Executors PROVE ExecutorRight(e)'
    BY DEF ExecutorsRight
  <2>1. ExecutorRight(e) /\ cp[e] \in Entries \cup {Null}
    BY <1>1 DEF ExecutorsRight, Types
  <2>2. ASSUME pc[e] = "start" PROVE todo'[e] \subseteq ListOf(c_next', ct_first_cb'[class[e]])
    <3>1. class[e] \in Classes /\ todo[e] \subseteq ListOf(c_next, ct_first_cb[class[e]])
      BY <2>1, <2>2 DEF ExecutorRight, List
    <3> QED  BY <3>1, <1>1, <1>2, <1>6, <1>9 DEF Lists
  <2>3. c_next[x] # x
    <3>1. {x} \in SUBSET Entries /\ {x} # {}
      BY <1>3
    <3> QED  BY <3>1, <1>5 DEF Linked
  <2>4. ASSUME pc[e] = "func", e \notin slept PROVE todo'[e] \subseteq ListOf(c_next', c_next'[cp[e]])
    <3>1. cp[e] \in Entries \ {x} /\ todo[e] \subseteq ListOf(c_next, c_next[cp[e]])
      BY <2>1, <2>4, <1>2 DEF ExecutorRight, List
    <3>2. ListOf(c_next, c_next[cp[e]]) \ {x} \subseteq ListOf(c_next', c_next'[cp[e]])
      BY <3>1, <2>3, <1>3, <1>4, <1>5, CutRest
    <3> QED  BY <3>1, <3>2, <1>9
  <2>5. pc[e] \in {"func", "wait"} => cp[e] # x
    BY <2>1, <1>2 DEF ExecutorRight
  <2>6. pc[e] \in {"func", "wait"} => c_flag'[cp[e]] = c_flag[cp[e]]
    BY <2>1, <2>5, <1>9 DEF ExecutorRight
  <2> QED  BY <2>1, <2>2, <2>4, <2>6, <1>2, <1>9 DEF ExecutorRight, List
<1> QED  BY <1>6, <1>8, <1>10, <1>11 DEF CbInv

-----------------------------------------------------------------------------
(* The steps that leave the lists alone                                    *)

\* A thread goes on, or is woken.
Wakes(a, b) == b = a \/ (a = "delete_wait" /\ b = "delete_woken") \/ (a = "add_wait" /\ b = "add_woken")
               \/ (a = "wait" /\ b = "woken")

LEMMA ClientsStep ==
  ASSUME Types, ClientsRight, entry' = entry,
         \A y \in Entries : c_flag'[y] = "free" <=> c_flag[y] = "free",
         \A c \in Clients : Wakes(pc[c], pc'[c]),
         \A c \in Clients : pc'[c] = "delete_wait" => c_flag'[entry[c]] = "executing",
         \A c \in Clients : pc'[c] = "add_wait" => ct_busy'
  PROVE  ClientsRight'
<1>1. \A c \in Clients : entry[c] \in Entries \cup {Null}
  BY DEF Types
<1>2. \A c \in Clients : pc'[c] \in {"added", "delete_wait", "delete_woken"} <=> pc[c] \in {"added", "delete_wait", "delete_woken"}
  BY DEF Wakes
<1> QED  BY <1>1, <1>2, NullIs DEF ClientsRight

LEMMA ExecutorStep ==
  ASSUME NEW e \in Executors, ExecutorRight(e), UNCHANGED <<ct_first_cb, c_next, c_class>>,
         cp'[e] = cp[e], class'[e] = class[e], todo'[e] = todo[e], e \in slept' <=> e \in slept, failed'[e] = failed[e],
         Wakes(pc[e], pc'[e]), pc'[e] \in {"func", "wait"} => c_flag'[cp[e]] = "executing",
         pc[e] = "func" => \A f \in Executors \ {e} : pc'[f] = "func" => cp'[f] # cp[e]
  PROVE  ExecutorRight(e)'
<1>1. \A x : List(x)' = List(x)
  BY DEF List
<1>2. pc'[e] = "func" <=> pc[e] = "func"
  BY DEF Wakes
<1>3. pc'[e] = "start" <=> pc[e] = "start"
  BY DEF Wakes
<1>4. pc'[e] = "return" <=> pc[e] = "return"
  BY DEF Wakes
<1>5. pc'[e] \in {"wait", "woken"} <=> pc[e] \in {"wait", "woken"}
  BY DEF Wakes
<1>6. pc'[e] \in ExecutorLabels
  BY DEF Wakes, ExecutorRight, ExecutorLabels
<1> QED  BY <1>1, <1>2, <1>3, <1>4, <1>5, <1>6 DEF ExecutorRight, List

LEMMA ListsStep ==
  ASSUME Lists(ct_first_cb, ct_freelist, c_next, c_class, c_flag, allocated), Types, UNCHANGED heap,
         \A y \in Entries : c_flag'[y] = "free" <=> c_flag[y] = "free"
  PROVE  Lists(ct_first_cb', ct_freelist', c_next', c_class', c_flag', allocated')
<1>1. \A y \in allocated : c_flag'[y] = "free" <=> c_flag[y] = "free"
  BY DEF Types
<1> QED  BY <1>1 DEF Lists, heap

\* callb_add() and callb_delete() that have to wait, callb_lock_table(),
\* callb_unlock_table().
LEMMA StepWait ==
  ASSUME CbInv,
         \/ \E c \in Clients : callb_add_wait(c) \/ callb_delete_wait(c)
         \/ callb_lock_table \/ callb_unlock_table
  PROVE  CbInv'
<1> USE ThreadsApart, NullIs
<1>1. /\ Types /\ Lists(ct_first_cb, ct_freelist, c_next, c_class, c_flag, allocated) /\ ClientsRight /\ ExecutorsRight
  BY DEF CbInv
<1>2. UNCHANGED <<ct_first_cb, ct_freelist, c_next, c_class, allocated, c_flag, entry, cp, class, todo, slept, failed>>
  BY DEF callb_add_wait, callb_delete_wait, callb_lock_table, callb_unlock_table, heap, local
<1>3. Lists(ct_first_cb', ct_freelist', c_next', c_class', c_flag', allocated')
  BY <1>1, <1>2
<1>4. /\ \A e \in Executors : pc'[e] = pc[e]
      /\ pc' \in [Threads -> Labels] /\ ct_busy' \in BOOLEAN
  <2>1. CASE \E c \in Clients : callb_add_wait(c) \/ callb_delete_wait(c)
    BY <2>1, <1>1 DEF callb_add_wait, callb_delete_wait, Goto, Types, Labels
  <2>2. CASE callb_lock_table
    BY <2>2, <1>1 DEF callb_lock_table, Types
  <2>3. CASE callb_unlock_table
    <3>1. \A e \in Executors : pc[e] # "add_wait"
      BY <1>1 DEF ExecutorsRight, ExecutorRight, ExecutorLabels
    <3> QED  BY <2>3, <3>1, <1>1 DEF callb_unlock_table, Types, Labels
  <2> QED  BY <2>1, <2>2, <2>3
<1>5. Types'
  BY <1>1, <1>2, <1>4 DEF Types
<1>6. ExecutorsRight'
  BY <1>1, <1>2, <1>4 DEF ExecutorsRight, ExecutorRight, List
<1>7. ClientsRight'
  <2>1. CASE \E c \in Clients : callb_add_wait(c)
    <3>1. PICK c \in Clients : callb_add_wait(c)
      BY <2>1
    <3> QED  BY <3>1, <1>1, <1>2 DEF callb_add_wait, Goto, ClientsRight, Types
  <2>2. CASE \E c \in Clients : callb_delete_wait(c)
    <3>1. PICK c \in Clients : callb_delete_wait(c)
      BY <2>2
    <3> QED  BY <3>1, <1>1, <1>2 DEF callb_delete_wait, Goto, ClientsRight, Types
  <2>3. CASE callb_lock_table
    BY <2>3, <1>1, <1>2 DEF callb_lock_table, ClientsRight
  <2>4. CASE callb_unlock_table
    <3>1. /\ \A c \in Clients : Wakes(pc[c], pc'[c]) /\ pc'[c] # "add_wait" /\ (pc'[c] = "delete_wait" => pc[c] = "delete_wait")
      BY <2>4, <1>1 DEF callb_unlock_table, Types, Wakes
    <3>2. \A c \in Clients : pc'[c] = "delete_wait" => c_flag'[entry[c]] = "executing"
      BY <3>1, <1>1, <1>2 DEF ClientsRight
    <3> QED  BY <3>1, <3>2, <1>1, <1>2, ClientsStep
  <2> QED  BY <2>1, <2>2, <2>3, <2>4
<1> QED  BY <1>3, <1>5, <1>6, <1>7 DEF CbInv

-----------------------------------------------------------------------------
(* The steps of the executors                                              *)

Visited(e, x, flag, p, y) ==
  /\ cp' = [cp EXCEPT ![e] = y] /\ (x = Null \/ flag[x] # "free" => y = x)
  /\ \/ y = Null /\ c_flag' = flag /\ UNCHANGED <<todo, slept>> /\ pc' = [p EXCEPT ![e] = "return"]
     \/ /\ y # Null /\ flag[y] = "executing" /\ c_flag' = flag /\ slept' = slept \cup {e} /\ UNCHANGED todo
        /\ pc' = [p EXCEPT ![e] = "wait"]
     \/ /\ y # Null /\ flag[y] = "taken" /\ c_flag' = [flag EXCEPT ![y] = "executing"]
        /\ todo' = [todo EXCEPT ![e] = @ \ {y}] /\ UNCHANGED slept /\ pc' = [p EXCEPT ![e] = "func"]

\* The loop stops at an entry that is not free, and at once if x is none.
LEMMA VisitIs ==
  ASSUME NEW e, NEW x \in Entries \cup {Null}, NEW flag, NEW p, Visit(e, x, flag, p)
  PROVE  \E y \in Entries \cup {Null} : Visited(e, x, flag, p, y)
<1>1. ASSUME x = Null \/ flag[x] # "free" PROVE Passed(x, flag) \subseteq {x}
  <2>1. {x} \in SUBSET (Entries \cup {Null}) /\ x \in {x} /\ \A z \in {x} \ {Null} : flag[z] = "free" => c_next[z] \in {x}
    BY <1>1
  <2> QED  BY <2>1 DEF Passed
<1>2. Passed(x, flag) \subseteq Entries \cup {Null}
  BY DEF Passed
<1> QED  BY <1>1, <1>2 DEF Visit, Visited

\* The flags and threads that the loop goes on with.
Goes(e, x, flag, p) ==
  /\ flag \in [Entries -> {"free", "taken", "executing"}] /\ p \in [Threads -> Labels]
  /\ \A y \in Entries : flag[y] = "free" <=> c_flag[y] = "free"
  /\ \A c \in Clients : Wakes(pc[c], p[c]) /\ (p[c] = "delete_wait" => flag[entry[c]] = "executing")
                        /\ (p[c] = "add_wait" => pc[c] = "add_wait")
  /\ \A f \in Executors \ {e} : Wakes(pc[f], p[f]) /\ (p[f] \in {"func", "wait"} => flag[cp[f]] = "executing")
  /\ e \notin slept => /\ todo[e] \subseteq ListOf(c_next, x)
                       /\ x # Null => flag[x] # "free" /\ c_class[x] = class[e]

LEMMA VisitStep ==
  ASSUME CbInv, NEW e \in Executors, NEW x \in Entries \cup {Null}, NEW flag, NEW p,
         Goes(e, x, flag, p), Visit(e, x, flag, p), UNCHANGED <<heap, ct_busy, entry, class>>,
         failed' \in [Executors -> BOOLEAN], \A f \in Executors \ {e} : failed'[f] = failed[f]
  PROVE  CbInv'
<1> USE ThreadsApart, NullIs
<1>1. /\ Types /\ Lists(ct_first_cb, ct_freelist, c_next, c_class, c_flag, allocated) /\ ClientsRight /\ ExecutorsRight
  BY DEF CbInv
<1>0. PICK y \in Entries \cup {Null} : Visited(e, x, flag, p, y)
  BY VisitIs
<1>2. /\ cp' = [cp EXCEPT ![e] = y] /\ (x = Null \/ flag[x] # "free" => y = x)
      /\ \/ y = Null /\ c_flag' = flag /\ UNCHANGED <<todo, slept>> /\ pc' = [p EXCEPT ![e] = "return"]
         \/ /\ y # Null /\ flag[y] = "executing" /\ c_flag' = flag /\ slept' = slept \cup {e} /\ UNCHANGED todo
            /\ pc' = [p EXCEPT ![e] = "wait"]
         \/ /\ y # Null /\ flag[y] = "taken" /\ c_flag' = [flag EXCEPT ![y] = "executing"]
            /\ todo' = [todo EXCEPT ![e] = @ \ {y}] /\ UNCHANGED slept /\ pc' = [p EXCEPT ![e] = "func"]
  BY <1>0 DEF Visited
<1>3. /\ flag \in [Entries -> {"free", "taken", "executing"}] /\ p \in [Threads -> Labels]
      /\ \A z \in Entries : flag[z] = "free" <=> c_flag[z] = "free"
  BY DEF Goes
<1>4. /\ \A t \in Threads \ {e} : pc'[t] = p[t]
      /\ \A f \in Executors \ {e} : cp'[f] = cp[f] /\ todo'[f] = todo[f] /\ (f \in slept' <=> f \in slept)
      /\ cp'[e] = y /\ pc'[e] \in {"return", "wait", "func"}
      /\ \A z \in Entries : c_flag'[z] = flag[z] \/ (z = y /\ flag[z] = "taken" /\ c_flag'[z] = "executing" /\ pc'[e] = "func")
  BY <1>1, <1>2, <1>3 DEF Types
<1>5. \A z \in Entries : (c_flag'[z] = "free" <=> c_flag[z] = "free") /\ (flag[z] = "executing" => c_flag'[z] = "executing")
  BY <1>3, <1>4
<1>6. Types'
  <2>1. /\ c_flag' \in [Entries -> {"free", "taken", "executing"}] /\ cp' \in [Executors -> Entries \cup {Null}]
        /\ todo' \in [Executors -> SUBSET Entries] /\ slept' \subseteq Executors
    BY <1>1, <1>2, <1>3 DEF Types
  <2>2. pc' \in [Threads -> Labels]
    BY <1>2, <1>3 DEF Labels
  <2> QED  BY <2>1, <2>2, <1>1 DEF Types, heap
<1>7. Lists(ct_first_cb', ct_freelist', c_next', c_class', c_flag', allocated')
  BY <1>1, <1>5, ListsStep
<1>8. ClientsRight'
  <2>1. \A c \in Clients : pc'[c] = p[c] /\ Wakes(pc[c], p[c]) /\ entry[c] \in Entries \cup {Null}
    BY <1>1, <1>4 DEF Goes, Types
  <2>2. \A c \in Clients : pc'[c] = "delete_wait" => c_flag'[entry[c]] = "executing"
    <3> SUFFICES ASSUME NEW c \in Clients, pc'[c] = "delete_wait" PROVE c_flag'[entry[c]] = "executing"
      OBVIOUS
    <3>1. p[c] = "delete_wait" /\ pc[c] = "delete_wait"
      BY <2>1 DEF Wakes
    <3>2. entry[c] \in Entries /\ flag[entry[c]] = "executing"
      BY <3>1, <2>1, <1>1 DEF Goes, ClientsRight
    <3> QED  BY <3>2, <1>5
  <2>3. \A c \in Clients : pc'[c] = "add_wait" => ct_busy'
    BY <2>1, <1>1 DEF Goes, ClientsRight
  <2>4. \A c \in Clients : Wakes(pc[c], pc'[c])
    BY <2>1
  <2> QED  BY <2>2, <2>3, <2>4, <1>1, <1>5, ClientsStep
<1>9. ASSUME NEW f \in Executors \ {e} PROVE ExecutorRight(f)'
  <2>1. ExecutorRight(f) /\ cp[f] \in Entries \cup {Null} /\ Wakes(pc[f], pc'[f]) /\ pc'[f] = p[f]
    BY <1>1, <1>4 DEF ExecutorsRight, Types, Goes
  <2>2. pc'[f] \in {"func", "wait"} => pc[f] \in {"func", "wait"}
    BY <2>1 DEF Wakes
  <2>3. pc'[f] \in {"func", "wait"} => cp[f] \in Entries /\ flag[cp[f]] = "executing"
    <3>1. pc[f] \in {"func", "wait"} => cp[f] # Null
      BY <2>1 DEF ExecutorRight
    <3> QED  BY <3>1, <2>1, <2>2 DEF Goes
  <2>4. pc'[f] \in {"func", "wait"} => c_flag'[cp[f]] = "executing"
    BY <2>3, <1>5
  <2>5. ASSUME pc[f] = "func", NEW g \in Executors \ {f}, pc'[g] = "func" PROVE cp'[g] # cp[f]
    <3>1. pc'[f] = "func" /\ flag[cp[f]] = "executing"
      BY <2>5, <2>1, <2>3 DEF Wakes
    <3>2. CASE g = e
      BY <3>1, <3>2, <2>5, <1>2, <1>3, <1>4
    <3>3. CASE g # e
      <4>1. pc'[g] = p[g] /\ Wakes(pc[g], p[g]) /\ cp'[g] = cp[g]
        BY <3>3, <1>4 DEF Goes
      <4>2. pc[g] = "func"
        BY <4>1, <2>5 DEF Wakes
      <4> QED  BY <4>1, <4>2, <2>5, <2>1 DEF ExecutorRight
    <3> QED  BY <3>2, <3>3
  <2>6. UNCHANGED <<ct_first_cb, c_next, c_class>> /\ class'[f] = class[f] /\ failed'[f] = failed[f]
    BY DEF heap
  <2>7. cp'[f] = cp[f] /\ todo'[f] = todo[f] /\ (f \in slept' <=> f \in slept)
    BY <1>4
  <2> QED  BY <2>1, <2>4, <2>5, <2>6, <2>7, ExecutorStep
<1>10. ExecutorRight(e)'
  <2>1. UNCHANGED <<ct_first_cb, c_next, c_class, class>> /\ \A z : List(z)' = ListOf(c_next, z)
    BY DEF heap, List
  <2>2. e \notin slept => y = x /\ todo[e] \subseteq ListOf(c_next, x) /\ (x # Null => c_class[x] = class[e])
    BY <1>2 DEF Goes
  <2>3. CASE y = Null
    <3>1. pc'[e] = "return" /\ todo' = todo /\ slept' = slept
      BY <2>3, <1>2, <1>3
    <3>2. e \notin slept => todo[e] = {}
      BY <2>2, <2>3, ListNull
    <3> QED  BY <3>1, <3>2 DEF ExecutorRight, ExecutorLabels
  <2>4. CASE y # Null /\ flag[y] = "executing"
    <3>1. pc'[e] = "wait" /\ e \in slept' /\ c_flag'[y] = "executing" /\ cp'[e] = y
      BY <2>4, <1>2, <1>3, <1>4
    <3> QED  BY <3>1, <2>4 DEF ExecutorRight, ExecutorLabels
  <2>5. CASE y # Null /\ flag[y] = "taken"
    <3>1. pc'[e] = "func" /\ slept' = slept /\ c_flag'[y] = "executing" /\ cp'[e] = y /\ todo'[e] = todo[e] \ {y} /\ y \in Entries
      BY <2>5, <1>1, <1>2, <1>3, <1>4 DEF Types
    <3>2. ASSUME NEW g \in Executors \ {e}, pc'[g] = "func" PROVE cp'[g] # y
      <4>1. pc'[g] = p[g] /\ cp'[g] = cp[g]
        BY <1>4
      <4>2. p[g] = "func"
        BY <4>1, <3>2
      <4>3. flag[cp[g]] = "executing"
        BY <4>2 DEF Goes
      <4> QED  BY <4>1, <4>3, <2>5
    <3>3. e \notin slept => todo'[e] \subseteq ListOf(c_next, c_next[y])
      <4>1. ListOf(c_next, y) = {y} \cup ListOf(c_next, c_next[y])
        BY <3>1, <1>1, ListStep DEF Types, Nexts
      <4> QED  BY <4>1, <3>1, <2>2
    <3>4. e \notin slept' => c_class'[y] = class'[e] /\ todo'[e] \subseteq List(c_next[y])'
      BY <3>1, <3>3, <2>1, <2>2, <2>5
    <3> QED  BY <3>1, <3>2, <3>4, <2>1, <2>5 DEF ExecutorRight, ExecutorLabels
  <2> QED  BY <2>3, <2>4, <2>5, <1>2
<1>11. ExecutorsRight'
  BY <1>9, <1>10 DEF ExecutorsRight
<1> QED  BY <1>6, <1>7, <1>8, <1>11 DEF CbInv

\* The head of a list is not free, nor is what an entry of a class leads to.
LEMMA InClass ==
  ASSUME Types, Lists(ct_first_cb, ct_freelist, c_next, c_class, c_flag, allocated)
  PROVE  /\ \A k \in Classes : ct_first_cb[k] # Null => c_flag[ct_first_cb[k]] # "free" /\ c_class[ct_first_cb[k]] = k
         /\ \A z \in Entries : c_flag[z] # "free" /\ c_next[z] # Null =>
              c_flag[c_next[z]] # "free" /\ c_class[c_next[z]] = c_class[z]
<1>0. c_next \in Nexts /\ ct_first_cb \in [Classes -> Entries \cup {Null}]
  BY DEF Types, Nexts
<1>1. ASSUME NEW k \in Classes, ct_first_cb[k] # Null
      PROVE  c_flag[ct_first_cb[k]] # "free" /\ c_class[ct_first_cb[k]] = k
  <2>1. ct_first_cb[k] \in ListOf(c_next, ct_first_cb[k])
    BY <1>0, <1>1, ListIs
  <2> QED  BY <2>1 DEF Lists
<1>2. ASSUME NEW z \in Entries, c_flag[z] # "free", c_next[z] # Null
      PROVE  c_flag[c_next[z]] # "free" /\ c_class[c_next[z]] = c_class[z]
  <2>1. c_class[z] \in Classes /\ z \in ListOf(c_next, ct_first_cb[c_class[z]])
    BY <1>2 DEF Lists
  <2>2. ct_first_cb[c_class[z]] \in Entries
    BY <2>1, <1>0, ListNull
  <2>3. c_next[z] \in ListOf(c_next, ct_first_cb[c_class[z]])
    BY <2>1, <2>2, <1>0, <1>2, ListIs DEF Closed
  <2> QED  BY <2>1, <2>3 DEF Lists
<1> QED  BY <1>1, <1>2

LEMMA StepStart ==
  ASSUME CbInv, NEW e \in Executors, execute_start(e) \/ execute_woken(e)
  PROVE  CbInv'
<1> USE ThreadsApart, NullIs
<1>1. /\ Types /\ Lists(ct_first_cb, ct_freelist, c_next, c_class, c_flag, allocated) /\ ClientsRight /\ ExecutorsRight
  BY DEF CbInv
<1>2. PICK x \in Entries \cup {Null} :
        /\ Visit(e, x, c_flag, pc)
        /\ e \notin slept => todo[e] \subseteq ListOf(c_next, x) /\ (x # Null => c_flag[x] # "free" /\ c_class[x] = class[e])
  <2>1. ExecutorRight(e)
    BY <1>1 DEF ExecutorsRight
  <2>2. CASE execute_start(e)
    <3>1. class[e] \in Classes /\ todo[e] \subseteq ListOf(c_next, ct_first_cb[class[e]])
      BY <2>1, <2>2 DEF ExecutorRight, List, execute_start
    <3>2. ct_first_cb[class[e]] \in Entries \cup {Null}
      BY <3>1, <1>1 DEF Types
    <3>3. Visit(e, ct_first_cb[class[e]], c_flag, pc)
      BY <2>2 DEF execute_start
    <3> QED  BY <3>1, <3>2, <3>3, <1>1, InClass
  <2>3. CASE execute_woken(e)
    <3>1. e \in slept /\ Visit(e, cp[e], c_flag, pc) /\ cp[e] \in Entries \cup {Null}
      BY <2>1, <2>3, <1>1 DEF ExecutorRight, execute_woken, Types
    <3> QED  BY <3>1
  <2> QED  BY <2>2, <2>3
<1>3. UNCHANGED <<heap, ct_busy, entry, class, failed>> /\ failed \in [Executors -> BOOLEAN]
  BY <1>1 DEF execute_start, execute_woken, Types
<1>4. Goes(e, x, c_flag, pc)
  <2>1. \A c \in Clients : Wakes(pc[c], pc[c]) /\ (pc[c] = "delete_wait" => c_flag[entry[c]] = "executing")
    BY <1>1 DEF Wakes, ClientsRight
  <2>2. \A f \in Executors \ {e} : Wakes(pc[f], pc[f]) /\ (pc[f] \in {"func", "wait"} => c_flag[cp[f]] = "executing")
    BY <1>1 DEF Wakes, ExecutorsRight, ExecutorRight
  <2> QED  BY <2>1, <2>2, <1>1, <1>2 DEF Goes, Types
<1> QED  BY <1>2, <1>3, <1>4, VisitStep

LEMMA StepReturn ==
  ASSUME CbInv, NEW e \in Executors, NEW ok \in BOOLEAN, execute_return(e, ok)
  PROVE  CbInv'
<1> USE ThreadsApart, NullIs
<1> DEFINE z == cp[e]   flag == [c_flag EXCEPT ![z] = "taken"]   p == Announce(z)
<1>1. /\ Types /\ Lists(ct_first_cb, ct_freelist, c_next, c_class, c_flag, allocated) /\ ClientsRight /\ ExecutorsRight
  BY DEF CbInv
<1>2. /\ pc[e] = "func" /\ UNCHANGED <<heap, ct_busy, entry, class>> /\ failed' = [failed EXCEPT ![e] = ~ok]
      /\ IF ok THEN Visit(e, c_next[z], flag, p)
         ELSE c_flag' = flag /\ pc' = [p EXCEPT ![e] = "return"] /\ UNCHANGED <<cp, todo, slept>>
  BY DEF execute_return
<1>3. ExecutorRight(e) /\ z \in Entries /\ c_flag[z] = "executing"
  BY <1>1, <1>2 DEF ExecutorsRight, ExecutorRight, Types
<1>4. /\ flag \in [Entries -> {"free", "taken", "executing"}] /\ flag[z] = "taken"
      /\ \A y \in Entries \ {z} : flag[y] = c_flag[y]
  BY <1>1, <1>3 DEF Types
<1>5. /\ \A c \in Clients : p[c] = IF pc[c] = "delete_wait" /\ entry[c] = z THEN "delete_woken" ELSE pc[c]
      /\ \A f \in Executors : p[f] = IF pc[f] = "wait" /\ cp[f] = z THEN "woken" ELSE pc[f]
      /\ p \in [Threads -> Labels]
  BY <1>1 DEF Announce, Types, Labels, Threads
<1> HIDE DEF z, flag, p
<1>6. \A c \in Clients : Wakes(pc[c], p[c]) /\ (p[c] = "delete_wait" => flag[entry[c]] = "executing")
                         /\ (p[c] = "add_wait" => pc[c] = "add_wait")
  <2> TAKE c \in Clients
  <2>1. Wakes(pc[c], p[c])
    BY <1>5 DEF Wakes
  <2>2. p[c] = "delete_wait" => pc[c] = "delete_wait" /\ entry[c] # z
    BY <1>5
  <2>3. pc[c] = "delete_wait" => entry[c] \in Entries /\ c_flag[entry[c]] = "executing"
    BY <1>1 DEF ClientsRight, Types
  <2>4. p[c] = "add_wait" => pc[c] = "add_wait"
    BY <1>5
  <2> QED  BY <2>1, <2>2, <2>3, <2>4, <1>4
<1>7. \A f \in Executors \ {e} : Wakes(pc[f], p[f]) /\ (p[f] \in {"func", "wait"} => flag[cp[f]] = "executing")
  <2> TAKE f \in Executors \ {e}
  <2>1. Wakes(pc[f], p[f])
    BY <1>5 DEF Wakes
  <2>2. p[f] \in {"func", "wait"} => pc[f] \in {"func", "wait"} /\ (pc[f] = "wait" => cp[f] # z)
    BY <1>5
  <2>3. ExecutorRight(f) /\ cp[f] \in Entries \cup {Null}
    BY <1>1 DEF ExecutorsRight, Types
  <2>4. pc[f] = "func" => cp[f] # z
    BY <2>3, <1>2 DEF ExecutorRight, z
  <2>5. pc[f] \in {"func", "wait"} => cp[f] \in Entries /\ c_flag[cp[f]] = "executing"
    BY <2>3 DEF ExecutorRight
  <2> QED  BY <2>1, <2>2, <2>4, <2>5, <1>4
<1>8. CASE ok
  <2>1. c_next[z] \in Entries \cup {Null} /\ Visit(e, c_next[z], flag, p)
    BY <1>8, <1>1, <1>2, <1>3 DEF Types
  <2>2. e \notin slept => todo[e] \subseteq ListOf(c_next, c_next[z]) /\ c_class[z] = class[e]
    BY <1>2, <1>3 DEF ExecutorRight, List, z
  <2>3. c_next[z] # Null => c_flag[c_next[z]] # "free" /\ c_class[c_next[z]] = c_class[z]
    BY <1>1, <1>3, InClass
  <2>4. \A y \in Entries : flag[y] = "free" <=> c_flag[y] = "free"
    BY <1>3, <1>4
  <2>5. Goes(e, c_next[z], flag, p)
    BY <2>1, <2>2, <2>3, <2>4, <1>4, <1>5, <1>6, <1>7 DEF Goes
  <2>6. failed' \in [Executors -> BOOLEAN] /\ \A f \in Executors \ {e} : failed'[f] = failed[f]
    BY <1>1, <1>2 DEF Types
  <2> QED  BY <2>1, <2>5, <2>6, <1>2, VisitStep
<1>9. CASE ~ok
  <2>1. c_flag' = flag /\ pc' = [p EXCEPT ![e] = "return"] /\ UNCHANGED <<cp, todo, slept>>
    BY <1>9, <1>2
  <2>2. \A y \in Entries : c_flag'[y] = "free" <=> c_flag[y] = "free"
    BY <2>1, <1>3, <1>4
  <2>3. pc'[e] = "return" /\ (\A t \in Threads \ {e} : pc'[t] = p[t]) /\ failed'[e] = TRUE
        /\ (\A f \in Executors \ {e} : failed'[f] = failed[f])
    BY <2>1, <1>1, <1>2, <1>5, <1>9 DEF Types
  <2>4. Types'
    BY <2>1, <1>1, <1>2, <1>4, <1>5 DEF Types, heap, Labels
  <2>5. Lists(ct_first_cb', ct_freelist', c_next', c_class', c_flag', allocated')
    BY <2>2, <1>1, <1>2, ListsStep
  <2>6. ClientsRight'
    <3>1. \A c \in Clients : pc'[c] = p[c]
      BY <2>3
    <3>2. \A c \in Clients : pc'[c] = "add_wait" => ct_busy'
      BY <3>1, <1>1, <1>2, <1>6 DEF ClientsRight
    <3> QED  BY <3>1, <3>2, <2>1, <2>2, <1>1, <1>2, <1>6, ClientsStep
  <2>7. ASSUME NEW f \in Executors \ {e} PROVE ExecutorRight(f)'
    <3>1. ExecutorRight(f) /\ pc'[f] = p[f] /\ Wakes(pc[f], pc'[f]) /\ (pc'[f] \in {"func", "wait"} => c_flag'[cp[f]] = "executing")
      BY <2>1, <2>3, <1>1, <1>7 DEF ExecutorsRight
    <3>2. ASSUME pc[f] = "func", NEW g \in Executors \ {f}, pc'[g] = "func" PROVE cp'[g] # cp[f]
      <4>1. g # e /\ p[g] = "func"
        BY <3>2, <2>3
      <4>2. pc[g] = "func"
        BY <4>1, <1>5
      <4> QED  BY <4>2, <3>1, <3>2, <2>1 DEF ExecutorRight
    <3>3. UNCHANGED <<ct_first_cb, c_next, c_class>> /\ class'[f] = class[f] /\ failed'[f] = failed[f]
          /\ cp'[f] = cp[f] /\ todo'[f] = todo[f] /\ (f \in slept' <=> f \in slept)
      BY <2>1, <2>3, <1>2 DEF heap
    <3> QED  BY <3>1, <3>2, <3>3, ExecutorStep
  <2>8. ExecutorRight(e)'
    BY <2>3 DEF ExecutorRight, ExecutorLabels
  <2> QED  BY <2>4, <2>5, <2>6, <2>7, <2>8 DEF CbInv, ExecutorsRight
<1> QED  BY <1>8, <1>9

\* A thread begins to execute a class, or is done with it.
LEMMA StepCall ==
  ASSUME CbInv, NEW e \in Executors, return(e) \/ \E k \in Classes : callb_execute_class(e, k)
  PROVE  CbInv'
<1> USE ThreadsApart, NullIs
<1>1. /\ Types /\ Lists(ct_first_cb, ct_freelist, c_next, c_class, c_flag, allocated) /\ ClientsRight /\ ExecutorsRight
  BY DEF CbInv
<1>2. /\ UNCHANGED <<ct_first_cb, ct_freelist, c_next, c_class, allocated, c_flag, ct_busy, entry>>
      /\ \A f \in Executors \ {e} : /\ cp'[f] = cp[f] /\ class'[f] = class[f] /\ todo'[f] = todo[f]
                                    /\ (f \in slept' <=> f \in slept) /\ failed'[f] = failed[f]
      /\ \A t \in Threads \ {e} : pc'[t] = pc[t]
  BY <1>1 DEF return, callb_execute_class, Goto, heap, Types
<1>3. Types'
  <2>1. \A k \in Classes : List(ct_first_cb[k]) \subseteq Entries
    BY DEF List, ListOf
  <2>2. CASE return(e)
    BY <2>2, <1>1, <1>2 DEF return, Goto, Types, Labels
  <2>3. CASE \E k \in Classes : callb_execute_class(e, k)
    <3>1. PICK k \in Classes : callb_execute_class(e, k)
      BY <2>3
    <3> QED  BY <3>1, <2>1, <1>1, <1>2 DEF callb_execute_class, Goto, Types, Labels
  <2> QED  BY <2>2, <2>3
<1>4. Lists(ct_first_cb', ct_freelist', c_next', c_class', c_flag', allocated')
  BY <1>1, <1>2
<1>5. ClientsRight'
  <2>1. \A c \in Clients : pc'[c] = pc[c]
    BY <1>2
  <2> QED  BY <2>1, <1>1, <1>2 DEF ClientsRight
<1>6. ExecutorRight(e)' /\ pc'[e] # "func"
  <2>1. \A x : List(x)' = List(x)
    BY <1>2 DEF List
  <2>2. CASE return(e)
    BY <2>2, <1>1 DEF return, Goto, Types, ExecutorRight, ExecutorLabels
  <2>3. CASE \E k \in Classes : callb_execute_class(e, k)
    <3>1. PICK k \in Classes : callb_execute_class(e, k)
      BY <2>3
    <3>2. pc'[e] = "start" /\ class'[e] = k /\ todo'[e] = List(ct_first_cb[k])
      BY <3>1, <1>1 DEF callb_execute_class, Goto, Types
    <3> QED  BY <3>2, <2>1, <1>2 DEF ExecutorRight, ExecutorLabels
  <2> QED  BY <2>2, <2>3
<1>7. ASSUME NEW f \in Executors \ {e} PROVE ExecutorRight(f)'
  <2>1. ExecutorRight(f) /\ Wakes(pc[f], pc'[f]) /\ (pc'[f] \in {"func", "wait"} => c_flag'[cp[f]] = "executing")
    BY <1>1, <1>2 DEF ExecutorsRight, ExecutorRight, Wakes
  <2>2. pc[f] = "func" => \A g \in Executors \ {f} : pc'[g] = "func" => cp'[g] # cp[f]
    BY <2>1, <1>2, <1>6 DEF ExecutorRight
  <2> QED  BY <2>1, <2>2, <1>2, ExecutorStep
<1> QED  BY <1>3, <1>4, <1>5, <1>6, <1>7 DEF CbInv, ExecutorsRight

-----------------------------------------------------------------------------
(* The theorems                                                            *)

\* The empty table of callb_init() satisfies the invariant.
LEMMA InitInvariant == Init => CbInv
<1> USE ThreadsApart, NullIs
<1> SUFFICES ASSUME Init PROVE CbInv
  OBVIOUS
<1>1. Types
  BY DEF Init, Types, Labels
<1>2. Lists(ct_first_cb, ct_freelist, c_next, c_class, c_flag, allocated)
  <2>1. \A next : ListOf(next, Null) = {}
    BY ListNull
  <2>2. Linked(c_next)
    BY DEF Init, Linked
  <2> QED  BY <2>1, <2>2 DEF Init, Lists, IsHead
<1>3. ClientsRight
  BY DEF Init, ClientsRight
<1>4. ExecutorsRight
  BY DEF Init, ExecutorsRight, ExecutorRight, ExecutorLabels
<1> QED  BY <1>1, <1>2, <1>3, <1>4 DEF CbInv

\* Every step of callb.c preserves it.
LEMMA NextInvariant == CbInv /\ [Next]_vars => CbInv'
<1> SUFFICES ASSUME CbInv, [Next]_vars PROVE CbInv'
  OBVIOUS
<1>1. ASSUME NEW c \in Clients, Add(c) PROVE CbInv'
  BY <1>1, StepAdd, StepWait DEF Add
<1>2. ASSUME NEW c \in Clients, Delete(c) PROVE CbInv'
  BY <1>2, StepDelete, StepWait DEF Delete
<1>3. ASSUME NEW e \in Executors, Execute(e) PROVE CbInv'
  BY <1>3, StepStart, StepReturn, StepCall DEF Execute
<1>4. ASSUME NEW e \in Executors, NEW k \in Classes, callb_execute_class(e, k) PROVE CbInv'
  BY <1>4, StepCall
<1>5. CASE callb_lock_table \/ callb_unlock_table
  BY <1>5, StepWait
<1>6. CASE UNCHANGED vars
  BY <1>6 DEF vars, heap, local, CbInv, Types, ClientsRight, ExecutorsRight, ExecutorRight, List
<1> QED  BY <1>1, <1>2, <1>3, <1>4, <1>5, <1>6 DEF Next

\* The invariant of the table holds of every behaviour of callb.c.
THEOREM CallbInvariant == Spec => []CbInv
BY InitInvariant, NextInvariant, PTL DEF Spec

\* The lists hold what they should and end, functions are called one at a time
\* and while they are registered, and nobody sleeps without a cause.
THEOREM TableIsRight == Spec => []Inv
<1>1. CbInv => Inv
  <2> SUFFICES ASSUME CbInv PROVE Inv
    OBVIOUS
  <2>1. /\ Types /\ Lists(ct_first_cb, ct_freelist, c_next, c_class, c_flag, allocated) /\ ClientsRight /\ ExecutorsRight
    BY DEF CbInv
  <2>2. TypeOK
    BY <2>1 DEF Types, TypeOK, ClientsRight, ExecutorsRight, ExecutorRight
  <2>3. ListsExact
    <3>1. /\ \A S \in SUBSET Entries : S # {} => \E x \in S : c_next[x] \notin S
          /\ \A x, y \in allocated : x # y /\ c_next[x] # Null => c_next[x] # c_next[y]
      BY <2>1 DEF Lists, Linked, Types
    <3>2. /\ \A k \in Classes : List(ct_first_cb[k]) = {x \in Entries : c_flag[x] # "free" /\ c_class[x] = k}
          /\ List(ct_freelist) = {x \in allocated : c_flag[x] = "free"}
      BY <2>1 DEF Lists, List
    <3> QED  BY <3>1, <3>2, <2>1 DEF ListsExact, ClientsRight
  <2>4. CalledWhileRegistered
    <3> SUFFICES ASSUME NEW e \in Executors, pc[e] = "func"
        PROVE  /\ c_flag[cp[e]] = "executing" /\ (e \notin slept => c_class[cp[e]] = class[e])
               /\ \E c \in Clients : entry[c] = cp[e]
               /\ \A f \in Executors \ {e} : pc[f] = "func" => cp[f] # cp[e]
      BY DEF CalledWhileRegistered
    <3>1. ExecutorRight(e) /\ cp[e] \in Entries \cup {Null}
      BY <2>1 DEF ExecutorsRight, Types
    <3>2. cp[e] \in Entries /\ c_flag[cp[e]] = "executing"
      BY <3>1 DEF ExecutorRight
    <3>3. \E c \in Clients : entry[c] = cp[e]
      BY <3>2, <2>1 DEF ClientsRight
    <3> QED  BY <3>1, <3>2, <3>3 DEF ExecutorRight
  <2>5. WaitersHaveCause
    BY <2>1 DEF WaitersHaveCause, ClientsRight, ExecutorsRight, ExecutorRight
  <2> QED  BY <2>2, <2>3, <2>4, <2>5 DEF Inv
<1> QED  BY <1>1, CallbInvariant, PTL

\* An execution that succeeds and never had to wait has called every function
\* that was registered all the time, although callb_execute_class() drops
\* ct_lock for each call.
THEOREM NobodyPassedOver == Spec => []EveryCallbackCalled
<1>1. CbInv => EveryCallbackCalled
  BY DEF CbInv, ExecutorsRight, ExecutorRight, EveryCallbackCalled
<1> QED  BY <1>1, CallbInvariant, PTL

=============================================================================
