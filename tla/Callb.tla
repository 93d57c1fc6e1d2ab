-------------------------------- MODULE Callb --------------------------------
(***************************************************************************)
(* Callbacks for system events of the Solaris kernel:                      *)
(* uts/common/os/callb.c.                                                  *)
(*                                                                         *)
(* The table as it lies in memory: class lists and a free list through     *)
(* c_next.  Clients add and delete their entry; executors call the         *)
(* functions of a class, without ct_lock; a checkpoint locks the table     *)
(* against additions.  A step is one section under ct_lock.                *)
(***************************************************************************)
EXTENDS Integers, FiniteSets

CONSTANTS
  Clients,    \* threads that register a callback
  Executors,  \* threads that call callb_execute_class()
  Entries,    \* callb structures; bound: no others can be allocated
  Classes,
  Null

Threads == Clients \cup Executors

ASSUME SetsAssumption ==
  /\ IsFiniteSet(Entries) /\ Clients \cap Executors = {}
  /\ Null \notin Entries \cup Threads \cup Classes

VARIABLES
  ct_first_cb,  \* head of each class list
  ct_freelist,
  ct_busy,
  c_next, c_class, c_flag,  \* of the entries; c_flag: "free", "taken" or "executing"
  allocated,    \* entries that were ever in use
  entry,        \* a client's entry
  cp,           \* an executor's place in the list
  class,        \* what an executor executes
  todo,         \* history: entries an executor has still to call
  slept,        \* history: executors that had to wait for another one
  failed,       \* whether a function has returned false to an executor
  pc

heap == <<ct_first_cb, ct_freelist, c_next, c_class, allocated>>
local == <<cp, class, todo, slept, failed>>
vars == <<heap, c_flag, ct_busy, entry, local, pc>>

Init ==
  /\ ct_first_cb = [k \in Classes |-> Null] /\ ct_freelist = Null /\ ct_busy = FALSE
  /\ c_next = [x \in Entries |-> Null] /\ c_class = [x \in Entries |-> Null]
  /\ c_flag = [x \in Entries |-> "free"] /\ allocated = {}
  /\ entry = [c \in Clients |-> Null]
  /\ cp = [e \in Executors |-> Null] /\ class = [e \in Executors |-> Null]
  /\ todo = [e \in Executors |-> {}] /\ slept = {} /\ failed = [e \in Executors |-> FALSE]
  /\ pc = [t \in Threads |-> "idle"]

\* The entries that the links next lead to from x on: the least set that has x
\* and what follows each of its entries.
Closed(next, S) == \A y \in S : next[y] # Null => next[y] \in S
ListOf(next, x) ==
  {y \in Entries : x # Null /\ \A S \in SUBSET Entries : x \in S /\ Closed(next, S) => y \in S}

List(x) == ListOf(c_next, x)

Goto(t, l) == pc' = [pc EXCEPT ![t] = l]

-----------------------------------------------------------------------------
(* callb_add(), callb_delete()                                             *)

\* The entry x becomes c's, at the head of the list of class k.
Insert(c, x, k) ==
  /\ entry' = [entry EXCEPT ![c] = x]
  /\ c_class' = [c_class EXCEPT ![x] = k]
  /\ c_flag' = [c_flag EXCEPT ![x] = "taken"]
  /\ c_next' = [c_next EXCEPT ![x] = ct_first_cb[k]]
  /\ ct_first_cb' = [ct_first_cb EXCEPT ![k] = x]
  /\ Goto(c, "added")

callb_add(c, k) ==
  /\ pc[c] \in {"idle", "add_woken"} /\ ~ct_busy
  /\ IF ct_freelist # Null
     THEN /\ Insert(c, ct_freelist, k)
          /\ ct_freelist' = c_next[ct_freelist] /\ UNCHANGED allocated
     ELSE \E x \in Entries \ allocated :
            /\ Insert(c, x, k)
            /\ allocated' = allocated \cup {x} /\ UNCHANGED ct_freelist
  /\ UNCHANGED <<ct_busy, local>>

callb_add_wait(c) ==
  /\ pc[c] \in {"idle", "add_woken"} /\ ct_busy
  /\ Goto(c, "add_wait")
  /\ UNCHANGED <<heap, c_flag, ct_busy, entry, local>>

\* The list of class k without x.
Unlink(x) ==
  LET k == c_class[x] IN
  IF ct_first_cb[k] = x
  THEN /\ ct_first_cb' = [ct_first_cb EXCEPT ![k] = c_next[x]]
       /\ c_next' = [c_next EXCEPT ![x] = ct_freelist]
  ELSE /\ \E p \in List(ct_first_cb[k]) :
            /\ c_next[p] = x
            /\ c_next' = [c_next EXCEPT ![p] = c_next[x], ![x] = ct_freelist]
       /\ UNCHANGED ct_first_cb

Free(c) ==
  /\ Unlink(entry[c])
  /\ c_flag' = [c_flag EXCEPT ![entry[c]] = "free"]
  /\ ct_freelist' = entry[c]
  /\ entry' = [entry EXCEPT ![c] = Null]
  /\ todo' = [e \in Executors |-> todo[e] \ {entry[c]}]
  /\ Goto(c, "idle")
  /\ UNCHANGED <<c_class, allocated, ct_busy, cp, class, slept, failed>>

\* Mutant: an entry whose function is being called is deleted as well.
callb_delete_rash(c) == pc[c] \in {"added", "delete_woken"} /\ Free(c)

callb_delete(c) ==
  /\ pc[c] \in {"added", "delete_woken"} /\ c_flag[entry[c]] # "executing"
  /\ Free(c)

callb_delete_wait(c) ==
  /\ pc[c] \in {"added", "delete_woken"} /\ c_flag[entry[c]] = "executing"
  /\ Goto(c, "delete_wait")
  /\ UNCHANGED <<heap, c_flag, ct_busy, entry, local>>

-----------------------------------------------------------------------------
(* callb_execute_class()                                                   *)

\* What the loop comes to from entry x on: entries that are free are passed over.
Passed(x, flag) ==
  {y \in Entries \cup {Null} : \A S \in SUBSET (Entries \cup {Null}) :
     x \in S /\ (\A z \in S \ {Null} : flag[z] = "free" => c_next[z] \in S) => y \in S}

\* The loop goes on with entry x and the flags and threads it is given: an
\* entry that is executing is waited for.
Visit(e, x, flag, p) ==
  \E y \in Passed(x, flag) :
    /\ cp' = [cp EXCEPT ![e] = y]
    /\ \/ /\ y = Null
          /\ c_flag' = flag /\ UNCHANGED <<todo, slept>>
          /\ pc' = [p EXCEPT ![e] = "return"]
       \/ /\ y # Null /\ flag[y] = "executing"
          /\ c_flag' = flag /\ slept' = slept \cup {e} /\ UNCHANGED todo
          /\ pc' = [p EXCEPT ![e] = "wait"]
       \/ /\ y # Null /\ flag[y] = "taken"
          /\ c_flag' = [flag EXCEPT ![y] = "executing"]
          /\ todo' = [todo EXCEPT ![e] = @ \ {y}] /\ UNCHANGED slept
          /\ pc' = [p EXCEPT ![e] = "func"]

\* Called, also while another thread executes the class.
callb_execute_class(e, k) ==
  /\ pc[e] = "idle"
  /\ class' = [class EXCEPT ![e] = k]
  /\ todo' = [todo EXCEPT ![e] = List(ct_first_cb[k])]
  /\ Goto(e, "start")
  /\ UNCHANGED <<heap, c_flag, ct_busy, entry, cp, slept, failed>>

\* The first entry is looked up under the lock.
execute_start(e) ==
  /\ pc[e] = "start"
  /\ Visit(e, ct_first_cb[class[e]], c_flag, pc)
  /\ UNCHANGED <<heap, ct_busy, entry, class, failed>>

\* cv_broadcast(&cp->c_done_cv).
Announce(x) ==
  [t \in Threads |->
     IF t \in Executors THEN IF pc[t] = "wait" /\ cp[t] = x THEN "woken" ELSE pc[t]
     ELSE IF pc[t] = "delete_wait" /\ entry[t] = x THEN "delete_woken" ELSE pc[t]]

\* The function returns, ok or not.
execute_return(e, ok) ==
  /\ pc[e] = "func"
  /\ LET flag == [c_flag EXCEPT ![cp[e]] = "taken"] IN
     IF ok THEN Visit(e, c_next[cp[e]], flag, Announce(cp[e]))
     ELSE /\ c_flag' = flag
          /\ pc' = [Announce(cp[e]) EXCEPT ![e] = "return"]
          /\ UNCHANGED <<cp, todo, slept>>
  /\ failed' = [failed EXCEPT ![e] = ~ok]
  /\ UNCHANGED <<heap, ct_busy, entry, class>>

\* Awake again: the entry may have been deleted, or be executing again.
execute_woken(e) ==
  /\ pc[e] = "woken"
  /\ Visit(e, cp[e], c_flag, pc)
  /\ UNCHANGED <<heap, ct_busy, entry, class, failed>>

return(e) ==
  /\ pc[e] = "return"
  /\ cp' = [cp EXCEPT ![e] = Null] /\ class' = [class EXCEPT ![e] = Null]
  /\ todo' = [todo EXCEPT ![e] = {}] /\ slept' = slept \ {e}
  /\ failed' = [failed EXCEPT ![e] = FALSE]
  /\ Goto(e, "idle")
  /\ UNCHANGED <<heap, c_flag, ct_busy, entry>>

-----------------------------------------------------------------------------
(* The lock of the table                                                   *)

callb_lock_table ==
  /\ ~ct_busy /\ ct_busy' = TRUE
  /\ UNCHANGED <<heap, c_flag, entry, local, pc>>

\* Mutant: the waiting threads are not woken.
callb_unlock_table_silent ==
  /\ ct_busy /\ ct_busy' = FALSE
  /\ UNCHANGED <<heap, c_flag, entry, local, pc>>

callb_unlock_table ==
  /\ ct_busy /\ ct_busy' = FALSE
  /\ pc' = [t \in Threads |-> IF pc[t] = "add_wait" THEN "add_woken" ELSE pc[t]]
  /\ UNCHANGED <<heap, c_flag, entry, local>>

-----------------------------------------------------------------------------
Delete(c) == callb_delete(c) \/ callb_delete_wait(c)
Add(c) == callb_add_wait(c) \/ \E k \in Classes : callb_add(c, k)
Execute(e) ==
  execute_start(e) \/ execute_woken(e) \/ return(e) \/ \E ok \in BOOLEAN : execute_return(e, ok)

Next ==
  \/ \E c \in Clients : Add(c) \/ Delete(c)
  \/ \E e \in Executors : Execute(e) \/ \E k \in Classes : callb_execute_class(e, k)
  \/ callb_lock_table \/ callb_unlock_table

Spec == Init /\ [][Next]_vars

\* Threads in the code go on, callback functions return, a checkpoint ends.
\* Nobody needs to start anything.
FairSpec ==
  /\ Spec
  /\ \A c \in Clients :
       /\ WF_vars(pc[c] = "delete_woken" /\ Delete(c))
       /\ WF_vars(pc[c] = "add_woken" /\ Add(c))
  /\ \A e \in Executors : WF_vars(Execute(e))
  /\ WF_vars(callb_unlock_table)

-----------------------------------------------------------------------------
(* Properties                                                              *)

TypeOK ==
  /\ ct_first_cb \in [Classes -> Entries \cup {Null}]
  /\ ct_freelist \in Entries \cup {Null} /\ ct_busy \in BOOLEAN
  /\ c_next \in [Entries -> Entries \cup {Null}]
  /\ c_class \in [Entries -> Classes \cup {Null}]
  /\ c_flag \in [Entries -> {"free", "taken", "executing"}]
  /\ allocated \subseteq Entries
  /\ entry \in [Clients -> Entries \cup {Null}]
  /\ cp \in [Executors -> Entries \cup {Null}]
  /\ class \in [Executors -> Classes \cup {Null}]
  /\ todo \in [Executors -> SUBSET Entries] /\ slept \subseteq Executors
  /\ \A e \in Executors : pc[e] \in {"func", "wait", "woken"} => cp[e] # Null
  /\ \A c \in Clients : entry[c] # Null <=> pc[c] \in {"added", "delete_wait", "delete_woken"}

\* The lists of the classes and the free list hold what they should, each
\* entry once, and end (no set of entries is linked in itself): entries move
\* between them all the time.
ListsExact ==
  /\ \A k \in Classes :
       List(ct_first_cb[k]) = {x \in Entries : c_flag[x] # "free" /\ c_class[x] = k}
  /\ List(ct_freelist) = {x \in allocated : c_flag[x] = "free"}
  /\ \A S \in SUBSET Entries : S # {} => \E x \in S : c_next[x] \notin S
  /\ \A x, y \in allocated : x # y /\ c_next[x] # Null => c_next[x] # c_next[y]
  /\ \A c, d \in Clients : c # d /\ entry[c] # Null => entry[c] # entry[d]

\* A function is called by one executor at a time and only while its client
\* has it registered, although an executor may wake up on an entry that was
\* deleted; without such a wait, in the class it was registered for.
CalledWhileRegistered ==
  \A e \in Executors : pc[e] = "func" =>
    /\ c_flag[cp[e]] = "executing" /\ (e \notin slept => c_class[cp[e]] = class[e])
    /\ \E c \in Clients : entry[c] = cp[e]
    /\ \A f \in Executors \ {e} : pc[f] = "func" => cp[f] # cp[e]

\* Nobody sleeps for an entry that is not executing any more, or for a table
\* that is not locked.
WaitersHaveCause ==
  /\ \A c \in Clients :
       /\ pc[c] = "delete_wait" => c_flag[entry[c]] = "executing"
       /\ pc[c] = "add_wait" => ct_busy
  /\ \A e \in Executors : pc[e] = "wait" => c_flag[cp[e]] = "executing"

\* The table and who uses it are right whenever ct_lock is free.
Inv == TypeOK /\ ListsExact /\ CalledWhileRegistered /\ WaitersHaveCause

\* An execution that reports success, and never had to wait for another one
\* of its class, has called every function that was registered all the time,
\* although ct_lock is dropped for each call.  (After a wait this may fail,
\* against the comment "cont if the callb is deleted while we're sleeping":
\* the entry leads on into the list where it is now.)
EveryCallbackCalled ==
  \A e \in Executors : pc[e] = "return" /\ ~failed[e] /\ e \notin slept => todo[e] = {}

\* Deletions and additions that wait come to an end, unless others lock the
\* table, or call the function, again and again.
WaitsEnd ==
  \A c \in Clients : pc[c] \in {"delete_wait", "add_wait"} ~>
                       pc[c] \notin {"delete_wait", "add_wait"}
=============================================================================
