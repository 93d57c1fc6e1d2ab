----------------------------- MODULE SleepQueue -----------------------------
(***************************************************************************)
(* The order of sleeping threads, as a sequence: descending dispatch       *)
(* priority, first come first served among equals.  semaphore.c keeps it   *)
(* in a list of its own, sleepq.c in a list with sublists by priority,     *)
(* which is module SleepQ.                                                 *)
(***************************************************************************)
EXTENDS Integers, Sequences, FiniteSets

Elems(q) == {q[i] : i \in 1 .. Len(q)}

\* How many threads a walk from the head passes that stops at the first
\* whose priority is less than p.
Passed(q, prio, p) ==
  Cardinality({i \in 1 .. Len(q) : \A j \in 1 .. i : prio[q[j]] >= p})

Splice(q, k, t) ==
  [i \in 1 .. Len(q) + 1 |-> IF i <= k THEN q[i] ELSE IF i = k + 1 THEN t ELSE q[i - 1]]

\* sleepq_insert(): behind all of the same or a better priority.
Insert(q, prio, t) == Splice(q, Passed(q, prio, prio[t]), t)

\* sleepq_dequeue(): wherever it is.
Remove(q, t) ==
  IF t \notin Elems(q) THEN q
  ELSE LET k == CHOOSE i \in 1 .. Len(q) : q[i] = t
       IN  [i \in 1 .. Len(q) - 1 |-> IF i < k THEN q[i] ELSE q[i + 1]]

\* sleepq_wakeall_chan(): all the threads of T, the others in their order.
Without(q, T) ==
  LET keep == {i \in 1 .. Len(q) : q[i] \notin T}
      Nth(n) == CHOOSE i \in keep : Cardinality({j \in keep : j <= i}) = n
  IN  [n \in 1 .. Cardinality(keep) |-> q[Nth(n)]]

Sorted(q, prio) == \A i, j \in 1 .. Len(q) : i < j => prio[q[i]] >= prio[q[j]]
=============================================================================
