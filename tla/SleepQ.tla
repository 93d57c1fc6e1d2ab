------------------------------- MODULE SleepQ -------------------------------
(***************************************************************************)
(* Hashed sleep queues of the Solaris kernel: uts/common/os/sleepq.c.      *)
(*                                                                         *)
(* Its operations on one sleep queue as it lies in memory: a list through  *)
(* t_link and, for each priority, a circular list through t_priforw and    *)
(* t_priback of the threads that have it.  Every operation runs under the  *)
(* lock of the queue.  A slot is the place of a link: Null for sq_first, a *)
(* thread for its t_link.  The operations take the links and return them;  *)
(* MCCondVar checks them against SleepQueue.                               *)
(***************************************************************************)
EXTENDS Integers, FiniteSets, Sequences

CONSTANTS
  Threads,   \* finite
  Null       \* the pointer

Links == [sq_first : Threads \cup {Null},
          t_link : [Threads -> Threads \cup {Null}],
          t_priforw : [Threads -> Threads \cup {Null}],
          t_priback : [Threads -> Threads \cup {Null}]]

\* More steps than any list has links: a loop that takes more does not end.
Fuel == 0 .. Cardinality(Threads) + 1
AllFuel == Cardinality(Threads) + 1

Slots == Threads \cup {Null}

\* *tpp, and *tpp = t.
Get(s, slot) == IF slot = Null THEN s.sq_first ELSE s.t_link[slot]
Put(s, slot, t) ==
  IF slot = Null THEN [s EXCEPT !.sq_first = t] ELSE [s EXCEPT !.t_link[slot] = t]

-----------------------------------------------------------------------------
(* sleepq_unlink(), sleepq_dequeue(), sleepq_insert()                      *)

\* Off the priority sublist if there is more than one thread there.
Unring(s, t) ==
  IF s.t_priforw[t] = t THEN s
  ELSE [s EXCEPT !.t_priforw[s.t_priback[t]] = s.t_priforw[t],
                 !.t_priback[s.t_priforw[t]] = s.t_priback[t]]

sleepq_unlink(s, slot, t) ==
  [Unring(Put(s, slot, s.t_link[t]), t) EXCEPT
     !.t_link[t] = Null, !.t_priforw[t] = Null, !.t_priback[t] = Null]

\* The slot that holds t: that of the thread before it on its sublist, or,
\* if t is the head of a sublist, found by the walk from head to head.
DequeueSlot(s, t) ==
  LET walk[n \in Fuel, slot \in Slots] ==
        IF n = 0 \/ Get(s, slot) \in {t, Null} THEN slot
        ELSE walk[n - 1, s.t_priback[Get(s, slot)]]
  IN  IF s.t_link[s.t_priback[t]] = t THEN s.t_priback[t] ELSE walk[AllFuel, Null]

sleepq_dequeue(s, t) == sleepq_unlink(s, DequeueSlot(s, t), t)

\* The walk of sleepq_insert() from sublist to sublist: the slot after the
\* last one whose priority is at least p, and that priority.
InsertSlot(s, prio, p) ==
  LET walk[n \in Fuel, slot \in Slots] ==
        LET next_tp == Get(s, slot) IN
        IF n = 0 \/ next_tp = Null THEN slot
        ELSE IF p > prio[next_tp] THEN slot
        ELSE walk[n - 1, s.t_priback[next_tp]]
  IN  walk[AllFuel, Null]

\* Behind last_tp, the last thread of its priority.
Ring(s, last_tp, t) ==
  [s EXCEPT !.t_priback[t] = last_tp, !.t_priforw[t] = s.t_priforw[last_tp],
            !.t_priback[s.t_priforw[last_tp]] = t, !.t_priforw[last_tp] = t]

sleepq_insert(s, prio, t) ==
  LET slot == InsertSlot(s, prio, prio[t])
      linked == [Put(s, slot, t) EXCEPT !.t_link[t] = Get(s, slot)]
  IN  IF slot # Null /\ prio[slot] = prio[t] THEN Ring(linked, slot, t)
      ELSE [linked EXCEPT !.t_priback[t] = t, !.t_priforw[t] = t]

-----------------------------------------------------------------------------
(* sleepq_wakeone_chan(), sleepq_wakeall_chan()                            *)

\* The walk along t_link to the first thread that sleeps on c.
ChanSlot(s, t_wchan, c) ==
  LET walk[n \in Fuel, slot \in Slots] ==
        LET tp == Get(s, slot) IN
        IF n = 0 \/ tp = Null THEN slot
        ELSE IF t_wchan[tp] = c THEN slot ELSE walk[n - 1, tp]
  IN  walk[AllFuel, Null]

sleepq_wakeone_chan(s, t_wchan, c) ==
  LET slot == ChanSlot(s, t_wchan, c)
      tp == Get(s, slot)
  IN  IF tp = Null THEN s ELSE sleepq_unlink(s, slot, tp)

\* The walk that unlinks every thread that sleeps on c.
sleepq_wakeall_chan(s, t_wchan, c) ==
  LET walk[n \in Fuel, slot \in Slots, l \in Links] ==
        LET tp == Get(l, slot) IN
        IF n = 0 \/ tp = Null THEN l
        ELSE IF t_wchan[tp] = c THEN walk[n - 1, slot, sleepq_unlink(l, slot, tp)]
        ELSE walk[n - 1, tp, l]
  IN  walk[AllFuel, Null, s]

-----------------------------------------------------------------------------
(***************************************************************************)
(* The links that stand for the queue q, most urgent first: the circular   *)
(* lists are the runs of threads of the same priority, in the order of the *)
(* queue, and a thread that is awake has no links.                         *)
(***************************************************************************)
LinksOf(q, prio) ==
  LET Same(i, j) == prio[q[i]] = prio[q[j]]
      Start(i) == CHOOSE h \in 1 .. i : Same(h, i) /\ \A k \in 1 .. h - 1 : ~Same(k, i)
      Last(i) == CHOOSE h \in i .. Len(q) : Same(h, i) /\ \A k \in h + 1 .. Len(q) : ~Same(k, i)
      At(t) == CHOOSE i \in 1 .. Len(q) : q[i] = t
      Of(F(_)) == [t \in Threads |-> IF \E i \in 1 .. Len(q) : q[i] = t THEN F(At(t)) ELSE Null]
      Link(i) == IF i = Len(q) THEN Null ELSE q[i + 1]
      Forw(i) == IF i = Last(i) THEN q[Start(i)] ELSE q[i + 1]
      Back(i) == IF i = Start(i) THEN q[Last(i)] ELSE q[i - 1]
  IN  [sq_first |-> IF q = <<>> THEN Null ELSE q[1],
       t_link |-> Of(Link), t_priforw |-> Of(Forw), t_priback |-> Of(Back)]
=============================================================================
