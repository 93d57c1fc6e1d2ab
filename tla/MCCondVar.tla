------------------------------ MODULE MCCondVar ------------------------------
(* CondVar for TLC, and its sleep queue against the links of sleepq.c. *)
EXTENDS CondVar, TLC

Symmetric == Permutations(Lwps) \cup Permutations(Waiters \ Lwps) \cup Permutations(Setters)

\* Queues of up to four threads; who comes is the next one.
Sleepers == 1 .. 5
Links == INSTANCE SleepQ WITH Threads <- Sleepers
Queue(n) == [i \in 1 .. n |-> i]
Priorities(n) == {prio \in [Sleepers -> 1 .. 3] : Sorted(Queue(n), prio)}

\* sleepq_insert() and sleepq_dequeue(), with their shortcuts over the
\* sublists, do on the links what Insert and Remove do on the sequence.
ASSUME InsertAndDequeue ==
  \A n \in 0 .. 4 : \A prio \in Priorities(n) :
    LET links == Links!LinksOf(Queue(n), prio) IN
    /\ Links!sleepq_insert(links, prio, n + 1) = Links!LinksOf(Insert(Queue(n), prio, n + 1), prio)
    /\ \A t \in 1 .. n :
         Links!sleepq_dequeue(links, t) = Links!LinksOf(Remove(Queue(n), t), prio)

\* The walks that unlink what they pass wake the first sleeper on an object,
\* or all of them, and leave the others as they are.
ASSUME WakeOneAndAll ==
  \A n \in 0 .. 4 : \A prio \in Priorities(n) : \A chan \in [Sleepers -> {1, 2}] :
    LET links == Links!LinksOf(Queue(n), prio)
        on == {t \in 1 .. n : chan[t] = 1}
        first == {t \in on : \A u \in on : t <= u}
        Left(T) == Links!LinksOf(Without(Queue(n), T), prio)
    IN  /\ Links!sleepq_wakeone_chan(links, chan, 1) = Left(first)
        /\ Links!sleepq_wakeall_chan(links, chan, 1) = Left(on)
=============================================================================
