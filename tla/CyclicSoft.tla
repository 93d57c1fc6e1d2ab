----------------------------- MODULE CyclicSoft -----------------------------
(***************************************************************************)
(* The cyclic subsystem of the Solaris kernel (uts/common/os/cyclic.c) on  *)
(* one CPU: what passes between the interrupt that expires cyclics and the *)
(* soft interrupts that call their handlers, while cyclics are added and   *)
(* removed and the arrays underneath are resized.                          *)
(*                                                                         *)
(* What runs at CY_HIGH_LEVEL is one step.  The soft interrupts use no     *)
(* lock: their steps are single accesses to what they share, and they      *)
(* interleave with each other since handlers may block.                    *)
(***************************************************************************)
EXTENDS Integers, FiniteSets

CONSTANTS
  Cyclics,    \* the cyclics that are added and removed
  cy_level,   \* the soft level of a cyclic
  Size,       \* the size of the arrays at first
  MaxSize,    \* the largest size of the arrays
  Sizes,      \* the sizes between, powers of two
  MaxPend,    \* how often a cyclic expires before it is handled
  Wrap,       \* the indexes of a buffer are numbers modulo Wrap
  NoCyclic

CY_LOW_LEVEL == 0
CY_LOCK_LEVEL == 1
SoftLevels == CY_LOW_LEVEL .. CY_LOCK_LEVEL
CY_SOFT_LEVELS == Cardinality(SoftLevels)

ASSUME CyclicAssumption ==
  /\ IsFiniteSet(Cyclics) /\ cy_level \in [Cyclics -> SoftLevels]
  /\ NoCyclic \notin Cyclics \cup (0 .. MaxSize - 1)
  /\ MaxSize \in Nat /\ Sizes \subseteq 1 .. MaxSize /\ Size \in Sizes
  /\ \A s \in Sizes : (s < MaxSize => 2 * s \in Sizes) /\ Wrap % s = 0
  /\ MaxPend \in Nat \ {0} /\ Wrap \in Nat /\ MaxSize + 1 < Wrap

VARIABLES
  cyp_state, cyp_rpend, cyp_modify_levels, cyp_modify_wait,
  cyp_size,
  cyp_cyclics,  \* which of two arrays: the other is the old one, or does not exist
  cy_pend,      \* in both arrays
  cy_handler,   \* in both arrays: the cyclic whose handler it is
  slot,         \* where a cyclic is in the array; NoCyclic: not in the heap
  cys_hard, cys_soft,
  cypc_buf, cypc_prodndx, cypc_consndx, cypc_size,   \* of two buffers for each level
  posted,       \* soft interrupts
  softpc,       \* where a soft level is
  cyclics, soft, ndx, consndx, handler, pend, resized,   \* variables of cyclic_softint()
  op, opc,      \* what the thread with cpu_lock is at, and with which cyclic
  owed          \* history: how often a cyclic has expired without its handler having returned

cpu == <<cyp_state, cyp_rpend, cyp_modify_levels, cyp_modify_wait, cyp_size>>
array == <<cyp_cyclics, cy_pend, cy_handler, slot>>
buffer == <<cys_hard, cys_soft, cypc_buf, cypc_prodndx, cypc_consndx, cypc_size>>
local == <<cyclics, soft, ndx, consndx, handler, pend, resized>>
thread == <<op, opc>>
cyclic_vars == <<cpu, array, buffer, posted, softpc, local, thread, owed>>

Slots == 0 .. MaxSize - 1
Both == {0, 1}
PerLevel(v) == [l \in SoftLevels |-> v]

\* cyclic_configure() makes arrays of one slot; cyclic_expand() has doubled them
\* any number of times.
CyclicInit ==
  /\ cyp_state = "ONLINE" /\ cyp_rpend = 0 /\ cyp_modify_levels = 0 /\ cyp_modify_wait = 0
  /\ cyp_size = Size /\ cyp_cyclics = 0
  /\ cy_pend = [a \in Both |-> [i \in Slots |-> 0]]
  /\ cy_handler = [a \in Both |-> [i \in Slots |-> NoCyclic]]
  /\ slot = [c \in Cyclics |-> NoCyclic]
  /\ cys_hard = PerLevel(0) /\ cys_soft = PerLevel(0)
  /\ cypc_buf = PerLevel([b \in Both |-> [i \in Slots |-> 0]])
  /\ cypc_prodndx = PerLevel([b \in Both |-> 0]) /\ cypc_consndx = PerLevel([b \in Both |-> 0])
  /\ cypc_size = PerLevel([b \in Both |-> IF b = 0 THEN Size ELSE 0])
  /\ posted = {} /\ softpc = PerLevel("off")
  /\ cyclics = PerLevel(0) /\ soft = PerLevel(0) /\ ndx = PerLevel(0) /\ consndx = PerLevel(0)
  /\ handler = PerLevel(NoCyclic) /\ pend = PerLevel(0) /\ resized = PerLevel(FALSE)
  /\ op = "idle" /\ opc = NoCyclic /\ owed = [c \in Cyclics |-> 0]

Goto(l, where) == softpc' = [softpc EXCEPT ![l] = where]
Set(f, l, v) == [f EXCEPT ![l] = v]

-----------------------------------------------------------------------------
(* cyclic_expire(), from cyclic_fire()                                     *)

\* Only if it was not pending: it is in the buffer at most once.
Enqueues(c) == cy_pend[cyp_cyclics][slot[c]] = 0

\* Of a cyclic of a soft level: those of CY_HIGH_LEVEL are called on the spot and
\* have no count.  Where the count would wrap it is clamped; here it stays
\* below MaxPend.
cyclic_expire(c) ==
  LET i == slot[c]   l == cy_level[c]   b == cys_hard[l]   p == cypc_prodndx[l][b] IN
  /\ i # NoCyclic /\ cy_pend[cyp_cyclics][i] < MaxPend
  /\ cy_pend' = [cy_pend EXCEPT ![cyp_cyclics][i] = @ + 1]
  /\ owed' = [owed EXCEPT ![c] = @ + 1]
  /\ IF Enqueues(c)
     THEN /\ cypc_buf' = [cypc_buf EXCEPT ![l][b][p % cypc_size[l][b]] = i]
          /\ cypc_prodndx' = [cypc_prodndx EXCEPT ![l][b] = (p + 1) % Wrap]
     ELSE UNCHANGED <<cypc_buf, cypc_prodndx>>
  /\ posted' = posted \cup {l}
  /\ UNCHANGED <<cpu, cyp_cyclics, cy_handler, slot, cys_hard, cys_soft, cypc_consndx, cypc_size, softpc, local, thread>>

-----------------------------------------------------------------------------
(* cyclic_softint()                                                        *)

\* cyclic_softint() is done with the buffers: its variables are dead.
Leave(l, where) ==
  /\ Goto(l, where) /\ cyclics' = Set(cyclics, l, 0) /\ soft' = Set(soft, l, 0)
  /\ consndx' = Set(consndx, l, 0) /\ resized' = Set(resized, l, FALSE)
  /\ UNCHANGED <<ndx, handler, pend>>

softint(l) ==
  /\ softpc[l] = "off" /\ l \in posted /\ posted' = posted \ {l}
  /\ cyclics' = Set(cyclics, l, cyp_cyclics) /\ resized' = Set(resized, l, FALSE)
  /\ Goto(l, "top")
  /\ UNCHANGED <<cpu, array, buffer, soft, ndx, consndx, handler, pend, thread, owed>>

softint_top(l) ==
  /\ softpc[l] = "top" /\ soft' = Set(soft, l, cys_soft[l])
  /\ consndx' = Set(consndx, l, cypc_consndx[l][cys_soft[l]])
  /\ Goto(l, "while")
  /\ UNCHANGED <<cpu, array, buffer, posted, cyclics, ndx, handler, pend, resized, thread, owed>>

softint_while(l) ==
  LET i == cypc_buf[l][soft[l]][consndx[l] % cypc_size[l][soft[l]]] IN
  /\ softpc[l] = "while"
  /\ IF consndx[l] = cypc_prodndx[l][soft[l]]
     THEN Goto(l, "drained") /\ UNCHANGED <<ndx, handler>>
     ELSE /\ ndx' = Set(ndx, l, i) /\ handler' = Set(handler, l, cy_handler[cyclics[l]][i])
          /\ Goto(l, "call")
  /\ UNCHANGED <<cpu, array, buffer, posted, cyclics, soft, consndx, pend, resized, thread, owed>>

\* The handler returns.
Handled(l) == owed' = [owed EXCEPT ![handler[l]] = @ - 1]

call(l) ==
  /\ softpc[l] = "call" /\ Handled(l) /\ Goto(l, "reread")
  /\ UNCHANGED <<cpu, array, buffer, posted, local, thread>>

\* The slot of the array that the soft interrupt has a pointer to.
reread(l) ==
  LET p == cy_pend[cyclics[l]][ndx[l]] IN
  /\ softpc[l] = "reread" /\ pend' = Set(pend, l, p)
  /\ Goto(l, IF p = 0 THEN "zero" ELSE "cas")
  /\ UNCHANGED <<cpu, array, buffer, posted, cyclics, soft, ndx, consndx, handler, resized, thread, owed>>

\* Mutant: a count of zero always means a resize.
zero_resize(l) ==
  /\ softpc[l] = "zero"
  /\ cyclics' = Set(cyclics, l, cyp_cyclics) /\ Goto(l, "reread")
  /\ UNCHANGED <<cpu, array, buffer, posted, soft, ndx, consndx, handler, pend, resized, thread, owed>>

\* The count was taken away: by a removal, or by a resize.
zero(l) ==
  /\ softpc[l] = "zero"
  /\ IF cyp_state = "REMOVING"
     THEN pend' = Set(pend, l, cyp_rpend - 1) /\ Goto(l, "rpend") /\ UNCHANGED cyclics
     ELSE cyclics' = Set(cyclics, l, cyp_cyclics) /\ Goto(l, "reread") /\ UNCHANGED pend
  /\ UNCHANGED <<cpu, array, buffer, posted, soft, ndx, consndx, handler, resized, thread, owed>>

\* Mutant: the count is stored, not compared and swapped.
cas_blind(l) ==
  /\ softpc[l] = "cas" /\ cy_pend' = [cy_pend EXCEPT ![cyclics[l]][ndx[l]] = pend[l] - 1]
  /\ Goto(l, IF pend[l] > 1 THEN "call" ELSE "next")
  /\ UNCHANGED <<cpu, cyp_cyclics, cy_handler, slot, buffer, posted, local, thread, owed>>

\* The count goes down by one if it is what was read.
cas(l) ==
  /\ softpc[l] = "cas"
  /\ \/ /\ cy_pend[cyclics[l]][ndx[l]] = pend[l]
        /\ cy_pend' = [cy_pend EXCEPT ![cyclics[l]][ndx[l]] = pend[l] - 1]
        /\ Goto(l, IF pend[l] > 1 THEN "call" ELSE "next")
     \/ /\ cy_pend[cyclics[l]][ndx[l]] # pend[l]
        /\ Goto(l, "reread") /\ UNCHANGED cy_pend
  /\ UNCHANGED <<cpu, cyp_cyclics, cy_handler, slot, buffer, posted, local, thread, owed>>

\* Mutant: the removal goes on before the handler was called for the last time.
cyclic_remove_pend_early(l) ==
  /\ softpc[l] = "rpend"
  /\ cyp_modify_wait' = cyp_modify_wait + 1 /\ Goto(l, IF pend[l] > 0 THEN "call" ELSE "next")
  /\ UNCHANGED <<cyp_state, cyp_rpend, cyp_modify_levels, cyp_size, array, buffer, posted, local, thread, owed>>

\* The handler is called as often as it was pending; then the removal goes on.
cyclic_remove_pend(l) ==
  /\ softpc[l] = "rpend"
  /\ \/ /\ pend[l] > 0 /\ Handled(l) /\ pend' = Set(pend, l, pend[l] - 1)
        /\ UNCHANGED <<cyp_modify_wait, softpc>>
     \/ /\ pend[l] = 0 /\ cyp_modify_wait' = cyp_modify_wait + 1
        /\ Goto(l, "next") /\ UNCHANGED <<owed, pend>>
  /\ UNCHANGED <<cyp_state, cyp_rpend, cyp_modify_levels, cyp_size, array, buffer, posted,
                 cyclics, soft, ndx, consndx, handler, resized, thread>>

\* The entry is consumed; ndx, handler and pend are dead.
softint_next(l) ==
  LET n == (consndx[l] + 1) % Wrap IN
  /\ softpc[l] = "next" /\ consndx' = Set(consndx, l, n)
  /\ cypc_consndx' = [cypc_consndx EXCEPT ![l][soft[l]] = n]
  /\ ndx' = Set(ndx, l, 0) /\ handler' = Set(handler, l, NoCyclic) /\ pend' = Set(pend, l, 0)
  /\ Goto(l, "while")
  /\ UNCHANGED <<cpu, array, cys_hard, cys_soft, cypc_buf, cypc_prodndx, cypc_size, posted,
                 cyclics, soft, resized, thread, owed>>

\* The buffer is empty.  If the expirations go to the other one by now, that
\* is the next; and the resize is to hear of it.
softint_drained(l) ==
  /\ softpc[l] = "drained"
  /\ IF soft[l] # cys_hard[l]
     THEN /\ cyclics' = Set(cyclics, l, cyp_cyclics) /\ cys_soft' = Set(cys_soft, l, cys_hard[l])
          /\ resized' = Set(resized, l, TRUE) /\ Goto(l, "top")
          /\ UNCHANGED <<soft, ndx, consndx, handler, pend>>
     ELSE Leave(l, IF resized[l] THEN "levels" ELSE "off") /\ UNCHANGED cys_soft
  /\ UNCHANGED <<cpu, array, cys_hard, cypc_buf, cypc_prodndx, cypc_consndx, cypc_size, posted, thread, owed>>

\* The last level to see the resize lets it go on; another tells the next.
softint_levels(l) ==
  /\ softpc[l] = "levels" /\ cyp_modify_levels' = cyp_modify_levels + 1
  /\ Goto(l, IF cyp_modify_levels + 1 = CY_SOFT_LEVELS THEN "kick"
             ELSE IF l # CY_LOW_LEVEL THEN "post" ELSE "off")
  /\ UNCHANGED <<cyp_state, cyp_rpend, cyp_modify_wait, cyp_size, array, buffer, posted, local, thread, owed>>

softint_kick(l) ==
  /\ softpc[l] = "kick" /\ cyp_modify_wait' = cyp_modify_wait + 1 /\ Goto(l, "off")
  /\ UNCHANGED <<cyp_state, cyp_rpend, cyp_modify_levels, cyp_size, array, buffer, posted, local, thread, owed>>

softint_post(l) ==
  /\ softpc[l] = "post" /\ posted' = posted \cup {l - 1} /\ Goto(l, "off")
  /\ UNCHANGED <<cpu, array, buffer, local, thread, owed>>

-----------------------------------------------------------------------------
(* With cpu_lock: cyclic_add(), cyclic_expand(), cyclic_remove()           *)

\* The buffers that are not in use, with v.
Other(f, v) == [l \in SoftLevels |-> [f[l] EXCEPT ![1 - cys_hard[l]] = v]]

Used == {slot[c] : c \in Cyclics} \ {NoCyclic}
Free == (0 .. cyp_size - 1) \ Used

\* Into any free slot: which one the heap has next is not modelled.
cyclic_add_xcall(c, i) ==
  /\ op = "idle" \/ (op = "add" /\ opc = c)
  /\ slot[c] = NoCyclic /\ i \in Free /\ op' = "idle" /\ opc' = NoCyclic
  /\ slot' = [slot EXCEPT ![c] = i] /\ cy_handler' = [cy_handler EXCEPT ![cyp_cyclics][i] = c]
  /\ UNCHANGED <<cpu, cyp_cyclics, cy_pend, buffer, posted, softpc, local, owed>>

\* There is no slot left: new arrays and buffers, twice as large.
cyclic_expand(c) ==
  /\ op = "idle" /\ slot[c] = NoCyclic /\ Free = {} /\ cyp_size < MaxSize
  /\ op' = "expand" /\ opc' = c /\ cyp_state' = "EXPANDING" /\ cyp_modify_levels' = 0
  /\ cypc_size' = Other(cypc_size, 2 * cyp_size)
  /\ cypc_prodndx' = Other(cypc_prodndx, 0) /\ cypc_consndx' = Other(cypc_consndx, 0)
  /\ UNCHANGED <<cyp_rpend, cyp_modify_wait, cyp_size, array, cys_hard, cys_soft, cypc_buf, posted, softpc, local, owed>>

\* The counts move to the new array, and the buffers to produce into change.
cyclic_expand_xcall ==
  /\ op = "expand" /\ op' = "expand_wait" /\ cyp_size' = 2 * cyp_size
  /\ cyp_cyclics' = 1 - cyp_cyclics
  /\ cy_pend' = [a \in Both |-> IF a = cyp_cyclics THEN [i \in Slots |-> 0] ELSE cy_pend[cyp_cyclics]]
  /\ cy_handler' = [a \in Both |-> cy_handler[cyp_cyclics]]
  /\ cys_hard' = [l \in SoftLevels |-> 1 - cys_hard[l]] /\ posted' = posted \cup {CY_LOCK_LEVEL}
  /\ UNCHANGED <<cyp_state, cyp_rpend, cyp_modify_levels, cyp_modify_wait, slot,
                 cys_soft, cypc_buf, cypc_prodndx, cypc_consndx, cypc_size, softpc, local, opc, owed>>

\* sema_p(): the old buffers and arrays are freed.
cyclic_expand_done ==
  /\ op = "expand_wait" /\ cyp_modify_wait > 0 /\ cyp_modify_wait' = cyp_modify_wait - 1
  /\ op' = "add" /\ cyp_state' = "ONLINE"
  /\ cypc_size' = Other(cypc_size, 0) /\ cypc_buf' = Other(cypc_buf, [i \in Slots |-> 0])
  /\ cypc_prodndx' = Other(cypc_prodndx, 0) /\ cypc_consndx' = Other(cypc_consndx, 0)
  /\ cy_handler' = [cy_handler EXCEPT ![1 - cyp_cyclics] = [i \in Slots |-> NoCyclic]]
  /\ UNCHANGED <<cyp_rpend, cyp_modify_levels, cyp_size, cyp_cyclics, cy_pend, slot, cys_hard, cys_soft,
                 posted, softpc, local, opc, owed>>

cyclic_remove_here(c) ==
  /\ op = "idle" /\ slot[c] # NoCyclic /\ op' = "remove" /\ opc' = c /\ cyp_state' = "REMOVING"
  /\ UNCHANGED <<cyp_rpend, cyp_modify_levels, cyp_modify_wait, cyp_size, array, buffer, posted, softpc, local, owed>>

\* The count moves to cyp_rpend, the slot to the free list.
cyclic_remove_xcall ==
  LET i == slot[opc] IN
  /\ op = "remove" /\ op' = "remove_wait"
  /\ cyp_rpend' = cy_pend[cyp_cyclics][i]
  /\ cy_pend' = [cy_pend EXCEPT ![cyp_cyclics][i] = 0]
  /\ slot' = [slot EXCEPT ![opc] = NoCyclic]
  /\ UNCHANGED <<cyp_state, cyp_modify_levels, cyp_modify_wait, cyp_size, cyp_cyclics, cy_handler,
                 buffer, posted, softpc, local, opc, owed>>

\* sema_p(), if there were calls left.
cyclic_remove_done ==
  /\ op = "remove_wait"
  /\ \/ cyp_rpend = 0 /\ UNCHANGED cyp_modify_wait
     \/ cyp_rpend # 0 /\ cyp_modify_wait > 0 /\ cyp_modify_wait' = cyp_modify_wait - 1
  /\ cyp_rpend' = 0 /\ cyp_state' = "ONLINE" /\ op' = "idle" /\ opc' = NoCyclic
  /\ UNCHANGED <<cyp_modify_levels, cyp_size, array, buffer, posted, softpc, local, owed>>

-----------------------------------------------------------------------------
Soft(l) ==
  \/ softint(l) \/ softint_top(l) \/ softint_while(l) \/ call(l) \/ reread(l) \/ zero(l) \/ cas(l)
  \/ cyclic_remove_pend(l) \/ softint_next(l) \/ softint_drained(l) \/ softint_levels(l)
  \/ softint_kick(l) \/ softint_post(l)

Waits == cyclic_expand_xcall \/ cyclic_expand_done \/ cyclic_remove_xcall \/ cyclic_remove_done

CyclicNext ==
  \/ \E l \in SoftLevels : Soft(l)
  \/ \E c \in Cyclics : cyclic_expire(c) \/ cyclic_remove_here(c) \/ cyclic_expand(c)
  \/ \E c \in Cyclics, i \in Slots : cyclic_add_xcall(c, i)
  \/ Waits

CyclicSpec == CyclicInit /\ [][CyclicNext]_cyclic_vars

\* Soft interrupts that are posted come, handlers return, and the thread with
\* cpu_lock goes on with what it began.
CyclicFairSpec ==
  /\ CyclicSpec /\ WF_cyclic_vars(Waits) /\ WF_cyclic_vars(op = "add" /\ \E i \in Slots : cyclic_add_xcall(opc, i))
  /\ \A l \in SoftLevels : WF_cyclic_vars(Soft(l))

-----------------------------------------------------------------------------
(* Properties                                                              *)

Removing(c) == op \in {"remove", "remove_wait"} /\ opc = c

\* The soft level that has called the handler of c and not yet said so.
InFlight(c) == {l \in SoftLevels : handler[l] = c /\ softpc[l] \in {"reread", "zero", "cas"}}

\* The types of the state; cyp_modify_wait is a binary semaphore.
CyclicTypeOK ==
  /\ cyp_state \in {"ONLINE", "EXPANDING", "REMOVING"} /\ cyp_modify_wait \in 0 .. 1
  /\ cyp_modify_levels \in 0 .. CY_SOFT_LEVELS /\ cyp_size \in 1 .. MaxSize
  /\ owed \in [Cyclics -> Nat] /\ cy_pend \in [Both -> [Slots -> Nat]]
  /\ slot \in [Cyclics -> Slots \cup {NoCyclic}] /\ posted \subseteq SoftLevels

\* "there must be a one-to-one mapping between a cyclic's expiration [...] and
\* its execution": what a cyclic still has to be called for is what is counted,
\* in the array that counts, through removals and resizes; and nothing is left
\* when cyclic_remove() has returned.
OneToOne ==
  \A c \in Cyclics :
    IF slot[c] # NoCyclic
    THEN owed[c] = cy_pend[cyp_cyclics][slot[c]] - Cardinality(InFlight(c))
    ELSE ~Removing(c) => owed[c] = 0

\* The indexes that cyclic_softint() has not consumed of a buffer that was not
\* freed; the entry whose count was just brought to zero is as good as consumed.
First(l, b) ==
  IF softpc[l] = "next" /\ soft[l] = b THEN (cypc_consndx[l][b] + 1) % Wrap ELSE cypc_consndx[l][b]
Unread(l, b) ==
  {x \in 0 .. Wrap - 1 : /\ cypc_size[l][b] # 0
                        /\ (x - First(l, b)) % Wrap < (cypc_prodndx[l][b] - First(l, b)) % Wrap}
Entry(l, b, x) == cypc_buf[l][b][x % cypc_size[l][b]]

\* Where slot i is in the buffers bs of level l.
Entries(l, bs, i) ==
  {e \in bs \X (0 .. Wrap - 1) : e[2] \in Unread(l, e[1]) /\ Entry(l, e[1], e[2]) = i}

\* cyclic_expire() enters a cyclic only if it was not pending: a cyclic is never
\* twice in the buffers, and only if it is pending, whoever brought the count to
\* zero; so a buffer of the size of the array does not overflow.
EnqueuedOnce ==
  \A c \in Cyclics : slot[c] # NoCyclic =>
    Cardinality(Entries(cy_level[c], Both, slot[c])) <= IF cy_pend[cyp_cyclics][slot[c]] > 0 THEN 1 ELSE 0

\* A soft interrupt that finds a count of zero is in the middle of a removal
\* with calls left to make, or of a resize that it has not yet seen: the
\* assertions of cyclic_softint() and cyclic_remove_pend().
ZeroHasCause ==
  \A l \in SoftLevels :
    /\ softpc[l] = "zero" => \/ cyp_state = "REMOVING" /\ cyp_rpend > 0 /\ handler[l] = opc
                             \/ cyp_state = "EXPANDING" /\ cyclics[l] # cyp_cyclics /\ ~resized[l]
    /\ softpc[l] = "levels" \/ (softpc[l] = "drained" /\ (soft[l] # cys_hard[l] \/ resized[l])) => cyp_state = "EXPANDING"

\* "all of the old buffers [...] can be freed": when the resize is over, no
\* soft interrupt has a pointer to an old array or an old buffer.
OldIsUnused ==
  cyp_state # "EXPANDING" =>
    \A l \in SoftLevels :
      /\ cys_soft[l] = cys_hard[l]
      /\ softpc[l] \notin {"off", "levels", "kick", "post"} => cyclics[l] = cyp_cyclics
      /\ softpc[l] \notin {"off", "top", "levels", "kick", "post"} => soft[l] = cys_hard[l]

\* Expirations, counts, arrays and buffers fit together through removals and
\* resizes.
CyclicsRight == CyclicTypeOK /\ OneToOne /\ EnqueuedOnce /\ ZeroHasCause /\ OldIsUnused

\* "after cyclic_remove() returns, the cyclic handler has returned and will
\* never again be called".
RemovedIsOver ==
  \A l \in SoftLevels : softpc[l] \in {"call", "rpend"} => slot[handler[l]] # NoCyclic \/ Removing(handler[l])

\* A pending cyclic is in a buffer that a soft interrupt comes to.  This is
\* what "The actual softints will take care of consuming any pending cyclics
\* in the old buffer" says; the code does not keep to it (see README.md).
PendingIsQueued ==
  \A c \in Cyclics : slot[c] # NoCyclic /\ cy_pend[cyp_cyclics][slot[c]] > 0 =>
    LET l == cy_level[c] IN Entries(l, {cys_soft[l], cys_hard[l]}, slot[c]) # {}

\* Expirations come to an end, and none is left behind in an old buffer.
Slack == []PendingIsQueued /\ <>[][\A c \in Cyclics : owed'[c] <= owed[c]]_owed

\* Every expiration is handled at last, by the soft interrupts that were posted,
\* and every cyclic_add() that resizes and every cyclic_remove() returns: each
\* soft level tells of the resize, or of the last call, once and in time.
EventuallyHandled ==
  Slack => <>[](\A c \in Cyclics : owed[c] = 0) /\ (op # "idle" ~> op = "idle")
=============================================================================
