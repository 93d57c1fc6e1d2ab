----------------------------- MODULE TimeoutSpec -----------------------------
(***************************************************************************)
(* What timeout(9F) and untimeout(9F) promise, as callout.c implements     *)
(* them: an issued timeout is pending until it runs, once, or is           *)
(* prevented, and untimeout() returns when the function cannot be running  *)
(* any more.  The one exception is a function that calls untimeout() on    *)
(* itself, which gets its answer while it runs.                            *)
(***************************************************************************)
CONSTANTS
  Ids,      \* timeout identifiers, reused when nobody remembers them
  Callers,  \* who calls untimeout(): threads, and the functions of timeouts
  Runners,  \* threads that call the functions
  thread,   \* the thread of each caller: a runner, for the function it calls
  NoId      \* not an identifier

VARIABLES
  fate,     \* of each identifier: "idle", "pending" or the thread that runs it
  arg       \* the identifier a caller has passed to untimeout(), or NoId

vars == <<fate, arg>>

Init ==
  /\ fate = [i \in Ids |-> "idle"]
  /\ arg = [c \in Callers |-> NoId]

\* Runner r runs nothing; its function is not in untimeout().
Free(r) == \A i \in Ids : fate[i] # r
Outside(r) == \A c \in Callers : thread[c] = r => arg[c] = NoId

Becomes(i, new) == fate' = [fate EXCEPT ![i] = new]
Returns(c) == arg[c] # NoId /\ arg' = [arg EXCEPT ![c] = NoId]

\* timeout() issues an identifier that nobody refers to.
Issue(i) ==
  /\ fate[i] = "idle" /\ \A c \in Callers : arg[c] # i
  /\ Becomes(i, "pending") /\ UNCHANGED arg

\* The function is called, and it returns.
Start(i) ==
  /\ fate[i] = "pending" /\ \E r \in Runners : Free(r) /\ Becomes(i, r)
  /\ UNCHANGED arg
Finish(i) ==
  /\ fate[i] \in Runners /\ Outside(fate[i])
  /\ Becomes(i, "idle") /\ UNCHANGED arg

\* The function returns and its thread calls that of another timeout.
FinishStart(i) ==
  /\ fate[i] \in Runners /\ Outside(fate[i])
  /\ \E j \in Ids : fate[j] = "pending" /\ fate' = [fate EXCEPT ![i] = "idle", ![j] = fate[i]]
  /\ UNCHANGED arg

\* untimeout() is called, by a function only while it runs.  It returns the
\* time left, and the function will not be called, or -1, and the function has
\* returned or was prevented, or is the caller.
Call(c, i) ==
  /\ arg[c] = NoId /\ arg' = [arg EXCEPT ![c] = i]
  /\ (thread[c] \in Runners => ~Free(thread[c])) /\ UNCHANGED fate
Prevent(c) == Returns(c) /\ fate[arg[c]] = "pending" /\ Becomes(arg[c], "idle")
TooLate(c) == Returns(c) /\ fate[arg[c]] = "idle" /\ UNCHANGED fate
Itself(c) == Returns(c) /\ fate[arg[c]] = thread[c] /\ UNCHANGED fate

Next ==
  \/ \E i \in Ids : \/ Issue(i) \/ Start(i) \/ Finish(i) \/ FinishStart(i)
                    \/ \E c \in Callers : Call(c, i)
  \/ \E c \in Callers : Prevent(c) \/ TooLate(c) \/ Itself(c)

Spec == Init /\ [][Next]_vars
=============================================================================
