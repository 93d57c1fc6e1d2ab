------------------------------ MODULE MCCallout ------------------------------
(* Instances of Callout for TLC. *)
EXTENDS Callout, TLC

\* One client is a thread of its own; each of the others is the function that
\* an executor calls.
CONSTANTS c1, f1, f2, e1, e2
MCClients == {c1, f1, f2}
MCExecutors == {e1, e2}
MCcurthread == (c1 :> c1) @@ (f1 :> e1) @@ (f2 :> e2)

\* Executors are exchanged together with their functions.
Symmetric ==
  Permutations(Structs) \cup Permutations(Ids)
    \cup {(f1 :> f2) @@ (f2 :> f1) @@ (e1 :> e2) @@ (e2 :> e1)}
=============================================================================
