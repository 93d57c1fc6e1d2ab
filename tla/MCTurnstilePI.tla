--------------------------- MODULE MCTurnstilePI ---------------------------
(* Instances of TurnstilePI for TLC. *)
EXTENDS TurnstilePI, TLC

CONSTANTS a, b, c, d, o1, o2, o3, cpu1, cpu2

\* A blocking chain a, b, c, d over o1, o2 and o3, whose hash chains have the
\* addresses 1, 2 and 1: a meets the locks in the right order and b in the
\* wrong one, at the same time.  Three threads want o1, which is handed over.
CrossChain == o1 :> 1 @@ o2 :> 2 @@ o3 :> 1
CrossScript == a :> <<o1, o1>> @@ b :> <<o1, o2, o2, o1>>
            @@ c :> <<o2, o3, o3, o2>> @@ d :> <<o1, o1, o3, o3>>
Mixed == a :> 4 @@ b :> 3 @@ c :> 1 @@ d :> 2
Dispatchers == a :> cpu1 @@ b :> cpu2 @@ c :> cpu1 @@ d :> cpu2
=============================================================================
