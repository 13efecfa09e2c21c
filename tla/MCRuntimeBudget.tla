-------------------------- MODULE MCRuntimeBudget --------------------------
(* A model-checking instance of RuntimeBudget: two writers and a reader    *)
(* that together exceed every limit but one.                               *)
EXTENDS RuntimeBudget, TLC

CONSTANTS w1, w2, r1

MCIndexes == {w1, w2, r1}
MCReaders == {r1}

\* What a runtime asks for.
Asks(i, s, m, q) ==
    [r \in Resources |-> CASE r = "resident" -> 1 [] r = "indexing" -> i
                           [] r = "search" -> s [] r = "memory" -> m [] OTHER -> q]

MCRequested == (w1 :> Asks(1, 1, 2, 1)) @@ (w2 :> Asks(1, 2, 1, 1)) @@ (r1 :> Asks(1, 1, 1, 2))

\* A budget that fits some pairs, and one that refuses late and early.
MCLimits == {Asks(2, 3, 2, 4), [Asks(1, 3, 3, 5) EXCEPT !["resident"] = 3],
             [Asks(2, 3, 3, 4) EXCEPT !["resident"] = 2]}
=============================================================================
