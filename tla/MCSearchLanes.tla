--------------------------- MODULE MCSearchLanes ---------------------------
(* Model-checking instances of SearchLanes: runtime a has two lanes and    *)
(* one or two flexible workers, runtime b a single search thread; there is *)
(* one expensive-search permit in the process.                             *)
EXTENDS SearchLanes, TLC

CONSTANTS a, b, f1, f2

HomeOne == f1 :> a
HomeTwins == (f1 :> a) @@ (f2 :> a)

Count(o, e) == [c \in Classes |-> IF c = "ordinary" THEN o ELSE e]
SubmitOne == (a :> Count(1, 2)) @@ (b :> Count(0, 1))
SubmitFew == (a :> Count(1, 1)) @@ (b :> Count(0, 1))
SubmitTwins == (a :> Count(0, 2)) @@ (b :> Count(0, 1))

Twins == Permutations({f1, f2})
=============================================================================
