---------------------------- MODULE LogicalIndex ----------------------------
(* What a writable handle promises of logical mutation batches, whatever   *)
(* frames carry them: a batch is staged as a whole or not at all, a commit *)
(* makes exactly the staged batches durable, all of them batches whose     *)
(* promise resolved before, and what is not committed may be discarded.    *)
CONSTANT Batches      \* the logical batches, none of them empty

VARIABLES
    phase,   \* what became of each batch in the index
    told,    \* what its promise told the caller
    lost     \* the handle is gone, with what it had not committed

vars == <<phase, told, lost>>

TypeOK == /\ phase \in [Batches -> {"none", "staged", "committed"}]
          /\ told \in [Batches -> {"none", "done", "failed"}]
          /\ lost \in BOOLEAN

Init == /\ phase = [b \in Batches |-> "none"]
        /\ told = [b \in Batches |-> "none"]
        /\ lost = FALSE

\* The index takes a batch in.
Stage(b) == /\ ~lost /\ phase[b] = "none" /\ told[b] = "none"
            /\ phase' = [phase EXCEPT ![b] = "staged"]
            /\ UNCHANGED <<told, lost>>

\* A promise resolves only for a batch the index took in; the answer may
\* arrive after a rollback.
Done(b) == /\ phase[b] = "staged" \/ lost
           /\ told[b] = "none"
           /\ told' = [told EXCEPT ![b] = "done"]
           /\ UNCHANGED <<phase, lost>>

\* A promise is rejected; what was staged of the batch can only be lost.
Failed(b) == /\ phase[b] # "committed" /\ told[b] = "none"
             /\ told' = [told EXCEPT ![b] = "failed"]
             /\ UNCHANGED <<phase, lost>>

Staged == {b \in Batches : phase[b] = "staged"}

Commit == /\ ~lost
          /\ \A b \in Staged : told[b] = "done"
          /\ phase' = [b \in Batches |-> IF b \in Staged THEN "committed" ELSE phase[b]]
          /\ UNCHANGED <<told, lost>>

Discard == /\ phase' = [b \in Batches |-> IF b \in Staged THEN "none" ELSE phase[b]]
           /\ lost' = TRUE
           /\ UNCHANGED told

Next == \/ \E b \in Batches : Stage(b) \/ Done(b) \/ Failed(b)
        \/ Commit
        \/ Discard

Spec == Init /\ [][Next]_vars
=============================================================================
