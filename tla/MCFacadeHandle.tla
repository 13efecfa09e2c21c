-------------------------- MODULE MCFacadeHandle --------------------------
(* A handle with two logical batches: one of three frames, one of them a   *)
(* replacement delete, and one that is rejected in its second frame.       *)
EXTENDS FacadeHandle, TLC

CONSTANTS b1, b2, s1, s2

Good(op, size) == [op |-> op, size |-> size, fault |-> "none"]
Bad(op) == [op |-> op, size |-> 1, fault |-> "content"]

PlanTwo ==
    (b1 :> [delete |-> TRUE,
            records |-> <<Good("upsert", 2), Bad("upsert"), Good("delete", 1)>>])
    @@ (b2 :> [delete |-> FALSE,
               records |-> <<Good("upsert", 2), Good("upsert", 1), Bad("upsert")>>])
SettingsOn == {[histograms |-> TRUE, bytes |-> TRUE]}
SettingsBoth == SettingsOn \cup {[histograms |-> FALSE, bytes |-> FALSE]}
Sizes == (s1 :> 1) @@ (s2 :> 2)
=============================================================================
