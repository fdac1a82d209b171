------------------------- MODULE StrategyLifecycle -------------------------
(***************************************************************************)
(* What StrategyManager promises of a strategy: it is created, may be      *)
(* stopped, and is archived once and for all.                              *)
(***************************************************************************)
CONSTANT Ids

VARIABLE status

Init == status = [s \in Ids |-> "none"]

Become(s, v) == status' = [status EXCEPT ![s] = v]

Create(s) == status[s] = "none" /\ Become(s, "active")
Stop(s) == status[s] = "active" /\ Become(s, "stopped")
Archive(s) == status[s] \in {"active", "stopped"} /\ Become(s, "archived")

Next == \E s \in Ids : Create(s) \/ Stop(s) \/ Archive(s)

Spec == Init /\ [][Next]_status
=============================================================================
