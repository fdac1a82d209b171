-------------------------- MODULE PocketLifecycle --------------------------
(***************************************************************************)
(* What PocketManager promises of a pocket (docs/project.md, "Pocket       *)
(* Lifecycle"): ACTIVE, then CLOSING, then CLOSED, and never back.  A sale *)
(* made by hand may close an active pocket at once, or split off a part    *)
(* that is closed from the start; a sale of everything archives what was   *)
(* open.                                                                   *)
(***************************************************************************)
CONSTANT PocketIds

VARIABLE status

Init == status = [p \in PocketIds |-> "none"]

Become(p, s) == status' = [status EXCEPT ![p] = s]

Open(p) == status[p] = "none" /\ Become(p, "active")
SplitOff(p) == status[p] = "none" /\ Become(p, "closed")
Close(p) == status[p] = "active" /\ Become(p, "closing")
Finish(p) == status[p] \in {"active", "closing"} /\ Become(p, "closed")
Archive(p) == status[p] \in {"active", "closing"} /\ Become(p, "archived")

Next == \E p \in PocketIds : Open(p) \/ SplitOff(p) \/ Close(p) \/ Finish(p) \/ Archive(p)

Spec == Init /\ [][Next]_status
=============================================================================
