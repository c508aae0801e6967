----------------------------- MODULE CycleGate -----------------------------
(***************************************************************************)
(* What the scan cycle promises its user: full scans take turns.  A cycle  *)
(* begins only when the last one has been approved, it scans every domain, *)
(* then looks for duplicates, then waits for the user's approval.          *)
(***************************************************************************)
VARIABLE phase

Init == phase = "idle"

Begin == phase \in {"idle", "complete"} /\ phase' = "scanning"
AllScanned == phase = "scanning" /\ phase' = "dedup_running"
Deduplicated == phase = "dedup_running" /\ phase' = "review_pending"
Approve == phase = "review_pending" /\ phase' = "complete"

Next == Begin \/ AllScanned \/ Deduplicated \/ Approve

Spec == Init /\ [][Next]_phase
=============================================================================
