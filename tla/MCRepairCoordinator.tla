------------------------- MODULE MCRepairCoordinator -------------------------
(* Instances of RepairCoordinator for TLC: a packaged revision and two       *)
(* candidates.                                                               *)
EXTENDS RepairCoordinator, TLC

CONSTANTS v1, r1, r2

MCRevisions == {v1, r1, r2}
=============================================================================
