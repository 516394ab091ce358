---------------------------- MODULE MCClaimStore ----------------------------
(* Two tasks that share one resource and two that need none, three         *)
(* executions for two slots, two recovering processes, a clock that passes  *)
(* two leases.                                                             *)
EXTENDS ClaimStore, TLC

CONSTANTS t1, t2, t3, t4, e1, e2, e3, o1, o2, r1

MCTasks == {t1, t2, t3, t4}
MCExecutions == {e1, e2, e3}
MCOwners == {o1, o2}
MCResources == {r1}
MCNeeds == t1 :> {r1} @@ t2 :> {r1} @@ t3 :> {} @@ t4 :> {}
MCVerdicts == {"COMPLETED", "FAILED"}
MCWrittenStatuses == {"READY", "IMPLEMENTING"}

Symmetry == Permutations(MCExecutions) \cup Permutations(MCOwners)
            \cup Permutations({t1, t2}) \cup Permutations({t3, t4})
=============================================================================
