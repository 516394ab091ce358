--------------------------- MODULE TaskLifecycle ---------------------------
(***************************************************************************)
(* The canonical task lifecycle: the statuses a task row can hold, the     *)
(* transitions the workflow executor may make, and the additional ones     *)
(* that only crash recovery may make.  Constant-level: the state machines  *)
(* of the other modules are stated over these sets.                        *)
(***************************************************************************)

TaskStatuses ==
    {"BACKLOG", "READY", "PLANNING", "PLAN_REVIEW", "IMPLEMENTING",
     "CODE_REVIEW", "VERIFYING", "INTEGRATING", "DONE", "BLOCKED",
     "NEEDS_HUMAN", "FAILED", "CANCELLED"}

\* The statuses of a task that an executor is working on; each consumes one
\* slot of the parallelism capacity.
ActiveStatuses ==
    {"PLANNING", "PLAN_REVIEW", "IMPLEMENTING", "CODE_REVIEW", "VERIFYING",
     "INTEGRATING"}

\* What claim recovery regards as the end of a task.
TerminalStatuses == {"DONE", "FAILED", "CANCELLED"}

\* What an explicit retry may return to READY.
RetryableStatuses == {"BLOCKED", "NEEDS_HUMAN", "FAILED"}

\* Where every working status may escalate to.
Escalations == {"BLOCKED", "FAILED", "CANCELLED"}

TaskStatusTransitions(from) ==
    CASE from = "READY"        -> {"PLANNING", "IMPLEMENTING"} \cup Escalations
      [] from = "PLANNING"     -> {"PLAN_REVIEW", "IMPLEMENTING"} \cup Escalations
      [] from = "PLAN_REVIEW"  -> {"PLANNING", "IMPLEMENTING"} \cup Escalations
      [] from = "IMPLEMENTING" -> {"CODE_REVIEW", "VERIFYING"} \cup Escalations
      [] from = "CODE_REVIEW"  -> {"IMPLEMENTING", "VERIFYING"} \cup Escalations
      [] from = "VERIFYING"    -> {"INTEGRATING"} \cup Escalations
      [] from = "INTEGRATING"  -> {"DONE"} \cup Escalations
      [] from \in RetryableStatuses -> {"READY"}
      [] OTHER -> {}

RecoveryStatusTransitions(from) ==
    CASE from \in ActiveStatuses -> {"NEEDS_HUMAN"}
      [] from = "FAILED" -> {"DONE"}
      [] OTHER -> {}

CanTransition(from, to) == to \in TaskStatusTransitions(from)

CanReconcile(from, to) ==
    CanTransition(from, to) \/ to \in RecoveryStatusTransitions(from)
=============================================================================
