-------------------------- MODULE MCCrashRecovery --------------------------
(* Instances of CrashRecovery; the sizes are in the configurations.         *)
EXTENDS CrashRecovery

CONSTANTS p1, p2

OneProcess == {p1}
TwoProcesses == {p1, p2}
WorkflowOnly == {"workflow"}
BothExecutors == {"workflow", "single"}
=============================================================================
