-------------------------- MODULE MCAttemptStages --------------------------
(* Instances of AttemptStages for TLC. *)
EXTENDS AttemptStages

CONSTANTS tracked, loose, nested

MCTracked == {tracked}
MCLoose == {loose}
MCNested == {nested}
MCInScope == {tracked, loose}

AllStages == {"PLAN", "PLAN_REVIEW", "CODE_REVIEW"}
MCWorkflows == {{}, {"PLAN", "CODE_REVIEW"}, AllStages}
AllFiles == {tracked, loose, nested}
ReviewedWorkflow == {{"CODE_REVIEW"}}
=============================================================================
