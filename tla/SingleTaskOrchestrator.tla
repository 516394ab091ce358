----------------------- MODULE SingleTaskOrchestrator -----------------------
(***************************************************************************)
(* The executor of an application wired with one agent (createAppServices) *)
(* instead of a routed workflow: one IMPLEMENTING stage, no reviews, and   *)
(* the task is DONE as soon as its commit is integrated.  It shares the    *)
(* store and the repository with the workflow executor, and recovery with  *)
(* it too.  Its awaits are those of TaskExecution; the steps that differ   *)
(* are below, on a process whose phase is "single".                        *)
(***************************************************************************)
EXTENDS TaskExecution

Single(p) == proc[p].phase = "single"

\* run: the task must be READY; the number of its attempts is read.
ExecuteSingle(p) ==
    /\ Single(p) /\ At(p, "begin")
    /\ IF taskStatus = "READY" /\ Len(attempts) < AttemptBound
       THEN proc' = [proc EXCEPT ![p].pc = "attempt", ![p].attempt = Len(attempts) + 1,
                                 ![p].revision = head]
       ELSE Return(p)
    /\ UNCHANGED <<storeVars, gitVars, agents>>

\* putAttempt with its event, or the command is rejected.
CreateSingleAttempt(p) ==
    /\ Single(p) /\ At(p, "attempt")
    /\ \/ /\ PutAttempt(Own(p), [status |-> "RUNNING", base |-> proc[p].revision])
          /\ Enter(p, "IMPLEMENTING", 1)
       \/ Return(p) /\ UNCHANGED attempts
    /\ UNCHANGED <<taskStatus, log, gitVars, agents>>

\* transitionTask to IMPLEMENTING, and the attempt's branch and worktree.
EnterImplementing(p) ==
    /\ Single(p) /\ EnterStage(p)

PrepareWorktree(p) ==
    /\ Single(p)
    /\ CreateBranch(p) \/ CreateWorktree(p)

\* The row is put again with the context manifest before the agent runs.
InvokeSingleAgent(p) ==
    /\ Single(p) /\ At(p, "stage")
    /\ WithStatus(Own(p), "RUNNING")
    /\ agents' = agents \cup {Own(p)}
    /\ Goto(p, "agent")
    /\ UNCHANGED <<taskStatus, log, gitVars>>

\* The row is put once more with the agent's output.
SingleAgentReturns(p) ==
    /\ Single(p) /\ At(p, "agent")
    /\ agents' = agents \ {Own(p)}
    /\ WithStatus(Own(p), "RUNNING")
    /\ \/ Goto(p, "stageAll")
       \/ \E kind \in {"error", "timeout", "cancelled"} : Fail(p, kind)
    /\ UNCHANGED <<taskStatus, log, gitVars>>

\* The change is staged, in scope, verified and committed.
VerifyAndCommit(p) ==
    /\ Single(p)
    /\ \/ StageAll(p) \/ EnterVerifying(p) \/ RunVerification(p)
       \/ RecordVerification(p) \/ Commit(p)

\* No check is run on the integrated revision.
IntegrateSingle(p) ==
    /\ Single(p)
    /\ \/ EnterIntegrating(p)
       \/ Integrate(p)
       \/ /\ At(p, "integrated")
          /\ log' = [log EXCEPT ![Own(p)].integrations = @ + 1]
          /\ Goto(p, "done")
          /\ UNCHANGED <<taskStatus, attempts, gitVars, agents>>

CompleteSingle(p) == Single(p) /\ Finish(p)

FailSingle(p) == Single(p) /\ FailExecution(p)

CleanUpSingle(p) == Single(p) /\ (InspectForCleanup(p) \/ RemoveClean(p))

SingleTaskStep(p) ==
    \/ ExecuteSingle(p) \/ CreateSingleAttempt(p) \/ EnterImplementing(p) \/ PrepareWorktree(p)
    \/ InvokeSingleAgent(p) \/ SingleAgentReturns(p) \/ VerifyAndCommit(p)
    \/ IntegrateSingle(p) \/ CompleteSingle(p) \/ FailSingle(p) \/ CleanUpSingle(p)
=============================================================================
