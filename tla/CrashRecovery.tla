--------------------------- MODULE CrashRecovery ---------------------------
(***************************************************************************)
(* Commands on one task, the crashes that interrupt them, and what the     *)
(* next command makes of it: every command first reconciles the persisted  *)
(* state with the repository (startupReconcile), then "run" reconciles the *)
(* task once more and executes it, with its workflow or with one agent,    *)
(* "retry" returns it to READY and "status" only reports.  Recovery reads  *)
(* Git and the store first and writes the state it concluded afterwards,   *)
(* one await per action.                                                   *)
(***************************************************************************)
EXTENDS SingleTaskOrchestrator

CONSTANTS Executors,        \* the executors a "run" command may use
          MaxAttempts,      \* the task's limits.max_attempts
          MaxUserCommits,   \* bound on the commits others make
          MaxCrashes        \* bound on the crashes

ASSUME CrashRecoveryAssumption ==
    /\ Executors \subseteq {"workflow", "single"} /\ Executors # {}
    /\ MaxAttempts \in Nat \ {0}
    /\ MaxUserCommits \in Nat
    /\ MaxCrashes \in Nat

VARIABLES userCommits, crashes

bounds == <<userCommits, crashes>>
vars == <<executionVars, bounds>>

Init ==
    /\ ExecutionInit
    /\ userCommits = 0
    /\ crashes = 0

-----------------------------------------------------------------------------
(* The surroundings *)

Commands == {"status", "run", "retry"}

Command(p, command) ==
    /\ At(p, "idle")
    /\ proc' = [proc EXCEPT ![p] = [Idle EXCEPT !.pc = "recover", !.phase = command]]
    /\ UNCHANGED <<storeVars, gitVars, agents, bounds>>

Crash(p) ==
    /\ proc[p].pc # "idle"
    /\ crashes < MaxCrashes
    /\ crashes' = crashes + 1
    /\ proc' = [proc EXCEPT ![p] = Idle]
    /\ UNCHANGED <<storeVars, gitVars, agents, userCommits>>

UserCommits ==
    /\ userCommits < MaxUserCommits
    /\ userCommits' = userCommits + 1
    /\ head' = Append(head, USER)
    /\ UNCHANGED <<storeVars, branch, worktree, agents, proc, crashes>>

-----------------------------------------------------------------------------
(* reconcileTask *)

\* Where the executors begin.
Begun(executor) == IF executor = "single" THEN [Idle EXCEPT !.pc = "begin", !.phase = "single"]
                                          ELSE [Idle EXCEPT !.pc = "execute", !.phase = "execute"]

\* The outcome is a no-op or safe-to-retry: "run" goes on to the execution.
ReturnRunnable(p) ==
    IF proc[p].phase = "target"
    THEN \E executor \in Executors : proc' = [proc EXCEPT ![p] = Begun(executor)]
    ELSE Return(p)

Recover(p, pc, n) ==
    proc' = [proc EXCEPT ![p].pc = pc, ![p].attempt = n, ![p].status = taskStatus]

\* Mutant: the review stage was added to the workflow but not to recovery.
AgentStageStatusesOfOld == {"PLANNING", "PLAN_REVIEW", "IMPLEMENTING"}

AgentStageStatuses == {"PLANNING", "PLAN_REVIEW", "IMPLEMENTING", "CODE_REVIEW"}

\* The task and its last attempt are read; without evidence of a commit a
\* failed task is left alone and an INTEGRATING one needs a human.
ReconcileTask(p) ==
    LET n == Len(attempts)
        running == n > 0 /\ attempts[n].status = "RUNNING"
        committed == n > 0 /\ log[n].commit # NONE IN
    /\ At(p, "recover")
    /\ \/ /\ taskStatus \in AgentStageStatuses \cup {"VERIFYING"} /\ running
          /\ Recover(p, "inspect", n)
       \/ /\ taskStatus = "INTEGRATING" /\ running
          /\ Recover(p, IF committed THEN "head" ELSE "human", n)
       \/ taskStatus \in ActiveStatuses /\ ~running /\ Recover(p, "human", n)
       \/ taskStatus = "FAILED" /\ ~running /\ committed /\ Recover(p, "head", n)
       \/ taskStatus = "FAILED" /\ (running \/ ~committed) /\ ReturnRunnable(p)
       \/ /\ taskStatus \notin AgentStageStatuses \cup {"VERIFYING", "INTEGRATING", "FAILED"}
          /\ ReturnRunnable(p)
    /\ UNCHANGED <<storeVars, gitVars, agents, bounds>>

\* inspectTaskWorktree: first existence and HEAD, then the status.
InspectHead(p) ==
    /\ At(p, "inspect")
    /\ \/ /\ worktree[Own(p)] = "absent"
          /\ Goto(p, IF proc[p].status = "VERIFYING" THEN "human" ELSE "reset")
       \/ /\ worktree[Own(p)] # "absent"
          /\ Goto(p, IF branch[Own(p)] = attempts[Own(p)].base THEN "classify" ELSE "human")
       \/ Goto(p, "human")
    /\ UNCHANGED <<storeVars, gitVars, agents, bounds>>

\* Mutant: a VERIFYING task's recorded verdict is not consulted.
ClassifiedByStatus(n, status) ==
    IF status = "VERIFYING" THEN "recommit" ELSE IF Dirty(n) THEN "preserve" ELSE "reset"

\* Where a worktree at the base revision sends the task.
Classified(n, status) ==
    IF status # "VERIFYING" THEN IF Dirty(n) THEN "preserve" ELSE "reset"
    ELSE CASE log[n].verification = NONE -> "reverify"
           [] log[n].verification = "PASSED" -> "recommit"
           [] OTHER -> "giveUp"

Classify(p) ==
    /\ At(p, "classify")
    /\ proc' = [proc EXCEPT ![p].pc = Classified(Own(p), proc[p].status),
                            ![p].failure = FailureOf(log[Own(p)].verification)]
    /\ UNCHANGED <<storeVars, gitVars, agents, bounds>>

GiveUp(p, kind) == proc' = [proc EXCEPT ![p].pc = "giveUp", ![p].failure = kind]

\* The checks were interrupted: they run again in the worktree.
Reverify(p) ==
    /\ At(p, "reverify")
    /\ \/ \E v \in Verdicts : proc' = [proc EXCEPT ![p].pc = "reverified", ![p].verdict = v]
       \/ GiveUp(p, "error")
    /\ UNCHANGED <<storeVars, gitVars, agents, bounds>>

RecordReverification(p) ==
    /\ At(p, "reverified")
    /\ log' = [log EXCEPT ![Own(p)].verification = proc[p].verdict]
    /\ IF proc[p].verdict = "PASSED" THEN Goto(p, "recommit")
                                     ELSE GiveUp(p, FailureOf(proc[p].verdict))
    /\ UNCHANGED <<taskStatus, attempts, gitVars, agents, bounds>>

\* completeIntegrationFromVerification
Recommit(p) ==
    /\ At(p, "recommit")
    /\ \/ /\ CommitStaged(Own(p))
          /\ proc' = [proc EXCEPT ![p].pc = "reintegrating", ![p].revision = branch'[Own(p)]]
       \/ GiveUp(p, "error") /\ UNCHANGED <<branch, worktree>>
    /\ UNCHANGED <<storeVars, head, agents, bounds>>

ReenterIntegrating(p) ==
    /\ At(p, "reintegrating")
    /\ BeginIntegrating(Own(p), proc[p].revision)
    /\ proc' = [proc EXCEPT ![p].pc = "head", ![p].status = "INTEGRATING"]
    /\ UNCHANGED <<attempts, gitVars, agents, bounds>>

-----------------------------------------------------------------------------
(* reconcileIntegration and reconcileFailedTask *)

ResolveHead(p) ==
    /\ At(p, "head")
    /\ proc' = [proc EXCEPT ![p].pc = "ancestry", ![p].revision = head]
    /\ UNCHANGED <<storeVars, gitVars, agents, bounds>>

\* Git cannot be read: a failed task stays FAILED, another needs a human.
CannotRead(p) ==
    /\ proc[p].pc \in {"head", "ancestry"}
    /\ IF proc[p].status = "FAILED" THEN ReturnRunnable(p) ELSE Goto(p, "human")
    /\ UNCHANGED <<storeVars, gitVars, agents, bounds>>

\* The verdict recorded for the integrated commit itself, if there is one.
RecordedFinalVerdict(n) ==
    IF log[n].final.revision = log[n].commit THEN log[n].final.status ELSE NONE

\* Mutant: an integrated commit is enough, whatever the verdict on it.
CompareAncestryOnly(p) ==
    LET n == Own(p)
        commit == log[n].commit
        integrated == IsPrefix(commit, proc[p].revision) IN
    /\ At(p, "ancestry")
    /\ \/ integrated /\ Goto(p, "conclude")
       \/ ~integrated /\ proc[p].status = "FAILED" /\ ReturnRunnable(p)
       \/ ~integrated /\ proc[p].status # "FAILED" /\ Goto(p, "human")
    /\ UNCHANGED <<storeVars, gitVars, agents, bounds>>

\* Mutant: a task whose integrated commit failed verification is retried.
CompareAncestryAndRetry(p) ==
    LET n == Own(p)
        integrated == IsPrefix(log[n].commit, proc[p].revision)
        refuted == RecordedFinalVerdict(n) \notin {NONE, "PASSED"} IN
    /\ At(p, "ancestry")
    /\ \/ integrated /\ ~refuted /\ Goto(p, "conclude")
       \/ proc[p].status = "FAILED" /\ (~integrated \/ refuted) /\ ReturnRunnable(p)
       \/ proc[p].status # "FAILED" /\ (~integrated \/ refuted) /\ Goto(p, "reset")
    /\ UNCHANGED <<storeVars, gitVars, agents, bounds>>

\* What the commit's place in the history of HEAD, and the evidence, tell.
CompareAncestry(p) ==
    LET n == Own(p)
        seen == proc[p].revision
        commit == log[n].commit
        integrated == IsPrefix(commit, seen)
        refuted == RecordedFinalVerdict(n) \notin {NONE, "PASSED"} IN
    /\ At(p, "ancestry")
    /\ \/ integrated /\ ~refuted /\ Goto(p, "conclude")
       \/ integrated /\ refuted /\ proc[p].status = "FAILED" /\ ReturnRunnable(p)
       \/ /\ integrated /\ refuted /\ proc[p].status # "FAILED"
          /\ GiveUp(p, FailureOf(RecordedFinalVerdict(n)))
       \/ ~integrated /\ proc[p].status = "FAILED" /\ ReturnRunnable(p)
       \/ /\ ~integrated /\ proc[p].status # "FAILED"
          /\ Goto(p, IF branch[n] = commit /\ IsPrefix(seen, commit) THEN "reintegrate"
                                                                   ELSE "human")
    /\ UNCHANGED <<storeVars, gitVars, agents, bounds>>

\* From here to the end of finishIntegrated recovery is inside one try.
Reintegrate(p) ==
    /\ At(p, "reintegrate")
    /\ \/ /\ IntegrateBranch(Own(p))
          /\ proc' = [proc EXCEPT ![p].pc = "conclude", ![p].merged = TRUE]
       \/ GiveUp(p, "error") /\ UNCHANGED head
    /\ UNCHANGED <<storeVars, branch, worktree, agents, bounds>>

\* Its catch calls finishFailed whatever has thrown: the merge, the
\* transaction of finishIntegrated, which is rolled back, or, with the task
\* DONE and its worktree perhaps removed, what finishIntegrated does next.
ReintegrationCaught(p) ==
    /\ proc[p].merged
    /\ proc[p].pc \in {"conclude", "cleanup", "remove"}
    /\ GiveUp(p, "error")
    /\ \/ UNCHANGED worktree
       \/ At(p, "remove") /\ RemoveWorktree(Own(p))
    /\ UNCHANGED <<storeVars, head, branch, agents, bounds>>

-----------------------------------------------------------------------------
(* The outcomes: one transaction each, then the cleanup *)

\* Mutant: the integration event is added again although it is on record.
FinishIntegratedAgain(p) ==
    /\ At(p, "conclude")
    /\ taskStatus' = "DONE"
    /\ WithStatus(Own(p), "SUCCEEDED")
    /\ log' = [log EXCEPT ![Own(p)].integrations = @ + 1]
    /\ Goto(p, "cleanup")
    /\ UNCHANGED <<gitVars, agents, bounds>>

\* finishIntegrated adds the integration event only when there is none.
FinishIntegrated(p) ==
    /\ At(p, "conclude")
    /\ taskStatus' = "DONE"
    /\ WithStatus(Own(p), "SUCCEEDED")
    /\ log' = [log EXCEPT ![Own(p)].integrations = IF @ = 0 THEN 1 ELSE @]
    /\ Goto(p, "cleanup")
    /\ UNCHANGED <<gitVars, agents, bounds>>

\* The status is asserted against the one recovery read at the beginning.
FinishFailed(p) ==
    /\ At(p, "giveUp")
    /\ taskStatus' = TaskStatusOf(proc[p].failure)
    /\ WithStatus(Own(p), AttemptStatusOf(proc[p].failure))
    /\ proc' = [proc EXCEPT ![p].pc = "cleanup", ![p].merged = FALSE]
    /\ UNCHANGED <<log, gitVars, agents, bounds>>

\* Mutant: the attempt is finished in a transaction of its own.
ResetForRetryInTwoSteps(p) ==
    /\ At(p, "reset")
    /\ \/ /\ attempts[Own(p)].status = "RUNNING"
          /\ WithStatus(Own(p), "FAILED")
          /\ UNCHANGED <<taskStatus, proc>>
       \/ /\ attempts[Own(p)].status # "RUNNING"
          /\ taskStatus' = "READY"
          /\ Goto(p, "abandon")
          /\ UNCHANGED attempts
    /\ UNCHANGED <<log, gitVars, agents, bounds>>

\* safe-to-retry; by way of BLOCKED, in one transaction.
ResetForRetry(p) ==
    /\ At(p, "reset")
    /\ taskStatus' = "READY"
    /\ WithStatus(Own(p), "FAILED")
    /\ Goto(p, "abandon")
    /\ UNCHANGED <<log, gitVars, agents, bounds>>

RemoveAbandoned(p) ==
    /\ At(p, "abandon")
    /\ RemoveWorktree(Own(p))
    /\ ReturnRunnable(p)
    /\ UNCHANGED <<storeVars, head, branch, agents, bounds>>

RequiresReconciliation(p) ==
    /\ At(p, "preserve")
    /\ taskStatus' = "BLOCKED"
    /\ WithStatus(Own(p), "FAILED")
    /\ Return(p)
    /\ UNCHANGED <<log, gitVars, agents, bounds>>

RequiresHuman(p) ==
    /\ At(p, "human")
    /\ taskStatus' = "NEEDS_HUMAN"
    /\ IF Own(p) = 0 THEN UNCHANGED attempts ELSE WithStatus(Own(p), "FAILED")
    /\ Return(p)
    /\ UNCHANGED <<log, gitVars, agents, bounds>>

-----------------------------------------------------------------------------
(* The rest of the startup, and the command itself *)

Proceed(p) ==
    proc' = [proc EXCEPT ![p] =
               CASE @.phase = "run"   -> [Idle EXCEPT !.pc = "recover", !.phase = "target"]
                 [] @.phase = "retry" -> [Idle EXCEPT !.pc = "retry", !.phase = "retry"]
                 [] OTHER -> Idle]

\* reconcileTerminalWorktrees: the last attempt of a finished task.
SweepWorktree(p) ==
    LET n == Len(attempts) IN
    /\ At(p, "sweep")
    /\ \/ /\ taskStatus \in TerminalStatuses /\ n > 0 /\ worktree[n] = "clean"
          /\ proc' = [proc EXCEPT ![p].pc = "sweepRemove", ![p].attempt = n]
       \/ /\ ~(taskStatus \in TerminalStatuses /\ n > 0 /\ worktree[n] = "clean")
          /\ Proceed(p)
    /\ UNCHANGED <<storeVars, gitVars, agents, bounds>>

RemoveSwept(p) ==
    /\ At(p, "sweepRemove")
    /\ RemoveWorktree(Own(p))
    /\ Proceed(p)
    /\ UNCHANGED <<storeVars, head, branch, agents, bounds>>

\* Mutant: any finished task can be retried.
RetryTerminal(p) ==
    /\ At(p, "retry")
    /\ taskStatus' = IF taskStatus \in TerminalStatuses /\ Len(attempts) < MaxAttempts
                     THEN "READY" ELSE taskStatus
    /\ proc' = [proc EXCEPT ![p] = Idle]
    /\ UNCHANGED <<attempts, log, gitVars, agents, bounds>>

\* retry: a compare-and-swap on the status, within the attempt budget.
Retry(p) ==
    /\ At(p, "retry")
    /\ taskStatus' = IF taskStatus \in RetryableStatuses /\ Len(attempts) < MaxAttempts
                     THEN "READY" ELSE taskStatus
    /\ proc' = [proc EXCEPT ![p] = Idle]
    /\ UNCHANGED <<attempts, log, gitVars, agents, bounds>>

-----------------------------------------------------------------------------
RecoveryStep(p) ==
    \/ ReconcileTask(p) \/ InspectHead(p) \/ Classify(p) \/ Reverify(p)
    \/ RecordReverification(p) \/ Recommit(p) \/ ReenterIntegrating(p)
    \/ ResolveHead(p) \/ CompareAncestry(p) \/ Reintegrate(p)
    \/ FinishIntegrated(p) \/ FinishFailed(p) \/ ResetForRetry(p)
    \/ RemoveAbandoned(p) \/ RequiresReconciliation(p) \/ RequiresHuman(p)
    \/ SweepWorktree(p) \/ RemoveSwept(p) \/ Retry(p)

\* What a process does of itself.
Step(p) ==
    \/ RecoveryStep(p)
    \/ ~Single(p) /\ ExecutorStep(p) /\ UNCHANGED bounds
    \/ SingleTaskStep(p) /\ UNCHANGED bounds

Next ==
    \/ \E p \in Processes :
          \/ Step(p) \/ Crash(p) \/ CannotRead(p) \/ ReintegrationCaught(p)
          \/ Throws(p) /\ UNCHANGED bounds
          \/ \E command \in Commands : Command(p, command)
    \/ \E n \in Numbers : AgentStep(n) /\ UNCHANGED bounds
    \/ UserCommits

Spec == Init /\ [][Next]_vars

\* Steps that are started end, and somebody keeps running commands.  Agents run
\* under a timeout; checks and Git do not, that they end is assumed.
Fairness ==
    \A p \in Processes :
       /\ WF_vars(Step(p))
       /\ WF_vars(\E command \in Commands : Command(p, command))

FairSpec == Spec /\ Fairness

-----------------------------------------------------------------------------
(* Properties *)

Latest == Len(attempts)

\* However often the runner crashed, a DONE task has a last attempt that
\* succeeded, whose verified commit is on the integration branch and whose
\* integration is recorded exactly once.
DoneIsEarned ==
    taskStatus = "DONE" =>
       /\ attempts[Latest].status = "SUCCEEDED"
       /\ log[Latest].verification = "PASSED"
       /\ IsPrefix(log[Latest].commit, head)
       /\ log[Latest].integrations = 1

\* A recorded verdict against the integrated commit is never overruled: not by
\* the executor, not by a recovery that finds the commit integrated.
RefutedIsNotDone ==
    taskStatus = "DONE" => RecordedFinalVerdict(Latest) \in {NONE, "PASSED"}

\* A task that is under way has a running last attempt, at every point where a
\* crash can strike: what recovery calls inconsistent does not come about.
ActiveTaskHasRunningAttempt ==
    taskStatus \in ActiveStatuses => Latest > 0 /\ attempts[Latest].status = "RUNNING"

\* The runner puts an attempt on the integration branch only when the last
\* recorded verdict on its worktree is PASSED.
OnlyVerifiedWorkIsIntegrated ==
    [][\A n \in Numbers : Contains(head', n) /\ ~Contains(head, n) =>
          log[n].verification = "PASSED"]_vars

\* Uncommitted work of an agent leaves its worktree only by being committed,
\* also when an orphaned agent writes between recovery's look and its removal.
WorkIsNeverDiscarded ==
    [][\A n \in Numbers : Dirty(n) /\ worktree'[n] \in {"clean", "absent"} =>
          worktree'[n] = "clean" /\ Len(branch'[n]) > Len(branch[n])]_vars

\* Recovery has merged the attempt and made the task DONE, an error follows, and
\* its catch is about to write FAILED.
TakenForFailed(p) == At(p, "giveUp") /\ proc[p].merged /\ taskStatus = "DONE"

\* Every change of the persisted status is one the state machine allows to
\* the executor, to recovery or to an explicit retry; safe-to-retry passes
\* through BLOCKED in one transaction.  The one exception is a recovery that
\* merged the work itself and whose error came after its own DONE.
TransitionsAreLegal ==
    [][taskStatus' # taskStatus =>
          \/ CanReconcile(taskStatus, taskStatus')
          \/ CanTransition(taskStatus, "BLOCKED") /\ taskStatus' = "READY"
          \/ (\E p \in Processes : TakenForFailed(p)) /\ taskStatus' = "FAILED"]_vars

\* Recovery never starts over an attempt that is already integrated: "no
\* duplicate integration" (VERTICAL_SLICE_PLAN, VS013).
IntegratedWorkIsNotRetried ==
    [][(taskStatus \in ActiveStatuses /\ taskStatus' = "READY") => ~Contains(head, Latest)]_vars

\* Interrupted work is classified in the end: no crash leaves the task in a
\* working status for ever.
InterruptedWorkIsClassified ==
    taskStatus \in ActiveStatuses ~> taskStatus \notin ActiveStatuses

\* "Verification evidence determines completion" (ARCHITECTURE, invariant 4):
\* a DONE task has a passing integration verification on record.
CompletionRestsOnEvidence ==
    taskStatus = "DONE" => log[Latest].final.status = "PASSED"
=============================================================================
