--------------------------- MODULE TaskExecution ---------------------------
(***************************************************************************)
(* The execution of one task by the workflow executor, in immediate        *)
(* integration mode ("agentic run <task>"): an attempt is created, agents  *)
(* work through the stages in the attempt's worktree, the change is        *)
(* verified, committed, integrated and verified again.  One action per     *)
(* await whose outcome others can see.  A crash loses `proc` and nothing   *)
(* else; the agent it had started may live on.                             *)
(*                                                                         *)
(* A revision is its history, the sequence of commits since the first one, *)
(* so ancestry is IsPrefix.  The commit of attempt n is n itself.          *)
(***************************************************************************)
EXTENDS TaskLifecycle, Integers, SequencesExt

CONSTANTS Processes,
          NONE,
          USER,             \* a commit of the user's own
          AGENT,            \* a commit an agent makes against its instructions
          HasPlan, HasPlanReview, HasCodeReview,    \* the workflow's stages
          MaxReviewCycles,
          AttemptBound      \* bound on the attempts of a behaviour

VARIABLES taskStatus,
          attempts,    \* rows of the attempts table, in order of their number
          log,         \* per attempt, what its events say
          head,        \* tip of the integration branch
          branch,      \* tip of each attempt's branch
          worktree,    \* state of each attempt's worktree
          agents,      \* attempts in whose worktree an agent process runs
          proc         \* volatile state of each runner process

storeVars == <<taskStatus, attempts, log>>
gitVars == <<head, branch, worktree>>
executionVars == <<taskStatus, attempts, log, head, branch, worktree, agents, proc>>

Numbers == 1..AttemptBound
Verdicts == {"PASSED", "FAILED", "CANCELLED"}
Revisions == Seq(Numbers \cup {USER, AGENT})

ASSUME TaskExecutionAssumption ==
    /\ HasPlan \in BOOLEAN /\ HasPlanReview \in BOOLEAN /\ HasCodeReview \in BOOLEAN
    /\ HasPlanReview => HasPlan
    /\ MaxReviewCycles \in Nat \ {0}
    /\ AttemptBound \in Nat \ {0}
    /\ USER \notin Numbers /\ AGENT \notin Numbers
    /\ NONE \notin Verdicts /\ NONE \notin Revisions

Idle == [pc |-> "idle", phase |-> NONE, attempt |-> 0, status |-> NONE, cycle |-> 1,
         created |-> FALSE, revision |-> NONE, verdict |-> NONE, failure |-> NONE,
         merged |-> FALSE]

NoEvents == [verification |-> NONE, commit |-> NONE, integrations |-> 0,
             final |-> [status |-> NONE, revision |-> NONE]]

ExecutionInit ==
    /\ taskStatus = "READY"
    /\ attempts = <<>>
    /\ log = [n \in Numbers |-> NoEvents]
    /\ head = <<>>
    /\ branch = [n \in Numbers |-> NONE]
    /\ worktree = [n \in Numbers |-> "absent"]
    /\ agents = {}
    /\ proc = [p \in Processes |-> Idle]

-----------------------------------------------------------------------------
(* Control *)

At(p, pc) == proc[p].pc = pc

Goto(p, pc) == proc' = [proc EXCEPT ![p].pc = pc]

Fail(p, kind) == proc' = [proc EXCEPT ![p].pc = "fail", ![p].failure = kind]

\* The transition to the lifecycle status of the stage comes next.
Enter(p, status, cycle) ==
    proc' = [proc EXCEPT ![p].pc = "enter", ![p].status = status, ![p].cycle = cycle]

\* A recovery at startup goes on with the worktrees; any other outcome ends
\* the command.
Return(p) ==
    proc' = [proc EXCEPT ![p] = IF @.phase \in {"execute", "single", "target"} THEN Idle
                                ELSE [Idle EXCEPT !.pc = "sweep", !.phase = proc[p].phase]]

Own(p) == proc[p].attempt

Dirty(n) == worktree[n] \in {"dirty", "staged"}

WithStatus(n, status) == attempts' = [attempts EXCEPT ![n].status = status]

-----------------------------------------------------------------------------
(* execute: the attempt and its worktree *)

FirstStage == IF HasPlan THEN "PLANNING" ELSE "IMPLEMENTING"

\* The task must be READY; the base revision and the next number are read.
Execute(p) ==
    /\ At(p, "execute")
    /\ \/ /\ taskStatus = "READY"
          /\ Len(attempts) < AttemptBound
          /\ proc' = [proc EXCEPT ![p] = [Idle EXCEPT !.pc = "create", !.phase = "execute",
                                            !.attempt = Len(attempts) + 1, !.revision = head]]
       \/ /\ taskStatus # "READY" \/ Len(attempts) = AttemptBound
          /\ proc' = [proc EXCEPT ![p] = Idle]
    /\ UNCHANGED <<storeVars, gitVars, agents>>

\* putAttempt is an upsert.
PutAttempt(n, row) ==
    attempts' = IF n \in DOMAIN attempts THEN [attempts EXCEPT ![n] = row]
                                         ELSE Append(attempts, row)

CreateAttempt(p) ==
    /\ At(p, "create")
    /\ \/ /\ PutAttempt(Own(p), [status |-> "RUNNING", base |-> proc[p].revision])
          /\ Enter(p, FirstStage, 1)
       \/ Return(p) /\ UNCHANGED attempts
    /\ UNCHANGED <<taskStatus, log, gitVars, agents>>

\* transitionTask, for the stages before VERIFYING.
EnterStage(p) ==
    /\ At(p, "enter")
    /\ taskStatus' = proc[p].status
    /\ Goto(p, IF proc[p].created THEN "stage" ELSE "branch")
    /\ UNCHANGED <<attempts, log, gitVars, agents>>

\* The branch starts at the HEAD of now, not at the recorded base revision.
CreateBranch(p) ==
    /\ At(p, "branch")
    /\ \/ /\ branch[Own(p)] = NONE
          /\ branch' = [branch EXCEPT ![Own(p)] = head]
          /\ Goto(p, "worktree")
       \/ Fail(p, "error") /\ UNCHANGED branch
    /\ UNCHANGED <<storeVars, head, worktree, agents>>

CreateWorktree(p) ==
    /\ At(p, "worktree")
    /\ \/ /\ worktree[Own(p)] = "absent"
          /\ worktree' = [worktree EXCEPT ![Own(p)] = "clean"]
          /\ proc' = [proc EXCEPT ![p].pc = "stage", ![p].created = TRUE]
       \/ Fail(p, "error") /\ UNCHANGED worktree
    /\ UNCHANGED <<storeVars, head, branch, agents>>

-----------------------------------------------------------------------------
(* The agent stages and the review/fix loops *)

InvokeAgent(p) ==
    /\ At(p, "stage")
    /\ agents' = agents \cup {Own(p)}
    /\ proc' = [proc EXCEPT ![p].pc = "agent", ![p].revision = branch[Own(p)]]
    /\ UNCHANGED <<storeVars, gitVars>>

\* PLAN and PLAN_REVIEW must leave the worktree as the attempt found it.
Untouched(n) == worktree[n] = "clean" /\ branch[n] = attempts[n].base

\* A code review must leave HEAD, and the status of the changes, as they were.
OnlyReviewed(p) == Dirty(Own(p)) /\ branch[Own(p)] = proc[p].revision

\* The reviewer approves, or sends the work back while cycles are left.
Verdict(p, approved, work) ==
    \/ approved
    \/ proc[p].cycle < MaxReviewCycles /\ Enter(p, work, proc[p].cycle + 1)
    \/ proc[p].cycle = MaxReviewCycles /\ Fail(p, "review_exhausted")

PlanSucceeds(p) ==
    /\ proc[p].status = "PLANNING"
    /\ Untouched(Own(p))
    /\ IF HasPlanReview THEN Enter(p, "PLAN_REVIEW", proc[p].cycle)
                        ELSE Enter(p, "IMPLEMENTING", 1)

PlanReviewSucceeds(p) ==
    /\ proc[p].status = "PLAN_REVIEW"
    /\ Untouched(Own(p))
    /\ Verdict(p, Enter(p, "IMPLEMENTING", 1), "PLANNING")

ImplementSucceeds(p) ==
    /\ proc[p].status = "IMPLEMENTING"
    /\ Dirty(Own(p))
    /\ IF HasCodeReview THEN Enter(p, "CODE_REVIEW", proc[p].cycle) ELSE Goto(p, "stageAll")

CodeReviewSucceeds(p) ==
    /\ proc[p].status = "CODE_REVIEW"
    /\ OnlyReviewed(p)
    /\ Verdict(p, Goto(p, "stageAll"), "IMPLEMENTING")

AgentReturns(p) ==
    /\ At(p, "agent")
    /\ agents' = agents \ {Own(p)}
    /\ \/ PlanSucceeds(p) \/ PlanReviewSucceeds(p) \/ ImplementSucceeds(p) \/ CodeReviewSucceeds(p)
       \/ \E kind \in {"error", "timeout", "cancelled"} : Fail(p, kind)
    /\ UNCHANGED <<storeVars, gitVars>>

\* An agent writes whenever it likes, also when the runner that started it
\* is gone.
AgentWrites(n) ==
    /\ n \in agents
    /\ worktree[n] = "clean"
    /\ worktree' = [worktree EXCEPT ![n] = "dirty"]
    /\ UNCHANGED <<storeVars, head, branch, agents, proc>>

AgentCommits(n) ==
    /\ n \in agents
    /\ worktree[n] = "dirty"
    /\ ~Contains(branch[n], AGENT)
    /\ worktree' = [worktree EXCEPT ![n] = "clean"]
    /\ branch' = [branch EXCEPT ![n] = Append(@, AGENT)]
    /\ UNCHANGED <<storeVars, head, agents, proc>>

\* The process of an agent whose runner crashed ends by itself.
OrphanExits(n) ==
    /\ n \in agents
    /\ \A p \in Processes : ~(At(p, "agent") /\ Own(p) = n)
    /\ agents' = agents \ {n}
    /\ UNCHANGED <<storeVars, gitVars, proc>>

-----------------------------------------------------------------------------
(* VERIFY *)

\* stageAll, then the checks that there is a change and that it is in scope.
StageAll(p) ==
    /\ At(p, "stageAll")
    /\ \/ /\ Dirty(Own(p))
          /\ worktree' = [worktree EXCEPT ![Own(p)] = "staged"]
          /\ Goto(p, "verifying") \/ Fail(p, "error")
       \/ Fail(p, "error") /\ UNCHANGED worktree
    /\ UNCHANGED <<storeVars, head, branch, agents>>

EnterVerifying(p) ==
    /\ At(p, "verifying")
    /\ taskStatus' = "VERIFYING"
    /\ Goto(p, "verify")
    /\ UNCHANGED <<attempts, log, gitVars, agents>>

\* The engine runs the checks, or throws.
RunVerification(p) ==
    /\ At(p, "verify")
    /\ \/ \E v \in Verdicts : proc' = [proc EXCEPT ![p].pc = "verified", ![p].verdict = v]
       \/ Fail(p, "error")
    /\ UNCHANGED <<storeVars, gitVars, agents>>

FailureOf(verdict) == IF verdict = "CANCELLED" THEN "cancelled" ELSE "verification_failed"

RecordVerification(p) ==
    /\ At(p, "verified")
    /\ log' = [log EXCEPT ![Own(p)].verification = proc[p].verdict]
    /\ IF proc[p].verdict = "PASSED" THEN Goto(p, "commit") ELSE Fail(p, FailureOf(proc[p].verdict))
    /\ UNCHANGED <<taskStatus, attempts, gitVars, agents>>

\* git commit of what stageAll has staged.
CommitStaged(n) ==
    /\ worktree[n] = "staged"
    /\ worktree' = [worktree EXCEPT ![n] = "clean"]
    /\ branch' = [branch EXCEPT ![n] = Append(@, n)]

Commit(p) ==
    /\ At(p, "commit")
    /\ \/ /\ CommitStaged(Own(p))
          /\ proc' = [proc EXCEPT ![p].pc = "integrating", ![p].revision = branch'[Own(p)]]
       \/ Fail(p, "error") /\ UNCHANGED <<branch, worktree>>
    /\ UNCHANGED <<storeVars, head, agents>>

-----------------------------------------------------------------------------
(* INTEGRATE *)

BeginIntegrating(n, revision) ==
    /\ taskStatus' = "INTEGRATING"
    /\ log' = [log EXCEPT ![n].commit = revision]

EnterIntegrating(p) ==
    /\ At(p, "integrating")
    /\ BeginIntegrating(Own(p), proc[p].revision)
    /\ Goto(p, "integrate")
    /\ UNCHANGED <<attempts, gitVars, agents>>

\* integrateBranch: git merge --ff-only into a clean checkout.
IntegrateBranch(n) ==
    \/ /\ IsPrefix(branch[n], head)
       /\ UNCHANGED head
    \/ /\ IsStrictPrefix(head, branch[n])
       /\ head' = branch[n]

Integrate(p) ==
    /\ At(p, "integrate")
    /\ \/ /\ IntegrateBranch(Own(p))
          /\ proc' = [proc EXCEPT ![p].pc = "integrated", ![p].revision = head']
       \/ Fail(p, "error") /\ UNCHANGED head
    /\ UNCHANGED <<storeVars, branch, worktree, agents>>

RecordIntegration(p) ==
    /\ At(p, "integrated")
    /\ log' = [log EXCEPT ![Own(p)].integrations = @ + 1]
    /\ Goto(p, "finalVerify")
    /\ UNCHANGED <<taskStatus, attempts, gitVars, agents>>

RunFinalVerification(p) ==
    /\ At(p, "finalVerify")
    /\ \/ \E v \in Verdicts :
             proc' = [proc EXCEPT ![p].pc = "finalVerified", ![p].verdict = v]
       \/ Fail(p, "verification_failed")
    /\ UNCHANGED <<storeVars, gitVars, agents>>

RecordFinalVerification(p) ==
    /\ At(p, "finalVerified")
    /\ log' = [log EXCEPT ![Own(p)].final = [status |-> proc[p].verdict,
                                             revision |-> proc[p].revision]]
    /\ IF proc[p].verdict = "PASSED" THEN Goto(p, "done") ELSE Fail(p, FailureOf(proc[p].verdict))
    /\ UNCHANGED <<taskStatus, attempts, gitVars, agents>>

Finish(p) ==
    /\ At(p, "done")
    /\ taskStatus' = "DONE"
    /\ WithStatus(Own(p), "SUCCEEDED")
    /\ Goto(p, "cleanup")
    /\ UNCHANGED <<log, gitVars, agents>>

-----------------------------------------------------------------------------
(* Failure and cleanup *)

TaskStatusOf(kind) ==
    CASE kind = "cancelled" -> "CANCELLED"
      [] kind = "review_exhausted" -> "BLOCKED"
      [] OTHER -> "FAILED"

AttemptStatusOf(kind) ==
    CASE kind = "cancelled" -> "CANCELLED"
      [] kind = "timeout" -> "TIMED_OUT"
      [] OTHER -> "FAILED"

\* failExecution writes what it decided, whatever the row says by now.
FailExecution(p) ==
    /\ At(p, "fail")
    /\ taskStatus' = TaskStatusOf(proc[p].failure)
    /\ WithStatus(Own(p), AttemptStatusOf(proc[p].failure))
    /\ IF proc[p].created THEN Goto(p, "cleanup") ELSE Return(p)
    /\ UNCHANGED <<log, gitVars, agents>>

\* Another await of the attempt may throw: the store, Git or the disk fail.
Throws(p) ==
    /\ proc[p].pc \in {"enter", "stage", "verifying", "verified", "integrating",
                       "integrated", "finalVerified", "done"}
    /\ Fail(p, "error")
    /\ UNCHANGED <<storeVars, gitVars, agents>>

\* cleanupWorktree: a worktree that is missing or dirty is left alone.
InspectForCleanup(p) ==
    /\ At(p, "cleanup")
    /\ \/ worktree[Own(p)] = "clean" /\ Goto(p, "remove")
       \/ worktree[Own(p)] # "clean" /\ Return(p)
    /\ UNCHANGED <<storeVars, gitVars, agents>>

\* Mutant: git worktree remove --force.
RemoveWorktreeByForce(n) == worktree' = [worktree EXCEPT ![n] = "absent"]

\* git worktree remove, without --force: refused while there are changes.
RemoveWorktree(n) ==
    worktree' = [worktree EXCEPT ![n] = IF Dirty(n) THEN @ ELSE "absent"]

RemoveClean(p) ==
    /\ At(p, "remove")
    /\ RemoveWorktree(Own(p))
    /\ Return(p)
    /\ UNCHANGED <<storeVars, head, branch, agents>>

-----------------------------------------------------------------------------
ExecutorStep(p) ==
    \/ Execute(p) \/ CreateAttempt(p) \/ EnterStage(p) \/ CreateBranch(p)
    \/ CreateWorktree(p) \/ InvokeAgent(p) \/ AgentReturns(p) \/ StageAll(p)
    \/ EnterVerifying(p) \/ RunVerification(p) \/ RecordVerification(p)
    \/ Commit(p) \/ EnterIntegrating(p) \/ Integrate(p) \/ RecordIntegration(p)
    \/ RunFinalVerification(p) \/ RecordFinalVerification(p) \/ Finish(p)
    \/ FailExecution(p) \/ InspectForCleanup(p) \/ RemoveClean(p)

AgentStep(n) == AgentWrites(n) \/ AgentCommits(n) \/ OrphanExits(n)
=============================================================================
