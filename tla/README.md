# agent-runner in TLA+

A verification development for `agent-runner` ("Agentic Dev Runner"), the
local-first orchestrator that hands tasks to coding agents, verifies what they
produce and merges it. The modules here model its concurrency control, its
dispatch, the execution of a task down to the child processes it runs, its
integration queue and the recovery from crashes. TLC checks them on small
instances; TLAPS proves most of the safety properties for every instance.
Paths below are relative to `src/packages/` unless they start with `src/`.

Parse with `tlasany M.tla`, check with `tlc -config X.cfg MCM.tla`, prove with
`tlapm MProofs.tla`.

## 1. The system

Every `agentic` command is an operating-system process of its own. The
processes share one SQLite database and one Git repository and talk to each
other through nothing else. There is no daemon: after a crash nothing happens
until somebody runs the next command, and every command starts by reconciling
the persisted state with the repository (`startupReconcile`).

| Component | State | Operations | Talks to |
|---|---|---|---|
| Task lifecycle, `core/src/domain/task-state-machine.ts` | none (two transition tables) | `canTransitionTaskStatus`, `canReconcileTaskStatus` | used by executors, recovery, commands |
| Runner store, `persistence/src/sqlite` | tables tasks, attempts, events, execution_claims, resource_locks, integration_queue, stage_runs | one `BEGIN IMMEDIATE` transaction or statement each | everybody |
| Coordinator and scheduler, `orchestrator/src/task-execution-coordinator.ts`, `unattended-scheduler.ts` | heartbeat timers, running executions | dispatch, renew, release, handle an unexpected failure | store (claims), executor, queue processor |
| Selection and conflicts, `core/src/domain/task-selection.ts`, `task-conflicts.ts`, `agent-router.ts` | none | which tasks may start, in which order, beside which others | coordinator |
| Workflow executor, `orchestrator/src/workflow-executor.ts` | the run's variables | attempt, branch, worktree, stages, verify, commit, integrate, finish, fail, clean up | store, Git, stages, verification |
| Single-task orchestrator, `orchestrator/src/single-task-orchestrator.ts` | the run's variables | the same with one agent and no stages; the executor of an application with one agent | store, Git, one agent, verification |
| Agent stages and review loops, `*-stage.ts`, `review-fix-loop.ts`, `task-scope.ts` | stage-run rows | plan, plan review, implement, code review | agent processes, worktree |
| Verification engine, `verification/src` | none between runs | run the checks one after the other | process runner |
| Process runner, `platform/src/processes/node-process-runner.ts`, adapters in `agents/src` | timers and listeners of one run | spawn, time out, abort, kill, settle | child processes |
| Queue processor, `integration-queue-processor.ts`, `integration-drift.ts` | none between calls | recover abandoned entries, claim, rebase, verify, merge, settle | store (queue), Git, verification |
| Crash recovery, `crash-recovery.ts`, `worktree-recovery.ts`, `execution-claim-recovery.ts` | the recovery owner | classify interrupted work, finish, reset, escalate, sweep worktrees, settle expired claims | store, Git, verification |
| Git manager, `git/src` | the repository | branch, worktree, commit, rebase, `merge --ff-only` | `git` |
| Commands, `cli/src/application` | none | add, approve, run, run all, retry, status | all of the above |
| Context packs, config, paths | none | build a document, parse a file | the file system |

What is hard about it, and what makes each part right:

* **Claims** race between processes and are guarded by leases whose holders read
  the clock before they wait for the database. Right means: one live claim per
  task, never more than the configured parallelism, locks exactly where a claim
  needs them, and no verdict changed by a late holder.
* **The queue** serialises merges over processes that crash half-way. Right
  means: one entry in integration, first in first out, a verdict that stays.
* **The processor** merges a branch that it, the user and a recovering process
  can move, for executors that can fail behind the entry they queued, while every
  startup recovers what it finds. Right means: what is DONE is merged, what the
  queue completes is verified too, entry, attempt and task end together, a patch
  lands once, every entry is settled and its claim released.
* **An executor** can die between any two awaits, with an agent still writing.
  **Recovery** has to tell from the store and Git alone what happened, and can
  die too. Right means: nothing uncommitted is lost, nothing unverified is
  merged, nothing merged is redone, nothing is DONE that was refuted, and no
  task stays in a working status for ever.
* **The stages** pass plans and feedback through the loop's memory, the rows and
  the cycle number, and judge worktrees that agents and checks write to. Right
  means: every agent gets the plan that was approved, a commit has passed the
  reviews and the checks of its workflow and is within the task's scope, and the
  rows tell how the attempt ended.
* **The process runner** settles a promise while exit, timeout and abort race.
  Right means: nothing of a stage writes when the stage is over, and the attempt
  ends unless a child that nobody limits goes on for ever.
* **The coordinator** joins heartbeats, executions and recovery over several
  processes. Right means: one executor per task, under its claim; tasks whose
  scopes overlap, or that depend on each other, wait; queued work is left to the
  queue; and the claim of a finished task is settled, whoever died.

`PROJECT.json` lists every component with its status, and every hazard at its line.

## 2. Modules

| Module | Models | State |
|---|---|---|
| `TaskLifecycle` | statuses and both transition tables | none |
| `Admission` | what the claim table promises, abstractly | which execution has which task |
| `ClaimStore` | claim, lease and lock tables, status writes | clock, statuses, claims, locks |
| `IntegrationQueue` | the queue table | entries, AUTOINCREMENT counter |
| `IntegrationProcessor` | the processor, drift reconciliation, the whole startup and the executors around the enqueue; extends `IntegrationQueue` | repository, evidence, rows, leases and their owners, executors, one record per process |
| `ProcessRunner` | one child process as the runner sees it | abort signal, the latest run |
| `VerificationEngine` | a run of the checks; extends `ProcessRunner` | results, verdict |
| `AttemptStages` | the stages of one attempt up to its commit; extends `VerificationEngine` | worktree, index, HEAD, stage rows, the executor's variables |
| `TaskExecution` | one task through the workflow executor, with its agents | task row, attempt rows, events, repository, worktrees, agents, processes |
| `SingleTaskOrchestrator` | the same through the other executor; extends `TaskExecution` | |
| `CrashRecovery` | the commands, crashes and recovery around both, with Spec and properties | and two counters |
| `TaskScope`, `TaskConflicts` | patterns, the paths they match, and whether two scopes overlap | none |
| `ClaimedExecution` | one execution under a claim; extends `ClaimStore` | attempts, queue entries, one record per execution |
| `Coordinator` | add, approve, selection, dispatch, scheduler cycles and owned recovery by several processes; extends `ClaimedExecution` and `TaskConflicts` | one record per process, what was added and approved, counters |
| `ClaimStoreProofs`, `TaskConflictsProofs`, `IntegrationProcessorProofs`, `AttemptStagesProofs`, `AttemptHistoryProofs`, `CoordinatorProofs`, `CrashRecoveryProofs`, `RecoveryEvidenceProofs` | theorems | |
| `MC*` | the instances TLC checks | |

Conventions. A store operation is one action because it is one SQLite
transaction; an operation that is refused changes nothing and is no action. A
handler that awaits is split at the awaits whose outcome somebody else can
change: `proc[p].pc` names the next step and the rest of the record is the
handler's local variables, which is all a crash loses. A failing call is a
disjunct of its action, so every await has its error path. A Git revision is
its history, a sequence of patches: ancestry is `IsPrefix`, a commit appends, a
rebase replays a patch on another history, a fast-forward replaces a history by
an extension of it. Only `AttemptStages` looks into files.

Definitions whose comment starts with "Mutant" are not part of the specification:
each is a plausible mistake in the definition that follows, and some property
fails when it takes that definition's place.

### TaskLifecycle
`TaskStatusTransitions` and `RecoveryStatusTransitions` are the two tables of
`task-state-machine.ts`; `CanReconcile` is their union, as in the code.

### Admission and ClaimStore
`claimTaskExecution`, `renewTaskExecution`, `claimExpiredExecutionRecovery`,
`releaseTaskExecution`, `releaseRecoveredTaskExecution`, `setTaskStatus` and
`transitionTaskStatusFrom` of `sqlite-runner-store.ts`. The module is open: any
caller may call anything at any time with any earlier clock reading. A row's
lease and its recovery lease are separate fields, as in the schema. `Admission`
keeps only the assignment of tasks to executions; `ClaimStore` implements it by
reading ACTIVE rows as assignments (`Abstract`).

### IntegrationQueue and IntegrationProcessor
The queue is open in the same way: enqueue (with the partial unique index on
active entries), claim-next, complete, fail and requeue. A requeued entry keeps
its sequence. The processor is the queue's only real user, and its module
performs every write of the table through the queue's own actions.

A process is a command. Its startup (`startupReconcile`) is modelled to the end:
`recoverAbandoned` is StartCommand, InspectHead, ClassifyAbandoned,
RequeueNotIntegrated and ProcessRequeued; `reconcileExpired` is ListClaims,
ExamineClaim and, for an execution that committed but never queued, the owned
`reconcileIntegration` (RecoverUnqueued, Remerge, ConcludeIntegrated,
ConcludeOtherwise), then SettleClaim; `reconcileUnfinished`, which in this mode
finds FAILED tasks without a claim, is ListFailed, JudgeFailed and Converge. An
unattended run goes on to the queue: `processNext` and `processClaimed` are
ProcessNext, CheckClaimed, ReconcileDrift, RebaseBranch, Reevaluate,
VerifyReconciled, Integrate, VerifyIntegrated, SettleSuccess or ReadTask and
SettleFailure, and ReleaseExecution. A check that cannot be run leaves no event,
one that does not pass is remembered in `refuted` when it is of the queued revision.

The executors are of any runner process, also in the runs with one queue process.
Their calls from the commit on are StartAttempt, CommitAttempt (the INTEGRATING
transaction), EnqueueAttempt and ReportEnqueued (the event and the task read
behind the entry); EnqueueingFails is a store call of these that throws,
FailExecution and ReleaseFailed what the executor then does whatever has become
of the entry, and ExecutorDies a crash or a failure it leaves to recovery. A
lease that nobody renews any more expires (LeaseExpires), and so does a recovery
lease (RecoveryLeaseExpires). A store error that no `try` covers rejects the
command and is `Crash`, a `releaseExecution` that throws included.

Coarser than the code: an abandoned entry is found and its HEAD inspected in the
next step, but the list itself is one read with the start; the claims and then
the tasks of `reconcileUnfinished` are listed in one step (Coordinator has them
in two); ExamineClaim takes the claim and reads entry and task at once, which
nobody else may write then; JudgeFailed reads status, HEAD and events at once.
RequiresHuman's choice is free, as Git may fail at each read. A FAILED task is
not retried here. Every attempt has one patch and one entry, so a task, its
attempt, its patch and its entry share a name.

### ProcessRunner and VerificationEngine
A run of `NodeProcessRunner` goes from "unspawned" or "running" to "exited" and
"closed"; the promise settles on 'close'. TimerFires, Abort, the force-kill
timer and the child's own events are actions, so they race as they do in Node.
A child may ignore SIGTERM, and one that has exited may leave a descendant that
holds the pipes open. `VerificationEngine` runs the checks one after the other
through it, without a timeout, with fail-fast and the abort signal.

### AttemptStages
One attempt inside its worktree. EnterStage, OpenStage, Prepare, AgentReturns
and CloseStage are what every stage does with the task row, its own row and its
agent; PlanEnds, PlanReviewEnds, ImplementEnds and CodeReviewEnds are what a
stage demands of the worktree; WorkSucceeded, ReviewSucceeded and CycleOutcome
are the loops. Then StageAll with the scope check, the checks, their verdict, the
commit, and FailExecution. Three sources say which plan an agent is given: the
loop's memory (`loop.plan`), the rows (`PersistedPlan`) and the cycle
(`ReviewedPlan`). A file's content is a number, and `Letter`, `Entry` and
`Hidden` are what `git status` makes of worktree, index and HEAD, a directory
that is new as a whole included: it is one entry, which hides its files from the
reviewer's evidence and from the digests. Agents write, stage and commit, checks
write, the store may fail once.

### TaskExecution, SingleTaskOrchestrator and CrashRecovery
One task, executed by `agentic run <task>` (immediate integration). ExecutorStep
is `execute()` of the workflow executor cut at its awaits: the attempt row, the
transition to each stage, branch, worktree, agent call and return, `stageAll`,
VERIFYING, checks, their event, commit, INTEGRATING, merge, its event, checks on
the result, their event, DONE, cleanup. What a stage demands of the worktree and
the bounded review loop (`Verdict`) are separate operators; what goes on inside
the stages is in `AttemptStages`. SingleTaskStep is `execute()` of the single-task
orchestrator: it has one agent, puts the attempt row again before and after it,
and goes from the merge to DONE without checking the result. What the two have
in common they share. `log` holds what recovery later reads from the events: the
last verification verdict, the commit, how often integration was recorded, the
final verdict and its revision. An agent writes, and may commit against its
instructions, until it returns; one whose runner crashed writes on until it
exits.

A command is `status`, `run` or `retry`. Each starts at "recover"
(`reconcileUnfinished`) and "sweep" (`reconcileTerminalWorktrees`); "run" then
reconciles its task once more and executes it. ReconcileTask chooses the branch
from the status and the last attempt, Inspect/Classify look at the worktree,
Reverify/Recommit/ReenterIntegrating repeat what the crash cut off,
ResolveHead/CompareAncestry/Reintegrate settle a merge, and one action per
outcome (FinishIntegrated, FinishFailed, ResetForRetry, RequiresReconciliation,
RequiresHuman) is its transaction. Recovery runs under `Crash` as well. A store
error inside recovery rejects the command, which is the same as a crash at that
point, with one exception: the `try` around the repeated merge covers
`finishIntegrated` too (`crash-recovery.ts:585`), so after a merge of its own
(`merged`) an error before, in or behind that transaction leads to FinishFailed,
possibly over DONE. That is ReintegrationCaught. The unattended mode is in IntegrationProcessor and Coordinator instead:
its task is under a claim and this recovery skips it.

### TaskScope and TaskConflicts
The code compiles a scope pattern twice: to a regular expression, for the check
of what an attempt changed (`task-scope.ts`), and to segments, for the question
whether two tasks can claim one path (`task-conflicts.ts`). Here a path is a
sequence of names, a pattern a sequence of literals, wildcards and `**`, and the
two compilations are separate operators, because what matters is that they agree:
`Coordinator` decides with the second and `ScopesStayApart` judges by the first.
`IsScope` says what a scope can be once it has been normalised; every task's is
assumed to be one (`CoordinatorAssumption`).

### ClaimedExecution and Coordinator
`executeAdmitted` is StartHeartbeat, the executor's steps (Execute,
CreateAttempt, EnterStage, Enqueue, FailExecution: what it writes to the store in
queued mode), ReadOutcome, Release, StopHeartbeat, or after an exception
ReadFailure, WriteFailure, ReleaseFailed. Beat is the timer beside them. Each is
one store call, because another process may act between any two; in particular
the status a verdict rests on is read one step before it is used.

A command runs `startupReconcile` (RecoverAbandoned and Integrate; ListClaims,
ExamineClaim, InspectOwned, RecoverOwned, SettleOwned for the claims that
expired; SkipClaimed, ListUnfinished, InspectUnfinished, RecoverUnfinished for
the tasks nobody claims) and, if it is an unattended run, cycles of ListTasks,
Plan, Admit, DispatchEnds and Drain until nothing progresses. Plan selects: the
task is READY, approved, routable to an agent with its capabilities, its
dependencies are DONE, and neither its resources nor its scope conflict with the
tasks at work or chosen before it in the order of `Rank`. AddTask and Approve
change the tasks while commands run. `proc[p]` holds a command's local variables,
the lists it works through included, so stale lists are stale in the model.
Integrate and the recovery outcomes are one write each, but for the FAILED that may
follow a recovery's own DONE (MergeFailsLate); what they rest on is in
IntegrationProcessor and CrashRecovery.

Leases: the clock of `ClaimStore` stands still and LeaseExpires moves a lease
back to it, which keeps what matters of time (live or run out) and leaves out
how long. A lease expires only when nobody renews it. `LeasesKept` says that
renewals succeed while the process lives; without it a beat may throw.

## 3. Runs

| Run | Instance | Shows |
|---|---|---|
| `mc_claim_store` | 4 tasks, two of which share a resource, 3 executions, 2 recovery owners, parallelism 2, 2 verdicts, leases of 1, clock up to 2 | the tables stay consistent under any calls, and implement `Admission` |
| `mc_one_entry` | 2 processes, 1 entry, 2 crashes or failing executors, 2 commits of others, recovery leases that run out; 2.3 million states | a live lease keeps the second process out; what is settled is merged and stays, a success rests on a fresh check, a patch lands once, and entry, attempt and task end together |
| `mc_processor_alone` | 1 process, 2 entries, 1 crash or failing executor; recoveries end within their lease | the queue is serial and fair, merges are of verified revisions, everything settles, claims are settled |
| `unverified_merge` | 2 processes, 2 entries, 1 user commit, with an expired lease | **violation**: finding 1 |
| `mc_crash_recovery` | both executors, full workflow, 2 review cycles, 2 attempts, 2 crashes, 1 user commit; 1.7 million states | the safety of execution and recovery |
| `mc_recovery_liveness` | both executors, full workflow, 1 cycle, 2 attempts, 1 crash | no interrupted task keeps a working status |
| `completion_evidence` | smallest workflow, 1 crash | **violation**: finding 2 |
| `mc_coordinator` | 2 processes, 1 task, 2 executions, 2 commands, 1 crash, 1 retry; heartbeats succeed | one executor per task, under its claim; queued work is left to the queue |
| `mc_dispatch` | 1 process, 4 tasks, 2 executions, 1 crash, any number of commands | tasks at work together have disjoint scopes and resources; only due work is started |
| `double_execution` | as `mc_coordinator` without a crash, but a beat may fail | **violation**: finding 3 |
| `mc_attempt` | 3 workflows, 3 files, 2 checks, 2 cycles, 2 versions of a file, 3 writes, 1 store failure; 600 thousand states | agents get the approved plan; what is committed was reviewed, checked and in scope; the rows tell how the attempt ended; nothing writes between stages; the attempt ends |
| `review_gaps` | a workflow of implementation and code review | **violation**: finding 4 |

**Why the bounds are enough.** Claims: three executions over two slots make
refusal by capacity, by claim and by lock reachable (three of the four tasks do
not conflict, two do), with two verdicts a late holder can try to change one, and
a clock of 2 with leases of 1 lets a lease, then a recovery lease, run out.
Processor: what the rows of an entry say of each other, and of the repository,
involves no other entry, so `mc_one_entry` spends its states on two processes and
on two failures: a failing executor and a crash, or a recovery of a recovery. Two
commits of others are one of the user's own, which makes a rebase necessary, and
a cherry-pick of the attempt, which makes it empty. Order and exclusion involve
two entries, and so does a verification that the other entry's merge has made
stale: `mc_processor_alone` has these, the second entry being rebased behind the
first, for one process, because of what a second one breaks (finding 1). That
a user's commits and further processes change nothing about the order, the
exclusion and, for the commits, the merges is in the theorems
`QueueIsFair`, `IntegrationIsSerial` and `OneProcessMergesVerifiedWork`. Recovery:
two crashes put one inside the recovery from the other; two attempts are what
it takes to run into an earlier attempt's leftovers; two review cycles make
"again" and "exhausted" different; one user commit makes HEAD diverge from the
task's branch, and a second one adds nothing to that. Coordinator: what claims
protect is one task against two executions of two processes, so one task and
two executions are the whole conflict. What the dispatch decides itself needs
four tasks: `t2` overlaps with `t1` and with `t4` through a wildcard and shares a
resource with `t3`, which may be at work beside `t1` or `t4` and can be done by
one of two agents only; `t4` depends on `t1`, `t2` needs an approval and `t1` is
added while commands run. Attempt: the three files are the three ways
`git status` lists a change (a tracked file, a new file, a new directory as a
whole), and the last one is out of scope; three writes are those of an
implementing agent, a reviewer and a check; two checks make fail-fast visible;
two cycles tell a plan of this cycle from one of another. The theorems of
section 5 have none of these bounds.

**Fairness.** Safety runs assume none. `FairSpec` of each module assumes what
the code's environment gives. SQLite calls return or fail, agents run under a
timeout, and somebody keeps running commands, since nothing happens without. Checks
and Git calls have no timeout: that they end is an assumption of
`InterruptedWorkIsClassified`, `EveryEntrySettles` and `ClaimsAreReleased`.
`AttemptStages` looks into it and assumes less: the executor's own steps, the timers and Node's spawn error are fair and no child
ends because it should; `AttemptsEnd` then names the two ways an attempt can go
on for ever, a check that hangs and a descendant that keeps the pipes open after
its parent exited. A crash is never forced and their number is bounded.
IntegrationProcessor also assumes that leases run out, that a recovery ends
within its lease (`RecoveryKept`: the code does not renew that lease, and with
recoveries that always outlast it `ClaimsAreReleased` fails) and, strongly, that Git
can be read again some day: an entry that cannot be classified is left alone and
looked at again by the next startup, so weak fairness would let a repository that
is unreadable at each look starve it. And it assumes that of the commands people
run some are unattended runs, because only these work the queue. Coordinator is
about safety alone and assumes nothing.

**Deadlock** is checked except where the system stops: the attempt ends
(`mc_attempt`, `review_gaps`), or the number of commands is bounded
(`mc_coordinator`, `double_execution`). In the others a command, or a tick or
call, is always possible.

## 4. Findings

1. **A branch is merged that nobody verified** (`unverified_merge`;
   `git/src/node-git-manager.ts:203`). The heartbeat ends with the executor, so
   the lease of a queued entry runs out; another command's startup then recovers
   an entry whose processor is alive, rebases its branch, and the first process
   fast-forwards to that new tip.
2. **DONE without integration verification** (`completion_evidence`;
   `crash-recovery.ts:519`). After a crash between merge and check, recovery
   finds the commit integrated and finishes the task; it runs no check. Without a
   crash, when the integration checks could not be run or were recorded for another
   HEAD than the queued revision, the task is FAILED until the next command, even
   `status`, moves it to DONE (`crash-recovery.ts:446`). The single-task
   orchestrator never runs them (`single-task-orchestrator.ts:399`).
   `src/README.md:6` promises the contrary, and the message at
   `crash-recovery.ts:441` too.
   What does hold, and is proved: a verdict on record against the commit is never
   overruled (`RefutedIsNotDone`), what is DONE is merged, and what the queue itself
   completes has passed its checks there (`DoneIsIntegrated`).
3. **A task is executed twice** (`double_execution`;
   `orchestrator/src/task-execution-coordinator.ts:297`). The first renewal that
   throws ends the heartbeat but not the executor. Its lease runs out, another
   process recovers the claim, finds a clean worktree, returns the task to READY
   and starts it again while the first agent works. `src/README.md:229` says a
   second process cannot. The theorem `OneExecutorAtATime` is the converse: with
   heartbeats that succeed there is never a second executor.
4. **What is committed is not what was reviewed** (`review_gaps`;
   `orchestrator/src/code-review-stage.ts:622`). `git status` lists a new
   directory as one entry, whose content cannot be read as a file: the reviewer is
   shown that it is unavailable in place of every file in it, and the digests
   that should notice an edit during the review are undefined before and after.
   An edit of a tracked file that was modified before goes unnoticed too, since
   its entry stays the same (`code-review-stage.ts:753`).

Further observations, without a run of their own:

* The scope check looks at uncommitted changes only (`workflow-executor.ts:444`),
  so what an agent commits itself escapes it; `src/README.md:309` speaks of the
  Git diff.
* Checks may write into the worktree after everything was staged, so what passed
  them can differ from what is committed.
* In the second cycle of a code review the demand that the implementation
  changes something is met by the changes of the first.
* Checks have no timeout (`verification-check-resolution.ts:13`), and a run that
  timed out settles only when the pipes close (`node-process-runner.ts:139`), so a
  descendant that keeps them open outlasts any timeout.
* A store that fails when a finished stage's row is written turns the stage into a
  failed one (`plan-stage.ts:148`).
* With `***` as a segment the two compilations of a scope disagree: one name for
  the conflict check (`task-conflicts.ts:204`), any depth for the scope check
  (`task-scope.ts:143`).
* A task added as BACKLOG never leaves it (`task-state-machine.ts:19`), and one
  whose dependencies form a cycle or do not exist waits for ever; neither is
  reported.
* A direct `agentic run` takes no claim, so with two processes on
  `CrashRecovery` (`Processes <- TwoProcesses`) the startup of the second one
  reconciles the task the first one is executing, and most of the properties of
  `mc_crash_recovery` fail. That is why its run, and its theorems, have one
  process: they are about crashes, not about commands run side by side.
* The startup lists the claims to skip before it works through the interrupted
  tasks, so it can reconcile a task that was claimed meanwhile
  (`store-backed-app-service.ts:586`).
* Two processes can admit tasks whose scopes overlap, because only the resources
  are checked in the claiming transaction: `ScopesStayApart` fails with
  `Processes <- MCProcesses`. The tasks of each process stay apart, and all of them
  in their resources (`EachProcessKeepsScopesApart`, `ExecutorsShareNoResource`).
* A queued task can be failed by its executor (`workflow-executor.ts:885`): entry,
  event and the task read behind them are calls of their own, and when a later one
  throws, the executor fails the task and the attempt and releases its claim while
  the entry is PENDING or being integrated; the comment at
  `workflow-executor.ts:851` says that both wait for the processor. When the
  processor has settled the entry already, FAILED overwrites its DONE.
  `VerdictsAgree` holds but for such a task. The processor still fails such an
  entry or settles it, and nothing is left waiting (`SettledEntriesEndTheirTask`).
* FAILED can be written over DONE (`crash-recovery.ts:599`): the `catch` of the
  repeated merge also catches what fails behind it. Once `finishIntegrated` has
  committed DONE, a throwing `requireTask` (`crash-recovery.ts:844`) makes the task
  FAILED with the reason "integration retry failed", a transition that neither
  table has (`task-state-machine.ts:27`,
  `core/test/task-state-machine.test.ts:188`). The next startup makes it DONE
  again. Theorems `EveryTransitionIsLegal` and `OneProcessLeavesDoneTasks` say that
  this is the only such place.
* A crash between two transactions leaves an attempt RUNNING for ever
  (`workflow-executor.ts:634`), and recovery's way back to READY does not look at
  the attempt budget (`crash-recovery.ts:678`). The unattended runs of one process
  keep the budget all the same (`OneProcessKeepsTheBudget`). Two exceed it: both
  plan the last attempt, one takes it and crashes, a third command recovers the
  task to READY, and the second process admits it by its old plan (with
  `MaxCommands = 3` and `MaxAttempts = 1` in `MCCoordinator.cfg`).
* A claim whose owned recovery ends in BLOCKED or NEEDS_HUMAN stays ACTIVE with
  its slot and its locks, also after `retry` (`execution-claim-recovery.ts:82`).
* The branch of `reconcileTask` for an active task without a running attempt is
  out of reach of a single process (theorem `ActiveTaskAlwaysRuns`).

## 5. Proofs

Every theorem is about the specification its module defines, for all values of
the constants that satisfy the module's ASSUME. `PROJECT.json` lists them; here is
the argument of each module.

**`ClaimStoreProofs`.** The seven properties of `ClaimStore`. None of them is
inductive alone: the claim table says nothing of who holds a resource, so mutual
exclusion over resources needs the agreement of the two tables
(`LocksMatchActiveClaims`), and that agreement needs every ACTIVE row to name a
task and every absent row to be blank. `StoreInv` joins these with the type
invariant, the uniqueness of claims and the capacity. For the refinement
`StoreImplementsAdmission`, a claim maps to Admit (its guard follows from
`AdmittedTaskHasNoConflict`: a needed resource that is free has no active
claimant), a release to Vacate, and everything else to a stutter.
What the step lemmas need of a step is `StoreStep`: what any caller, with or without
a clock of its own, can do to the tables. `CoordinatorProofs` uses them again.

**`TaskConflictsProofs`.** `ScopeConflictsAreFound`: whatever two scopes are, and
whatever path is in both of them by the regular expressions of `task-scope.ts`, the
segment comparison of `task-conflicts.ts` reports an overlap. Both compilations are
functions that recurse over a grid of two positions, and the prover neither knows
that such a function exists nor does induction over data. `RankedRecursion` shows
the first for any recursion that only looks at points of lower rank: partial
solutions up to a rank exist and agree, and together they are a solution.
`GridRecursion` instantiates it, `MatchRules` and `OverlapRules` state what the two
matchers satisfy, and the theorem follows by well-founded induction on how much of
the path and the two patterns is left: each way for two expressions to consume the
next name is a way for the comparison to advance. A pattern that ends with `/` needs
its own argument (`MultiTailOverlaps`), because the two modules compile `docs/**/`
to a different number of `**`.

**`IntegrationProcessorProofs`.** First the queue under any calls: `QueueInv` adds
that every row's sequence was issued and that no two rows share one; without them a
claim could overtake an entry with the same number. Then its real user, the
processor. `ProcessorInv` is in the style of rely-guarantee: `ProcessOK` says,
for each step a process can be at, what it may count on while the others go on (after the merge, that HEAD contains the patch;
at the settlement, that there is evidence of the checks; under a recovery lease,
that the claim's entry and task are nobody else's), and `EvidenceOK`,
`BranchesHoldTheirPatch`, `RowsOK` and `LiveEntriesAreClaimed` what the rows rest
on. `RowsOK` ties the rows to where the attempt's executor is: before the entry
only the executor writes them, and after it a failing executor can write FAILED at
any moment, which is why `VerdictsAgree` excepts it and
`SettledEntriesEndTheirTask`, the part that survives it, is stated for itself.
HEAD only ever grows and evidence is only ever added (`Grows`), which makes these
stable. They give `DoneRestsOnIntegration`, `SuccessIsFresh`,
`VerdictsAlwaysAgree`, `SettledEntriesLeaveNothingWaiting` and
`LeaseKeepsOthersOut`, for any number of processes, entries and crashes.
`ProcessorImplementsQueue` shows that the processor calls the queue as the queue
allows, and the queue's theorems carry over. On top of it `RevisionsOK` says that a patch is committed only where it is missing
(`EachPatchLandsOnce`), and `MergesOK` that a branch which is not verified is
queued and was rebased because HEAD has grown beyond its base: nobody can take HEAD
for the base and merge the branch as it is, and the recovery, which merges branches
that were never queued, only meets verified ones (`OneProcessMergesVerifiedWork`).
The latter assumes a single process (`Alone`), with executors of any others;
`unverified_merge` shows that two break it.

**`AttemptStagesProofs` and `AttemptHistoryProofs`.** First the types, which stage
is at which step (`ControlOK`) and that no child outlives its stage (`QuietOK`,
on an invariant of the process runner). Then the history: stage runs have an
order (`Rank`), those to come have no row and only the current one is RUNNING
(`RowsInv`); what the loop remembers is what the rows say (`MemoryOK`); a step
behind a gate has the rows that opened it (`StagesGate`, `CommitGate`); and the
rows at the end tell why it ended (`OutcomeOK`). They give
`AgentsGetTheApprovedPlan`, `OnlyGatedCommits`, `CommitsAreConfined`,
`RowsAlwaysTell` and `HistoryIsFinal`.

**`CoordinatorProofs`.** Any number of processes, tasks, executions and crashes,
in three layers.

*Claims.* `CoordinatorInv` says that an execution between its admission and the end
of its executor holds a claim whose lease is in force (`Holds`), so that no recovery
may own it, and that what a command has read stays true enough behind its back
(`CommandOK`). `Holds` needs `LeasesKept`, and so do `WorkIsClaimed`,
`OneExecutorPerTask`, `QueuedWorkIsLeftToTheQueue` and, with the store's invariant,
that executors share no resource and respect the capacity; `double_execution` shows
that it cannot be dropped. The rest of `CoordinatorInv` does not need it.

*The store.* Every step of the coordinators is a `StoreStep`
(`CoordinatorTakesStoreSteps`), so `StoreInv` holds whatever happens to the
heartbeats, and with it the capacity, the agreement of locks and claims, the
finality of settled claims, the order of recoveries and the refinement
`CoordinatorImplementsAdmission`: what `ClaimStore` promises to any caller holds for
its real one.

*Dispatch.* A dispatch decides by a list that is older than its plan.
`DispatchInv` says what keeps that sound with any number of processes: approvals and
added tasks are never taken back, and an execution belongs to a dispatch that has
its task among the active ones and compared it with the others (`Compared`). This
gives `WorkIsAllowed` and, through `ScopeConflictsAreFound`,
`EachProcessKeepsScopesApart`. Whether a dependency is still DONE, an attempt still
left and a task still not DONE when the list is used depends on who else writes:
`DueInv`, `BudgetInv` and `FinishedInv` are for one process (`Alone`) and give
`OneProcessDoesDueWork`, `OneProcessKeepsTheBudget`, `OneProcessLeavesDoneTasks` and
`OneProcessKeepsScopesApart`. `OneProcessLeavesDoneTasks` names the one place where
a DONE task does not stay DONE, behind a recovery's own merge. The observations
tell how two processes break the others.

**`CrashRecoveryProofs` and `RecoveryEvidenceProofs`.** One process at a time
(`Alone`), any workflow, either executor, any number of crashes. `ControlInv`
gives each place of a command the statuses it can find there (`PlaceOK`), from
which every write is a transition of the tables; the one that is none, FAILED over
the DONE that this very recovery wrote, is an exception in
`TransitionsAreLegal` itself (`TakenForFailed`). `EvidenceInv` then says that the
events are true of the repository (`AttemptEvidence`: a commit is recorded of
verified work and stays on its branch, a final verdict of a commit that is
integrated, and no revision has work of an attempt that was not verified) and
what a command may count on at each place (`EvidenceAt`). From it:
`CompletionIsEarned`, `RefutationsStand`, `IntegratedWorkIsVerified`,
`NothingIsIntegratedTwice` and `UncommittedWorkIsKept`. `Alone` is needed, as the
observations tell.

**Only model-checked:** liveness (`EveryEntrySettles`, `ClaimsAreReleased`,
`InterruptedWorkIsClassified`, `AttemptsEnd`), which is out of this prover's reach,
as are ENABLED and RECURSIVE operators; no module here declares one. Every safety property of a passing run is a theorem.

## 6. Not modelled

Task ingestion (a pure validation; what passes enters as AddTask); context packs,
prompts, arguments, configuration, paths; `init`, which writes one row, and
`status`, `inspect` and `doctor`, which read; rendering. What agents and checks
write and answer is chosen freely. The row of the INTEGRATE stage, which nobody
reads, and `***` as a segment are left out.

Simplifications inside what is modelled: a task has one lock mode; the
integration checkout's own dirtiness is a failing merge; in TaskExecution a
status scan and the check of scope are one step; a `rev-parse` that fails behind a
successful commit is a crash at that point, not an error of its own; branch names
never collide with branches the user made; the tasks of the queue are independent of each other.

## 7. What is left

1. Retries in `IntegrationProcessor`: an attempt after one that the queue failed, so
   that a startup's convergence to DONE and a `retry` race for one task.
2. Reference definitions for ingestion: unique ids, dependencies, the statuses a
   task may be added with.
