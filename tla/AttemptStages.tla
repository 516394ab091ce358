--------------------------- MODULE AttemptStages ---------------------------
(***************************************************************************)
(* Inside one attempt: the stages the workflow executor runs in the        *)
(* attempt's worktree, from the first one to the runner's commit.  Each    *)
(* stage has a row in the store, runs an agent as a child process and      *)
(* judges what it left; the plan and code loops repeat work and review.    *)
(* TaskExecution tells what surrounds this and what a crash does to it.    *)
(*                                                                         *)
(* A file's content is a number: 0 is what it is at the base revision      *)
(* (nothing, for a new file).  A revision is told by what it contains, and *)
(* a plan by the cycle it is of.                                           *)
(***************************************************************************)
EXTENDS VerificationEngine

CONSTANTS Tracked,      \* files of the base revision
          Loose,        \* new files in directories of the base revision
          Nested,       \* new files in a new directory
          InScope,      \* files the task's scope allows
          Workflows,    \* sets of optional stages: PLAN, PLAN_REVIEW, CODE_REVIEW
          MaxReviewCycles,
          MaxVersion, MaxWrites,    \* bounds on what processes write
          MaxFaults                 \* bound on the store's failures

Files == Tracked \cup Loose \cup Nested
New == Loose \cup Nested
Cycles == 1..MaxReviewCycles
Contents == [Files -> 0..MaxVersion]
Decisions == {"APPROVED", "CHANGES_REQUIRED"}

ASSUME AttemptStagesAssumption ==
    /\ InScope \subseteq Files
    /\ NONE \notin Decisions
    /\ Workflows \subseteq SUBSET {"PLAN", "PLAN_REVIEW", "CODE_REVIEW"}
    /\ \A w \in Workflows : "PLAN_REVIEW" \in w => "PLAN" \in w
    /\ MaxReviewCycles \in Nat \ {0}
    /\ MaxVersion \in Nat /\ MaxWrites \in Nat /\ MaxFaults \in Nat

VARIABLES tree, index, head,    \* contents in the worktree, the index and HEAD
          rows,                 \* stage runs in the store, by stage and cycle
          taskStatus, attemptStatus,
          workflow,
          loop,                 \* volatile state of the executor
          writes, faults

gitVars == <<tree, index, head>>
storeVars == <<rows, taskStatus, attemptStatus>>
boundVars == <<writes, faults>>
vars == <<runnerVars, engineVars, gitVars, storeVars, workflow, loop, boundVars>>

StageOrder == <<"PLAN", "PLAN_REVIEW", "IMPLEMENT", "CODE_REVIEW", "VERIFY">>
WorkStages == {"PLAN", "IMPLEMENT"}
ReviewStages == {"PLAN_REVIEW", "CODE_REVIEW"}
RowStatuses == {"none", "RUNNING", "SUCCEEDED", "FAILED", "TIMED_OUT", "CANCELLED"}
Keys == Range(StageOrder) \X Cycles

\* A row keeps, of a SUCCEEDED stage, the plan or the decision.
Row(status, plan, decision) == [status |-> status, plan |-> plan, decision |-> decision]
NoRow == Row("none", 0, NONE)
Rows == [status : RowStatuses, plan : 0..MaxReviewCycles, decision : Decisions \cup {NONE}]

NoContext == [plan |-> 0, feedback |-> 0]
Worktree == [tree |-> tree, index |-> index, head |-> head]

FirstStage(w) == IF "PLAN" \in w THEN "PLAN" ELSE "IMPLEMENT"

Init ==
    /\ signal = FALSE /\ run = NoRun
    /\ results = <<>> /\ verdict = NONE
    /\ tree = [f \in Files |-> 0] /\ index = tree /\ head = tree
    /\ rows = [k \in Keys |-> NoRow]
    /\ taskStatus = "READY" /\ attemptStatus = "RUNNING"
    /\ workflow \in Workflows
    /\ loop = [pc |-> "enter", stage |-> FirstStage(workflow), cycle |-> 1, plan |-> 0,
               feedback |-> 0, context |-> NoContext, result |-> NoRow, retry |-> FALSE,
               before |-> NONE, evidence |-> NONE, failure |-> NONE]
    /\ writes = 0 /\ faults = 0

-----------------------------------------------------------------------------
(* Control *)

At(pc) == loop.pc = pc
Stage(s) == loop.stage = s

\* Mutant: a stage has one row in an attempt.
KeyOfStage == <<loop.stage, 1>>

\* The identity of a stage run: its stage and its cycle.
Key == <<loop.stage, loop.cycle>>

Goto(pc) == loop' = [loop EXCEPT !.pc = pc]
Fail(kind) == loop' = [loop EXCEPT !.pc = "fail", !.failure = kind]
GotoStage(s, cycle) == loop' = [loop EXCEPT !.pc = "enter", !.stage = s, !.cycle = cycle]

\* The store refuses the write.
Fault == faults < MaxFaults /\ faults' = faults + 1

PutRow(row) == rows' = [rows EXCEPT ![Key] = row]

StageStatus(s) ==
    CASE s = "PLAN" -> "PLANNING"
      [] s = "PLAN_REVIEW" -> "PLAN_REVIEW"
      [] s = "IMPLEMENT" -> "IMPLEMENTING"
      [] s = "CODE_REVIEW" -> "CODE_REVIEW"
      [] s = "VERIFY" -> "VERIFYING"

\* transitionToStageStatus before every stage of every cycle.
EnterStage ==
    /\ At("enter")
    /\ \/ /\ taskStatus' = StageStatus(loop.stage)
          /\ Goto("open")
          /\ UNCHANGED faults
       \/ Fault /\ Fail("error") /\ UNCHANGED taskStatus
    /\ UNCHANGED <<runnerVars, engineVars, gitVars, rows, attemptStatus, workflow, writes>>

\* The row is put as RUNNING under the identity of its cycle; an abort is
\* looked at once here.
OpenStage ==
    /\ At("open")
    /\ \/ /\ PutRow(Row("RUNNING", 0, NONE))
          /\ loop' = IF Stage("VERIFY") THEN [loop EXCEPT !.pc = "check"]
                     ELSE IF signal
                     THEN [loop EXCEPT !.pc = "close", !.result = Row("CANCELLED", 0, NONE),
                                       !.retry = FALSE]
                     ELSE [loop EXCEPT !.pc = "prepare", !.retry = TRUE]
          /\ UNCHANGED faults
       \/ Fault /\ Fail("error") /\ UNCHANGED rows
    /\ UNCHANGED <<runnerVars, engineVars, gitVars, taskStatus, attemptStatus, workflow, writes>>

\* The stage returns, or throws into its own catch.
StageEnds(status, plan, decision) ==
    loop' = [loop EXCEPT !.pc = "close", !.result = Row(status, plan, decision)]

-----------------------------------------------------------------------------
(* What a stage is given *)

SucceededPlans == {c \in Cycles : rows[<<"PLAN", c>>].status = "SUCCEEDED"}

ApprovedCycles ==
    {c \in Cycles : /\ rows[<<"PLAN_REVIEW", c>>].status = "SUCCEEDED"
                    /\ rows[<<"PLAN_REVIEW", c>>].decision = "APPROVED"}

\* Mutant: the first plan that succeeded.
EarliestOf(cycles) == IF cycles = {} THEN 0 ELSE CHOOSE c \in cycles : \A d \in cycles : c <= d

LatestOf(cycles) == IF cycles = {} THEN 0 ELSE CHOOSE c \in cycles : \A d \in cycles : d <= c

\* approvedPlanOf, of the rows the loop has returned.
ApprovedPlan == LatestOf(SucceededPlans)

\* loadReviewedPlan: of the review's own cycle.
ReviewedPlan == IF loop.cycle \in SucceededPlans THEN loop.cycle ELSE 0

\* loadPersistedPlan: the plan of the latest approval, or the latest plan.
PersistedPlan ==
    IF LatestOf(ApprovedCycles) \in SucceededPlans THEN LatestOf(ApprovedCycles)
    ELSE LatestOf(SucceededPlans)

\* git status: the two letters of a file's porcelain entry.  The files of a
\* directory that is new as a whole have one entry together.
Letter(f, old, new) ==
    IF old = new THEN " "
    ELSE IF f \in New /\ old = 0 THEN "A"
    ELSE IF f \in New /\ new = 0 THEN "D"
    ELSE "M"

Untracked(f, w) == Letter(f, w.index[f], w.tree[f]) = "A"

Hidden(f, w) == f \in Nested /\ Untracked(f, w) /\ \A g \in Nested : w.index[g] = 0

Entry(f, w) == <<Letter(f, w.head[f], w.index[f]),
                 IF Hidden(f, w) THEN " " ELSE Letter(f, w.index[f], w.tree[f])>>

Status(w) == [entries |-> [f \in Files |-> Entry(f, w)],
              newDirectory |-> \E f \in Nested : Hidden(f, w)]

Clean(w) == w.tree = w.index /\ w.index = w.head

\* loadImplementationEvidence: git diff against the base revision and the
\* contents of untracked files; a directory cannot be read as a file.
Evidence(w) == [f \in Files |-> IF Hidden(f, w) THEN 0 ELSE w.tree[f]]
NoEvidence(w) == \A f \in Files : w.tree[f] = 0

\* The documents of each stage's context pack.
PlanContext == [plan |-> 0, feedback |-> loop.feedback]
PlanReviewContext == [plan |-> ReviewedPlan, feedback |-> 0]
ImplementContext == [plan |-> loop.plan, feedback |-> loop.feedback]
CodeReviewContext == [plan |-> PersistedPlan, feedback |-> 0]

ContextOfStage ==
    CASE Stage("PLAN") -> PlanContext
      [] Stage("PLAN_REVIEW") -> PlanReviewContext
      [] Stage("IMPLEMENT") -> ImplementContext
      [] Stage("CODE_REVIEW") -> CodeReviewContext

\* The adapter runs the agent under the stage's timeout.
InvokeAgent == Start(TRUE)

CannotStart ==
    \/ Stage("PLAN_REVIEW") /\ ReviewedPlan = 0
    \/ Stage("CODE_REVIEW") /\ NoEvidence(Worktree)

\* Reading the inputs may fail too: the rows, the rules document, Git.
Prepare ==
    /\ At("prepare")
    /\ \/ /\ ~CannotStart
          /\ InvokeAgent
          /\ loop' = [loop EXCEPT !.pc = "agent", !.context = ContextOfStage,
                                  !.before = IF Stage("CODE_REVIEW") THEN Worktree ELSE NONE,
                                  !.evidence = IF Stage("CODE_REVIEW") THEN Evidence(Worktree)
                                               ELSE NONE]
       \/ StageEnds("FAILED", 0, NONE) /\ UNCHANGED runnerVars
    /\ UNCHANGED <<engineVars, gitVars, storeVars, workflow, boundVars>>

-----------------------------------------------------------------------------
(* What a stage leaves *)

StatusOfFailure(result) ==
    CASE result = "timeout" -> "TIMED_OUT"
      [] result = "cancelled" -> "CANCELLED"
      [] OTHER -> "FAILED"

\* PLAN and PLAN_REVIEW: a clean worktree whose HEAD is the base revision.
Untouched == Clean(Worktree) /\ \A f \in Files : head[f] = 0

SameDigests(w, v) ==
    \A f \in New : Untracked(f, w) /\ ~Hidden(f, w) => w.tree[f] = v.tree[f]

\* Mutant: untracked files are compared by their entries alone.
UnchangedByStatus(w, v) == Status(w) = Status(v) /\ w.head = v.head

\* detectWorktreeMutation of the code review: the status entries, HEAD, and
\* the digests of the untracked files that can be read.
SeenUnchanged(w, v) == Status(w) = Status(v) /\ w.head = v.head /\ SameDigests(w, v)

PlanEnds ==
    /\ Stage("PLAN")
    /\ Untouched
    /\ StageEnds("SUCCEEDED", loop.cycle, NONE)

PlanReviewEnds ==
    /\ Stage("PLAN_REVIEW")
    /\ Untouched
    /\ \E d \in Decisions : StageEnds("SUCCEEDED", 0, d)

ImplementEnds ==
    /\ Stage("IMPLEMENT")
    /\ ~Clean(Worktree)
    /\ StageEnds("SUCCEEDED", 0, NONE)

CodeReviewEnds ==
    /\ Stage("CODE_REVIEW")
    /\ SeenUnchanged(loop.before, Worktree)
    /\ \E d \in Decisions : StageEnds("SUCCEEDED", 0, d)

\* Also an agent that succeeds may have no usable output, and Git may fail.
AgentReturns ==
    /\ At("agent") /\ Settled
    /\ IF AgentResult(run.outcome) = "success"
       THEN \/ PlanEnds \/ PlanReviewEnds \/ ImplementEnds \/ CodeReviewEnds
            \/ StageEnds("FAILED", 0, NONE)
       ELSE StageEnds(StatusOfFailure(AgentResult(run.outcome)), 0, NONE)
    /\ Collect
    /\ UNCHANGED <<engineVars, gitVars, storeVars, workflow, boundVars>>

-----------------------------------------------------------------------------
(* The review/fix loops *)

Decision == loop.result.decision

\* Mutant: the review counts as passed when no cycle is left.
PassedOrExhausted ==
    IF Decision = "APPROVED" \/ loop.cycle >= MaxReviewCycles THEN "PASSED" ELSE "FIX_ALLOWED"

\* Mutant: the limit is compared one cycle late.
OneCycleMore ==
    IF Decision = "APPROVED" THEN "PASSED"
    ELSE IF loop.cycle > MaxReviewCycles THEN "LIMIT_EXHAUSTED"
    ELSE "FIX_ALLOWED"

\* evaluateReviewCycle
CycleOutcome ==
    IF Decision = "APPROVED" THEN "PASSED"
    ELSE IF loop.cycle >= MaxReviewCycles THEN "LIMIT_EXHAUSTED"
    ELSE "FIX_ALLOWED"

\* Mutant: how the stage ended is not looked at.
AnyFailure(status) == "error"

\* terminalStageFailure, of the last row.
FailureOf(status) ==
    CASE status = "TIMED_OUT" -> "timeout"
      [] status = "CANCELLED" -> "cancelled"
      [] OTHER -> "error"

StageFailed ==
    /\ loop.result.status # "SUCCEEDED"
    /\ Fail(FailureOf(loop.result.status))

\* The plan that IMPLEMENT is given is decided when planning is over.
BeginImplementing ==
    loop' = [loop EXCEPT !.pc = "enter", !.stage = "IMPLEMENT", !.cycle = 1,
                         !.plan = ApprovedPlan', !.feedback = 0]

WorkSucceeded ==
    /\ loop.result.status = "SUCCEEDED" /\ loop.stage \in WorkStages
    /\ LET review == IF Stage("PLAN") THEN "PLAN_REVIEW" ELSE "CODE_REVIEW" IN
       CASE review \in workflow -> GotoStage(review, loop.cycle)
         [] Stage("PLAN") /\ review \notin workflow -> BeginImplementing
         [] OTHER -> Goto("stageAll")

\* Work is done again with the feedback of the review that asked for it.
ReviewSucceeded ==
    /\ loop.result.status = "SUCCEEDED" /\ loop.stage \in ReviewStages
    /\ CASE CycleOutcome = "PASSED" ->
              IF Stage("PLAN_REVIEW") THEN BeginImplementing ELSE Goto("stageAll")
         [] CycleOutcome = "LIMIT_EXHAUSTED" -> Fail("review_exhausted")
         [] OTHER ->
              loop' = [loop EXCEPT !.pc = "enter", !.cycle = @ + 1, !.feedback = loop.cycle,
                         !.stage = IF @ = "PLAN_REVIEW" THEN "PLAN" ELSE "IMPLEMENT"]

\* The final put.  When it fails inside the stage's try, the catch puts the
\* row as FAILED; when that fails too the stage throws.
CloseStage ==
    /\ At("close")
    /\ \/ /\ PutRow(loop.result)
          /\ StageFailed \/ WorkSucceeded \/ ReviewSucceeded
          /\ UNCHANGED faults
       \/ /\ Fault
          /\ \/ /\ loop.retry
                /\ loop' = [loop EXCEPT !.result = Row("FAILED", 0, NONE), !.retry = FALSE]
             \/ /\ ~loop.retry \/ loop.result.status = "FAILED"
                /\ Fail("error")
          /\ UNCHANGED rows
    /\ UNCHANGED <<runnerVars, engineVars, gitVars, taskStatus, attemptStatus, workflow, writes>>

-----------------------------------------------------------------------------
(* VERIFY and the commit *)

\* stageAll; then there must be a change, and all of it in scope.  Git may fail.
StageAll ==
    /\ At("stageAll")
    /\ \/ /\ index' = tree
          /\ IF tree # head /\ {f \in Files : tree[f] # head[f]} \subseteq InScope
             THEN GotoStage("VERIFY", 1) ELSE Fail("error")
       \/ Fail("error") /\ UNCHANGED index
    /\ UNCHANGED <<runnerVars, engineVars, tree, head, storeVars, workflow, boundVars>>

RunChecks ==
    /\ At("check") /\ verdict = NONE
    /\ EngineThrows \/ StartCheck \/ CheckReturns \/ EngineReturns
    /\ UNCHANGED <<gitVars, storeVars, workflow, loop, boundVars>>

VerdictStatus ==
    CASE verdict = "PASSED" -> "SUCCEEDED"
      [] verdict = "ERROR" -> "FAILED"
      [] OTHER -> verdict

VerdictFailure ==
    CASE verdict = "CANCELLED" -> "cancelled"
      [] verdict = "ERROR" -> "error"
      [] OTHER -> "verification_failed"

\* The event and the final row; a store that fails here leaves the row as it is.
RecordVerdict ==
    /\ At("check") /\ verdict # NONE
    /\ \/ /\ PutRow(Row(VerdictStatus, 0, NONE))
          /\ IF verdict = "PASSED" THEN Goto("commit") ELSE Fail(VerdictFailure)
          /\ UNCHANGED faults
       \/ Fault /\ Fail("error") /\ UNCHANGED rows
    /\ UNCHANGED <<runnerVars, engineVars, gitVars, taskStatus, attemptStatus, workflow, writes>>

\* Mutant: git commit -a.
CommitAll == index' = tree /\ head' = tree

\* git commit, of what is staged.
CommitStaged == head' = index /\ UNCHANGED index

Commit ==
    /\ At("commit")
    /\ \/ CommitStaged /\ Goto("integrating")
       \/ Fail("error") /\ UNCHANGED <<index, head>>
    /\ UNCHANGED <<runnerVars, engineVars, tree, storeVars, workflow, boundVars>>

EnterIntegrating ==
    /\ At("integrating")
    /\ \/ taskStatus' = "INTEGRATING" /\ Goto("ended") /\ UNCHANGED faults
       \/ Fault /\ Fail("error") /\ UNCHANGED taskStatus
    /\ UNCHANGED <<runnerVars, engineVars, gitVars, rows, attemptStatus, workflow, writes>>

TaskStatusOf(kind) ==
    CASE kind = "cancelled" -> "CANCELLED"
      [] kind = "review_exhausted" -> "BLOCKED"
      [] OTHER -> "FAILED"

AttemptStatusOf(kind) ==
    CASE kind = "cancelled" -> "CANCELLED"
      [] kind = "timeout" -> "TIMED_OUT"
      [] OTHER -> "FAILED"

FailExecution ==
    /\ At("fail")
    /\ \/ /\ taskStatus' = TaskStatusOf(loop.failure)
          /\ attemptStatus' = AttemptStatusOf(loop.failure)
          /\ UNCHANGED faults
       \/ Fault /\ UNCHANGED <<taskStatus, attemptStatus>>
    /\ Goto("ended")
    /\ UNCHANGED <<runnerVars, engineVars, gitVars, rows, workflow, writes>>

-----------------------------------------------------------------------------
(* What the child processes do to the worktree *)

AgentAtWork == At("agent") /\ Writing
CheckAtWork == At("check") /\ Writing
CountWrite == writes < MaxWrites /\ writes' = writes + 1

WriteFile ==
    /\ AgentAtWork \/ CheckAtWork
    /\ CountWrite
    /\ \E f \in Files, v \in 1..MaxVersion : v # tree[f] /\ tree' = [tree EXCEPT ![f] = v]
    /\ UNCHANGED <<runnerVars, engineVars, index, head, storeVars, workflow, loop, faults>>

\* Agents are told not to stage and commit, and may.
AgentStages ==
    /\ AgentAtWork /\ index # tree
    /\ CountWrite
    /\ index' = tree
    /\ UNCHANGED <<runnerVars, engineVars, tree, head, storeVars, workflow, loop, faults>>

AgentCommits ==
    /\ AgentAtWork /\ head # index
    /\ CountWrite
    /\ head' = index
    /\ UNCHANGED <<runnerVars, engineVars, tree, index, storeVars, workflow, loop, faults>>

-----------------------------------------------------------------------------
ExecutorStep ==
    \/ EnterStage \/ OpenStage \/ Prepare \/ AgentReturns \/ CloseStage
    \/ StageAll \/ RunChecks \/ RecordVerdict \/ Commit \/ EnterIntegrating \/ FailExecution

RunnerStep == (ChildEvent \/ Abort)
              /\ UNCHANGED <<engineVars, gitVars, storeVars, workflow, loop, boundVars>>

Next == ExecutorStep \/ RunnerStep \/ WriteFile \/ AgentStages \/ AgentCommits

Spec == Init /\ [][Next]_vars

\* Timers fire and the executor goes on; no process ends because it should.
FairSpec ==
    /\ Spec
    /\ WF_vars(ExecutorStep)
    /\ WF_vars(TimerFires /\ RunnerStep)
    /\ WF_vars(ForceKillTimerFires /\ RunnerStep)
    /\ WF_vars(SpawnErrorEvent /\ RunnerStep)

-----------------------------------------------------------------------------
(* Properties *)

\* Types: every variable holds what the code can put there.
TypeOK ==
    /\ signal \in BOOLEAN /\ run \in Runs
    /\ results \in BoundedSeq(CheckOutcomes, NumChecks)
    /\ verdict \in CheckOutcomes \cup {"ERROR", NONE}
    /\ tree \in Contents /\ index \in Contents /\ head \in Contents
    /\ rows \in [Keys -> Rows]
    /\ taskStatus \in {"READY", "INTEGRATING", "FAILED", "CANCELLED", "BLOCKED"}
                      \cup {StageStatus(s) : s \in Range(StageOrder)}
    /\ attemptStatus \in {"RUNNING", "FAILED", "TIMED_OUT", "CANCELLED"}
    /\ workflow \in Workflows
    /\ loop.stage \in Range(StageOrder) /\ loop.cycle \in Cycles
    /\ loop.plan \in 0..MaxReviewCycles /\ loop.feedback \in 0..MaxReviewCycles
    /\ loop.result \in Rows
    /\ writes \in 0..MaxWrites /\ faults \in 0..MaxFaults

Ended == At("ended")
Committed == taskStatus = "INTEGRATING"
InUse(s) == {c \in Cycles : rows[<<s, c>>] # NoRow}
LastRow(s) == rows[<<s, LatestOf(InUse(s))>>]

\* What an agent is handed comes from three sources, the loop's memory, the
\* rows and the cycle: the plan under review is the one just made, the plan
\* implemented and the plan the code is reviewed against are the approved one,
\* and a repeated stage gets the feedback of the review before it.
AgentsWorkFromTheApprovedPlan ==
    At("agent") =>
        /\ Stage("PLAN_REVIEW") => loop.context.plan = loop.cycle
        /\ Stage("IMPLEMENT") /\ "PLAN" \in workflow => loop.context.plan \in SucceededPlans
        /\ Stage("IMPLEMENT") /\ "PLAN_REVIEW" \in workflow => loop.context.plan \in ApprovedCycles
        /\ Stage("CODE_REVIEW") => loop.context.plan = loop.plan
        /\ loop.stage \in WorkStages => loop.context.feedback = loop.cycle - 1

\* A commit is handed to integration only when the latest review of each kind
\* the workflow has approved, and every check passed.
CommitsAreGated ==
    Committed =>
        /\ \A s \in ReviewStages \cap workflow : LastRow(s).decision = "APPROVED"
        /\ LastRow("IMPLEMENT").status = "SUCCEEDED" /\ LastRow("VERIFY").status = "SUCCEEDED"
        /\ Len(results) = NumChecks /\ \A i \in 1..NumChecks : results[i] = "PASSED"

\* The runner's own commit has only paths the scope check saw, whatever the
\* checks write meanwhile; and it differs from what the approving reviewer was
\* shown only in new directories and in tracked files that were changed, or
\* staged, before the review began.
CommitIsConfined ==
    [][At("commit") =>
          \A f \in Files :
             /\ head'[f] # head[f] => f \in InScope
             /\ "CODE_REVIEW" \in workflow /\ head'[f] # loop.evidence[f] =>
                   \/ f \in Nested /\ Status(loop.before).newDirectory
                   \/ Entry(f, loop.before) # <<" ", " ">> /\ ~Untracked(f, loop.before)]_head

\* What the code review's header promises: the reviewer sees the diff and the
\* contents of new files, and a change made during the review fails it; so an
\* approved commit is what the reviewer was shown.
CommitIsWhatWasReviewed ==
    Committed /\ "CODE_REVIEW" \in workflow => head = loop.evidence

\* When the store has not failed, an attempt that ends leaves no stage RUNNING
\* and its status and its task's are those of the stage it ended with.
RowsTellTheOutcome ==
    Ended /\ faults = 0 =>
        LET last == rows[Key] IN
        /\ \A k \in Keys : rows[k].status # "RUNNING"
        /\ attemptStatus = "TIMED_OUT" <=> last.status = "TIMED_OUT"
        /\ taskStatus = "CANCELLED" <=> last.status = "CANCELLED"
        /\ taskStatus = "BLOCKED" <=> last.decision = "CHANGES_REQUIRED"

\* The history of stage runs is complete: a finished row never changes.
FinishedRowsAreFinal ==
    [][\A k \in Keys : rows[k].status \notin {"none", "RUNNING"} => rows'[k] = rows[k]]_rows

\* No process writes to the worktree while the runner inspects, stages or
\* commits it, or after the attempt: a stage is over when its child is gone.
WorktreeIsQuiet == ~At("agent") /\ ~At("check") => ~Writing

\* An attempt ends, however its agents behave, unless a check, which has no
\* timeout, or a descendant that keeps the pipes open runs for ever.
AttemptsEnd ==
    \/ <>Ended
    \/ <>[](run.child = "exited")
    \/ <>[](At("check") /\ run.child = "running")
=============================================================================
