------------------------- MODULE AttemptStagesProofs -------------------------
(***************************************************************************)
(* Proofs about AttemptStages, for every set of files and of workflows and *)
(* every number of checks, review cycles and failures: the types, which    *)
(* stage can be at which step (ControlOK), and that nothing of a stage     *)
(* writes when it is over (QuietOK).  What the rows say of an attempt is in*)
(* AttemptHistoryProofs.                                                   *)
(***************************************************************************)
EXTENDS AttemptStages, WellFoundedInduction, TLAPS

Stages == {"PLAN", "PLAN_REVIEW", "IMPLEMENT", "CODE_REVIEW", "VERIFY"}
Steps == {"enter", "open", "prepare", "agent", "close", "stageAll", "check", "commit",
          "integrating", "fail", "ended"}
Failures == {"error", "timeout", "cancelled", "review_exhausted", "verification_failed"}
Plans == 0..MaxReviewCycles
Worktrees == [tree : Contents, index : Contents, head : Contents]

LoopRecord ==
    [pc : Steps, stage : Stages, cycle : Cycles, plan : Plans, feedback : Plans,
     context : [plan : Plans, feedback : Plans], result : Rows, retry : BOOLEAN,
     before : Worktrees \cup {NONE}, evidence : Contents \cup {NONE},
     failure : Failures \cup {NONE}]

\* The stages are the five, and a row is found by a stage and a cycle.
LEMMA StagesAreFive == Range(StageOrder) = Stages /\ Keys = Stages \X Cycles
<1>1. Range(StageOrder) = Stages
  BY DEF Range, StageOrder, Stages
<1> QED BY <1>1 DEF Keys

-----------------------------------------------------------------------------
(* The latest cycle *)

\* A set of naturals that is not empty has a least element.
LEMMA LeastNatural ==
    ASSUME NEW T, T \subseteq Nat, T # {}
    PROVE  \E x \in T : \A y \in T : x <= y
<1> DEFINE R == OpToRel(<, Nat)
<1>1. PICK x \in T : \A y \in T : ~(<<y, x>> \in R)
  <2>1. IsWellFoundedOn(R, Nat)
    BY NatLessThanWellFounded
  <2> HIDE DEF R
  <2> QED BY <2>1, WFMin
<1>2. \A y \in T : ~(y < x)
  <2>1. \A y \in T : <<y, x>> \in Nat \X Nat
    OBVIOUS
  <2> QED BY <1>1, <2>1 DEF OpToRel
<1> QED BY <1>2

\* LatestOf is the greatest of the cycles it is given, and 0 when there is none.
LEMMA LatestIsGreatest ==
    ASSUME NEW S, S \subseteq Cycles
    PROVE  /\ LatestOf(S) \in Plans
           /\ S = {} => LatestOf(S) = 0
           /\ S # {} => LatestOf(S) \in S /\ \A d \in S : d <= LatestOf(S)
<1>1. MaxReviewCycles \in Nat /\ S \subseteq 1..MaxReviewCycles
  BY AttemptStagesAssumption DEF Cycles
<1>2. CASE S = {}
  BY <1>1, <1>2 DEF LatestOf, Plans
<1>3. CASE S # {}
  <2> DEFINE T == {MaxReviewCycles - d : d \in S}
  <2>1. T \subseteq Nat /\ T # {}
    <3>1. \A d \in S : MaxReviewCycles - d \in Nat
      BY <1>1
    <3>2. PICK d \in S : MaxReviewCycles - d \in T
      BY <1>3
    <3> QED BY <3>1, <3>2
  <2>2. PICK x \in T : \A y \in T : x <= y
    <3> HIDE DEF T
    <3> QED BY <2>1, LeastNatural
  <2>3. PICK c \in S : x = MaxReviewCycles - c
    BY <2>2
  <2>4. \A d \in S : MaxReviewCycles - c <= MaxReviewCycles - d
    BY <2>2, <2>3
  <2>5. \E g \in S : \A d \in S : d <= g
    BY <1>1, <2>4
  <2>6. LatestOf(S) \in S /\ \A d \in S : d <= LatestOf(S)
    BY <1>3, <2>5, Zenon DEF LatestOf
  <2>7. PICK g \in S : g = LatestOf(S) /\ \A d \in S : d <= g
    BY <2>6
  <2>8. g \in Plans
    BY <1>1 DEF Plans
  <2> QED BY <1>3, <2>6, <2>7, <2>8
<1> QED BY <1>2, <1>3

\* The greatest member is the latest.
LEMMA GreatestIsLatest ==
    ASSUME NEW S, S \subseteq Cycles, NEW c \in S, \A d \in S : d <= c
    PROVE  LatestOf(S) = c
<1>1. LatestOf(S) \in S /\ c <= LatestOf(S) /\ LatestOf(S) <= c
  BY LatestIsGreatest
<1>2. PICK g \in S : g = LatestOf(S)
  BY <1>1
<1>3. g \in Int /\ c \in Int /\ c <= g /\ g <= c
  BY <1>1, <1>2, AttemptStagesAssumption DEF Cycles
<1> QED BY <1>2, <1>3

-----------------------------------------------------------------------------
(* The child process *)

\* A run that is settled has no child that works.
RunnerInv ==
    /\ signal \in BOOLEAN /\ run \in Runs
    /\ Settled => run.child \in {"none", "closed"}

\* Runs are either vacant, pending or settled.
LEMMA RunsArePartitioned ==
    ASSUME RunnerInv
    PROVE  /\ Vacant \/ Pending \/ Settled
           /\ Writing => Pending
           /\ Vacant => ~Pending /\ ~Settled /\ ~Writing
BY DEF RunnerInv, Runs, Children, Vacant, Pending, Settled, Writing

\* Starting, the events of a child, an abort and collecting keep the types and
\* leave no settled run with a child at work.
LEMMA RunnerStepsKeepInv ==
    ASSUME RunnerInv
    PROVE  /\ \A timed \in BOOLEAN : Start(timed) => RunnerInv'
           /\ ChildEvent => RunnerInv' /\ Pending
           /\ Abort => RunnerInv' /\ (~Pending => run' = run) /\ (Pending => Pending')
           /\ Settled /\ Collect => RunnerInv' /\ Vacant'
<1> USE DEF RunnerInv, Runs, Children, Exits, Settled
<1>1. ASSUME NEW timed \in BOOLEAN, Start(timed)
      PROVE  RunnerInv'
  <2>1. NoRun \in Runs /\ NoRun.outcome = NONE /\ NoRun.child = "none"
    BY DEF NoRun
  <2>2. \A outcome \in Outcomes :
           /\ [NoRun EXCEPT !.outcome = outcome] \in Runs
           /\ [NoRun EXCEPT !.outcome = outcome].child = "none"
    BY <2>1
  <2>3. \A child \in {"unspawned", "running"} :
           /\ [NoRun EXCEPT !.child = child, !.timer = timed] \in Runs
           /\ [NoRun EXCEPT !.child = child, !.timer = timed].outcome = NONE
    BY <2>1
  <2>4. "cancelled" \in Outcomes /\ "spawn-error" \in Outcomes
    BY DEF Outcomes
  <2> HIDE DEF Runs, Children, Exits
  <2> QED BY <1>1, <2>2, <2>3, <2>4 DEF Start
<1>2. ASSUME ChildEvent
      PROVE  RunnerInv' /\ Pending
  <2>1. CASE TimerFires
    BY <2>1 DEF TimerFires, Killed, Pending
  <2>2. CASE ForceKillTimerFires
    BY <2>2 DEF ForceKillTimerFires, ForceKilled, Pending
  <2>3. CASE ChildExits
    BY <2>3 DEF ChildExits, Pending
  <2>4. CASE SpawnErrorEvent
    BY <2>4 DEF SpawnErrorEvent, Pending, Outcomes
  <2>5. CASE ChildCloses
    <3>1. OutcomeOfClose \in Outcomes
      BY DEF OutcomeOfClose, Outcomes
    <3> QED BY <2>5, <3>1 DEF ChildCloses, Pending
  <2> QED BY <1>2, <2>1, <2>2, <2>3, <2>4, <2>5 DEF ChildEvent
<1>3. ASSUME Abort
      PROVE  RunnerInv' /\ (~Pending => run' = run) /\ (Pending => Pending')
  BY <1>3 DEF Abort, Killed, Pending
<1>4. ASSUME Settled, Collect
      PROVE  RunnerInv' /\ Vacant'
  BY <1>4 DEF Collect, NoRun, Vacant
<1> QED BY <1>1, <1>2, <1>3, <1>4

-----------------------------------------------------------------------------
(* Types and control *)

TaskStatuses == {"READY", "INTEGRATING", "FAILED", "CANCELLED", "BLOCKED", "PLANNING",
                 "PLAN_REVIEW", "IMPLEMENTING", "CODE_REVIEW", "VERIFYING"}
AttemptStatuses == {"RUNNING", "FAILED", "TIMED_OUT", "CANCELLED"}

Types ==
    /\ RunnerInv
    /\ results \in Seq(CheckOutcomes) /\ Len(results) <= NumChecks
    /\ verdict \in CheckOutcomes \cup {"ERROR", NONE}
    /\ tree \in Contents /\ index \in Contents /\ head \in Contents
    /\ rows \in [Stages \X Cycles -> Rows]
    /\ taskStatus \in TaskStatuses /\ attemptStatus \in AttemptStatuses
    /\ workflow \in Workflows
    /\ loop \in LoopRecord
    /\ writes \in 0..MaxWrites /\ faults \in 0..MaxFaults

\* Which stage the executor is at where.
ControlOK ==
    /\ loop.pc \in {"check", "commit", "integrating"} => Stage("VERIFY")
    /\ loop.pc \in {"prepare", "agent", "close"} => ~Stage("VERIFY")
    /\ At("stageAll") => loop.stage \in {"IMPLEMENT", "CODE_REVIEW"}
    /\ At("stageAll") /\ "CODE_REVIEW" \in workflow => Stage("CODE_REVIEW")
    /\ Stage("VERIFY") => loop.cycle = 1
    /\ loop.stage \in {"PLAN", "PLAN_REVIEW", "CODE_REVIEW"} => loop.stage \in workflow

\* A child runs only for an agent or a check, and a check only while one is left.
QuietOK ==
    /\ ~At("agent") /\ ~At("check") => Vacant
    /\ At("check") /\ verdict # NONE => Vacant
    /\ At("check") /\ ~Vacant => Len(results) < NumChecks

BaseInv == Types /\ ControlOK /\ QuietOK

\* The invariant holds at the start of an attempt.
LEMMA BaseInvInit == Init => BaseInv
<1> SUFFICES ASSUME Init PROVE BaseInv
  OBVIOUS
<1>1. MaxReviewCycles \in Nat /\ 1 \in Cycles /\ 0 \in Plans /\ NumChecks \in Nat
  BY AttemptStagesAssumption, VerificationEngineAssumption DEF Cycles, Plans
<1>2. RunnerInv /\ Vacant
  BY DEF Init, RunnerInv, Runs, NoRun, Children, Exits, Settled, Vacant
<1>3. [f \in Files |-> 0] \in Contents
  BY AttemptStagesAssumption DEF Contents
<1>4. NoRow \in Rows
  BY <1>1 DEF NoRow, Row, Rows, RowStatuses, Plans
<1>5. workflow \in Workflows /\ FirstStage(workflow) \in {"PLAN", "IMPLEMENT"}
  BY DEF Init, FirstStage
<1>6. loop \in LoopRecord
  BY <1>1, <1>4, <1>5 DEF Init, LoopRecord, NoContext, Steps, Stages, Failures
<1>7. Types
  BY <1>1, <1>2, <1>3, <1>4, <1>5, <1>6, StagesAreFive, AttemptStagesAssumption
  DEF Init, Types, TaskStatuses, AttemptStatuses
<1>8. ControlOK /\ QuietOK
  BY <1>2, <1>5 DEF Init, ControlOK, QuietOK, At, Stage, FirstStage
<1> QED BY <1>7, <1>8 DEF BaseInv

\* The rows that are put are rows.
LEMMA RowsAreTyped ==
    ASSUME Types, NEW status \in RowStatuses, NEW plan \in Plans,
           NEW decision \in Decisions \cup {NONE}
    PROVE  /\ Row(status, plan, decision) \in Rows
           /\ Key \in Stages \X Cycles
           /\ PutRow(Row(status, plan, decision)) => rows' \in [Stages \X Cycles -> Rows]
           /\ StageEnds(status, plan, decision) => loop' \in LoopRecord
<1>1. Row(status, plan, decision) \in Rows
  BY DEF Row, Rows, Plans
<1>2. Key \in Stages \X Cycles /\ loop \in LoopRecord
  BY DEF Types, LoopRecord, Key
<1>3. PutRow(Row(status, plan, decision)) => rows' \in [Stages \X Cycles -> Rows]
  BY <1>1, <1>2 DEF PutRow, Types
<1>4. StageEnds(status, plan, decision) => loop' \in LoopRecord
  BY <1>1, <1>2 DEF StageEnds, LoopRecord, Steps
<1> QED BY <1>1, <1>2, <1>3, <1>4

\* Going on and failing keep the record, and change nothing else of it.
LEMMA MovesAreTyped ==
    ASSUME Types
    PROVE  /\ \A pc \in Steps : Goto(pc) =>
                 /\ loop' \in LoopRecord /\ loop'.pc = pc
                 /\ loop'.stage = loop.stage /\ loop'.cycle = loop.cycle
                 /\ loop'.plan = loop.plan /\ loop'.feedback = loop.feedback
                 /\ loop'.evidence = loop.evidence /\ loop'.before = loop.before
                 /\ loop'.failure = loop.failure
           /\ \A kind \in Failures : Fail(kind) =>
                 /\ loop' \in LoopRecord /\ loop'.pc = "fail" /\ loop'.failure = kind
                 /\ loop'.stage = loop.stage /\ loop'.cycle = loop.cycle
                 /\ loop'.plan = loop.plan /\ loop'.feedback = loop.feedback
                 /\ loop'.evidence = loop.evidence /\ loop'.before = loop.before
           /\ \A s \in Stages, c \in Cycles : GotoStage(s, c) =>
                 /\ loop' \in LoopRecord /\ loop'.pc = "enter"
                 /\ loop'.stage = s /\ loop'.cycle = c
                 /\ loop'.plan = loop.plan /\ loop'.feedback = loop.feedback
                 /\ loop'.evidence = loop.evidence /\ loop'.before = loop.before
<1>1. loop \in LoopRecord
  BY DEF Types
<1>2. ASSUME NEW pc \in Steps, Goto(pc)
      PROVE  /\ loop' \in LoopRecord /\ loop'.pc = pc
             /\ loop'.stage = loop.stage /\ loop'.cycle = loop.cycle
             /\ loop'.plan = loop.plan /\ loop'.feedback = loop.feedback
             /\ loop'.evidence = loop.evidence /\ loop'.before = loop.before
             /\ loop'.failure = loop.failure
  BY <1>1, <1>2 DEF Goto, LoopRecord
<1>3. ASSUME NEW kind \in Failures, Fail(kind)
      PROVE  /\ loop' \in LoopRecord /\ loop'.pc = "fail" /\ loop'.failure = kind
             /\ loop'.stage = loop.stage /\ loop'.cycle = loop.cycle
             /\ loop'.plan = loop.plan /\ loop'.feedback = loop.feedback
             /\ loop'.evidence = loop.evidence /\ loop'.before = loop.before
  BY <1>1, <1>3 DEF Fail, LoopRecord, Steps
<1>4. ASSUME NEW s \in Stages, NEW c \in Cycles, GotoStage(s, c)
      PROVE  /\ loop' \in LoopRecord /\ loop'.pc = "enter"
             /\ loop'.stage = s /\ loop'.cycle = c
             /\ loop'.plan = loop.plan /\ loop'.feedback = loop.feedback
             /\ loop'.evidence = loop.evidence /\ loop'.before = loop.before
  BY <1>1, <1>4 DEF GotoStage, LoopRecord, Steps
<1> QED BY <1>2, <1>3, <1>4

\* Entering, opening and preparing a stage keep the invariant.
LEMMA StageBeginsTyped ==
    ASSUME BaseInv, EnterStage \/ OpenStage \/ Prepare
    PROVE  BaseInv'
<1> USE DEF At, Stage, BaseInv
<1>1. /\ Types /\ ControlOK /\ QuietOK /\ loop \in LoopRecord
      /\ loop.pc \in Steps /\ loop.stage \in Stages
      /\ 0 \in Plans /\ MaxFaults \in Nat /\ faults \in 0..MaxFaults
  BY AttemptStagesAssumption DEF Types, LoopRecord, Plans
<1>2. Fault => faults' \in 0..MaxFaults
  BY <1>1 DEF Fault
<1>3. CASE EnterStage
  <2>1. StageStatus(loop.stage) \in TaskStatuses
    BY <1>1 DEF StageStatus, Stages, TaskStatuses
  <2>2. loop' \in LoopRecord /\ loop'.stage = loop.stage /\ loop'.cycle = loop.cycle
        /\ loop'.pc \in {"open", "fail"}
    BY <1>1, <1>3, MovesAreTyped DEF EnterStage, Steps, Failures
  <2>3. Types'
    BY <1>1, <1>2, <1>3, <2>1, <2>2
    DEF EnterStage, Types, RunnerInv, Settled, runnerVars, engineVars, gitVars
  <2> QED BY <1>1, <1>3, <2>2, <2>3
          DEF EnterStage, ControlOK, QuietOK, Vacant, Settled, runnerVars, engineVars
<1>4. CASE OpenStage
  <2>1. Row("RUNNING", 0, NONE) \in Rows /\ Row("CANCELLED", 0, NONE) \in Rows
    BY <1>1, RowsAreTyped DEF RowStatuses
  <2>2. /\ loop' \in LoopRecord /\ loop'.stage = loop.stage /\ loop'.cycle = loop.cycle
        /\ loop'.pc \in {"check", "close", "prepare", "fail"}
        /\ loop'.pc = "check" <=> loop'.pc # "fail" /\ loop.stage = "VERIFY"
    <3>1. CASE Fail("error")
      BY <1>1, <3>1, MovesAreTyped DEF Failures
    <3>2. CASE Stage("VERIFY") /\ loop' = [loop EXCEPT !.pc = "check"]
      BY <1>1, <3>2 DEF LoopRecord, Steps
    <3>3. CASE /\ ~Stage("VERIFY")
               /\ loop' = [loop EXCEPT !.pc = "close", !.result = Row("CANCELLED", 0, NONE),
                                       !.retry = FALSE]
      BY <1>1, <2>1, <3>3 DEF LoopRecord, Steps
    <3>4. CASE ~Stage("VERIFY") /\ loop' = [loop EXCEPT !.pc = "prepare", !.retry = TRUE]
      BY <1>1, <3>4 DEF LoopRecord, Steps
    <3> QED BY <1>4, <3>1, <3>2, <3>3, <3>4 DEF OpenStage
  <2>3. rows' \in [Stages \X Cycles -> Rows]
    BY <1>1, <1>4, RowsAreTyped DEF OpenStage, RowStatuses, Types
  <2>4. Types'
    BY <1>1, <1>2, <1>4, <2>2, <2>3
    DEF OpenStage, Types, RunnerInv, Settled, runnerVars, engineVars, gitVars
  <2> QED BY <1>1, <1>4, <2>2, <2>4
          DEF OpenStage, ControlOK, QuietOK, Vacant, Settled, runnerVars, engineVars
<1>5. CASE Prepare
  <2>1. Worktree \in Worktrees /\ Evidence(Worktree) \in Contents
    <3>1. tree \in Contents /\ MaxVersion \in Nat
      BY <1>1, AttemptStagesAssumption DEF Types
    <3> QED BY <1>1, <3>1 DEF Types, Worktree, Worktrees, Evidence, Contents
  <2>2. ContextOfStage \in [plan : Plans, feedback : Plans]
    <3>1. ReviewedPlan \in Plans
      BY <1>1, AttemptStagesAssumption DEF ReviewedPlan, SucceededPlans, LoopRecord, Cycles, Plans
    <3>2. PersistedPlan \in Plans
      BY LatestIsGreatest DEF PersistedPlan, SucceededPlans, ApprovedCycles
    <3> QED BY <1>1, <1>5, <3>1, <3>2
            DEF ContextOfStage, PlanContext, PlanReviewContext, ImplementContext,
                CodeReviewContext, LoopRecord, ControlOK, Prepare, Stages
  <2>3. CASE InvokeAgent /\ loop' = [loop EXCEPT !.pc = "agent", !.context = ContextOfStage,
                                  !.before = IF Stage("CODE_REVIEW") THEN Worktree ELSE NONE,
                                  !.evidence = IF Stage("CODE_REVIEW") THEN Evidence(Worktree)
                                               ELSE NONE]
    <3>1. /\ loop' \in LoopRecord /\ loop'.stage = loop.stage /\ loop'.cycle = loop.cycle
          /\ loop'.pc = "agent"
      BY <1>1, <2>1, <2>2, <2>3 DEF LoopRecord, Steps
    <3>2. RunnerInv'
      BY <1>1, <2>3, RunnerStepsKeepInv DEF InvokeAgent, Types
    <3> QED BY <1>1, <1>5, <2>3, <3>1, <3>2
            DEF Prepare, Types, ControlOK, QuietOK, engineVars, gitVars, storeVars, boundVars
  <2>4. CASE StageEnds("FAILED", 0, NONE) /\ UNCHANGED runnerVars
    <3>1. /\ loop' \in LoopRecord /\ loop'.stage = loop.stage /\ loop'.cycle = loop.cycle
          /\ loop'.pc = "close"
      BY <1>1, <2>4, RowsAreTyped DEF RowStatuses, StageEnds, LoopRecord
    <3> QED BY <1>1, <1>5, <2>4, <3>1
            DEF Prepare, Types, RunnerInv, Settled, Vacant, ControlOK, QuietOK, engineVars, gitVars,
                storeVars, boundVars, runnerVars
  <2> QED BY <1>5, <2>3, <2>4 DEF Prepare
<1> QED BY <1>3, <1>4, <1>5

\* Judging what the agent left keeps the invariant.
LEMMA AgentReturnsTyped ==
    ASSUME BaseInv, AgentReturns
    PROVE  BaseInv'
<1> USE DEF At, Stage, BaseInv
<1>1. /\ Types /\ ControlOK /\ QuietOK /\ loop \in LoopRecord
      /\ loop.cycle \in Plans /\ 0 \in Plans
  BY AttemptStagesAssumption DEF Types, LoopRecord, Cycles, Plans
<1>2. \E status \in RowStatuses, plan \in Plans, decision \in Decisions \cup {NONE} :
         StageEnds(status, plan, decision)
  <2>1. CASE StageEnds("FAILED", 0, NONE)
    BY <1>1, <2>1 DEF RowStatuses
  <2>2. CASE StageEnds("SUCCEEDED", loop.cycle, NONE)
    BY <1>1, <2>2 DEF RowStatuses
  <2>3. CASE \E d \in Decisions : StageEnds("SUCCEEDED", 0, d)
    BY <1>1, <2>3 DEF RowStatuses
  <2>4. CASE StageEnds("SUCCEEDED", 0, NONE)
    BY <1>1, <2>4 DEF RowStatuses
  <2>5. CASE StageEnds(StatusOfFailure(AgentResult(run.outcome)), 0, NONE)
    <3>1. StatusOfFailure(AgentResult(run.outcome)) \in RowStatuses
      BY DEF StatusOfFailure, RowStatuses
    <3> QED BY <1>1, <2>5, <3>1
  <2> QED BY <2>1, <2>2, <2>3, <2>4, <2>5
          DEF AgentReturns, PlanEnds, PlanReviewEnds, ImplementEnds, CodeReviewEnds
<1>3. loop' \in LoopRecord
  BY <1>1, <1>2, RowsAreTyped
<1>4. /\ loop'.stage = loop.stage /\ loop'.cycle = loop.cycle /\ loop'.pc = "close"
  BY <1>1, <1>2 DEF StageEnds, LoopRecord
<1>5. RunnerInv' /\ Vacant'
  BY <1>1, RunnerStepsKeepInv DEF AgentReturns, Types
<1> QED BY <1>1, <1>3, <1>4, <1>5
        DEF AgentReturns, Types, ControlOK, QuietOK, engineVars, gitVars, storeVars, boundVars

\* Where the loops go from a closed stage.
LEMMA LoopsGoOn ==
    ASSUME Types, ControlOK, At("close"), StageFailed \/ WorkSucceeded \/ ReviewSucceeded
    PROVE  /\ loop' \in LoopRecord
           /\ loop'.pc \in {"fail", "enter", "stageAll"}
           /\ loop'.stage \in {"PLAN", "PLAN_REVIEW", "IMPLEMENT", "CODE_REVIEW"}
           /\ loop'.stage \in {"PLAN", "PLAN_REVIEW", "CODE_REVIEW"} => loop'.stage \in workflow
           /\ loop'.pc = "stageAll" => /\ loop'.stage \in {"IMPLEMENT", "CODE_REVIEW"}
                                       /\ "CODE_REVIEW" \in workflow => loop'.stage = "CODE_REVIEW"
<1> USE DEF At, Stage
<1>1. /\ loop \in LoopRecord /\ loop.stage \in {"PLAN", "PLAN_REVIEW", "IMPLEMENT", "CODE_REVIEW"}
      /\ loop.cycle \in Cycles /\ 0 \in Plans /\ 1 \in Cycles /\ MaxReviewCycles \in Nat
      /\ loop.cycle \in Plans
      /\ "PLAN_REVIEW" \in workflow => "PLAN" \in workflow
  BY AttemptStagesAssumption DEF Types, ControlOK, LoopRecord, Stages, Cycles, Plans
<1>2. CASE StageFailed
  <2>1. FailureOf(loop.result.status) \in Failures
    BY DEF FailureOf, Failures
  <2>2. Fail(FailureOf(loop.result.status))
    BY <1>2 DEF StageFailed
  <2>3. /\ loop' \in LoopRecord /\ loop'.pc = "fail" /\ loop'.stage = loop.stage
    BY <2>1, <2>2, MovesAreTyped
  <2> QED BY <1>1, <2>3 DEF ControlOK
<1>3. ASSUME BeginImplementing
      PROVE  loop' \in LoopRecord /\ loop'.pc = "enter" /\ loop'.stage = "IMPLEMENT"
  <2>1. ApprovedPlan' \in Plans
    <3>1. SucceededPlans' \subseteq Cycles
      BY DEF SucceededPlans
    <3>2. LatestOf(SucceededPlans') \in Plans
      BY <3>1, LatestIsGreatest
    <3> QED BY <3>2 DEF ApprovedPlan
  <2> QED BY <1>1, <1>3, <2>1 DEF BeginImplementing, LoopRecord, Steps, Stages
<1>4. CASE WorkSucceeded
  <2>1. CASE Stage("PLAN")
    <3>1. CASE "PLAN_REVIEW" \in workflow
      BY <1>1, <1>4, <2>1, <3>1, MovesAreTyped DEF WorkSucceeded, Stages
    <3>2. CASE "PLAN_REVIEW" \notin workflow
      BY <1>3, <1>4, <2>1, <3>2 DEF WorkSucceeded
    <3> QED BY <3>1, <3>2
  <2>2. CASE Stage("IMPLEMENT")
    <3>1. CASE "CODE_REVIEW" \in workflow
      BY <1>1, <1>4, <2>2, <3>1, MovesAreTyped DEF WorkSucceeded, Stages
    <3>2. CASE "CODE_REVIEW" \notin workflow
      BY <1>1, <1>4, <2>2, <3>2, MovesAreTyped DEF WorkSucceeded, Steps
    <3> QED BY <3>1, <3>2
  <2> QED BY <1>4, <2>1, <2>2 DEF WorkSucceeded, WorkStages
<1>5. CASE ReviewSucceeded
  <2>1. loop.stage \in ReviewStages /\ loop.stage \in workflow
    BY <1>1, <1>5 DEF ReviewSucceeded, ReviewStages, ControlOK
  <2>2. CASE CycleOutcome = "PASSED" /\ Stage("PLAN_REVIEW")
    BY <1>3, <1>5, <2>2 DEF ReviewSucceeded
  <2>3. CASE CycleOutcome = "PASSED" /\ ~Stage("PLAN_REVIEW")
    <3>1. Goto("stageAll") /\ Stage("CODE_REVIEW")
      BY <1>5, <2>1, <2>3 DEF ReviewSucceeded, ReviewStages
    <3> QED BY <1>1, <2>1, <3>1, MovesAreTyped DEF Steps
  <2>4. CASE CycleOutcome = "LIMIT_EXHAUSTED"
    <3>1. Fail("review_exhausted")
      BY <1>5, <2>4 DEF ReviewSucceeded
    <3>2. loop' \in LoopRecord /\ loop'.pc = "fail" /\ loop'.stage = loop.stage
      BY <3>1, MovesAreTyped DEF Failures
    <3> QED BY <1>1, <3>2 DEF ControlOK
  <2>5. CASE CycleOutcome = "FIX_ALLOWED"
    <3>1. loop' = [loop EXCEPT !.pc = "enter", !.cycle = @ + 1, !.feedback = loop.cycle,
                         !.stage = IF @ = "PLAN_REVIEW" THEN "PLAN" ELSE "IMPLEMENT"]
      BY <1>5, <2>5 DEF ReviewSucceeded
    <3>2. loop.cycle < MaxReviewCycles
      <4>1. ~(loop.cycle >= MaxReviewCycles)
        BY <2>5, Zenon DEF CycleOutcome
      <4> QED BY <1>1, <4>1 DEF Cycles
    <3>3. loop.cycle + 1 \in Cycles
      BY <1>1, <3>2 DEF Cycles
    <3>4. loop' \in LoopRecord /\ loop'.pc = "enter"
          /\ loop'.stage = IF loop.stage = "PLAN_REVIEW" THEN "PLAN" ELSE "IMPLEMENT"
      BY <1>1, <3>1, <3>3 DEF LoopRecord, Steps, Stages
    <3> QED BY <1>1, <2>1, <3>4
  <2> QED BY <2>2, <2>3, <2>4, <2>5 DEF CycleOutcome
<1> QED BY <1>2, <1>4, <1>5

\* Closing a stage keeps the invariant.
LEMMA StageClosesTyped ==
    ASSUME BaseInv, CloseStage
    PROVE  BaseInv'
<1> USE DEF At, Stage, BaseInv
<1>1. /\ Types /\ ControlOK /\ QuietOK /\ loop \in LoopRecord /\ loop.result \in Rows
      /\ loop.stage \in Stages /\ loop.stage # "VERIFY" /\ At("close")
      /\ 0 \in Plans /\ MaxFaults \in Nat /\ faults \in 0..MaxFaults
      /\ rows \in [Stages \X Cycles -> Rows]
  BY AttemptStagesAssumption DEF Types, LoopRecord, Plans, CloseStage, ControlOK
<1>2. UNCHANGED <<runnerVars, engineVars, gitVars, taskStatus, attemptStatus, workflow, writes>>
  BY DEF CloseStage
<1>3. CASE PutRow(loop.result) /\ (StageFailed \/ WorkSucceeded \/ ReviewSucceeded)
           /\ UNCHANGED faults
  <2>1. rows' \in [Stages \X Cycles -> Rows]
    BY <1>1, <1>3 DEF PutRow
  <2>2. /\ loop' \in LoopRecord
        /\ loop'.pc \in {"fail", "enter", "stageAll"}
        /\ loop'.stage \in {"PLAN", "PLAN_REVIEW", "IMPLEMENT", "CODE_REVIEW"}
        /\ loop'.stage \in {"PLAN", "PLAN_REVIEW", "CODE_REVIEW"} => loop'.stage \in workflow
        /\ loop'.pc = "stageAll" => /\ loop'.stage \in {"IMPLEMENT", "CODE_REVIEW"}
                                    /\ "CODE_REVIEW" \in workflow => loop'.stage = "CODE_REVIEW"
    BY <1>1, <1>3, LoopsGoOn
  <2>3. Types'
    BY <1>1, <1>2, <1>3, <2>1, <2>2
    DEF Types, RunnerInv, Settled, runnerVars, engineVars, gitVars
  <2> QED BY <1>1, <1>2, <1>3, <2>2, <2>3
          DEF ControlOK, QuietOK, Vacant, Settled, runnerVars, engineVars
<1>4. CASE /\ Fault /\ UNCHANGED rows
           /\ loop' = [loop EXCEPT !.result = Row("FAILED", 0, NONE), !.retry = FALSE]
  <2>1. loop' \in LoopRecord /\ loop'.stage = loop.stage /\ loop'.cycle = loop.cycle
        /\ loop'.pc = loop.pc
    <3>1. Row("FAILED", 0, NONE) \in Rows
      BY <1>1, RowsAreTyped DEF RowStatuses
    <3> QED BY <1>1, <1>4, <3>1 DEF LoopRecord
  <2>2. faults' \in 0..MaxFaults
    BY <1>1, <1>4 DEF Fault
  <2>3. Types'
    BY <1>1, <1>2, <1>4, <2>1, <2>2
    DEF Types, RunnerInv, Settled, runnerVars, engineVars, gitVars
  <2> QED BY <1>1, <1>2, <2>1, <2>3
          DEF ControlOK, QuietOK, Vacant, Settled, runnerVars, engineVars
<1>5. CASE Fault /\ UNCHANGED rows /\ Fail("error")
  <2>1. loop' \in LoopRecord /\ loop'.stage = loop.stage /\ loop'.cycle = loop.cycle
        /\ loop'.pc = "fail"
    BY <1>1, <1>5, MovesAreTyped DEF Failures
  <2>2. faults' \in 0..MaxFaults
    BY <1>1, <1>5 DEF Fault
  <2>3. Types'
    BY <1>1, <1>2, <1>5, <2>1, <2>2
    DEF Types, RunnerInv, Settled, runnerVars, engineVars, gitVars
  <2> QED BY <1>1, <1>2, <2>1, <2>3
          DEF ControlOK, QuietOK, Vacant, Settled, runnerVars, engineVars
<1> QED BY <1>3, <1>4, <1>5 DEF CloseStage

\* Staging the change keeps the invariant, and VERIFY has one cycle.
LEMMA StageAllTyped ==
    ASSUME BaseInv, StageAll
    PROVE  BaseInv'
<1> USE DEF At, Stage, BaseInv
<1>1. /\ Types /\ ControlOK /\ QuietOK /\ loop \in LoopRecord /\ 1 \in Cycles
      /\ loop.stage # "VERIFY"
  BY AttemptStagesAssumption DEF Types, Cycles, StageAll, ControlOK
<1>2. index' \in Contents
  BY <1>1 DEF StageAll, Types
<1>3. \/ /\ loop' \in LoopRecord /\ loop'.pc = "enter"
         /\ loop'.stage = "VERIFY" /\ loop'.cycle = 1
      \/ /\ loop' \in LoopRecord /\ loop'.pc = "fail"
         /\ loop'.stage = loop.stage /\ loop'.cycle = loop.cycle
  <2>1. CASE GotoStage("VERIFY", 1)
    BY <1>1, <2>1, MovesAreTyped DEF Stages
  <2>2. CASE Fail("error")
    BY <1>1, <2>2, MovesAreTyped DEF Failures
  <2> QED BY <2>1, <2>2 DEF StageAll
<1>4. Types'
  BY <1>1, <1>2, <1>3
  DEF StageAll, Types, RunnerInv, Settled, runnerVars, engineVars, storeVars, boundVars
<1> QED BY <1>1, <1>3, <1>4
        DEF StageAll, ControlOK, QuietOK, Vacant, Settled, runnerVars, engineVars, storeVars

\* The verdict of a verification run is a check's outcome.
LEMMA VerdictIsTyped ==
    ASSUME results \in Seq(CheckOutcomes)
    PROVE  RunStatus \in CheckOutcomes
BY DEF RunStatus, CheckOutcomes

\* Running the checks keeps the invariant: a check is started, and its outcome
\* appended, only while one is left.
LEMMA ChecksTyped ==
    ASSUME BaseInv, RunChecks
    PROVE  BaseInv'
<1> USE DEF At, Stage, BaseInv
<1>1. /\ Types /\ ControlOK /\ QuietOK /\ At("check") /\ verdict = NONE
      /\ RunnerInv /\ NumChecks \in Nat
      /\ results \in Seq(CheckOutcomes) /\ Len(results) <= NumChecks
      /\ NONE \notin CheckOutcomes \cup {"ERROR"}
  BY VerificationEngineAssumption DEF Types, RunChecks
<1>2. UNCHANGED <<gitVars, storeVars, workflow, loop, boundVars>>
  BY DEF RunChecks
<1>3. CASE EngineThrows
  BY <1>1, <1>2, <1>3
  DEF EngineThrows, Types, RunnerInv, Settled, Vacant, ControlOK, QuietOK, runnerVars,
      gitVars, storeVars, boundVars
<1>4. CASE StartCheck
  <2>1. Len(results) < NumChecks
    BY <1>1, <1>4 DEF StartCheck, EngineStops
  <2>2. RunnerInv'
    BY <1>1, <1>4, RunnerStepsKeepInv DEF StartCheck
  <2> QED BY <1>1, <1>2, <1>4, <2>1, <2>2
          DEF StartCheck, Types, ControlOK, QuietOK, engineVars, gitVars, storeVars, boundVars
<1>5. CASE CheckReturns
  <2>1. Len(results) < NumChecks
    BY <1>1, <1>5, RunsArePartitioned DEF CheckReturns, QuietOK, Vacant
  <2>2. CheckOutcome(run.outcome) \in CheckOutcomes
    BY DEF CheckOutcome, CheckOutcomes
  <2>3. results' \in Seq(CheckOutcomes) /\ Len(results') <= NumChecks
    BY <1>1, <1>5, <2>1, <2>2 DEF CheckReturns
  <2>4. RunnerInv' /\ Vacant'
    BY <1>1, <1>5, RunnerStepsKeepInv DEF CheckReturns
  <2> QED BY <1>1, <1>2, <1>5, <2>3, <2>4
          DEF CheckReturns, Types, ControlOK, QuietOK, gitVars, storeVars, boundVars
<1>6. CASE EngineReturns
  <2>1. verdict' \in CheckOutcomes
    BY <1>1, <1>6, VerdictIsTyped DEF EngineReturns, CheckOutcomes
  <2> QED BY <1>1, <1>2, <1>6, <2>1
          DEF EngineReturns, Types, RunnerInv, Settled, Vacant, ControlOK, QuietOK, runnerVars,
              gitVars, storeVars, boundVars
<1> QED BY <1>3, <1>4, <1>5, <1>6 DEF RunChecks

\* Recording the verdict, committing and what ends the attempt keep the invariant.
LEMMA AttemptEndsTyped ==
    ASSUME BaseInv, RecordVerdict \/ Commit \/ EnterIntegrating \/ FailExecution
    PROVE  BaseInv'
<1> USE DEF At, Stage, BaseInv
<1>1. /\ Types /\ ControlOK /\ QuietOK /\ loop \in LoopRecord
      /\ 0 \in Plans /\ MaxFaults \in Nat /\ faults \in 0..MaxFaults
      /\ Vacant
  BY AttemptStagesAssumption
  DEF Types, Plans, QuietOK, RecordVerdict, Commit, EnterIntegrating, FailExecution
<1>2. Fault => faults' \in 0..MaxFaults
  BY <1>1 DEF Fault
<1>3. /\ loop' \in LoopRecord /\ loop'.stage = loop.stage /\ loop'.cycle = loop.cycle
      /\ loop'.pc \in {"commit", "integrating", "ended", "fail"}
      /\ loop'.pc \in {"commit", "integrating"} => loop.pc \in {"check", "commit"}
  <2>1. CASE RecordVerdict
    <3>1. VerdictFailure \in Failures
      BY DEF VerdictFailure, Failures
    <3> QED BY <1>1, <2>1, <3>1, MovesAreTyped DEF RecordVerdict, Steps, Failures
  <2>2. CASE Commit
    BY <1>1, <2>2, MovesAreTyped DEF Commit, Steps, Failures
  <2>3. CASE EnterIntegrating
    BY <1>1, <2>3, MovesAreTyped DEF EnterIntegrating, Steps, Failures
  <2>4. CASE FailExecution
    BY <1>1, <2>4, MovesAreTyped DEF FailExecution, Steps
  <2> QED BY <2>1, <2>2, <2>3, <2>4
<1>4. Types'
  <2>1. CASE RecordVerdict
    <3>1. VerdictStatus \in RowStatuses
      BY <1>1, <2>1 DEF RecordVerdict, VerdictStatus, RowStatuses, Types, CheckOutcomes
    <3>2. rows' \in [Stages \X Cycles -> Rows]
      BY <1>1, <2>1, <3>1, RowsAreTyped DEF RecordVerdict, Types
    <3> QED BY <1>1, <1>2, <1>3, <2>1, <3>2
            DEF RecordVerdict, Types, RunnerInv, Settled, runnerVars, engineVars, gitVars
  <2>2. CASE Commit
    <3>1. index' \in Contents /\ head' \in Contents
      BY <1>1, <2>2 DEF Commit, CommitStaged, Types
    <3> QED BY <1>1, <1>2, <1>3, <2>2, <3>1
            DEF Commit, Types, RunnerInv, Settled, runnerVars, engineVars, storeVars, boundVars
  <2>3. CASE EnterIntegrating
    BY <1>1, <1>2, <1>3, <2>3
    DEF EnterIntegrating, Types, TaskStatuses, RunnerInv, Settled, runnerVars, engineVars, gitVars
  <2>4. CASE FailExecution
    <3>1. taskStatus' \in TaskStatuses /\ attemptStatus' \in AttemptStatuses
      BY <1>1, <2>4
      DEF FailExecution, TaskStatusOf, AttemptStatusOf, TaskStatuses, AttemptStatuses, Types
    <3> QED BY <1>1, <1>2, <1>3, <2>4, <3>1
            DEF FailExecution, Types, RunnerInv, Settled, runnerVars, engineVars, gitVars
  <2> QED BY <2>1, <2>2, <2>3, <2>4
<1>5. Vacant'
  BY <1>1 DEF RecordVerdict, Commit, EnterIntegrating, FailExecution, Vacant, Settled, runnerVars
<1>6. workflow' = workflow
  BY DEF RecordVerdict, Commit, EnterIntegrating, FailExecution
<1> QED BY <1>1, <1>3, <1>4, <1>5, <1>6 DEF ControlOK, QuietOK

\* A child's events and an abort keep the invariant: they need a pending run.
LEMMA RunnerStepTyped ==
    ASSUME BaseInv, RunnerStep
    PROVE  BaseInv'
<1> USE DEF At, Stage, BaseInv
<1>1. /\ Types /\ ControlOK /\ QuietOK /\ RunnerInv
      /\ UNCHANGED <<engineVars, gitVars, storeVars, workflow, loop, boundVars>>
  BY DEF Types, RunnerStep
<1>2. RunnerInv' /\ (run' = run \/ Pending)
  BY <1>1, RunnerStepsKeepInv DEF RunnerStep
<1>3. Types' /\ ControlOK'
  BY <1>1, <1>2 DEF Types, ControlOK, engineVars, gitVars, storeVars, boundVars
<1>4. QuietOK'
  BY <1>1, <1>2, RunsArePartitioned DEF QuietOK, Vacant, Settled, engineVars
<1> QED BY <1>3, <1>4

\* So does what the processes write: a version, the index, a commit.
LEMMA WritesTyped ==
    ASSUME BaseInv, WriteFile \/ AgentStages \/ AgentCommits
    PROVE  BaseInv'
<1> USE DEF At, Stage, BaseInv
<1>1. /\ Types /\ ControlOK /\ QuietOK /\ MaxWrites \in Nat /\ MaxVersion \in Nat
      /\ tree \in [Files -> 0..MaxVersion] /\ writes \in 0..MaxWrites
  BY AttemptStagesAssumption DEF Types, Contents
<1>2. /\ UNCHANGED <<runnerVars, engineVars, storeVars, workflow, loop, faults>>
      /\ CountWrite
  BY DEF WriteFile, AgentStages, AgentCommits
<1>3. writes' \in 0..MaxWrites
  BY <1>1, <1>2 DEF CountWrite
<1>4. tree' \in Contents /\ index' \in Contents /\ head' \in Contents
  <2>1. CASE WriteFile
    BY <1>1, <2>1 DEF WriteFile, Types, Contents
  <2>2. CASE AgentStages
    BY <1>1, <2>2 DEF AgentStages, Types
  <2>3. CASE AgentCommits
    BY <1>1, <2>3 DEF AgentCommits, Types
  <2> QED BY <2>1, <2>2, <2>3
<1> QED BY <1>1, <1>2, <1>3, <1>4
        DEF Types, RunnerInv, Settled, Vacant, ControlOK, QuietOK, runnerVars, engineVars,
            storeVars

\* Every step of an attempt keeps the invariant.
LEMMA BaseInvStep == BaseInv /\ [Next]_vars => BaseInv'
<1> SUFFICES ASSUME BaseInv, [Next]_vars PROVE BaseInv'
  OBVIOUS
<1>1. CASE UNCHANGED vars
  BY <1>1 DEF BaseInv, Types, RunnerInv, Settled, Vacant, ControlOK, QuietOK, At, Stage, vars,
              runnerVars, engineVars, gitVars, storeVars, boundVars
<1>2. CASE ExecutorStep
  BY <1>2, StageBeginsTyped, AgentReturnsTyped, StageClosesTyped, StageAllTyped, ChecksTyped,
     AttemptEndsTyped
  DEF ExecutorStep
<1> QED BY <1>1, <1>2, RunnerStepTyped, WritesTyped DEF Next

\* The invariant holds throughout an attempt.
LEMMA AttemptsKeepInv == Spec => []BaseInv
<1> QED BY BaseInvInit, BaseInvStep, PTL DEF Spec

-----------------------------------------------------------------------------
(* What it shows *)

\* Types: rows, the loop's record, the index and the results of the checks are
\* what the code can put there; no more checks run than are configured.
THEOREM AttemptTypeCorrect == Spec => []TypeOK
<1>1. BaseInv => TypeOK
  <2> SUFFICES ASSUME BaseInv PROVE TypeOK
    OBVIOUS
  <2>1. Types
    BY DEF BaseInv
  <2>2. results \in BoundedSeq(CheckOutcomes, NumChecks)
    <3>1. Len(results) \in 0..NumChecks /\ results \in [1..Len(results) -> CheckOutcomes]
      BY <2>1, VerificationEngineAssumption DEF Types
    <3> QED BY <3>1 DEF BoundedSeq, SeqOf
  <2>3. taskStatus \in {"READY", "INTEGRATING", "FAILED", "CANCELLED", "BLOCKED"}
                      \cup {StageStatus(s) : s \in Range(StageOrder)}
    <3>1. /\ StageStatus("PLAN") = "PLANNING" /\ StageStatus("PLAN_REVIEW") = "PLAN_REVIEW"
          /\ StageStatus("IMPLEMENT") = "IMPLEMENTING"
          /\ StageStatus("CODE_REVIEW") = "CODE_REVIEW" /\ StageStatus("VERIFY") = "VERIFYING"
      BY DEF StageStatus
    <3> QED BY <2>1, <3>1, StagesAreFive DEF Types, TaskStatuses, Stages
  <2> QED BY <2>1, <2>2, <2>3, StagesAreFive
          DEF Types, TypeOK, RunnerInv, LoopRecord, Plans, AttemptStatuses
<1> QED BY <1>1, AttemptsKeepInv, PTL

\* No process writes to the worktree while the runner inspects, stages or
\* commits it: a settled run has no child, and a stage ends when it is settled.
THEOREM WorktreeStaysQuiet == Spec => []WorktreeIsQuiet
<1>1. BaseInv => WorktreeIsQuiet
  BY DEF BaseInv, QuietOK, Vacant, WorktreeIsQuiet, Writing
<1> QED BY <1>1, AttemptsKeepInv, PTL
=============================================================================
