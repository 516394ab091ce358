--------------------------- MODULE AttemptHistoryProofs ---------------------------
(***************************************************************************)
(* Proofs about what an attempt leaves behind, on top of the types and the *)
(* control of AttemptStagesProofs: the rows of its stage runs, the plan    *)
(* and the feedback its agents are given, what lets it commit and what the *)
(* commit contains.  Stage runs are numbered in the order they can happen  *)
(* in (Rank): those to come have no row, and only the one the executor is  *)
(* at may be RUNNING.                                                      *)
(***************************************************************************)
EXTENDS AttemptStagesProofs

Turns == 2 * MaxReviewCycles + 2

Rank(s, c) ==
    2 * c + CASE s = "PLAN" -> 0
              [] s = "PLAN_REVIEW" -> 1
              [] s = "IMPLEMENT" -> Turns
              [] s = "CODE_REVIEW" -> Turns + 1
              [] s = "VERIFY" -> 2 * Turns

\* The rows that are written, are being written and are to come.
RowsOK ==
    /\ \A s \in Stages, c \in Cycles :
          Rank(s, c) > Rank(loop.stage, loop.cycle) => rows[<<s, c>>] = NoRow
    /\ \A s \in Stages, c \in Cycles :
          s # loop.stage \/ c # loop.cycle => rows[<<s, c>>].status # "RUNNING"
    /\ loop.pc \in {"enter", "open"} => rows[Key] = NoRow
    /\ loop.pc \in {"prepare", "agent", "close", "check"} => rows[Key].status = "RUNNING"
    /\ loop.pc \in {"stageAll", "commit", "integrating"} => rows[Key].status = "SUCCEEDED"
    /\ "PLAN_REVIEW" \notin workflow => \A c \in Cycles : rows[<<"PLAN_REVIEW", c>>] = NoRow
    /\ "PLAN" \notin workflow => \A c \in Cycles : rows[<<"PLAN", c>>] = NoRow

\* A decision is the verdict of a review that succeeded.
ResultOK ==
    At("close") =>
        /\ loop.result.status \in {"SUCCEEDED", "FAILED", "TIMED_OUT", "CANCELLED"}
        /\ IF loop.result.status = "SUCCEEDED" /\ loop.stage \in ReviewStages
           THEN loop.result.decision \in Decisions ELSE loop.result.decision = NONE

RowsInv == RowsOK /\ ResultOK

\* How the loops leave a closed stage.
Moves(pc, s, c) == loop'.pc = pc /\ loop'.stage = s /\ loop'.cycle = c

Fails ==
    /\ loop.result.status # "SUCCEEDED"
    /\ Moves("fail", loop.stage, loop.cycle)
    /\ loop'.plan = loop.plan /\ loop'.feedback = loop.feedback
    /\ loop'.failure = FailureOf(loop.result.status)

Exhausted ==
    /\ loop.result.status = "SUCCEEDED" /\ loop.result.decision = "CHANGES_REQUIRED"
    /\ Moves("fail", loop.stage, loop.cycle)
    /\ loop'.plan = loop.plan /\ loop'.feedback = loop.feedback
    /\ loop'.failure = "review_exhausted"

WorkIsDone ==
    /\ loop.result.status = "SUCCEEDED"
    /\ \/ Stage("IMPLEMENT") /\ "CODE_REVIEW" \notin workflow /\ loop.result.decision = NONE
       \/ Stage("CODE_REVIEW") /\ loop.result.decision = "APPROVED"
    /\ Moves("stageAll", loop.stage, loop.cycle)
    /\ loop'.plan = loop.plan /\ loop'.feedback = loop.feedback

IsReviewed(work, review) ==
    /\ loop.result.status = "SUCCEEDED" /\ Stage(work) /\ review \in workflow
    /\ Moves("enter", review, loop.cycle)
    /\ loop'.plan = loop.plan /\ loop'.feedback = loop.feedback

IsRepeated(work, review) ==
    /\ loop.result.status = "SUCCEEDED" /\ Stage(review) /\ loop.cycle < MaxReviewCycles
    /\ Moves("enter", work, loop.cycle + 1)
    /\ loop'.plan = loop.plan /\ loop'.feedback = loop.cycle

PlanningIsOver ==
    /\ loop.result.status = "SUCCEEDED"
    /\ \/ Stage("PLAN") /\ "PLAN_REVIEW" \notin workflow
       \/ Stage("PLAN_REVIEW") /\ loop.result.decision = "APPROVED"
    /\ Moves("enter", "IMPLEMENT", 1)
    /\ loop'.plan = ApprovedPlan' /\ loop'.feedback = 0

\* These are all the ways, and none loses what the reviewer was shown.
LEMMA WaysOn ==
    ASSUME Types, ControlOK, ResultOK, At("close"),
           StageFailed \/ WorkSucceeded \/ ReviewSucceeded
    PROVE  /\ loop'.before = loop.before /\ loop'.evidence = loop.evidence
           /\ \/ Fails \/ Exhausted \/ WorkIsDone \/ PlanningIsOver
              \/ IsReviewed("PLAN", "PLAN_REVIEW") \/ IsReviewed("IMPLEMENT", "CODE_REVIEW")
              \/ IsRepeated("PLAN", "PLAN_REVIEW") \/ IsRepeated("IMPLEMENT", "CODE_REVIEW")
<1> USE DEF At, Stage
<1>1. /\ loop \in LoopRecord /\ loop.stage \in {"PLAN", "PLAN_REVIEW", "IMPLEMENT", "CODE_REVIEW"}
      /\ loop.cycle \in Cycles /\ 0 \in Plans /\ 1 \in Cycles /\ MaxReviewCycles \in Nat
      /\ loop.cycle \in Plans
  BY AttemptStagesAssumption DEF Types, ControlOK, LoopRecord, Stages, Cycles, Plans
<1>2. CASE StageFailed
  <2>1. FailureOf(loop.result.status) \in Failures
    BY DEF FailureOf, Failures
  <2>2. Fail(FailureOf(loop.result.status)) /\ loop.result.status # "SUCCEEDED"
    BY <1>2 DEF StageFailed
  <2> QED BY <2>1, <2>2, MovesAreTyped DEF Fails, Moves
<1>3. ASSUME BeginImplementing
      PROVE  /\ Moves("enter", "IMPLEMENT", 1) /\ loop'.plan = ApprovedPlan' /\ loop'.feedback = 0
             /\ loop'.before = loop.before /\ loop'.evidence = loop.evidence
  BY <1>1, <1>3 DEF BeginImplementing, LoopRecord, Moves
<1>4. CASE WorkSucceeded
  <2>1. loop.result.status = "SUCCEEDED" /\ loop.stage \in WorkStages
    BY <1>4 DEF WorkSucceeded
  <2>2. CASE Stage("PLAN") /\ "PLAN_REVIEW" \in workflow
    <3>1. GotoStage("PLAN_REVIEW", loop.cycle)
      BY <1>4, <2>2 DEF WorkSucceeded
    <3> QED BY <1>1, <2>1, <2>2, <3>1, MovesAreTyped DEF IsReviewed, Moves, Stages
  <2>3. CASE Stage("PLAN") /\ "PLAN_REVIEW" \notin workflow
    <3>1. BeginImplementing
      BY <1>4, <2>3 DEF WorkSucceeded
    <3> QED BY <1>3, <2>1, <2>3, <3>1 DEF PlanningIsOver
  <2>4. CASE Stage("IMPLEMENT") /\ "CODE_REVIEW" \in workflow
    <3>1. GotoStage("CODE_REVIEW", loop.cycle)
      BY <1>4, <2>4 DEF WorkSucceeded
    <3> QED BY <1>1, <2>1, <2>4, <3>1, MovesAreTyped DEF IsReviewed, Moves, Stages
  <2>5. CASE Stage("IMPLEMENT") /\ "CODE_REVIEW" \notin workflow
    <3>1. Goto("stageAll")
      BY <1>4, <2>5 DEF WorkSucceeded
    <3>2. loop.result.decision = NONE
      BY <2>5 DEF ResultOK, ReviewStages
    <3> QED BY <1>1, <2>1, <2>5, <3>1, <3>2, MovesAreTyped DEF WorkIsDone, Moves, Steps
  <2> QED BY <2>1, <2>2, <2>3, <2>4, <2>5 DEF WorkStages
<1>5. CASE ReviewSucceeded
  <2>1. /\ loop.result.status = "SUCCEEDED" /\ loop.stage \in ReviewStages
        /\ loop.result.decision \in Decisions
    BY <1>5 DEF ReviewSucceeded, ResultOK
  <2>2. CASE CycleOutcome = "PASSED"
    <3>1. loop.result.decision = "APPROVED"
      BY <2>2 DEF CycleOutcome, Decision
    <3>2. CASE Stage("PLAN_REVIEW")
      <4>1. BeginImplementing
        BY <1>5, <2>2, <3>2 DEF ReviewSucceeded
      <4> QED BY <1>3, <2>1, <3>1, <3>2, <4>1 DEF PlanningIsOver
    <3>3. CASE Stage("CODE_REVIEW")
      <4>1. Goto("stageAll")
        BY <1>5, <2>2, <3>3 DEF ReviewSucceeded
      <4> QED BY <1>1, <2>1, <3>1, <3>3, <4>1, MovesAreTyped DEF WorkIsDone, Moves, Steps
    <3> QED BY <2>1, <3>2, <3>3 DEF ReviewStages
  <2>3. CASE CycleOutcome = "LIMIT_EXHAUSTED"
    <3>1. loop.result.decision = "CHANGES_REQUIRED"
      BY <2>1, <2>3 DEF CycleOutcome, Decision, Decisions
    <3>2. Fail("review_exhausted")
      BY <1>5, <2>3 DEF ReviewSucceeded
    <3> QED BY <2>1, <3>1, <3>2, MovesAreTyped DEF Exhausted, Moves, Failures
  <2>4. CASE CycleOutcome = "FIX_ALLOWED"
    <3>1. loop' = [loop EXCEPT !.pc = "enter", !.cycle = @ + 1, !.feedback = loop.cycle,
                         !.stage = IF @ = "PLAN_REVIEW" THEN "PLAN" ELSE "IMPLEMENT"]
      BY <1>5, <2>4 DEF ReviewSucceeded
    <3>2. loop.cycle < MaxReviewCycles
      <4>1. ~(loop.cycle >= MaxReviewCycles)
        BY <2>4, Zenon DEF CycleOutcome
      <4> QED BY <1>1, <4>1 DEF Cycles
    <3>3. /\ Moves("enter", IF loop.stage = "PLAN_REVIEW" THEN "PLAN" ELSE "IMPLEMENT",
                   loop.cycle + 1)
          /\ loop'.plan = loop.plan /\ loop'.feedback = loop.cycle
          /\ loop'.before = loop.before /\ loop'.evidence = loop.evidence
      BY <1>1, <3>1 DEF LoopRecord, Moves
    <3> QED BY <2>1, <3>2, <3>3 DEF IsRepeated, ReviewStages
  <2> QED BY <2>2, <2>3, <2>4 DEF CycleOutcome
<1> QED BY <1>2, <1>4, <1>5

\* A put changes one row.
LEMMA PutsOneRow ==
    ASSUME Types, NEW row \in Rows, PutRow(row)
    PROVE  /\ rows'[<<loop.stage, loop.cycle>>] = row
           /\ \A s \in Stages, c \in Cycles :
                 s # loop.stage \/ c # loop.cycle => rows'[<<s, c>>] = rows[<<s, c>>]
<1>1. /\ Key \in Stages \X Cycles /\ rows \in [Stages \X Cycles -> Rows]
      /\ loop.stage \in Stages /\ loop.cycle \in Cycles
  BY DEF Types, Key, LoopRecord
<1> QED BY <1>1 DEF PutRow, Key

-----------------------------------------------------------------------------
(* The rows *)

\* The number of a stage run.
LEMMA RanksAreNumbers ==
    ASSUME NEW s \in Stages, NEW c \in Cycles
    PROVE  /\ Rank(s, c) \in Int /\ Turns \in Int /\ MaxReviewCycles \in Nat /\ c \in Int
           /\ c >= 1 /\ c <= MaxReviewCycles
           /\ s = "PLAN" => Rank(s, c) = 2 * c
           /\ s = "PLAN_REVIEW" => Rank(s, c) = 2 * c + 1
           /\ s = "IMPLEMENT" => Rank(s, c) = 2 * c + Turns
           /\ s = "CODE_REVIEW" => Rank(s, c) = 2 * c + Turns + 1
           /\ s = "VERIFY" => Rank(s, c) = 2 * c + 2 * Turns
<1>1. MaxReviewCycles \in Nat /\ c \in 1..MaxReviewCycles /\ Turns = 2 * MaxReviewCycles + 2
  BY AttemptStagesAssumption DEF Cycles, Turns
<1>2. CASE s = "PLAN"
  BY <1>1, <1>2 DEF Rank
<1>3. CASE s = "PLAN_REVIEW"
  BY <1>1, <1>3 DEF Rank
<1>4. CASE s = "IMPLEMENT"
  BY <1>1, <1>4 DEF Rank
<1>5. CASE s = "CODE_REVIEW"
  BY <1>1, <1>5 DEF Rank
<1>6. CASE s = "VERIFY"
  BY <1>1, <1>6 DEF Rank
<1> QED BY <1>2, <1>3, <1>4, <1>5, <1>6 DEF Stages

\* A step that keeps the rows, the stage and the cycle and goes where the row
\* may stay as it is.
LEMMA RowsAreKept ==
    ASSUME RowsOK, UNCHANGED <<rows, workflow>>,
           loop'.stage = loop.stage, loop'.cycle = loop.cycle,
           \/ loop'.pc \in {"fail", "ended"}
           \/ loop.pc = "enter" /\ loop'.pc = "open"
           \/ /\ loop.pc \in {"prepare", "agent", "close"}
              /\ loop'.pc \in {"prepare", "agent", "close"}
           \/ loop.pc \in {"commit", "integrating"} /\ loop'.pc \in {"commit", "integrating"}
    PROVE  RowsOK'
BY DEF RowsOK, Key

\* Opening a stage writes the row of the run, RUNNING.
LEMMA RowsWhenOpened ==
    ASSUME Types, ControlOK, RowsOK, OpenStage
    PROVE  RowsOK' /\ ResultOK'
<1> USE DEF At, Stage
<1>1. /\ loop \in LoopRecord /\ loop.stage \in Stages /\ loop.cycle \in Cycles
      /\ workflow' = workflow /\ loop.pc = "open"
  BY DEF Types, LoopRecord, OpenStage
<1>2. CASE PutRow(Row("RUNNING", 0, NONE))
           /\ loop' = IF Stage("VERIFY") THEN [loop EXCEPT !.pc = "check"]
                     ELSE IF signal
                     THEN [loop EXCEPT !.pc = "close", !.result = Row("CANCELLED", 0, NONE),
                                       !.retry = FALSE]
                     ELSE [loop EXCEPT !.pc = "prepare", !.retry = TRUE]
  <2>1. /\ 0 \in Plans
        /\ Row("RUNNING", 0, NONE) \in Rows /\ Row("RUNNING", 0, NONE).status = "RUNNING"
        /\ Row("CANCELLED", 0, NONE) \in Rows
    BY AttemptStagesAssumption, RowsAreTyped DEF Plans, RowStatuses, Row
  <2>2. /\ rows'[<<loop.stage, loop.cycle>>] = Row("RUNNING", 0, NONE)
        /\ \A s \in Stages, c \in Cycles :
              s # loop.stage \/ c # loop.cycle => rows'[<<s, c>>] = rows[<<s, c>>]
    BY <1>2, <2>1, PutsOneRow
  <2>3. /\ loop'.pc \in {"check", "close", "prepare"}
        /\ loop'.stage = loop.stage /\ loop'.cycle = loop.cycle
        /\ loop'.pc = "close" => loop'.result = Row("CANCELLED", 0, NONE)
    BY <1>1, <1>2 DEF LoopRecord
  <2>4. Rank(loop.stage, loop.cycle) \in Int
    BY <1>1, RanksAreNumbers
  <2>5. RowsOK'
    <3>1. /\ "PLAN_REVIEW" \notin workflow => loop.stage # "PLAN_REVIEW"
          /\ "PLAN" \notin workflow => loop.stage # "PLAN"
      BY DEF ControlOK
    <3>2. "PLAN" \in Stages /\ "PLAN_REVIEW" \in Stages
      BY DEF Stages
    <3> QED BY <1>1, <2>1, <2>2, <2>3, <2>4, <3>1, <3>2 DEF RowsOK, Key
  <2>6. ResultOK'
    BY <2>3 DEF ResultOK, Row
  <2> QED BY <2>5, <2>6
<1>3. CASE UNCHANGED rows /\ Fail("error")
  <2>1. /\ loop'.pc = "fail" /\ loop'.stage = loop.stage /\ loop'.cycle = loop.cycle
    BY <1>1, <1>3, MovesAreTyped DEF Failures
  <2> QED BY <1>1, <1>3, <2>1, RowsAreKept DEF ResultOK
<1> QED BY <1>2, <1>3 DEF OpenStage

\* Preparing a stage and judging what its agent left keep the rows; a decision
\* is taken by a review that succeeds.
LEMMA RowsWhenJudged ==
    ASSUME Types, RowsOK, Prepare \/ AgentReturns
    PROVE  RowsOK' /\ ResultOK'
<1> USE DEF At, Stage
<1>1. /\ loop \in LoopRecord /\ UNCHANGED <<rows, workflow>>
      /\ loop.pc \in {"prepare", "agent"}
  BY DEF Types, Prepare, AgentReturns, storeVars
<1>2. CASE loop' = [loop EXCEPT !.pc = "agent", !.context = ContextOfStage,
                                  !.before = IF Stage("CODE_REVIEW") THEN Worktree ELSE NONE,
                                  !.evidence = IF Stage("CODE_REVIEW") THEN Evidence(Worktree)
                                               ELSE NONE]
  <2>1. loop'.pc = "agent" /\ loop'.stage = loop.stage /\ loop'.cycle = loop.cycle
    BY <1>1, <1>2 DEF LoopRecord
  <2> QED BY <1>1, <2>1, RowsAreKept DEF ResultOK
<1>3. ASSUME NEW status, NEW plan, NEW decision, StageEnds(status, plan, decision),
             status \in {"SUCCEEDED", "FAILED", "TIMED_OUT", "CANCELLED"},
             IF status = "SUCCEEDED" /\ loop.stage \in ReviewStages
             THEN decision \in Decisions ELSE decision = NONE
      PROVE  RowsOK' /\ ResultOK'
  <2>1. /\ loop'.pc = "close" /\ loop'.stage = loop.stage /\ loop'.cycle = loop.cycle
        /\ loop'.result.status = status /\ loop'.result.decision = decision
    BY <1>1, <1>3 DEF StageEnds, LoopRecord, Row
  <2> QED BY <1>1, <1>3, <2>1, RowsAreKept DEF ResultOK
<1>4. CASE StageEnds("FAILED", 0, NONE)
  BY <1>3, <1>4
<1>5. CASE PlanEnds
  <2>1. StageEnds("SUCCEEDED", loop.cycle, NONE) /\ loop.stage = "PLAN"
    BY <1>5 DEF PlanEnds
  <2> QED BY <1>3, <2>1 DEF ReviewStages
<1>6. CASE PlanReviewEnds \/ CodeReviewEnds
  <2>1. loop.stage \in ReviewStages /\ \E d \in Decisions : StageEnds("SUCCEEDED", 0, d)
    BY <1>6 DEF PlanReviewEnds, CodeReviewEnds, ReviewStages
  <2> QED BY <1>3, <2>1
<1>7. CASE ImplementEnds
  <2>1. StageEnds("SUCCEEDED", 0, NONE) /\ loop.stage = "IMPLEMENT"
    BY <1>7 DEF ImplementEnds
  <2> QED BY <1>3, <2>1 DEF ReviewStages
<1>8. CASE StageEnds(StatusOfFailure(AgentResult(run.outcome)), 0, NONE)
  <2>1. StatusOfFailure(AgentResult(run.outcome)) \in {"FAILED", "TIMED_OUT", "CANCELLED"}
    BY DEF StatusOfFailure
  <2> QED BY <1>3, <1>8, <2>1
<1> QED BY <1>2, <1>4, <1>5, <1>6, <1>7, <1>8 DEF Prepare, AgentReturns

\* Closing a stage: its row is final, and the loops go on to a later one.
LEMMA RowsWhenClosed ==
    ASSUME Types, ControlOK, RowsInv, CloseStage
    PROVE  RowsOK' /\ ResultOK'
<1> USE DEF At, Stage
<1>1. /\ loop \in LoopRecord /\ loop.stage \in Stages /\ loop.cycle \in Cycles
      /\ workflow' = workflow /\ loop.pc = "close" /\ loop.result \in Rows
      /\ RowsOK /\ ResultOK
  BY DEF Types, LoopRecord, CloseStage, RowsInv
<1>2. CASE PutRow(loop.result) /\ (StageFailed \/ WorkSucceeded \/ ReviewSucceeded)
  <2>1. /\ rows'[<<loop.stage, loop.cycle>>] = loop.result
        /\ \A s \in Stages, c \in Cycles :
              s # loop.stage \/ c # loop.cycle => rows'[<<s, c>>] = rows[<<s, c>>]
    BY <1>1, <1>2, PutsOneRow
  <2>2. loop.result.status # "RUNNING"
    BY <1>1 DEF ResultOK
  <2>3. /\ Rank(loop.stage, loop.cycle) \in Int
        /\ \A s \in Stages, c \in Cycles : Rank(s, c) \in Int
    BY <1>1, RanksAreNumbers
  <2>4. /\ "PLAN_REVIEW" \notin workflow => loop.stage # "PLAN_REVIEW"
        /\ "PLAN" \notin workflow => loop.stage # "PLAN"
        /\ "PLAN" \in Stages /\ "PLAN_REVIEW" \in Stages
    BY DEF ControlOK, Stages
  <2>5. ASSUME NEW pc \in {"fail", "stageAll"}, Moves(pc, loop.stage, loop.cycle),
               pc = "stageAll" => loop.result.status = "SUCCEEDED"
        PROVE  RowsOK' /\ ResultOK'
    BY <1>1, <2>1, <2>2, <2>3, <2>4, <2>5 DEF Moves, RowsOK, ResultOK, Key
  <2>6. ASSUME NEW s \in Stages, NEW c \in Cycles, Moves("enter", s, c),
               Rank(s, c) > Rank(loop.stage, loop.cycle)
        PROVE  RowsOK' /\ ResultOK'
    <3>1. s # loop.stage \/ c # loop.cycle
      BY <2>3, <2>6
    <3>2. rows[<<s, c>>] = NoRow /\ rows'[<<s, c>>] = NoRow
      BY <1>1, <2>1, <2>6, <3>1 DEF RowsOK
    <3>3. \A t \in Stages, d \in Cycles : Rank(t, d) > Rank(s, c) => rows'[<<t, d>>] = NoRow
      <4> SUFFICES ASSUME NEW t \in Stages, NEW d \in Cycles, Rank(t, d) > Rank(s, c)
                   PROVE  rows'[<<t, d>>] = NoRow
        OBVIOUS
      <4>1. Rank(t, d) > Rank(loop.stage, loop.cycle)
        BY <2>3, <2>6
      <4>2. t # loop.stage \/ d # loop.cycle
        BY <2>3, <4>1
      <4> QED BY <1>1, <2>1, <4>1, <4>2 DEF RowsOK
    <3>4. \A t \in Stages, d \in Cycles :
             t # s \/ d # c => rows'[<<t, d>>].status # "RUNNING"
      BY <1>1, <2>1, <2>2 DEF RowsOK
    <3> QED BY <1>1, <2>1, <2>4, <2>6, <3>2, <3>3, <3>4 DEF Moves, RowsOK, ResultOK, Key
  <2>7. 1 \in Cycles /\ MaxReviewCycles \in Nat /\ Turns = 2 * MaxReviewCycles + 2
        /\ \A c \in Cycles : c < MaxReviewCycles => c + 1 \in Cycles
    BY AttemptStagesAssumption DEF Cycles, Turns
  <2>8. CASE Fails \/ Exhausted \/ WorkIsDone
    BY <2>5, <2>8 DEF Fails, Exhausted, WorkIsDone
  <2>9. CASE PlanningIsOver
    <3>1. loop.stage = "PLAN" \/ loop.stage = "PLAN_REVIEW"
      BY <2>9 DEF PlanningIsOver
    <3>2. "IMPLEMENT" \in Stages /\ Moves("enter", "IMPLEMENT", 1)
      BY <2>9 DEF Stages, PlanningIsOver
    <3>3. Rank("IMPLEMENT", 1) > Rank(loop.stage, loop.cycle)
      BY <1>1, <2>7, <3>1, <3>2, RanksAreNumbers
    <3> QED BY <2>6, <2>7, <3>2, <3>3
  <2>10. ASSUME NEW work \in Stages, NEW review \in Stages, IsReviewed(work, review),
                <<work, review>> \in {<<"PLAN", "PLAN_REVIEW">>, <<"IMPLEMENT", "CODE_REVIEW">>}
         PROVE  RowsOK' /\ ResultOK'
    <3>1. loop.stage = work /\ Moves("enter", review, loop.cycle)
      BY <2>10 DEF IsReviewed
    <3>2. Rank(review, loop.cycle) > Rank(work, loop.cycle)
      BY <1>1, <2>10, RanksAreNumbers
    <3> QED BY <1>1, <2>6, <3>1, <3>2
  <2>11. ASSUME NEW work \in Stages, NEW review \in Stages, IsRepeated(work, review),
                <<work, review>> \in {<<"PLAN", "PLAN_REVIEW">>, <<"IMPLEMENT", "CODE_REVIEW">>}
         PROVE  RowsOK' /\ ResultOK'
    <3>1. /\ loop.stage = review /\ Moves("enter", work, loop.cycle + 1)
          /\ loop.cycle + 1 \in Cycles
      BY <1>1, <2>7, <2>11 DEF IsRepeated
    <3>2. Rank(work, loop.cycle + 1) > Rank(review, loop.cycle)
      <4>1. Rank(work, loop.cycle + 1) = 2 * (loop.cycle + 1) + (IF work = "PLAN" THEN 0 ELSE Turns)
        BY <1>1, <2>11, <3>1, RanksAreNumbers
      <4>2. Rank(review, loop.cycle) = 2 * loop.cycle + 1 + (IF work = "PLAN" THEN 0 ELSE Turns)
        BY <1>1, <2>11, RanksAreNumbers
      <4> QED BY <1>1, <2>7, <4>1, <4>2 DEF Cycles
    <3> QED BY <2>6, <3>1, <3>2
  <2>12. "PLAN" \in Stages /\ "PLAN_REVIEW" \in Stages /\ "IMPLEMENT" \in Stages
         /\ "CODE_REVIEW" \in Stages
    BY DEF Stages
  <2> QED BY <1>1, <1>2, <2>8, <2>9, <2>10, <2>11, <2>12, WaysOn
<1>3. CASE UNCHANGED rows
           /\ loop' = [loop EXCEPT !.result = Row("FAILED", 0, NONE), !.retry = FALSE]
  <2>1. /\ loop'.pc = "close" /\ loop'.stage = loop.stage /\ loop'.cycle = loop.cycle
        /\ loop'.result.status = "FAILED" /\ loop'.result.decision = NONE
    BY <1>1, <1>3 DEF LoopRecord, Row
  <2> QED BY <1>1, <1>3, <2>1, RowsAreKept DEF ResultOK
<1>4. CASE UNCHANGED rows /\ Fail("error")
  <2>1. /\ loop'.pc = "fail" /\ loop'.stage = loop.stage /\ loop'.cycle = loop.cycle
    BY <1>4, MovesAreTyped DEF Failures
  <2> QED BY <1>1, <1>4, <2>1, RowsAreKept DEF ResultOK
<1> QED BY <1>2, <1>3, <1>4 DEF CloseStage

\* Staging the change leads to VERIFY, the last stage, or nowhere.
LEMMA RowsWhenStaged ==
    ASSUME Types, ControlOK, RowsOK, StageAll
    PROVE  RowsOK' /\ ResultOK'
<1> USE DEF At, Stage
<1>1. /\ loop.stage \in Stages /\ loop.cycle \in Cycles /\ UNCHANGED <<rows, workflow>>
      /\ loop.stage \in {"IMPLEMENT", "CODE_REVIEW"} /\ loop.pc = "stageAll"
  BY DEF Types, LoopRecord, StageAll, ControlOK, storeVars
<1>2. CASE Fail("error")
  <2>1. /\ loop'.pc = "fail" /\ loop'.stage = loop.stage /\ loop'.cycle = loop.cycle
    BY <1>2, MovesAreTyped DEF Failures
  <2> QED BY <1>1, <2>1, RowsAreKept DEF ResultOK
<1>3. CASE GotoStage("VERIFY", 1)
  <2>1. 1 \in Cycles /\ "VERIFY" \in Stages /\ MaxReviewCycles \in Nat
        /\ Turns = 2 * MaxReviewCycles + 2
    BY AttemptStagesAssumption DEF Cycles, Stages, Turns
  <2>2. loop'.pc = "enter" /\ loop'.stage = "VERIFY" /\ loop'.cycle = 1
    BY <1>3, <2>1, MovesAreTyped
  <2>3. Rank("VERIFY", 1) > Rank(loop.stage, loop.cycle)
    BY <1>1, <2>1, RanksAreNumbers
  <2>4. \A t \in Stages, d \in Cycles :
           Rank(t, d) > Rank("VERIFY", 1) => Rank(t, d) > Rank(loop.stage, loop.cycle)
    BY <1>1, <2>1, <2>3, RanksAreNumbers
  <2>5. rows[<<"VERIFY", 1>>] = NoRow /\ rows[<<loop.stage, loop.cycle>>].status = "SUCCEEDED"
    BY <1>1, <2>1, <2>3 DEF RowsOK, Key
  <2> QED BY <1>1, <2>2, <2>4, <2>5 DEF RowsOK, ResultOK, Key
<1> QED BY <1>2, <1>3 DEF StageAll

\* What follows VERIFY: its row is final with the verdict.
LEMMA RowsAtTheEnd ==
    ASSUME Types, ControlOK, RowsOK,
           RecordVerdict \/ Commit \/ EnterIntegrating \/ FailExecution
    PROVE  RowsOK' /\ ResultOK'
<1> USE DEF At, Stage
<1>1. /\ loop \in LoopRecord /\ loop.stage \in Stages /\ loop.cycle \in Cycles
      /\ workflow' = workflow
  BY DEF Types, LoopRecord, RecordVerdict, Commit, EnterIntegrating, FailExecution
<1>2. ASSUME Fail("error") \/ Fail(VerdictFailure)
      PROVE  loop'.pc = "fail" /\ loop'.stage = loop.stage /\ loop'.cycle = loop.cycle
  BY <1>2, MovesAreTyped DEF Failures, VerdictFailure
<1>3. ASSUME NEW pc \in {"commit", "integrating", "ended"}, Goto(pc)
      PROVE  loop'.pc = pc /\ loop'.stage = loop.stage /\ loop'.cycle = loop.cycle
  BY <1>3, MovesAreTyped DEF Steps
<1>4. CASE RecordVerdict /\ UNCHANGED rows /\ Fail("error")
  BY <1>1, <1>2, <1>4, RowsAreKept DEF ResultOK
<1>5. CASE RecordVerdict /\ PutRow(Row(VerdictStatus, 0, NONE))
           /\ IF verdict = "PASSED" THEN Goto("commit") ELSE Fail(VerdictFailure)
  <2>1. VerdictStatus \in RowStatuses /\ VerdictStatus # "RUNNING" /\ 0 \in Plans
        /\ (verdict = "PASSED" => VerdictStatus = "SUCCEEDED")
    BY <1>5, AttemptStagesAssumption
    DEF RecordVerdict, VerdictStatus, RowStatuses, Types, CheckOutcomes, Plans
  <2>2. Row(VerdictStatus, 0, NONE) \in Rows /\ Row(VerdictStatus, 0, NONE).status = VerdictStatus
    BY <2>1, RowsAreTyped DEF Row
  <2>3. /\ rows'[<<loop.stage, loop.cycle>>] = Row(VerdictStatus, 0, NONE)
        /\ \A s \in Stages, c \in Cycles :
              s # loop.stage \/ c # loop.cycle => rows'[<<s, c>>] = rows[<<s, c>>]
    BY <1>5, <2>2, PutsOneRow
  <2>4. /\ loop'.pc \in {"commit", "fail"} /\ (loop'.pc = "commit" => verdict = "PASSED")
        /\ loop'.stage = loop.stage /\ loop'.cycle = loop.cycle
    BY <1>2, <1>3, <1>5
  <2>5. /\ loop.stage = "VERIFY" /\ "PLAN" \in Stages /\ "PLAN_REVIEW" \in Stages
        /\ Rank(loop.stage, loop.cycle) \in Int
    BY <1>1, <1>5, RanksAreNumbers DEF RecordVerdict, ControlOK, Stages
  <2> QED BY <1>1, <2>1, <2>2, <2>3, <2>4, <2>5 DEF RowsOK, ResultOK, Key
<1>6. CASE Commit
  BY <1>1, <1>2, <1>3, <1>6, RowsAreKept DEF Commit, ResultOK, storeVars
<1>7. CASE EnterIntegrating
  BY <1>1, <1>2, <1>3, <1>7, RowsAreKept DEF EnterIntegrating, ResultOK
<1>8. CASE FailExecution
  BY <1>1, <1>3, <1>8, RowsAreKept DEF FailExecution, ResultOK
<1> QED BY <1>4, <1>5, <1>6, <1>7, <1>8 DEF RecordVerdict

\* Every step keeps what is known of the rows.
LEMMA RowsInvStep ==
    ASSUME BaseInv, RowsInv, [Next]_vars
    PROVE  RowsInv'
<1>1. Types /\ ControlOK /\ RowsOK /\ ResultOK
  BY DEF BaseInv, RowsInv
<1>2. CASE UNCHANGED <<rows, workflow, loop>>
  BY <1>1, <1>2 DEF RowsInv, RowsOK, ResultOK, Key, At
<1>3. CASE UNCHANGED vars \/ RunnerStep \/ WriteFile \/ AgentStages \/ AgentCommits \/ RunChecks
  BY <1>2, <1>3
  DEF vars, storeVars, RunnerStep, WriteFile, AgentStages, AgentCommits, RunChecks
<1>4. CASE EnterStage
  <2>1. loop'.stage = loop.stage /\ loop'.cycle = loop.cycle /\ loop'.pc \in {"open", "fail"}
        /\ loop.pc = "enter" /\ UNCHANGED <<rows, workflow>>
    BY <1>1, <1>4, MovesAreTyped DEF EnterStage, Steps, Failures, At
  <2> QED BY <1>1, <2>1, RowsAreKept DEF RowsInv, ResultOK, At
<1> QED BY <1>1, <1>3, <1>4, RowsWhenOpened, RowsWhenJudged, RowsWhenClosed, RowsWhenStaged,
           RowsAtTheEnd
        DEF Next, ExecutorStep, RowsInv

\* It holds throughout an attempt.
LEMMA AttemptsKeepRows == Spec => []RowsInv
<1>1. Init => RowsInv
  <2> SUFFICES ASSUME Init PROVE RowsInv
    OBVIOUS
  <2>1. /\ rows = [k \in Stages \X Cycles |-> NoRow] /\ NoRow.status = "none"
        /\ loop.pc = "enter" /\ Key \in Stages \X Cycles
    BY BaseInvInit, StagesAreFive DEF Init, BaseInv, Types, LoopRecord, Key, NoRow, Row
  <2>2. "PLAN" \in Stages /\ "PLAN_REVIEW" \in Stages
    BY DEF Stages
  <2> QED BY <2>1, <2>2 DEF RowsInv, RowsOK, ResultOK, At
<1>2. BaseInv /\ RowsInv /\ [Next]_vars => RowsInv'
  BY RowsInvStep
<1> QED BY <1>1, <1>2, AttemptsKeepInv, PTL DEF Spec

\* The history of stage runs is complete: a row that is not RUNNING is final.
\* Every cycle has its own row, and the loops never come back to an earlier one.
THEOREM HistoryIsFinal == Spec => FinishedRowsAreFinal
<1> DEFINE Final == \A k \in Keys : rows[k].status \notin {"none", "RUNNING"} => rows'[k] = rows[k]
<1>1. BaseInv /\ RowsInv /\ [Next]_vars => [Final]_rows
  <2> SUFFICES ASSUME BaseInv, RowsInv, Next, rows' # rows PROVE Final
    BY DEF vars, storeVars
  <2>1. Types /\ RowsOK /\ loop \in LoopRecord /\ 0 \in Plans /\ loop.result \in Rows
        /\ rows \in [Stages \X Cycles -> Rows]
    BY AttemptStagesAssumption DEF BaseInv, Types, RowsInv, LoopRecord, Plans
  <2>2. rows[Key].status \in {"none", "RUNNING"} /\ \E row \in Rows : PutRow(row)
    <3>1. CASE OpenStage
      <4>1. Row("RUNNING", 0, NONE) \in Rows
        BY <2>1, RowsAreTyped DEF RowStatuses
      <4> QED BY <2>1, <3>1, <4>1 DEF OpenStage, RowsOK, NoRow, Row, At
    <3>2. CASE CloseStage
      BY <2>1, <3>2 DEF CloseStage, RowsOK, At
    <3>3. CASE RecordVerdict
      <4>1. VerdictStatus \in RowStatuses
        BY <2>1, <3>3 DEF RecordVerdict, VerdictStatus, RowStatuses, Types, CheckOutcomes
      <4>2. Row(VerdictStatus, 0, NONE) \in Rows
        BY <2>1, <4>1, RowsAreTyped
      <4> QED BY <2>1, <3>3, <4>2 DEF RecordVerdict, RowsOK, At
    <3> QED BY <3>1, <3>2, <3>3
            DEF Next, ExecutorStep, EnterStage, Prepare, AgentReturns, StageAll, RunChecks, Commit,
                EnterIntegrating, FailExecution, RunnerStep, WriteFile, AgentStages, AgentCommits,
                storeVars
  <2>3. PICK row \in Rows : rows' = [rows EXCEPT ![Key] = row]
    BY <2>2 DEF PutRow
  <2>4. \A k \in Keys : k # Key => rows'[k] = rows[k]
    BY <2>1, <2>3, StagesAreFive
  <2> QED BY <2>2, <2>4
<1> QED BY <1>1, AttemptsKeepInv, AttemptsKeepRows, PTL DEF Spec, FinishedRowsAreFinal

-----------------------------------------------------------------------------
(* What the agents are given *)

\* The executor's memory and the rows agree on the plan, the approval and the
\* feedback; the agent at work was given what they say.
MemoryOK ==
    /\ loop.stage \in WorkStages => loop.feedback = loop.cycle - 1
    /\ Stage("PLAN_REVIEW") => loop.cycle \in SucceededPlans
    /\ loop.stage \in {"IMPLEMENT", "CODE_REVIEW"} =>
         /\ loop.plan = PersistedPlan
         /\ "PLAN" \in workflow => loop.plan \in SucceededPlans
         /\ "PLAN_REVIEW" \in workflow => loop.plan \in ApprovedCycles
    /\ At("agent") =>
         /\ Stage("PLAN_REVIEW") => loop.context.plan = loop.cycle
         /\ loop.stage \in {"IMPLEMENT", "CODE_REVIEW"} => loop.context.plan = loop.plan
         /\ loop.stage \in WorkStages => loop.context.feedback = loop.feedback

\* Rows that neither were nor are a success, and rows of the later stages, do
\* not say which plans there are.
LEMMA PlansAreKept ==
    ASSUME Types, NEW row \in Rows, PutRow(row),
           \/ rows[Key].status # "SUCCEEDED" /\ row.status # "SUCCEEDED"
           \/ loop.stage \notin {"PLAN", "PLAN_REVIEW"}
    PROVE  SucceededPlans' = SucceededPlans /\ ApprovedCycles' = ApprovedCycles
<1>1. "PLAN" \in Stages /\ "PLAN_REVIEW" \in Stages
  BY DEF Stages
<1> QED BY <1>1, PutsOneRow DEF SucceededPlans, ApprovedCycles, Key

\* A step that keeps the plans and the loop's fields.
LEMMA MemoryIsKept ==
    ASSUME MemoryOK, workflow' = workflow,
           SucceededPlans' = SucceededPlans, ApprovedCycles' = ApprovedCycles,
           loop'.stage = loop.stage, loop'.cycle = loop.cycle, loop'.plan = loop.plan,
           loop'.feedback = loop.feedback, loop'.pc # "agent"
    PROVE  MemoryOK'
BY DEF MemoryOK, PersistedPlan, Stage, At

\* When planning is over the plan to implement is the approved one, or the
\* latest one where none needs approval.
LEMMA PlanIsDecided ==
    ASSUME Types, ControlOK, RowsOK, MemoryOK, PutRow(loop.result), PlanningIsOver
    PROVE  /\ loop'.plan = PersistedPlan' /\ loop'.plan \in SucceededPlans'
           /\ "PLAN_REVIEW" \in workflow => loop'.plan \in ApprovedCycles'
<1> USE DEF Stage
<1>1. /\ loop \in LoopRecord /\ loop.cycle \in Cycles /\ loop.result \in Rows
      /\ "PLAN" \in Stages /\ "PLAN_REVIEW" \in Stages /\ MaxReviewCycles \in Nat
      /\ loop.result.status = "SUCCEEDED" /\ loop'.plan = LatestOf(SucceededPlans')
      /\ SucceededPlans' \subseteq Cycles /\ ApprovedCycles' \subseteq Cycles
  BY AttemptStagesAssumption
  DEF Types, LoopRecord, Stages, PlanningIsOver, ApprovedPlan, SucceededPlans, ApprovedCycles
<1>2. /\ rows'[<<loop.stage, loop.cycle>>] = loop.result
      /\ \A s \in Stages, c \in Cycles :
            s # loop.stage \/ c # loop.cycle => rows'[<<s, c>>] = rows[<<s, c>>]
  BY <1>1, PutsOneRow
<1>3. CASE Stage("PLAN") /\ "PLAN_REVIEW" \notin workflow
  <2>1. ApprovedCycles' = {}
    BY <1>1, <1>2, <1>3 DEF ApprovedCycles, RowsOK, NoRow, Row
  <2>2. loop.cycle \in SucceededPlans'
    BY <1>1, <1>2, <1>3 DEF SucceededPlans
  <2>3. LatestOf(ApprovedCycles') = 0 /\ LatestOf(SucceededPlans') \in SucceededPlans'
    BY <1>1, <2>1, <2>2, LatestIsGreatest
  <2>4. 0 \notin SucceededPlans'
    BY <1>1 DEF Cycles
  <2> QED BY <1>1, <1>3, <2>3, <2>4 DEF PersistedPlan
<1>4. CASE Stage("PLAN_REVIEW") /\ loop.result.decision = "APPROVED"
  <2>1. loop.cycle \in SucceededPlans' /\ loop.cycle \in ApprovedCycles'
    BY <1>1, <1>2, <1>4 DEF SucceededPlans, ApprovedCycles, MemoryOK
  <2>2. \A s \in {"PLAN", "PLAN_REVIEW"}, d \in Cycles :
           d > loop.cycle => rows'[<<s, d>>] = NoRow
    <3> SUFFICES ASSUME NEW s \in {"PLAN", "PLAN_REVIEW"}, NEW d \in Cycles, d > loop.cycle
                 PROVE  rows'[<<s, d>>] = NoRow
      OBVIOUS
    <3>1. s \in Stages /\ d # loop.cycle /\ d \in Int /\ loop.cycle \in Int
      BY <1>1 DEF Stages, Cycles
    <3>2. Rank(s, d) > Rank("PLAN_REVIEW", loop.cycle)
      BY <1>1, <3>1, RanksAreNumbers
    <3> QED BY <1>1, <1>2, <1>4, <3>1, <3>2 DEF RowsOK
  <2>3. \A d \in SucceededPlans' \cup ApprovedCycles' : d <= loop.cycle
    <3>1. \A d \in Cycles : d > loop.cycle \/ d <= loop.cycle
      BY <1>1 DEF Cycles
    <3> QED BY <1>1, <2>2, <3>1 DEF SucceededPlans, ApprovedCycles, NoRow, Row
  <2>4. LatestOf(SucceededPlans') = loop.cycle /\ LatestOf(ApprovedCycles') = loop.cycle
    BY <1>1, <2>1, <2>3, GreatestIsLatest
  <2> QED BY <1>1, <2>1, <2>4 DEF PersistedPlan
<1> QED BY <1>3, <1>4 DEF PlanningIsOver

\* Preparing a stage hands its agent what memory and rows say.
LEMMA MemoryWhenPrepared ==
    ASSUME Types, MemoryOK, Prepare
    PROVE  MemoryOK'
<1> USE DEF At, Stage
<1>1. /\ loop \in LoopRecord /\ UNCHANGED <<rows, workflow>>
      /\ SucceededPlans' = SucceededPlans /\ ApprovedCycles' = ApprovedCycles
  BY DEF Types, Prepare, storeVars, SucceededPlans, ApprovedCycles
<1>2. CASE StageEnds("FAILED", 0, NONE)
  <2>1. /\ loop'.stage = loop.stage /\ loop'.cycle = loop.cycle /\ loop'.plan = loop.plan
        /\ loop'.feedback = loop.feedback /\ loop'.pc # "agent"
    BY <1>1, <1>2 DEF StageEnds, LoopRecord
  <2> QED BY <1>1, <2>1, MemoryIsKept
<1>3. CASE ~CannotStart
           /\ loop' = [loop EXCEPT !.pc = "agent", !.context = ContextOfStage,
                                  !.before = IF Stage("CODE_REVIEW") THEN Worktree ELSE NONE,
                                  !.evidence = IF Stage("CODE_REVIEW") THEN Evidence(Worktree)
                                               ELSE NONE]
  <2>1. /\ loop'.stage = loop.stage /\ loop'.cycle = loop.cycle /\ loop'.plan = loop.plan
        /\ loop'.feedback = loop.feedback /\ loop'.context = ContextOfStage
    BY <1>1, <1>3 DEF LoopRecord
  <2>2. Stage("PLAN_REVIEW") => ContextOfStage.plan = loop.cycle
    BY <1>3 DEF CannotStart, ContextOfStage, PlanReviewContext, ReviewedPlan
  <2>3. loop.stage \in {"IMPLEMENT", "CODE_REVIEW"} => ContextOfStage.plan = loop.plan
    BY DEF ContextOfStage, ImplementContext, CodeReviewContext, MemoryOK
  <2>4. loop.stage \in WorkStages => ContextOfStage.feedback = loop.feedback
    BY DEF ContextOfStage, ImplementContext, PlanContext, WorkStages
  <2>5. PersistedPlan' = PersistedPlan
    BY <1>1 DEF PersistedPlan
  <2> QED BY <1>1, <2>1, <2>2, <2>3, <2>4, <2>5 DEF MemoryOK
<1> QED BY <1>2, <1>3 DEF Prepare

\* Closing a stage: the plan reviewed is the one made, the work repeated has
\* the feedback of its review.
LEMMA MemoryWhenClosed ==
    ASSUME Types, ControlOK, RowsInv, MemoryOK, CloseStage
    PROVE  MemoryOK'
<1> USE DEF At, Stage
<1>1. /\ loop \in LoopRecord /\ loop.stage \in Stages /\ loop.cycle \in Cycles
      /\ workflow' = workflow /\ loop.pc = "close" /\ loop.result \in Rows
      /\ RowsOK /\ ResultOK /\ rows[Key].status = "RUNNING"
      /\ "PLAN" \in Stages /\ "PLAN_REVIEW" \in Stages /\ loop.cycle \in Int
  BY AttemptStagesAssumption DEF Types, LoopRecord, CloseStage, RowsInv, RowsOK, Stages, Cycles
<1>2. CASE PutRow(loop.result) /\ (StageFailed \/ WorkSucceeded \/ ReviewSucceeded)
  <2>1. /\ rows'[<<loop.stage, loop.cycle>>] = loop.result
        /\ \A s \in Stages, c \in Cycles :
              s # loop.stage \/ c # loop.cycle => rows'[<<s, c>>] = rows[<<s, c>>]
    BY <1>1, <1>2, PutsOneRow
  <2>2. loop.stage \notin {"PLAN", "PLAN_REVIEW"} \/ loop.result.status # "SUCCEEDED"
        => /\ SucceededPlans' = SucceededPlans /\ ApprovedCycles' = ApprovedCycles
           /\ PersistedPlan' = PersistedPlan
    BY <1>1, <1>2, PlansAreKept DEF PersistedPlan
  <2>3. CASE Fails
    <3>1. /\ loop'.stage = loop.stage /\ loop'.cycle = loop.cycle /\ loop'.plan = loop.plan
          /\ loop'.feedback = loop.feedback /\ loop'.pc # "agent"
      BY <2>3 DEF Fails, Moves
    <3> QED BY <1>1, <2>2, <2>3, <3>1, MemoryIsKept DEF Fails
  <2>4. CASE Exhausted
    <3>1. /\ loop'.stage = loop.stage /\ loop'.cycle = loop.cycle /\ loop'.plan = loop.plan
          /\ loop'.feedback = loop.feedback /\ loop'.pc # "agent"
      BY <2>4 DEF Exhausted, Moves
    <3>2. loop.stage \in ReviewStages
      BY <1>1, <2>4, AttemptStagesAssumption DEF Exhausted, ResultOK, Decisions
    <3>3. Stage("PLAN_REVIEW") => loop.cycle \in SucceededPlans'
      BY <1>1, <2>1 DEF MemoryOK, SucceededPlans
    <3> QED BY <1>1, <2>2, <3>1, <3>2, <3>3 DEF MemoryOK, ReviewStages, WorkStages
  <2>5. CASE WorkIsDone
    <3>1. /\ loop'.stage = loop.stage /\ loop'.cycle = loop.cycle /\ loop'.plan = loop.plan
          /\ loop'.feedback = loop.feedback /\ loop'.pc # "agent"
          /\ loop.stage \in {"IMPLEMENT", "CODE_REVIEW"}
      BY <2>5 DEF WorkIsDone, Moves
    <3> QED BY <1>1, <2>2, <3>1, MemoryIsKept
  <2>6. CASE PlanningIsOver
    <3>1. /\ loop'.pc = "enter" /\ loop'.stage = "IMPLEMENT" /\ loop'.cycle = 1
          /\ loop'.feedback = 0
      BY <2>6 DEF PlanningIsOver, Moves
    <3> QED BY <1>1, <1>2, <2>6, <3>1, PlanIsDecided DEF MemoryOK
  <2>7. CASE IsReviewed("PLAN", "PLAN_REVIEW")
    <3>1. /\ loop'.pc = "enter" /\ loop'.stage = "PLAN_REVIEW" /\ loop'.cycle = loop.cycle
          /\ loop.stage = "PLAN" /\ loop.result.status = "SUCCEEDED"
      BY <2>7 DEF IsReviewed, Moves
    <3>2. loop.cycle \in SucceededPlans'
      BY <1>1, <2>1, <3>1 DEF SucceededPlans
    <3> QED BY <3>1, <3>2 DEF MemoryOK, WorkStages
  <2>8. CASE IsReviewed("IMPLEMENT", "CODE_REVIEW")
    <3>1. /\ loop'.pc = "enter" /\ loop'.stage = "CODE_REVIEW" /\ loop'.cycle = loop.cycle
          /\ loop.stage = "IMPLEMENT" /\ loop'.plan = loop.plan
      BY <2>8 DEF IsReviewed, Moves
    <3> QED BY <1>1, <2>2, <3>1 DEF MemoryOK, WorkStages
  <2>9. CASE IsRepeated("PLAN", "PLAN_REVIEW")
    <3>1. /\ loop'.pc = "enter" /\ loop'.stage = "PLAN" /\ loop'.cycle = loop.cycle + 1
          /\ loop'.feedback = loop.cycle
      BY <2>9 DEF IsRepeated, Moves
    <3> QED BY <1>1, <3>1 DEF MemoryOK
  <2>10. CASE IsRepeated("IMPLEMENT", "CODE_REVIEW")
    <3>1. /\ loop'.pc = "enter" /\ loop'.stage = "IMPLEMENT" /\ loop'.cycle = loop.cycle + 1
          /\ loop.stage = "CODE_REVIEW" /\ loop'.plan = loop.plan /\ loop'.feedback = loop.cycle
      BY <2>10 DEF IsRepeated, Moves
    <3> QED BY <1>1, <2>2, <3>1 DEF MemoryOK
  <2> QED BY <1>1, <1>2, <2>3, <2>4, <2>5, <2>6, <2>7, <2>8, <2>9, <2>10, WaysOn
<1>3. CASE UNCHANGED rows
           /\ loop' = [loop EXCEPT !.result = Row("FAILED", 0, NONE), !.retry = FALSE]
  <2>1. /\ loop'.stage = loop.stage /\ loop'.cycle = loop.cycle /\ loop'.plan = loop.plan
        /\ loop'.feedback = loop.feedback /\ loop'.pc # "agent"
    BY <1>1, <1>3 DEF LoopRecord
  <2> QED BY <1>1, <1>3, <2>1, MemoryIsKept DEF SucceededPlans, ApprovedCycles
<1>4. CASE UNCHANGED rows /\ Fail("error")
  <2>1. /\ loop'.stage = loop.stage /\ loop'.cycle = loop.cycle /\ loop'.plan = loop.plan
        /\ loop'.feedback = loop.feedback /\ loop'.pc # "agent"
    BY <1>4, MovesAreTyped DEF Failures
  <2> QED BY <1>1, <1>4, <2>1, MemoryIsKept DEF SucceededPlans, ApprovedCycles
<1> QED BY <1>2, <1>3, <1>4 DEF CloseStage

\* Every step keeps memory and rows together.
LEMMA MemoryStep ==
    ASSUME BaseInv, RowsInv, MemoryOK, [Next]_vars
    PROVE  MemoryOK'
<1> USE DEF At, Stage
<1>1. /\ Types /\ ControlOK /\ RowsOK /\ ResultOK /\ loop \in LoopRecord
      /\ 0 \in Plans
  BY AttemptStagesAssumption DEF BaseInv, RowsInv, Types, Plans
<1>2. CASE UNCHANGED vars \/ RunnerStep \/ WriteFile \/ AgentStages \/ AgentCommits \/ RunChecks
  <2>1. UNCHANGED <<rows, workflow, loop>>
    BY <1>2 DEF vars, storeVars, RunnerStep, WriteFile, AgentStages, AgentCommits, RunChecks
  <2> QED BY <2>1 DEF MemoryOK, PersistedPlan, SucceededPlans, ApprovedCycles
<1>3. ASSUME UNCHANGED rows
      PROVE  SucceededPlans' = SucceededPlans /\ ApprovedCycles' = ApprovedCycles
  BY <1>3 DEF SucceededPlans, ApprovedCycles
<1>4. CASE EnterStage
  <2>1. /\ loop'.stage = loop.stage /\ loop'.cycle = loop.cycle /\ loop'.plan = loop.plan
        /\ loop'.feedback = loop.feedback /\ loop'.pc # "agent"
    BY <1>1, <1>4, MovesAreTyped DEF EnterStage, Steps, Failures
  <2> QED BY <1>3, <1>4, <2>1, MemoryIsKept DEF EnterStage
<1>5. CASE OpenStage
  <2>1. /\ loop'.stage = loop.stage /\ loop'.cycle = loop.cycle /\ loop'.plan = loop.plan
        /\ loop'.feedback = loop.feedback /\ loop'.pc # "agent"
    <3>1. CASE Fail("error")
      BY <1>1, <3>1, MovesAreTyped DEF Failures
    <3>2. CASE loop' = [loop EXCEPT !.pc = "check"]
      BY <1>1, <3>2 DEF LoopRecord
    <3>3. CASE loop' = [loop EXCEPT !.pc = "close", !.result = Row("CANCELLED", 0, NONE),
                                       !.retry = FALSE]
      BY <1>1, <3>3 DEF LoopRecord
    <3>4. CASE loop' = [loop EXCEPT !.pc = "prepare", !.retry = TRUE]
      BY <1>1, <3>4 DEF LoopRecord
    <3> QED BY <1>5, <3>1, <3>2, <3>3, <3>4 DEF OpenStage
  <2>2. SucceededPlans' = SucceededPlans /\ ApprovedCycles' = ApprovedCycles
    <3>1. CASE PutRow(Row("RUNNING", 0, NONE))
      <4>1. Row("RUNNING", 0, NONE) \in Rows /\ Row("RUNNING", 0, NONE).status # "SUCCEEDED"
        BY <1>1, RowsAreTyped DEF RowStatuses, Row
      <4>2. rows[Key].status # "SUCCEEDED"
        BY <1>1, <1>5 DEF OpenStage, RowsOK, NoRow, Row
      <4> QED BY <1>1, <3>1, <4>1, <4>2, PlansAreKept
    <3> QED BY <1>3, <1>5, <3>1 DEF OpenStage
  <2> QED BY <1>5, <2>1, <2>2, MemoryIsKept DEF OpenStage
<1>6. CASE AgentReturns
  <2>1. \E status, plan, decision : StageEnds(status, plan, decision)
    <3>1. CASE StageEnds("FAILED", 0, NONE) \/ StageEnds("SUCCEEDED", loop.cycle, NONE)
               \/ StageEnds("SUCCEEDED", 0, NONE)
      BY <3>1
    <3>2. CASE \E d \in Decisions : StageEnds("SUCCEEDED", 0, d)
      BY <3>2
    <3>3. CASE StageEnds(StatusOfFailure(AgentResult(run.outcome)), 0, NONE)
      BY <3>3
    <3> QED BY <1>6, <3>1, <3>2, <3>3
            DEF AgentReturns, PlanEnds, PlanReviewEnds, ImplementEnds, CodeReviewEnds
  <2>2. /\ loop'.stage = loop.stage /\ loop'.cycle = loop.cycle /\ loop'.plan = loop.plan
        /\ loop'.feedback = loop.feedback /\ loop'.pc # "agent"
    BY <1>1, <2>1 DEF StageEnds, LoopRecord
  <2> QED BY <1>3, <1>6, <2>2, MemoryIsKept DEF AgentReturns, storeVars
<1>7. CASE StageAll
  <2>1. CASE GotoStage("VERIFY", 1)
    <3>1. loop'.stage = "VERIFY" /\ loop'.pc = "enter"
      BY <1>1, <2>1, AttemptStagesAssumption, MovesAreTyped DEF Stages, Cycles
    <3> QED BY <3>1 DEF MemoryOK, WorkStages
  <2>2. CASE Fail("error")
    <3>1. /\ loop'.stage = loop.stage /\ loop'.cycle = loop.cycle /\ loop'.plan = loop.plan
          /\ loop'.feedback = loop.feedback /\ loop'.pc # "agent"
      BY <1>1, <2>2, MovesAreTyped DEF Failures
    <3> QED BY <1>3, <1>7, <3>1, MemoryIsKept DEF StageAll, storeVars
  <2> QED BY <1>7, <2>1, <2>2 DEF StageAll
<1>8. CASE RecordVerdict \/ Commit \/ EnterIntegrating
  <2>1. loop'.stage = "VERIFY" /\ loop'.pc # "agent"
    <3>1. loop.stage = "VERIFY" /\ VerdictFailure \in Failures
      BY <1>1, <1>8
      DEF RecordVerdict, Commit, EnterIntegrating, ControlOK, VerdictFailure, Failures
    <3> QED BY <1>1, <1>8, <3>1, MovesAreTyped
            DEF RecordVerdict, Commit, EnterIntegrating, Steps, Failures
  <2> QED BY <2>1 DEF MemoryOK, WorkStages
<1>9. CASE FailExecution
  <2>1. /\ loop'.stage = loop.stage /\ loop'.cycle = loop.cycle /\ loop'.plan = loop.plan
        /\ loop'.feedback = loop.feedback /\ loop'.pc # "agent"
    BY <1>1, <1>9, MovesAreTyped DEF FailExecution, Steps
  <2> QED BY <1>3, <1>9, <2>1, MemoryIsKept DEF FailExecution
<1> QED BY <1>1, <1>2, <1>4, <1>5, <1>6, <1>7, <1>8, <1>9, MemoryWhenPrepared, MemoryWhenClosed
        DEF Next, ExecutorStep, RowsInv

\* Memory and rows agree throughout an attempt.
LEMMA AttemptsKeepMemory == Spec => []MemoryOK
<1>1. Init => MemoryOK
  <2> SUFFICES ASSUME Init PROVE MemoryOK
    OBVIOUS
  <2>1. /\ loop.pc = "enter" /\ loop.stage = FirstStage(workflow) /\ loop.cycle = 1
        /\ loop.plan = 0 /\ loop.feedback = 0 /\ workflow \in Workflows
    BY DEF Init
  <2>2. "PLAN" \notin workflow => "PLAN_REVIEW" \notin workflow
    BY <2>1, AttemptStagesAssumption
  <2>3. SucceededPlans = {} /\ ApprovedCycles = {}
    <3>1. \A s \in Stages, c \in Cycles : rows[<<s, c>>].status = "none"
      BY StagesAreFive DEF Init, NoRow, Row
    <3> QED BY <3>1 DEF SucceededPlans, ApprovedCycles, Stages
  <2>4. PersistedPlan = 0
    BY <2>3, LatestIsGreatest DEF PersistedPlan
  <2> QED BY <2>1, <2>2, <2>4 DEF MemoryOK, FirstStage, At, Stage
<1>2. BaseInv /\ RowsInv /\ MemoryOK /\ [Next]_vars => MemoryOK'
  BY MemoryStep
<1> QED BY <1>1, <1>2, AttemptsKeepInv, AttemptsKeepRows, PTL DEF Spec

\* The plan under review is the one just made, the plan implemented and the
\* plan the code is reviewed against are the approved one, and a repeated stage
\* gets the feedback of the review before it, in every cycle of every workflow.
THEOREM AgentsGetTheApprovedPlan == Spec => []AgentsWorkFromTheApprovedPlan
<1>1. MemoryOK => AgentsWorkFromTheApprovedPlan
  BY DEF MemoryOK, AgentsWorkFromTheApprovedPlan, At, Stage
<1> QED BY <1>1, AttemptsKeepMemory, PTL

-----------------------------------------------------------------------------
(* What lets an attempt commit *)

LastIsApproved(s) == InUse(s) # {} /\ LastRow(s).decision = "APPROVED"
LastSucceeded(s) == InUse(s) # {} /\ LastRow(s).status = "SUCCEEDED"

\* The plan's review lies behind the later stages, the work behind its review,
\* and the last of both behind the checks.
StagesGate ==
    /\ "PLAN_REVIEW" \in workflow /\ loop.stage \in {"IMPLEMENT", "CODE_REVIEW", "VERIFY"} =>
         LastIsApproved("PLAN_REVIEW")
    /\ Stage("CODE_REVIEW") => rows[<<"IMPLEMENT", loop.cycle>>].status = "SUCCEEDED"
    /\ Stage("VERIFY") =>
         /\ LastSucceeded("IMPLEMENT")
         /\ "CODE_REVIEW" \in workflow => LastIsApproved("CODE_REVIEW")

\* And the checks behind the commit.
CommitGate ==
    /\ At("stageAll") =>
         IF "CODE_REVIEW" \in workflow THEN rows[Key].decision = "APPROVED"
         ELSE rows[Key].decision = NONE
    /\ verdict = "PASSED" =>
         Len(results) = NumChecks /\ \A i \in 1..NumChecks : results[i] = "PASSED"
    /\ loop.pc \in {"commit", "integrating"} => verdict = "PASSED"
    /\ Committed =>
         At("ended") /\ Stage("VERIFY") /\ verdict = "PASSED" /\ rows[Key].status = "SUCCEEDED"

\* The last row of a stage is the one with no later one.
LEMMA LastRowIsTheLatest ==
    ASSUME NEW r, NEW s, NEW c \in Cycles, r[<<s, c>>] # NoRow,
           \A d \in Cycles : d > c => r[<<s, d>>] = NoRow
    PROVE  LatestOf({d \in Cycles : r[<<s, d>>] # NoRow}) = c
<1> DEFINE S == {d \in Cycles : r[<<s, d>>] # NoRow}
<1>1. S \subseteq Cycles /\ c \in S
  OBVIOUS
<1>2. \A d \in S : d <= c
  <2>1. \A d \in Cycles : d \in Int /\ c \in Int
    BY AttemptStagesAssumption DEF Cycles
  <2> QED BY <2>1
<1> HIDE DEF S
<1>3. LatestOf(S) = c
  BY <1>1, <1>2, GreatestIsLatest
<1> QED BY <1>3 DEF S

\* A stage whose rows stay has the same last row.
LEMMA LastRowIsKept ==
    ASSUME NEW s \in Stages, \A c \in Cycles : rows'[<<s, c>>] = rows[<<s, c>>]
    PROVE  /\ LastIsApproved(s) => LastIsApproved(s)'
           /\ LastSucceeded(s) => LastSucceeded(s)'
<1>1. InUse(s)' = InUse(s)
  BY DEF InUse
<1>2. InUse(s) # {} => LatestOf(InUse(s)) \in Cycles
  <2>1. InUse(s) \subseteq Cycles
    BY DEF InUse
  <2> QED BY <2>1, LatestIsGreatest
<1> QED BY <1>1, <1>2 DEF LastIsApproved, LastSucceeded, LastRow

\* A step that writes no other row than that of the stage it stays at.
LEMMA StagesGateIsKept ==
    ASSUME StagesGate, loop.cycle \in Cycles, workflow' = workflow,
           loop'.stage = loop.stage, loop'.cycle = loop.cycle,
           \A s \in Stages, c \in Cycles :
              s # loop.stage \/ c # loop.cycle => rows'[<<s, c>>] = rows[<<s, c>>]
    PROVE  StagesGate'
<1> USE DEF Stage
<1>1. "PLAN_REVIEW" \in Stages /\ "IMPLEMENT" \in Stages /\ "CODE_REVIEW" \in Stages
  BY DEF Stages
<1>2. "PLAN_REVIEW" \in workflow /\ loop.stage \in {"IMPLEMENT", "CODE_REVIEW", "VERIFY"} =>
         LastIsApproved("PLAN_REVIEW")'
  <2>1. loop.stage # "PLAN_REVIEW" =>
           \A c \in Cycles : rows'[<<"PLAN_REVIEW", c>>] = rows[<<"PLAN_REVIEW", c>>]
    BY <1>1
  <2> QED BY <1>1, <2>1, LastRowIsKept DEF StagesGate
<1>3. Stage("VERIFY") => /\ LastSucceeded("IMPLEMENT")'
                         /\ "CODE_REVIEW" \in workflow => LastIsApproved("CODE_REVIEW")'
  <2>1. Stage("VERIFY") =>
           \A s \in {"IMPLEMENT", "CODE_REVIEW"}, c \in Cycles : rows'[<<s, c>>] = rows[<<s, c>>]
    BY <1>1
  <2> QED BY <1>1, <2>1, LastRowIsKept DEF StagesGate
<1>4. Stage("CODE_REVIEW") => rows'[<<"IMPLEMENT", loop.cycle>>].status = "SUCCEEDED"
  BY <1>1 DEF StagesGate
<1> QED BY <1>2, <1>3, <1>4 DEF StagesGate

\* Closing a stage: the gates of the stage the loops go on to are passed.
LEMMA GatesWhenClosed ==
    ASSUME Types, ControlOK, RowsInv, RowsOK', StagesGate, CommitGate, CloseStage
    PROVE  StagesGate' /\ CommitGate'
<1> USE DEF At, Stage
<1>1. /\ loop \in LoopRecord /\ loop.stage \in Stages /\ loop.cycle \in Cycles
      /\ workflow' = workflow /\ loop.pc = "close" /\ loop.result \in Rows
      /\ ResultOK /\ "PLAN_REVIEW" \in Stages /\ MaxReviewCycles \in Nat
  BY AttemptStagesAssumption DEF Types, LoopRecord, CloseStage, RowsInv, Stages
<1>2. ~Committed' /\ verdict' = verdict /\ results' = results
  BY <1>1 DEF CloseStage, CommitGate, Committed, engineVars
<1>3. CASE PutRow(loop.result) /\ (StageFailed \/ WorkSucceeded \/ ReviewSucceeded)
  <2>1. /\ rows'[<<loop.stage, loop.cycle>>] = loop.result
        /\ \A s \in Stages, c \in Cycles :
              s # loop.stage \/ c # loop.cycle => rows'[<<s, c>>] = rows[<<s, c>>]
    BY <1>1, <1>3, PutsOneRow
  <2>2. ASSUME NEW pc, Moves(pc, loop.stage, loop.cycle)
        PROVE  StagesGate'
    BY <1>1, <2>1, <2>2, StagesGateIsKept DEF Moves
  <2>3. ASSUME loop'.pc \in {"fail", "enter"}
        PROVE  CommitGate'
    BY <1>2, <2>3 DEF CommitGate
  <2>4. CASE Fails \/ Exhausted
    BY <2>2, <2>3, <2>4 DEF Fails, Exhausted, Moves
  <2>5. CASE WorkIsDone
    <3>1. /\ loop'.pc = "stageAll" /\ loop'.stage = loop.stage /\ loop'.cycle = loop.cycle
          /\ "CODE_REVIEW" \in workflow => loop.result.decision = "APPROVED"
          /\ "CODE_REVIEW" \notin workflow => loop.result.decision = NONE
      BY <2>5 DEF WorkIsDone, Moves, ControlOK
    <3>2. CommitGate'
      BY <1>1, <1>2, <2>1, <3>1 DEF CommitGate, Key
    <3> QED BY <2>2, <2>5, <3>2 DEF WorkIsDone
  <2>6. CASE PlanningIsOver
    <3>1. loop'.pc = "enter" /\ loop'.stage = "IMPLEMENT" /\ loop'.cycle = 1
      BY <2>6 DEF PlanningIsOver, Moves
    <3>2. "PLAN_REVIEW" \in workflow => LastIsApproved("PLAN_REVIEW")'
      <4> SUFFICES ASSUME "PLAN_REVIEW" \in workflow
                   PROVE  LastIsApproved("PLAN_REVIEW")'
        OBVIOUS
      <4>1. loop.stage = "PLAN_REVIEW" /\ loop.result.decision = "APPROVED"
        BY <2>6 DEF PlanningIsOver
      <4>2. rows'[<<"PLAN_REVIEW", loop.cycle>>].decision = "APPROVED"
        BY <2>1, <4>1
      <4>3. rows'[<<"PLAN_REVIEW", loop.cycle>>] # NoRow
        BY <4>2, AttemptStagesAssumption DEF NoRow, Row, Decisions
      <4>4. \A d \in Cycles : d > loop.cycle => rows'[<<"PLAN_REVIEW", d>>] = NoRow
        <5> SUFFICES ASSUME NEW d \in Cycles, d > loop.cycle
                     PROVE  rows'[<<"PLAN_REVIEW", d>>] = NoRow
          OBVIOUS
        <5>1. Rank("PLAN_REVIEW", d) > Rank("PLAN_REVIEW", loop.cycle) /\ d # loop.cycle
          BY <1>1, RanksAreNumbers
        <5> QED BY <1>1, <2>1, <4>1, <5>1 DEF RowsInv, RowsOK
      <4>5. LatestOf(InUse("PLAN_REVIEW")') = loop.cycle
        <5>1. LatestOf({d \in Cycles : rows'[<<"PLAN_REVIEW", d>>] # NoRow}) = loop.cycle
          BY <1>1, <4>3, <4>4, LastRowIsTheLatest
        <5> QED BY <5>1 DEF InUse
      <4>6. InUse("PLAN_REVIEW")' # {}
        BY <1>1, <4>3 DEF InUse
      <4> QED BY <4>2, <4>5, <4>6 DEF LastIsApproved, LastRow
    <3> QED BY <1>1, <2>3, <3>1, <3>2 DEF StagesGate
  <2>7. CASE IsReviewed("PLAN", "PLAN_REVIEW") \/ IsRepeated("PLAN", "PLAN_REVIEW")
    <3>1. loop'.pc = "enter" /\ loop'.stage \in {"PLAN", "PLAN_REVIEW"}
      BY <2>7 DEF IsReviewed, IsRepeated, Moves
    <3> QED BY <2>3, <3>1 DEF StagesGate
  <2>8. CASE IsReviewed("IMPLEMENT", "CODE_REVIEW") \/ IsRepeated("IMPLEMENT", "CODE_REVIEW")
    <3>1. /\ loop'.pc = "enter" /\ loop'.stage \in {"IMPLEMENT", "CODE_REVIEW"}
          /\ loop.stage \in {"IMPLEMENT", "CODE_REVIEW"}
          /\ loop'.stage = "CODE_REVIEW" =>
                loop.stage = "IMPLEMENT" /\ loop'.cycle = loop.cycle
                /\ loop.result.status = "SUCCEEDED"
      BY <2>8 DEF IsReviewed, IsRepeated, Moves
    <3>2. "PLAN_REVIEW" \in workflow => LastIsApproved("PLAN_REVIEW")'
      BY <1>1, <2>1, <3>1, LastRowIsKept DEF StagesGate
    <3> QED BY <1>1, <2>1, <2>3, <3>1, <3>2 DEF StagesGate
  <2> QED BY <1>1, <1>3, <2>4, <2>5, <2>6, <2>7, <2>8, WaysOn
<1>4. CASE /\ UNCHANGED rows
           /\ \/ loop' = [loop EXCEPT !.result = Row("FAILED", 0, NONE), !.retry = FALSE]
              \/ Fail("error")
  <2>1. loop'.stage = loop.stage /\ loop'.cycle = loop.cycle /\ loop'.pc \in {"close", "fail"}
    <3>1. CASE loop' = [loop EXCEPT !.result = Row("FAILED", 0, NONE), !.retry = FALSE]
      BY <1>1, <3>1 DEF LoopRecord
    <3>2. CASE Fail("error")
      BY <3>2, MovesAreTyped DEF Failures
    <3> QED BY <1>4, <3>1, <3>2
  <2> QED BY <1>1, <1>2, <1>4, <2>1, StagesGateIsKept DEF CommitGate
<1> QED BY <1>3, <1>4 DEF CloseStage

\* Staging: the last work succeeded and the last review, if any, approved.
LEMMA GatesWhenStaged ==
    ASSUME Types, ControlOK, RowsOK, StagesGate, CommitGate, StageAll
    PROVE  StagesGate' /\ CommitGate'
<1> USE DEF At, Stage
<1>1. /\ loop.stage \in {"IMPLEMENT", "CODE_REVIEW"} /\ loop.cycle \in Cycles
      /\ UNCHANGED <<rows, workflow, taskStatus, verdict, results>> /\ loop.pc = "stageAll"
      /\ "IMPLEMENT" \in Stages /\ "CODE_REVIEW" \in Stages /\ 1 \in Cycles /\ "VERIFY" \in Stages
  BY AttemptStagesAssumption
  DEF Types, LoopRecord, StageAll, ControlOK, storeVars, engineVars, Stages, Cycles
<1>2. ~Committed'
  BY <1>1 DEF CommitGate, Committed
<1>3. CASE Fail("error")
  <2>1. /\ loop'.pc = "fail" /\ loop'.stage = loop.stage /\ loop'.cycle = loop.cycle
    BY <1>3, MovesAreTyped DEF Failures
  <2> QED BY <1>1, <1>2, <2>1, StagesGateIsKept DEF CommitGate
<1>4. CASE GotoStage("VERIFY", 1)
  <2>1. loop'.pc = "enter" /\ loop'.stage = "VERIFY"
    BY <1>1, <1>4, MovesAreTyped
  <2>2. ASSUME NEW s \in {"IMPLEMENT", "CODE_REVIEW"}, rows[<<s, loop.cycle>>] # NoRow,
               s = "IMPLEMENT" \/ loop.stage = "CODE_REVIEW"
        PROVE  LastRow(s) = rows[<<s, loop.cycle>>] /\ InUse(s) # {}
    <3>1. \A d \in Cycles : d > loop.cycle => rows[<<s, d>>] = NoRow
      <4> SUFFICES ASSUME NEW d \in Cycles, d > loop.cycle
                   PROVE  rows[<<s, d>>] = NoRow
        OBVIOUS
      <4>1. Rank(s, d) > Rank(loop.stage, loop.cycle)
        BY <1>1, <2>2, RanksAreNumbers
      <4> QED BY <1>1, <4>1 DEF RowsOK
    <3>2. LatestOf({d \in Cycles : rows[<<s, d>>] # NoRow}) = loop.cycle
      BY <1>1, <2>2, <3>1, LastRowIsTheLatest
    <3> QED BY <1>1, <2>2, <3>2 DEF LastRow, InUse
  <2>3. LastSucceeded("IMPLEMENT")
    <3>1. rows[<<"IMPLEMENT", loop.cycle>>].status = "SUCCEEDED"
      BY <1>1 DEF StagesGate, RowsOK, Key
    <3> QED BY <2>2, <3>1 DEF LastSucceeded, NoRow, Row
  <2>4. "CODE_REVIEW" \in workflow => LastIsApproved("CODE_REVIEW")
    <3> SUFFICES ASSUME "CODE_REVIEW" \in workflow PROVE LastIsApproved("CODE_REVIEW")
      OBVIOUS
    <3>1. loop.stage = "CODE_REVIEW" /\ rows[<<"CODE_REVIEW", loop.cycle>>].decision = "APPROVED"
      BY <1>1 DEF ControlOK, CommitGate, Key
    <3>2. rows[<<"CODE_REVIEW", loop.cycle>>] # NoRow
      BY <3>1, AttemptStagesAssumption DEF NoRow, Row, Decisions
    <3> QED BY <2>2, <3>1, <3>2 DEF LastIsApproved
  <2>5. /\ LastSucceeded("IMPLEMENT")'
        /\ "CODE_REVIEW" \in workflow => LastIsApproved("CODE_REVIEW")'
    BY <1>1, <2>3, <2>4, LastRowIsKept
  <2>6. "PLAN_REVIEW" \in workflow => LastIsApproved("PLAN_REVIEW")'
    <3>1. "PLAN_REVIEW" \in Stages
      BY DEF Stages
    <3> QED BY <1>1, <3>1, LastRowIsKept DEF StagesGate
  <2> QED BY <1>1, <1>2, <2>1, <2>5, <2>6 DEF StagesGate, CommitGate
<1> QED BY <1>3, <1>4 DEF StageAll

\* Every step keeps the gates.
LEMMA GatesStep ==
    ASSUME BaseInv, RowsInv, StagesGate, CommitGate, [Next]_vars
    PROVE  StagesGate' /\ CommitGate'
<1> USE DEF At, Stage
<1>1. /\ Types /\ ControlOK /\ RowsOK /\ ResultOK /\ loop \in LoopRecord /\ 0 \in Plans
      /\ loop.cycle \in Cycles /\ loop.stage \in Stages
  BY AttemptStagesAssumption DEF BaseInv, RowsInv, Types, LoopRecord, Plans
<1>2. ASSUME UNCHANGED <<rows, workflow>>, loop'.stage = loop.stage, loop'.cycle = loop.cycle
      PROVE  StagesGate'
  BY <1>1, <1>2, StagesGateIsKept
<1>3. CASE UNCHANGED vars \/ RunnerStep \/ WriteFile \/ AgentStages \/ AgentCommits
  <2>1. UNCHANGED <<rows, workflow, loop, taskStatus, verdict, results>>
    BY <1>3
    DEF vars, storeVars, engineVars, RunnerStep, WriteFile, AgentStages, AgentCommits
  <2> QED BY <1>2, <2>1 DEF CommitGate, Committed, Key
<1>4. CASE RunChecks
  <2>1. UNCHANGED <<rows, workflow, loop, taskStatus>> /\ loop.pc = "check" /\ verdict = NONE
    BY <1>4 DEF RunChecks, storeVars
  <2>2. verdict' = "PASSED" =>
           Len(results') = NumChecks /\ \A i \in 1..NumChecks : results'[i] = "PASSED"
    <3>1. verdict # "PASSED" /\ NumChecks \in Nat
      BY <2>1, VerificationEngineAssumption DEF CheckOutcomes
    <3>2. RunStatus = "PASSED" =>
             Len(results) = NumChecks /\ \A i \in DOMAIN results : results[i] = "PASSED"
      BY DEF RunStatus
    <3>3. DOMAIN results = 1..Len(results)
      BY <1>1 DEF Types
    <3> QED BY <1>4, <3>1, <3>2, <3>3
            DEF RunChecks, EngineThrows, StartCheck, CheckReturns, EngineReturns, engineVars
  <2> QED BY <1>2, <2>1, <2>2 DEF CommitGate, Committed
<1>5. CASE EnterStage
  <2>1. /\ loop'.stage = loop.stage /\ loop'.cycle = loop.cycle /\ loop'.pc \in {"open", "fail"}
    BY <1>1, <1>5, MovesAreTyped DEF EnterStage, Steps, Failures
  <2>2. ~Committed'
    BY <1>1, <1>5 DEF EnterStage, CommitGate, Committed, StageStatus, Stages
  <2> QED BY <1>2, <1>5, <2>1, <2>2 DEF EnterStage, CommitGate, engineVars
<1>6. CASE OpenStage
  <2>1. /\ loop'.stage = loop.stage /\ loop'.cycle = loop.cycle
        /\ loop'.pc \in {"check", "close", "prepare", "fail"}
    <3>1. CASE Fail("error")
      BY <1>1, <3>1, MovesAreTyped DEF Failures
    <3>2. CASE loop' = [loop EXCEPT !.pc = "check"]
      BY <1>1, <3>2 DEF LoopRecord
    <3>3. CASE loop' = [loop EXCEPT !.pc = "close", !.result = Row("CANCELLED", 0, NONE),
                                       !.retry = FALSE]
      BY <1>1, <3>3 DEF LoopRecord
    <3>4. CASE loop' = [loop EXCEPT !.pc = "prepare", !.retry = TRUE]
      BY <1>1, <3>4 DEF LoopRecord
    <3> QED BY <1>6, <3>1, <3>2, <3>3, <3>4 DEF OpenStage
  <2>2. ~Committed'
    BY <1>6 DEF OpenStage, CommitGate, Committed
  <2>3. \A s \in Stages, c \in Cycles :
           s # loop.stage \/ c # loop.cycle => rows'[<<s, c>>] = rows[<<s, c>>]
    <3>1. Row("RUNNING", 0, NONE) \in Rows
      BY <1>1, RowsAreTyped DEF RowStatuses
    <3> QED BY <1>1, <1>6, <3>1, PutsOneRow DEF OpenStage
  <2> QED BY <1>1, <1>6, <2>1, <2>2, <2>3, StagesGateIsKept DEF OpenStage, CommitGate, engineVars
<1>7. CASE Prepare \/ AgentReturns
  <2>1. /\ loop'.stage = loop.stage /\ loop'.cycle = loop.cycle /\ loop'.pc \in {"agent", "close"}
    <3>1. CASE \E status, plan, decision : StageEnds(status, plan, decision)
      BY <1>1, <3>1 DEF StageEnds, LoopRecord
    <3>2. CASE loop' = [loop EXCEPT !.pc = "agent", !.context = ContextOfStage,
                                  !.before = IF Stage("CODE_REVIEW") THEN Worktree ELSE NONE,
                                  !.evidence = IF Stage("CODE_REVIEW") THEN Evidence(Worktree)
                                               ELSE NONE]
      BY <1>1, <3>2 DEF LoopRecord
    <3>3. CASE StageEnds("FAILED", 0, NONE) \/ StageEnds("SUCCEEDED", loop.cycle, NONE)
               \/ StageEnds("SUCCEEDED", 0, NONE)
               \/ StageEnds(StatusOfFailure(AgentResult(run.outcome)), 0, NONE)
      BY <3>1, <3>3
    <3>4. CASE \E d \in Decisions : StageEnds("SUCCEEDED", 0, d)
      BY <3>1, <3>4
    <3> QED BY <1>7, <3>2, <3>3, <3>4
            DEF Prepare, AgentReturns, PlanEnds, PlanReviewEnds, ImplementEnds, CodeReviewEnds
  <2>2. UNCHANGED <<rows, workflow, taskStatus, verdict, results>> /\ ~Committed'
    BY <1>7 DEF Prepare, AgentReturns, storeVars, engineVars, CommitGate, Committed
  <2> QED BY <1>2, <2>1, <2>2 DEF CommitGate
<1>8. CASE RecordVerdict
  <2>1. /\ loop'.stage = loop.stage /\ loop'.cycle = loop.cycle
        /\ loop'.pc = "fail" \/ (loop'.pc = "commit" /\ verdict = "PASSED")
    <3>1. VerdictFailure \in Failures
      BY DEF VerdictFailure, Failures
    <3> QED BY <1>1, <1>8, <3>1, MovesAreTyped DEF RecordVerdict, Steps, Failures
  <2>2. ~Committed' /\ verdict' = verdict /\ results' = results /\ workflow' = workflow
    BY <1>8 DEF RecordVerdict, CommitGate, Committed, engineVars
  <2>3. \A s \in Stages, c \in Cycles :
           s # loop.stage \/ c # loop.cycle => rows'[<<s, c>>] = rows[<<s, c>>]
    <3>1. VerdictStatus \in RowStatuses
      BY <1>1, <1>8 DEF RecordVerdict, VerdictStatus, RowStatuses, Types, CheckOutcomes
    <3>2. Row(VerdictStatus, 0, NONE) \in Rows
      BY <1>1, <3>1, RowsAreTyped
    <3> QED BY <1>1, <1>8, <3>2, PutsOneRow DEF RecordVerdict
  <2> QED BY <1>1, <2>1, <2>2, <2>3, StagesGateIsKept DEF CommitGate
<1>9. CASE Commit
  <2>1. /\ loop'.stage = loop.stage /\ loop'.cycle = loop.cycle
        /\ loop'.pc \in {"integrating", "fail"}
    BY <1>1, <1>9, MovesAreTyped DEF Commit, Steps, Failures
  <2>2. ~Committed' /\ UNCHANGED <<rows, workflow, verdict, results>> /\ verdict = "PASSED"
    BY <1>9 DEF Commit, CommitGate, Committed, engineVars, storeVars
  <2> QED BY <1>2, <2>1, <2>2 DEF CommitGate
<1>10. CASE EnterIntegrating
  <2>1. /\ loop'.stage = loop.stage /\ loop'.cycle = loop.cycle /\ loop'.pc \in {"ended", "fail"}
        /\ loop'.pc = "fail" => taskStatus' = taskStatus
    BY <1>1, <1>10, MovesAreTyped DEF EnterIntegrating, Steps, Failures
  <2>2. /\ UNCHANGED <<rows, workflow, verdict, results>> /\ verdict = "PASSED" /\ ~Committed
        /\ loop.stage = "VERIFY" /\ rows[Key].status = "SUCCEEDED"
    BY <1>1, <1>10
    DEF EnterIntegrating, CommitGate, Committed, engineVars, ControlOK, RowsOK
  <2> QED BY <1>2, <2>1, <2>2 DEF CommitGate, Committed, Key
<1>11. CASE FailExecution
  <2>1. /\ loop'.stage = loop.stage /\ loop'.cycle = loop.cycle /\ loop'.pc = "ended"
    BY <1>1, <1>11, MovesAreTyped DEF FailExecution, Steps
  <2>2. UNCHANGED <<rows, workflow, verdict, results>> /\ ~Committed'
    BY <1>11 DEF FailExecution, CommitGate, Committed, engineVars, TaskStatusOf
  <2> QED BY <1>2, <2>1, <2>2 DEF CommitGate
<1>12. RowsOK'
  BY RowsInvStep DEF RowsInv
<1> QED BY <1>1, <1>3, <1>4, <1>5, <1>6, <1>7, <1>8, <1>9, <1>10, <1>11, <1>12,
           GatesWhenClosed, GatesWhenStaged
        DEF Next, ExecutorStep, RowsInv

\* The gates hold throughout an attempt.
LEMMA AttemptsKeepGates == Spec => [](StagesGate /\ CommitGate)
<1>1. Init => StagesGate /\ CommitGate
  <2> SUFFICES ASSUME Init PROVE StagesGate /\ CommitGate
    OBVIOUS
  <2>1. /\ loop.pc = "enter" /\ loop.stage = FirstStage(workflow) /\ workflow \in Workflows
        /\ verdict = NONE /\ taskStatus = "READY"
    BY DEF Init
  <2>2. "PLAN" \notin workflow => "PLAN_REVIEW" \notin workflow
    BY <2>1, AttemptStagesAssumption
  <2>3. NONE # "PASSED"
    BY VerificationEngineAssumption DEF CheckOutcomes
  <2> QED BY <2>1, <2>2, <2>3 DEF StagesGate, CommitGate, FirstStage, At, Stage, Committed
<1>2. BaseInv /\ RowsInv /\ (StagesGate /\ CommitGate) /\ [Next]_vars => (StagesGate /\ CommitGate)'
  BY GatesStep
<1> QED BY <1>1, <1>2, AttemptsKeepInv, AttemptsKeepRows, PTL DEF Spec

\* A commit is handed to integration only when the latest review of each kind
\* the workflow has approved, the latest work succeeded and every check passed.
THEOREM OnlyGatedCommits == Spec => []CommitsAreGated
<1>1. BaseInv /\ RowsInv /\ StagesGate /\ CommitGate => CommitsAreGated
  <2> SUFFICES ASSUME BaseInv, RowsInv, StagesGate, CommitGate, Committed
               PROVE  CommitsAreGated
    BY DEF CommitsAreGated
  <2>1. /\ loop.stage = "VERIFY" /\ loop.cycle = 1 /\ rows[<<"VERIFY", 1>>].status = "SUCCEEDED"
        /\ verdict = "PASSED" /\ 1 \in Cycles /\ "VERIFY" \in Stages
    BY AttemptStagesAssumption DEF CommitGate, BaseInv, ControlOK, Stage, Key, Cycles, Stages
  <2>2. LastRow("VERIFY").status = "SUCCEEDED"
    <3>1. \A d \in Cycles : d > 1 => rows[<<"VERIFY", d>>] = NoRow
      BY <2>1, RanksAreNumbers DEF RowsInv, RowsOK
    <3>2. rows[<<"VERIFY", 1>>] # NoRow
      BY <2>1 DEF NoRow, Row
    <3>3. LatestOf({d \in Cycles : rows[<<"VERIFY", d>>] # NoRow}) = 1
      BY <2>1, <3>1, <3>2, LastRowIsTheLatest
    <3> QED BY <2>1, <3>3 DEF LastRow, InUse
  <2>3. \A s \in ReviewStages \cap workflow : LastRow(s).decision = "APPROVED"
    BY <2>1 DEF StagesGate, LastIsApproved, ReviewStages, Stage
  <2>4. LastRow("IMPLEMENT").status = "SUCCEEDED"
    BY <2>1 DEF StagesGate, LastSucceeded, Stage
  <2> QED BY <2>1, <2>2, <2>3, <2>4 DEF CommitsAreGated, CommitGate
<1> QED BY <1>1, AttemptsKeepInv, AttemptsKeepRows, AttemptsKeepGates, PTL

-----------------------------------------------------------------------------
(* What the store tells of the end *)

\* The kind of failure and the row of the stage it happened at agree.
Tells(kind, row) ==
    /\ row.status # "RUNNING"
    /\ kind = "timeout" <=> row.status = "TIMED_OUT"
    /\ kind = "cancelled" <=> row.status = "CANCELLED"
    /\ kind = "review_exhausted" <=> row.decision = "CHANGES_REQUIRED"

\* As long as the store has not failed; before the end nothing is told.
OutcomeOK ==
    /\ ~Ended => attemptStatus = "RUNNING" /\ taskStatus \notin {"CANCELLED", "BLOCKED"}
    /\ Stage("VERIFY") => rows[Key].decision = NONE
    /\ At("fail") /\ faults = 0 => Tells(loop.failure, rows[Key])
    /\ Ended /\ faults = 0 =>
         /\ rows[Key].status # "RUNNING"
         /\ attemptStatus = "TIMED_OUT" <=> rows[Key].status = "TIMED_OUT"
         /\ taskStatus = "CANCELLED" <=> rows[Key].status = "CANCELLED"
         /\ taskStatus = "BLOCKED" <=> rows[Key].decision = "CHANGES_REQUIRED"

\* Closing a stage: a failure is that of the row.
LEMMA OutcomeWhenClosed ==
    ASSUME Types, ControlOK, RowsInv, OutcomeOK, CloseStage
    PROVE  OutcomeOK'
<1> USE DEF At, Stage, Ended
<1>1. /\ loop \in LoopRecord /\ loop.stage \in Stages /\ loop.cycle \in Cycles
      /\ loop.pc = "close" /\ loop.result \in Rows /\ ResultOK /\ loop.stage # "VERIFY"
      /\ UNCHANGED <<taskStatus, attemptStatus>>
  BY DEF Types, LoopRecord, CloseStage, RowsInv, ControlOK
<1>2. CASE /\ PutRow(loop.result) /\ (StageFailed \/ WorkSucceeded \/ ReviewSucceeded)
           /\ UNCHANGED faults
  <2>1. rows'[<<loop.stage, loop.cycle>>] = loop.result
    BY <1>1, <1>2, PutsOneRow
  <2>2. CASE Fails
    <3>1. /\ loop'.pc = "fail" /\ loop'.stage = loop.stage /\ loop'.cycle = loop.cycle
          /\ loop'.failure = FailureOf(loop.result.status)
          /\ loop.result.status \in {"FAILED", "TIMED_OUT", "CANCELLED"}
          /\ loop.result.decision = NONE
      BY <1>1, <2>2 DEF Fails, Moves, ResultOK
    <3>2. Tells(FailureOf(loop.result.status), loop.result)
      <4>1. NONE # "CHANGES_REQUIRED"
        BY AttemptStagesAssumption DEF Decisions
      <4> QED BY <3>1, <4>1 DEF Tells, FailureOf
    <3> QED BY <1>1, <2>1, <3>1, <3>2 DEF OutcomeOK, Key
  <2>3. CASE Exhausted
    <3>1. /\ loop'.pc = "fail" /\ loop'.stage = loop.stage /\ loop'.cycle = loop.cycle
          /\ loop'.failure = "review_exhausted" /\ loop.result.status = "SUCCEEDED"
          /\ loop.result.decision = "CHANGES_REQUIRED"
      BY <2>3 DEF Exhausted, Moves
    <3> QED BY <1>1, <2>1, <3>1 DEF OutcomeOK, Key, Tells
  <2>4. CASE WorkIsDone
    BY <1>1, <2>4 DEF WorkIsDone, Moves, OutcomeOK
  <2>5. CASE PlanningIsOver
    BY <1>1, <2>5 DEF PlanningIsOver, Moves, OutcomeOK
  <2>6. CASE IsReviewed("PLAN", "PLAN_REVIEW") \/ IsReviewed("IMPLEMENT", "CODE_REVIEW")
    BY <1>1, <2>6 DEF IsReviewed, Moves, OutcomeOK
  <2>7. CASE IsRepeated("PLAN", "PLAN_REVIEW") \/ IsRepeated("IMPLEMENT", "CODE_REVIEW")
    BY <1>1, <2>7 DEF IsRepeated, Moves, OutcomeOK
  <2> QED BY <1>1, <1>2, <2>2, <2>3, <2>4, <2>5, <2>6, <2>7, WaysOn
<1>3. CASE Fault
  <2>1. faults' # 0
    BY <1>3 DEF Fault, Types
  <2>2. loop'.stage = loop.stage /\ loop'.pc \in {"close", "fail"}
    <3>1. CASE loop' = [loop EXCEPT !.result = Row("FAILED", 0, NONE), !.retry = FALSE]
      BY <1>1, <3>1 DEF LoopRecord
    <3>2. CASE Fail("error")
      BY <3>2, MovesAreTyped DEF Failures
    <3>3. CASE PutRow(loop.result) /\ UNCHANGED faults
      BY <1>3, <3>3 DEF Fault, Types
    <3> QED BY <3>1, <3>2, <3>3 DEF CloseStage
  <2> QED BY <1>1, <2>1, <2>2 DEF OutcomeOK
<1> QED BY <1>2, <1>3 DEF CloseStage

\* Every step keeps what the store tells.
LEMMA OutcomeStep ==
    ASSUME BaseInv, RowsInv, CommitGate, OutcomeOK, [Next]_vars
    PROVE  OutcomeOK'
<1> USE DEF At, Stage, Ended
<1>1. /\ Types /\ ControlOK /\ RowsOK /\ ResultOK /\ loop \in LoopRecord /\ 0 \in Plans
      /\ loop.cycle \in Cycles /\ loop.stage \in Stages /\ faults \in Nat
      /\ NONE \notin Decisions /\ RowsOK'
  BY AttemptStagesAssumption, RowsInvStep DEF BaseInv, RowsInv, Types, LoopRecord, Plans
<1>2. Fault => faults' # 0
  BY <1>1 DEF Fault
<1>3. CASE UNCHANGED vars \/ RunnerStep \/ WriteFile \/ AgentStages \/ AgentCommits \/ RunChecks
  <2>1. UNCHANGED <<rows, loop, taskStatus, attemptStatus, faults>>
    BY <1>3
    DEF vars, storeVars, boundVars, RunnerStep, WriteFile, AgentStages, AgentCommits, RunChecks
  <2> QED BY <2>1 DEF OutcomeOK, Key
<1>4. CASE EnterStage
  <2>1. /\ loop'.stage = loop.stage /\ loop'.cycle = loop.cycle
        /\ loop'.pc = "open" \/ (loop'.pc = "fail" /\ faults' # 0)
    BY <1>1, <1>2, <1>4, MovesAreTyped DEF EnterStage, Steps, Failures
  <2>2. taskStatus' \notin {"CANCELLED", "BLOCKED"}
    BY <1>1, <1>4 DEF EnterStage, OutcomeOK, StageStatus, Stages
  <2> QED BY <1>4, <2>1, <2>2 DEF EnterStage, OutcomeOK, Key
<1>5. CASE OpenStage
  <2>1. /\ loop'.stage = loop.stage /\ loop'.cycle = loop.cycle
        /\ loop'.pc \in {"check", "close", "prepare"} \/ (loop'.pc = "fail" /\ faults' # 0)
    <3>1. CASE Fail("error") /\ Fault
      BY <1>1, <1>2, <3>1, MovesAreTyped DEF Failures
    <3>2. CASE loop' = [loop EXCEPT !.pc = "check"]
      BY <1>1, <3>2 DEF LoopRecord
    <3>3. CASE loop' = [loop EXCEPT !.pc = "close", !.result = Row("CANCELLED", 0, NONE),
                                       !.retry = FALSE]
      BY <1>1, <3>3 DEF LoopRecord
    <3>4. CASE loop' = [loop EXCEPT !.pc = "prepare", !.retry = TRUE]
      BY <1>1, <3>4 DEF LoopRecord
    <3> QED BY <1>5, <3>1, <3>2, <3>3, <3>4 DEF OpenStage
  <2>2. Stage("VERIFY") => rows'[<<loop.stage, loop.cycle>>].decision = NONE
    <3>1. Row("RUNNING", 0, NONE) \in Rows /\ Row("RUNNING", 0, NONE).decision = NONE
      BY <1>1, RowsAreTyped DEF RowStatuses, Row
    <3> QED BY <1>1, <1>5, <3>1, PutsOneRow DEF OpenStage, OutcomeOK, Key
  <2> QED BY <1>5, <2>1, <2>2 DEF OpenStage, OutcomeOK, Key
<1>6. CASE Prepare \/ AgentReturns
  <2>1. /\ loop'.stage = loop.stage /\ loop'.pc \in {"agent", "close"} /\ loop.stage # "VERIFY"
    <3>1. CASE \E status, plan, decision : StageEnds(status, plan, decision)
      BY <1>1, <1>6, <3>1 DEF StageEnds, LoopRecord, Prepare, AgentReturns, ControlOK
    <3>2. CASE loop' = [loop EXCEPT !.pc = "agent", !.context = ContextOfStage,
                                  !.before = IF Stage("CODE_REVIEW") THEN Worktree ELSE NONE,
                                  !.evidence = IF Stage("CODE_REVIEW") THEN Evidence(Worktree)
                                               ELSE NONE]
      BY <1>1, <1>6, <3>2 DEF LoopRecord, Prepare, AgentReturns, ControlOK
    <3>3. CASE StageEnds("FAILED", 0, NONE) \/ StageEnds("SUCCEEDED", loop.cycle, NONE)
               \/ StageEnds("SUCCEEDED", 0, NONE)
               \/ StageEnds(StatusOfFailure(AgentResult(run.outcome)), 0, NONE)
      BY <3>1, <3>3
    <3>4. CASE \E d \in Decisions : StageEnds("SUCCEEDED", 0, d)
      BY <3>1, <3>4
    <3> QED BY <1>6, <3>2, <3>3, <3>4
            DEF Prepare, AgentReturns, PlanEnds, PlanReviewEnds, ImplementEnds, CodeReviewEnds
  <2> QED BY <1>6, <2>1 DEF Prepare, AgentReturns, storeVars, OutcomeOK
<1>7. CASE StageAll
  <2>1. UNCHANGED <<rows, taskStatus, attemptStatus, faults>>
    BY <1>7 DEF StageAll, storeVars, boundVars
  <2>2. CASE GotoStage("VERIFY", 1)
    <3>1. loop'.pc = "enter"
      BY <1>1, <2>2, AttemptStagesAssumption, MovesAreTyped DEF Stages, Cycles
    <3>2. rows'[Key'].decision = NONE
      BY <1>1, <3>1 DEF RowsOK, NoRow, Row
    <3> QED BY <1>7, <2>1, <3>1, <3>2 DEF StageAll, OutcomeOK
  <2>3. CASE Fail("error")
    <3>1. /\ loop'.pc = "fail" /\ loop'.stage = loop.stage /\ loop'.cycle = loop.cycle
          /\ loop'.failure = "error"
      BY <1>1, <2>3, MovesAreTyped DEF Failures
    <3>2. Tells("error", rows[Key])
      BY <1>1, <1>7 DEF StageAll, RowsOK, CommitGate, Tells, Decisions
    <3> QED BY <1>7, <2>1, <3>1, <3>2 DEF StageAll, OutcomeOK, Key
  <2> QED BY <1>7, <2>2, <2>3 DEF StageAll
<1>8. CASE RecordVerdict
  <2>1. /\ loop.stage = "VERIFY" /\ loop.pc = "check" /\ UNCHANGED <<taskStatus, attemptStatus>>
        /\ verdict \in {"PASSED", "FAILED", "CANCELLED", "ERROR"}
    BY <1>1, <1>8 DEF RecordVerdict, ControlOK, Types, CheckOutcomes
  <2>2. CASE Fault /\ Fail("error") /\ UNCHANGED rows
    <3>1. /\ loop'.pc = "fail" /\ loop'.stage = loop.stage /\ loop'.cycle = loop.cycle
      BY <1>1, <2>2, MovesAreTyped DEF Failures
    <3> QED BY <1>2, <2>1, <2>2, <3>1 DEF OutcomeOK, Key
  <2>3. CASE /\ PutRow(Row(VerdictStatus, 0, NONE))
             /\ IF verdict = "PASSED" THEN Goto("commit") ELSE Fail(VerdictFailure)
    <3>1. VerdictStatus \in RowStatuses /\ VerdictFailure \in Failures
      BY <2>1 DEF VerdictStatus, RowStatuses, VerdictFailure, Failures
    <3>2. /\ rows'[<<loop.stage, loop.cycle>>] = Row(VerdictStatus, 0, NONE)
      BY <1>1, <2>3, <3>1, RowsAreTyped, PutsOneRow
    <3>3. verdict # "PASSED" => Tells(VerdictFailure, Row(VerdictStatus, 0, NONE))
      BY <1>1, <2>1 DEF Tells, VerdictFailure, VerdictStatus, Row, Decisions
    <3>4. /\ loop'.stage = loop.stage /\ loop'.cycle = loop.cycle
          /\ \/ verdict = "PASSED" /\ loop'.pc = "commit"
             \/ verdict # "PASSED" /\ loop'.pc = "fail" /\ loop'.failure = VerdictFailure
      BY <1>1, <2>3, <3>1, MovesAreTyped DEF Steps
    <3> QED BY <2>1, <3>2, <3>3, <3>4 DEF OutcomeOK, Key, Row
  <2> QED BY <1>8, <2>2, <2>3 DEF RecordVerdict
<1>9. CASE Commit
  <2>1. /\ UNCHANGED <<rows, taskStatus, attemptStatus, faults>> /\ loop.stage = "VERIFY"
        /\ rows[Key].status = "SUCCEEDED"
    BY <1>1, <1>9 DEF Commit, storeVars, boundVars, ControlOK, RowsOK
  <2>2. /\ loop'.stage = loop.stage /\ loop'.cycle = loop.cycle
        /\ loop'.pc = "integrating" \/ (loop'.pc = "fail" /\ loop'.failure = "error")
    BY <1>1, <1>9, MovesAreTyped DEF Commit, Steps, Failures
  <2>3. Tells("error", rows[Key])
    BY <1>1, <2>1 DEF OutcomeOK, Tells, Decisions
  <2> QED BY <1>9, <2>1, <2>2, <2>3 DEF Commit, OutcomeOK, Key
<1>10. CASE EnterIntegrating
  <2>1. /\ UNCHANGED <<rows, attemptStatus>> /\ loop.stage = "VERIFY"
        /\ rows[Key].status = "SUCCEEDED" /\ rows[Key].decision = NONE
        /\ attemptStatus = "RUNNING" /\ taskStatus \notin {"CANCELLED", "BLOCKED"}
    BY <1>1, <1>10 DEF EnterIntegrating, ControlOK, RowsOK, OutcomeOK
  <2>2. /\ loop'.stage = loop.stage /\ loop'.cycle = loop.cycle
        /\ \/ loop'.pc = "ended" /\ taskStatus' = "INTEGRATING"
           \/ loop'.pc = "fail" /\ faults' # 0 /\ taskStatus' = taskStatus
    BY <1>1, <1>2, <1>10, MovesAreTyped DEF EnterIntegrating, Steps, Failures
  <2> QED BY <1>1, <2>1, <2>2 DEF OutcomeOK, Key, Decisions
<1>11. CASE FailExecution
  <2>1. /\ loop'.stage = loop.stage /\ loop'.cycle = loop.cycle /\ loop'.pc = "ended"
        /\ loop.pc = "fail" /\ rows' = rows
    BY <1>1, <1>11, MovesAreTyped DEF FailExecution, Steps
  <2>2. CASE Fault
    BY <1>2, <2>1, <2>2 DEF OutcomeOK, Key
  <2>3. CASE /\ taskStatus' = TaskStatusOf(loop.failure)
             /\ attemptStatus' = AttemptStatusOf(loop.failure) /\ UNCHANGED faults
    <3>1. /\ TaskStatusOf(loop.failure) = "CANCELLED" <=> loop.failure = "cancelled"
          /\ TaskStatusOf(loop.failure) = "BLOCKED" <=> loop.failure = "review_exhausted"
          /\ AttemptStatusOf(loop.failure) = "TIMED_OUT" <=> loop.failure = "timeout"
      BY DEF TaskStatusOf, AttemptStatusOf
    <3> QED BY <2>1, <2>3, <3>1 DEF OutcomeOK, Key, Tells
  <2> QED BY <1>11, <2>2, <2>3 DEF FailExecution
<1> QED BY <1>1, <1>3, <1>4, <1>5, <1>6, <1>7, <1>8, <1>9, <1>10, <1>11, OutcomeWhenClosed
        DEF Next, ExecutorStep, RowsInv

\* When the store has not failed, an attempt that ends leaves no stage RUNNING
\* and its status and its task's are those of the stage it ended with.
THEOREM RowsAlwaysTell == Spec => []RowsTellTheOutcome
<1>1. Init => OutcomeOK
  <2> SUFFICES ASSUME Init PROVE OutcomeOK
    OBVIOUS
  <2>1. loop.pc = "enter" /\ loop.stage = FirstStage(workflow) /\ attemptStatus = "RUNNING"
        /\ taskStatus = "READY"
    BY DEF Init
  <2> QED BY <2>1 DEF OutcomeOK, FirstStage, At, Stage, Ended
<1>2. BaseInv /\ RowsInv /\ CommitGate /\ OutcomeOK /\ [Next]_vars => OutcomeOK'
  BY OutcomeStep
<1>3. BaseInv /\ RowsInv /\ OutcomeOK => RowsTellTheOutcome
  <2> SUFFICES ASSUME BaseInv, RowsInv, OutcomeOK, Ended, faults = 0
               PROVE  RowsTellTheOutcome
    BY DEF RowsTellTheOutcome
  <2>1. \A k \in Keys : rows[k].status # "RUNNING"
    <3>1. \A s \in Stages, c \in Cycles : rows[<<s, c>>].status # "RUNNING"
      BY DEF RowsInv, RowsOK, OutcomeOK, Key
    <3> QED BY <3>1, StagesAreFive
  <2> QED BY <2>1 DEF OutcomeOK, RowsTellTheOutcome
<1> QED BY <1>1, <1>2, <1>3, AttemptsKeepInv, AttemptsKeepRows, AttemptsKeepGates, PTL DEF Spec

-----------------------------------------------------------------------------
(* What a commit contains *)

\* Where the commit may differ from what the reviewer was shown.
MayDiffer(f, before) ==
    \/ f \in Nested /\ Status(before).newDirectory
    \/ Entry(f, before) # <<" ", " ">> /\ ~Untracked(f, before)

Shown(content, l) == \A f \in Files : content[f] # l.evidence[f] => MayDiffer(f, l.before)

\* The reviewer's evidence, from the start of the review to the commit.
ShownOK ==
    /\ Stage("CODE_REVIEW") /\ At("agent") =>
         loop.before \in Worktrees /\ loop.evidence = Evidence(loop.before)
    /\ Stage("CODE_REVIEW") /\ At("close") /\ loop.result.status = "SUCCEEDED" => Shown(tree, loop)
    /\ Stage("CODE_REVIEW") /\ At("stageAll") => Shown(tree, loop)
    /\ Stage("VERIFY") =>
         /\ "CODE_REVIEW" \in workflow => Shown(index, loop)
         /\ \A f \in Files : index[f] # head[f] => f \in InScope

\* A review that sees no change misses only what the status entries do not
\* tell: files that were changed or staged before it began, and new
\* directories.  A file without an entry that gets one is seen.
LEMMA ReviewSeesChanges ==
    ASSUME NEW b \in Worktrees, NEW w \in Worktrees, SeenUnchanged(b, w),
           NEW f \in Files, w.tree[f] # Evidence(b)[f]
    PROVE  MayDiffer(f, b)
<1>1. CASE Hidden(f, b)
  BY <1>1 DEF MayDiffer, Hidden, Status
<1>2. CASE ~Hidden(f, b)
  <2>1. Evidence(b)[f] = b.tree[f] /\ w.tree[f] # b.tree[f]
    BY <1>2 DEF Evidence
  <2>2. ~Untracked(f, b)
    <3>1. Untracked(f, b) => f \in New
      BY DEF Untracked, Letter
    <3> QED BY <1>2, <2>1, <3>1 DEF SeenUnchanged, SameDigests
  <2>3. CASE Entry(f, b) # <<" ", " ">>
    BY <2>2, <2>3 DEF MayDiffer
  <2>4. CASE Entry(f, b) = <<" ", " ">>
    <3>1. Letter(f, b.head[f], b.index[f]) = " " /\ Letter(f, b.index[f], b.tree[f]) = " "
      BY <1>2, <2>4 DEF Entry
    <3>2. b.head[f] = b.index[f] /\ b.index[f] = b.tree[f]
      BY <3>1 DEF Letter
    <3>3. Status(b).entries[f] = Status(w).entries[f] /\ w.head[f] = b.head[f]
          /\ Status(b).newDirectory = Status(w).newDirectory
      BY DEF SeenUnchanged
    <3>4. Entry(f, w) = <<" ", " ">>
      BY <2>4, <3>3 DEF Status
    <3>5. Letter(f, w.head[f], w.index[f]) = " "
          /\ (Hidden(f, w) \/ Letter(f, w.index[f], w.tree[f]) = " ")
      BY <3>4 DEF Entry
    <3>6. Hidden(f, w)
      BY <2>1, <3>2, <3>3, <3>5 DEF Letter
    <3>7. f \in Nested /\ Status(w).newDirectory
      BY <3>6 DEF Hidden, Status
    <3> QED BY <3>3, <3>7 DEF MayDiffer
  <2> QED BY <2>3, <2>4
<1> QED BY <1>1, <1>2

\* A step that leaves the worktree and what was shown, and begins nothing.
LEMMA ShownIsKept ==
    ASSUME ShownOK, UNCHANGED <<tree, index, workflow>>, head' = head \/ head' = index,
           loop'.stage = loop.stage, loop'.before = loop.before, loop'.evidence = loop.evidence,
           loop'.pc \notin {"agent", "stageAll"},
           loop'.pc = "close" => loop'.result.status # "SUCCEEDED"
    PROVE  ShownOK'
BY DEF ShownOK, Shown, Stage, At

\* From the start of the agent's run to the judgement of what it left.
LEMMA ShownWhenJudged ==
    ASSUME BaseInv, ShownOK, Prepare \/ AgentReturns
    PROVE  ShownOK'
<1> USE DEF At, Stage
<1>1. /\ loop \in LoopRecord /\ UNCHANGED <<tree, index, head, workflow>>
      /\ Worktree \in Worktrees /\ loop.stage # "VERIFY"
  BY DEF BaseInv, Types, Prepare, AgentReturns, gitVars, Worktree, Worktrees, ControlOK
<1>2. CASE Prepare
           /\ loop' = [loop EXCEPT !.pc = "agent", !.context = ContextOfStage,
                                  !.before = IF Stage("CODE_REVIEW") THEN Worktree ELSE NONE,
                                  !.evidence = IF Stage("CODE_REVIEW") THEN Evidence(Worktree)
                                               ELSE NONE]
  <2>1. /\ loop'.pc = "agent" /\ loop'.stage = loop.stage
        /\ Stage("CODE_REVIEW") =>
              loop'.before = Worktree /\ loop'.evidence = Evidence(Worktree)
    BY <1>1, <1>2 DEF LoopRecord
  <2> QED BY <1>1, <2>1 DEF ShownOK
<1>3. ASSUME NEW status, NEW plan, NEW decision, StageEnds(status, plan, decision)
      PROVE  /\ loop'.pc = "close" /\ loop'.stage = loop.stage /\ loop'.result.status = status
             /\ loop'.before = loop.before /\ loop'.evidence = loop.evidence
  BY <1>1, <1>3 DEF StageEnds, LoopRecord, Row
<1>4. CASE StageEnds("FAILED", 0, NONE)
           \/ StageEnds(StatusOfFailure(AgentResult(run.outcome)), 0, NONE)
  <2>1. StatusOfFailure(AgentResult(run.outcome)) # "SUCCEEDED"
    BY DEF StatusOfFailure
  <2>2. /\ loop'.pc = "close" /\ loop'.stage = loop.stage /\ loop'.result.status # "SUCCEEDED"
        /\ loop'.before = loop.before /\ loop'.evidence = loop.evidence
    BY <1>3, <1>4, <2>1
  <2> QED BY <1>1, <2>2, ShownIsKept
<1>5. CASE PlanEnds \/ PlanReviewEnds \/ ImplementEnds
  <2>1. loop.stage # "CODE_REVIEW" /\ \E status, plan, decision : StageEnds(status, plan, decision)
    <3>1. CASE \E d \in Decisions : StageEnds("SUCCEEDED", 0, d)
      BY <1>5, <3>1 DEF PlanEnds, PlanReviewEnds, ImplementEnds
    <3>2. CASE StageEnds("SUCCEEDED", loop.cycle, NONE) \/ StageEnds("SUCCEEDED", 0, NONE)
      BY <1>5, <3>2 DEF PlanEnds, PlanReviewEnds, ImplementEnds
    <3> QED BY <1>5, <3>1, <3>2 DEF PlanEnds, PlanReviewEnds, ImplementEnds
  <2>2. loop'.pc = "close" /\ loop'.stage = loop.stage
    BY <1>3, <2>1
  <2> QED BY <1>1, <2>1, <2>2 DEF ShownOK
<1>6. CASE AgentReturns /\ CodeReviewEnds
  <2>1. /\ loop.stage = "CODE_REVIEW" /\ SeenUnchanged(loop.before, Worktree)
        /\ loop.before \in Worktrees /\ loop.evidence = Evidence(loop.before)
    BY <1>6 DEF CodeReviewEnds, AgentReturns, ShownOK
  <2>2. Shown(tree, loop)
    BY <1>1, <2>1, ReviewSeesChanges DEF Shown, Worktree
  <2>3. /\ loop'.pc = "close" /\ loop'.stage = loop.stage
        /\ loop'.before = loop.before /\ loop'.evidence = loop.evidence
    BY <1>3, <1>6 DEF CodeReviewEnds
  <2>4. Shown(tree', loop')
    BY <1>1, <2>2, <2>3 DEF Shown
  <2> QED BY <1>1, <2>1, <2>3, <2>4 DEF ShownOK
<1> QED BY <1>2, <1>4, <1>5, <1>6 DEF Prepare, AgentReturns

\* Closing and staging: what the approving reviewer was shown is staged.
LEMMA ShownWhenStaged ==
    ASSUME BaseInv, RowsInv, ShownOK, CloseStage \/ StageAll
    PROVE  ShownOK'
<1> USE DEF At, Stage
<1>1. /\ Types /\ ControlOK /\ ResultOK /\ loop \in LoopRecord
      /\ UNCHANGED <<tree, head, workflow>> /\ loop.stage # "VERIFY"
  BY DEF BaseInv, RowsInv, Types, CloseStage, StageAll, gitVars, ControlOK
<1>2. CASE /\ CloseStage /\ PutRow(loop.result)
           /\ (StageFailed \/ WorkSucceeded \/ ReviewSucceeded)
  <2>1. loop'.before = loop.before /\ loop'.evidence = loop.evidence /\ index' = index
        /\ loop.pc = "close"
    BY <1>1, <1>2, WaysOn DEF CloseStage, gitVars
  <2>2. CASE WorkIsDone
    <3>1. /\ loop'.pc = "stageAll" /\ loop'.stage = loop.stage
          /\ loop.result.status = "SUCCEEDED"
      BY <2>2 DEF WorkIsDone, Moves
    <3>2. loop.stage = "CODE_REVIEW" => Shown(tree', loop')
      BY <1>1, <2>1, <3>1 DEF ShownOK, Shown
    <3> QED BY <1>1, <3>1, <3>2 DEF ShownOK
  <2>3. CASE ~WorkIsDone
    <3>1. loop'.pc \in {"fail", "enter"} /\ loop'.stage # "VERIFY"
      BY <1>1, <1>2, <2>1, <2>3, WaysOn
      DEF Fails, Exhausted, PlanningIsOver, IsReviewed, IsRepeated, Moves
    <3> QED BY <3>1 DEF ShownOK
  <2> QED BY <2>2, <2>3
<1>3. CASE CloseStage /\ loop' = [loop EXCEPT !.result = Row("FAILED", 0, NONE), !.retry = FALSE]
  <2>1. /\ loop'.stage = loop.stage /\ loop'.pc = "close" /\ loop'.result.status = "FAILED"
    BY <1>1, <1>3 DEF LoopRecord, Row, CloseStage
  <2> QED BY <1>1, <2>1 DEF ShownOK
<1>4. CASE Fail("error")
  <2>1. /\ loop'.stage = loop.stage /\ loop'.pc = "fail"
    BY <1>1, <1>4, MovesAreTyped DEF Failures
  <2> QED BY <1>1, <2>1 DEF ShownOK
<1>5. CASE StageAll /\ GotoStage("VERIFY", 1) /\ index' = tree
           /\ {f \in Files : tree[f] # head[f]} \subseteq InScope
  <2>1. /\ loop'.stage = "VERIFY" /\ loop'.pc = "enter"
        /\ loop'.before = loop.before /\ loop'.evidence = loop.evidence
    BY <1>1, <1>5, AttemptStagesAssumption, MovesAreTyped DEF Stages, Cycles
  <2>2. "CODE_REVIEW" \in workflow => Shown(tree, loop)
    BY <1>1, <1>5 DEF StageAll, ControlOK, ShownOK
  <2>3. "CODE_REVIEW" \in workflow' => Shown(index', loop')
    BY <1>1, <1>5, <2>1, <2>2 DEF Shown
  <2> QED BY <1>1, <1>5, <2>1, <2>3 DEF ShownOK
<1> QED BY <1>2, <1>3, <1>4, <1>5 DEF CloseStage, StageAll

\* Every step keeps the evidence.
LEMMA ShownStep ==
    ASSUME BaseInv, RowsInv, ShownOK, [Next]_vars
    PROVE  ShownOK'
<1> USE DEF At, Stage
<1>1. /\ Types /\ ControlOK /\ loop \in LoopRecord /\ loop.stage \in Stages
  BY DEF BaseInv, Types, LoopRecord
<1>2. CASE UNCHANGED vars \/ RunnerStep \/ RunChecks
  BY <1>2 DEF vars, RunnerStep, RunChecks, gitVars, ShownOK, Shown
<1>3. CASE WriteFile \/ AgentStages \/ AgentCommits
  <2>1. UNCHANGED <<workflow, loop>> /\ loop.pc \in {"agent", "check"}
    BY <1>3 DEF WriteFile, AgentStages, AgentCommits, AgentAtWork, CheckAtWork
  <2>2. loop.pc = "agent" => loop.stage # "VERIFY"
    BY <1>1 DEF ControlOK
  <2>3. loop.pc = "check" => UNCHANGED <<index, head>>
    BY <1>3 DEF WriteFile, AgentStages, AgentCommits, AgentAtWork
  <2> QED BY <2>1, <2>2, <2>3 DEF ShownOK, Shown
<1>4. CASE EnterStage \/ RecordVerdict \/ Commit \/ EnterIntegrating \/ FailExecution
  <2>1. /\ loop'.stage = loop.stage /\ loop'.before = loop.before
        /\ loop'.evidence = loop.evidence
        /\ loop'.pc \in {"open", "commit", "integrating", "ended", "fail"}
    <3>1. VerdictFailure \in Failures
      BY DEF VerdictFailure, Failures
    <3>2. \/ \E pc \in {"open", "commit", "integrating", "ended"} : Goto(pc)
          \/ Fail("error") \/ Fail(VerdictFailure)
      BY <1>4 DEF EnterStage, RecordVerdict, Commit, EnterIntegrating, FailExecution
    <3> QED BY <1>1, <3>1, <3>2, MovesAreTyped DEF Steps, Failures
  <2>2. UNCHANGED <<tree, index, workflow>> /\ (head' = head \/ head' = index)
    BY <1>4 DEF EnterStage, RecordVerdict, Commit, CommitStaged, EnterIntegrating, FailExecution,
                gitVars
  <2> QED BY <2>1, <2>2, ShownIsKept
<1>5. CASE OpenStage
  <2>1. /\ loop'.stage = loop.stage /\ loop'.before = loop.before
        /\ loop'.evidence = loop.evidence
        /\ loop'.pc \in {"check", "close", "prepare", "fail"}
        /\ loop'.pc = "close" => loop'.result.status # "SUCCEEDED"
    <3>1. CASE Fail("error")
      BY <1>1, <3>1, MovesAreTyped DEF Failures
    <3>2. CASE loop' = [loop EXCEPT !.pc = "check"]
      BY <1>1, <3>2 DEF LoopRecord
    <3>3. CASE loop' = [loop EXCEPT !.pc = "close", !.result = Row("CANCELLED", 0, NONE),
                                       !.retry = FALSE]
      BY <1>1, <3>3 DEF LoopRecord, Row
    <3>4. CASE loop' = [loop EXCEPT !.pc = "prepare", !.retry = TRUE]
      BY <1>1, <3>4 DEF LoopRecord
    <3> QED BY <1>5, <3>1, <3>2, <3>3, <3>4 DEF OpenStage
  <2> QED BY <1>5, <2>1, ShownIsKept DEF OpenStage, gitVars
<1> QED BY <1>2, <1>3, <1>4, <1>5, ShownWhenJudged, ShownWhenStaged DEF Next, ExecutorStep

\* The runner's own commit has only paths the scope check saw, and differs from
\* what the approving reviewer was shown only in new directories and in tracked
\* files that were changed, or staged, before the review began.
THEOREM CommitsAreConfined == Spec => CommitIsConfined
<1> DEFINE Confined ==
      At("commit") =>
          \A f \in Files :
             /\ head'[f] # head[f] => f \in InScope
             /\ "CODE_REVIEW" \in workflow /\ head'[f] # loop.evidence[f] =>
                   \/ f \in Nested /\ Status(loop.before).newDirectory
                   \/ Entry(f, loop.before) # <<" ", " ">> /\ ~Untracked(f, loop.before)
<1>1. Init => ShownOK
  BY DEF Init, ShownOK, FirstStage, At, Stage
<1>2. BaseInv /\ RowsInv /\ ShownOK /\ [Next]_vars => ShownOK'
  BY ShownStep
<1>3. BaseInv /\ ShownOK /\ [Next]_vars => [Confined]_head
  <2> SUFFICES ASSUME BaseInv, ShownOK, Next, head' # head, At("commit")
               PROVE  Confined
    BY DEF vars, gitVars
  <2>1. Commit \/ AgentCommits
    BY DEF Next, ExecutorStep, EnterStage, OpenStage, Prepare, AgentReturns, CloseStage, StageAll,
           RunChecks, RecordVerdict, EnterIntegrating, FailExecution, RunnerStep, WriteFile,
           AgentStages, gitVars
  <2>2. head' = index
    BY <2>1 DEF Commit, CommitStaged, AgentCommits
  <2>3. Stage("VERIFY")
    BY DEF BaseInv, ControlOK, At
  <2> QED BY <2>2, <2>3 DEF ShownOK, Shown, MayDiffer
<1> QED BY <1>1, <1>2, <1>3, AttemptsKeepInv, AttemptsKeepRows, PTL DEF Spec, CommitIsConfined
=============================================================================
