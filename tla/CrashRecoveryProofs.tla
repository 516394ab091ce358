------------------------ MODULE CrashRecoveryProofs ------------------------
(***************************************************************************)
(* Proofs about one runner process on one task, with either executor: for  *)
(* every workflow, every number of attempts, crashes, review cycles and    *)
(* commits of others, the persisted status moves only as the state machine *)
(* allows, and a task that is under way has a running last attempt.        *)
(* What completion rests on is in RecoveryEvidenceProofs.                  *)
(***************************************************************************)
EXTENDS CrashRecovery, TLAPS

\* A direct run takes no claim: a second process would reconcile the task that
\* the first one executes.  The theorems are about one process at a time.
Alone == \A p, q \in Processes : p = q

-----------------------------------------------------------------------------
(* The invariant *)

Row == [status : {"RUNNING", "SUCCEEDED", "FAILED", "CANCELLED", "TIMED_OUT"}, base : Revisions]

Events == [verification : Verdicts \cup {NONE}, commit : Revisions \cup {NONE},
           integrations : Nat,
           final : [status : Verdicts \cup {NONE}, revision : Revisions \cup {NONE}]]

CommandFields == {"pc", "phase", "attempt", "status", "cycle", "created", "revision",
                  "verdict", "failure", "merged"}

Shaped == DOMAIN proc = Processes /\ \A p \in Processes : DOMAIN proc[p] = CommandFields

Types ==
    /\ taskStatus \in TaskStatuses
    /\ attempts \in Seq(Row) /\ Len(attempts) <= AttemptBound
    /\ log \in [Numbers -> Events]
    /\ head \in Revisions
    /\ branch \in [Numbers -> Revisions \cup {NONE}]
    /\ worktree \in [Numbers -> {"absent", "clean", "dirty", "staged"}]
    /\ \A n \in Numbers : worktree[n] # "absent" => branch[n] # NONE
    /\ agents \subseteq Numbers
    /\ Shaped

In(p, places) == proc[p].pc \in places

\* Where a command is not yet, or no longer, at work on an attempt.
Free == {"idle", "recover", "sweep", "retry", "execute", "begin"}

\* Where it is at work on the last attempt.
Entering == {"enter"}
Staging == {"branch", "worktree", "stage", "agent"}
Staged == {"stageAll", "verifying"}
Verifying == {"verify", "verified", "commit", "integrating",
              "reverify", "reverified", "recommit", "reintegrating"}
Integrating == {"integrate", "integrated", "finalVerify", "finalVerified", "done", "reintegrate"}
Inspecting == {"inspect", "classify"}
Resolving == {"head", "ancestry"}
Settling == {"fail", "conclude", "giveUp", "reset", "preserve", "human"}

OnLatest == Entering \cup Staging \cup Staged \cup Verifying \cup Integrating
                \cup Inspecting \cup Resolving \cup Settling

\* At each place the task has a status from which the next write is legal.
PlaceOK(p) ==
    /\ In(p, {"create", "attempt"}) =>
          taskStatus = "READY" /\ Own(p) = Latest + 1
    /\ In(p, OnLatest) => Own(p) = Latest
    /\ In(p, OnLatest \cup {"create", "attempt", "cleanup", "remove", "abandon", "sweepRemove"}) =>
          Own(p) \in Numbers
    /\ In(p, Entering) =>
          /\ taskStatus \in AgentStageStatuses \cup {"READY"}
          /\ proc[p].status \in AgentStageStatuses
          /\ CanTransition(taskStatus, proc[p].status)
          /\ attempts[Latest].status = "RUNNING"
    /\ In(p, Staging) => taskStatus \in AgentStageStatuses /\ taskStatus = proc[p].status
    /\ Single(p) /\ In(p, Entering \cup Staging) => proc[p].status = "IMPLEMENTING"
    /\ In(p, Staged) => taskStatus \in {"IMPLEMENTING", "CODE_REVIEW"}
    /\ In(p, Verifying) => taskStatus = "VERIFYING"
    /\ In(p, Integrating) => taskStatus = "INTEGRATING"
    /\ In(p, Inspecting) =>
          taskStatus = proc[p].status /\ taskStatus \in AgentStageStatuses \cup {"VERIFYING"}
    /\ In(p, Resolving) => taskStatus = proc[p].status /\ taskStatus \in {"INTEGRATING", "FAILED"}
    /\ At(p, "fail") => taskStatus \in ActiveStatuses \cup {"READY"}
    /\ At(p, "conclude") => taskStatus \in {"INTEGRATING", "FAILED"}
    /\ At(p, "giveUp") /\ ~proc[p].merged => taskStatus \in {"VERIFYING", "INTEGRATING"}
    /\ In(p, {"reset", "preserve"}) => taskStatus \in AgentStageStatuses
    /\ At(p, "human") => taskStatus \in ActiveStatuses
    /\ In(p, {"create", "attempt", "integrating", "reintegrating", "ancestry",
              "integrated", "finalVerify", "finalVerified"}) => proc[p].revision \in Revisions
    /\ In(p, {"verified", "reverified", "finalVerified"}) => proc[p].verdict \in Verdicts
    /\ In(p, {"worktree", "integrating", "integrate", "reintegrating", "reintegrate"}) =>
          branch[Own(p)] # NONE
    /\ In(p, Resolving) => log[Own(p)].commit # NONE

\* A recovery that has merged the branch itself is still inside its try: until
\* it has written DONE the task is INTEGRATING, and when the catch gives the
\* task up it is one or the other.
MergedOK(p) ==
    proc[p].merged =>
       /\ In(p, {"conclude", "giveUp", "cleanup", "remove"})
       /\ Own(p) = Latest
       /\ At(p, "conclude") => taskStatus = "INTEGRATING"
       /\ At(p, "giveUp") => taskStatus \in {"INTEGRATING", "DONE"} /\ proc[p].failure = "error"
       /\ In(p, {"cleanup", "remove"}) => taskStatus = "DONE"

MergedInv == \A p \in Processes : MergedOK(p)

ControlInv ==
    /\ Types
    /\ ActiveTaskHasRunningAttempt
    /\ \A p \in Processes : PlaceOK(p)

-----------------------------------------------------------------------------
(* Moves *)

\* Every command keeps its variables.
LEMMA MovesKeepShape ==
    ASSUME Types, NEW p \in Processes
    PROVE  /\ proc' = proc => Shaped'
           /\ \A pc : Goto(p, pc) => Shaped' /\ proc'[p] = [proc[p] EXCEPT !.pc = pc]
           /\ \A kind : Fail(p, kind) =>
                 Shaped' /\ proc'[p] = [proc[p] EXCEPT !.pc = "fail", !.failure = kind]
           /\ \A status, cycle : Enter(p, status, cycle) =>
                 /\ Shaped'
                 /\ proc'[p] = [proc[p] EXCEPT !.pc = "enter", !.status = status, !.cycle = cycle]
BY DEF Types, Shaped, Goto, Fail, Enter

\* The command at p has left the attempt.
Freed(p) == Shaped' /\ proc'[p].pc \in Free

\* A command that ends, or goes on after recovery, has left the attempt.
LEMMA ReturnsAreFree ==
    ASSUME Types, NEW p \in Processes
    PROVE  /\ Return(p) => Freed(p)
           /\ ReturnRunnable(p) => Freed(p)
           /\ Proceed(p) => Freed(p)
<1>1. DOMAIN proc = Processes /\ \A q \in Processes : DOMAIN proc[q] = CommandFields
  BY DEF Types, Shaped
<1>2. DOMAIN Idle = CommandFields /\ Idle.pc = "idle"
  BY DEF Idle, CommandFields
<1>3. Return(p) => Freed(p)
  BY <1>1, <1>2 DEF Return, Freed, Free, Shaped
<1>4. ReturnRunnable(p) => Freed(p)
  <2>1. \A executor \in Executors :
           DOMAIN Begun(executor) = CommandFields /\ Begun(executor).pc \in Free
    BY <1>2 DEF Begun, Free
  <2> QED BY <1>1, <1>3, <2>1 DEF ReturnRunnable, Freed, Shaped
<1>5. Proceed(p) => Freed(p)
  BY <1>1, <1>2 DEF Proceed, Freed, Free, Shaped
<1> QED BY <1>3, <1>4, <1>5

\* The proofs below are about places: these say which place is which.
USE DEF In, At, Own, Free, OnLatest, Entering, Staging, Staged, Verifying, Integrating,
        Inspecting, Resolving, Settling

\* Where a command is at work on no attempt nothing is required of it.
LEMMA FreePlaceIsOK ==
    ASSUME NEW p \in Processes, proc'[p].pc \in Free
    PROVE  PlaceOK(p)'
BY DEF PlaceOK

\* A command that is not at work on the attempt any more needs nothing.
LEMMA CleanupPlaceIsOK ==
    ASSUME NEW p \in Processes, proc'[p].pc \in {"cleanup", "remove", "abandon", "sweepRemove"},
           proc'[p].attempt \in Numbers
    PROVE  PlaceOK(p)'
BY DEF PlaceOK

\* The transitions that the executors make between the stages.
LEMMA WorkflowTransitions ==
    /\ \A to \in {"PLANNING", "IMPLEMENTING"} : CanTransition("READY", to)
    /\ \A to \in {"PLAN_REVIEW", "IMPLEMENTING"} : CanTransition("PLANNING", to)
    /\ \A to \in {"PLANNING", "IMPLEMENTING"} : CanTransition("PLAN_REVIEW", to)
    /\ \A to \in {"CODE_REVIEW", "VERIFYING"} : CanTransition("IMPLEMENTING", to)
    /\ \A to \in {"IMPLEMENTING", "VERIFYING"} : CanTransition("CODE_REVIEW", to)
    /\ CanTransition("VERIFYING", "INTEGRATING") /\ CanTransition("INTEGRATING", "DONE")
    /\ \A from \in ActiveStatuses \cup {"READY"}, to \in Escalations : CanTransition(from, to)
BY DEF CanTransition, TaskStatusTransitions, ActiveStatuses, Escalations, RetryableStatuses

\* A single process: a step is right if it leaves the types, the attempt and
\* the place of that process right.
LEMMA OneProcessSuffices ==
    ASSUME Alone, NEW p \in Processes,
           Types', ActiveTaskHasRunningAttempt', PlaceOK(p)'
    PROVE  ControlInv'
<1>1. ASSUME NEW q \in Processes
      PROVE  PlaceOK(q)'
  <2>1. q = p
    BY DEF Alone
  <2> QED BY <2>1
<1> QED BY <1>1 DEF ControlInv

\* A step that writes neither the status nor an attempt.
LEMMA RowsUnchanged ==
    ASSUME ControlInv, Alone, NEW p \in Processes, UNCHANGED <<taskStatus, attempts>>,
           log' \in [Numbers -> Events], head' \in Revisions,
           branch' \in [Numbers -> Revisions \cup {NONE}],
           worktree' \in [Numbers -> {"absent", "clean", "dirty", "staged"}],
           \A n \in Numbers : worktree'[n] # "absent" => branch'[n] # NONE,
           agents' \subseteq Numbers, Shaped', PlaceOK(p)'
    PROVE  ControlInv'
BY OneProcessSuffices DEF ControlInv, Types, ActiveTaskHasRunningAttempt, Latest

\* A step that writes nothing outside the process.
LEMMA OnlyMoves ==
    ASSUME ControlInv, Alone, NEW p \in Processes, UNCHANGED <<storeVars, gitVars, agents>>,
           Shaped', PlaceOK(p)'
    PROVE  ControlInv'
BY RowsUnchanged DEF ControlInv, Types, storeVars, gitVars

\* A removal of a worktree after which the command is done with the attempt.
LEMMA RemovalKeepsControl ==
    ASSUME ControlInv, Alone, NEW p \in Processes, NEW n \in Numbers, RemoveWorktree(n), Freed(p),
           UNCHANGED <<storeVars, head, branch, agents>>
    PROVE  ControlInv'
<1>1. /\ worktree' \in [Numbers -> {"absent", "clean", "dirty", "staged"}]
      /\ \A m \in Numbers : worktree'[m] # "absent" => worktree[m] # "absent"
  BY DEF ControlInv, Types, RemoveWorktree, Dirty
<1>2. PlaceOK(p)'
  BY FreePlaceIsOK DEF Freed
<1> QED BY <1>1, <1>2, RowsUnchanged DEF ControlInv, Types, storeVars, Freed

-----------------------------------------------------------------------------
(* The executors *)

\* An executor begins only with a READY task, and with the next number.
LEMMA BeginningKeepsControl ==
    ASSUME ControlInv, Alone, NEW p \in Processes, Execute(p) \/ ExecuteSingle(p)
    PROVE  ControlInv'
<1>a. Types /\ PlaceOK(p) /\ DOMAIN proc = Processes /\ DOMAIN proc[p] = CommandFields
  BY DEF ControlInv, Types, Shaped
<1>1. Types' /\ ActiveTaskHasRunningAttempt'
  BY <1>a, ReturnsAreFree DEF ControlInv, Types, Execute, ExecuteSingle, storeVars, gitVars,
     ActiveTaskHasRunningAttempt, Latest, Idle, CommandFields, Freed, Shaped
<1>2. CASE taskStatus # "READY" \/ Len(attempts) = AttemptBound
  <2>1. Freed(p)
    BY <1>2, <1>a, ReturnsAreFree
    DEF Execute, ExecuteSingle, Types, Freed, Idle, CommandFields, Shaped
  <2> QED BY <1>1, <2>1, FreePlaceIsOK, OneProcessSuffices DEF Freed
<1>3. CASE taskStatus = "READY" /\ Len(attempts) < AttemptBound
  <2>1. Len(attempts) + 1 \in Numbers
    BY <1>3, <1>a, TaskExecutionAssumption DEF Types, Numbers
  <2>2. /\ proc'[p].pc \in {"create", "attempt"} /\ proc'[p].attempt = Len(attempts) + 1
        /\ proc'[p].revision \in Revisions /\ UNCHANGED <<taskStatus, attempts>>
    <3>1. CASE Execute(p)
      <4>1. ~(taskStatus # "READY" \/ Len(attempts) = AttemptBound)
        BY <1>3, <1>a, TaskExecutionAssumption DEF Types
      <4>2. proc' = [proc EXCEPT ![p] = [Idle EXCEPT !.pc = "create", !.phase = "execute",
                                           !.attempt = Len(attempts) + 1, !.revision = head]]
        BY <3>1, <4>1 DEF Execute
      <4> QED BY <3>1, <4>2, <1>a DEF Execute, Types, Idle, storeVars
    <3>2. CASE ExecuteSingle(p)
      BY <3>2, <1>3, <1>a DEF ExecuteSingle, Types, CommandFields, storeVars
    <3> QED BY <3>1, <3>2
  <2>3. PlaceOK(p)'
    BY <1>3, <2>1, <2>2 DEF PlaceOK, Latest
  <2> QED BY <1>1, <2>3, OneProcessSuffices
<1> QED BY <1>2, <1>3, <1>a, TaskExecutionAssumption DEF Types

\* The attempt row is appended as RUNNING, or the command is rejected.
LEMMA CreationKeepsControl ==
    ASSUME ControlInv, Alone, NEW p \in Processes,
           (~Single(p) /\ CreateAttempt(p)) \/ CreateSingleAttempt(p)
    PROVE  ControlInv'
<1>a. Types /\ PlaceOK(p) /\ DOMAIN proc = Processes /\ DOMAIN proc[p] = CommandFields
  BY DEF ControlInv, Types, Shaped
<1>b. /\ taskStatus = "READY" /\ Own(p) = Len(attempts) + 1 /\ Own(p) \in Numbers
      /\ proc[p].revision \in Revisions /\ Len(attempts) \in Nat
  BY <1>a DEF CreateAttempt, CreateSingleAttempt, PlaceOK, Latest, Types
<1>1. CASE Return(p) /\ UNCHANGED attempts
  <2>1. Freed(p)
    BY <1>a, <1>1, ReturnsAreFree
  <2> QED BY <2>1, <1>1, FreePlaceIsOK, OnlyMoves
          DEF CreateAttempt, CreateSingleAttempt, storeVars, gitVars, Freed
<1>2. CASE /\ PutAttempt(Own(p), [status |-> "RUNNING", base |-> proc[p].revision])
           /\ \/ ~Single(p) /\ Enter(p, FirstStage, 1)
              \/ Enter(p, "IMPLEMENTING", 1)
  <2> DEFINE row == [status |-> "RUNNING", base |-> proc[p].revision]
  <2>1. row \in Row /\ row.status = "RUNNING"
    BY <1>b DEF Row
  <2>2. attempts' = Append(attempts, row)
    BY <1>2, <1>a, <1>b DEF PutAttempt, Types
  <2>3. /\ attempts' \in Seq(Row) /\ Len(attempts') = Len(attempts) + 1
        /\ attempts'[Len(attempts) + 1].status = "RUNNING"
    BY <2>1, <2>2, <1>a DEF Types
  <2>4. Shaped'
    BY <1>a, <1>2, MovesKeepShape
  <2>5. Types' /\ ActiveTaskHasRunningAttempt'
    <3>1. UNCHANGED <<taskStatus, log, head, branch, worktree, agents>>
      BY DEF CreateAttempt, CreateSingleAttempt, gitVars
    <3>2. Len(attempts) + 1 <= AttemptBound
      BY <1>b, TaskExecutionAssumption DEF Numbers
    <3>3. Types'
      BY <2>3, <2>4, <1>a, <3>1, <3>2 DEF Types
    <3> QED BY <3>1, <3>3, <1>b DEF ActiveTaskHasRunningAttempt, ActiveStatuses
  <2>6. /\ proc'[p].pc = "enter" /\ proc'[p].attempt = Own(p)
        /\ proc'[p].status \in {"PLANNING", "IMPLEMENTING"} /\ proc'[p].phase = proc[p].phase
        /\ Single(p) => proc'[p].status = "IMPLEMENTING"
    BY <1>a, <1>2 DEF Enter, CommandFields, FirstStage
  <2>7. PlaceOK(p)'
    BY <2>3, <2>6, <1>a, <1>b, WorkflowTransitions
    DEF CreateAttempt, CreateSingleAttempt, PlaceOK, Latest, AgentStageStatuses, Single
  <2> QED BY <2>5, <2>7, OneProcessSuffices
<1> QED BY <1>1, <1>2 DEF CreateAttempt, CreateSingleAttempt

\* transitionTask into an agent stage.
LEMMA StageEntryKeepsControl ==
    ASSUME ControlInv, Alone, NEW p \in Processes, EnterStage(p)
    PROVE  ControlInv'
<1>a. Types /\ PlaceOK(p) /\ Shaped /\ proc[p].pc = "enter"
  BY DEF ControlInv, Types, EnterStage
<1>b. /\ taskStatus' = proc[p].status /\ proc[p].status \in AgentStageStatuses
      /\ attempts[Latest].status = "RUNNING" /\ Latest \in Numbers /\ Own(p) = Latest
  BY <1>a DEF EnterStage, PlaceOK
<1>1. /\ Shaped' /\ proc'[p].pc \in {"stage", "branch"} /\ proc'[p].attempt = Own(p)
      /\ proc'[p].status = proc[p].status /\ proc'[p].phase = proc[p].phase
  BY <1>a DEF EnterStage, Goto, Shaped, CommandFields
<1>2. UNCHANGED <<attempts, log, head, branch, worktree, agents>>
  BY DEF EnterStage, gitVars
<1>3. AgentStageStatuses \subseteq TaskStatuses
  BY DEF AgentStageStatuses, TaskStatuses
<1>4. Types'
  BY <1>a, <1>b, <1>1, <1>2, <1>3 DEF Types
<1>5. ActiveTaskHasRunningAttempt'
  BY <1>b, <1>2 DEF ActiveTaskHasRunningAttempt, Latest, Numbers
<1>6. PlaceOK(p)'
  BY <1>a, <1>b, <1>1, <1>2 DEF PlaceOK, Latest, Single
<1> QED BY <1>4, <1>5, <1>6, OneProcessSuffices

\* A failure, wherever the task is under way.
LEMMA FailureKeepsControl ==
    ASSUME ControlInv, Alone, NEW p \in Processes, NEW kind, Fail(p, kind),
           taskStatus \in ActiveStatuses \cup {"READY"}, proc[p].pc \in OnLatest,
           UNCHANGED <<taskStatus, attempts>>,
           log' \in [Numbers -> Events], head' \in Revisions,
           branch' \in [Numbers -> Revisions \cup {NONE}],
           worktree' \in [Numbers -> {"absent", "clean", "dirty", "staged"}],
           \A n \in Numbers : worktree'[n] # "absent" => branch'[n] # NONE,
           agents' \subseteq Numbers
    PROVE  ControlInv'
<1>a. Types /\ PlaceOK(p) /\ Shaped
  BY DEF ControlInv, Types
<1>1. Shaped' /\ proc'[p].pc = "fail" /\ proc'[p].attempt = Own(p)
  BY <1>a DEF Fail, Shaped, CommandFields
<1>2. PlaceOK(p)'
  BY <1>a, <1>1 DEF PlaceOK, Latest
<1> QED BY <1>1, <1>2, RowsUnchanged

\* The branch and the worktree of the attempt.
LEMMA WorktreeCreationKeepsControl ==
    ASSUME ControlInv, Alone, NEW p \in Processes, CreateBranch(p) \/ CreateWorktree(p)
    PROVE  ControlInv'
<1>a. Types /\ PlaceOK(p) /\ Shaped
  BY DEF ControlInv, Types
<1>b. /\ taskStatus \in AgentStageStatuses /\ taskStatus = proc[p].status
      /\ Own(p) = Latest /\ Own(p) \in Numbers /\ proc[p].pc \in {"branch", "worktree"}
      /\ Single(p) => proc[p].status = "IMPLEMENTING"
  BY <1>a DEF CreateBranch, CreateWorktree, PlaceOK
<1>1. CASE Fail(p, "error") /\ UNCHANGED <<branch, worktree>>
  <2>1. taskStatus \in ActiveStatuses
    BY <1>b DEF AgentStageStatuses, ActiveStatuses
  <2>2. UNCHANGED <<taskStatus, attempts, log, head, agents>>
    BY DEF CreateBranch, CreateWorktree, storeVars
  <2> QED BY <1>1, <1>a, <1>b, <2>1, <2>2, FailureKeepsControl DEF Types
<1>2. CASE /\ At(p, "branch") /\ branch' = [branch EXCEPT ![Own(p)] = head]
           /\ Goto(p, "worktree") /\ UNCHANGED <<storeVars, head, worktree, agents>>
  <2>1. /\ branch' \in [Numbers -> Revisions \cup {NONE}] /\ branch'[Own(p)] # NONE
        /\ \A n \in Numbers : worktree'[n] # "absent" => branch'[n] # NONE
    BY <1>2, <1>a, <1>b, TaskExecutionAssumption DEF Types
  <2>2. /\ Shaped' /\ proc'[p].pc = "worktree" /\ proc'[p].attempt = Own(p)
        /\ proc'[p].status = proc[p].status /\ proc'[p].phase = proc[p].phase
    BY <1>2, <1>a DEF Goto, Shaped, CommandFields
  <2>3. PlaceOK(p)'
    BY <1>2, <1>b, <2>1, <2>2 DEF PlaceOK, Latest, Single, storeVars
  <2> QED BY <1>2, <1>a, <2>1, <2>2, <2>3, RowsUnchanged DEF Types, storeVars
<1>3. CASE /\ At(p, "worktree") /\ worktree' = [worktree EXCEPT ![Own(p)] = "clean"]
           /\ proc' = [proc EXCEPT ![p].pc = "stage", ![p].created = TRUE]
           /\ UNCHANGED <<storeVars, head, branch, agents>>
  <2>1. /\ worktree' \in [Numbers -> {"absent", "clean", "dirty", "staged"}]
        /\ \A n \in Numbers : worktree'[n] # "absent" => branch'[n] # NONE
    BY <1>3, <1>a, <1>b DEF Types, PlaceOK
  <2>2. /\ Shaped' /\ proc'[p].pc = "stage" /\ proc'[p].attempt = Own(p)
        /\ proc'[p].status = proc[p].status /\ proc'[p].phase = proc[p].phase
    BY <1>3, <1>a DEF Shaped, CommandFields
  <2>3. PlaceOK(p)'
    BY <1>3, <1>b, <2>2 DEF PlaceOK, Latest, Single, storeVars
  <2> QED BY <1>3, <1>a, <2>1, <2>2, <2>3, RowsUnchanged DEF Types, storeVars
<1> QED BY <1>1, <1>2, <1>3 DEF CreateBranch, CreateWorktree

\* A write of an attempt's status.
LEMMA StatusWrites ==
    ASSUME Types, NEW n \in 1..Latest, NEW status,
           status \in {"RUNNING", "SUCCEEDED", "FAILED", "CANCELLED", "TIMED_OUT"},
           WithStatus(n, status)
    PROVE  /\ attempts' \in Seq(Row) /\ Len(attempts') = Len(attempts)
           /\ attempts'[n].status = status
<1>1. attempts \in Seq(Row) /\ n \in DOMAIN attempts /\ attempts[n] \in Row
  BY DEF Types, Latest
<1>2. [attempts[n] EXCEPT !.status = status] \in Row
  BY <1>1 DEF Row
<1>3. attempts' = [attempts EXCEPT ![n] = [attempts[n] EXCEPT !.status = status]]
  BY DEF WithStatus
<1> QED BY <1>1, <1>2, <1>3 DEF Row

\* The agent is started, by either executor.
LEMMA InvocationKeepsControl ==
    ASSUME ControlInv, Alone, NEW p \in Processes, InvokeAgent(p) \/ InvokeSingleAgent(p)
    PROVE  ControlInv'
<1>a. Types /\ PlaceOK(p) /\ Shaped
  BY DEF ControlInv, Types
<1>b. /\ proc[p].pc = "stage" /\ taskStatus \in AgentStageStatuses /\ taskStatus = proc[p].status
      /\ Own(p) = Latest /\ Own(p) \in Numbers
      /\ Single(p) => proc[p].status = "IMPLEMENTING"
  BY <1>a DEF InvokeAgent, InvokeSingleAgent, PlaceOK
<1>1. /\ Shaped' /\ proc'[p].pc = "agent" /\ proc'[p].attempt = Own(p)
      /\ proc'[p].status = proc[p].status /\ proc'[p].phase = proc[p].phase
  BY <1>a DEF InvokeAgent, InvokeSingleAgent, Goto, Shaped, CommandFields
<1>2. UNCHANGED <<taskStatus, log, head, branch, worktree>> /\ agents' \subseteq Numbers
  BY <1>a, <1>b DEF InvokeAgent, InvokeSingleAgent, Types, storeVars, gitVars
<1>3. CASE InvokeAgent(p)
  <2>1. UNCHANGED attempts
    BY <1>3 DEF InvokeAgent, storeVars
  <2>2. PlaceOK(p)'
    BY <1>b, <1>1, <1>2, <2>1 DEF PlaceOK, Latest, Single
  <2> QED BY <1>a, <1>1, <1>2, <2>1, <2>2, RowsUnchanged DEF Types
<1>4. CASE InvokeSingleAgent(p)
  <2>1. /\ attempts' \in Seq(Row) /\ Len(attempts') = Len(attempts)
        /\ attempts'[Own(p)].status = "RUNNING"
    BY <1>4, <1>a, <1>b, StatusWrites DEF InvokeSingleAgent, Numbers
  <2>2. PlaceOK(p)'
    BY <1>b, <1>1, <1>2, <2>1 DEF PlaceOK, Latest, Single
  <2>3. Types'
    BY <1>a, <1>1, <1>2, <2>1 DEF Types
  <2>4. ActiveTaskHasRunningAttempt'
    BY <1>b, <2>1 DEF ActiveTaskHasRunningAttempt, Latest, Numbers
  <2> QED BY <2>2, <2>3, <2>4, OneProcessSuffices
<1> QED BY <1>3, <1>4

\* Where an agent's stage sends the task.
LEMMA StageOutcomes ==
    ASSUME Types, NEW p \in Processes, proc[p].status = taskStatus,
           \/ PlanSucceeds(p) \/ PlanReviewSucceeds(p)
           \/ ImplementSucceeds(p) \/ CodeReviewSucceeds(p)
    PROVE  \/ /\ Goto(p, "stageAll") /\ taskStatus \in {"IMPLEMENTING", "CODE_REVIEW"}
           \/ \E kind : Fail(p, kind)
           \/ \E to \in AgentStageStatuses : \E cycle :
                 Enter(p, to, cycle) /\ CanTransition(taskStatus, to)
<1>1. CASE PlanSucceeds(p)
  BY <1>1, WorkflowTransitions DEF PlanSucceeds, AgentStageStatuses
<1>2. CASE PlanReviewSucceeds(p)
  BY <1>2, WorkflowTransitions DEF PlanReviewSucceeds, Verdict, AgentStageStatuses
<1>3. CASE ImplementSucceeds(p)
  BY <1>3, WorkflowTransitions DEF ImplementSucceeds, AgentStageStatuses
<1>4. CASE CodeReviewSucceeds(p)
  BY <1>4, WorkflowTransitions DEF CodeReviewSucceeds, Verdict, AgentStageStatuses
<1> QED BY <1>1, <1>2, <1>3, <1>4

\* A stage of the workflow ends: the next one is a legal one.
LEMMA AgentReturnKeepsControl ==
    ASSUME ControlInv, Alone, NEW p \in Processes, ~Single(p), AgentReturns(p)
    PROVE  ControlInv'
<1>a. Types /\ PlaceOK(p) /\ Shaped /\ ActiveTaskHasRunningAttempt
  BY DEF ControlInv, Types
<1>b. /\ proc[p].pc = "agent" /\ taskStatus \in AgentStageStatuses /\ taskStatus = proc[p].status
      /\ Own(p) = Latest /\ Own(p) \in Numbers
  BY <1>a DEF AgentReturns, PlaceOK
<1>c. taskStatus \in ActiveStatuses
  BY <1>b DEF ActiveStatuses, AgentStageStatuses
<1>1. UNCHANGED <<storeVars, gitVars>> /\ agents' \subseteq Numbers
  BY <1>a DEF AgentReturns, Types
<1>2. CASE \E kind : Fail(p, kind)
  BY <1>a, <1>b, <1>c, <1>1, <1>2, FailureKeepsControl DEF Types, storeVars, gitVars
<1>3. CASE Goto(p, "stageAll") /\ taskStatus \in {"IMPLEMENTING", "CODE_REVIEW"}
  <2>1. Shaped' /\ proc'[p].pc = "stageAll" /\ proc'[p].attempt = Own(p)
    BY <1>3, <1>a DEF Goto, Shaped, CommandFields
  <2>2. PlaceOK(p)'
    BY <1>3, <1>b, <1>1, <2>1 DEF PlaceOK, Latest, storeVars
  <2> QED BY <1>a, <1>1, <2>1, <2>2, RowsUnchanged DEF Types, storeVars, gitVars
<1>4. CASE \E to \in AgentStageStatuses : \E cycle :
              Enter(p, to, cycle) /\ CanTransition(taskStatus, to)
  <2>0. PICK to \in AgentStageStatuses :
           \E cycle : Enter(p, to, cycle) /\ CanTransition(taskStatus, to)
    BY <1>4
  <2>1. PICK cycle : Enter(p, to, cycle) /\ CanTransition(taskStatus, to)
    BY <2>0
  <2>2. /\ Shaped' /\ proc'[p].pc = "enter" /\ proc'[p].attempt = Own(p)
        /\ proc'[p].status = to /\ proc'[p].phase = proc[p].phase
    BY <2>1, <1>a DEF Enter, Shaped, CommandFields
  <2>3. attempts[Latest].status = "RUNNING"
    BY <1>a, <1>c DEF ActiveTaskHasRunningAttempt
  <2>4. PlaceOK(p)'
    BY <2>1, <2>2, <2>3, <1>b, <1>1 DEF PlaceOK, Latest, storeVars, Single
  <2> QED BY <1>a, <1>1, <2>2, <2>4, RowsUnchanged DEF Types, storeVars, gitVars
<1> QED BY <1>a, <1>b, <1>2, <1>3, <1>4, StageOutcomes DEF AgentReturns

\* The only agent of a direct run ends.
LEMMA SingleAgentReturnKeepsControl ==
    ASSUME ControlInv, Alone, NEW p \in Processes, SingleAgentReturns(p)
    PROVE  ControlInv'
<1>a. Types /\ PlaceOK(p) /\ Shaped
  BY DEF ControlInv, Types
<1>b. /\ proc[p].pc = "agent" /\ taskStatus = "IMPLEMENTING"
      /\ Own(p) = Latest /\ Own(p) \in Numbers
  BY <1>a DEF SingleAgentReturns, PlaceOK
<1>1. /\ Shaped' /\ proc'[p].pc \in {"stageAll", "fail"} /\ proc'[p].attempt = Own(p)
  BY <1>a DEF SingleAgentReturns, Goto, Fail, Shaped, CommandFields
<1>2. UNCHANGED <<taskStatus, log, head, branch, worktree>> /\ agents' \subseteq Numbers
  BY <1>a DEF SingleAgentReturns, Types, gitVars
<1>3. /\ attempts' \in Seq(Row) /\ Len(attempts') = Len(attempts)
      /\ attempts'[Own(p)].status = "RUNNING"
  BY <1>a, <1>b, StatusWrites DEF SingleAgentReturns, Numbers
<1>4. PlaceOK(p)'
  BY <1>b, <1>1, <1>2, <1>3 DEF PlaceOK, Latest, ActiveStatuses
<1>5. Types'
  BY <1>a, <1>1, <1>2, <1>3 DEF Types
<1>6. ActiveTaskHasRunningAttempt'
  BY <1>b, <1>3 DEF ActiveTaskHasRunningAttempt, Latest, Numbers
<1> QED BY <1>4, <1>5, <1>6, OneProcessSuffices

\* The events that are stored keep the log typed.
LEMMA LogWrites ==
    ASSUME Types, NEW n \in Numbers
    PROVE  /\ \A v \in Verdicts :
                 [log EXCEPT ![n].verification = v] \in [Numbers -> Events]
           /\ \A r \in Revisions : [log EXCEPT ![n].commit = r] \in [Numbers -> Events]
           /\ \A i \in Nat : [log EXCEPT ![n].integrations = i] \in [Numbers -> Events]
           /\ \A v \in Verdicts, r \in Revisions :
                 [log EXCEPT ![n].final = [status |-> v, revision |-> r]] \in [Numbers -> Events]
<1>1. log \in [Numbers -> Events] /\ log[n] \in Events
  BY DEF Types
<1>2. \A v \in Verdicts : [log[n] EXCEPT !.verification = v] \in Events
  BY <1>1 DEF Events
<1>3. \A r \in Revisions : [log[n] EXCEPT !.commit = r] \in Events
  BY <1>1 DEF Events
<1>4. \A i \in Nat : [log[n] EXCEPT !.integrations = i] \in Events
  BY <1>1 DEF Events
<1>5. \A v \in Verdicts, r \in Revisions :
         [log[n] EXCEPT !.final = [status |-> v, revision |-> r]] \in Events
  BY <1>1 DEF Events
<1> QED BY <1>1, <1>2, <1>3, <1>4, <1>5

\* A commit on the attempt's branch.
LEMMA CommitIsTyped ==
    ASSUME Types, NEW n \in Numbers, CommitStaged(n)
    PROVE  /\ branch' \in [Numbers -> Revisions \cup {NONE}]
           /\ branch'[n] \in Revisions /\ branch'[n] # NONE
           /\ worktree' \in [Numbers -> {"absent", "clean", "dirty", "staged"}]
           /\ \A m \in Numbers : worktree'[m] # "absent" => branch'[m] # NONE
<1>1. branch[n] \in Revisions
  BY DEF Types, CommitStaged
<1>2. Append(branch[n], n) \in Revisions
  BY <1>1 DEF Revisions
<1> QED BY <1>2, TaskExecutionAssumption DEF Types, CommitStaged

\* A merge leaves a revision, and moves nothing else.
LEMMA MergeIsTyped ==
    ASSUME Types, NEW n \in Numbers, IntegrateBranch(n), branch[n] # NONE
    PROVE  head' \in Revisions
BY DEF Types, IntegrateBranch

\* The change is staged and the task becomes VERIFYING.
LEMMA StagingKeepsControl ==
    ASSUME ControlInv, Alone, NEW p \in Processes, StageAll(p)
    PROVE  ControlInv'
<1>a. Types /\ PlaceOK(p) /\ Shaped
  BY DEF ControlInv, Types
<1>b. /\ proc[p].pc = "stageAll" /\ taskStatus \in {"IMPLEMENTING", "CODE_REVIEW"}
      /\ taskStatus \in ActiveStatuses /\ Own(p) = Latest /\ Own(p) \in Numbers
  BY <1>a DEF StageAll, PlaceOK, ActiveStatuses
<1>1. /\ worktree' \in [Numbers -> {"absent", "clean", "dirty", "staged"}]
      /\ \A n \in Numbers : worktree'[n] # "absent" => branch[n] # NONE
      /\ UNCHANGED <<taskStatus, attempts, log, head, branch, agents>>
  BY <1>a, <1>b DEF StageAll, Types, Dirty, storeVars
<1>2. CASE Fail(p, "error")
  BY <1>2, <1>a, <1>b, <1>1, FailureKeepsControl DEF Types
<1>3. CASE Goto(p, "verifying")
  <2>1. Shaped' /\ proc'[p].pc = "verifying" /\ proc'[p].attempt = Own(p)
    BY <1>3, <1>a DEF Goto, Shaped, CommandFields
  <2>2. PlaceOK(p)'
    BY <1>b, <1>1, <2>1 DEF PlaceOK, Latest
  <2> QED BY <1>a, <1>1, <2>1, <2>2, RowsUnchanged DEF Types
<1> QED BY <1>2, <1>3 DEF StageAll

\* The status moves on while the attempt runs.
LEMMA StatusMoves ==
    ASSUME ControlInv, Alone, NEW p \in Processes,
           taskStatus \in ActiveStatuses, taskStatus' \in ActiveStatuses,
           log' \in [Numbers -> Events], Shaped', PlaceOK(p)',
           UNCHANGED <<attempts, gitVars, agents>>
    PROVE  ControlInv'
<1>1. ActiveStatuses \subseteq TaskStatuses
  BY DEF ActiveStatuses, TaskStatuses
<1>2. Types'
  BY <1>1 DEF ControlInv, Types, gitVars
<1>3. ActiveTaskHasRunningAttempt'
  BY DEF ControlInv, ActiveTaskHasRunningAttempt, Latest
<1> QED BY <1>2, <1>3, OneProcessSuffices

\* The checks run and their verdict is recorded.
LEMMA VerificationKeepsControl ==
    ASSUME ControlInv, Alone, NEW p \in Processes,
           EnterVerifying(p) \/ RunVerification(p) \/ RecordVerification(p)
    PROVE  ControlInv'
<1>a. Types /\ PlaceOK(p) /\ Shaped
  BY DEF ControlInv, Types
<1>1. CASE EnterVerifying(p)
  <2>1. /\ taskStatus \in ActiveStatuses /\ taskStatus' = "VERIFYING"
        /\ Own(p) = Latest /\ Own(p) \in Numbers
    BY <1>1, <1>a DEF EnterVerifying, PlaceOK, ActiveStatuses
  <2>2. Shaped' /\ proc'[p].pc = "verify" /\ proc'[p].attempt = Own(p)
    BY <1>1, <1>a DEF EnterVerifying, Goto, Shaped, CommandFields
  <2>3. PlaceOK(p)'
    BY <1>1, <2>1, <2>2 DEF EnterVerifying, PlaceOK, Latest
  <2> QED BY <1>1, <1>a, <2>1, <2>2, <2>3, StatusMoves DEF EnterVerifying, ActiveStatuses, Types
<1>2. CASE RunVerification(p)
  <2>1. /\ proc[p].pc = "verify" /\ taskStatus = "VERIFYING"
        /\ Own(p) = Latest /\ Own(p) \in Numbers
    BY <1>2, <1>a DEF RunVerification, PlaceOK
  <2>2. UNCHANGED <<taskStatus, attempts, log, head, branch, worktree, agents>>
    BY <1>2 DEF RunVerification, storeVars, gitVars
  <2>3. CASE Fail(p, "error")
    BY <2>1, <2>2, <2>3, <1>a, FailureKeepsControl DEF Types, ActiveStatuses
  <2>4. ASSUME NEW v \in Verdicts,
               proc' = [proc EXCEPT ![p].pc = "verified", ![p].verdict = v]
        PROVE  ControlInv'
    <3>1. /\ Shaped' /\ proc'[p].pc = "verified" /\ proc'[p].attempt = Own(p)
          /\ proc'[p].verdict = v
      BY <2>4, <1>a DEF Shaped, CommandFields
    <3>2. PlaceOK(p)'
      BY <2>1, <2>2, <3>1 DEF PlaceOK, Latest
    <3> QED BY <1>a, <2>2, <3>1, <3>2, RowsUnchanged DEF Types
  <2> QED BY <1>2, <2>3, <2>4 DEF RunVerification
<1>3. CASE RecordVerification(p)
  <2>1. /\ proc[p].pc = "verified" /\ taskStatus = "VERIFYING" /\ proc[p].verdict \in Verdicts
        /\ Own(p) = Latest /\ Own(p) \in Numbers
    BY <1>3, <1>a DEF RecordVerification, PlaceOK
  <2>2. /\ log' \in [Numbers -> Events]
        /\ UNCHANGED <<taskStatus, attempts, head, branch, worktree, agents>>
    BY <1>3, <1>a, <2>1, LogWrites DEF RecordVerification, gitVars
  <2>3. CASE Fail(p, FailureOf(proc[p].verdict))
    BY <2>1, <2>2, <2>3, <1>a, FailureKeepsControl DEF Types, ActiveStatuses
  <2>4. CASE Goto(p, "commit")
    <3>1. Shaped' /\ proc'[p].pc = "commit" /\ proc'[p].attempt = Own(p)
      BY <2>4, <1>a DEF Goto, Shaped, CommandFields
    <3>2. PlaceOK(p)'
      BY <2>1, <2>2, <3>1 DEF PlaceOK, Latest
    <3> QED BY <1>a, <2>2, <3>1, <3>2, RowsUnchanged DEF Types
  <2> QED BY <1>3, <2>3, <2>4 DEF RecordVerification
<1> QED BY <1>1, <1>2, <1>3

\* The commit, and the entry into INTEGRATING.
LEMMA CommitKeepsControl ==
    ASSUME ControlInv, Alone, NEW p \in Processes, Commit(p)
    PROVE  ControlInv'
<1>a. Types /\ PlaceOK(p) /\ Shaped
  BY DEF ControlInv, Types
<1>b. /\ proc[p].pc = "commit" /\ taskStatus = "VERIFYING"
      /\ Own(p) = Latest /\ Own(p) \in Numbers
  BY <1>a DEF Commit, PlaceOK
<1>c. UNCHANGED <<taskStatus, attempts, log, head, agents>>
  BY DEF Commit, storeVars
<1>1. CASE Fail(p, "error") /\ UNCHANGED <<branch, worktree>>
  BY <1>1, <1>a, <1>b, <1>c, FailureKeepsControl DEF Types, ActiveStatuses
<1>2. CASE /\ CommitStaged(Own(p))
           /\ proc' = [proc EXCEPT ![p].pc = "integrating", ![p].revision = branch'[Own(p)]]
  <2>1. /\ Shaped' /\ proc'[p].pc = "integrating" /\ proc'[p].attempt = Own(p)
        /\ proc'[p].revision = branch'[Own(p)]
    BY <1>2, <1>a DEF Shaped, CommandFields
  <2>2. /\ branch' \in [Numbers -> Revisions \cup {NONE}]
        /\ branch'[Own(p)] \in Revisions /\ branch'[Own(p)] # NONE
        /\ worktree' \in [Numbers -> {"absent", "clean", "dirty", "staged"}]
        /\ \A m \in Numbers : worktree'[m] # "absent" => branch'[m] # NONE
    BY <1>2, <1>a, <1>b, CommitIsTyped
  <2>3. PlaceOK(p)'
    BY <1>b, <1>c, <2>1, <2>2 DEF PlaceOK, Latest
  <2> QED BY <1>a, <1>c, <2>1, <2>2, <2>3, RowsUnchanged DEF Types
<1> QED BY <1>1, <1>2 DEF Commit

\* The merge, and the event that records it.
LEMMA IntegrationKeepsControl ==
    ASSUME ControlInv, Alone, NEW p \in Processes, EnterIntegrating(p) \/ Integrate(p)
    PROVE  ControlInv'
<1>a. Types /\ PlaceOK(p) /\ Shaped
  BY DEF ControlInv, Types
<1>1. CASE EnterIntegrating(p)
  <2>1. /\ taskStatus = "VERIFYING" /\ taskStatus' = "INTEGRATING"
        /\ Own(p) = Latest /\ Own(p) \in Numbers
        /\ proc[p].revision \in Revisions /\ branch[Own(p)] # NONE
    BY <1>1, <1>a DEF EnterIntegrating, BeginIntegrating, PlaceOK
  <2>2. Shaped' /\ proc'[p].pc = "integrate" /\ proc'[p].attempt = Own(p)
    BY <1>1, <1>a DEF EnterIntegrating, Goto, Shaped, CommandFields
  <2>3. log' \in [Numbers -> Events] /\ UNCHANGED <<attempts, gitVars, agents>>
    BY <1>1, <1>a, <2>1, LogWrites DEF EnterIntegrating, BeginIntegrating
  <2>4. PlaceOK(p)'
    BY <2>1, <2>2, <2>3 DEF PlaceOK, Latest, gitVars
  <2> QED BY <2>1, <2>2, <2>3, <2>4, StatusMoves DEF ActiveStatuses
<1>2. CASE Integrate(p)
  <2>1. /\ proc[p].pc = "integrate" /\ taskStatus = "INTEGRATING"
        /\ Own(p) = Latest /\ Own(p) \in Numbers /\ branch[Own(p)] # NONE
    BY <1>2, <1>a DEF Integrate, PlaceOK
  <2>2. UNCHANGED <<taskStatus, attempts, log, branch, worktree, agents>>
    BY <1>2 DEF Integrate, storeVars
  <2>3. CASE Fail(p, "error") /\ UNCHANGED head
    BY <2>1, <2>2, <2>3, <1>a, FailureKeepsControl DEF Types, ActiveStatuses
  <2>4. CASE /\ IntegrateBranch(Own(p))
             /\ proc' = [proc EXCEPT ![p].pc = "integrated", ![p].revision = head']
    <3>1. head' \in Revisions
      BY <2>1, <2>4, <1>a, MergeIsTyped
    <3>2. /\ Shaped' /\ proc'[p].pc = "integrated" /\ proc'[p].attempt = Own(p)
          /\ proc'[p].revision \in Revisions
      BY <2>4, <1>a, <3>1 DEF Shaped, CommandFields
    <3>3. PlaceOK(p)'
      BY <2>1, <2>2, <3>2 DEF PlaceOK, Latest
    <3> QED BY <1>a, <2>2, <3>1, <3>2, <3>3, RowsUnchanged DEF Types
  <2> QED BY <1>2, <2>3, <2>4 DEF Integrate
<1> QED BY <1>1, <1>2

\* The checks on the integrated revision.
LEMMA FinalVerificationKeepsControl ==
    ASSUME ControlInv, Alone, NEW p \in Processes,
           RecordIntegration(p) \/ RunFinalVerification(p) \/ RecordFinalVerification(p)
    PROVE  ControlInv'
<1>a. Types /\ PlaceOK(p) /\ Shaped
  BY DEF ControlInv, Types
<1>b. /\ proc[p].pc \in {"integrated", "finalVerify", "finalVerified"}
      /\ taskStatus = "INTEGRATING" /\ taskStatus \in ActiveStatuses
      /\ Own(p) = Latest /\ Own(p) \in Numbers /\ proc[p].revision \in Revisions
      /\ proc[p].pc = "finalVerified" => proc[p].verdict \in Verdicts
      /\ UNCHANGED <<taskStatus, attempts, gitVars, agents>>
  BY <1>a DEF RecordIntegration, RunFinalVerification, RecordFinalVerification, PlaceOK,
     ActiveStatuses, storeVars
<1>1. log' \in [Numbers -> Events]
  <2>1. CASE RecordIntegration(p)
    <3>1. log[Own(p)].integrations + 1 \in Nat
      BY <1>a, <1>b DEF Types, Events
    <3> QED BY <2>1, <3>1, <1>a, <1>b, LogWrites DEF RecordIntegration
  <2>2. CASE RunFinalVerification(p)
    BY <2>2, <1>a DEF RunFinalVerification, Types, storeVars
  <2>3. CASE RecordFinalVerification(p)
    BY <2>3, <1>a, <1>b, LogWrites DEF RecordFinalVerification
  <2> QED BY <2>1, <2>2, <2>3
<1>2. CASE \E kind : Fail(p, kind)
  BY <1>2, <1>a, <1>b, <1>1, FailureKeepsControl DEF Types, gitVars
<1>3. ASSUME \/ Goto(p, "finalVerify") \/ Goto(p, "done")
             \/ \E v \in Verdicts :
                   proc' = [proc EXCEPT ![p].pc = "finalVerified", ![p].verdict = v]
      PROVE  ControlInv'
  <2>1. /\ Shaped' /\ proc'[p].pc \in {"finalVerify", "finalVerified", "done"}
        /\ proc'[p].attempt = Own(p) /\ proc'[p].revision = proc[p].revision
        /\ proc'[p].pc = "finalVerified" => proc'[p].verdict \in Verdicts
    BY <1>3, <1>a DEF Goto, Shaped, CommandFields
  <2>2. PlaceOK(p)'
    BY <1>b, <2>1 DEF PlaceOK, Latest
  <2> QED BY <1>a, <1>b, <1>1, <2>1, <2>2, RowsUnchanged DEF Types, gitVars
<1> QED BY <1>2, <1>3 DEF RecordIntegration, RunFinalVerification, RecordFinalVerification

\* A direct run records the integration and goes on to DONE.
LEMMA SingleIntegrationKeepsControl ==
    ASSUME ControlInv, Alone, NEW p \in Processes, IntegrateSingle(p)
    PROVE  ControlInv'
<1>1. CASE EnterIntegrating(p) \/ Integrate(p)
  BY <1>1, IntegrationKeepsControl
<1>2. CASE /\ At(p, "integrated")
           /\ log' = [log EXCEPT ![Own(p)].integrations = @ + 1]
           /\ Goto(p, "done")
           /\ UNCHANGED <<taskStatus, attempts, gitVars, agents>>
  <2>a. Types /\ PlaceOK(p) /\ Shaped
    BY DEF ControlInv, Types
  <2>1. taskStatus = "INTEGRATING" /\ Own(p) = Latest /\ Own(p) \in Numbers
    BY <1>2, <2>a DEF PlaceOK
  <2>2. Shaped' /\ proc'[p].pc = "done" /\ proc'[p].attempt = Own(p)
    BY <1>2, <2>a DEF Goto, Shaped, CommandFields
  <2>3. log[Own(p)].integrations + 1 \in Nat
    BY <2>a, <2>1 DEF Types, Events
  <2>4. log' \in [Numbers -> Events]
    BY <1>2, <2>a, <2>1, <2>3, LogWrites
  <2>5. PlaceOK(p)'
    BY <1>2, <2>1, <2>2 DEF PlaceOK, Latest
  <2> QED BY <1>2, <2>a, <2>2, <2>4, <2>5, RowsUnchanged DEF Types, gitVars
<1> QED BY <1>1, <1>2 DEF IntegrateSingle

\* What a failure makes of the task and of the attempt.
LEMMA FailureStatuses ==
    ASSUME NEW kind
    PROVE  /\ TaskStatusOf(kind) \in Escalations
           /\ AttemptStatusOf(kind) \in {"FAILED", "CANCELLED", "TIMED_OUT"}
BY DEF TaskStatusOf, AttemptStatusOf, Escalations

\* The task leaves the working statuses with a verdict on its last attempt.
LEMMA SettlementKeepsControl ==
    ASSUME ControlInv, Alone, NEW p \in Processes, NEW status,
           taskStatus' \in TaskStatuses \ ActiveStatuses,
           status \in {"SUCCEEDED", "FAILED", "CANCELLED", "TIMED_OUT"},
           Own(p) \in 1..Latest, WithStatus(Own(p), status),
           log' \in [Numbers -> Events], Shaped', PlaceOK(p)', UNCHANGED <<gitVars, agents>>
    PROVE  ControlInv'
<1>a. Types
  BY DEF ControlInv
<1>1. attempts' \in Seq(Row) /\ Len(attempts') = Len(attempts)
  BY <1>a, StatusWrites DEF Own
<1>2. Types'
  BY <1>a, <1>1 DEF Types, gitVars
<1>3. ActiveTaskHasRunningAttempt'
  BY DEF ActiveTaskHasRunningAttempt
<1> QED BY <1>2, <1>3, OneProcessSuffices

\* The task becomes DONE, or failExecution settles it.
LEMMA FinishingKeepsControl ==
    ASSUME ControlInv, Alone, NEW p \in Processes, Finish(p) \/ FailExecution(p)
    PROVE  ControlInv'
<1>a. Types /\ PlaceOK(p) /\ Shaped
  BY DEF ControlInv, Types
<1>b. /\ Own(p) = Latest /\ Own(p) \in Numbers /\ Own(p) \in 1..Latest
      /\ log' \in [Numbers -> Events] /\ UNCHANGED <<gitVars, agents>>
  BY <1>a DEF Finish, FailExecution, PlaceOK, Numbers, Types
<1>1. taskStatus' \in TaskStatuses \ ActiveStatuses
  BY FailureStatuses DEF Finish, FailExecution, TaskStatuses, ActiveStatuses, Escalations
<1>2. PICK status \in {"SUCCEEDED", "FAILED", "CANCELLED", "TIMED_OUT"} : WithStatus(Own(p), status)
  BY FailureStatuses DEF Finish, FailExecution
<1>3. CASE Goto(p, "cleanup")
  <2>1. Shaped' /\ proc'[p].pc = "cleanup" /\ proc'[p].attempt = Own(p)
    BY <1>3, <1>a DEF Goto, Shaped, CommandFields
  <2> QED BY <1>b, <1>1, <1>2, <2>1, CleanupPlaceIsOK, SettlementKeepsControl
<1>4. CASE Return(p)
  BY <1>4, <1>a, <1>b, <1>1, <1>2, ReturnsAreFree, FreePlaceIsOK, SettlementKeepsControl
  DEF Freed
<1> QED BY <1>3, <1>4 DEF Finish, FailExecution

\* An await that throws leads to failExecution.
LEMMA ThrowKeepsControl ==
    ASSUME ControlInv, Alone, NEW p \in Processes, Throws(p)
    PROVE  ControlInv'
<1>1. taskStatus \in ActiveStatuses \cup {"READY"} /\ proc[p].pc \in OnLatest
  BY DEF ControlInv, Throws, PlaceOK, ActiveStatuses, AgentStageStatuses
<1> QED BY <1>1, FailureKeepsControl DEF ControlInv, Types, Throws, storeVars, gitVars

\* cleanupWorktree.
LEMMA CleanupKeepsControl ==
    ASSUME ControlInv, Alone, NEW p \in Processes, InspectForCleanup(p) \/ RemoveClean(p)
    PROVE  ControlInv'
<1>a. Types /\ PlaceOK(p) /\ Shaped
  BY DEF ControlInv, Types
<1>b. Own(p) \in Numbers
  BY <1>a DEF InspectForCleanup, RemoveClean, PlaceOK
<1>1. CASE InspectForCleanup(p) /\ Goto(p, "remove")
  <2>1. Shaped' /\ proc'[p].pc = "remove" /\ proc'[p].attempt = Own(p)
    BY <1>1, <1>a DEF Goto, Shaped, CommandFields
  <2> QED BY <1>1, <1>b, <2>1, CleanupPlaceIsOK, OnlyMoves DEF InspectForCleanup
<1>2. CASE InspectForCleanup(p) /\ Return(p)
  BY <1>2, <1>a, ReturnsAreFree, FreePlaceIsOK, OnlyMoves DEF InspectForCleanup, Freed
<1>3. CASE RemoveClean(p)
  BY <1>3, <1>a, <1>b, ReturnsAreFree, RemovalKeepsControl DEF RemoveClean
<1> QED BY <1>1, <1>2, <1>3 DEF InspectForCleanup

-----------------------------------------------------------------------------
(* Recovery *)

\* GiveUp keeps the attempt.
LEMMA GivingUpKeepsControl ==
    ASSUME ControlInv, Alone, NEW p \in Processes, NEW kind, GiveUp(p, kind),
           taskStatus \in {"VERIFYING", "INTEGRATING"}, proc[p].pc \in OnLatest,
           UNCHANGED <<taskStatus, attempts, gitVars, agents>>, log' \in [Numbers -> Events]
    PROVE  ControlInv'
<1>a. Types /\ PlaceOK(p) /\ Shaped
  BY DEF ControlInv, Types
<1>1. Shaped' /\ proc'[p].pc = "giveUp" /\ proc'[p].attempt = Own(p)
  BY <1>a DEF GiveUp, Shaped, CommandFields
<1>2. PlaceOK(p)'
  BY <1>a, <1>1 DEF PlaceOK, Latest
<1> QED BY <1>a, <1>1, <1>2, RowsUnchanged DEF Types, gitVars

\* reconcileTask sends the task where its status and its evidence belong.
LEMMA ReconciliationKeepsControl ==
    ASSUME ControlInv, Alone, NEW p \in Processes, ReconcileTask(p)
    PROVE  ControlInv'
<1>a. Types /\ PlaceOK(p) /\ Shaped /\ ActiveTaskHasRunningAttempt
  BY DEF ControlInv, Types
<1>b. UNCHANGED <<storeVars, gitVars, agents>>
  BY DEF ReconcileTask
<1>1. CASE ReturnRunnable(p)
  BY <1>1, <1>a, <1>b, ReturnsAreFree, FreePlaceIsOK, OnlyMoves DEF Freed
<1>2. ASSUME ~ReturnRunnable(p)
      PROVE  ControlInv'
  <2>1. \/ taskStatus \in AgentStageStatuses \cup {"VERIFYING"} /\ Recover(p, "inspect", Latest)
        \/ taskStatus = "INTEGRATING" /\ log[Latest].commit # NONE /\ Recover(p, "head", Latest)
        \/ taskStatus = "INTEGRATING" /\ Recover(p, "human", Latest)
        \/ /\ taskStatus = "FAILED" /\ Latest > 0 /\ log[Latest].commit # NONE
           /\ Recover(p, "head", Latest)
    BY <1>2, <1>a DEF ReconcileTask, Latest, ActiveTaskHasRunningAttempt, ActiveStatuses,
       AgentStageStatuses
  <2>2. taskStatus \in ActiveStatuses \/ Latest > 0
    BY <2>1 DEF ActiveStatuses, AgentStageStatuses
  <2>3. Latest \in Numbers
    BY <1>a, <2>2, TaskExecutionAssumption
    DEF Types, ActiveTaskHasRunningAttempt, Latest, Numbers
  <2>4. /\ Shaped' /\ proc'[p].attempt = Latest /\ proc'[p].status = taskStatus
        /\ proc'[p].pc \in {"inspect", "head", "human"}
        /\ proc'[p].pc = "inspect" => taskStatus \in AgentStageStatuses \cup {"VERIFYING"}
        /\ proc'[p].pc = "head" =>
              taskStatus \in {"INTEGRATING", "FAILED"} /\ log[Latest].commit # NONE
        /\ proc'[p].pc = "human" => taskStatus = "INTEGRATING"
    BY <2>1, <1>a DEF Recover, Shaped, CommandFields
  <2>5. PlaceOK(p)'
    BY <1>b, <2>3, <2>4 DEF PlaceOK, Latest, storeVars, ActiveStatuses
  <2> QED BY <1>b, <2>4, <2>5, OnlyMoves
<1> QED BY <1>1, <1>2

\* inspectTaskWorktree, and what its result leads to.
LEMMA InspectionKeepsControl ==
    ASSUME ControlInv, Alone, NEW p \in Processes, InspectHead(p) \/ Classify(p)
    PROVE  ControlInv'
<1>a. Types /\ PlaceOK(p) /\ Shaped
  BY DEF ControlInv, Types
<1>b. /\ taskStatus = proc[p].status /\ taskStatus \in AgentStageStatuses \cup {"VERIFYING"}
      /\ Own(p) = Latest /\ Own(p) \in Numbers /\ UNCHANGED <<storeVars, gitVars, agents>>
  BY <1>a DEF InspectHead, Classify, PlaceOK
<1>1. /\ Shaped' /\ proc'[p].attempt = Own(p) /\ proc'[p].status = proc[p].status
      /\ \/ proc'[p].pc \in {"classify", "human"}
         \/ proc'[p].pc \in {"reset", "preserve"} /\ taskStatus # "VERIFYING"
         \/ proc'[p].pc \in {"reverify", "recommit", "giveUp"} /\ taskStatus = "VERIFYING"
  <2>1. CASE InspectHead(p)
    BY <2>1, <1>a, <1>b DEF InspectHead, Goto, Shaped, CommandFields
  <2>2. CASE Classify(p)
    <3>1. \/ Classified(Own(p), proc[p].status) \in {"reset", "preserve"}
             /\ taskStatus # "VERIFYING"
          \/ Classified(Own(p), proc[p].status) \in {"reverify", "recommit", "giveUp"}
             /\ taskStatus = "VERIFYING"
      BY <1>b DEF Classified
    <3> QED BY <2>2, <3>1, <1>a, <1>b DEF Classify, Shaped, CommandFields
  <2> QED BY <2>1, <2>2
<1>2. PlaceOK(p)'
  BY <1>b, <1>1 DEF PlaceOK, Latest, storeVars, ActiveStatuses, AgentStageStatuses
<1> QED BY <1>b, <1>1, <1>2, OnlyMoves

\* Recovery runs the interrupted checks again.
LEMMA ReverificationKeepsControl ==
    ASSUME ControlInv, Alone, NEW p \in Processes, Reverify(p) \/ RecordReverification(p)
    PROVE  ControlInv'
<1>a. Types /\ PlaceOK(p) /\ Shaped
  BY DEF ControlInv, Types
<1>b. /\ proc[p].pc \in {"reverify", "reverified"} /\ taskStatus = "VERIFYING"
      /\ Own(p) = Latest /\ Own(p) \in Numbers
      /\ proc[p].pc = "reverified" => proc[p].verdict \in Verdicts
      /\ UNCHANGED <<taskStatus, attempts, gitVars, agents>>
  BY <1>a DEF Reverify, RecordReverification, PlaceOK, storeVars
<1>1. log' \in [Numbers -> Events]
  BY <1>a, <1>b, LogWrites DEF Reverify, RecordReverification, Types, storeVars
<1>2. CASE \E kind : GiveUp(p, kind)
  BY <1>2, <1>b, <1>1, GivingUpKeepsControl
<1>3. ASSUME \/ Goto(p, "recommit")
             \/ \E v \in Verdicts :
                   proc' = [proc EXCEPT ![p].pc = "reverified", ![p].verdict = v]
      PROVE  ControlInv'
  <2>1. /\ Shaped' /\ proc'[p].pc \in {"recommit", "reverified"} /\ proc'[p].attempt = Own(p)
        /\ proc'[p].pc = "reverified" => proc'[p].verdict \in Verdicts
    BY <1>3, <1>a DEF Goto, Shaped, CommandFields
  <2>2. PlaceOK(p)'
    BY <1>b, <2>1 DEF PlaceOK, Latest
  <2> QED BY <1>a, <1>b, <1>1, <2>1, <2>2, RowsUnchanged DEF Types, gitVars
<1> QED BY <1>2, <1>3 DEF Reverify, RecordReverification

\* completeIntegrationFromVerification.
LEMMA RecommitKeepsControl ==
    ASSUME ControlInv, Alone, NEW p \in Processes, Recommit(p) \/ ReenterIntegrating(p)
    PROVE  ControlInv'
<1>a. Types /\ PlaceOK(p) /\ Shaped
  BY DEF ControlInv, Types
<1>b. taskStatus = "VERIFYING" /\ Own(p) = Latest /\ Own(p) \in Numbers
  BY <1>a DEF Recommit, ReenterIntegrating, PlaceOK
<1>1. CASE Recommit(p) /\ GiveUp(p, "error") /\ UNCHANGED <<branch, worktree>>
  BY <1>1, <1>a, <1>b, GivingUpKeepsControl DEF Recommit, storeVars, gitVars, Types
<1>2. CASE /\ Recommit(p) /\ CommitStaged(Own(p))
           /\ proc' = [proc EXCEPT ![p].pc = "reintegrating", ![p].revision = branch'[Own(p)]]
  <2>1. /\ Shaped' /\ proc'[p].pc = "reintegrating" /\ proc'[p].attempt = Own(p)
        /\ proc'[p].revision = branch'[Own(p)]
    BY <1>2, <1>a DEF Shaped, CommandFields
  <2>2. /\ branch' \in [Numbers -> Revisions \cup {NONE}]
        /\ branch'[Own(p)] \in Revisions /\ branch'[Own(p)] # NONE
        /\ worktree' \in [Numbers -> {"absent", "clean", "dirty", "staged"}]
        /\ \A m \in Numbers : worktree'[m] # "absent" => branch'[m] # NONE
    BY <1>2, <1>a, <1>b, CommitIsTyped
  <2>3. UNCHANGED <<taskStatus, attempts, log, head, agents>>
    BY <1>2 DEF Recommit, storeVars
  <2>4. PlaceOK(p)'
    BY <1>b, <2>1, <2>2, <2>3 DEF PlaceOK, Latest
  <2> QED BY <1>a, <2>1, <2>2, <2>3, <2>4, RowsUnchanged DEF Types
<1>3. CASE ReenterIntegrating(p)
  <2>1. /\ proc[p].revision \in Revisions /\ proc[p].revision # NONE /\ taskStatus' = "INTEGRATING"
        /\ UNCHANGED <<attempts, gitVars, agents>>
    BY <1>3, <1>a, TaskExecutionAssumption DEF ReenterIntegrating, BeginIntegrating, PlaceOK
  <2>2. log' \in [Numbers -> Events] /\ log'[Own(p)].commit # NONE
    <3>1. log' = [log EXCEPT ![Own(p)].commit = proc[p].revision]
      BY <1>3 DEF ReenterIntegrating, BeginIntegrating
    <3>2. log' \in [Numbers -> Events]
      BY <1>a, <1>b, <2>1, <3>1, LogWrites
    <3>3. log'[Own(p)].commit = proc[p].revision
      BY <1>a, <1>b, <3>1 DEF Types, Events
    <3> QED BY <2>1, <3>2, <3>3
  <2>3. /\ Shaped' /\ proc'[p].pc = "head" /\ proc'[p].attempt = Own(p)
        /\ proc'[p].status = "INTEGRATING"
    BY <1>3, <1>a DEF ReenterIntegrating, Shaped, CommandFields
  <2>4. PlaceOK(p)'
    BY <1>b, <2>1, <2>2, <2>3 DEF PlaceOK, Latest
  <2> QED BY <1>b, <2>1, <2>2, <2>3, <2>4, StatusMoves DEF ActiveStatuses
<1> QED BY <1>1, <1>2, <1>3 DEF Recommit

\* reconcileIntegration and reconcileFailedTask read Git.
LEMMA ResolutionKeepsControl ==
    ASSUME ControlInv, Alone, NEW p \in Processes,
           ResolveHead(p) \/ CannotRead(p) \/ CompareAncestry(p)
    PROVE  ControlInv'
<1>a. Types /\ PlaceOK(p) /\ Shaped
  BY DEF ControlInv, Types
<1>b. /\ proc[p].pc \in Resolving /\ taskStatus = proc[p].status
      /\ taskStatus \in {"INTEGRATING", "FAILED"}
      /\ Own(p) = Latest /\ Own(p) \in Numbers /\ log[Own(p)].commit # NONE
      /\ UNCHANGED <<storeVars, gitVars, agents>>
  BY <1>a DEF ResolveHead, CannotRead, CompareAncestry, PlaceOK
<1>1. CASE ReturnRunnable(p)
  BY <1>1, <1>a, <1>b, ReturnsAreFree, FreePlaceIsOK, OnlyMoves DEF Freed
<1>2. CASE taskStatus = "INTEGRATING" /\ \E kind : GiveUp(p, kind)
  BY <1>2, <1>a, <1>b, GivingUpKeepsControl DEF Types, storeVars
<1>3. ASSUME ResolveHead(p)
      PROVE  ControlInv'
  <2>1. /\ Shaped' /\ proc'[p].pc = "ancestry" /\ proc'[p].attempt = Own(p)
        /\ proc'[p].status = proc[p].status /\ proc'[p].revision = head
    BY <1>3, <1>a DEF ResolveHead, Shaped, CommandFields
  <2>2. PlaceOK(p)'
    BY <1>a, <1>b, <2>1 DEF PlaceOK, Latest, storeVars, Types
  <2> QED BY <1>b, <2>1, <2>2, OnlyMoves
<1>4. ASSUME \/ Goto(p, "conclude")
             \/ taskStatus = "INTEGRATING" /\ Goto(p, "human")
             \/ /\ taskStatus = "INTEGRATING" /\ branch[Own(p)] = log[Own(p)].commit
                /\ Goto(p, "reintegrate")
      PROVE  ControlInv'
  <2>1. /\ Shaped' /\ proc'[p].attempt = Own(p)
        /\ \/ proc'[p].pc = "conclude"
           \/ proc'[p].pc = "human" /\ taskStatus = "INTEGRATING"
           \/ /\ proc'[p].pc = "reintegrate" /\ taskStatus = "INTEGRATING"
              /\ branch[Own(p)] # NONE
    BY <1>4, <1>a, <1>b DEF Goto, Shaped, CommandFields
  <2>2. PlaceOK(p)'
    BY <1>b, <2>1 DEF PlaceOK, Latest, storeVars, gitVars, ActiveStatuses
  <2> QED BY <1>b, <2>1, <2>2, OnlyMoves
<1>5. CASE CannotRead(p)
  BY <1>b, <1>1, <1>4, <1>5 DEF CannotRead
<1>6. CASE CompareAncestry(p)
  BY <1>b, <1>1, <1>2, <1>4, <1>6 DEF CompareAncestry
<1> QED BY <1>3, <1>5, <1>6

\* Recovery merges the branch itself.
LEMMA ReintegrationKeepsControl ==
    ASSUME ControlInv, Alone, NEW p \in Processes, Reintegrate(p)
    PROVE  ControlInv'
<1>a. Types /\ PlaceOK(p) /\ Shaped
  BY DEF ControlInv, Types
<1>b. /\ proc[p].pc = "reintegrate" /\ taskStatus = "INTEGRATING"
      /\ Own(p) = Latest /\ Own(p) \in Numbers /\ branch[Own(p)] # NONE
      /\ UNCHANGED <<taskStatus, attempts, log, branch, worktree, agents>>
  BY <1>a DEF Reintegrate, PlaceOK, storeVars
<1>1. CASE GiveUp(p, "error") /\ UNCHANGED head
  BY <1>1, <1>a, <1>b, GivingUpKeepsControl DEF Types, gitVars
<1>2. CASE /\ IntegrateBranch(Own(p))
           /\ proc' = [proc EXCEPT ![p].pc = "conclude", ![p].merged = TRUE]
  <2>1. head' \in Revisions
    BY <1>2, <1>a, <1>b, MergeIsTyped
  <2>2. Shaped' /\ proc'[p].pc = "conclude" /\ proc'[p].attempt = Own(p)
    BY <1>2, <1>a DEF Shaped, CommandFields
  <2>3. PlaceOK(p)'
    BY <1>b, <2>2 DEF PlaceOK, Latest
  <2> QED BY <1>a, <1>b, <2>1, <2>2, <2>3, RowsUnchanged DEF Types
<1> QED BY <1>1, <1>2 DEF Reintegrate

\* The catch around the merge and its conclusion gives the task up.
LEMMA CatchKeepsControl ==
    ASSUME ControlInv, MergedInv, Alone, NEW p \in Processes, ReintegrationCaught(p)
    PROVE  ControlInv'
<1>a. Types /\ PlaceOK(p) /\ MergedOK(p) /\ Shaped
  BY DEF ControlInv, MergedInv, Types
<1>b. /\ Own(p) = Latest /\ Own(p) \in Numbers
      /\ UNCHANGED <<taskStatus, attempts, log, head, branch, agents>>
  BY <1>a DEF ReintegrationCaught, MergedOK, PlaceOK, storeVars
<1>1. /\ worktree' \in [Numbers -> {"absent", "clean", "dirty", "staged"}]
      /\ \A m \in Numbers : worktree'[m] # "absent" => worktree[m] # "absent"
  BY <1>a, <1>b DEF ReintegrationCaught, RemoveWorktree, Types, Dirty
<1>2. Shaped' /\ proc'[p].pc = "giveUp" /\ proc'[p].attempt = Own(p) /\ proc'[p].merged
  BY <1>a DEF ReintegrationCaught, GiveUp, Shaped, CommandFields
<1>3. PlaceOK(p)'
  BY <1>b, <1>2 DEF PlaceOK, Latest
<1> QED BY <1>a, <1>b, <1>1, <1>2, <1>3, RowsUnchanged DEF Types

\* The outcome of a recovery is written.
LEMMA OutcomesKeepControl ==
    ASSUME ControlInv, Alone, NEW p \in Processes,
           \/ FinishIntegrated(p) \/ FinishFailed(p) \/ ResetForRetry(p)
           \/ RequiresReconciliation(p) \/ RequiresHuman(p)
    PROVE  ControlInv'
<1>a. Types /\ PlaceOK(p) /\ Shaped
  BY DEF ControlInv, Types
<1>b. /\ Own(p) = Latest /\ Own(p) \in Numbers /\ Own(p) \in 1..Latest
      /\ UNCHANGED <<gitVars, agents>>
  BY <1>a DEF FinishIntegrated, FinishFailed, ResetForRetry, RequiresReconciliation,
     RequiresHuman, PlaceOK, Numbers
<1>1. log' \in [Numbers -> Events]
  <2>1. CASE FinishIntegrated(p)
    <3>1. (IF log[Own(p)].integrations = 0 THEN 1 ELSE log[Own(p)].integrations) \in Nat
      BY <1>a, <1>b DEF Types, Events
    <3> QED BY <2>1, <3>1, <1>a, <1>b, LogWrites DEF FinishIntegrated
  <2>2. CASE UNCHANGED log
    BY <2>2, <1>a DEF Types
  <2> QED BY <2>1, <2>2 DEF FinishFailed, ResetForRetry, RequiresReconciliation, RequiresHuman
<1>2. taskStatus' \in TaskStatuses \ ActiveStatuses
  BY FailureStatuses DEF FinishIntegrated, FinishFailed, ResetForRetry, RequiresReconciliation,
     RequiresHuman, TaskStatuses, ActiveStatuses, Escalations
<1>3. PICK status \in {"SUCCEEDED", "FAILED", "CANCELLED", "TIMED_OUT"} : WithStatus(Own(p), status)
  BY <1>b, FailureStatuses DEF FinishIntegrated, FinishFailed, ResetForRetry,
     RequiresReconciliation, RequiresHuman, Numbers
<1>4. CASE \/ Goto(p, "cleanup") \/ Goto(p, "abandon")
           \/ proc' = [proc EXCEPT ![p].pc = "cleanup", ![p].merged = FALSE]
  <2>1. /\ Shaped' /\ proc'[p].pc \in {"cleanup", "abandon"} /\ proc'[p].attempt = Own(p)
    BY <1>4, <1>a DEF Goto, Shaped, CommandFields
  <2> QED BY <1>b, <1>1, <1>2, <1>3, <2>1, CleanupPlaceIsOK, SettlementKeepsControl
<1>5. CASE Return(p)
  BY <1>5, <1>a, <1>b, <1>1, <1>2, <1>3, ReturnsAreFree, FreePlaceIsOK, SettlementKeepsControl
  DEF Freed
<1> QED BY <1>4, <1>5 DEF FinishIntegrated, FinishFailed, ResetForRetry, RequiresReconciliation,
           RequiresHuman

\* reconcileTerminalWorktrees.
LEMMA SweepKeepsControl ==
    ASSUME ControlInv, Alone, NEW p \in Processes,
           RemoveAbandoned(p) \/ SweepWorktree(p) \/ RemoveSwept(p)
    PROVE  ControlInv'
<1>a. Types /\ PlaceOK(p) /\ Shaped
  BY DEF ControlInv, Types
<1>1. CASE RemoveAbandoned(p) \/ RemoveSwept(p)
  <2>1. Own(p) \in Numbers
    BY <1>1, <1>a DEF RemoveAbandoned, RemoveSwept, PlaceOK
  <2> QED BY <1>1, <1>a, <2>1, ReturnsAreFree, RemovalKeepsControl DEF RemoveAbandoned, RemoveSwept
<1>2. CASE SweepWorktree(p) /\ Proceed(p)
  BY <1>2, <1>a, ReturnsAreFree, FreePlaceIsOK, OnlyMoves DEF SweepWorktree, Freed
<1>3. CASE /\ SweepWorktree(p) /\ Latest > 0
           /\ proc' = [proc EXCEPT ![p].pc = "sweepRemove", ![p].attempt = Latest]
  <2>1. Latest \in Numbers
    BY <1>3, <1>a, TaskExecutionAssumption DEF Types, Latest, Numbers
  <2>2. Shaped' /\ proc'[p].pc = "sweepRemove" /\ proc'[p].attempt = Latest
    BY <1>3, <1>a DEF Shaped, CommandFields
  <2> QED BY <1>3, <2>1, <2>2, CleanupPlaceIsOK, OnlyMoves DEF SweepWorktree
<1> QED BY <1>1, <1>2, <1>3 DEF SweepWorktree, Latest

\* Commands start, crash and retry.
LEMMA CommandsKeepControl ==
    ASSUME ControlInv, Alone, NEW p \in Processes,
           Retry(p) \/ Crash(p) \/ \E command \in Commands : Command(p, command)
    PROVE  ControlInv'
<1>a. Types /\ PlaceOK(p) /\ Shaped
  BY DEF ControlInv, Types
<1>1. Shaped' /\ proc'[p].pc \in Free
  <2>1. CASE Retry(p) \/ Crash(p)
    BY <2>1, <1>a DEF Retry, Crash, Idle, Shaped, CommandFields
  <2>2. ASSUME NEW command \in Commands, Command(p, command)
        PROVE  Shaped' /\ proc'[p].pc \in Free
    BY <2>2, <1>a DEF Command, Idle, Shaped, CommandFields
  <2> QED BY <2>1, <2>2
<1>2. /\ UNCHANGED <<attempts, log, gitVars, agents>>
      /\ taskStatus' = taskStatus \/ taskStatus' = "READY"
  BY DEF Retry, Crash, Command, storeVars
<1>3. Types'
  BY <1>a, <1>1, <1>2 DEF Types, gitVars, TaskStatuses
<1>4. ActiveTaskHasRunningAttempt'
  BY <1>2 DEF ControlInv, ActiveTaskHasRunningAttempt, Latest, ActiveStatuses
<1> QED BY <1>1, <1>3, <1>4, FreePlaceIsOK, OneProcessSuffices

-----------------------------------------------------------------------------
(* Agents and the user *)

\* Users and agents touch neither the rows nor the commands.
LEMMA SurroundingsKeepControl ==
    ASSUME ControlInv,
           UserCommits \/ \E n \in Numbers : AgentWrites(n) \/ AgentCommits(n) \/ OrphanExits(n)
    PROVE  ControlInv'
<1>a. Types
  BY DEF ControlInv
<1>1. UNCHANGED <<taskStatus, attempts, log, proc>>
  BY DEF UserCommits, AgentWrites, AgentCommits, OrphanExits, storeVars
<1>2. Types' /\ \A m \in Numbers : branch[m] # NONE => branch'[m] # NONE
  <2>1. CASE UserCommits
    <3>1. Append(head, USER) \in Revisions
      BY <1>a DEF Types, Revisions
    <3> QED BY <2>1, <3>1, <1>1, <1>a DEF UserCommits, Types, Shaped
  <2>2. ASSUME NEW n \in Numbers, AgentWrites(n)
        PROVE  Types' /\ UNCHANGED branch
    BY <2>2, <1>1, <1>a DEF AgentWrites, Types, Shaped
  <2>3. ASSUME NEW n \in Numbers, AgentCommits(n)
        PROVE  Types' /\ \A m \in Numbers : branch[m] # NONE => branch'[m] # NONE
    <3>1. branch[n] \in Revisions
      BY <2>3, <1>a DEF AgentCommits, Types
    <3>2. Append(branch[n], AGENT) \in Revisions
      BY <3>1 DEF Revisions
    <3>3. Append(branch[n], AGENT) # NONE
      BY <3>2, TaskExecutionAssumption
    <3> QED BY <2>3, <3>2, <3>3, <1>1, <1>a DEF AgentCommits, Types, Shaped
  <2>4. ASSUME NEW n \in Numbers, OrphanExits(n)
        PROVE  Types' /\ UNCHANGED branch
    BY <2>4, <1>1, <1>a DEF OrphanExits, Types, Shaped, gitVars
  <2> QED BY <2>1, <2>2, <2>3, <2>4 DEF UserCommits
<1>3. ASSUME NEW p \in Processes
      PROVE  PlaceOK(p)'
  <2>1. PlaceOK(p)
    BY DEF ControlInv
  <2> QED BY <1>1, <1>2, <2>1 DEF PlaceOK, Latest, Single
<1>4. ActiveTaskHasRunningAttempt'
  BY <1>1 DEF ControlInv, ActiveTaskHasRunningAttempt, Latest
<1> QED BY <1>2, <1>3, <1>4 DEF ControlInv

-----------------------------------------------------------------------------
(* The invariant is inductive *)

\* A task that was just added is READY and has no attempts.
LEMMA ControlInvInit == Init => ControlInv
<1> SUFFICES ASSUME Init
             PROVE  ControlInv
  OBVIOUS
<1>1. <<>> \in Revisions
  BY DEF Revisions
<1>2. NoEvents \in Events
  BY DEF NoEvents, Events
<1>3. Types
  BY <1>1, <1>2, TaskExecutionAssumption
  DEF Init, ExecutionInit, Types, Shaped, Idle, CommandFields, TaskStatuses, Numbers
<1>4. ActiveTaskHasRunningAttempt
  BY DEF Init, ExecutionInit, ActiveTaskHasRunningAttempt, ActiveStatuses
<1>5. \A p \in Processes : PlaceOK(p)
  BY DEF Init, ExecutionInit, PlaceOK, Idle
<1> QED BY <1>3, <1>4, <1>5 DEF ControlInv

\* Every step keeps the invariant, one lemma for each group of actions.
LEMMA ControlInvStep ==
    ASSUME ControlInv, MergedInv, Alone, [Next]_vars
    PROVE  ControlInv'
<1>1. ASSUME NEW p \in Processes, RecoveryStep(p)
      PROVE  ControlInv'
  BY <1>1, ReconciliationKeepsControl, InspectionKeepsControl, ReverificationKeepsControl,
     RecommitKeepsControl, ResolutionKeepsControl, ReintegrationKeepsControl,
     OutcomesKeepControl, SweepKeepsControl, CommandsKeepControl
  DEF RecoveryStep
<1>2. ASSUME NEW p \in Processes, ~Single(p), ExecutorStep(p)
      PROVE  ControlInv'
  BY <1>2, BeginningKeepsControl, CreationKeepsControl, StageEntryKeepsControl,
     WorktreeCreationKeepsControl, InvocationKeepsControl, AgentReturnKeepsControl,
     StagingKeepsControl, VerificationKeepsControl, CommitKeepsControl,
     IntegrationKeepsControl, FinalVerificationKeepsControl, FinishingKeepsControl,
     CleanupKeepsControl
  DEF ExecutorStep
<1>3. ASSUME NEW p \in Processes, SingleTaskStep(p)
      PROVE  ControlInv'
  BY <1>3, BeginningKeepsControl, CreationKeepsControl, StageEntryKeepsControl,
     WorktreeCreationKeepsControl, InvocationKeepsControl, SingleAgentReturnKeepsControl,
     StagingKeepsControl, VerificationKeepsControl, CommitKeepsControl,
     SingleIntegrationKeepsControl, FinishingKeepsControl, CleanupKeepsControl
  DEF SingleTaskStep, EnterImplementing, PrepareWorktree, VerifyAndCommit, CompleteSingle,
      FailSingle, CleanUpSingle
<1>4. CASE UNCHANGED vars
  BY <1>4 DEF ControlInv, Types, Shaped, PlaceOK, ActiveTaskHasRunningAttempt, Latest, Single,
     vars, executionVars
<1> QED BY <1>1, <1>2, <1>3, <1>4, ResolutionKeepsControl, CommandsKeepControl,
           ThrowKeepsControl, SurroundingsKeepControl, CatchKeepsControl
        DEF Next, Step, AgentStep

\* What a move does to the mark of a recovery's own merge.
LEMMA MovesKeepTheMark ==
    ASSUME Types, NEW p \in Processes
    PROVE  /\ \A pc : Goto(p, pc) => proc'[p].merged = proc[p].merged
           /\ \A kind : Fail(p, kind) => proc'[p].merged = proc[p].merged
           /\ \A kind : GiveUp(p, kind) => proc'[p].merged = proc[p].merged
           /\ \A pc, n : Recover(p, pc, n) => proc'[p].merged = proc[p].merged
           /\ \A status, cycle : Enter(p, status, cycle) => proc'[p].merged = proc[p].merged
           /\ Return(p) \/ ReturnRunnable(p) \/ Proceed(p) => ~proc'[p].merged
<1>1. DOMAIN proc = Processes /\ DOMAIN proc[p] = CommandFields /\ ~Idle.merged
      /\ DOMAIN Idle = CommandFields
  BY DEF Types, Shaped, Idle, CommandFields
<1>2. Return(p) => ~proc'[p].merged
  BY <1>1 DEF Return, CommandFields
<1>3. ReturnRunnable(p) => ~proc'[p].merged
  BY <1>1, <1>2 DEF ReturnRunnable, Begun, CommandFields
<1>4. Proceed(p) => ~proc'[p].merged
  BY <1>1 DEF Proceed, CommandFields
<1>5. /\ \A pc : Goto(p, pc) => proc'[p].merged = proc[p].merged
      /\ \A kind : Fail(p, kind) => proc'[p].merged = proc[p].merged
  BY <1>1 DEF Goto, Fail, CommandFields
<1>6. /\ \A kind : GiveUp(p, kind) => proc'[p].merged = proc[p].merged
      /\ \A pc, n : Recover(p, pc, n) => proc'[p].merged = proc[p].merged
  <2>1. ASSUME NEW kind, GiveUp(p, kind)
        PROVE  proc'[p].merged = proc[p].merged
    BY <2>1, <1>1 DEF GiveUp, CommandFields
  <2>2. ASSUME NEW pc, NEW n, Recover(p, pc, n)
        PROVE  proc'[p].merged = proc[p].merged
    BY <2>2, <1>1 DEF Recover, CommandFields
  <2> QED BY <2>1, <2>2
<1>7. \A status, cycle : Enter(p, status, cycle) => proc'[p].merged = proc[p].merged
  BY <1>1 DEF Enter, CommandFields
<1> QED BY <1>2, <1>3, <1>4, <1>5, <1>6, <1>7

\* Outside its try recovery carries no mark, and only Reintegrate sets it.
LEMMA UnmarkedSteps ==
    ASSUME Types, MergedInv, NEW p \in Processes,
           \/ RecoveryStep(p) \/ ExecutorStep(p) \/ SingleTaskStep(p)
           \/ CannotRead(p) \/ Throws(p),
           ~Reintegrate(p), ~FinishIntegrated(p), ~InspectForCleanup(p)
    PROVE  ~proc'[p].merged
<1>a. /\ DOMAIN proc = Processes /\ DOMAIN proc[p] = CommandFields
      /\ ~In(p, {"conclude", "giveUp", "cleanup", "remove"}) => ~proc[p].merged
  BY DEF Types, Shaped, MergedInv, MergedOK
<1>1. CASE RecoveryStep(p) \/ CannotRead(p) \/ Throws(p)
  <2>1. CASE ReconcileTask(p) \/ InspectHead(p) \/ Classify(p) \/ Reverify(p)
    BY <2>1, <1>a, MovesKeepTheMark DEF ReconcileTask, InspectHead, Classify, Reverify,
       CommandFields
  <2>2. CASE RecordReverification(p) \/ Recommit(p) \/ ReenterIntegrating(p) \/ ResolveHead(p)
    BY <2>2, <1>a, MovesKeepTheMark DEF RecordReverification, Recommit, ReenterIntegrating,
       ResolveHead, CommandFields
  <2>3. CASE CompareAncestry(p) \/ CannotRead(p) \/ Throws(p)
    BY <2>3, <1>a, MovesKeepTheMark DEF CompareAncestry, CannotRead, Throws
  <2>4. CASE FinishFailed(p) \/ ResetForRetry(p) \/ RemoveAbandoned(p)
             \/ RequiresReconciliation(p) \/ RequiresHuman(p)
    BY <2>4, <1>a, MovesKeepTheMark DEF FinishFailed, ResetForRetry, RemoveAbandoned,
       RequiresReconciliation, RequiresHuman, CommandFields
  <2>5. CASE SweepWorktree(p) \/ RemoveSwept(p) \/ Retry(p)
    BY <2>5, <1>a, MovesKeepTheMark DEF SweepWorktree, RemoveSwept, Retry, Idle, CommandFields
  <2> QED BY <1>1, <2>1, <2>2, <2>3, <2>4, <2>5 DEF RecoveryStep
<1>2. CASE ExecutorStep(p) \/ SingleTaskStep(p)
  <2>1. CASE \/ Execute(p) \/ CreateAttempt(p) \/ EnterStage(p) \/ CreateBranch(p)
             \/ CreateWorktree(p) \/ InvokeAgent(p) \/ StageAll(p) \/ EnterVerifying(p)
    <3>0. CASE Execute(p)
      <4>1. \/ proc' = [proc EXCEPT ![p] = Idle]
            \/ proc' = [proc EXCEPT ![p] = [Idle EXCEPT !.pc = "create", !.phase = "execute",
                                              !.attempt = Len(attempts) + 1, !.revision = head]]
        BY <3>0 DEF Execute
      <4>2. /\ ~Idle.merged
            /\ ~[Idle EXCEPT !.pc = "create", !.phase = "execute",
                             !.attempt = Len(attempts) + 1, !.revision = head].merged
        BY DEF Idle
      <4> QED BY <4>1, <4>2, <1>a
    <3>1. CASE InvokeAgent(p) \/ CreateWorktree(p)
      BY <3>1, <1>a, MovesKeepTheMark DEF InvokeAgent, CreateWorktree, CommandFields
    <3>2. CASE \/ CreateAttempt(p) \/ EnterStage(p) \/ CreateBranch(p) \/ StageAll(p)
               \/ EnterVerifying(p)
      BY <3>2, <1>a, MovesKeepTheMark DEF CreateAttempt, EnterStage, CreateBranch, StageAll,
         EnterVerifying
    <3> QED BY <2>1, <3>0, <3>1, <3>2
  <2>2. CASE \/ RunVerification(p) \/ RecordVerification(p) \/ Commit(p)
             \/ EnterIntegrating(p) \/ Integrate(p) \/ RecordIntegration(p)
    BY <2>2, <1>a, MovesKeepTheMark DEF RunVerification, RecordVerification, Commit,
       EnterIntegrating, Integrate, RecordIntegration, CommandFields
  <2>3. CASE \/ RunFinalVerification(p) \/ RecordFinalVerification(p) \/ FailExecution(p)
             \/ RemoveClean(p) \/ Finish(p)
    <3>1. In(p, {"conclude", "giveUp", "cleanup", "remove"}) => RemoveClean(p)
      BY <2>3 DEF RunFinalVerification, RecordFinalVerification, FailExecution, Finish
    <3> QED BY <2>3, <3>1, <1>a, MovesKeepTheMark DEF RunFinalVerification,
            RecordFinalVerification, FailExecution, RemoveClean, Finish, CommandFields
  <2>4. CASE AgentReturns(p)
    BY <2>4, <1>a, MovesKeepTheMark DEF AgentReturns, PlanSucceeds, PlanReviewSucceeds,
       ImplementSucceeds, CodeReviewSucceeds, Verdict
  <2>5. CASE \/ ExecuteSingle(p) \/ CreateSingleAttempt(p) \/ InvokeSingleAgent(p)
             \/ SingleAgentReturns(p) \/ IntegrateSingle(p)
    BY <2>2, <2>5, <1>a, MovesKeepTheMark DEF ExecuteSingle, CreateSingleAttempt,
       InvokeSingleAgent, SingleAgentReturns, IntegrateSingle, CommandFields
  <2> QED BY <1>2, <2>1, <2>2, <2>3, <2>4, <2>5
          DEF ExecutorStep, SingleTaskStep, EnterImplementing, PrepareWorktree, VerifyAndCommit,
              CompleteSingle, FailSingle, CleanUpSingle
<1> QED BY <1>1, <1>2

\* Where the mark stands, the task is where its recovery left it.
LEMMA MergedInvStep ==
    ASSUME ControlInv, MergedInv, Alone, [Next]_vars
    PROVE  MergedInv'
<1>a. Types
  BY DEF ControlInv
<1> SUFFICES ASSUME NEW p \in Processes
             PROVE  MergedOK(p)'
  BY DEF MergedInv
<1>b. MergedOK(p) /\ PlaceOK(p) /\ DOMAIN proc = Processes /\ DOMAIN proc[p] = CommandFields
  BY DEF MergedInv, ControlInv, Types, Shaped
<1>1. CASE Reintegrate(p)
  BY <1>1, <1>a, <1>b, MovesKeepTheMark DEF Reintegrate, MergedOK, PlaceOK, Latest,
     CommandFields, storeVars
<1>2. CASE FinishIntegrated(p)
  <2>1. Len(attempts') = Len(attempts)
    BY <1>2, <1>a, <1>b, StatusWrites DEF FinishIntegrated, PlaceOK, Numbers
  <2> QED BY <1>2, <2>1, <1>b DEF FinishIntegrated, Goto, MergedOK, Latest, CommandFields
<1>3. CASE InspectForCleanup(p)
  <2>1. CASE Goto(p, "remove")
    BY <1>3, <2>1, <1>b DEF InspectForCleanup, Goto, MergedOK, Latest, CommandFields, storeVars
  <2>2. CASE Return(p)
    BY <2>2, <1>a, MovesKeepTheMark DEF MergedOK
  <2> QED BY <1>3, <2>1, <2>2 DEF InspectForCleanup
<1>4. CASE ReintegrationCaught(p)
  BY <1>4, <1>b DEF ReintegrationCaught, GiveUp, MergedOK, Latest, CommandFields, storeVars
<1>5. CASE Crash(p) \/ \E command \in Commands : Command(p, command)
  <2>1. ASSUME Crash(p)
        PROVE  ~proc'[p].merged
    BY <2>1, <1>b DEF Crash, Idle
  <2>2. ASSUME NEW command \in Commands, Command(p, command)
        PROVE  ~proc'[p].merged
    BY <2>2, <1>b DEF Command, Idle
  <2> QED BY <1>5, <2>1, <2>2 DEF MergedOK
<1>6. CASE UNCHANGED <<taskStatus, attempts, proc>>
  BY <1>6, <1>b DEF MergedOK, Latest
<1>7. CASE \/ RecoveryStep(p) \/ ExecutorStep(p) \/ SingleTaskStep(p)
           \/ CannotRead(p) \/ Throws(p)
  BY <1>1, <1>2, <1>3, <1>7, <1>a, UnmarkedSteps DEF MergedOK
<1>8. \A q \in Processes : q = p
  BY DEF Alone
<1> QED BY <1>4, <1>5, <1>6, <1>7, <1>8
        DEF Next, Step, AgentStep, AgentWrites, AgentCommits, OrphanExits, UserCommits, vars,
            executionVars, storeVars

\* The invariant holds in every reachable state.
LEMMA ControlInvAlways ==
    ASSUME Alone
    PROVE  Spec => []ControlInv /\ []MergedInv
<1>1. ControlInv /\ MergedInv /\ [Next]_vars => ControlInv' /\ MergedInv'
  BY ControlInvStep, MergedInvStep
<1>2. Init => MergedInv
  BY DEF Init, ExecutionInit, MergedInv, MergedOK, Idle
<1> QED BY <1>1, <1>2, ControlInvInit, PTL DEF Spec

-----------------------------------------------------------------------------
(* Theorems *)

\* Wherever a crash strikes, a task in a working status has a last attempt that
\* is RUNNING: reconcileTask's branch for an inconsistent task is never needed.
THEOREM ActiveTaskAlwaysRuns ==
    ASSUME Alone
    PROVE  Spec => []ActiveTaskHasRunningAttempt
<1>1. ControlInv => ActiveTaskHasRunningAttempt
  BY DEF ControlInv
<1> QED BY <1>1, ControlInvAlways, PTL

\* The steps that write the status.
LEMMA StatusWriters ==
    ASSUME [Next]_vars, taskStatus' # taskStatus
    PROVE  \E p \in Processes :
              \/ EnterStage(p) \/ EnterVerifying(p) \/ EnterIntegrating(p) \/ Finish(p)
              \/ FailExecution(p) \/ ReenterIntegrating(p) \/ FinishIntegrated(p)
              \/ FinishFailed(p) \/ ResetForRetry(p) \/ RequiresReconciliation(p)
              \/ RequiresHuman(p) \/ Retry(p)
<1>1. PICK p \in Processes : Step(p)
  BY DEF Next, Crash, CannotRead, ReintegrationCaught, Throws, Command, AgentStep, AgentWrites,
     AgentCommits, OrphanExits, UserCommits, vars, executionVars, storeVars
<1>2. ASSUME RecoveryStep(p)
      PROVE  \/ ReenterIntegrating(p) \/ FinishIntegrated(p) \/ FinishFailed(p)
             \/ ResetForRetry(p) \/ RequiresReconciliation(p) \/ RequiresHuman(p) \/ Retry(p)
  BY <1>2 DEF RecoveryStep, ReconcileTask, InspectHead, Classify, Reverify, Recommit,
     RecordReverification, ResolveHead, CompareAncestry, Reintegrate, RemoveAbandoned,
     SweepWorktree, RemoveSwept, storeVars
<1>3. ASSUME ExecutorStep(p)
      PROVE  \/ EnterStage(p) \/ EnterVerifying(p) \/ EnterIntegrating(p) \/ Finish(p)
             \/ FailExecution(p)
  BY <1>3 DEF ExecutorStep, Execute, CreateAttempt, CreateBranch, CreateWorktree, InvokeAgent,
     AgentReturns, StageAll, RunVerification, RecordVerification, Commit, Integrate,
     RecordIntegration, RunFinalVerification, RecordFinalVerification, InspectForCleanup,
     RemoveClean, storeVars
<1>4. ASSUME SingleTaskStep(p)
      PROVE  \/ EnterStage(p) \/ EnterVerifying(p) \/ EnterIntegrating(p) \/ Finish(p)
             \/ FailExecution(p)
  BY <1>4 DEF SingleTaskStep, ExecuteSingle, CreateSingleAttempt, EnterImplementing,
     PrepareWorktree, CreateBranch, CreateWorktree, InvokeSingleAgent, SingleAgentReturns,
     VerifyAndCommit, StageAll, RunVerification, RecordVerification, Commit, IntegrateSingle,
     Integrate, CompleteSingle, FailSingle, CleanUpSingle, InspectForCleanup, RemoveClean,
     storeVars
<1> QED BY <1>1, <1>2, <1>3, <1>4 DEF Step

\* Each of them is a transition of the state machine.
LEMMA StatusChangesAreLegal ==
    ASSUME ControlInv, MergedInv, [Next]_vars, taskStatus' # taskStatus
    PROVE  \/ CanReconcile(taskStatus, taskStatus')
           \/ CanTransition(taskStatus, "BLOCKED") /\ taskStatus' = "READY"
           \/ (\E p \in Processes : TakenForFailed(p)) /\ taskStatus' = "FAILED"
<1>1. PICK p \in Processes :
         \/ EnterStage(p) \/ EnterVerifying(p) \/ EnterIntegrating(p) \/ Finish(p)
         \/ FailExecution(p) \/ ReenterIntegrating(p) \/ FinishIntegrated(p)
         \/ FinishFailed(p) \/ ResetForRetry(p) \/ RequiresReconciliation(p)
         \/ RequiresHuman(p) \/ Retry(p)
  BY StatusWriters
<1>a. PlaceOK(p) /\ MergedOK(p)
  BY DEF ControlInv, MergedInv
<1>2. CASE EnterStage(p)
  BY <1>2, <1>a DEF EnterStage, PlaceOK, CanReconcile
<1>3. CASE EnterVerifying(p) \/ EnterIntegrating(p) \/ ReenterIntegrating(p) \/ Finish(p)
  BY <1>3, <1>a, WorkflowTransitions DEF EnterVerifying, EnterIntegrating, ReenterIntegrating,
     BeginIntegrating, Finish, PlaceOK, CanReconcile
<1>4. CASE FailExecution(p) \/ FinishFailed(p)
  <2>1. CASE TakenForFailed(p) /\ FinishFailed(p)
    BY <2>1, <1>a DEF TakenForFailed, FinishFailed, MergedOK, TaskStatusOf
  <2>2. CASE ~(TakenForFailed(p) /\ FinishFailed(p))
    BY <1>4, <2>2, <1>a, FailureStatuses, WorkflowTransitions
    DEF FailExecution, FinishFailed, TakenForFailed, PlaceOK, MergedOK, CanReconcile,
        ActiveStatuses
  <2> QED BY <2>1, <2>2
<1>5. CASE FinishIntegrated(p) \/ RequiresHuman(p)
  <2>1. /\ taskStatus = "FAILED" => "DONE" \in RecoveryStatusTransitions(taskStatus)
        /\ taskStatus \in ActiveStatuses =>
              "NEEDS_HUMAN" \in RecoveryStatusTransitions(taskStatus)
    BY DEF RecoveryStatusTransitions, ActiveStatuses
  <2> QED BY <1>5, <1>a, <2>1, WorkflowTransitions
          DEF FinishIntegrated, RequiresHuman, PlaceOK, CanReconcile
<1>6. CASE ResetForRetry(p) \/ RequiresReconciliation(p)
  BY <1>6, <1>a, WorkflowTransitions DEF ResetForRetry, RequiresReconciliation, PlaceOK,
     CanReconcile, ActiveStatuses, AgentStageStatuses, Escalations
<1>7. CASE Retry(p)
  <2>1. taskStatus \in RetryableStatuses /\ taskStatus' = "READY"
    BY <1>7 DEF Retry
  <2>2. CanTransition(taskStatus, "READY")
    BY <2>1 DEF CanTransition, TaskStatusTransitions, RetryableStatuses
  <2> QED BY <2>1, <2>2 DEF CanReconcile
<1> QED BY <1>1, <1>2, <1>3, <1>4, <1>5, <1>6, <1>7

\* Every write of a task's status, by an executor, by recovery or by retry, is
\* a transition that the state machine has (task-state-machine.ts), but for the
\* FAILED that recovery's catch writes over the DONE of its own merge.
THEOREM EveryTransitionIsLegal ==
    ASSUME Alone
    PROVE  Spec => TransitionsAreLegal
<1>1. ControlInv /\ MergedInv /\ [Next]_vars =>
         [taskStatus' # taskStatus =>
            \/ CanReconcile(taskStatus, taskStatus')
            \/ CanTransition(taskStatus, "BLOCKED") /\ taskStatus' = "READY"
            \/ (\E p \in Processes : TakenForFailed(p)) /\ taskStatus' = "FAILED"]_vars
  BY StatusChangesAreLegal
<1> QED BY <1>1, ControlInvAlways, PTL DEF Spec, TransitionsAreLegal
=============================================================================
