----------------------- MODULE RecoveryEvidenceProofs -----------------------
(***************************************************************************)
(* What the events of an attempt say is true of the repository, wherever   *)
(* the runner crashed: work is integrated only when it was verified, work  *)
(* that is integrated is not started over, a DONE task has earned it, and  *)
(* what an agent left uncommitted is kept.  For one runner process on one  *)
(* task, any workflow and any number of attempts, crashes and commits.     *)
(***************************************************************************)
EXTENDS CrashRecoveryProofs

-----------------------------------------------------------------------------
(* The invariant *)

\* Nothing of the integration is recorded.
Uncommitted(n) ==
    log[n].commit = NONE /\ log[n].integrations = 0 /\ log[n].final.status = NONE

\* A commit is recorded of verified work and stays on its branch; a final
\* verdict is recorded of a commit that is integrated; and no revision has work
\* of an attempt that was not verified.
AttemptEvidence(n) ==
    /\ n > Latest => log[n] = NoEvents
    /\ log[n].integrations \in {0, 1}
    /\ log[n].commit # NONE =>
          /\ log[n].verification = "PASSED"
          /\ branch[n] # NONE /\ IsPrefix(log[n].commit, branch[n])
    /\ log[n].final.status # NONE => log[n].commit # NONE /\ IsPrefix(log[n].commit, head)
    /\ Contains(head, n) => log[n].verification = "PASSED"
    /\ \A m \in Numbers :
          branch[m] # NONE /\ Contains(branch[m], n) => log[n].verification = "PASSED"

EvidenceOK ==
    /\ \A n \in Numbers : AttemptEvidence(n)
    /\ taskStatus \in AgentStageStatuses => log[Latest] = NoEvents
    /\ taskStatus = "VERIFYING" => Uncommitted(Latest)
    /\ taskStatus = "DONE" => Latest \in Numbers /\ log[Latest].commit # NONE

\* What a command knows of the attempt at each place.
EvidenceAt(p) ==
    /\ In(p, Entering) => log[Own(p)] = NoEvents
    /\ In(p, {"verify", "verified", "reverify", "reverified"}) => log[Own(p)].verification = NONE
    /\ In(p, {"commit", "integrating", "recommit", "reintegrating"}) =>
          log[Own(p)].verification = "PASSED"
    /\ In(p, {"integrating", "reintegrating"}) =>
          proc[p].revision # NONE /\ IsPrefix(proc[p].revision, branch[Own(p)])
    /\ In(p, Integrating \cup {"conclude"}) => log[Own(p)].commit # NONE
    /\ In(p, {"integrate", "integrated"}) => log[Own(p)].integrations = 0
    /\ In(p, {"integrate", "integrated", "reintegrate"}) => log[Own(p)].final.status = NONE
    /\ In(p, {"finalVerify", "finalVerified", "done"}) => log[Own(p)].integrations = 1
    /\ In(p, {"integrated", "finalVerify", "finalVerified", "done", "conclude"}) =>
          IsPrefix(log[Own(p)].commit, head)
    /\ At(p, "done") => log[Own(p)].final.status \in {NONE, "PASSED"}
    /\ At(p, "ancestry") =>
          /\ IsPrefix(proc[p].revision, head)
          /\ log[Own(p)].final.status # NONE => IsPrefix(log[Own(p)].commit, proc[p].revision)
    /\ At(p, "conclude") => RecordedFinalVerdict(Own(p)) \in {NONE, "PASSED"}

EvidenceInv ==
    /\ EvidenceOK
    /\ \A p \in Processes : EvidenceAt(p)
    /\ DoneIsEarned
    /\ RefutedIsNotDone

\* Where a command rests on nothing that was recorded.
Bare == Free \cup {"create", "attempt", "branch", "worktree", "stage", "agent"} \cup Staged
        \cup Inspecting \cup {"head", "fail", "giveUp", "reset", "preserve", "human",
                              "cleanup", "remove", "abandon", "sweepRemove"}

USE DEF In, At, Own, Free, OnLatest, Entering, Staging, Staged, Verifying, Integrating,
        Inspecting, Resolving, Settling

-----------------------------------------------------------------------------
(* Revisions *)

\* A commit adds itself to a history and nothing else.
LEMMA CommitExtends ==
    ASSUME NEW S, NEW s \in Seq(S), NEW x \in S
    PROVE  /\ Append(s, x) \in Seq(S) /\ Len(Append(s, x)) = Len(s) + 1
           /\ \A y : Contains(Append(s, x), y) => Contains(s, y) \/ y = x
           /\ IsPrefix(s, Append(s, x))
BY DEF Contains, IsPrefix

\* Every revision is an ancestor of itself.
LEMMA AncestryIsReflexive ==
    ASSUME NEW s \in Revisions
    PROVE  IsPrefix(s, s)
BY DEF IsPrefix, Revisions

\* The ancestors of an ancestor are ancestors.
LEMMA AncestryIsTransitive ==
    ASSUME NEW s \in Revisions, NEW t \in Revisions, NEW u \in Revisions,
           IsPrefix(s, t), IsPrefix(t, u)
    PROVE  IsPrefix(s, u)
<1>1. /\ Len(s) \in Nat /\ Len(t) \in Nat /\ Len(u) \in Nat
      /\ Len(s) <= Len(t) /\ Len(t) <= Len(u)
  BY DEF IsPrefix, Revisions
<1>2. (\A i \in 1..Len(s) : s[i] = t[i]) /\ (\A i \in 1..Len(t) : t[i] = u[i])
  BY DEF IsPrefix, Revisions
<1>3. \A i \in 1..Len(s) : s[i] = u[i]
  BY <1>1, <1>2
<1> QED BY <1>1, <1>3 DEF IsPrefix, Revisions

-----------------------------------------------------------------------------
(* Steps that record nothing *)

\* Where a command rests on nothing that was recorded nothing is required.
LEMMA BareEvidence ==
    ASSUME NEW p \in Processes, proc'[p].pc \in Bare
    PROVE  EvidenceAt(p)'
BY DEF EvidenceAt, Bare

\* A single process.
LEMMA EvidenceOfOneProcess ==
    ASSUME Alone, NEW p \in Processes, EvidenceAt(p)', EvidenceOK', DoneIsEarned',
           RefutedIsNotDone'
    PROVE  EvidenceInv'
<1>1. ASSUME NEW q \in Processes
      PROVE  EvidenceAt(q)'
  <2>1. q = p
    BY DEF Alone
  <2> QED BY <2>1
<1> QED BY <1>1 DEF EvidenceInv

\* A step that leaves the store and the revisions alone.
LEMMA NothingRecorded ==
    ASSUME EvidenceInv, Alone, NEW p \in Processes, EvidenceAt(p)',
           UNCHANGED <<taskStatus, attempts, log, head, branch>>
    PROVE  EvidenceInv'
<1>1. EvidenceOK' /\ DoneIsEarned' /\ RefutedIsNotDone'
  BY DEF EvidenceInv, EvidenceOK, AttemptEvidence, Uncommitted, Latest, DoneIsEarned,
     RefutedIsNotDone, RecordedFinalVerdict
<1> QED BY <1>1, EvidenceOfOneProcess

\* Histories grow, by work that was verified.
LEMMA GrowthKeepsEvidence ==
    ASSUME Types, Types', EvidenceInv, UNCHANGED <<taskStatus, attempts, log>>,
           IsPrefix(head, head'),
           \A m \in Numbers :
              branch[m] # NONE => branch'[m] # NONE /\ IsPrefix(branch[m], branch'[m]),
           \A n \in Numbers : Contains(head', n) => log[n].verification = "PASSED",
           \A m, n \in Numbers :
              branch'[m] # NONE /\ Contains(branch'[m], n) => log[n].verification = "PASSED"
    PROVE  EvidenceOK' /\ DoneIsEarned' /\ RefutedIsNotDone'
<1>1. \A n \in Numbers : AttemptEvidence(n)'
  <2> SUFFICES ASSUME NEW n \in Numbers
               PROVE  AttemptEvidence(n)'
    OBVIOUS
  <2>1. AttemptEvidence(n)
    BY DEF EvidenceInv, EvidenceOK
  <2>2. log[n].commit # NONE => log[n].commit \in Revisions
    BY DEF Types, Events
  <2>3. log[n].commit # NONE => branch'[n] # NONE /\ IsPrefix(log[n].commit, branch'[n])
    <3> SUFFICES ASSUME log[n].commit # NONE
                 PROVE  branch'[n] # NONE /\ IsPrefix(log[n].commit, branch'[n])
      OBVIOUS
    <3>1. branch[n] # NONE /\ IsPrefix(log[n].commit, branch[n])
      BY <2>1 DEF AttemptEvidence
    <3>2. branch[n] \in Revisions /\ branch'[n] \in Revisions
      BY <3>1 DEF Types
    <3> QED BY <2>2, <3>1, <3>2, AncestryIsTransitive
  <2>4. log[n].final.status # NONE => log[n].commit # NONE /\ IsPrefix(log[n].commit, head')
    BY <2>1, <2>2, AncestryIsTransitive DEF AttemptEvidence, Types
  <2> QED BY <2>1, <2>3, <2>4 DEF AttemptEvidence, Latest
<1>2. DoneIsEarned'
  <2> SUFFICES ASSUME taskStatus = "DONE"
               PROVE  DoneIsEarned'
    BY DEF DoneIsEarned
  <2>1. /\ attempts[Latest].status = "SUCCEEDED" /\ log[Latest].verification = "PASSED"
        /\ IsPrefix(log[Latest].commit, head) /\ log[Latest].integrations = 1
    BY DEF EvidenceInv, DoneIsEarned
  <2>2. log[Latest].commit \in Revisions
    BY DEF EvidenceInv, EvidenceOK, Types, Events
  <2>3. IsPrefix(log[Latest].commit, head')
    BY <2>1, <2>2, AncestryIsTransitive DEF Types
  <2> QED BY <2>1, <2>3 DEF DoneIsEarned, Latest
<1>3. RefutedIsNotDone' /\ EvidenceOK'
  BY <1>1 DEF EvidenceInv, EvidenceOK, RefutedIsNotDone, RecordedFinalVerdict, Latest, Uncommitted
<1> QED BY <1>2, <1>3

-----------------------------------------------------------------------------
(* Steps of a command that records nothing and rests on nothing recorded *)

\* Moves to such places.
LEMMA BareMoves ==
    ASSUME Types, NEW p \in Processes
    PROVE  /\ \A pc \in Bare : Goto(p, pc) => proc'[p].pc \in Bare
           /\ \A kind : Fail(p, kind) \/ GiveUp(p, kind) => proc'[p].pc \in Bare
           /\ \A pc \in Bare : \A n : Recover(p, pc, n) => proc'[p].pc \in Bare
           /\ Return(p) \/ ReturnRunnable(p) \/ Proceed(p) => proc'[p].pc \in Bare
<1>1. Return(p) \/ ReturnRunnable(p) \/ Proceed(p) => proc'[p].pc \in Bare
  BY ReturnsAreFree DEF Freed, Bare
<1>2. DOMAIN proc = Processes /\ DOMAIN proc[p] = CommandFields
  BY DEF Types, Shaped
<1>3. \A pc \in Bare : Goto(p, pc) => proc'[p].pc \in Bare
  BY <1>2 DEF Goto, CommandFields
<1>4. \A kind : Fail(p, kind) \/ GiveUp(p, kind) => proc'[p].pc \in Bare
  BY <1>2 DEF Fail, GiveUp, Bare, CommandFields
<1>5. \A pc \in Bare : \A n : Recover(p, pc, n) => proc'[p].pc \in Bare
  BY <1>2 DEF Recover, CommandFields
<1> QED BY <1>1, <1>3, <1>4, <1>5

\* The steps that only move a command, or only touch a worktree.
LEMMA BareStepsKeepEvidence ==
    ASSUME ControlInv, EvidenceInv, Alone, NEW p \in Processes,
           \/ Execute(p) \/ ExecuteSingle(p) \/ CreateWorktree(p) \/ InvokeAgent(p)
           \/ StageAll(p) \/ InspectForCleanup(p) \/ RemoveClean(p) \/ Throws(p)
           \/ Crash(p) \/ \E command \in Commands : Command(p, command)
           \/ ReconcileTask(p) \/ InspectHead(p) \/ CannotRead(p)
           \/ RemoveAbandoned(p) \/ SweepWorktree(p) \/ RemoveSwept(p)
           \/ ReintegrationCaught(p)
    PROVE  EvidenceInv'
<1>a. Types /\ DOMAIN proc = Processes /\ DOMAIN proc[p] = CommandFields
  BY DEF ControlInv, Types, Shaped
<1>1. UNCHANGED <<taskStatus, attempts, log, head, branch>>
  BY DEF Execute, ExecuteSingle, CreateWorktree, InvokeAgent, StageAll, InspectForCleanup,
     RemoveClean, Throws, Crash, Command, ReconcileTask, InspectHead, CannotRead,
     RemoveAbandoned, SweepWorktree, RemoveSwept, ReintegrationCaught, storeVars, gitVars
<1>2. proc'[p].pc \in Bare
  <2>1. ASSUME Execute(p)
        PROVE  proc'[p].pc \in Bare
    <3>1. /\ Idle.pc = "idle"
          /\ [Idle EXCEPT !.pc = "create", !.phase = "execute", !.attempt = Len(attempts) + 1,
                          !.revision = head].pc = "create"
      BY DEF Idle
    <3> QED BY <2>1, <3>1, <1>a DEF Execute, Bare
  <2>2. ASSUME ExecuteSingle(p)
        PROVE  proc'[p].pc \in Bare
    BY <2>2, <1>a, BareMoves DEF ExecuteSingle, Bare, CommandFields
  <2>3. ASSUME CreateWorktree(p)
        PROVE  proc'[p].pc \in Bare
    BY <2>3, <1>a, BareMoves DEF CreateWorktree, Bare, CommandFields
  <2>4. ASSUME InvokeAgent(p) \/ Crash(p)
        PROVE  proc'[p].pc \in Bare
    BY <2>4, <1>a DEF InvokeAgent, Crash, Idle, Bare, CommandFields
  <2>5. ASSUME NEW command \in Commands, Command(p, command)
        PROVE  proc'[p].pc \in Bare
    BY <2>5, <1>a DEF Command, Idle, Bare
  <2>6. ASSUME SweepWorktree(p)
        PROVE  proc'[p].pc \in Bare
    BY <2>6, <1>a, BareMoves DEF SweepWorktree, Bare, CommandFields
  <2>7. ASSUME ReconcileTask(p)
        PROVE  proc'[p].pc \in Bare
    BY <2>7, <1>a, BareMoves DEF ReconcileTask, Bare
  <2>8. ASSUME StageAll(p) \/ InspectForCleanup(p) \/ RemoveClean(p) \/ Throws(p)
        PROVE  proc'[p].pc \in Bare
    BY <2>8, <1>a, BareMoves DEF StageAll, InspectForCleanup, RemoveClean, Throws, Bare
  <2>9. ASSUME \/ InspectHead(p) \/ CannotRead(p) \/ RemoveAbandoned(p) \/ RemoveSwept(p)
               \/ ReintegrationCaught(p)
        PROVE  proc'[p].pc \in Bare
    BY <2>9, <1>a, BareMoves DEF InspectHead, CannotRead, RemoveAbandoned, RemoveSwept,
       ReintegrationCaught, Bare
  <2> QED BY <2>1, <2>2, <2>3, <2>4, <2>5, <2>6, <2>7, <2>8, <2>9
<1> QED BY <1>1, <1>2, BareEvidence, NothingRecorded

-----------------------------------------------------------------------------
(* The executors *)

\* A step that writes rows, but neither events nor revisions, and that does not
\* make the task DONE.
LEMMA RowsKeepEvidence ==
    ASSUME EvidenceInv, Alone, NEW p \in Processes, EvidenceAt(p)',
           Latest \in Nat, Latest' \in Nat, Latest' >= Latest, taskStatus' # "DONE",
           taskStatus' \in AgentStageStatuses => log[Latest'] = NoEvents,
           taskStatus' = "VERIFYING" => Uncommitted(Latest'),
           UNCHANGED <<log, head, branch>>
    PROVE  EvidenceInv'
<1>1. \A n \in Numbers : AttemptEvidence(n)'
  <2> SUFFICES ASSUME NEW n \in Numbers
               PROVE  AttemptEvidence(n)'
    OBVIOUS
  <2>1. AttemptEvidence(n)
    BY DEF EvidenceInv, EvidenceOK
  <2>2. n > Latest' => n > Latest
    BY DEF Numbers
  <2> QED BY <2>1, <2>2 DEF AttemptEvidence
<1>2. EvidenceOK'
  BY <1>1 DEF EvidenceOK, Uncommitted
<1>3. DoneIsEarned' /\ RefutedIsNotDone'
  BY DEF DoneIsEarned, RefutedIsNotDone
<1> QED BY <1>2, <1>3, EvidenceOfOneProcess

\* The new attempt has no events yet.
LEMMA CreationKeepsEvidence ==
    ASSUME ControlInv, ControlInv', EvidenceInv, Alone, NEW p \in Processes,
           CreateAttempt(p) \/ CreateSingleAttempt(p)
    PROVE  EvidenceInv'
<1>a. Types /\ PlaceOK(p) /\ DOMAIN proc = Processes /\ DOMAIN proc[p] = CommandFields
  BY DEF ControlInv, Types, Shaped
<1>b. /\ taskStatus = "READY" /\ Own(p) = Latest + 1 /\ Own(p) \in Numbers /\ Latest \in Nat
      /\ UNCHANGED <<taskStatus, log, head, branch>>
  BY <1>a DEF CreateAttempt, CreateSingleAttempt, PlaceOK, Latest, Types, gitVars
<1>1. CASE Return(p) /\ UNCHANGED attempts
  <2>1. EvidenceAt(p)'
    BY <1>1, <1>a, BareMoves, BareEvidence
  <2> QED BY <1>1, <1>b, <2>1, NothingRecorded
<1>2. CASE PutAttempt(Own(p), [status |-> "RUNNING", base |-> proc[p].revision])
           /\ \E status, cycle : Enter(p, status, cycle)
  <2>1. attempts' = Append(attempts, [status |-> "RUNNING", base |-> proc[p].revision])
    BY <1>2, <1>a, <1>b DEF PutAttempt, Types, Latest
  <2>2. Latest' = Latest + 1
    BY <2>1, <1>a DEF Types, Latest
  <2>3. proc'[p].pc = "enter" /\ proc'[p].attempt = Own(p)
    BY <1>2, <1>a DEF Enter, CommandFields
  <2>4. log[Own(p)] = NoEvents
    BY <1>b DEF EvidenceInv, EvidenceOK, AttemptEvidence
  <2>5. EvidenceAt(p)'
    BY <1>b, <2>3, <2>4 DEF EvidenceAt
  <2>6. /\ taskStatus' # "DONE" /\ taskStatus' \notin AgentStageStatuses
        /\ taskStatus' # "VERIFYING"
    BY <1>b DEF AgentStageStatuses
  <2> QED BY <1>b, <2>2, <2>5, <2>6, RowsKeepEvidence
<1> QED BY <1>1, <1>2 DEF CreateAttempt, CreateSingleAttempt

\* While agents work the attempt has no events.
LEMMA StagesKeepEvidence ==
    ASSUME ControlInv, ControlInv', EvidenceInv, Alone, NEW p \in Processes,
           EnterStage(p) \/ InvokeSingleAgent(p) \/ SingleAgentReturns(p)
    PROVE  EvidenceInv'
<1>a. /\ Types /\ PlaceOK(p) /\ EvidenceAt(p)
      /\ DOMAIN proc = Processes /\ DOMAIN proc[p] = CommandFields
  BY DEF ControlInv, EvidenceInv, Types, Shaped
<1>1. proc'[p].pc \in Bare
  BY <1>a DEF EnterStage, InvokeSingleAgent, SingleAgentReturns, Goto, Fail, CommandFields, Bare
<1>2. Own(p) = Latest /\ Latest \in Numbers
  BY <1>a DEF EnterStage, InvokeSingleAgent, SingleAgentReturns, PlaceOK
<1>3. Latest' = Latest
  BY <1>a, <1>2, StatusWrites
  DEF EnterStage, InvokeSingleAgent, SingleAgentReturns, Numbers, Latest
<1>4. /\ taskStatus' \in AgentStageStatuses /\ log[Latest] = NoEvents
  <2>1. CASE EnterStage(p)
    BY <2>1, <1>a, <1>2 DEF EnterStage, PlaceOK, EvidenceAt
  <2>2. CASE InvokeSingleAgent(p) \/ SingleAgentReturns(p)
    BY <2>2, <1>a DEF InvokeSingleAgent, SingleAgentReturns, PlaceOK, EvidenceInv, EvidenceOK
  <2> QED BY <2>1, <2>2
<1>5. UNCHANGED <<log, head, branch>>
  BY DEF EnterStage, InvokeSingleAgent, SingleAgentReturns, gitVars
<1>6. taskStatus' # "DONE" /\ taskStatus' # "VERIFYING" /\ Latest \in Nat
  BY <1>2, <1>4 DEF AgentStageStatuses, Numbers
<1> QED BY <1>1, <1>3, <1>4, <1>5, <1>6, BareEvidence, RowsKeepEvidence

\* A review sends the work on or back; nothing is recorded for it here.
LEMMA AgentReturnKeepsEvidence ==
    ASSUME ControlInv, EvidenceInv, Alone, NEW p \in Processes, AgentReturns(p)
    PROVE  EvidenceInv'
<1>a. Types /\ PlaceOK(p) /\ DOMAIN proc = Processes /\ DOMAIN proc[p] = CommandFields
  BY DEF ControlInv, Types, Shaped
<1>b. /\ taskStatus \in AgentStageStatuses /\ taskStatus = proc[p].status /\ Own(p) = Latest
      /\ log[Latest] = NoEvents /\ UNCHANGED <<taskStatus, attempts, log, head, branch>>
  BY <1>a DEF AgentReturns, PlaceOK, EvidenceInv, EvidenceOK, storeVars, gitVars
<1>1. ASSUME Goto(p, "stageAll") \/ \E kind : Fail(p, kind)
      PROVE  EvidenceAt(p)'
  BY <1>1, <1>a, BareMoves, BareEvidence DEF Bare
<1>2. ASSUME \E status, cycle : Enter(p, status, cycle)
      PROVE  EvidenceAt(p)'
  <2>1. proc'[p].pc = "enter" /\ proc'[p].attempt = Own(p)
    BY <1>2, <1>a DEF Enter, CommandFields
  <2> QED BY <1>b, <2>1 DEF EvidenceAt
<1>3. EvidenceAt(p)'
  BY <1>a, <1>b, <1>1, <1>2, StageOutcomes DEF AgentReturns
<1> QED BY <1>b, <1>3, NothingRecorded

\* A new branch has what HEAD has, and that was verified.
LEMMA BranchCreationKeepsEvidence ==
    ASSUME ControlInv, ControlInv', EvidenceInv, Alone, NEW p \in Processes, CreateBranch(p)
    PROVE  EvidenceInv'
<1>a. Types /\ Types' /\ PlaceOK(p)
  BY DEF ControlInv
<1>1. proc'[p].pc \in Bare
  BY <1>a, BareMoves DEF CreateBranch, Bare
<1>2. CASE UNCHANGED branch
  BY <1>1, <1>2, BareEvidence, NothingRecorded DEF CreateBranch, storeVars
<1>3. CASE branch[Own(p)] = NONE /\ branch' = [branch EXCEPT ![Own(p)] = head]
  <2>1. Own(p) \in Numbers /\ UNCHANGED <<taskStatus, attempts, log, head>>
    BY <1>a DEF CreateBranch, PlaceOK, storeVars
  <2>2. \A n \in Numbers : Contains(head, n) => log[n].verification = "PASSED"
    BY DEF EvidenceInv, EvidenceOK, AttemptEvidence
  <2>3. IsPrefix(head, head')
    BY <1>a, <2>1, AncestryIsReflexive DEF Types
  <2>4. \A m \in Numbers :
           branch[m] # NONE => branch'[m] # NONE /\ IsPrefix(branch[m], branch'[m])
    BY <1>3, <1>a, <2>1, AncestryIsReflexive DEF Types
  <2>5. \A m, n \in Numbers :
           branch'[m] # NONE /\ Contains(branch'[m], n) => log[n].verification = "PASSED"
    BY <1>3, <1>a, <2>1, <2>2 DEF Types, EvidenceInv, EvidenceOK, AttemptEvidence
  <2>6. EvidenceOK' /\ DoneIsEarned' /\ RefutedIsNotDone'
    BY <1>a, <2>1, <2>2, <2>3, <2>4, <2>5, GrowthKeepsEvidence
  <2> QED BY <1>1, <2>6, BareEvidence, EvidenceOfOneProcess
<1> QED BY <1>2, <1>3 DEF CreateBranch

\* A step that stores an event of attempt n.
LEMMA EventKeepsOthers ==
    ASSUME Types, EvidenceOK, NEW n \in Numbers, NEW e, log' = [log EXCEPT ![n] = e],
           AttemptEvidence(n)', UNCHANGED <<attempts, head, branch>>
    PROVE  /\ log'[n] = e
           /\ \A m \in Numbers : AttemptEvidence(m)'
<1>1. log'[n] = e
  BY DEF Types
<1>2. ASSUME NEW m \in Numbers, m # n
      PROVE  AttemptEvidence(m)'
  <2>1. AttemptEvidence(m) /\ log'[m] = log[m]
    BY <1>2 DEF EvidenceOK, Types
  <2> QED BY <2>1 DEF AttemptEvidence, Latest
<1> QED BY <1>1, <1>2

\* The task enters VERIFYING before anything is on record.
LEMMA VerificationEntryKeepsEvidence ==
    ASSUME ControlInv, ControlInv', EvidenceInv, Alone, NEW p \in Processes, EnterVerifying(p)
    PROVE  EvidenceInv'
<1>a. /\ Types /\ PlaceOK(p) /\ DOMAIN proc = Processes /\ DOMAIN proc[p] = CommandFields
  BY DEF ControlInv, Types, Shaped
<1>1. /\ Own(p) = Latest /\ Latest \in Numbers /\ log[Latest] = NoEvents
      /\ taskStatus' = "VERIFYING" /\ UNCHANGED <<attempts, log, head, branch>>
  BY <1>a DEF EnterVerifying, PlaceOK, EvidenceInv, EvidenceOK, AgentStageStatuses, gitVars
<1>2. proc'[p].pc = "verify" /\ proc'[p].attempt = Own(p)
  BY <1>a DEF EnterVerifying, Goto, CommandFields
<1>3. EvidenceAt(p)'
  BY <1>1, <1>2 DEF EvidenceAt, NoEvents
<1>4. Uncommitted(Latest)
  BY <1>1 DEF Uncommitted, NoEvents
<1> QED BY <1>1, <1>3, <1>4, RowsKeepEvidence DEF Latest, Numbers, AgentStageStatuses

\* The verdict is known before it is recorded.
LEMMA ChecksKeepEvidence ==
    ASSUME ControlInv, EvidenceInv, Alone, NEW p \in Processes, RunVerification(p) \/ Reverify(p)
    PROVE  EvidenceInv'
<1>a. /\ Types /\ EvidenceAt(p) /\ DOMAIN proc = Processes /\ DOMAIN proc[p] = CommandFields
  BY DEF ControlInv, EvidenceInv, Types, Shaped
<1>b. /\ log[Own(p)].verification = NONE
      /\ UNCHANGED <<taskStatus, attempts, log, head, branch>>
  BY <1>a DEF RunVerification, Reverify, EvidenceAt, storeVars, gitVars
<1>1. ASSUME \E kind : Fail(p, kind) \/ GiveUp(p, kind)
      PROVE  EvidenceAt(p)'
  BY <1>1, <1>a, BareMoves, BareEvidence
<1>2. ASSUME \E v : \/ proc' = [proc EXCEPT ![p].pc = "verified", ![p].verdict = v]
                    \/ proc' = [proc EXCEPT ![p].pc = "reverified", ![p].verdict = v]
      PROVE  EvidenceAt(p)'
  <2>1. proc'[p].pc \in {"verified", "reverified"} /\ proc'[p].attempt = Own(p)
    BY <1>2, <1>a DEF CommandFields
  <2> QED BY <1>b, <2>1 DEF EvidenceAt
<1> QED BY <1>b, <1>1, <1>2, NothingRecorded DEF RunVerification, Reverify

\* A verdict is recorded while no revision has the work of the attempt.
LEMMA VerdictKeepsEvidence ==
    ASSUME ControlInv, ControlInv', EvidenceInv, Alone, NEW p \in Processes,
           RecordVerification(p) \/ RecordReverification(p)
    PROVE  EvidenceInv'
<1>a. /\ Types /\ PlaceOK(p) /\ EvidenceAt(p) /\ EvidenceOK
      /\ DOMAIN proc = Processes /\ DOMAIN proc[p] = CommandFields
  BY DEF ControlInv, EvidenceInv, Types, Shaped
<1>b. /\ Own(p) = Latest /\ Latest \in Numbers /\ taskStatus = "VERIFYING"
      /\ log[Own(p)].verification = NONE /\ Uncommitted(Own(p))
      /\ log' = [log EXCEPT ![Own(p)].verification = proc[p].verdict]
      /\ UNCHANGED <<taskStatus, attempts, head, branch>>
  BY <1>a DEF RecordVerification, RecordReverification, PlaceOK, EvidenceAt, EvidenceOK, gitVars
<1>1. PICK n \in Numbers : n = Own(p)
  BY <1>b
<1>2. /\ log' = [log EXCEPT ![n] = log'[n]] /\ log'[n].verification = proc[p].verdict
      /\ log'[n].commit = NONE /\ log'[n].integrations = 0 /\ log'[n].final.status = NONE
  BY <1>a, <1>b, <1>1 DEF Types, Events, Uncommitted
<1>3. /\ ~Contains(head, n)
      /\ \A m \in Numbers : branch[m] # NONE => ~Contains(branch[m], n)
  BY <1>a, <1>b, <1>1, TaskExecutionAssumption DEF EvidenceOK, AttemptEvidence, Verdicts
<1>4. AttemptEvidence(n)'
  BY <1>b, <1>1, <1>2, <1>3 DEF AttemptEvidence, Latest, Numbers
<1>5. \A m \in Numbers : AttemptEvidence(m)'
  BY <1>a, <1>b, <1>2, <1>4, EventKeepsOthers
<1>6. EvidenceOK' /\ DoneIsEarned' /\ RefutedIsNotDone'
  BY <1>b, <1>1, <1>2, <1>5 DEF EvidenceOK, Uncommitted, Latest, AgentStageStatuses, DoneIsEarned,
     RefutedIsNotDone
<1>7. EvidenceAt(p)'
  <2>1. ASSUME \E kind : Fail(p, kind) \/ GiveUp(p, kind)
        PROVE  EvidenceAt(p)'
    BY <2>1, <1>a, BareMoves, BareEvidence
  <2>2. ASSUME proc[p].verdict = "PASSED", Goto(p, "commit") \/ Goto(p, "recommit")
        PROVE  EvidenceAt(p)'
    <3>1. proc'[p].pc \in {"commit", "recommit"} /\ proc'[p].attempt = Own(p)
      BY <2>2, <1>a DEF Goto, CommandFields
    <3> QED BY <1>1, <1>2, <2>2, <3>1 DEF EvidenceAt
  <2> QED BY <2>1, <2>2 DEF RecordVerification, RecordReverification
<1> QED BY <1>6, <1>7, EvidenceOfOneProcess

\* Only work whose verdict is PASSED is committed.
LEMMA CommitKeepsEvidence ==
    ASSUME ControlInv, ControlInv', EvidenceInv, Alone, NEW p \in Processes,
           Commit(p) \/ Recommit(p)
    PROVE  EvidenceInv'
<1>a. /\ Types /\ Types' /\ PlaceOK(p) /\ EvidenceAt(p) /\ EvidenceOK
      /\ DOMAIN proc = Processes /\ DOMAIN proc[p] = CommandFields
  BY DEF ControlInv, EvidenceInv, Types, Shaped
<1>b. /\ Own(p) \in Numbers /\ log[Own(p)].verification = "PASSED"
      /\ UNCHANGED <<taskStatus, attempts, log, head>>
  BY <1>a DEF Commit, Recommit, PlaceOK, EvidenceAt, storeVars
<1>1. CASE (\E kind : Fail(p, kind) \/ GiveUp(p, kind)) /\ UNCHANGED branch
  <2>1. EvidenceAt(p)'
    BY <1>1, <1>a, BareMoves, BareEvidence
  <2> QED BY <1>b, <1>1, <2>1, NothingRecorded
<1>2. CASE /\ CommitStaged(Own(p))
           /\ \E pc \in {"integrating", "reintegrating"} :
                 proc' = [proc EXCEPT ![p].pc = pc, ![p].revision = branch'[Own(p)]]
  <2>1. branch[Own(p)] # NONE /\ branch[Own(p)] \in Revisions
    BY <1>2, <1>a, <1>b DEF CommitStaged, Types
  <2>2. /\ branch' = [branch EXCEPT ![Own(p)] = branch'[Own(p)]]
        /\ branch'[Own(p)] = Append(branch[Own(p)], Own(p))
    BY <1>2, <1>a, <1>b DEF CommitStaged, Types
  <2>3. /\ branch'[Own(p)] \in Revisions /\ branch'[Own(p)] # NONE
        /\ IsPrefix(branch[Own(p)], branch'[Own(p)])
        /\ \A n : Contains(branch'[Own(p)], n) => Contains(branch[Own(p)], n) \/ n = Own(p)
    <3>1. branch[Own(p)] \in Seq(Numbers \cup {USER, AGENT})
      BY <2>1 DEF Revisions
    <3>2. /\ branch'[Own(p)] \in Seq(Numbers \cup {USER, AGENT})
          /\ IsPrefix(branch[Own(p)], branch'[Own(p)])
          /\ \A n : Contains(branch'[Own(p)], n) => Contains(branch[Own(p)], n) \/ n = Own(p)
      BY <1>b, <2>2, <3>1, CommitExtends
    <3> QED BY <3>2, TaskExecutionAssumption DEF Revisions
  <2>4. IsPrefix(head, head')
    BY <1>a, <1>b, AncestryIsReflexive DEF Types
  <2>5. \A m \in Numbers :
           branch[m] # NONE => branch'[m] # NONE /\ IsPrefix(branch[m], branch'[m])
    BY <1>a, <2>2, <2>3, AncestryIsReflexive DEF Types
  <2>6. \A m, n \in Numbers :
           branch'[m] # NONE /\ Contains(branch'[m], n) => log[n].verification = "PASSED"
    BY <1>a, <1>b, <2>1, <2>2, <2>3 DEF Types, EvidenceOK, AttemptEvidence
  <2>7. EvidenceOK' /\ DoneIsEarned' /\ RefutedIsNotDone'
    BY <1>a, <1>b, <2>4, <2>5, <2>6, GrowthKeepsEvidence DEF EvidenceOK, AttemptEvidence
  <2>8. /\ proc'[p].pc \in {"integrating", "reintegrating"} /\ proc'[p].attempt = Own(p)
        /\ proc'[p].revision = branch'[Own(p)]
    BY <1>2, <1>a DEF CommandFields
  <2>9. EvidenceAt(p)'
    BY <1>b, <2>3, <2>8, AncestryIsReflexive DEF EvidenceAt
  <2> QED BY <2>7, <2>9, EvidenceOfOneProcess
<1> QED BY <1>1, <1>2 DEF Commit, Recommit

\* The commit that is recorded is on the branch of the attempt.
LEMMA IntegrationEntryKeepsEvidence ==
    ASSUME ControlInv, ControlInv', EvidenceInv, Alone, NEW p \in Processes,
           EnterIntegrating(p) \/ ReenterIntegrating(p)
    PROVE  EvidenceInv'
<1>a. /\ Types /\ PlaceOK(p) /\ EvidenceAt(p) /\ EvidenceOK
      /\ DOMAIN proc = Processes /\ DOMAIN proc[p] = CommandFields
  BY DEF ControlInv, EvidenceInv, Types, Shaped
<1>b. /\ Own(p) = Latest /\ Latest \in Numbers /\ branch[Own(p)] # NONE
      /\ log[Own(p)].verification = "PASSED" /\ Uncommitted(Own(p))
      /\ proc[p].revision # NONE /\ IsPrefix(proc[p].revision, branch[Own(p)])
      /\ log' = [log EXCEPT ![Own(p)].commit = proc[p].revision]
      /\ taskStatus' = "INTEGRATING" /\ UNCHANGED <<attempts, head, branch>>
  BY <1>a DEF EnterIntegrating, ReenterIntegrating, BeginIntegrating, PlaceOK, EvidenceAt,
     EvidenceOK, gitVars
<1>1. PICK n \in Numbers : n = Own(p)
  BY <1>b
<1>2. /\ log' = [log EXCEPT ![n] = log'[n]] /\ log'[n].verification = "PASSED"
      /\ log'[n].commit = proc[p].revision /\ log'[n].integrations = 0
      /\ log'[n].final.status = NONE
  BY <1>a, <1>b, <1>1 DEF Types, Events, Uncommitted
<1>3. AttemptEvidence(n)'
  BY <1>b, <1>1, <1>2 DEF AttemptEvidence, Latest, Numbers
<1>4. \A m \in Numbers : AttemptEvidence(m)'
  BY <1>a, <1>b, <1>2, <1>3, EventKeepsOthers
<1>5. EvidenceOK' /\ DoneIsEarned' /\ RefutedIsNotDone'
  BY <1>b, <1>4 DEF EvidenceOK, AgentStageStatuses, DoneIsEarned, RefutedIsNotDone
<1>6. /\ proc'[p].pc \in {"integrate", "head"} /\ proc'[p].attempt = Own(p)
  BY <1>a DEF EnterIntegrating, ReenterIntegrating, Goto, CommandFields
<1>7. EvidenceAt(p)'
  BY <1>b, <1>1, <1>2, <1>6 DEF EvidenceAt
<1> QED BY <1>5, <1>7, EvidenceOfOneProcess

\* A merge takes to the integration branch what the attempt's branch has.
LEMMA MergeGrowsHead ==
    ASSUME Types, Types', EvidenceInv, NEW n \in Numbers, branch[n] # NONE, IntegrateBranch(n),
           UNCHANGED <<taskStatus, attempts, log, branch>>
    PROVE  /\ IsPrefix(head, head') /\ IsPrefix(branch[n], head')
           /\ EvidenceOK' /\ DoneIsEarned' /\ RefutedIsNotDone'
<1>1. branch[n] \in Revisions /\ head \in Revisions
  BY DEF Types
<1>2. IsPrefix(head, head') /\ IsPrefix(branch[n], head')
  BY <1>1, AncestryIsReflexive DEF IntegrateBranch, IsStrictPrefix
<1>3. \A m \in Numbers :
         branch[m] # NONE => branch'[m] # NONE /\ IsPrefix(branch[m], branch'[m])
  BY AncestryIsReflexive DEF Types
<1>4. \A m \in Numbers : Contains(head', m) => log[m].verification = "PASSED"
  BY DEF IntegrateBranch, EvidenceInv, EvidenceOK, AttemptEvidence
<1>5. \A m, k \in Numbers :
         branch'[m] # NONE /\ Contains(branch'[m], k) => log[k].verification = "PASSED"
  BY DEF EvidenceInv, EvidenceOK, AttemptEvidence
<1> QED BY <1>2, <1>3, <1>4, <1>5, GrowthKeepsEvidence

\* After the merge the recorded commit is an ancestor of HEAD.
LEMMA MergeKeepsEvidence ==
    ASSUME ControlInv, ControlInv', EvidenceInv, Alone, NEW p \in Processes,
           Integrate(p) \/ Reintegrate(p)
    PROVE  EvidenceInv'
<1>a. /\ Types /\ Types' /\ PlaceOK(p) /\ EvidenceAt(p) /\ EvidenceOK
      /\ DOMAIN proc = Processes /\ DOMAIN proc[p] = CommandFields
  BY DEF ControlInv, EvidenceInv, Types, Shaped
<1>b. /\ proc[p].pc \in {"integrate", "reintegrate"} /\ Own(p) \in Numbers
      /\ branch[Own(p)] # NONE /\ log[Own(p)].commit # NONE /\ log[Own(p)].final.status = NONE
      /\ proc[p].pc = "integrate" => log[Own(p)].integrations = 0
      /\ UNCHANGED <<taskStatus, attempts, log, branch>>
  BY <1>a DEF Integrate, Reintegrate, PlaceOK, EvidenceAt, storeVars
<1>1. CASE (\E kind : Fail(p, kind) \/ GiveUp(p, kind)) /\ UNCHANGED head
  <2>1. EvidenceAt(p)'
    BY <1>1, <1>a, BareMoves, BareEvidence
  <2> QED BY <1>b, <1>1, <2>1, NothingRecorded
<1>2. CASE /\ IntegrateBranch(Own(p))
           /\ \/ /\ proc[p].pc = "integrate"
                 /\ proc' = [proc EXCEPT ![p].pc = "integrated", ![p].revision = head']
              \/ proc' = [proc EXCEPT ![p].pc = "conclude", ![p].merged = TRUE]
  <2>1. /\ IsPrefix(branch[Own(p)], head')
        /\ EvidenceOK' /\ DoneIsEarned' /\ RefutedIsNotDone'
    BY <1>2, <1>a, <1>b, MergeGrowsHead
  <2>2. /\ log[Own(p)].commit \in Revisions /\ branch[Own(p)] \in Revisions
        /\ head' \in Revisions /\ IsPrefix(log[Own(p)].commit, branch[Own(p)])
    BY <1>a, <1>b DEF Types, Events, EvidenceOK, AttemptEvidence
  <2>3. IsPrefix(log[Own(p)].commit, head')
    BY <2>1, <2>2, AncestryIsTransitive
  <2>4. /\ proc'[p].pc \in {"integrated", "conclude"} /\ proc'[p].attempt = Own(p)
        /\ proc'[p].pc = "integrated" => log[Own(p)].integrations = 0
    BY <1>2, <1>a, <1>b DEF Goto, CommandFields
  <2>5. EvidenceAt(p)'
    BY <1>b, <2>3, <2>4 DEF EvidenceAt, RecordedFinalVerdict
  <2> QED BY <2>1, <2>5, EvidenceOfOneProcess
<1> QED BY <1>1, <1>2 DEF Integrate, Reintegrate

\* The integration event is stored once, by either executor.
LEMMA IntegrationRecordKeepsEvidence ==
    ASSUME ControlInv, ControlInv', EvidenceInv, Alone, NEW p \in Processes,
           At(p, "integrated"), log' = [log EXCEPT ![Own(p)].integrations = @ + 1],
           Goto(p, "finalVerify") \/ Goto(p, "done"), UNCHANGED <<taskStatus, attempts, gitVars>>
    PROVE  EvidenceInv'
<1>a. /\ Types /\ PlaceOK(p) /\ EvidenceAt(p) /\ EvidenceOK
      /\ DOMAIN proc = Processes /\ DOMAIN proc[p] = CommandFields
  BY DEF ControlInv, EvidenceInv, Types, Shaped
<1>b. /\ Own(p) = Latest /\ Latest \in Numbers /\ taskStatus = "INTEGRATING"
      /\ log[Own(p)].integrations = 0 /\ log[Own(p)].commit # NONE
      /\ log[Own(p)].final.status = NONE /\ IsPrefix(log[Own(p)].commit, head)
      /\ UNCHANGED <<head, branch>>
  BY <1>a DEF PlaceOK, EvidenceAt, gitVars
<1>1. PICK n \in Numbers : n = Own(p)
  BY <1>b
<1>2. /\ log' = [log EXCEPT ![n] = log'[n]] /\ log'[n].integrations = 1
      /\ log'[n].commit = log[n].commit /\ log'[n].final = log[n].final
      /\ log'[n].verification = log[n].verification
  BY <1>a, <1>b, <1>1 DEF Types, Events
<1>3. AttemptEvidence(n)'
  BY <1>a, <1>b, <1>1, <1>2 DEF EvidenceOK, AttemptEvidence, Latest, Numbers
<1>4. \A m \in Numbers : AttemptEvidence(m)'
  BY <1>a, <1>2, <1>3, <1>b, EventKeepsOthers
<1>5. EvidenceOK' /\ DoneIsEarned' /\ RefutedIsNotDone'
  BY <1>b, <1>4 DEF EvidenceOK, AgentStageStatuses, DoneIsEarned, RefutedIsNotDone
<1>6. /\ proc'[p].pc \in {"finalVerify", "done"} /\ proc'[p].attempt = n
  BY <1>a, <1>1 DEF Goto, CommandFields
<1>7. EvidenceAt(p)'
  BY <1>b, <1>1, <1>2, <1>6 DEF EvidenceAt
<1> QED BY <1>5, <1>7, EvidenceOfOneProcess

\* The checks on the integrated revision change nothing.
LEMMA FinalChecksKeepEvidence ==
    ASSUME ControlInv, EvidenceInv, Alone, NEW p \in Processes, RunFinalVerification(p)
    PROVE  EvidenceInv'
<1>a. /\ Types /\ EvidenceAt(p) /\ DOMAIN proc = Processes /\ DOMAIN proc[p] = CommandFields
  BY DEF ControlInv, EvidenceInv, Types, Shaped
<1>b. UNCHANGED <<taskStatus, attempts, log, head, branch>>
  BY DEF RunFinalVerification, storeVars, gitVars
<1>1. ASSUME \E kind : Fail(p, kind)
      PROVE  EvidenceAt(p)'
  BY <1>1, <1>a, BareMoves, BareEvidence
<1>2. ASSUME \E v : proc' = [proc EXCEPT ![p].pc = "finalVerified", ![p].verdict = v]
      PROVE  EvidenceAt(p)'
  <2>1. proc'[p].pc = "finalVerified" /\ proc'[p].attempt = Own(p)
    BY <1>2, <1>a DEF CommandFields
  <2> QED BY <1>a, <1>b, <2>1 DEF EvidenceAt, RunFinalVerification
<1> QED BY <1>b, <1>1, <1>2, NothingRecorded DEF RunFinalVerification

\* The final verdict is recorded of an integrated commit.
LEMMA FinalVerdictKeepsEvidence ==
    ASSUME ControlInv, ControlInv', EvidenceInv, Alone, NEW p \in Processes,
           RecordFinalVerification(p)
    PROVE  EvidenceInv'
<1>a. /\ Types /\ PlaceOK(p) /\ EvidenceAt(p) /\ EvidenceOK
      /\ DOMAIN proc = Processes /\ DOMAIN proc[p] = CommandFields
  BY DEF ControlInv, EvidenceInv, Types, Shaped
<1>b. /\ Own(p) = Latest /\ Latest \in Numbers /\ taskStatus = "INTEGRATING"
      /\ log[Own(p)].integrations = 1 /\ log[Own(p)].commit # NONE
      /\ IsPrefix(log[Own(p)].commit, head)
      /\ UNCHANGED <<taskStatus, attempts, head, branch>>
  BY <1>a DEF RecordFinalVerification, PlaceOK, EvidenceAt, gitVars
<1>1. PICK n \in Numbers : n = Own(p)
  BY <1>b
<1>2. /\ log' = [log EXCEPT ![n] = log'[n]] /\ log'[n].integrations = 1
      /\ log'[n].commit = log[n].commit /\ log'[n].final.status = proc[p].verdict
      /\ log'[n].verification = log[n].verification
  BY <1>a, <1>b, <1>1 DEF RecordFinalVerification, Types, Events
<1>3. AttemptEvidence(n)'
  BY <1>a, <1>b, <1>1, <1>2 DEF EvidenceOK, AttemptEvidence, Latest, Numbers
<1>4. \A m \in Numbers : AttemptEvidence(m)'
  BY <1>a, <1>2, <1>3, <1>b, EventKeepsOthers
<1>5. EvidenceOK' /\ DoneIsEarned' /\ RefutedIsNotDone'
  BY <1>b, <1>4 DEF EvidenceOK, AgentStageStatuses, DoneIsEarned, RefutedIsNotDone
<1>6. EvidenceAt(p)'
  <2>1. ASSUME \E kind : Fail(p, kind)
        PROVE  EvidenceAt(p)'
    BY <2>1, <1>a, BareMoves, BareEvidence
  <2>2. ASSUME proc[p].verdict = "PASSED", Goto(p, "done")
        PROVE  EvidenceAt(p)'
    <3>1. proc'[p].pc = "done" /\ proc'[p].attempt = n
      BY <2>2, <1>a, <1>1 DEF Goto, CommandFields
    <3> QED BY <1>b, <1>1, <1>2, <2>2, <3>1 DEF EvidenceAt
  <2> QED BY <2>1, <2>2 DEF RecordFinalVerification
<1> QED BY <1>5, <1>6, EvidenceOfOneProcess

\* The task becomes DONE with its last attempt.
LEMMA CompletionKeepsEvidence ==
    ASSUME ControlInv, ControlInv', EvidenceInv, Alone, NEW p \in Processes,
           Finish(p) \/ FinishIntegrated(p)
    PROVE  EvidenceInv'
<1>a. /\ Types /\ PlaceOK(p) /\ EvidenceAt(p) /\ EvidenceOK
      /\ DOMAIN proc = Processes /\ DOMAIN proc[p] = CommandFields
  BY DEF ControlInv, EvidenceInv, Types, Shaped
<1>b. /\ Own(p) = Latest /\ Latest \in Numbers /\ Own(p) \in 1..Latest
      /\ log[Own(p)].commit # NONE /\ IsPrefix(log[Own(p)].commit, head)
      /\ log[Own(p)].integrations \in {0, 1}
      /\ taskStatus' = "DONE" /\ WithStatus(Own(p), "SUCCEEDED") /\ UNCHANGED <<head, branch>>
  BY <1>a DEF Finish, FinishIntegrated, PlaceOK, EvidenceAt, EvidenceOK, AttemptEvidence,
     gitVars, Numbers
<1>c. Finish(p) => log[Own(p)].integrations = 1 /\ log[Own(p)].final.status \in {NONE, "PASSED"}
  BY <1>a DEF Finish, EvidenceAt
<1>d. FinishIntegrated(p) => RecordedFinalVerdict(Own(p)) \in {NONE, "PASSED"}
  BY <1>a DEF FinishIntegrated, EvidenceAt
<1>1. PICK n \in Numbers : n = Own(p) /\ n = Latest
  BY <1>b
<1>2. Latest' = Latest /\ attempts'[n].status = "SUCCEEDED"
  BY <1>a, <1>b, <1>1, StatusWrites DEF Latest
<1>3. /\ log' = [log EXCEPT ![n] = log'[n]] /\ log'[n].integrations = 1
      /\ log'[n].commit = log[n].commit /\ log'[n].final = log[n].final
      /\ log'[n].verification = log[n].verification
  <2>1. CASE Finish(p)
    BY <2>1, <1>a, <1>c, <1>1 DEF Finish, Types, Events
  <2>2. CASE FinishIntegrated(p)
    BY <2>2, <1>a, <1>b, <1>1 DEF FinishIntegrated, Types, Events
  <2> QED BY <2>1, <2>2
<1>4. \A m \in Numbers : AttemptEvidence(m)'
  <2> SUFFICES ASSUME NEW m \in Numbers
               PROVE  AttemptEvidence(m)'
    OBVIOUS
  <2>1. AttemptEvidence(m)
    BY <1>a DEF EvidenceOK
  <2>2. CASE m = n
    BY <2>1, <2>2, <1>b, <1>1, <1>2, <1>3 DEF AttemptEvidence, Numbers
  <2>3. CASE m # n
    <3>1. log'[m] = log[m]
      BY <2>3, <1>3, <1>a DEF Types
    <3> QED BY <2>1, <3>1, <1>b, <1>2 DEF AttemptEvidence
  <2> QED BY <2>2, <2>3
<1>5. EvidenceOK'
  BY <1>b, <1>1, <1>2, <1>3, <1>4 DEF EvidenceOK, AgentStageStatuses
<1>6. log[n].verification = "PASSED"
  BY <1>a, <1>b, <1>1 DEF EvidenceOK, AttemptEvidence
<1>7. DoneIsEarned'
  BY <1>b, <1>1, <1>2, <1>3, <1>6 DEF DoneIsEarned
<1>8. RefutedIsNotDone'
  BY <1>b, <1>c, <1>d, <1>1, <1>2, <1>3 DEF RefutedIsNotDone, RecordedFinalVerdict
<1>9. EvidenceAt(p)'
  BY <1>a, BareMoves, BareEvidence DEF Finish, FinishIntegrated, Bare
<1> QED BY <1>5, <1>7, <1>8, <1>9, EvidenceOfOneProcess

\* The task fails, is reset, escalated or retried.
LEMMA OtherOutcomesKeepEvidence ==
    ASSUME ControlInv, ControlInv', EvidenceInv, Alone, NEW p \in Processes,
           \/ FailExecution(p) \/ FinishFailed(p) \/ ResetForRetry(p)
           \/ RequiresReconciliation(p) \/ RequiresHuman(p)
    PROVE  EvidenceInv'
<1>a. Types /\ PlaceOK(p)
  BY DEF ControlInv
<1>1. Own(p) \in 1..Latest /\ UNCHANGED <<log, head, branch>> /\ Latest \in Nat
  BY <1>a DEF FailExecution, FinishFailed, ResetForRetry, RequiresReconciliation,
     RequiresHuman, PlaceOK, gitVars, Numbers
<1>2. Latest' = Latest
  BY <1>a, <1>1, StatusWrites, FailureStatuses DEF FailExecution, FinishFailed, ResetForRetry,
     RequiresReconciliation, RequiresHuman, Latest
<1>3. taskStatus' \in Escalations \cup {"READY", "NEEDS_HUMAN"}
  BY FailureStatuses DEF FailExecution, FinishFailed, ResetForRetry, RequiresReconciliation,
     RequiresHuman, Escalations
<1>4. /\ taskStatus' # "DONE" /\ taskStatus' # "VERIFYING" /\ taskStatus' \notin AgentStageStatuses
  BY <1>3 DEF Escalations, AgentStageStatuses
<1>5. EvidenceAt(p)'
  <2>1. FinishFailed(p) => proc'[p].pc = "cleanup"
    BY <1>a DEF FinishFailed, Types, Shaped, CommandFields
  <2> QED BY <2>1, <1>a, BareMoves, BareEvidence DEF FailExecution, ResetForRetry,
          RequiresReconciliation, RequiresHuman, Bare
<1> QED BY <1>1, <1>2, <1>4, <1>5, RowsKeepEvidence

-----------------------------------------------------------------------------
(* Recovery *)

\* Recovery goes on from the verdict that is on record.
LEMMA ClassificationKeepsEvidence ==
    ASSUME ControlInv, EvidenceInv, Alone, NEW p \in Processes, Classify(p)
    PROVE  EvidenceInv'
<1>a. /\ Types /\ PlaceOK(p) /\ DOMAIN proc = Processes /\ DOMAIN proc[p] = CommandFields
  BY DEF ControlInv, Types, Shaped
<1>b. UNCHANGED <<taskStatus, attempts, log, head, branch>>
  BY DEF Classify, storeVars, gitVars
<1>1. proc'[p].pc = Classified(Own(p), proc[p].status) /\ proc'[p].attempt = Own(p)
  BY <1>a DEF Classify, CommandFields
<1>2. \/ proc'[p].pc \in {"preserve", "reset", "giveUp"}
      \/ proc'[p].pc = "reverify" /\ log[Own(p)].verification = NONE
      \/ proc'[p].pc = "recommit" /\ log[Own(p)].verification = "PASSED"
  BY <1>1 DEF Classified
<1>3. EvidenceAt(p)'
  BY <1>b, <1>1, <1>2 DEF EvidenceAt
<1> QED BY <1>b, <1>3, NothingRecorded

\* HEAD has everything that a final verdict was recorded of.
LEMMA ResolutionKeepsEvidence ==
    ASSUME ControlInv, EvidenceInv, Alone, NEW p \in Processes, ResolveHead(p)
    PROVE  EvidenceInv'
<1>a. /\ Types /\ PlaceOK(p) /\ EvidenceOK
      /\ DOMAIN proc = Processes /\ DOMAIN proc[p] = CommandFields
  BY DEF ControlInv, EvidenceInv, Types, Shaped
<1>b. /\ Own(p) \in Numbers /\ UNCHANGED <<taskStatus, attempts, log, head, branch>>
  BY <1>a DEF ResolveHead, PlaceOK, storeVars, gitVars
<1>1. proc'[p].pc = "ancestry" /\ proc'[p].attempt = Own(p) /\ proc'[p].revision = head
  BY <1>a DEF ResolveHead, CommandFields
<1>2. IsPrefix(head, head)
  BY <1>a, AncestryIsReflexive DEF Types
<1>3. log[Own(p)].final.status # NONE => IsPrefix(log[Own(p)].commit, head)
  BY <1>a, <1>b DEF EvidenceOK, AttemptEvidence
<1>4. EvidenceAt(p)'
  BY <1>b, <1>1, <1>2, <1>3 DEF EvidenceAt
<1> QED BY <1>b, <1>4, NothingRecorded

\* The commit is compared with the HEAD that was read; HEAD only grows.
LEMMA ComparisonKeepsEvidence ==
    ASSUME ControlInv, EvidenceInv, Alone, NEW p \in Processes, CompareAncestry(p)
    PROVE  EvidenceInv'
<1>a. /\ Types /\ PlaceOK(p) /\ EvidenceAt(p)
      /\ DOMAIN proc = Processes /\ DOMAIN proc[p] = CommandFields
  BY DEF ControlInv, EvidenceInv, Types, Shaped
<1>b. /\ Own(p) \in Numbers /\ log[Own(p)].commit # NONE /\ proc[p].revision \in Revisions
      /\ IsPrefix(proc[p].revision, head)
      /\ log[Own(p)].final.status # NONE => IsPrefix(log[Own(p)].commit, proc[p].revision)
      /\ UNCHANGED <<taskStatus, attempts, log, head, branch>>
  BY <1>a DEF CompareAncestry, PlaceOK, EvidenceAt, storeVars, gitVars
<1>c. log[Own(p)].commit \in Revisions
  BY <1>a, <1>b DEF Types, Events
<1>1. ASSUME ReturnRunnable(p) \/ (\E kind : GiveUp(p, kind)) \/ Goto(p, "human")
      PROVE  EvidenceAt(p)'
  BY <1>1, <1>a, BareMoves, BareEvidence DEF Bare
<1>2. ASSUME IsPrefix(log[Own(p)].commit, proc[p].revision), Goto(p, "conclude"),
             RecordedFinalVerdict(Own(p)) \in {NONE, "PASSED"}
      PROVE  EvidenceAt(p)'
  <2>1. proc'[p].pc = "conclude" /\ proc'[p].attempt = Own(p)
    BY <1>2, <1>a DEF Goto, CommandFields
  <2>2. IsPrefix(log[Own(p)].commit, head)
    BY <1>2, <1>a, <1>b, <1>c, AncestryIsTransitive DEF Types
  <2> QED BY <1>2, <1>b, <2>1, <2>2 DEF EvidenceAt, RecordedFinalVerdict
<1>3. ASSUME ~IsPrefix(log[Own(p)].commit, proc[p].revision), Goto(p, "reintegrate")
      PROVE  EvidenceAt(p)'
  <2>1. proc'[p].pc = "reintegrate" /\ proc'[p].attempt = Own(p)
    BY <1>3, <1>a DEF Goto, CommandFields
  <2> QED BY <1>3, <1>b, <2>1 DEF EvidenceAt
<1>4. EvidenceAt(p)'
  BY <1>1, <1>2, <1>3 DEF CompareAncestry
<1> QED BY <1>b, <1>4, NothingRecorded

\* retry does not look at events and does not lead to DONE.
LEMMA RetryKeepsEvidence ==
    ASSUME ControlInv, ControlInv', EvidenceInv, Alone, NEW p \in Processes, Retry(p)
    PROVE  EvidenceInv'
<1>a. Types /\ DOMAIN proc = Processes
  BY DEF ControlInv, Types, Shaped
<1>b. Latest \in Nat /\ UNCHANGED <<attempts, log, head, branch>>
  BY <1>a DEF Retry, Latest, Types, gitVars
<1>1. proc'[p].pc \in Bare
  BY <1>a DEF Retry, Idle, Bare
<1>2. CASE taskStatus' = taskStatus
  BY <1>b, <1>1, <1>2, BareEvidence, NothingRecorded
<1>3. CASE taskStatus' = "READY"
  BY <1>b, <1>1, <1>3, BareEvidence, RowsKeepEvidence DEF Latest, AgentStageStatuses
<1> QED BY <1>2, <1>3 DEF Retry

-----------------------------------------------------------------------------
(* The surroundings *)

\* Others make commits: histories grow, but not by work of an attempt.
LEMMA SurroundingsKeepEvidence ==
    ASSUME ControlInv, ControlInv', EvidenceInv,
           UserCommits \/ \E n \in Numbers : AgentWrites(n) \/ AgentCommits(n) \/ OrphanExits(n)
    PROVE  EvidenceInv'
<1>a. Types /\ Types' /\ EvidenceOK
  BY DEF ControlInv, EvidenceInv
<1>b. UNCHANGED <<taskStatus, attempts, log, proc>>
  BY DEF UserCommits, AgentWrites, AgentCommits, OrphanExits, storeVars
<1>1. /\ IsPrefix(head, head')
      /\ \A n \in Numbers : Contains(head', n) => Contains(head, n)
  <2>1. CASE UserCommits
    <3>1. /\ head \in Seq(Numbers \cup {USER, AGENT}) /\ USER \in Numbers \cup {USER, AGENT}
          /\ head' = Append(head, USER)
      BY <2>1, <1>a DEF UserCommits, Types, Revisions
    <3> QED BY <3>1, CommitExtends, TaskExecutionAssumption
  <2>2. CASE UNCHANGED head
    BY <2>2, <1>a, AncestryIsReflexive DEF Types
  <2> QED BY <2>1, <2>2 DEF AgentWrites, AgentCommits, OrphanExits, gitVars
<1>2. \A m \in Numbers : branch[m] # NONE =>
         /\ branch'[m] # NONE /\ IsPrefix(branch[m], branch'[m])
         /\ \A n \in Numbers : Contains(branch'[m], n) => Contains(branch[m], n)
  <2>1. ASSUME NEW k \in Numbers, AgentCommits(k), NEW m \in Numbers, branch[m] # NONE
        PROVE  /\ branch'[m] # NONE /\ IsPrefix(branch[m], branch'[m])
               /\ \A n \in Numbers : Contains(branch'[m], n) => Contains(branch[m], n)
    <3>1. CASE m = k
      <4>1. /\ branch[m] \in Seq(Numbers \cup {USER, AGENT}) /\ AGENT \in Numbers \cup {USER, AGENT}
            /\ branch'[m] = Append(branch[m], AGENT)
        BY <2>1, <3>1, <1>a DEF AgentCommits, Types, Revisions
      <4>2. branch'[m] \in Revisions
        BY <4>1, CommitExtends DEF Revisions
      <4>3. IsPrefix(branch[m], branch'[m])
        BY <4>1, CommitExtends
      <4>4. \A n : Contains(branch'[m], n) => Contains(branch[m], n) \/ n = AGENT
        BY <4>1, CommitExtends
      <4> QED BY <4>2, <4>3, <4>4, TaskExecutionAssumption
    <3>2. CASE m # k
      <4>1. branch'[m] = branch[m] /\ branch[m] \in Revisions
        BY <2>1, <3>2, <1>a DEF AgentCommits, Types
      <4> QED BY <2>1, <4>1, AncestryIsReflexive
    <3> QED BY <3>1, <3>2
  <2>2. CASE UNCHANGED branch
    BY <2>2, <1>a, AncestryIsReflexive DEF Types
  <2> QED BY <2>1, <2>2 DEF UserCommits, AgentWrites, OrphanExits, gitVars
<1>3. \A m \in Numbers : branch[m] = NONE => branch'[m] = NONE
  BY <1>a DEF UserCommits, AgentWrites, AgentCommits, OrphanExits, Types, gitVars
<1>4. \A m, n \in Numbers :
         branch'[m] # NONE /\ Contains(branch'[m], n) => log[n].verification = "PASSED"
  BY <1>a, <1>2, <1>3 DEF EvidenceOK, AttemptEvidence
<1>5. EvidenceOK' /\ DoneIsEarned' /\ RefutedIsNotDone'
  BY <1>a, <1>b, <1>1, <1>2, <1>4, GrowthKeepsEvidence DEF EvidenceOK, AttemptEvidence
<1>6. ASSUME NEW p \in Processes
      PROVE  EvidenceAt(p)'
  <2>1. EvidenceAt(p) /\ PlaceOK(p)
    BY DEF ControlInv, EvidenceInv
  <2>2. In(p, {"integrating", "reintegrating"}) => IsPrefix(proc[p].revision, branch'[Own(p)])
    <3> SUFFICES ASSUME In(p, {"integrating", "reintegrating"})
                 PROVE  IsPrefix(proc[p].revision, branch'[Own(p)])
      OBVIOUS
    <3>1. /\ Own(p) \in Numbers /\ branch[Own(p)] # NONE /\ proc[p].revision \in Revisions
          /\ IsPrefix(proc[p].revision, branch[Own(p)])
      BY <2>1 DEF PlaceOK, EvidenceAt
    <3>2. /\ branch[Own(p)] \in Revisions /\ branch'[Own(p)] \in Revisions
          /\ IsPrefix(branch[Own(p)], branch'[Own(p)])
      BY <3>1, <1>a, <1>2 DEF Types
    <3> QED BY <3>1, <3>2, AncestryIsTransitive
  <2>3. In(p, {"integrated", "finalVerify", "finalVerified", "done", "conclude"}) =>
           IsPrefix(log[Own(p)].commit, head')
    <3> SUFFICES ASSUME In(p, {"integrated", "finalVerify", "finalVerified", "done", "conclude"})
                 PROVE  IsPrefix(log[Own(p)].commit, head')
      OBVIOUS
    <3>1. Own(p) \in Numbers /\ log[Own(p)].commit # NONE /\ IsPrefix(log[Own(p)].commit, head)
      BY <2>1 DEF PlaceOK, EvidenceAt
    <3>2. log[Own(p)].commit \in Revisions /\ head \in Revisions /\ head' \in Revisions
      BY <3>1, <1>a DEF Types, Events
    <3> QED BY <3>1, <3>2, <1>1, AncestryIsTransitive
  <2>4. At(p, "ancestry") => IsPrefix(proc[p].revision, head')
    BY <2>1, <1>a, <1>1, AncestryIsTransitive DEF PlaceOK, EvidenceAt, Types
  <2> QED BY <2>1, <2>2, <2>3, <2>4, <1>b DEF EvidenceAt, RecordedFinalVerdict
<1> QED BY <1>5, <1>6 DEF EvidenceInv

-----------------------------------------------------------------------------
(* The invariant is inductive *)

\* Nothing is recorded at first.
LEMMA EvidenceInvInit == Init => EvidenceInv
<1> SUFFICES ASSUME Init
             PROVE  EvidenceInv
  OBVIOUS
<1>1. taskStatus = "READY" /\ head = <<>> /\ Latest = 0
  BY DEF Init, ExecutionInit, Latest
<1>2. \A n \in Numbers : log[n] = NoEvents /\ branch[n] = NONE
  BY DEF Init, ExecutionInit
<1>3. \A n \in Numbers : AttemptEvidence(n)
  BY <1>1, <1>2 DEF AttemptEvidence, NoEvents, Contains
<1>4. EvidenceOK
  BY <1>1, <1>3 DEF EvidenceOK, AgentStageStatuses
<1>5. \A p \in Processes : EvidenceAt(p)
  BY DEF Init, ExecutionInit, EvidenceAt, Idle
<1> QED BY <1>1, <1>4, <1>5 DEF EvidenceInv, DoneIsEarned, RefutedIsNotDone

\* Every step keeps the invariant, one lemma for each group of actions.
LEMMA EvidenceInvStep ==
    ASSUME ControlInv, MergedInv, EvidenceInv, Alone, [Next]_vars
    PROVE  EvidenceInv'
<1>a. ControlInv'
  BY ControlInvStep
<1>1. ASSUME NEW p \in Processes, RecoveryStep(p)
      PROVE  EvidenceInv'
  BY <1>1, <1>a, BareStepsKeepEvidence, ClassificationKeepsEvidence, ChecksKeepEvidence,
     VerdictKeepsEvidence, CommitKeepsEvidence, IntegrationEntryKeepsEvidence,
     ResolutionKeepsEvidence, ComparisonKeepsEvidence, MergeKeepsEvidence,
     CompletionKeepsEvidence, OtherOutcomesKeepEvidence, RetryKeepsEvidence
  DEF RecoveryStep
<1>2. ASSUME NEW p \in Processes, RecordIntegration(p)
      PROVE  EvidenceInv'
  BY <1>2, <1>a, IntegrationRecordKeepsEvidence DEF RecordIntegration
<1>3. ASSUME NEW p \in Processes, ExecutorStep(p)
      PROVE  EvidenceInv'
  BY <1>2, <1>3, <1>a, BareStepsKeepEvidence, CreationKeepsEvidence, StagesKeepEvidence,
     AgentReturnKeepsEvidence, BranchCreationKeepsEvidence, VerificationEntryKeepsEvidence,
     ChecksKeepEvidence, VerdictKeepsEvidence, CommitKeepsEvidence,
     IntegrationEntryKeepsEvidence, MergeKeepsEvidence, FinalChecksKeepEvidence,
     FinalVerdictKeepsEvidence, CompletionKeepsEvidence, OtherOutcomesKeepEvidence
  DEF ExecutorStep
<1>4. ASSUME NEW p \in Processes, SingleTaskStep(p)
      PROVE  EvidenceInv'
  <2>1. ASSUME At(p, "integrated"), log' = [log EXCEPT ![Own(p)].integrations = @ + 1],
               Goto(p, "done"), UNCHANGED <<taskStatus, attempts, gitVars, agents>>
        PROVE  EvidenceInv'
    BY <2>1, <1>a, IntegrationRecordKeepsEvidence
  <2>2. ASSUME IntegrateSingle(p)
        PROVE  EvidenceInv'
    BY <2>1, <2>2, <1>a, IntegrationEntryKeepsEvidence, MergeKeepsEvidence DEF IntegrateSingle
  <2> QED BY <2>2, <1>4, <1>a, BareStepsKeepEvidence, CreationKeepsEvidence, StagesKeepEvidence,
             BranchCreationKeepsEvidence, VerificationEntryKeepsEvidence, ChecksKeepEvidence,
             VerdictKeepsEvidence, CommitKeepsEvidence, CompletionKeepsEvidence,
             OtherOutcomesKeepEvidence
          DEF SingleTaskStep, EnterImplementing, PrepareWorktree, VerifyAndCommit,
              CompleteSingle, FailSingle, CleanUpSingle
<1>5. CASE UNCHANGED vars
  <2>1. UNCHANGED <<taskStatus, attempts, log, head, branch, proc>>
    BY <1>5 DEF vars, executionVars
  <2> QED BY <2>1 DEF EvidenceInv, EvidenceOK, AttemptEvidence, Uncommitted, Latest, EvidenceAt,
             DoneIsEarned, RefutedIsNotDone, RecordedFinalVerdict
<1> QED BY <1>a, <1>1, <1>3, <1>4, <1>5, BareStepsKeepEvidence, SurroundingsKeepEvidence
        DEF Next, Step, AgentStep

\* Both invariants hold in every reachable state.
LEMMA EvidenceInvAlways ==
    ASSUME Alone
    PROVE  Spec => [](ControlInv /\ EvidenceInv)
<1>1. ControlInv /\ MergedInv /\ EvidenceInv /\ [Next]_vars => EvidenceInv'
  BY EvidenceInvStep
<1> QED BY <1>1, ControlInvAlways, EvidenceInvInit, PTL DEF Spec

-----------------------------------------------------------------------------
(* Theorems *)

\* A DONE task has a last attempt that succeeded, whose verified commit is on
\* the integration branch and whose integration is recorded exactly once,
\* however often the runner crashed on the way (crash-recovery.ts).
THEOREM CompletionIsEarned ==
    ASSUME Alone
    PROVE  Spec => []DoneIsEarned
<1>1. EvidenceInv => DoneIsEarned
  BY DEF EvidenceInv
<1> QED BY <1>1, EvidenceInvAlways, PTL

\* Neither the executor nor recovery makes a task DONE against a verdict that
\* is recorded for the integrated commit (reconcileIntegration).
THEOREM RefutationsStand ==
    ASSUME Alone
    PROVE  Spec => []RefutedIsNotDone
<1>1. EvidenceInv => RefutedIsNotDone
  BY DEF EvidenceInv
<1> QED BY <1>1, EvidenceInvAlways, PTL

\* Who moves the tip of the integration branch.
LEMMA HeadMoves ==
    ASSUME [Next]_vars, head' # head
    PROVE  \/ head' = Append(head, USER)
           \/ \E p \in Processes : (Integrate(p) \/ Reintegrate(p)) /\ head' = branch[Own(p)]
<1>1. UserCommits \/ \E p \in Processes : Step(p)
  BY DEF Next, Crash, CannotRead, ReintegrationCaught, Throws, Command, AgentStep, AgentWrites,
     AgentCommits, OrphanExits, vars, executionVars, gitVars
<1>2. ASSUME NEW p \in Processes, Step(p)
      PROVE  Integrate(p) \/ Reintegrate(p)
  <2>1. ASSUME RecoveryStep(p)
        PROVE  Reintegrate(p)
    BY <2>1 DEF RecoveryStep, ReconcileTask, InspectHead, Classify, Reverify, Recommit,
       RecordReverification, ReenterIntegrating, ResolveHead, CompareAncestry,
       FinishIntegrated, FinishFailed, ResetForRetry, RemoveAbandoned, RequiresReconciliation,
       RequiresHuman, SweepWorktree, RemoveSwept, Retry, gitVars
  <2>2. ASSUME ExecutorStep(p)
        PROVE  Integrate(p)
    BY <2>2 DEF ExecutorStep, Execute, CreateAttempt, EnterStage, CreateBranch, CreateWorktree,
       InvokeAgent, AgentReturns, StageAll, EnterVerifying, RunVerification, RecordVerification,
       Commit, EnterIntegrating, RecordIntegration, RunFinalVerification,
       RecordFinalVerification, Finish, FailExecution, InspectForCleanup, RemoveClean, gitVars
  <2>3. ASSUME SingleTaskStep(p)
        PROVE  Integrate(p)
    BY <2>3 DEF SingleTaskStep, ExecuteSingle, CreateSingleAttempt, EnterImplementing, EnterStage,
       PrepareWorktree, CreateBranch, CreateWorktree, InvokeSingleAgent, SingleAgentReturns,
       VerifyAndCommit, StageAll, EnterVerifying, RunVerification, RecordVerification, Commit,
       IntegrateSingle, EnterIntegrating, CompleteSingle, Finish, FailSingle, FailExecution,
       CleanUpSingle, InspectForCleanup, RemoveClean, gitVars
  <2> QED BY <1>2, <2>1, <2>2, <2>3 DEF Step
<1> QED BY <1>1, <1>2 DEF UserCommits, Integrate, Reintegrate, IntegrateBranch

\* The runner takes an attempt to the integration branch, in its own time or
\* after a crash, only when PASSED is on record for it.
THEOREM IntegratedWorkIsVerified ==
    ASSUME Alone
    PROVE  Spec => OnlyVerifiedWorkIsIntegrated
<1>1. ASSUME ControlInv, EvidenceInv, [Next]_vars, NEW n \in Numbers,
             Contains(head', n), ~Contains(head, n)
      PROVE  log[n].verification = "PASSED"
  <2>a. Types /\ EvidenceOK /\ \A p \in Processes : PlaceOK(p)
    BY <1>1 DEF ControlInv, EvidenceInv
  <2>1. CASE head' = Append(head, USER)
    <3>1. head \in Seq(Numbers \cup {USER, AGENT}) /\ USER \in Numbers \cup {USER, AGENT}
      BY <2>a DEF Types, Revisions
    <3> QED BY <1>1, <2>1, <3>1, CommitExtends, TaskExecutionAssumption
  <2>2. ASSUME NEW p \in Processes, Integrate(p) \/ Reintegrate(p), head' = branch[Own(p)]
        PROVE  log[n].verification = "PASSED"
    <3>1. Own(p) \in Numbers /\ branch[Own(p)] # NONE
      BY <2>2, <2>a DEF Integrate, Reintegrate, PlaceOK
    <3> QED BY <1>1, <2>2, <3>1, <2>a DEF EvidenceOK, AttemptEvidence
  <2> QED BY <1>1, <2>1, <2>2, HeadMoves
<1>2. ControlInv /\ EvidenceInv /\ [Next]_vars =>
         [\A n \in Numbers : Contains(head', n) /\ ~Contains(head, n) =>
             log[n].verification = "PASSED"]_vars
  BY <1>1
<1> QED BY <1>2, EvidenceInvAlways, PTL DEF Spec, OnlyVerifiedWorkIsIntegrated

\* Recovery returns a task to READY only while its last attempt is not on the
\* integration branch, so that the next attempt does not integrate the work a
\* second time (safeToRetry).
THEOREM NothingIsIntegratedTwice ==
    ASSUME Alone
    PROVE  Spec => IntegratedWorkIsNotRetried
<1>1. ASSUME ControlInv, EvidenceInv, [Next]_vars, taskStatus \in ActiveStatuses,
             taskStatus' = "READY"
      PROVE  ~Contains(head, Latest)
  <2>a. Types /\ EvidenceOK /\ \A p \in Processes : PlaceOK(p)
    BY <1>1 DEF ControlInv, EvidenceInv
  <2>1. PICK p \in Processes : ResetForRetry(p)
    <3>1. \A kind : TaskStatusOf(kind) # "READY"
      BY DEF TaskStatusOf
    <3>2. taskStatus \notin RetryableStatuses /\ taskStatus' # taskStatus
      BY <1>1 DEF ActiveStatuses, RetryableStatuses
    <3>3. \A p \in Processes : EnterStage(p) => taskStatus' \in AgentStageStatuses
      BY <2>a DEF EnterStage, PlaceOK
    <3> QED BY <1>1, <3>1, <3>2, <3>3, StatusWriters DEF AgentStageStatuses, EnterVerifying,
               EnterIntegrating, Finish, FailExecution, ReenterIntegrating, BeginIntegrating,
               FinishIntegrated, FinishFailed, RequiresReconciliation, RequiresHuman, Retry
  <2>2. taskStatus \in AgentStageStatuses /\ Latest \in Numbers
    BY <2>1, <2>a DEF ResetForRetry, PlaceOK
  <2>3. log[Latest] = NoEvents
    BY <2>2, <2>a DEF EvidenceOK
  <2> QED BY <2>2, <2>3, <2>a, TaskExecutionAssumption
          DEF EvidenceOK, AttemptEvidence, NoEvents, Verdicts
<1>2. ControlInv /\ EvidenceInv /\ [Next]_vars =>
         [(taskStatus \in ActiveStatuses /\ taskStatus' = "READY") => ~Contains(head, Latest)]_vars
  BY <1>1
<1> QED BY <1>2, EvidenceInvAlways, PTL DEF Spec, IntegratedWorkIsNotRetried

\* Who changes a worktree.
LEMMA WorktreeChanges ==
    ASSUME [Next]_vars, worktree' # worktree
    PROVE  \/ \E n \in Numbers : AgentWrites(n) \/ AgentCommits(n)
           \/ \E p \in Processes :
                 \/ CreateWorktree(p) \/ StageAll(p) \/ Commit(p) \/ RemoveClean(p)
                 \/ Recommit(p) \/ RemoveAbandoned(p) \/ RemoveSwept(p)
                 \/ ReintegrationCaught(p)
<1>1. \/ \E n \in Numbers : AgentWrites(n) \/ AgentCommits(n)
      \/ \E p \in Processes : Step(p) \/ ReintegrationCaught(p)
  BY DEF Next, Crash, CannotRead, Throws, Command, AgentStep, OrphanExits, UserCommits, vars,
     executionVars, gitVars
<1>2. ASSUME NEW p \in Processes, RecoveryStep(p)
      PROVE  Recommit(p) \/ RemoveAbandoned(p) \/ RemoveSwept(p)
  BY <1>2 DEF RecoveryStep, ReconcileTask, InspectHead, Classify, Reverify,
     RecordReverification, ReenterIntegrating, ResolveHead, CompareAncestry, Reintegrate,
     FinishIntegrated, FinishFailed, ResetForRetry, RequiresReconciliation,
     RequiresHuman, SweepWorktree, Retry, gitVars
<1>3. ASSUME NEW p \in Processes, ExecutorStep(p)
      PROVE  CreateWorktree(p) \/ StageAll(p) \/ Commit(p) \/ RemoveClean(p)
  BY <1>3 DEF ExecutorStep, Execute, CreateAttempt, EnterStage, CreateBranch,
     InvokeAgent, AgentReturns, EnterVerifying, RunVerification, RecordVerification,
     EnterIntegrating, Integrate, RecordIntegration, RunFinalVerification,
     RecordFinalVerification, Finish, FailExecution, InspectForCleanup, gitVars
<1>4. ASSUME NEW p \in Processes, SingleTaskStep(p)
      PROVE  CreateWorktree(p) \/ StageAll(p) \/ Commit(p) \/ RemoveClean(p)
  BY <1>4 DEF SingleTaskStep, ExecuteSingle, CreateSingleAttempt, EnterImplementing, EnterStage,
     PrepareWorktree, CreateBranch, InvokeSingleAgent, SingleAgentReturns, VerifyAndCommit,
     EnterVerifying, RunVerification, RecordVerification, IntegrateSingle, EnterIntegrating,
     Integrate, CompleteSingle, Finish, FailSingle, FailExecution, CleanUpSingle,
     InspectForCleanup, gitVars
<1> QED BY <1>1, <1>2, <1>3, <1>4 DEF Step

\* Whatever process removes a worktree, and whenever an orphaned agent writes,
\* changes that are not committed leave the worktree only as a new commit of
\* its branch (removeWorktree calls Git without --force).
THEOREM UncommittedWorkIsKept ==
    ASSUME Alone
    PROVE  Spec => WorkIsNeverDiscarded
<1>1. ASSUME ControlInv, [Next]_vars, NEW n \in Numbers, Dirty(n),
             worktree'[n] \in {"clean", "absent"}
      PROVE  worktree'[n] = "clean" /\ Len(branch'[n]) > Len(branch[n])
  <2>a. /\ Types /\ worktree[n] # "absent" /\ branch[n] # NONE /\ worktree'[n] # worktree[n]
        /\ \A p \in Processes : PlaceOK(p)
    BY <1>1 DEF ControlInv, Types, Dirty
  <2>b. branch[n] \in Seq(Numbers \cup {USER, AGENT})
    BY <2>a DEF Types, Revisions
  <2>1. ASSUME NEW x, branch' = [branch EXCEPT ![n] = Append(@, x)]
        PROVE  Len(branch'[n]) > Len(branch[n])
    BY <2>1, <2>a, <2>b DEF Types
  <2>2. ASSUME NEW m \in Numbers, AgentWrites(m) \/ AgentCommits(m)
        PROVE  worktree'[n] = "clean" /\ Len(branch'[n]) > Len(branch[n])
    BY <1>1, <2>2, <2>1, <2>a DEF AgentWrites, AgentCommits, Types
  <2>3. ASSUME NEW p \in Processes, CreateWorktree(p) \/ StageAll(p)
        PROVE  FALSE
    BY <1>1, <2>3, <2>a DEF CreateWorktree, StageAll, Types, Dirty
  <2>4. ASSUME NEW p \in Processes, CommitStaged(Own(p))
        PROVE  worktree'[n] = "clean" /\ Len(branch'[n]) > Len(branch[n])
    BY <1>1, <2>4, <2>1, <2>a DEF CommitStaged, Types
  <2>5. ASSUME NEW p \in Processes, RemoveWorktree(Own(p))
        PROVE  FALSE
    BY <1>1, <2>5, <2>a DEF RemoveWorktree, Types
  <2>6. ASSUME NEW p \in Processes, Commit(p) \/ Recommit(p)
        PROVE  worktree'[n] = "clean" /\ Len(branch'[n]) > Len(branch[n])
    BY <2>6, <2>4, <2>a DEF Commit, Recommit
  <2>7. ASSUME NEW p \in Processes,
               \/ RemoveClean(p) \/ RemoveAbandoned(p) \/ RemoveSwept(p)
               \/ ReintegrationCaught(p)
        PROVE  FALSE
    BY <1>1, <2>7, <2>5, <2>a DEF RemoveClean, RemoveAbandoned, RemoveSwept,
       ReintegrationCaught
  <2>8. worktree' # worktree
    BY <2>a
  <2> QED BY <1>1, <2>8, <2>2, <2>3, <2>6, <2>7, WorktreeChanges
<1>2. ControlInv /\ [Next]_vars =>
         [\A n \in Numbers : Dirty(n) /\ worktree'[n] \in {"clean", "absent"} =>
             worktree'[n] = "clean" /\ Len(branch'[n]) > Len(branch[n])]_vars
  BY <1>1
<1> QED BY <1>2, ControlInvAlways, PTL DEF Spec, WorkIsNeverDiscarded
=============================================================================
