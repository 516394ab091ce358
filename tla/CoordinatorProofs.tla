------------------------- MODULE CoordinatorProofs -------------------------
(***************************************************************************)
(* Proofs about the unattended runs of any number of processes over any    *)
(* number of tasks and executions, with any number of crashes.             *)
(*                                                                         *)
(* Every step is one the claim store allows, so what ClaimStoreProofs      *)
(* shows of the store holds under the coordinators.  As long as the        *)
(* heartbeats of living executions succeed, whoever is at work on a task   *)
(* holds its claim, so nobody else is at work on it, and recovery leaves   *)
(* alone what is queued.  A dispatch keeps to approvals, added tasks and   *)
(* conflicts however many processes there are; to finished dependencies,   *)
(* the attempt budget and DONE tasks only a process that is alone does.    *)
(***************************************************************************)
EXTENDS Coordinator, TaskConflictsProofs, ClaimStoreProofs

-----------------------------------------------------------------------------
(* The invariant *)

RunFields == {"pc", "by", "task", "attempt", "stage", "beat", "outcome", "verdict"}
CommandFields == {"pc", "phase", "todo", "exec", "task", "seen", "attempt",
                  "snapshot", "busy", "slots", "cycle"}

\* From its admission to the end of its executor an execution holds its claim
\* with a lease in force, and nothing of it is queued yet.
Held == {"create", "execute", "attempt", "stage", "enqueue"}

Holds(e) ==
    /\ Renewable(e)
    /\ claims[e].task = run[e].task
    /\ claims[e].leaseUntil > now
    /\ entry[e] = "none"
    /\ run[e].beat = IF RunAt(e, "create") THEN "none" ELSE "ok"

\* What runs, is queued, or was owned by a recovery was claimed before; a verdict
\* is chosen before a claim is settled with it.
RowOK(e) ==
    /\ claims[e] \in Claim
    /\ entry[e] \in {"none", "PENDING", "INTEGRATING", "SETTLED"}
    /\ DOMAIN run[e] = RunFields
    /\ run[e].pc # "none" \/ entry[e] # "none" \/ claims[e].owner # NONE =>
          claims[e].status # "ABSENT"
    /\ run[e].pc \in {"release", "write", "writeAttempt", "releaseFailed"} =>
          run[e].verdict \in SettledStatuses
    /\ run[e].pc = "stage" => run[e].stage \in 1..Len(Stages)
    /\ LeasesKept /\ run[e].pc \in Held => Holds(e)

Tables ==
    /\ now \in Nat
    /\ added \subseteq Tasks
    /\ DOMAIN claims = Executions /\ DOMAIN entry = Executions /\ DOMAIN run = Executions
    /\ \A e \in Executions : RowOK(e)
    /\ OneActiveClaimPerTask

\* A dispatch plans with the tasks of its list; a recovery works on an execution
\* that it, or one after it, owns, and writes about none that is queued; the
\* queue processor works on an execution that was queued.
CommandOK(p) ==
    /\ DOMAIN proc[p] = CommandFields /\ proc[p].phase \in {"startup", "drain"}
    /\ At(p, "plan") => DOMAIN proc[p].snapshot \subseteq Tasks
    /\ At(p, "admit") => proc[p].todo \subseteq Tasks
    /\ proc[p].pc \in {"owned", "write", "settle"} =>
          /\ proc[p].exec \in Executions
          /\ claims[proc[p].exec].owner # NONE
          /\ LeasesKept /\ ~At(p, "owned") => ~Queued(proc[p].exec)
    /\ proc[p].pc \in {"integrate", "release"} =>
          proc[p].exec \in Executions /\ entry[proc[p].exec] # "none"

\* The claims stay unique because the claiming transaction looks; that an
\* executor holds its claim depends on who may take or settle it: a recovery,
\* only after the lease, and the processor, only what was queued.
CoordinatorInv ==
    /\ Tables
    /\ DOMAIN proc = Processes
    /\ \A p \in Processes : CommandOK(p)

-----------------------------------------------------------------------------
(* What a step may do to a row behind the back of a command *)

RowStable(e) ==
    /\ entry[e] # "none" => entry'[e] # "none"
    /\ claims[e].owner # NONE => claims'[e].owner # NONE
    /\ LeasesKept /\ claims[e].owner # NONE /\ ~Queued(e) => ~Queued(e)'

RowsKept == Tables' /\ \A e \in Executions : RowStable(e)

\* Process p takes a step that leaves the other commands alone.
CommandMoves(p) ==
    /\ DOMAIN proc' = Processes
    /\ CommandOK(p)'
    /\ \A q \in Processes \ {p} : proc'[q] = proc[q]

\* A command that takes no step keeps its part of the invariant.
LEMMA OtherCommandsStay ==
    ASSUME RowsKept, NEW q \in Processes, CommandOK(q), proc'[q] = proc[q]
    PROVE  CommandOK(q)'
BY DEF RowsKept, RowStable, CommandOK, At

\* A step of one command that keeps the rows.
LEMMA CommandKeepsInv ==
    ASSUME CoordinatorInv, RowsKept, NEW p \in Processes, CommandMoves(p)
    PROVE  CoordinatorInv'
BY OtherCommandsStay DEF CoordinatorInv, RowsKept, CommandMoves

\* A step of no command that keeps the rows.
LEMMA NoCommandKeepsInv ==
    ASSUME CoordinatorInv, RowsKept, UNCHANGED proc
    PROVE  CoordinatorInv'
BY OtherCommandsStay DEF CoordinatorInv, RowsKept

\* Nothing of the rows changes.
LEMMA RowsUntouched ==
    ASSUME Tables, UNCHANGED <<now, claims, entry, run>>, added' \subseteq Tasks
    PROVE  RowsKept
<1>1. \A e \in Executions : RowOK(e)' /\ RowStable(e)
  BY DEF Tables, RowOK, Holds, Renewable, RunAt, RowStable, Queued
<1>2. OneActiveClaimPerTask'
  BY DEF Tables, OneActiveClaimPerTask, ActiveClaims
<1> QED BY <1>1, <1>2 DEF RowsKept, Tables

\* One row changes, and no second claim of a task becomes ACTIVE.
LEMMA OneRowChanges ==
    ASSUME Tables, UNCHANGED <<now, added>>, NEW e \in Executions,
           DOMAIN claims' = Executions, DOMAIN entry' = Executions, DOMAIN run' = Executions,
           \A f \in Executions \ {e} :
              claims'[f] = claims[f] /\ entry'[f] = entry[f] /\ run'[f] = run[f],
           claims'[e].status = "ACTIVE" =>
              \/ claims[e].status = "ACTIVE" /\ claims'[e].task = claims[e].task
              \/ \A f \in ActiveClaims : claims[f].task # claims'[e].task,
           RowOK(e)', RowStable(e)
    PROVE  RowsKept
<1>1. \A f \in Executions \ {e} : RowOK(f)' /\ RowStable(f)
  BY DEF Tables, RowOK, Holds, Renewable, RunAt, RowStable, Queued
<1>2. OneActiveClaimPerTask'
  BY DEF Tables, OneActiveClaimPerTask, ActiveClaims
<1> QED BY <1>1, <1>2 DEF RowsKept, Tables

\* The executions of a process are over.
LEMMA LeavingKeepsRows ==
    ASSUME Tables, UNCHANGED <<now, claims, entry, added>>, NEW p \in Processes, Leave(p)
    PROVE  RowsKept
<1>1. DOMAIN run' = Executions
  BY DEF Leave
<1>2. \A e \in Executions : RowOK(e)' /\ RowStable(e)
  <2> SUFFICES ASSUME NEW e \in Executions PROVE RowOK(e)' /\ RowStable(e)
    OBVIOUS
  <2>1. CASE run'[e] = run[e]
    BY <2>1 DEF Tables, RowOK, Holds, Renewable, RunAt, RowStable, Queued
  <2>2. CASE /\ run[e].pc # "none"
             /\ run'[e] = [NoRun EXCEPT !.pc = "gone", !.attempt = QueuedAttempt(e)]
    <3>1. DOMAIN run'[e] = RunFields /\ run'[e].pc = "gone"
      BY <2>2 DEF NoRun, RunFields
    <3> QED BY <2>2, <3>1 DEF Tables, RowOK, Held, RowStable, Queued
  <2> QED BY <2>1, <2>2 DEF Leave, Own
<1>3. OneActiveClaimPerTask'
  BY DEF Tables, OneActiveClaimPerTask, ActiveClaims
<1> QED BY <1>1, <1>2, <1>3 DEF RowsKept, Tables

-----------------------------------------------------------------------------
(* Steps of an execution *)

\* A renewal moves the lease beyond the clock and changes nothing else.
LEMMA RenewalOfARow ==
    ASSUME Tables, NEW e \in Executions, RenewTaskExecution(e, now)
    PROVE  /\ Renewable(e) /\ UNCHANGED now
           /\ DOMAIN claims' = Executions
           /\ \A f \in Executions \ {e} : claims'[f] = claims[f]
           /\ claims'[e] \in Claim /\ claims'[e].leaseUntil > now
           /\ claims'[e].status = claims[e].status /\ claims'[e].task = claims[e].task
           /\ claims'[e].owner = claims[e].owner
<1> DEFINE c == [claims[e] EXCEPT !.leaseUntil = now + LeaseDuration]
<1>1. now \in Nat /\ now + LeaseDuration \in Nat /\ now + LeaseDuration > now
  BY ClaimStoreAssumption DEF Tables
<1>2. claims[e] \in Claim
  BY DEF Tables, RowOK
<1>3. c \in Claim
  BY <1>1, <1>2 DEF Claim
<1>4. /\ c.leaseUntil = now + LeaseDuration
      /\ c.status = claims[e].status /\ c.task = claims[e].task /\ c.owner = claims[e].owner
  BY <1>2 DEF Claim
<1>5. claims' = [claims EXCEPT ![e] = c] /\ Renewable(e) /\ UNCHANGED now
  BY DEF RenewTaskExecution
<1> QED BY <1>1, <1>3, <1>4, <1>5 DEF Tables

\* A settlement keeps who had claimed what.
LEMMA SettlementOfARow ==
    ASSUME Tables, NEW e \in Executions, NEW s \in SettledStatuses, Settle(e, s)
    PROVE  /\ UNCHANGED now
           /\ DOMAIN claims' = Executions
           /\ \A f \in Executions \ {e} : claims'[f] = claims[f]
           /\ claims'[e] \in Claim
           /\ claims'[e].status \notin {"ABSENT", "ACTIVE"}
           /\ claims'[e].owner = claims[e].owner
<1> DEFINE c == [claims[e] EXCEPT !.status = s]
<1>1. claims[e] \in Claim
  BY DEF Tables, RowOK
<1>2. c \in Claim
  BY <1>1 DEF Claim, SettledStatuses
<1>3. c.status = s /\ c.owner = claims[e].owner
  BY <1>1 DEF Claim
<1>4. claims' = [claims EXCEPT ![e] = c] /\ UNCHANGED now
  BY DEF Settle
<1> QED BY <1>2, <1>3, <1>4 DEF Tables, SettledStatuses

\* The stages are three active statuses.
LEMMA ThreeStages ==
    /\ Len(Stages) = 3
    /\ \A k \in 1..Len(Stages) : Stages[k] \in ActiveStatuses
BY DEF Stages, ActiveStatuses

\* An execution that ends keeps its process and its task.
LEMMA ExecutionEnds ==
    ASSUME DOMAIN run = Executions, NEW e \in Executions, NEW recovery, EndRun(e, recovery)
    PROVE  /\ DOMAIN run' = Executions /\ \A f \in Executions \ {e} : run'[f] = run[f]
           /\ DOMAIN run'[e] = RunFields /\ run'[e].pc = "ended"
           /\ run'[e].by = run[e].by /\ run'[e].task = run[e].task
<1> DEFINE outcome == IF recovery THEN "recovery"
                      ELSE IF run[e].outcome = "rejected" THEN "rejected" ELSE "progress"
<1>1. PICK o : o = outcome
  OBVIOUS
<1>2. run' = [run EXCEPT ![e] = [NoRun EXCEPT !.pc = "ended", !.by = run[e].by,
                                              !.task = run[e].task,
                                              !.attempt = QueuedAttempt(e), !.outcome = o]]
  BY <1>1 DEF EndRun
<1> HIDE DEF outcome
<1>3. PICK r : r = [NoRun EXCEPT !.pc = "ended", !.by = run[e].by, !.task = run[e].task,
                                 !.attempt = QueuedAttempt(e), !.outcome = o]
  OBVIOUS
<1>4. /\ DOMAIN r = RunFields /\ r.pc = "ended"
      /\ r.by = run[e].by /\ r.task = run[e].task
  BY <1>3 DEF NoRun, RunFields
<1>5. run' = [run EXCEPT ![e] = r]
  BY <1>2, <1>3
<1> QED BY <1>4, <1>5

\* Steps of an execution that write to the claims, and those that do not.
LEMMA ExecutionKeepsRows ==
    ASSUME Tables, NEW e \in Executions, ExecutionStep(e), UNCHANGED added
    PROVE  RowsKept
<1> DEFINE Others == \A f \in Executions \ {e} :
                        claims'[f] = claims[f] /\ entry'[f] = entry[f] /\ run'[f] = run[f]
           Domains == /\ DOMAIN claims' = Executions /\ DOMAIN entry' = Executions
                      /\ DOMAIN run' = Executions
<1>a. /\ RowOK(e) /\ now \in Nat
      /\ DOMAIN claims = Executions /\ DOMAIN entry = Executions /\ DOMAIN run = Executions
  BY DEF Tables
<1>b. run[e].pc # "none" /\ claims[e].status # "ABSENT"
  <2>1. run[e].pc # "none"
    BY DEF ExecutionStep, StartHeartbeat, Execute, CreateAttempt, EnterStage, StageFails, Enqueue,
           FailExecution, ReadOutcome, Release, StopHeartbeat, ReadFailure, WriteFailure,
           ReleaseFailed, RunAt
  <2> QED BY <1>a, <2>1 DEF RowOK
<1>1. CASE StartHeartbeat(e)
  <2>1. CASE RenewTaskExecution(e, now) /\ run' = [run EXCEPT ![e].pc = "execute", ![e].beat = "ok"]
    <3>1. UNCHANGED now /\ Others /\ Domains
      BY <1>1, <1>a, <2>1, RenewalOfARow DEF StartHeartbeat
    <3>2. RowOK(e)' /\ RowStable(e)
      BY <1>1, <1>a, <2>1, RenewalOfARow
         DEF StartHeartbeat, RowOK, RunFields, Held, Holds, Renewable, RunAt, RowStable, Queued
    <3>3. claims'[e].status = claims[e].status /\ claims'[e].task = claims[e].task
      BY <2>1, RenewalOfARow
    <3> QED BY <3>1, <3>2, <3>3, OneRowChanges
  <2>2. CASE RunTo(e, "threw") /\ UNCHANGED storeVars
    <3>1. RowOK(e)' /\ RowStable(e) /\ Others /\ Domains
      BY <1>1, <1>a, <1>b, <2>2
         DEF StartHeartbeat, RunTo, storeVars, RowOK, RunFields, Held, RowStable, Queued
    <3> QED BY <1>1, <2>2, <3>1, OneRowChanges DEF storeVars
  <2> QED BY <1>1, <2>1, <2>2 DEF StartHeartbeat
<1>2. CASE Execute(e)
  <2>1. RowOK(e)' /\ RowStable(e) /\ Others /\ Domains
    BY <1>2, <1>a DEF Execute, Returns, RunAt, rowVars, storeVars, RowOK, RunFields, Held, Holds,
                      Renewable, RowStable, Queued
  <2> QED BY <1>2, <2>1, OneRowChanges DEF Execute, rowVars, storeVars
<1>3. CASE CreateAttempt(e)
  <2>1. RowOK(e)' /\ RowStable(e) /\ Others /\ Domains
    BY <1>3, <1>a, ThreeStages DEF CreateAttempt, Returns, RunAt, storeVars, RowOK, RunFields, Held, Holds,
                      Renewable, RowStable, Queued
  <2> QED BY <1>3, <2>1, OneRowChanges DEF CreateAttempt, storeVars
<1>4. CASE EnterStage(e)
  <2>1. RowOK(e)' /\ RowStable(e) /\ Others /\ Domains
    BY <1>4, <1>a, ThreeStages DEF EnterStage, SetTaskStatus, RunAt, RowOK, RunFields, Held, Holds,
                      Renewable, RowStable, Queued
  <2> QED BY <1>4, <2>1, OneRowChanges DEF EnterStage, SetTaskStatus
<1>5. CASE StageFails(e)
  <2>1. RowOK(e)' /\ RowStable(e) /\ Others /\ Domains
    BY <1>5, <1>a, <1>b DEF StageFails, rowVars, storeVars, RowOK, RunFields, Held, RowStable, Queued
  <2> QED BY <1>5, <2>1, OneRowChanges DEF StageFails, rowVars, storeVars
<1>6. CASE Enqueue(e)
  <2>1. claims[e].status # "ABSENT" /\ (LeasesKept => Holds(e))
    BY <1>6, <1>a DEF Enqueue, RunAt, RowOK, Held
  <2>2. RowOK(e)' /\ RowStable(e) /\ Others /\ Domains
    BY <1>6, <1>a, <2>1 DEF Enqueue, Returns, RunTo, storeVars, RowOK, RunFields, Held, Holds,
                            Renewable, RowStable, Queued
  <2> QED BY <1>6, <2>2, OneRowChanges DEF Enqueue, storeVars
<1>7. CASE FailExecution(e)
  <2>1. RowOK(e)' /\ RowStable(e) /\ Others /\ Domains /\ UNCHANGED <<now, claims>>
    BY <1>7, <1>a, <1>b DEF FailExecution, SetTaskStatus, Returns, RunTo, storeVars, RowOK, RunFields,
                      Held, RowStable, Queued
  <2> QED BY <2>1, OneRowChanges
<1>8. CASE ReadOutcome(e)
  <2>1. RowOK(e)' /\ RowStable(e) /\ Others /\ Domains
    BY <1>8, <1>a, <1>b DEF ReadOutcome, RunTo, rowVars, storeVars, RowOK, RunFields, Held, RowStable,
                      Queued, ClaimStatusForTask, SettledStatuses
  <2> QED BY <1>8, <2>1, OneRowChanges DEF ReadOutcome, rowVars, storeVars
<1>9. CASE Release(e) \/ ReleaseFailed(e)
  <2>1. run[e].pc \in {"release", "releaseFailed"} /\ run[e].verdict \in SettledStatuses
    BY <1>9, <1>a DEF Release, ReleaseFailed, RunAt, RowOK
  <2>2. /\ DOMAIN run' = Executions /\ \A f \in Executions \ {e} : run'[f] = run[f]
        /\ DOMAIN run'[e] = RunFields /\ run'[e].pc \in {"stop", "ended"}
        /\ UNCHANGED entry
    <3>1. UNCHANGED entry /\ (RunTo(e, "stop") \/ \E recovery : EndRun(e, recovery))
      BY <1>9, Zenon DEF Release, ReleaseFailed
    <3>2. CASE RunTo(e, "stop")
      BY <1>a, <3>1, <3>2 DEF RunTo, RowOK, RunFields
    <3>3. CASE \E recovery : EndRun(e, recovery)
      BY <1>a, <3>1, <3>3, ExecutionEnds
    <3> QED BY <3>1, <3>2, <3>3
  <2>3. CASE Settle(e, run[e].verdict)
    <3>1. Others /\ Domains /\ claims'[e].status # "ACTIVE" /\ UNCHANGED now
      BY <1>a, <2>1, <2>2, <2>3, SettlementOfARow
    <3>2. RowOK(e)' /\ RowStable(e)
      BY <1>a, <2>1, <2>2, <2>3, SettlementOfARow DEF RowOK, Held, RowStable, Queued
    <3> QED BY <3>1, <3>2, OneRowChanges
  <2>4. CASE UNCHANGED storeVars
    <3>1. RowOK(e)' /\ RowStable(e) /\ Others /\ Domains
      BY <1>a, <1>b, <2>2, <2>4 DEF storeVars, RowOK, Held, RowStable, Queued
    <3> QED BY <2>4, <3>1, OneRowChanges DEF storeVars
  <2> QED BY <1>9, <2>3, <2>4 DEF Release, ReleaseFailed, ReleaseTaskExecution
<1>10. CASE StopHeartbeat(e)
  <2>a. /\ DOMAIN run' = Executions /\ \A f \in Executions \ {e} : run'[f] = run[f]
        /\ DOMAIN run'[e] = RunFields /\ run'[e].pc = "ended"
        /\ UNCHANGED <<now, claims, entry>>
    BY <1>10, <1>a, ExecutionEnds DEF StopHeartbeat, rowVars, storeVars
  <2>1. RowOK(e)' /\ RowStable(e) /\ Others /\ Domains
    BY <1>a, <1>b, <2>a DEF RowOK, Held, RowStable, Queued
  <2> QED BY <1>10, <2>1, OneRowChanges DEF StopHeartbeat, rowVars, storeVars
<1>11. CASE ReadFailure(e)
  <2> DEFINE verdict == IF taskStatus[run[e].task] \in ActiveStatuses
                        THEN "RECOVERY_REQUIRED" ELSE "FAILED"
  <2>a. verdict \in SettledStatuses
    BY DEF SettledStatuses
  <2> HIDE DEF verdict
  <2>b. /\ UNCHANGED <<now, claims, entry>>
        /\ DOMAIN run' = Executions /\ \A f \in Executions \ {e} : run'[f] = run[f]
        /\ DOMAIN run'[e] = RunFields
        /\ \/ run'[e].pc = "ended"
           \/ run'[e].pc \in {"write", "writeAttempt"} /\ run'[e].verdict = verdict
    <3>1. CASE run[e].beat = "failed" \/ Queued(e)
      <4>1. EndRun(e, TRUE) /\ UNCHANGED <<now, claims, entry>>
        BY <1>11, <3>1 DEF ReadFailure, rowVars, storeVars
      <4> QED BY <1>a, <4>1, ExecutionEnds
    <3>2. CASE ~(run[e].beat = "failed" \/ Queued(e))
      BY <1>11, <1>a, <3>2 DEF ReadFailure, rowVars, storeVars, RowOK, RunFields, verdict
    <3> QED BY <3>1, <3>2
  <2>1. RowOK(e)' /\ RowStable(e) /\ Others /\ Domains
    BY <1>11, <1>a, <1>b, <2>a, <2>b DEF RowOK, Held, RowStable, Queued
  <2> QED BY <1>11, <2>1, OneRowChanges DEF ReadFailure, rowVars, storeVars
<1>12. CASE WriteFailure(e)
  <2>1. /\ UNCHANGED <<now, claims, entry>>
        /\ DOMAIN run' = Executions /\ \A f \in Executions \ {e} : run'[f] = run[f]
        /\ DOMAIN run'[e] = RunFields
        /\ \/ run'[e].pc = "ended"
           \/ run'[e].pc = "releaseFailed" /\ run'[e].verdict = run[e].verdict
    <3>1. UNCHANGED <<now, claims, entry>>
      BY <1>12 DEF WriteFailure, SetTaskStatus, storeVars
    <3>2. RunTo(e, "releaseFailed") \/ EndRun(e, TRUE)
      BY <1>12 DEF WriteFailure
    <3>3. CASE RunTo(e, "releaseFailed")
      BY <1>a, <3>1, <3>3 DEF RunTo, RowOK, RunFields
    <3>4. CASE EndRun(e, TRUE)
      BY <1>a, <3>1, <3>4, ExecutionEnds
    <3> QED BY <3>2, <3>3, <3>4
  <2>2. RowOK(e)' /\ RowStable(e) /\ Others /\ Domains
    BY <1>12, <1>a, <1>b, <2>1 DEF WriteFailure, RowOK, Held, RowStable, Queued
  <2> QED BY <2>1, <2>2, OneRowChanges
<1> QED BY <1>1, <1>2, <1>3, <1>4, <1>5, <1>6, <1>7, <1>8, <1>9, <1>10, <1>11, <1>12
        DEF ExecutionStep

\* A beat renews the claim.  It fails only when the claim is no longer the
\* execution's, which is after its executor has ended.
LEMMA BeatKeepsRows ==
    ASSUME Tables, NEW e \in Executions, Beat(e), UNCHANGED added
    PROVE  RowsKept
<1> DEFINE Others == \A f \in Executions \ {e} :
                        claims'[f] = claims[f] /\ entry'[f] = entry[f] /\ run'[f] = run[f]
           Domains == /\ DOMAIN claims' = Executions /\ DOMAIN entry' = Executions
                      /\ DOMAIN run' = Executions
<1>a. /\ RowOK(e) /\ now \in Nat
      /\ DOMAIN claims = Executions /\ DOMAIN entry = Executions /\ DOMAIN run = Executions
  BY DEF Tables
<1>1. CASE RenewTaskExecution(e, now) /\ UNCHANGED run
  <2>1. UNCHANGED now /\ Others /\ Domains
    BY <1>1, <1>a, RenewalOfARow DEF Beat
  <2>2. RowOK(e)' /\ RowStable(e)
    BY <1>1, <1>a, RenewalOfARow DEF Beat, RowOK, Holds, Renewable, RunAt, RowStable, Queued
  <2>3. claims'[e].status = claims[e].status /\ claims'[e].task = claims[e].task
    BY <1>1, RenewalOfARow
  <2> QED BY <2>1, <2>2, <2>3, OneRowChanges
<1>2. CASE /\ ~Renewable(e) \/ ~LeasesKept
           /\ run' = [run EXCEPT ![e].beat = "failed"]
           /\ UNCHANGED storeVars
  <2>1. RowOK(e)' /\ RowStable(e) /\ Others /\ Domains
    BY <1>2, <1>a DEF Beat, storeVars, RowOK, RunFields, Holds, RowStable, Queued
  <2> QED BY <1>2, <2>1, OneRowChanges DEF storeVars
<1> QED BY <1>1, <1>2 DEF Beat

-----------------------------------------------------------------------------
(* Steps of time, users and crashes *)

\* A lease that expires leaves every execution as sound as it was.
LEMMA ExpiryKeepsRows ==
    ASSUME Tables, NEW e \in Executions, LeaseExpires(e) \/ RecoveryLeaseExpires(e)
    PROVE  RowsKept
<1> DEFINE Others == \A f \in Executions \ {e} :
                        claims'[f] = claims[f] /\ entry'[f] = entry[f] /\ run'[f] = run[f]
           Domains == /\ DOMAIN claims' = Executions /\ DOMAIN entry' = Executions
                      /\ DOMAIN run' = Executions
<1>a. /\ RowOK(e) /\ now \in Nat /\ claims[e] \in Claim
      /\ DOMAIN claims = Executions /\ DOMAIN entry = Executions /\ DOMAIN run = Executions
  BY DEF Tables, RowOK
<1>1. CASE LeaseExpires(e)
  <2>1. LeasesKept => run[e].pc \notin Held
    BY <1>1, <1>a DEF LeaseExpires, Alive, RowOK, Held, Holds, RunAt
  <2>2. /\ Others /\ Domains /\ UNCHANGED <<now, added, entry, run>>
        /\ claims'[e] \in Claim /\ claims'[e].owner = claims[e].owner
        /\ claims'[e].status = claims[e].status /\ claims'[e].task = claims[e].task
    BY <1>1, <1>a DEF LeaseExpires, RunsStay, taskVars, Claim
  <2>3. RowOK(e)' /\ RowStable(e)
    BY <1>a, <2>1, <2>2 DEF RowOK, RowStable, Queued
  <2> QED BY <2>2, <2>3, OneRowChanges
<1>2. CASE RecoveryLeaseExpires(e)
  <2>1. /\ Others /\ Domains /\ UNCHANGED <<now, added, entry, run>>
        /\ claims'[e] \in Claim /\ claims'[e].owner = claims[e].owner
        /\ claims'[e].status = claims[e].status /\ claims'[e].task = claims[e].task
        /\ claims'[e].leaseUntil = claims[e].leaseUntil
    BY <1>2, <1>a DEF RecoveryLeaseExpires, RunsStay, taskVars, Claim
  <2>2. RowOK(e)' /\ RowStable(e)
    BY <1>a, <2>1 DEF RowOK, Holds, Renewable, RunAt, RowStable, Queued
  <2> QED BY <2>1, <2>2, OneRowChanges
<1> QED BY <1>1, <1>2

\* A user's command, or a new task, touches no claim.
LEMMA UsersKeepRows ==
    ASSUME Tables, NEW t \in Tasks, Retry(t) \/ AddTask(t) \/ Approve(t)
    PROVE  RowsKept /\ UNCHANGED proc
<1>1. UNCHANGED <<now, claims, entry, run>> /\ added' \subseteq Tasks /\ UNCHANGED proc
  BY DEF Tables, Retry, AddTask, Approve, TransitionTaskStatusFrom, SetTaskStatus, rowVars,
         storeVars, taskVars
<1> QED BY <1>1, RowsUntouched

\* A crash leaves the rows as they are.
LEMMA CrashKeepsRows ==
    ASSUME CoordinatorInv, NEW p \in Processes, Crash(p)
    PROVE  RowsKept /\ CommandMoves(p)
<1>1. RowsKept
  BY LeavingKeepsRows DEF CoordinatorInv, Crash, rowVars, storeVars, taskVars
<1>2. CommandMoves(p)
  BY DEF CoordinatorInv, Crash, CommandMoves, CommandOK, At, Idle, CommandFields
<1> QED BY <1>1, <1>2

-----------------------------------------------------------------------------
(* Steps of a command *)

\* A step that moves to a place where the command holds nothing.
Free == {"idle", "startup", "listClaims", "claims", "list", "unfinished", "reconcile",
         "tasks", "drain"}

\* Where a command is at work on no claim nothing is required of it.
LEMMA FreeCommandIsOK ==
    ASSUME CoordinatorInv, NEW p \in Processes,
           DOMAIN proc' = Processes, \A q \in Processes \ {p} : proc'[q] = proc[q],
           DOMAIN proc'[p] = CommandFields, proc'[p].pc \in Free,
           proc'[p].phase \in {"startup", "drain"}
    PROVE  CommandMoves(p)
BY DEF CommandMoves, CommandOK, At, Free

\* Steps that read the tables, or write only task statuses and attempts.
LEMMA ReadersMoveFreely ==
    ASSUME CoordinatorInv, NEW p \in Processes,
           \/ StartCommand(p) \/ ListClaims(p) \/ SkipClaimed(p) \/ ListUnfinished(p)
           \/ (\E t \in Tasks : InspectUnfinished(p, t))
           \/ RecoverUnfinished(p) \/ StartupEnds(p)
    PROVE  RowsKept /\ CommandMoves(p)
<1>a. /\ DOMAIN proc = Processes /\ DOMAIN proc[p] = CommandFields
      /\ proc[p].phase \in {"startup", "drain"}
  BY DEF CoordinatorInv, CommandOK
<1>1. UNCHANGED <<now, claims, entry, run, added>>
  BY DEF StartCommand, ListClaims, SkipClaimed, ListUnfinished, InspectUnfinished,
         RecoverUnfinished, StartupEnds, WriteOutcome, SetTaskStatus, RunsStay, rowVars,
         storeVars, taskVars
<1>2. /\ DOMAIN proc' = Processes /\ \A q \in Processes \ {p} : proc'[q] = proc[q]
      /\ DOMAIN proc'[p] = CommandFields /\ proc'[p].pc \in Free
      /\ proc'[p].phase \in {"startup", "drain"}
  <2>1. CASE StartCommand(p) \/ ListClaims(p) \/ SkipClaimed(p) \/ ListUnfinished(p)
    BY <1>a, <2>1 DEF StartCommand, ListClaims, SkipClaimed, ListUnfinished, Goto, CommandFields,
                      Free
  <2>2. ASSUME NEW t \in Tasks, InspectUnfinished(p, t)
        PROVE  <1>2!:
    <3>1. At(p, "unfinished")
      BY <2>2 DEF InspectUnfinished
    <3>2. \/ proc' = [proc EXCEPT ![p].todo = @ \ {t}]
          \/ \E n \in {RunningAttempt(t), Len(attempts[t])} :
                proc' = [proc EXCEPT ![p].pc = "reconcile", ![p].task = t, ![p].todo = @ \ {t},
                                     ![p].seen = taskStatus[t], ![p].attempt = n]
      BY <2>2 DEF InspectUnfinished
    <3> QED BY <1>a, <3>1, <3>2 DEF At, CommandFields, Free
  <2>3. CASE RecoverUnfinished(p)
    BY <1>a, <2>3 DEF RecoverUnfinished, MergeFailsLate, Resume, At, CommandFields, Free
  <2>4. CASE StartupEnds(p)
    <3>1. PICK command \in {[Idle EXCEPT !.pc = "tasks", !.phase = "drain"], Idle} :
                  proc' = [proc EXCEPT ![p] = command]
      BY <2>4 DEF StartupEnds
    <3>2. /\ DOMAIN command = CommandFields /\ command.pc \in Free
          /\ command.phase \in {"startup", "drain"}
      <4>1. CASE command = Idle
        BY <4>1 DEF Idle, CommandFields, Free
      <4>2. CASE command = [Idle EXCEPT !.pc = "tasks", !.phase = "drain"]
        BY <4>2 DEF Idle, CommandFields, Free
      <4> QED BY <3>1, <4>1, <4>2
    <3> QED BY <1>a, <3>1, <3>2
  <2> QED BY <2>1, <2>2, <2>3, <2>4
<1> QED BY <1>1, <1>2, RowsUntouched, FreeCommandIsOK DEF CoordinatorInv, Tables

\* First chooses one of the tasks it is given.
LEMMA FirstIsOneOfThem ==
    ASSUME NEW S, S \subseteq Tasks, S # {}
    PROVE  First(S) \in S
<1> DEFINE T == {Rank[t] : t \in S}
<1>1. T \subseteq Nat /\ T # {}
  BY CoordinatorAssumption
<1>2. \E x \in T : \A y \in T : x <= y
  BY <1>1, LeastNatural
<1>3. \E t \in S : \A u \in S : Rank[t] <= Rank[u]
  BY <1>2
<1> QED BY <1>3 DEF First

\* A plan is made of the list and of the claims, for some choice of agents.
LEMMA PlannedTasks ==
    ASSUME CoordinatorInv, NEW p \in Processes, Plan(p)
    PROVE  LET row == proc[p].snapshot
               claimed == {claims[e].task : e \in ActiveClaims} IN
           \E available \in SUBSET DOMAIN Offered :
              /\ proc'[p].pc = "admit"
              /\ proc'[p].todo = Runnable(row, DOMAIN row \ claimed, available)
              /\ DOMAIN proc' = Processes /\ \A q \in Processes \ {p} : proc'[q] = proc[q]
              /\ DOMAIN proc'[p] = CommandFields /\ proc'[p].phase = proc[p].phase
<1> DEFINE row == proc[p].snapshot
           claimed == {claims[e].task : e \in ActiveClaims}
<1>1. DOMAIN proc = Processes /\ DOMAIN proc[p] = CommandFields
  BY DEF CoordinatorInv, CommandOK
<1>2. PICK available \in SUBSET DOMAIN Offered : \E slots :
         proc' = [proc EXCEPT
                    ![p].pc = "admit", ![p].snapshot = NONE,
                    ![p].todo = Runnable(row, DOMAIN row \ claimed, available),
                    ![p].busy = {t \in DOMAIN row : row[t].status \in ActiveStatuses},
                    ![p].slots = slots]
  BY Zenon DEF Plan
<1>3. PICK slots :
         proc' = [proc EXCEPT
                    ![p].pc = "admit", ![p].snapshot = NONE,
                    ![p].todo = Runnable(row, DOMAIN row \ claimed, available),
                    ![p].busy = {t \in DOMAIN row : row[t].status \in ActiveStatuses},
                    ![p].slots = slots]
  BY <1>2
<1> QED BY <1>1, <1>3 DEF CommandFields

\* The task list and the plan are sets of tasks.
LEMMA PlanningKeepsInv ==
    ASSUME CoordinatorInv, NEW p \in Processes, ListTasks(p) \/ Plan(p)
    PROVE  RowsKept /\ CommandMoves(p)
<1>a. /\ DOMAIN proc = Processes /\ DOMAIN proc[p] = CommandFields /\ added \subseteq Tasks
      /\ proc[p].phase \in {"startup", "drain"}
      /\ At(p, "plan") => DOMAIN proc[p].snapshot \subseteq Tasks
  BY DEF CoordinatorInv, CommandOK, Tables
<1>1. UNCHANGED <<now, claims, entry, run, added>>
  BY DEF ListTasks, Plan, RunsStay, rowVars, storeVars, taskVars
<1>2. RowsKept
  BY <1>1, RowsUntouched DEF CoordinatorInv, Tables
<1>3. CASE ListTasks(p)
  <2> DEFINE row == [t \in added |-> [status |-> taskStatus[t], granted |-> t \in granted]]
  <2>1. proc' = [proc EXCEPT ![p].pc = "plan", ![p].snapshot = row]
    BY <1>3 DEF ListTasks
  <2>2. DOMAIN row \subseteq Tasks
    BY <1>a
  <2> HIDE DEF row
  <2>3. CommandMoves(p)
    BY <1>a, <2>1, <2>2 DEF CommandMoves, CommandOK, At, CommandFields
  <2> QED BY <1>2, <2>3
<1>4. CASE Plan(p)
  <2> DEFINE row == proc[p].snapshot
             claimed == {claims[e].task : e \in ActiveClaims}
  <2>1. DOMAIN row \subseteq Tasks
    BY <1>4, <1>a DEF Plan
  <2>2. PICK available \in SUBSET DOMAIN Offered :
           /\ proc'[p].pc = "admit"
           /\ proc'[p].todo = Runnable(row, DOMAIN row \ claimed, available)
           /\ DOMAIN proc' = Processes /\ \A q \in Processes \ {p} : proc'[q] = proc[q]
           /\ DOMAIN proc'[p] = CommandFields /\ proc'[p].phase = proc[p].phase
    BY <1>4, PlannedTasks
  <2>3. Runnable(row, DOMAIN row \ claimed, available) \subseteq Tasks
    BY <2>1 DEF Runnable
  <2>4. CommandMoves(p)
    BY <1>a, <2>2, <2>3 DEF CommandMoves, CommandOK, At
  <2> QED BY <1>2, <2>4
<1> QED BY <1>3, <1>4

\* The admitted execution gets the only claim of its task.
LEMMA AdmissionKeepsInv ==
    ASSUME CoordinatorInv, NEW p \in Processes, Admit(p)
    PROVE  RowsKept /\ CommandMoves(p)
<1> DEFINE t == First(proc[p].todo)
<1>a. /\ Tables /\ DOMAIN proc = Processes /\ DOMAIN proc[p] = CommandFields
      /\ proc[p].phase \in {"startup", "drain"}
      /\ proc[p].todo \subseteq Tasks /\ UNCHANGED <<entry, added>>
  BY DEF CoordinatorInv, CommandOK, Admit, taskVars
<1>1. t \in Tasks
  BY <1>a, FirstIsOneOfThem DEF Admit
<1> HIDE DEF t
<1>2. CommandMoves(p)
  <2>1. /\ DOMAIN proc' = Processes /\ \A q \in Processes \ {p} : proc'[q] = proc[q]
        /\ DOMAIN proc'[p] = CommandFields /\ proc'[p].pc = "admit"
        /\ proc'[p].todo \subseteq Tasks /\ proc'[p].phase = proc[p].phase
    BY <1>a DEF Admit, At, CommandFields
  <2> QED BY <1>a, <2>1 DEF CommandMoves, CommandOK, At
<1>3. ASSUME NEW e \in Executions, claims[e].status = "ABSENT", ClaimTaskExecution(e, t, now),
             run' = [run EXCEPT ![e] = [NoRun EXCEPT !.pc = "create", !.by = p, !.task = t]]
      PROVE  RowsKept
  <2> DEFINE c == [status |-> "ACTIVE", task |-> t, leaseUntil |-> now + LeaseDuration,
                   owner |-> NONE, recoveryUntil |-> 0]
             r == [NoRun EXCEPT !.pc = "create", !.by = p, !.task = t]
  <2>1. /\ c \in Claim /\ c.leaseUntil > now
    BY <1>1, <1>a, ClaimStoreAssumption DEF Claim, Tables
  <2>2. DOMAIN r = RunFields /\ r.pc = "create" /\ r.task = t /\ r.beat = "none"
    BY DEF NoRun, RunFields
  <2>3. /\ claims' = [claims EXCEPT ![e] = c] /\ run' = [run EXCEPT ![e] = r] /\ UNCHANGED now
        /\ ActiveClaimsOf(t) = {}
    BY <1>3 DEF ClaimTaskExecution, Claimable
  <2>4. /\ c.status = "ACTIVE" /\ c.task = t /\ c.owner = NONE
    OBVIOUS
  <2> HIDE DEF c, r
  <2>5. entry[e] = "none" /\ claims[e].owner = NONE
    BY <1>a, <1>3 DEF Tables, RowOK
  <2>6. /\ DOMAIN claims' = Executions /\ DOMAIN entry' = Executions /\ DOMAIN run' = Executions
        /\ claims'[e] = c /\ run'[e] = r
        /\ \A f \in Executions \ {e} :
              claims'[f] = claims[f] /\ entry'[f] = entry[f] /\ run'[f] = run[f]
    BY <1>a, <2>3 DEF Tables
  <2>7. RowOK(e)' /\ RowStable(e)
    BY <1>a, <2>1, <2>2, <2>3, <2>4, <2>5, <2>6
       DEF RowOK, Held, Holds, Renewable, RunAt, RowStable, Queued
  <2>8. \A f \in ActiveClaims : claims[f].task # claims'[e].task
    BY <2>3, <2>4, <2>6 DEF ActiveClaimsOf
  <2> QED BY <1>a, <2>3, <2>6, <2>7, <2>8, OneRowChanges
<1>4. ASSUME UNCHANGED <<storeVars, run>>
      PROVE  RowsKept
  <2>1. UNCHANGED <<now, claims, entry, run>> /\ added' \subseteq Tasks
    BY <1>4, <1>a DEF storeVars, Tables
  <2>2. Tables
    BY <1>a
  <2> QED BY <2>1, <2>2, RowsUntouched
<1>5. RowsKept
  BY <1>3, <1>4 DEF Admit, t
<1> QED BY <1>2, <1>5

\* A recovery becomes the owner of a claim whose lease has run out, which no
\* executor of a living heartbeat holds any more.
LEMMA OwnershipKeepsInv ==
    ASSUME CoordinatorInv, NEW p \in Processes, NEW e \in Executions, ExamineClaim(p, e)
    PROVE  RowsKept /\ CommandMoves(p)
<1>a. /\ Tables /\ RowOK(e) /\ claims[e] \in Claim /\ now \in Nat
      /\ DOMAIN proc = Processes /\ DOMAIN proc[p] = CommandFields /\ At(p, "claims")
      /\ proc[p].phase \in {"startup", "drain"}
      /\ DOMAIN claims = Executions /\ DOMAIN entry = Executions /\ DOMAIN run = Executions
      /\ UNCHANGED <<entry, run, added>>
  BY DEF CoordinatorInv, CommandOK, Tables, RowOK, ExamineClaim, RunsStay, taskVars
<1>1. CASE ~Recoverable(e, now) /\ proc' = [proc EXCEPT ![p].todo = @ \ {e}] /\ UNCHANGED storeVars
  <2>1. UNCHANGED <<now, claims, entry, run>> /\ added' \subseteq Tasks
    BY <1>1, <1>a DEF storeVars, Tables
  <2>2. RowsKept
    BY <1>a, <2>1, RowsUntouched
  <2>3. CommandMoves(p)
    BY <1>1, <1>a DEF CommandMoves, CommandOK, At, CommandFields
  <2> QED BY <2>2, <2>3
<1>2. CASE /\ ClaimExpiredExecutionRecovery(e, p, now)
           /\ proc' = [proc EXCEPT ![p].pc = "owned", ![p].exec = e, ![p].task = claims[e].task,
                                   ![p].todo = @ \ {e}]
  <2> DEFINE c == [claims[e] EXCEPT !.owner = p, !.recoveryUntil = now + RecoveryLeaseDuration]
  <2>1. /\ now + RecoveryLeaseDuration \in Nat
        /\ p \in Owners /\ p # NONE
    BY <1>a, ClaimStoreAssumption, CoordinatorAssumption
  <2>2. c \in Claim /\ c.owner = p /\ c.status = claims[e].status /\ c.task = claims[e].task
    BY <1>a, <2>1 DEF Claim
  <2>3. claims' = [claims EXCEPT ![e] = c] /\ UNCHANGED now /\ Recoverable(e, now)
    BY <1>2 DEF ClaimExpiredExecutionRecovery
  <2> HIDE DEF c
  <2>4. LeasesKept => run[e].pc \notin Held
    BY <1>a, <2>3 DEF Recoverable, RowOK, Holds, Claim
  <2>5. /\ DOMAIN claims' = Executions /\ claims'[e] = c
        /\ \A f \in Executions \ {e} :
              claims'[f] = claims[f] /\ entry'[f] = entry[f] /\ run'[f] = run[f]
    BY <1>a, <2>3
  <2>6. RowOK(e)' /\ RowStable(e)
    BY <1>a, <2>1, <2>2, <2>3, <2>4, <2>5 DEF RowOK, Recoverable, RowStable, Queued
  <2>7. RowsKept
    BY <1>a, <2>2, <2>3, <2>5, <2>6, OneRowChanges
  <2>8. CommandMoves(p)
    BY <1>2, <1>a, <2>1, <2>2, <2>5 DEF CommandMoves, CommandOK, At, CommandFields
  <2> QED BY <2>7, <2>8
<1> QED BY <1>1, <1>2 DEF ExamineClaim

\* An owned recovery writes about an execution that is not queued.
LEMMA OwnedRecoveryKeepsInv ==
    ASSUME CoordinatorInv, NEW p \in Processes, InspectOwned(p) \/ RecoverOwned(p)
    PROVE  RowsKept /\ CommandMoves(p)
<1>a. /\ Tables /\ DOMAIN proc = Processes /\ DOMAIN proc[p] = CommandFields
      /\ proc[p].pc \in {"owned", "write"} /\ CommandOK(p)
      /\ proc[p].phase \in {"startup", "drain"}
  BY DEF CoordinatorInv, CommandOK, InspectOwned, RecoverOwned, At
<1>1. UNCHANGED <<now, claims, entry, run, added>>
  BY DEF InspectOwned, RecoverOwned, WriteOutcome, SetTaskStatus, RunsStay, rowVars, storeVars,
         taskVars
<1>2. RowsKept
  BY <1>1, <1>a, RowsUntouched DEF Tables
<1>3. /\ proc[p].exec \in Executions /\ claims[proc[p].exec].owner # NONE
      /\ LeasesKept /\ At(p, "write") => ~Queued(proc[p].exec)
  BY <1>a DEF CommandOK, At
<1>4. CASE InspectOwned(p)
  <2>1. \/ /\ ~Queued(proc[p].exec)
           /\ \E pc \in {"write", "settle"} :
                 proc' = [proc EXCEPT ![p].pc = pc, ![p].seen = taskStatus[proc[p].task],
                                      ![p].attempt = RunningAttempt(proc[p].task)]
        \/ Resume(p, "claims")
    BY <1>4 DEF InspectOwned, Inspected
  <2>2. CommandMoves(p)
    BY <1>a, <1>1, <1>3, <2>1 DEF Resume, CommandMoves, CommandOK, At, CommandFields, Queued
  <2> QED BY <1>2, <2>2
<1>5. CASE RecoverOwned(p)
  <2>1. \/ \E s \in RecoveryOutcomes(proc[p].seen) \cup {"MERGED"} :
              \/ proc' = [proc EXCEPT ![p].seen = s]
              \/ proc' = [proc EXCEPT ![p].pc = "settle", ![p].seen = s]
        \/ Resume(p, "claims")
        \/ proc' = [proc EXCEPT ![p] = Idle]
    BY <1>5 DEF RecoverOwned, MergeFailsLate
  <2>2. At(p, "write")
    BY <1>5 DEF RecoverOwned
  <2>3. CASE \E s \in RecoveryOutcomes(proc[p].seen) \cup {"MERGED"} :
                \/ proc' = [proc EXCEPT ![p].seen = s]
                \/ proc' = [proc EXCEPT ![p].pc = "settle", ![p].seen = s]
    <3>1. CommandMoves(p)
      BY <1>a, <1>1, <1>3, <2>2, <2>3 DEF CommandMoves, CommandOK, At, CommandFields, Queued
    <3> QED BY <1>2, <3>1
  <2>4. CASE Resume(p, "claims") \/ proc' = [proc EXCEPT ![p] = Idle]
    <3>1. CommandMoves(p)
      BY <1>a, <2>4 DEF Resume, Idle, CommandMoves, CommandOK, At, CommandFields
    <3> QED BY <1>2, <3>1
  <2> QED BY <2>1, <2>3, <2>4
<1> QED BY <1>4, <1>5

\* A claim is settled for its owner, or by the processor for its entry: in both
\* cases its executor is over.
LEMMA SettledRowIsKept ==
    ASSUME Tables, NEW e \in Executions, NEW s \in SettledStatuses, Settle(e, s),
           claims[e].owner # NONE \/ entry[e] # "none", UNCHANGED <<entry, run, added>>
    PROVE  RowsKept
<1>1. RowOK(e)
  BY DEF Tables
<1>2. LeasesKept => run[e].pc \notin Held
  BY <1>1 DEF RowOK, Holds, Renewable
<1>3. /\ UNCHANGED now /\ DOMAIN claims' = Executions
      /\ \A f \in Executions \ {e} : claims'[f] = claims[f]
      /\ claims'[e] \in Claim /\ claims'[e].status \notin {"ABSENT", "ACTIVE"}
      /\ claims'[e].owner = claims[e].owner
  BY SettlementOfARow
<1>4. RowOK(e)' /\ RowStable(e)
  BY <1>1, <1>2, <1>3 DEF RowOK, RowStable, Queued
<1>5. DOMAIN entry' = Executions /\ DOMAIN run' = Executions
  BY DEF Tables
<1> QED BY <1>3, <1>4, <1>5, OneRowChanges

\* The outcome of an owned recovery, and the entry it releases.
LEMMA SettlingKeepsInv ==
    ASSUME CoordinatorInv, NEW p \in Processes, SettleOwned(p) \/ ReleaseEntry(p)
    PROVE  RowsKept /\ CommandMoves(p)
<1>a. /\ Tables /\ DOMAIN proc = Processes /\ DOMAIN proc[p] = CommandFields
      /\ CommandOK(p) /\ UNCHANGED <<entry, run, added>>
      /\ proc[p].phase \in {"startup", "drain"}
  BY DEF CoordinatorInv, CommandOK, SettleOwned, ReleaseEntry, RunsStay, taskVars
<1>1. PICK e \in Executions : /\ e = proc[p].exec
                              /\ claims[e].owner # NONE \/ entry[e] # "none"
  BY <1>a DEF CommandOK, SettleOwned, ReleaseEntry, At
<1>2. PICK s \in SettledStatuses : s = ClaimStatusOf(proc[p].seen)
  BY DEF ClaimStatusOf, SettledStatuses
<1>3. CommandMoves(p)
  <2>1. \E pc \in {"claims", proc[p].phase} : Resume(p, pc)
    BY DEF SettleOwned, ReleaseEntry
  <2>2. CASE Resume(p, "claims")
    BY <1>a, <2>2 DEF Resume, CommandMoves, CommandOK, At, CommandFields
  <2>3. CASE Resume(p, proc[p].phase)
    BY <1>a, <2>3 DEF Resume, CommandMoves, CommandOK, At, CommandFields
  <2> QED BY <2>1, <2>2, <2>3
<1>4. Settle(e, s) \/ UNCHANGED storeVars
  BY <1>1, <1>2
     DEF SettleOwned, ReleaseEntry, ReleaseRecoveredTaskExecution, ReleaseTaskExecution
<1>5. ASSUME UNCHANGED storeVars
      PROVE  RowsKept
  <2>1. UNCHANGED <<now, claims, entry, run>> /\ added' \subseteq Tasks
    BY <1>5, <1>a DEF storeVars, Tables
  <2> QED BY <1>a, <2>1, RowsUntouched
<1> QED BY <1>a, <1>1, <1>3, <1>4, <1>5, SettledRowIsKept

\* An entry that is written stays an entry, and no other becomes one.
LEMMA EntryKeepsRows ==
    ASSUME Tables, NEW e \in Executions, NEW status \in {"INTEGRATING", "SETTLED"},
           Queued(e), entry' = [entry EXCEPT ![e] = status], UNCHANGED <<now, claims, run, added>>
    PROVE  RowsKept
<1>1. RowOK(e) /\ entry[e] # "none" /\ DOMAIN entry = Executions
  BY DEF Tables, Queued
<1>2. RowOK(e)' /\ RowStable(e)
  BY <1>1 DEF RowOK, Holds, RowStable, Queued
<1>3. /\ DOMAIN claims' = Executions /\ DOMAIN entry' = Executions /\ DOMAIN run' = Executions
      /\ \A f \in Executions \ {e} : entry'[f] = entry[f]
      /\ claims'[e].status = claims[e].status /\ claims'[e].task = claims[e].task
  BY <1>1 DEF Tables
<1> QED BY <1>2, <1>3, OneRowChanges

\* The processor works on one entry at a time.
LEMMA ProcessorKeepsInv ==
    ASSUME CoordinatorInv, NEW p \in Processes, RecoverAbandoned(p) \/ Integrate(p) \/ Drain(p)
    PROVE  RowsKept /\ CommandMoves(p)
<1>a. /\ Tables /\ DOMAIN proc = Processes /\ DOMAIN proc[p] = CommandFields
      /\ proc[p].phase \in {"startup", "drain"} /\ CommandOK(p)
      /\ UNCHANGED <<now, claims, run, added>>
  BY DEF CoordinatorInv, CommandOK, RecoverAbandoned, Integrate, Drain, SetTaskStatus, RunsStay,
         rowVars, storeVars, taskVars
<1>b. ASSUME UNCHANGED entry
      PROVE  RowsKept
  <2>1. UNCHANGED <<now, claims, entry, run>> /\ added' \subseteq Tasks
    BY <1>b, <1>a DEF Tables
  <2> QED BY <1>a, <2>1, RowsUntouched
<1>c. /\ DOMAIN entry = Executions
  BY <1>a DEF Tables
<1>1. CASE RecoverAbandoned(p)
  <2>1. RowsKept
    BY <1>1, <1>b DEF RecoverAbandoned, rowVars
  <2>2. CASE Goto(p, "listClaims")
    <3>1. CommandMoves(p)
      BY <1>a, <2>2 DEF Goto, CommandMoves, CommandOK, At, CommandFields
    <3> QED BY <2>1, <3>1
  <2>3. ASSUME NEW e \in Executions, Abandoned(e),
               proc' = [proc EXCEPT ![p].pc = "integrate", ![p].exec = e]
        PROVE  CommandMoves(p)
    BY <1>1, <1>a, <2>3
       DEF RecoverAbandoned, rowVars, Abandoned, CommandMoves, CommandOK, At, CommandFields
  <2> QED BY <1>1, <2>1, <2>2, <2>3 DEF RecoverAbandoned
<1>2. CASE Integrate(p)
  <2>1. PICK e \in Executions : e = proc[p].exec /\ entry[e] # "none"
    BY <1>2, <1>a DEF Integrate, CommandOK, At
  <2>2. ASSUME entry[e] = "INTEGRATING", entry' = [entry EXCEPT ![e] = "SETTLED"],
               NEW s \in TerminalStatuses \cup {"FAILED"},
               proc' = [proc EXCEPT ![p].pc = "release", ![p].seen = s]
        PROVE  RowsKept /\ CommandMoves(p)
    <3>1. RowsKept
      BY <1>a, <2>2, EntryKeepsRows DEF Queued
    <3>2. CommandMoves(p)
      BY <1>a, <1>c, <2>1, <2>2 DEF CommandMoves, CommandOK, At, CommandFields
    <3> QED BY <3>1, <3>2
  <2>3. ASSUME Resume(p, proc[p].phase), UNCHANGED entry
        PROVE  RowsKept /\ CommandMoves(p)
    <3>1. CommandMoves(p)
      BY <1>a, <2>3 DEF Resume, CommandMoves, CommandOK, At, CommandFields
    <3> QED BY <1>b, <2>3, <3>1
  <2> QED BY <1>2, <2>1, <2>2, <2>3 DEF Integrate, rowVars
<1>3. CASE Drain(p)
  <2>1. ASSUME NEW e \in Executions, entry[e] = "PENDING",
               entry' = [entry EXCEPT ![e] = "INTEGRATING"],
               NEW cycle,
               proc' = [proc EXCEPT ![p].pc = "integrate", ![p].exec = e, ![p].cycle = cycle]
        PROVE  RowsKept /\ CommandMoves(p)
    <3>1. RowsKept
      BY <1>a, <2>1, EntryKeepsRows DEF Queued
    <3>2. CommandMoves(p)
      BY <1>a, <1>c, <2>1 DEF CommandMoves, CommandOK, At, CommandFields
    <3> QED BY <3>1, <3>2
  <2>2. ASSUME UNCHANGED entry,
               \/ proc' = [proc EXCEPT ![p] = Idle]
               \/ proc' = [proc EXCEPT ![p] = [Idle EXCEPT !.pc = "tasks", !.phase = "drain"]]
        PROVE  RowsKept /\ CommandMoves(p)
    <3>1. CommandMoves(p)
      <4>1. CASE proc' = [proc EXCEPT ![p] = Idle]
        BY <1>a, <4>1 DEF Idle, CommandMoves, CommandOK, At, CommandFields
      <4>2. CASE proc' = [proc EXCEPT ![p] = [Idle EXCEPT !.pc = "tasks", !.phase = "drain"]]
        BY <1>a, <4>2 DEF Idle, CommandMoves, CommandOK, At, CommandFields
      <4> QED BY <2>2, <4>1, <4>2
    <3> QED BY <1>b, <2>2, <3>1
  <2>3. CASE /\ \A f \in Executions : ~Queued(f)
             /\ proc' = [proc EXCEPT ![p] = IF @.cycle = "progress"
                                            THEN [Idle EXCEPT !.pc = "tasks", !.phase = "drain"]
                                            ELSE Idle]
             /\ UNCHANGED entry
    BY <2>2, <2>3
  <2> QED BY <1>3, <2>1, <2>2, <2>3 DEF Drain
<1> QED BY <1>1, <1>2, <1>3

\* A dispatch is over when its executions are.
LEMMA DispatchKeepsInv ==
    ASSUME CoordinatorInv, NEW p \in Processes, DispatchEnds(p)
    PROVE  RowsKept /\ CommandMoves(p)
<1>a. /\ DOMAIN proc = Processes /\ DOMAIN proc[p] = CommandFields
      /\ proc[p].phase \in {"startup", "drain"}
  BY DEF CoordinatorInv, CommandOK
<1>1. RowsKept
  BY LeavingKeepsRows DEF CoordinatorInv, DispatchEnds, rowVars, storeVars, taskVars
<1>2. CommandMoves(p)
  BY <1>a DEF DispatchEnds, CommandMoves, CommandOK, At, CommandFields
<1> QED BY <1>1, <1>2

-----------------------------------------------------------------------------
(* The invariant is inductive *)

\* At first there are no claims, no executions and no entries.
LEMMA CoordinatorInvInit == Init => CoordinatorInv
<1> SUFFICES ASSUME Init PROVE CoordinatorInv
  OBVIOUS
<1>1. NoClaim \in Claim
  BY DEF NoClaim, Claim
<1>2. DOMAIN NoRun = RunFields /\ NoRun.pc = "none"
  BY DEF NoRun, RunFields
<1>3. \A e \in Executions : RowOK(e)
  BY <1>1, <1>2 DEF Init, RowOK, Held, NoClaim
<1>4. OneActiveClaimPerTask
  BY DEF Init, OneActiveClaimPerTask, ActiveClaims, NoClaim
<1>5. Tables
  BY <1>3, <1>4, CoordinatorAssumption DEF Init, Tables
<1>6. \A p \in Processes : CommandOK(p)
  BY DEF Init, CommandOK, At, Idle, CommandFields
<1> QED BY <1>5, <1>6 DEF Init, CoordinatorInv

\* Every step keeps the invariant, one lemma for each group of actions.
LEMMA CoordinatorInvStep == CoordinatorInv /\ [Next]_vars => CoordinatorInv'
<1> SUFFICES ASSUME CoordinatorInv, [Next]_vars
             PROVE  CoordinatorInv'
  OBVIOUS
<1>a. Tables
  BY DEF CoordinatorInv
<1>1. ASSUME NEW p \in Processes, StartCommand(p) \/ CommandStep(p) \/ Crash(p)
      PROVE  CoordinatorInv'
  <2>1. RowsKept /\ CommandMoves(p)
    <3>1. CASE StartCommand(p)
      BY <3>1, ReadersMoveFreely
    <3>2. CASE Crash(p)
      BY <3>2, CrashKeepsRows
    <3>3. CASE CommandStep(p)
      BY <3>3, ReadersMoveFreely, PlanningKeepsInv, AdmissionKeepsInv, OwnershipKeepsInv,
         OwnedRecoveryKeepsInv, SettlingKeepsInv, ProcessorKeepsInv, DispatchKeepsInv
         DEF CommandStep
    <3> QED BY <1>1, <3>1, <3>2, <3>3
  <2> QED BY <2>1, CommandKeepsInv
<1>2. ASSUME NEW e \in Executions,
             RunStep(e) \/ HeartbeatStep(e) \/ LeaseExpires(e) \/ RecoveryLeaseExpires(e)
      PROVE  CoordinatorInv'
  <2>1. UNCHANGED proc
    BY <1>2 DEF RunStep, HeartbeatStep, LeaseExpires, RecoveryLeaseExpires
  <2>2. CASE RunStep(e)
    <3>1. RowsKept
      BY <1>a, <2>2, ExecutionKeepsRows DEF RunStep, taskVars
    <3> QED BY <2>1, <3>1, NoCommandKeepsInv
  <2>3. CASE HeartbeatStep(e)
    <3>1. RowsKept
      BY <1>a, <2>3, BeatKeepsRows DEF HeartbeatStep, taskVars
    <3> QED BY <2>1, <3>1, NoCommandKeepsInv
  <2>4. CASE LeaseExpires(e) \/ RecoveryLeaseExpires(e)
    BY <1>a, <2>1, <2>4, ExpiryKeepsRows, NoCommandKeepsInv
  <2> QED BY <1>2, <2>2, <2>3, <2>4
<1>3. ASSUME NEW t \in Tasks, Retry(t) \/ AddTask(t) \/ Approve(t)
      PROVE  CoordinatorInv'
  BY <1>a, <1>3, UsersKeepRows, NoCommandKeepsInv
<1>4. CASE UNCHANGED vars
  <2>1. UNCHANGED <<now, claims, entry, run, proc>> /\ added' \subseteq Tasks
    BY <1>a, <1>4 DEF vars, rowVars, storeVars, taskVars, Tables
  <2> QED BY <1>a, <2>1, RowsUntouched, NoCommandKeepsInv
<1> QED BY <1>1, <1>2, <1>3, <1>4 DEF Next

\* The invariant holds in every reachable state.
LEMMA CoordinatorInvAlways == Spec => []CoordinatorInv
BY CoordinatorInvInit, CoordinatorInvStep, PTL DEF Spec

-----------------------------------------------------------------------------
(* What the steps do to the claim store *)

\* A status is written to a task, or to none.
LEMMA StatusIsWritten ==
    ASSUME StoreTypeOK, NEW t, NEW s \in TaskStatuses, SetTaskStatus(t, s)
    PROVE  QuietStep
<1>1. CASE t \in Tasks
  BY <1>1 DEF QuietStep
<1>2. CASE t \notin Tasks
  BY <1>2 DEF SetTaskStatus, StoreTypeOK, QuietStep, storeVars
<1> QED BY <1>1, <1>2

\* A status is written unless the transaction fails.
LEMMA ExecutionWrites ==
    ASSUME StoreTypeOK, NEW e \in Executions,
           EnterStage(e) \/ FailExecution(e) \/ WriteFailure(e), RowOK(e)
    PROVE  QuietStep
<1>1. \/ UNCHANGED storeVars
      \/ \E s \in TaskStatuses : SetTaskStatus(run[e].task, s)
  <2>1. CASE EnterStage(e)
    <3>1. Stages[run[e].stage] \in TaskStatuses
      BY <2>1, ThreeStages DEF EnterStage, RunAt, RowOK, ActiveStatuses, TaskStatuses
    <3> QED BY <2>1, <3>1 DEF EnterStage
  <2>2. CASE FailExecution(e)
    BY <2>2 DEF FailExecution, TaskStatuses
  <2>3. CASE WriteFailure(e)
    BY <2>3 DEF WriteFailure, TaskStatuses
  <2> QED BY <2>1, <2>2, <2>3
<1> QED BY <1>1, StatusIsWritten DEF QuietStep

\* An execution claims nothing: it renews its claim, writes the status of its
\* task and settles the claim with the verdict it chose.
LEMMA ExecutionIsAStoreStep ==
    ASSUME StoreTypeOK, NEW e \in Executions, RowOK(e), ExecutionStep(e)
    PROVE  StoreStep
<1>a. now \in 0..now
  BY DEF StoreTypeOK
<1>1. CASE EnterStage(e) \/ FailExecution(e) \/ WriteFailure(e)
  BY <1>1, ExecutionWrites DEF StoreStep
<1>2. CASE StartHeartbeat(e)
  BY <1>a, <1>2 DEF StartHeartbeat, StoreStep, QuietStep
<1>3. CASE Release(e) \/ ReleaseFailed(e)
  <2>1. run[e].verdict \in SettledStatuses
    BY <1>3 DEF Release, ReleaseFailed, RunAt, RowOK
  <2>2. \/ UNCHANGED storeVars
        \/ claims[e].status = "ACTIVE" /\ Settle(e, run[e].verdict)
    BY <1>3 DEF Release, ReleaseFailed, ReleaseTaskExecution, Releasable, Renewable
  <2> QED BY <2>1, <2>2 DEF StoreStep, QuietStep
<1>4. CASE \/ Execute(e) \/ CreateAttempt(e) \/ StageFails(e) \/ Enqueue(e) \/ ReadOutcome(e)
           \/ StopHeartbeat(e) \/ ReadFailure(e)
  <2>1. UNCHANGED storeVars
    BY <1>4 DEF Execute, CreateAttempt, StageFails, Enqueue, ReadOutcome, StopHeartbeat,
                ReadFailure, rowVars
  <2> QED BY <2>1 DEF StoreStep, QuietStep
<1> QED BY <1>1, <1>2, <1>3, <1>4 DEF ExecutionStep

\* A beat renews, and a lease that nobody renews runs out.
LEMMA LeasesAreStoreSteps ==
    ASSUME StoreTypeOK, NEW e \in Executions,
           Beat(e) \/ LeaseExpires(e) \/ RecoveryLeaseExpires(e)
    PROVE  StoreStep
<1>a. now \in 0..now
  BY DEF StoreTypeOK
<1>1. CASE Beat(e)
  BY <1>a, <1>1 DEF Beat, StoreStep, QuietStep
<1>2. CASE LeaseExpires(e) \/ RecoveryLeaseExpires(e)
  <2>1. LeaseLapses(e)
    BY <1>2 DEF LeaseExpires, RecoveryLeaseExpires, LeaseLapses
  <2> QED BY <2>1 DEF StoreStep, QuietStep
<1> QED BY <1>1, <1>2

\* What a recovery makes of a task is a status.
LEMMA OutcomesAreStatuses == \A status : RecoveryOutcomes(status) \subseteq TaskStatuses
BY DEF RecoveryOutcomes, TaskStatuses

\* A command claims for the first task of its plan, takes over an expired claim
\* under its own name, settles with the status it saw, or writes a status.
LEMMA CommandIsAStoreStep ==
    ASSUME StoreTypeOK, CoordinatorInv, NEW p \in Processes,
           StartCommand(p) \/ CommandStep(p) \/ Crash(p)
    PROVE  StoreStep
<1>a. now \in 0..now /\ p \in Owners
  BY CoordinatorAssumption DEF StoreTypeOK
<1>b. \A status : ClaimStatusOf(status) \in SettledStatuses
  BY DEF ClaimStatusOf, SettledStatuses
<1>1. CASE Admit(p)
  <2> DEFINE t == First(proc[p].todo)
  <2>1. t \in Tasks
    BY <1>1, FirstIsOneOfThem DEF CoordinatorInv, CommandOK, Admit
  <2>2. \/ UNCHANGED storeVars
        \/ \E e \in Executions : ClaimTaskExecution(e, t, now)
    BY <1>1 DEF Admit
  <2> QED BY <1>a, <2>1, <2>2 DEF StoreStep, QuietStep
<1>2. ASSUME NEW e \in Executions, ExamineClaim(p, e)
      PROVE  StoreStep
  BY <1>a, <1>2 DEF ExamineClaim, StoreStep, QuietStep
<1>3. CASE ReleaseEntry(p) \/ SettleOwned(p)
  <2>1. proc[p].exec \in Executions
    BY <1>3 DEF CoordinatorInv, CommandOK, ReleaseEntry, SettleOwned, At
  <2>2. \/ UNCHANGED storeVars
        \/ /\ claims[proc[p].exec].status = "ACTIVE"
           /\ Settle(proc[p].exec, ClaimStatusOf(proc[p].seen))
    BY <1>3 DEF ReleaseEntry, SettleOwned, ReleaseTaskExecution, Releasable, Renewable,
                ReleaseRecoveredTaskExecution, OwnsRecovery
  <2> QED BY <1>b, <2>1, <2>2 DEF StoreStep, QuietStep
<1>4. CASE Integrate(p) \/ RecoverOwned(p) \/ RecoverUnfinished(p)
  <2>1. \/ UNCHANGED storeVars
        \/ \E t, s : s \in TaskStatuses /\ SetTaskStatus(t, s)
    <3>1. CASE Integrate(p)
      BY <3>1 DEF Integrate, rowVars, TerminalStatuses, TaskStatuses
    <3>2. CASE RecoverOwned(p)
      BY <3>2, OutcomesAreStatuses DEF RecoverOwned, WriteOutcome, rowVars
    <3>3. CASE RecoverUnfinished(p)
      BY <3>3, OutcomesAreStatuses DEF RecoverUnfinished, WriteOutcome
    <3> QED BY <1>4, <3>1, <3>2, <3>3
  <2> QED BY <2>1, StatusIsWritten DEF StoreStep, QuietStep
<1>5. CASE \/ StartCommand(p) \/ Crash(p) \/ RecoverAbandoned(p) \/ ListClaims(p)
           \/ InspectOwned(p) \/ SkipClaimed(p) \/ ListUnfinished(p)
           \/ (\E t \in Tasks : InspectUnfinished(p, t)) \/ StartupEnds(p) \/ ListTasks(p)
           \/ Plan(p) \/ DispatchEnds(p) \/ Drain(p)
  <2>1. UNCHANGED storeVars
    BY <1>5 DEF StartCommand, Crash, RecoverAbandoned, ListClaims, InspectOwned, SkipClaimed,
                ListUnfinished, InspectUnfinished, StartupEnds, ListTasks, Plan, DispatchEnds,
                Drain, rowVars
  <2> QED BY <2>1 DEF StoreStep, QuietStep
<1> QED BY <1>1, <1>2, <1>3, <1>4, <1>5 DEF CommandStep

\* Every step is one that the claim store allows.
LEMMA CoordinatorTakesStoreSteps ==
    ASSUME StoreInv, CoordinatorInv, [Next]_vars
    PROVE  StoreStep
<1>a. StoreTypeOK
  BY DEF StoreInv
<1>1. ASSUME NEW p \in Processes, StartCommand(p) \/ CommandStep(p) \/ Crash(p)
      PROVE  StoreStep
  BY <1>a, <1>1, CommandIsAStoreStep
<1>2. ASSUME NEW e \in Executions, RunStep(e)
      PROVE  StoreStep
  BY <1>a, <1>2, ExecutionIsAStoreStep DEF RunStep, CoordinatorInv, Tables
<1>3. ASSUME NEW e \in Executions,
             HeartbeatStep(e) \/ LeaseExpires(e) \/ RecoveryLeaseExpires(e)
      PROVE  StoreStep
  BY <1>a, <1>3, LeasesAreStoreSteps DEF HeartbeatStep
<1>4. ASSUME NEW t \in Tasks, Retry(t) \/ AddTask(t) \/ Approve(t)
      PROVE  StoreStep
  BY <1>4 DEF Retry, AddTask, Approve, TransitionTaskStatusFrom, rowVars, StoreStep, QuietStep,
              TaskStatuses
<1>5. CASE UNCHANGED vars
  BY <1>5 DEF vars, rowVars, StoreStep, QuietStep
<1> QED BY <1>1, <1>2, <1>3, <1>4, <1>5 DEF Next

LEMMA CoordinatorStartsEmpty == Init => EmptyStore
BY DEF Init, EmptyStore, TaskStatuses

\* The store's invariant holds under the coordinators, whatever happens to
\* their heartbeats.
LEMMA CoordinatorKeepsTheStore == Spec => []StoreInv
<1>1. Init => StoreInv
  BY CoordinatorStartsEmpty, StoreInvInit
<1>2. CoordinatorInv /\ StoreInv /\ [Next]_vars => StoreInv'
  BY CoordinatorTakesStoreSteps, StoreInvStep
<1> QED BY <1>1, <1>2, CoordinatorInvAlways, PTL DEF Spec

-----------------------------------------------------------------------------
(* The dispatches *)

Started(e) == run[e].pc \notin {"none", "gone"}

\* What may be worked on as far as users have a say.
Allowed(t) ==
    /\ t \in NeedsApproval => t \in granted
    /\ DependsOn[t] \subseteq added

\* What a list says of approvals is still so.
ListOK(row) == DOMAIN row \subseteq added /\ \A t \in DOMAIN row : row[t].granted => t \in granted

PlanOK(p) ==
    /\ At(p, "plan") => ListOK(proc[p].snapshot)
    /\ At(p, "admit") => \A t \in proc[p].todo : Allowed(t)

\* An execution belongs to a dispatch that counts its task among the active ones.
Dispatched(e) ==
    Started(e) =>
       /\ run[e].by \in Processes /\ At(run[e].by, "admit")
       /\ run[e].task \in Tasks /\ run[e].task \in proc[run[e].by].busy
       /\ Allowed(run[e].task)

\* Of two tasks of one dispatch the later was compared with the earlier.
Compared(e, f) ==
    Started(e) /\ Started(f) /\ e # f /\ run[e].by = run[f].by =>
       ~Conflicting(run[e].task, run[f].task) \/ ~Conflicting(run[f].task, run[e].task)

\* A dispatch decides on a list that is older than its plan, and on a set of
\* active tasks that it keeps itself: what it promises rests on what can happen
\* meanwhile to the list (approvals and tasks are never taken back) and to the
\* set (the dispatch ends after its executions).
DispatchInv ==
    /\ \A p \in Processes : PlanOK(p)
    /\ \A e \in Executions : Dispatched(e)
    /\ \A e, f \in Executions : Compared(e, f)

PermissionsStay == added \subseteq added' /\ granted \subseteq granted'

\* Tasks and approvals are never taken back.
LEMMA StepsKeepPermissions == [Next]_vars => PermissionsStay
<1> SUFFICES ASSUME [Next]_vars PROVE PermissionsStay
  OBVIOUS
<1>1. ASSUME NEW p \in Processes, StartCommand(p) \/ CommandStep(p) \/ Crash(p)
      PROVE  UNCHANGED taskVars
  BY <1>1 DEF StartCommand, CommandStep, Crash, RecoverAbandoned, Integrate, ReleaseEntry,
              ListClaims, ExamineClaim, InspectOwned, RecoverOwned, SettleOwned, SkipClaimed,
              ListUnfinished, InspectUnfinished, RecoverUnfinished, StartupEnds, ListTasks, Plan,
              Admit, DispatchEnds, Drain, RunsStay, taskVars
<1>2. ASSUME NEW e \in Executions,
             RunStep(e) \/ HeartbeatStep(e) \/ LeaseExpires(e) \/ RecoveryLeaseExpires(e)
      PROVE  UNCHANGED taskVars
  BY <1>2 DEF RunStep, HeartbeatStep, LeaseExpires, RecoveryLeaseExpires, RunsStay, taskVars
<1>3. ASSUME NEW t \in Tasks, Retry(t) \/ AddTask(t) \/ Approve(t)
      PROVE  PermissionsStay
  BY <1>3 DEF Retry, AddTask, Approve, taskVars, PermissionsStay
<1> QED BY <1>1, <1>2, <1>3 DEF Next, vars, taskVars, PermissionsStay

\* No execution starts, and each keeps its process and its task.
StartedBefore ==
    \A e \in Executions : Started(e)' =>
       Started(e) /\ run'[e].by = run[e].by /\ run'[e].task = run[e].task

\* A plan stays sound while its process stays where it is.
LEMMA PlanStays ==
    ASSUME PermissionsStay, NEW p \in Processes, PlanOK(p), proc'[p] = proc[p]
    PROVE  PlanOK(p)'
<1>1. \A row : ListOK(row) => ListOK(row)'
  BY DEF ListOK, PermissionsStay
<1>2. \A t : Allowed(t) => Allowed(t)'
  BY DEF Allowed, PermissionsStay
<1>3. At(p, "plan")' => ListOK(proc[p].snapshot)'
  BY <1>1 DEF PlanOK, At, ListOK
<1> QED BY <1>2, <1>3 DEF PlanOK, At, ListOK

\* The executions stay within their dispatches: the step ends none before its
\* executions are over and forgets none of its active tasks.
LEMMA DispatchGoesOn ==
    ASSUME DispatchInv, PermissionsStay, StartedBefore,
           \A p \in Processes : PlanOK(p)',
           \A e \in Executions : Started(e)' =>
              /\ proc'[run[e].by].pc = "admit"
              /\ proc[run[e].by].busy \subseteq proc'[run[e].by].busy
    PROVE  DispatchInv'
<1>1. ASSUME NEW e \in Executions, Started(e)'
      PROVE  Dispatched(e)'
  <2> DEFINE t == run[e].task
             p == run[e].by
  <2>1. Started(e) /\ run'[e].by = p /\ run'[e].task = t
    BY <1>1 DEF StartedBefore
  <2>2. /\ p \in Processes /\ t \in Tasks /\ t \in proc[p].busy
        /\ t \in NeedsApproval => t \in granted
        /\ DependsOn[t] \subseteq added
    BY <2>1 DEF DispatchInv, Dispatched, Allowed
  <2>3. proc'[p].pc = "admit" /\ t \in proc'[p].busy
    BY <1>1, <2>2
  <2>4. t \in NeedsApproval => t \in granted'
    BY <2>2 DEF PermissionsStay
  <2>5. DependsOn[t] \subseteq added'
    BY <2>2 DEF PermissionsStay
  <2> QED BY <2>1, <2>2, <2>3, <2>4, <2>5 DEF Dispatched, Allowed, At
<1>2. \A e \in Executions : Dispatched(e)'
  BY <1>1 DEF Dispatched
<1>3. ASSUME NEW e \in Executions, NEW f \in Executions
      PROVE  Compared(e, f)'
  <2>1. Compared(e, f)
    BY DEF DispatchInv
  <2> QED BY <2>1 DEF Compared, StartedBefore
<1> QED BY <1>2, <1>3 DEF DispatchInv

\* A step of an execution, of time or of a user.
LEMMA NoCommandKeepsDispatch ==
    ASSUME DispatchInv, PermissionsStay, StartedBefore, UNCHANGED proc
    PROVE  DispatchInv'
<1>1. \A p \in Processes : PlanOK(p)'
  BY PlanStays DEF DispatchInv
<1>2. \A e \in Executions : Started(e)' => At(run[e].by, "admit")
  BY DEF StartedBefore, DispatchInv, Dispatched
<1> QED BY <1>1, <1>2, DispatchGoesOn DEF At

\* A step of a command that is not admitting, and whose executions, if it had
\* any, are over.
LEMMA OutsideDispatchKeepsInv ==
    ASSUME DispatchInv, PermissionsStay, NEW p \in Processes, StartedBefore,
           \A q \in Processes \ {p} : proc'[q] = proc[q], PlanOK(p)',
           \A e \in Executions : Started(e)' => run[e].by # p
    PROVE  DispatchInv'
<1>1. \A q \in Processes : PlanOK(q)'
  BY PlanStays DEF DispatchInv
<1>2. \A e \in Executions : Started(e)' => run[e].by \in Processes /\ At(run[e].by, "admit")
  BY DEF StartedBefore, DispatchInv, Dispatched
<1>3. \A e \in Executions : Started(e)' => proc'[run[e].by] = proc[run[e].by]
  BY <1>2
<1> QED BY <1>1, <1>2, <1>3, DispatchGoesOn DEF At

\* A command that is done with an entry or a claim looks for the next.
LEMMA WorkOnARowEnds ==
    ASSUME NEW p \in Processes, DOMAIN proc = Processes, DOMAIN proc[p] = CommandFields,
           proc[p].phase \in {"startup", "drain"},
           Integrate(p) \/ ReleaseEntry(p) \/ SettleOwned(p)
    PROVE  proc'[p].pc \in {"release", "startup", "drain", "claims"}
<1>1. CASE Integrate(p)
  <2>1. \/ Resume(p, proc[p].phase)
        \/ \E verdict : proc' = [proc EXCEPT ![p].pc = "release", ![p].seen = verdict]
    BY <1>1, Zenon DEF Integrate
  <2> QED BY <2>1 DEF Resume, CommandFields
<1>2. CASE ReleaseEntry(p) \/ SettleOwned(p)
  <2>1. \E pc \in {"startup", "drain", "claims"} : Resume(p, pc)
    BY <1>2 DEF ReleaseEntry, SettleOwned
  <2> QED BY <2>1 DEF Resume, CommandFields
<1> QED BY <1>1, <1>2

\* A command goes on to its next cycle or entry, or it is over.
LEMMA CommandGoesOn ==
    ASSUME DOMAIN proc = Processes, NEW p \in Processes, DOMAIN proc[p] = CommandFields,
           StartupEnds(p) \/ Drain(p)
    PROVE  /\ proc'[p].pc \in {"integrate", "idle", "tasks"}
           /\ \A q \in Processes \ {p} : proc'[q] = proc[q]
<1> DEFINE next == [Idle EXCEPT !.pc = "tasks", !.phase = "drain"]
<1>a. Idle.pc = "idle" /\ next.pc = "tasks"
  BY DEF Idle
<1> HIDE DEF next
<1>1. ASSUME NEW command \in {next, Idle}, proc' = [proc EXCEPT ![p] = command]
      PROVE  /\ proc'[p].pc \in {"integrate", "idle", "tasks"}
             /\ \A q \in Processes \ {p} : proc'[q] = proc[q]
  BY <1>a, <1>1
<1>2. CASE StartupEnds(p)
  BY <1>1, <1>2 DEF StartupEnds, next
<1>3. CASE Drain(p)
  <2>1. \/ \E e \in Executions :
              proc' = [proc EXCEPT ![p].pc = "integrate", ![p].exec = e,
                                   ![p].cycle = IF @ = "quiet" THEN "progress" ELSE @]
        \/ proc' = [proc EXCEPT ![p] = Idle]
        \/ proc' = [proc EXCEPT ![p] = IF @.cycle = "progress" THEN next ELSE Idle]
    BY <1>3, Zenon DEF Drain, next
  <2>2. ASSUME NEW e \in Executions,
               proc' = [proc EXCEPT ![p].pc = "integrate", ![p].exec = e,
                                    ![p].cycle = IF @ = "quiet" THEN "progress" ELSE @]
        PROVE  /\ proc'[p].pc \in {"integrate", "idle", "tasks"}
               /\ \A q \in Processes \ {p} : proc'[q] = proc[q]
    BY <2>2 DEF CommandFields
  <2>3. CASE proc' = [proc EXCEPT ![p] = IF @.cycle = "progress" THEN next ELSE Idle]
    BY <1>a, <2>3
  <2> QED BY <1>1, <2>1, <2>2, <2>3
<1> QED BY <1>2, <1>3

\* The steps of a command outside its dispatch.
LEMMA NoDispatchMoves ==
    ASSUME CoordinatorInv, NEW p \in Processes,
           \/ StartCommand(p) \/ RecoverAbandoned(p) \/ Integrate(p) \/ ReleaseEntry(p)
           \/ ListClaims(p) \/ (\E e \in Executions : ExamineClaim(p, e))
           \/ InspectOwned(p) \/ RecoverOwned(p) \/ SettleOwned(p)
           \/ SkipClaimed(p) \/ ListUnfinished(p)
           \/ (\E t \in Tasks : InspectUnfinished(p, t))
           \/ RecoverUnfinished(p) \/ StartupEnds(p) \/ Drain(p)
    PROVE  /\ UNCHANGED run /\ ~At(p, "admit")
           /\ \A q \in Processes \ {p} : proc'[q] = proc[q]
           /\ proc'[p].pc \notin {"plan", "admit"}
<1>a. DOMAIN proc = Processes /\ DOMAIN proc[p] = CommandFields /\ proc[p].phase \in {"startup", "drain"}
  BY DEF CoordinatorInv, CommandOK
<1>1. UNCHANGED run /\ ~At(p, "admit")
  BY DEF StartCommand, RecoverAbandoned, Integrate, ReleaseEntry, ListClaims, ExamineClaim,
         InspectOwned, RecoverOwned, SettleOwned, SkipClaimed, ListUnfinished, InspectUnfinished,
         RecoverUnfinished, StartupEnds, Drain, RunsStay, At
<1>2. \A q \in Processes \ {p} : proc'[q] = proc[q]
  <2>1. CASE \/ StartCommand(p) \/ RecoverAbandoned(p) \/ Integrate(p) \/ ReleaseEntry(p)
             \/ ListClaims(p) \/ (\E e \in Executions : ExamineClaim(p, e))
    BY <1>a, <2>1 DEF StartCommand, RecoverAbandoned, Integrate, ReleaseEntry, ListClaims,
                      ExamineClaim, Goto, Resume
  <2>2. CASE InspectOwned(p) \/ RecoverOwned(p) \/ SettleOwned(p)
    BY <1>a, <2>2 DEF InspectOwned, Inspected, RecoverOwned, MergeFailsLate, SettleOwned,
                            Resume
  <2>3. CASE SkipClaimed(p) \/ ListUnfinished(p) \/ (\E t \in Tasks : InspectUnfinished(p, t))
    BY <1>a, <2>3 DEF SkipClaimed, ListUnfinished, InspectUnfinished
  <2>4. CASE RecoverUnfinished(p) \/ StartupEnds(p) \/ Drain(p)
    BY <1>a, <2>4, CommandGoesOn DEF RecoverUnfinished, MergeFailsLate, Resume
  <2> QED BY <2>1, <2>2, <2>3, <2>4
<1>b. Idle.pc = "idle" /\ [Idle EXCEPT !.pc = "tasks", !.phase = "drain"].pc = "tasks"
  BY DEF Idle
<1>3. proc'[p].pc \notin {"plan", "admit"}
  <2>1. CASE StartCommand(p) \/ RecoverAbandoned(p) \/ ListClaims(p) \/ SkipClaimed(p)
             \/ ListUnfinished(p)
    BY <1>a, <2>1 DEF StartCommand, RecoverAbandoned, ListClaims, SkipClaimed, ListUnfinished,
                      Goto, CommandFields
  <2>2. CASE InspectOwned(p) \/ Integrate(p) \/ ReleaseEntry(p) \/ SettleOwned(p)
    <3>1. CASE InspectOwned(p)
      BY <1>a, <3>1 DEF InspectOwned, Inspected, Resume, CommandFields
    <3>2. CASE ~InspectOwned(p)
      BY <1>a, <2>2, <3>2, WorkOnARowEnds
    <3> QED BY <3>1, <3>2
  <2>3. ASSUME NEW e \in Executions, ExamineClaim(p, e)
        PROVE  proc'[p].pc \in {"claims", "owned"}
    <3>1. At(p, "claims")
      BY <2>3 DEF ExamineClaim
    <3>2. \/ proc' = [proc EXCEPT ![p].todo = @ \ {e}]
          \/ proc' = [proc EXCEPT ![p].pc = "owned", ![p].exec = e, ![p].task = claims[e].task,
                                  ![p].todo = @ \ {e}]
      BY <2>3 DEF ExamineClaim
    <3> QED BY <1>a, <3>1, <3>2 DEF At, CommandFields
  <2>4. ASSUME NEW t \in Tasks, InspectUnfinished(p, t)
        PROVE  proc'[p].pc \in {"unfinished", "reconcile"}
    <3>1. At(p, "unfinished")
      BY <2>4 DEF InspectUnfinished
    <3>2. \/ proc' = [proc EXCEPT ![p].todo = @ \ {t}]
          \/ \E n \in {RunningAttempt(t), Len(attempts[t])} :
                proc' = [proc EXCEPT ![p].pc = "reconcile", ![p].task = t, ![p].todo = @ \ {t},
                                     ![p].seen = taskStatus[t], ![p].attempt = n]
      BY <2>4 DEF InspectUnfinished
    <3> QED BY <1>a, <3>1, <3>2 DEF At, CommandFields
  <2>5. CASE RecoverUnfinished(p)
    BY <1>a, <2>5 DEF RecoverUnfinished, MergeFailsLate, Resume, At, CommandFields
  <2>6. CASE RecoverOwned(p)
    BY <1>a, <1>b, <2>6 DEF RecoverOwned, MergeFailsLate, Resume, At, CommandFields
  <2>7. CASE StartupEnds(p) \/ Drain(p)
    BY <1>a, <2>7, CommandGoesOn
  <2> QED BY <2>1, <2>2, <2>3, <2>4, <2>5, <2>6, <2>7
<1> QED BY <1>1, <1>2, <1>3

LEMMA NoDispatchKeepsInv ==
    ASSUME CoordinatorInv, DispatchInv, PermissionsStay, NEW p \in Processes,
           UNCHANGED run, ~At(p, "admit"),
           \A q \in Processes \ {p} : proc'[q] = proc[q],
           proc'[p].pc \notin {"plan", "admit"}
    PROVE  DispatchInv'
<1>1. StartedBefore /\ PlanOK(p)'
  BY DEF StartedBefore, Started, PlanOK, At
<1>2. \A e \in Executions : Started(e)' => run[e].by # p
  BY DEF Started, DispatchInv, Dispatched
<1> QED BY <1>1, <1>2, OutsideDispatchKeepsInv

\* A dispatch that is over, or whose process died, has no executions.
LEMMA LeavingKeepsDispatch ==
    ASSUME CoordinatorInv, DispatchInv, PermissionsStay, NEW p \in Processes,
           Crash(p) \/ DispatchEnds(p)
    PROVE  DispatchInv' /\ proc'[p].pc \in {"idle", "drain"}
<1>a. DOMAIN proc = Processes /\ DOMAIN proc[p] = CommandFields /\ Idle.pc = "idle"
  BY DEF CoordinatorInv, CommandOK, Idle
<1>1. proc'[p].pc \in {"idle", "drain"} /\ \A q \in Processes \ {p} : proc'[q] = proc[q]
  <2>1. CASE Crash(p)
    BY <1>a, <2>1 DEF Crash
  <2>2. CASE DispatchEnds(p)
    BY <1>a, <2>2 DEF DispatchEnds, CommandFields
  <2> QED BY <2>1, <2>2
<1>2. ASSUME NEW e \in Executions, Started(e)'
      PROVE  run'[e] = run[e] /\ run[e].by # p
  <2>1. Leave(p)
    BY DEF Crash, DispatchEnds
  <2>2. CASE e \in Own(p)
    <3>1. run'[e] = [NoRun EXCEPT !.pc = "gone", !.attempt = QueuedAttempt(e)]
      BY <2>1, <2>2 DEF Leave
    <3>2. run'[e].pc = "gone"
      BY <3>1 DEF NoRun
    <3> QED BY <1>2, <3>2 DEF Started
  <2>3. CASE e \notin Own(p)
    <3>1. run'[e] = run[e]
      BY <2>1, <2>3 DEF Leave
    <3> QED BY <1>2, <2>3, <3>1 DEF Own, Started
  <2> QED BY <2>2, <2>3
<1>3. StartedBefore /\ PlanOK(p)'
  BY <1>1, <1>2 DEF StartedBefore, Started, PlanOK, At
<1> QED BY <1>1, <1>2, <1>3, OutsideDispatchKeepsInv

\* The list is read in one step, and the plan made of it in another.
LEMMA PlanningKeepsDispatch ==
    ASSUME CoordinatorInv, DispatchInv, PermissionsStay, NEW p \in Processes,
           ListTasks(p) \/ Plan(p)
    PROVE  DispatchInv'
<1>a. /\ DOMAIN proc = Processes /\ DOMAIN proc[p] = CommandFields /\ added \subseteq Tasks
      /\ PlanOK(p)
  BY DEF CoordinatorInv, CommandOK, Tables, DispatchInv
<1>1. UNCHANGED <<run, added, granted>> /\ ~At(p, "admit")
  BY DEF ListTasks, Plan, RunsStay, taskVars, At
<1>2. StartedBefore /\ \A e \in Executions : Started(e)' => run[e].by # p
  BY <1>1 DEF StartedBefore, Started, DispatchInv, Dispatched
<1>3. \A q \in Processes \ {p} : proc'[q] = proc[q]
  BY <1>a, PlannedTasks DEF ListTasks
<1>4. CASE ListTasks(p)
  <2>0. PICK row : row = [t \in added |-> [status |-> taskStatus[t], granted |-> t \in granted]]
    OBVIOUS
  <2>1. proc' = [proc EXCEPT ![p].pc = "plan", ![p].snapshot = row]
    BY <1>4, <2>0 DEF ListTasks
  <2>2. ListOK(row)
    BY <2>0 DEF ListOK
  <2>3. ListOK(row)'
    BY <1>1, <2>2 DEF ListOK
  <2>4. proc'[p].pc = "plan" /\ proc'[p].snapshot = row
    BY <1>a, <2>1 DEF CommandFields
  <2>5. PlanOK(p)'
    BY <2>3, <2>4 DEF PlanOK, At
  <2> QED BY <1>2, <1>3, <2>5, OutsideDispatchKeepsInv
<1>5. CASE Plan(p)
  <2> DEFINE row == proc[p].snapshot
             claimed == {claims[e].task : e \in ActiveClaims}
  <2>1. PICK available \in SUBSET DOMAIN Offered :
           proc'[p].pc = "admit" /\ proc'[p].todo = Runnable(row, DOMAIN row \ claimed, available)
    BY <1>5, PlannedTasks
  <2>2. ListOK(row)
    BY <1>5, <1>a DEF Plan, PlanOK
  <2>3. \A t \in Runnable(row, DOMAIN row \ claimed, available) : Allowed(t)
    BY <2>2 DEF Runnable, ListOK, Allowed
  <2>4. \A t \in Runnable(row, DOMAIN row \ claimed, available) : Allowed(t)'
    BY <1>1, <2>3 DEF Allowed
  <2>5. PlanOK(p)'
    BY <2>1, <2>4 DEF PlanOK, At
  <2> QED BY <1>2, <1>3, <2>5, OutsideDispatchKeepsInv
<1> QED BY <1>4, <1>5

\* An execution starts for a task that was compared with all of its dispatch.
StartsExecution(p, e, t) ==
    /\ ClaimTaskExecution(e, t, now) /\ ~Conflicts(p, t)
    /\ run' = [run EXCEPT ![e] = [NoRun EXCEPT !.pc = "create", !.by = p, !.task = t]]
    /\ t \in proc'[p].busy /\ t \notin proc'[p].todo

\* Admission goes through the plan, and starts one execution or none.
LEMMA AdmissionMoves ==
    ASSUME CoordinatorInv, NEW p \in Processes, Admit(p)
    PROVE  /\ First(proc[p].todo) \in proc[p].todo /\ First(proc[p].todo) \in Tasks
           /\ proc'[p].pc = "admit" /\ proc'[p].todo \subseteq proc[p].todo
           /\ proc[p].busy \subseteq proc'[p].busy
           /\ \A q \in Processes \ {p} : proc'[q] = proc[q]
           /\ UNCHANGED <<added, granted, taskStatus>>
           /\ \/ UNCHANGED run
              \/ \E e \in Executions : StartsExecution(p, e, First(proc[p].todo))
<1> DEFINE t == First(proc[p].todo)
<1>a. /\ DOMAIN proc = Processes /\ DOMAIN proc[p] = CommandFields /\ At(p, "admit")
      /\ UNCHANGED <<added, granted, taskStatus>>
  BY DEF CoordinatorInv, CommandOK, Admit, ClaimTaskExecution, storeVars, taskVars
<1>b. t \in proc[p].todo /\ t \in Tasks
  BY <1>a, FirstIsOneOfThem DEF CoordinatorInv, CommandOK, Admit
<1> HIDE DEF t
<1>1. /\ proc'[p].pc = "admit" /\ proc'[p].todo \subseteq proc[p].todo
      /\ proc[p].busy \subseteq proc'[p].busy
      /\ \A q \in Processes \ {p} : proc'[q] = proc[q]
  BY <1>a DEF Admit, At, CommandFields
<1>2. UNCHANGED run \/ \E e \in Executions : StartsExecution(p, e, t)
  <2>1. CASE \E e \in Executions :
                /\ ClaimTaskExecution(e, t, now) /\ ~Conflicts(p, t)
                /\ run' = [run EXCEPT ![e] = [NoRun EXCEPT !.pc = "create", !.by = p, !.task = t]]
                /\ proc' = [proc EXCEPT ![p].todo = @ \ {t}, ![p].busy = @ \cup {t},
                                        ![p].slots = @ + 1]
    <3>1. t \in proc'[p].busy /\ t \notin proc'[p].todo
      BY <1>a, <2>1 DEF CommandFields
    <3> QED BY <2>1, <3>1 DEF StartsExecution
  <2> QED BY <2>1 DEF Admit, t
<1> QED BY <1>a, <1>b, <1>1, <1>2 DEF t

\* The admitted task was compared with every task of the dispatch.
LEMMA AdmissionKeepsDispatch ==
    ASSUME CoordinatorInv, DispatchInv, PermissionsStay, NEW p \in Processes, Admit(p)
    PROVE  DispatchInv'
<1> DEFINE t == First(proc[p].todo)
<1>a. DOMAIN run = Executions /\ At(p, "admit") /\ PlanOK(p)
  BY DEF CoordinatorInv, Tables, DispatchInv, Admit
<1>b. /\ t \in proc[p].todo /\ t \in Tasks
      /\ proc'[p].pc = "admit" /\ proc'[p].todo \subseteq proc[p].todo
      /\ proc[p].busy \subseteq proc'[p].busy
      /\ \A q \in Processes \ {p} : proc'[q] = proc[q]
      /\ UNCHANGED <<added, granted>>
      /\ UNCHANGED run \/ \E e \in Executions : StartsExecution(p, e, t)
  BY AdmissionMoves
<1> HIDE DEF t
<1>c. \A u \in proc[p].todo : Allowed(u)'
  BY <1>a, <1>b DEF PlanOK, Allowed
<1>d. \A f \in Executions :
         Started(f) => /\ run[f].by \in Processes /\ At(run[f].by, "admit")
                       /\ run[f].task \in Tasks /\ run[f].task \in proc[run[f].by].busy
                       /\ Allowed(run[f].task)
  BY DEF DispatchInv, Dispatched
<1>e. \A f \in Executions :
         Started(f) => /\ proc'[run[f].by].pc = "admit"
                       /\ proc[run[f].by].busy \subseteq proc'[run[f].by].busy
  BY <1>b, <1>d DEF At
<1>1. \A q \in Processes : PlanOK(q)'
  <2>1. PlanOK(p)'
    BY <1>b, <1>c DEF PlanOK, At
  <2> QED BY <1>b, <2>1, PlanStays DEF DispatchInv
<1>2. ASSUME UNCHANGED run
      PROVE  DispatchInv'
  <2>1. StartedBefore
    BY <1>2 DEF StartedBefore, Started
  <2>2. \A e \in Executions : Started(e)' <=> Started(e)
    BY <1>2 DEF Started
  <2> QED BY <1>e, <1>1, <2>1, <2>2, DispatchGoesOn
<1>3. ASSUME NEW e \in Executions, StartsExecution(p, e, t)
      PROVE  DispatchInv'
  <2> DEFINE r == [NoRun EXCEPT !.pc = "create", !.by = p, !.task = t]
  <2>1. r.pc = "create" /\ r.by = p /\ r.task = t
    BY DEF NoRun
  <2>2. run' = [run EXCEPT ![e] = r]
    BY <1>3 DEF StartsExecution
  <2> HIDE DEF r
  <2>3. run'[e] = r /\ \A f \in Executions \ {e} : run'[f] = run[f]
    BY <1>a, <2>2
  <2>4. Dispatched(e)'
    BY <1>3, <1>b, <1>c, <2>1, <2>3 DEF Dispatched, Allowed, At, StartsExecution
  <2>5. ASSUME NEW f \in Executions \ {e}
        PROVE  Dispatched(f)'
    <3>1. CASE Started(f)
      BY <1>b, <1>d, <1>e, <2>3, <3>1 DEF Dispatched, Started, At, Allowed
    <3>2. CASE ~Started(f)
      BY <2>3, <3>2 DEF Dispatched, Started
    <3> QED BY <3>1, <3>2
  <2>6. \A f \in Executions : Started(f) /\ run[f].by = p => ~Conflicting(t, run[f].task)
    BY <1>d, <1>3 DEF Conflicts, StartsExecution
  <2>7. \A f, g \in Executions : Compared(f, g)'
    <3>1. ASSUME NEW f \in Executions \ {e}, NEW g \in Executions \ {e}
          PROVE  Compared(f, g)'
      BY <2>3 DEF DispatchInv, Compared, Started
    <3>2. ASSUME NEW f \in Executions \ {e}
          PROVE  Compared(e, f)' /\ Compared(f, e)'
      BY <2>1, <2>3, <2>6 DEF Compared, Started
    <3>3. Compared(e, e)'
      BY DEF Compared
    <3> QED BY <3>1, <3>2, <3>3
  <2> QED BY <1>1, <2>4, <2>5, <2>7 DEF DispatchInv
<1> QED BY <1>b, <1>2, <1>3

\* An execution keeps its task and its process, to the end.
LEMMA ExecutionKeepsItsTask ==
    ASSUME CoordinatorInv, NEW e \in Executions, ExecutionStep(e)
    PROVE  StartedBefore
<1>a. DOMAIN run = Executions /\ DOMAIN run[e] = RunFields
  BY DEF CoordinatorInv, Tables, RowOK
<1>1. Started(e)
  BY DEF ExecutionStep, StartHeartbeat, Execute, CreateAttempt, EnterStage,
         StageFails, Enqueue, FailExecution, ReadOutcome, Release, StopHeartbeat, ReadFailure,
         WriteFailure, ReleaseFailed, RunAt, Started
<1>2. ASSUME NEW recovery, EndRun(e, recovery)
      PROVE  /\ \A f \in Executions \ {e} : run'[f] = run[f]
             /\ run'[e].by = run[e].by /\ run'[e].task = run[e].task
  BY <1>a, <1>2, ExecutionEnds
<1>3. /\ \A f \in Executions \ {e} : run'[f] = run[f]
      /\ run'[e].by = run[e].by /\ run'[e].task = run[e].task
  <2>1. CASE StartHeartbeat(e) \/ Execute(e) \/ CreateAttempt(e) \/ EnterStage(e) \/ StageFails(e)
    BY <1>a, <2>1 DEF StartHeartbeat, Execute, CreateAttempt, EnterStage, StageFails, Returns,
                      RunTo, RunFields
  <2>2. CASE Enqueue(e) \/ FailExecution(e) \/ ReadOutcome(e)
    BY <1>a, <2>2 DEF Enqueue, FailExecution, ReadOutcome, Returns, RunTo, RunFields
  <2>3. CASE Release(e) \/ StopHeartbeat(e) \/ WriteFailure(e) \/ ReleaseFailed(e)
    <3>1. RunTo(e, "stop") \/ RunTo(e, "releaseFailed") \/ \E recovery : EndRun(e, recovery)
      BY <2>3, Zenon DEF Release, StopHeartbeat, WriteFailure, ReleaseFailed
    <3> QED BY <1>a, <1>2, <3>1 DEF RunTo, RunFields
  <2>4. CASE ReadFailure(e)
    <3>1. CASE run[e].beat = "failed" \/ Queued(e)
      BY <1>2, <2>4, <3>1 DEF ReadFailure
    <3>2. CASE ~(run[e].beat = "failed" \/ Queued(e))
      BY <1>a, <2>4, <3>2 DEF ReadFailure, RunFields
    <3> QED BY <3>1, <3>2
  <2> QED BY <2>1, <2>2, <2>3, <2>4 DEF ExecutionStep
<1> QED BY <1>1, <1>3 DEF Started, StartedBefore

\* Nobody but a dispatch starts an execution.
LEMMA OthersStartNothing ==
    ASSUME CoordinatorInv,
           \/ \E e \in Executions : \/ RunStep(e) \/ HeartbeatStep(e)
                                  \/ LeaseExpires(e) \/ RecoveryLeaseExpires(e)
           \/ \E t \in Tasks : Retry(t) \/ AddTask(t) \/ Approve(t)
           \/ UNCHANGED vars
    PROVE  StartedBefore /\ UNCHANGED proc
<1>1. ASSUME NEW e \in Executions, RunStep(e)
      PROVE  StartedBefore /\ UNCHANGED proc
  BY <1>1, ExecutionKeepsItsTask DEF RunStep
<1>2. ASSUME NEW e \in Executions, HeartbeatStep(e)
      PROVE  StartedBefore /\ UNCHANGED proc
  <2>1. UNCHANGED run \/ run' = [run EXCEPT ![e].beat = "failed"]
    BY <1>2 DEF HeartbeatStep, Beat
  <2>2. DOMAIN run = Executions /\ DOMAIN run[e] = RunFields
    BY DEF CoordinatorInv, Tables, RowOK
  <2> QED BY <1>2, <2>1, <2>2 DEF HeartbeatStep, Started, StartedBefore, RunFields
<1>3. ASSUME \/ \E e \in Executions : LeaseExpires(e) \/ RecoveryLeaseExpires(e)
             \/ \E t \in Tasks : Retry(t) \/ AddTask(t) \/ Approve(t)
             \/ UNCHANGED vars
      PROVE  StartedBefore /\ UNCHANGED proc
  <2>1. UNCHANGED <<run, proc>>
    BY <1>3 DEF LeaseExpires, RecoveryLeaseExpires, RunsStay, Retry, AddTask, Approve, vars
  <2> QED BY <2>1 DEF Started, StartedBefore
<1> QED BY <1>1, <1>2, <1>3

LEMMA DispatchInvInit == Init => DispatchInv
BY DEF Init, NoRun, Idle, At, Started, DispatchInv, PlanOK, Dispatched, Compared

LEMMA DispatchInvStep == CoordinatorInv /\ DispatchInv /\ [Next]_vars => DispatchInv'
<1> SUFFICES ASSUME CoordinatorInv, DispatchInv, [Next]_vars
             PROVE  DispatchInv'
  OBVIOUS
<1>a. PermissionsStay
  BY StepsKeepPermissions
<1>1. ASSUME NEW p \in Processes, StartCommand(p) \/ CommandStep(p) \/ Crash(p)
      PROVE  DispatchInv'
  <2>1. CASE Crash(p) \/ DispatchEnds(p)
    BY <1>a, <2>1, LeavingKeepsDispatch
  <2>2. CASE ListTasks(p) \/ Plan(p)
    BY <1>a, <2>2, PlanningKeepsDispatch
  <2>3. CASE Admit(p)
    BY <1>a, <2>3, AdmissionKeepsDispatch
  <2>4. CASE ~(Crash(p) \/ DispatchEnds(p) \/ ListTasks(p) \/ Plan(p) \/ Admit(p))
    BY <1>a, <1>1, <2>4, NoDispatchMoves, NoDispatchKeepsInv DEF CommandStep
  <2> QED BY <2>1, <2>2, <2>3, <2>4
<1>2. ASSUME \/ \E e \in Executions : \/ RunStep(e) \/ HeartbeatStep(e)
                                    \/ LeaseExpires(e) \/ RecoveryLeaseExpires(e)
             \/ \E t \in Tasks : Retry(t) \/ AddTask(t) \/ Approve(t)
             \/ UNCHANGED vars
      PROVE  DispatchInv'
  BY <1>a, <1>2, OthersStartNothing, NoCommandKeepsDispatch
<1> QED BY <1>1, <1>2 DEF Next

LEMMA DispatchInvAlways == Spec => []DispatchInv
BY DispatchInvInit, DispatchInvStep, CoordinatorInvAlways, PTL DEF Spec

-----------------------------------------------------------------------------
(* One process *)

\* No other process uses the store.
Alone == \A p, q \in Processes : p = q

\* What has to be so of a task's dependencies before it is worked on.
Met(t) == \A d \in DependsOn[t] : taskStatus[d] = "DONE"

\* What the plan takes for DONE is still DONE when an execution starts, and as
\* long as it runs.  Only what a process does itself can be told to leave a DONE
\* task alone: another one's late recovery or executor may take it back.
DueInv ==
    /\ \A p \in Processes :
          /\ At(p, "plan") =>
                \A t \in DOMAIN proc[p].snapshot :
                   proc[p].snapshot[t].status # "DONE" \/ taskStatus[t] = "DONE"
          /\ At(p, "admit") => \A t \in proc[p].todo : Met(t)
    /\ \A e \in Executions :
          Started(e) => Met(run[e].task) /\ taskStatus[run[e].task] # "DONE"

\* No task becomes DONE or is taken back.
DoneStays == \A t \in Tasks : taskStatus'[t] = "DONE" <=> taskStatus[t] = "DONE"

\* A process that is alone has executions only while it admits.
LEMMA NothingIsStarted ==
    ASSUME Alone, DispatchInv, NEW p \in Processes, ~At(p, "admit")
    PROVE  \A e \in Executions : ~Started(e)
BY DEF DispatchInv, Dispatched, Alone

\* Where a process that is alone neither plans nor admits there is nothing to
\* show.
LEMMA NoDispatchIsDue ==
    ASSUME Alone, DispatchInv', NEW p \in Processes, proc'[p].pc \notin {"plan", "admit"}
    PROVE  DueInv'
<1>1. \A e \in Executions : ~Started(e)'
  BY DEF DispatchInv, Dispatched, Alone, At
<1> QED BY <1>1 DEF DueInv, Alone, At

\* What is due stays due as long as no task becomes DONE or is taken back.
LEMMA DueStays ==
    ASSUME CoordinatorInv, DispatchInv, DueInv, DoneStays, StartedBefore, UNCHANGED proc
    PROVE  DueInv'
<1>a. \A p \in Processes :
         /\ At(p, "plan") => DOMAIN proc[p].snapshot \subseteq Tasks
         /\ At(p, "admit") => proc[p].todo \subseteq Tasks
  BY DEF CoordinatorInv, CommandOK
<1>b. \A t \in Tasks : DependsOn[t] \subseteq Tasks
  BY CoordinatorAssumption
<1>1. ASSUME NEW p \in Processes, At(p, "plan")
      PROVE  \A t \in DOMAIN proc[p].snapshot :
                proc[p].snapshot[t].status # "DONE" \/ taskStatus'[t] = "DONE"
  BY <1>a, <1>1 DEF DueInv, DoneStays
<1>2. ASSUME NEW p \in Processes, At(p, "admit")
      PROVE  \A t \in proc[p].todo : Met(t)'
  BY <1>a, <1>b, <1>2 DEF DueInv, DoneStays, Met
<1>3. ASSUME NEW e \in Executions, Started(e)'
      PROVE  Met(run[e].task)' /\ taskStatus'[run'[e].task] # "DONE"
  BY <1>b, <1>3 DEF StartedBefore, DueInv, DispatchInv, Dispatched, DoneStays, Met
<1> QED BY <1>1, <1>2, <1>3 DEF DueInv, At

\* What a new list takes for DONE is DONE, and so is what a plan takes from it.
LEMMA PlanningIsDue ==
    ASSUME Alone, CoordinatorInv, DispatchInv, DueInv, NEW p \in Processes, ListTasks(p) \/ Plan(p)
    PROVE  DueInv'
<1>a. DOMAIN proc = Processes /\ DOMAIN proc[p] = CommandFields /\ \A q \in Processes : q = p
  BY DEF CoordinatorInv, CommandOK, Alone
<1>1. UNCHANGED <<run, taskStatus>> /\ ~At(p, "admit")
  BY DEF ListTasks, Plan, RunsStay, rowVars, storeVars, At
<1>2. \A e \in Executions : ~Started(e)'
  BY <1>1, NothingIsStarted DEF Started
<1>3. CASE ListTasks(p)
  <2>0. PICK row : row = [t \in added |-> [status |-> taskStatus[t], granted |-> t \in granted]]
    OBVIOUS
  <2>1. proc' = [proc EXCEPT ![p].pc = "plan", ![p].snapshot = row]
    BY <1>3, <2>0 DEF ListTasks
  <2>2. \A t \in DOMAIN row : row[t].status = "DONE" => taskStatus'[t] = "DONE"
    BY <1>1, <2>0
  <2>3. proc'[p].pc = "plan" /\ proc'[p].snapshot = row
    BY <1>a, <2>1 DEF CommandFields
  <2> QED BY <1>a, <1>2, <2>2, <2>3 DEF DueInv, At
<1>4. CASE Plan(p)
  <2> DEFINE row == proc[p].snapshot
             claimed == {claims[e].task : e \in ActiveClaims}
  <2>1. PICK available \in SUBSET DOMAIN Offered :
           proc'[p].pc = "admit" /\ proc'[p].todo = Runnable(row, DOMAIN row \ claimed, available)
    BY <1>4, PlannedTasks
  <2>2. \A t \in DOMAIN row : row[t].status = "DONE" => taskStatus[t] = "DONE"
    BY <1>4 DEF Plan, DueInv
  <2>3. \A t \in Runnable(row, DOMAIN row \ claimed, available) : Met(t)
    BY <2>2 DEF Runnable, Met
  <2>4. \A t \in Runnable(row, DOMAIN row \ claimed, available) : Met(t)'
    BY <1>1, <2>3 DEF Met
  <2> QED BY <1>a, <1>2, <2>1, <2>4 DEF DueInv, At
<1> QED BY <1>3, <1>4

\* The admitted task is one of the plan, and READY when it is claimed.
LEMMA AdmissionIsDue ==
    ASSUME Alone, CoordinatorInv, DispatchInv, DueInv, NEW p \in Processes, Admit(p)
    PROVE  DueInv'
<1> DEFINE t == First(proc[p].todo)
<1>a. /\ DOMAIN run = Executions /\ At(p, "admit") /\ \A q \in Processes : q = p
  BY DEF CoordinatorInv, Tables, Alone, Admit
<1>b. /\ t \in proc[p].todo /\ proc'[p].pc = "admit" /\ proc'[p].todo \subseteq proc[p].todo
      /\ UNCHANGED taskStatus
      /\ UNCHANGED run \/ \E e \in Executions : StartsExecution(p, e, t)
  BY AdmissionMoves
<1> HIDE DEF t
<1>1. \A u \in proc[p].todo : Met(u)'
  BY <1>a, <1>b DEF DueInv, Met
<1>2. ASSUME NEW f \in Executions, Started(f), run'[f] = run[f]
      PROVE  Met(run[f].task)' /\ taskStatus'[run'[f].task] # "DONE"
  BY <1>b, <1>2 DEF DueInv, Met
<1>3. \A f \in Executions : Started(f)' => Met(run[f].task)' /\ taskStatus'[run'[f].task] # "DONE"
  <2>1. CASE UNCHANGED run
    BY <1>2, <2>1 DEF Started
  <2>2. ASSUME NEW e \in Executions, StartsExecution(p, e, t)
        PROVE  <1>3!:
    <3> DEFINE r == [NoRun EXCEPT !.pc = "create", !.by = p, !.task = t]
    <3>1. r.task = t
      BY DEF NoRun
    <3>2. run' = [run EXCEPT ![e] = r]
      BY <2>2 DEF StartsExecution
    <3> HIDE DEF r
    <3>3. run'[e].task = t /\ \A f \in Executions \ {e} : run'[f] = run[f]
      BY <1>a, <3>1, <3>2
    <3>4. taskStatus'[t] # "DONE"
      BY <1>b, <2>2 DEF StartsExecution, ClaimTaskExecution, Claimable
    <3>5. Met(run[e].task)'
      BY <1>b, <1>1, <3>3 DEF Met
    <3> QED BY <1>2, <3>3, <3>4, <3>5 DEF Started
  <2> QED BY <1>b, <2>1, <2>2
<1> QED BY <1>a, <1>b, <1>1, <1>3 DEF DueInv, At

\* An execution writes no DONE, and only its own task, which is not DONE.
LEMMA ExecutionWritesItsTask ==
    ASSUME StoreTypeOK, CoordinatorInv, DispatchInv, DueInv, NEW e \in Executions,
           ExecutionStep(e)
    PROVE  DoneStays
<1>1. RowOK(e) /\ Started(e)
  BY DEF CoordinatorInv, Tables, ExecutionStep, StartHeartbeat, Execute, CreateAttempt, EnterStage,
         StageFails, Enqueue, FailExecution, ReadOutcome, Release, StopHeartbeat, ReadFailure,
         WriteFailure, ReleaseFailed, RunAt, Started
<1>2. run[e].task \in Tasks /\ taskStatus[run[e].task] # "DONE"
  BY <1>1 DEF DispatchInv, Dispatched, DueInv
<1>3. \/ UNCHANGED taskStatus
      \/ \E s \in TaskStatuses \ {"DONE"} : SetTaskStatus(run[e].task, s)
  <2>1. CASE EnterStage(e)
    <3>1. Stages[run[e].stage] \in TaskStatuses \ {"DONE"}
      BY <1>1, <2>1, ThreeStages DEF EnterStage, RunAt, RowOK, ActiveStatuses, TaskStatuses
    <3> QED BY <2>1, <3>1 DEF EnterStage
  <2>2. CASE FailExecution(e) \/ WriteFailure(e)
    BY <2>2 DEF FailExecution, WriteFailure, storeVars, TaskStatuses
  <2>3. CASE ~(EnterStage(e) \/ FailExecution(e) \/ WriteFailure(e))
    BY <2>3 DEF ExecutionStep, StartHeartbeat, Execute, CreateAttempt, StageFails, Enqueue,
                ReadOutcome, Release, StopHeartbeat, ReadFailure, ReleaseFailed,
                RenewTaskExecution, ReleaseTaskExecution, Settle, rowVars, storeVars
  <2> QED BY <2>1, <2>2, <2>3
<1> QED BY <1>2, <1>3 DEF SetTaskStatus, StoreTypeOK, DoneStays

\* No step but a command's makes a task DONE or takes it back.
LEMMA OthersLeaveDone ==
    ASSUME StoreTypeOK, CoordinatorInv, DispatchInv, DueInv,
           \/ \E e \in Executions : \/ RunStep(e) \/ HeartbeatStep(e)
                                  \/ LeaseExpires(e) \/ RecoveryLeaseExpires(e)
           \/ \E t \in Tasks : Retry(t) \/ AddTask(t) \/ Approve(t)
           \/ UNCHANGED vars
    PROVE  DoneStays
<1>1. ASSUME NEW e \in Executions, RunStep(e)
      PROVE  DoneStays
  BY <1>1, ExecutionWritesItsTask DEF RunStep
<1>2. ASSUME NEW t \in Tasks, Retry(t)
      PROVE  DoneStays
  BY <1>2 DEF Retry, TransitionTaskStatusFrom, SetTaskStatus, StoreTypeOK, RetryableStatuses,
              DoneStays
<1>3. ASSUME \/ \E e \in Executions :
                   HeartbeatStep(e) \/ LeaseExpires(e) \/ RecoveryLeaseExpires(e)
             \/ \E t \in Tasks : AddTask(t) \/ Approve(t)
             \/ UNCHANGED vars
      PROVE  DoneStays
  BY <1>3 DEF HeartbeatStep, Beat, RenewTaskExecution, LeaseExpires, RecoveryLeaseExpires,
              AddTask, Approve, vars, rowVars, storeVars, DoneStays
<1> QED BY <1>1, <1>2, <1>3

LEMMA DueInvInit == Init => DueInv
BY DEF Init, NoRun, Idle, At, Started, DueInv

\* Every step keeps what a process that is alone relies on.
LEMMA DueInvStep ==
    ASSUME Alone, StoreTypeOK, CoordinatorInv, DispatchInv, DispatchInv', DueInv, [Next]_vars
    PROVE  DueInv'
<1>a. PermissionsStay
  BY StepsKeepPermissions
<1>1. ASSUME NEW p \in Processes, StartCommand(p) \/ CommandStep(p) \/ Crash(p)
      PROVE  DueInv'
  <2>1. CASE Crash(p) \/ DispatchEnds(p)
    <3>1. proc'[p].pc \in {"idle", "drain"}
      BY <1>a, <2>1, LeavingKeepsDispatch
    <3> QED BY <3>1, NoDispatchIsDue
  <2>2. CASE ListTasks(p) \/ Plan(p)
    BY <2>2, PlanningIsDue
  <2>3. CASE Admit(p)
    BY <2>3, AdmissionIsDue
  <2>4. CASE ~(Crash(p) \/ DispatchEnds(p) \/ ListTasks(p) \/ Plan(p) \/ Admit(p))
    <3>1. proc'[p].pc \notin {"plan", "admit"}
      BY <1>1, <2>4, NoDispatchMoves DEF CommandStep
    <3> QED BY <3>1, NoDispatchIsDue
  <2> QED BY <2>1, <2>2, <2>3, <2>4
<1>2. ASSUME \/ \E e \in Executions : \/ RunStep(e) \/ HeartbeatStep(e)
                                    \/ LeaseExpires(e) \/ RecoveryLeaseExpires(e)
             \/ \E t \in Tasks : Retry(t) \/ AddTask(t) \/ Approve(t)
             \/ UNCHANGED vars
      PROVE  DueInv'
  BY <1>2, OthersStartNothing, OthersLeaveDone, DueStays
<1> QED BY <1>1, <1>2 DEF Next

\* A process that is alone keeps to its plans.
LEMMA DueInvAlways ==
    ASSUME Alone
    PROVE  Spec => []DueInv
<1>1. StoreInv /\ CoordinatorInv /\ DispatchInv /\ DispatchInv' /\ DueInv /\ [Next]_vars => DueInv'
  BY DueInvStep DEF StoreInv
<1> QED
  BY <1>1, DueInvInit, DispatchInvAlways, CoordinatorKeepsTheStore, CoordinatorInvAlways, PTL
     DEF Spec

-----------------------------------------------------------------------------
(* One process: attempts *)

HasAttemptLeft(t) == Len(attempts[t]) < MaxAttempts

\* Where an execution has not yet taken its attempt.
Early == {"create", "execute", "attempt"}

AttemptTable == attempts \in [Tasks -> Seq({"RUNNING", "ENDED"})]

\* The attempts are counted when the plan is made and taken later, so the count
\* must not move in between: nobody else takes an attempt of a task that is
\* planned or has an execution.
BudgetInv ==
    /\ AttemptTable
    /\ \A t \in Tasks : Len(attempts[t]) <= MaxAttempts
    /\ \A p \in Processes : At(p, "admit") =>
          \A t \in proc[p].todo :
             HasAttemptLeft(t) /\ \A e \in Executions : Started(e) => run[e].task # t
    /\ \A e \in Executions : run[e].pc \in Early => HasAttemptLeft(run[e].task)
    /\ \A e, f \in Executions :
          Started(e) /\ Started(f) /\ run[e].task = run[f].task => e = f

\* Attempts may end but none is added.
CountsStay ==
    /\ AttemptTable'
    /\ \A t \in Tasks : Len(attempts'[t]) = Len(attempts[t])

\* No execution goes back to where it has not taken its attempt.
EarlyBefore == \A e \in Executions : run'[e].pc \in Early => run[e].pc \in Early

LEMMA EndingKeepsCounts ==
    ASSUME AttemptTable, NEW t, NEW n, EndAttempt(t, n)
    PROVE  CountsStay
<1>1. CASE t \in Tasks /\ n \in DOMAIN attempts[t]
  <2>1. attempts' = [attempts EXCEPT ![t] = [attempts[t] EXCEPT ![n] = "ENDED"]]
    BY <1>1 DEF EndAttempt
  <2>2. attempts[t] \in Seq({"RUNNING", "ENDED"})
    BY <1>1 DEF AttemptTable
  <2>3. /\ [attempts[t] EXCEPT ![n] = "ENDED"] \in Seq({"RUNNING", "ENDED"})
        /\ Len([attempts[t] EXCEPT ![n] = "ENDED"]) = Len(attempts[t])
    BY <1>1, <2>2
  <2> QED BY <1>1, <2>1, <2>3 DEF AttemptTable, CountsStay
<1>2. CASE ~(t \in Tasks /\ n \in DOMAIN attempts[t])
  <2>1. attempts' = attempts
    BY <1>2 DEF EndAttempt, AttemptTable
  <2> QED BY <2>1 DEF AttemptTable, CountsStay
<1> QED BY <1>1, <1>2

\* A new attempt is the only thing that counts.
LEMMA CommandsAddNoAttempt ==
    ASSUME AttemptTable, NEW p \in Processes, StartCommand(p) \/ CommandStep(p) \/ Crash(p)
    PROVE  CountsStay
<1>1. CASE Integrate(p) \/ RecoverOwned(p) \/ RecoverUnfinished(p)
  <2>1. UNCHANGED attempts \/ \E t, n : EndAttempt(t, n)
    BY <1>1 DEF Integrate, RecoverOwned, RecoverUnfinished, WriteOutcome, rowVars
  <2> QED BY <2>1, EndingKeepsCounts DEF CountsStay, AttemptTable
<1>2. CASE ~(Integrate(p) \/ RecoverOwned(p) \/ RecoverUnfinished(p))
  <2>1. UNCHANGED attempts
    BY <1>2 DEF CommandStep, StartCommand, Crash, RecoverAbandoned, ReleaseEntry, ListClaims,
                ExamineClaim, InspectOwned, SettleOwned, SkipClaimed, ListUnfinished,
                InspectUnfinished, StartupEnds, ListTasks, Plan, Admit, DispatchEnds, Drain, rowVars
  <2> QED BY <2>1 DEF CountsStay, AttemptTable
<1> QED BY <1>1, <1>2

\* An execution adds its attempt in one step, and is no longer early after it.
LEMMA ExecutionsTakeTheirAttempt ==
    ASSUME CoordinatorInv, AttemptTable, NEW e \in Executions, ExecutionStep(e)
    PROVE  /\ EarlyBefore
           /\ \/ CountsStay
              \/ /\ run[e].pc \in Early /\ run'[e].pc \notin Early
                 /\ AttemptTable'
                 /\ \A t \in Tasks \ {run[e].task} : attempts'[t] = attempts[t]
                 /\ run[e].task \in Tasks => Len(attempts'[run[e].task]) <= Len(attempts[run[e].task]) + 1
<1> DEFINE t == run[e].task
<1>a. DOMAIN run = Executions /\ DOMAIN run[e] = RunFields
  BY DEF CoordinatorInv, Tables, RowOK
<1>1. CASE CreateAttempt(e)
  <2>1. EarlyBefore /\ run[e].pc \in Early /\ run'[e].pc \notin Early
    BY <1>a, <1>1 DEF CreateAttempt, Returns, RunAt, RunFields, Early, EarlyBefore
  <2>2. CASE UNCHANGED attempts
    BY <2>1, <2>2 DEF CountsStay, AttemptTable
  <2>3. CASE t \notin Tasks /\ ~UNCHANGED attempts
    BY <1>1, <2>3 DEF CreateAttempt, AttemptTable
  <2>4. CASE t \in Tasks /\ ~UNCHANGED attempts
    <3> DEFINE n == run[e].attempt
               old == attempts[t]
               new == IF n \in DOMAIN old THEN [old EXCEPT ![n] = "RUNNING"]
                                          ELSE Append(old, "RUNNING")
    <3>1. attempts' = [attempts EXCEPT ![t] = new]
      BY <1>1, <2>4 DEF CreateAttempt
    <3>2. old \in Seq({"RUNNING", "ENDED"})
      BY <2>4 DEF AttemptTable
    <3> HIDE DEF old, n
    <3>3. new \in Seq({"RUNNING", "ENDED"}) /\ Len(new) <= Len(old) + 1
      <4>1. CASE n \in DOMAIN old
        BY <3>2, <4>1
      <4>2. CASE n \notin DOMAIN old
        BY <3>2, <4>2
      <4> QED BY <4>1, <4>2
    <3> HIDE DEF new
    <3>4. /\ AttemptTable' /\ attempts'[t] = new
          /\ \A u \in Tasks \ {t} : attempts'[u] = attempts[u]
      BY <2>4, <3>1, <3>3 DEF AttemptTable
    <3> QED BY <2>1, <3>3, <3>4 DEF old
  <2> QED BY <2>2, <2>3, <2>4
<1>2. CASE ~CreateAttempt(e)
  <2>1. CountsStay
    <3>1. UNCHANGED attempts \/ \E u, n : EndAttempt(u, n)
      BY <1>2 DEF ExecutionStep, StartHeartbeat, Execute, EnterStage, StageFails, Enqueue,
                  FailExecution, ReadOutcome, Release, StopHeartbeat, ReadFailure, WriteFailure,
                  ReleaseFailed, rowVars
    <3> QED BY <3>1, EndingKeepsCounts DEF CountsStay, AttemptTable
  <2>2. /\ \A f \in Executions \ {e} : run'[f] = run[f]
        /\ run'[e].pc \in Early => run[e].pc \in Early
    <3>1. CASE StartHeartbeat(e) \/ Execute(e)
      BY <1>a, <3>1 DEF StartHeartbeat, Execute, Returns, RunTo, RunAt, RunFields, Early
    <3>2. CASE EnterStage(e) \/ StageFails(e) \/ Enqueue(e) \/ FailExecution(e)
      BY <1>a, <3>2 DEF EnterStage, StageFails, Enqueue, FailExecution, Returns, RunTo, RunFields,
                        Early
    <3>3. ASSUME NEW recovery, EndRun(e, recovery)
          PROVE  <2>2!:
      BY <1>a, <3>3, ExecutionEnds DEF Early
    <3>4. CASE ReadOutcome(e)
      BY <1>a, <3>4 DEF ReadOutcome, RunTo, RunFields, Early
    <3>5. CASE Release(e) \/ StopHeartbeat(e) \/ WriteFailure(e) \/ ReleaseFailed(e)
      <4>1. RunTo(e, "stop") \/ RunTo(e, "releaseFailed") \/ \E recovery : EndRun(e, recovery)
        BY <3>5, Zenon DEF Release, StopHeartbeat, WriteFailure, ReleaseFailed
      <4> QED BY <1>a, <3>3, <4>1 DEF RunTo, RunFields, Early
    <3>6. CASE ReadFailure(e)
      <4>1. CASE run[e].beat = "failed" \/ Queued(e)
        BY <3>3, <3>6, <4>1 DEF ReadFailure
      <4>2. CASE ~(run[e].beat = "failed" \/ Queued(e))
        BY <1>a, <3>6, <4>2 DEF ReadFailure, RunFields, Early
      <4> QED BY <4>1, <4>2
    <3> QED BY <1>2, <3>1, <3>2, <3>4, <3>5, <3>6 DEF ExecutionStep
  <2> QED BY <2>1, <2>2 DEF EarlyBefore
<1> QED BY <1>1, <1>2

\* Where a process that is alone is not in a dispatch there is nothing to add.
LEMMA NoDispatchKeepsBudget ==
    ASSUME Alone, BudgetInv, DispatchInv', CountsStay, NEW p \in Processes,
           proc'[p].pc # "admit"
    PROVE  BudgetInv'
<1>1. \A e \in Executions : ~Started(e)'
  BY DEF DispatchInv, Dispatched, Alone, At
<1>2. \A e \in Executions : run'[e].pc \notin Early
  BY <1>1 DEF Started, Early
<1>3. \A t \in Tasks : Len(attempts'[t]) <= MaxAttempts
  BY DEF BudgetInv, CountsStay
<1> QED BY <1>1, <1>2, <1>3 DEF BudgetInv, CountsStay, Alone, At

\* Steps beside the dispatch that add no attempt.
LEMMA BudgetStays ==
    ASSUME CoordinatorInv, DispatchInv, BudgetInv, CountsStay, StartedBefore, EarlyBefore,
           UNCHANGED proc
    PROVE  BudgetInv'
<1>1. \A t \in Tasks : HasAttemptLeft(t) => HasAttemptLeft(t)'
  BY DEF CountsStay, HasAttemptLeft
<1>2. \A t \in Tasks : Len(attempts'[t]) <= MaxAttempts
  BY DEF BudgetInv, CountsStay
<1>3. ASSUME NEW p \in Processes, At(p, "admit")
      PROVE  \A t \in proc[p].todo :
                HasAttemptLeft(t)' /\ \A e \in Executions : Started(e)' => run'[e].task # t
  <2>1. proc[p].todo \subseteq Tasks
    BY <1>3 DEF CoordinatorInv, CommandOK
  <2> QED BY <1>1, <1>3, <2>1 DEF BudgetInv, StartedBefore
<1>4. ASSUME NEW e \in Executions, run'[e].pc \in Early
      PROVE  HasAttemptLeft(run[e].task)'
  <2>1. Started(e)' /\ run[e].pc \in Early
    BY <1>4 DEF Started, Early, EarlyBefore
  <2>2. Started(e) /\ run'[e].task = run[e].task /\ run[e].task \in Tasks
    BY <2>1 DEF StartedBefore, DispatchInv, Dispatched
  <2>3. HasAttemptLeft(run[e].task)
    BY <2>1 DEF BudgetInv
  <2> QED BY <1>1, <2>2, <2>3 DEF HasAttemptLeft
<1>5. \A e, f \in Executions :
         Started(e)' /\ Started(f)' /\ run'[e].task = run'[f].task => e = f
  BY DEF StartedBefore, BudgetInv
<1> QED BY <1>2, <1>3, <1>4, <1>5 DEF BudgetInv, CountsStay, At

\* The plan counts the attempts, and an execution starts for a task of it that
\* leaves it.
LEMMA DispatchKeepsBudget ==
    ASSUME Alone, CoordinatorInv, DispatchInv, BudgetInv, NEW p \in Processes,
           Plan(p) \/ Admit(p)
    PROVE  BudgetInv'
<1>a. /\ DOMAIN run = Executions /\ DOMAIN proc = Processes /\ DOMAIN proc[p] = CommandFields
      /\ \A q \in Processes : q = p
  BY DEF CoordinatorInv, Tables, CommandOK, Alone
<1>b. UNCHANGED attempts
  BY DEF Plan, Admit, rowVars
<1>1. CASE Plan(p)
  <2> DEFINE row == proc[p].snapshot
             claimed == {claims[e].task : e \in ActiveClaims}
  <2>1. PICK available \in SUBSET DOMAIN Offered :
           proc'[p].pc = "admit" /\ proc'[p].todo = Runnable(row, DOMAIN row \ claimed, available)
    BY <1>1, PlannedTasks
  <2>2. UNCHANGED run /\ \A e \in Executions : ~Started(e)
    BY <1>1, NothingIsStarted DEF Plan, RunsStay, At
  <2>3. \A t \in Runnable(row, DOMAIN row \ claimed, available) : HasAttemptLeft(t)
    BY DEF Runnable, HasAttemptLeft
  <2>4. \A t \in proc'[p].todo : HasAttemptLeft(t)'
    BY <1>b, <2>1, <2>3 DEF HasAttemptLeft
  <2>5. \A e \in Executions : ~Started(e)' /\ run'[e].pc \notin Early
    BY <2>2 DEF Started, Early
  <2> QED BY <1>a, <1>b, <2>4, <2>5 DEF BudgetInv, AttemptTable, At
<1>2. CASE Admit(p)
  <2> DEFINE t == First(proc[p].todo)
  <2>a. /\ t \in proc[p].todo /\ At(p, "admit") /\ proc'[p].todo \subseteq proc[p].todo
        /\ UNCHANGED run \/ \E e \in Executions : StartsExecution(p, e, t)
    BY <1>2, AdmissionMoves DEF Admit
  <2> HIDE DEF t
  <2>1. \A u \in proc[p].todo :
           HasAttemptLeft(u)' /\ \A e \in Executions : Started(e) => run[e].task # u
    BY <1>b, <2>a DEF BudgetInv, HasAttemptLeft
  <2>2. AttemptTable' /\ \A u \in Tasks : Len(attempts'[u]) <= MaxAttempts
    BY <1>b DEF BudgetInv, AttemptTable
  <2>3. CASE UNCHANGED run
    BY <1>a, <1>b, <2>a, <2>1, <2>2, <2>3 DEF BudgetInv, Started, HasAttemptLeft, At
  <2>4. ASSUME NEW e \in Executions, StartsExecution(p, e, t)
        PROVE  BudgetInv'
    <3> DEFINE r == [NoRun EXCEPT !.pc = "create", !.by = p, !.task = t]
    <3>1. r.task = t
      BY DEF NoRun
    <3>2. run' = [run EXCEPT ![e] = r]
      BY <2>4 DEF StartsExecution
    <3> HIDE DEF r
    <3>3. run'[e].task = t /\ \A f \in Executions \ {e} : run'[f] = run[f]
      BY <1>a, <3>1, <3>2
    <3>4. t \notin proc'[p].todo
      BY <2>4 DEF StartsExecution
    <3>5. \A u \in proc'[p].todo :
             HasAttemptLeft(u)' /\ \A f \in Executions : Started(f)' => run'[f].task # u
      BY <2>a, <2>1, <3>3, <3>4 DEF Started
    <3>6. \A f \in Executions : run'[f].pc \in Early => HasAttemptLeft(run[f].task)'
      BY <1>b, <2>a, <2>1, <3>3 DEF BudgetInv, HasAttemptLeft
    <3>7. ASSUME NEW f \in Executions, NEW g \in Executions, Started(f)', Started(g)',
                 run'[f].task = run'[g].task
          PROVE  f = g
      BY <2>a, <2>1, <3>3, <3>7 DEF BudgetInv, Started
    <3> QED BY <1>a, <2>2, <3>5, <3>6, <3>7 DEF BudgetInv
  <2> QED BY <2>a, <2>3, <2>4
<1> QED BY <1>1, <1>2

\* Taking the attempt that was left.
LEMMA TakingKeepsBudget ==
    ASSUME CoordinatorInv, DispatchInv, BudgetInv, StartedBefore, EarlyBefore, UNCHANGED proc,
           NEW e \in Executions, run[e].pc \in Early, run'[e].pc \notin Early, AttemptTable',
           \A t \in Tasks \ {run[e].task} : attempts'[t] = attempts[t],
           run[e].task \in Tasks =>
              Len(attempts'[run[e].task]) <= Len(attempts[run[e].task]) + 1
    PROVE  BudgetInv'
<1> DEFINE t == run[e].task
<1>a. Started(e)
  BY DEF Started, Early
<1>b. t \in Tasks /\ HasAttemptLeft(t)
  BY <1>a DEF DispatchInv, Dispatched, BudgetInv
<1>c. Len(attempts[t]) \in Nat /\ Len(attempts'[t]) \in Nat /\ MaxAttempts \in Nat
  BY <1>b, CoordinatorAssumption DEF BudgetInv, AttemptTable
<1>1. \A u \in Tasks : Len(attempts'[u]) <= MaxAttempts
  <2>1. Len(attempts'[t]) <= MaxAttempts
    BY <1>b, <1>c DEF HasAttemptLeft
  <2> QED BY <2>1 DEF BudgetInv
<1>2. ASSUME NEW p \in Processes, At(p, "admit")
      PROVE  \A u \in proc[p].todo :
                HasAttemptLeft(u)' /\ \A f \in Executions : Started(f)' => run'[f].task # u
  <2>1. proc[p].todo \subseteq Tasks /\ t \notin proc[p].todo
    BY <1>a, <1>2 DEF CoordinatorInv, CommandOK, BudgetInv
  <2> QED BY <1>2, <2>1 DEF BudgetInv, StartedBefore, HasAttemptLeft
<1>3. ASSUME NEW f \in Executions, run'[f].pc \in Early
      PROVE  HasAttemptLeft(run[f].task)'
  <2>1. Started(f)' /\ run[f].pc \in Early /\ f # e
    BY <1>3 DEF Started, Early, EarlyBefore
  <2>2. Started(f) /\ run'[f].task = run[f].task /\ run[f].task \in Tasks
    BY <2>1 DEF StartedBefore, DispatchInv, Dispatched
  <2>3. run[f].task # t /\ HasAttemptLeft(run[f].task)
    BY <1>a, <2>1, <2>2 DEF BudgetInv
  <2> QED BY <2>2, <2>3 DEF HasAttemptLeft
<1>4. \A f, g \in Executions :
         Started(f)' /\ Started(g)' /\ run'[f].task = run'[g].task => f = g
  BY DEF StartedBefore, BudgetInv
<1> QED BY <1>1, <1>2, <1>3, <1>4 DEF BudgetInv, At

LEMMA BudgetInvInit == Init => BudgetInv
<1> SUFFICES ASSUME Init PROVE BudgetInv
  OBVIOUS
<1>1. AttemptTable /\ \A t \in Tasks : Len(attempts[t]) <= MaxAttempts
  BY CoordinatorAssumption DEF Init, AttemptTable
<1>2. /\ \A e \in Executions : run[e].pc = "none"
      /\ \A p \in Processes : proc[p].pc = "idle"
  BY DEF Init, NoRun, Idle
<1> QED BY <1>1, <1>2 DEF BudgetInv, Started, Early, At

LEMMA BudgetInvStep ==
    ASSUME Alone, CoordinatorInv, DispatchInv, DispatchInv', BudgetInv, [Next]_vars
    PROVE  BudgetInv'
<1>a. AttemptTable
  BY DEF BudgetInv
<1>b. PermissionsStay
  BY StepsKeepPermissions
<1>1. ASSUME NEW p \in Processes, StartCommand(p) \/ CommandStep(p) \/ Crash(p)
      PROVE  BudgetInv'
  <2>1. CASE Plan(p) \/ Admit(p)
    BY <2>1, DispatchKeepsBudget
  <2>2. CASE ~(Plan(p) \/ Admit(p))
    <3>1. proc'[p].pc # "admit"
      <4>1. CASE Crash(p) \/ DispatchEnds(p)
        BY <1>b, <4>1, LeavingKeepsDispatch
      <4>2. CASE ListTasks(p)
        <5>1. DOMAIN proc = Processes /\ DOMAIN proc[p] = CommandFields
          BY DEF CoordinatorInv, CommandOK
        <5> QED BY <4>2, <5>1 DEF ListTasks, CommandFields
      <4>3. CASE ~(Crash(p) \/ DispatchEnds(p) \/ ListTasks(p))
        BY <1>1, <2>2, <4>3, NoDispatchMoves DEF CommandStep
      <4> QED BY <4>1, <4>2, <4>3
    <3>2. CountsStay
      BY <1>a, <1>1, CommandsAddNoAttempt
    <3> QED BY <3>1, <3>2, NoDispatchKeepsBudget
  <2> QED BY <2>1, <2>2
<1>2. ASSUME NEW e \in Executions, RunStep(e)
      PROVE  BudgetInv'
  <2>1. StartedBefore /\ UNCHANGED proc /\ ExecutionStep(e)
    BY <1>2, OthersStartNothing DEF RunStep
  <2> QED BY <1>a, <2>1, ExecutionsTakeTheirAttempt, BudgetStays, TakingKeepsBudget
<1>3. ASSUME \/ \E e \in Executions : HeartbeatStep(e) \/ LeaseExpires(e) \/ RecoveryLeaseExpires(e)
             \/ \E t \in Tasks : Retry(t) \/ AddTask(t) \/ Approve(t)
             \/ UNCHANGED vars
      PROVE  BudgetInv'
  <2>1. StartedBefore /\ UNCHANGED proc
    BY <1>3, OthersStartNothing
  <2>2. CountsStay
    <3>1. UNCHANGED attempts
      BY <1>3 DEF HeartbeatStep, Beat, LeaseExpires, RecoveryLeaseExpires, Retry, AddTask, Approve,
                  vars, rowVars
    <3> QED BY <1>a, <3>1 DEF CountsStay, AttemptTable
  <2>3. EarlyBefore
    <3>1. ASSUME NEW e \in Executions, HeartbeatStep(e)
          PROVE  EarlyBefore
      <4>1. DOMAIN run = Executions /\ DOMAIN run[e] = RunFields
        BY DEF CoordinatorInv, Tables, RowOK
      <4>2. UNCHANGED run \/ run' = [run EXCEPT ![e].beat = "failed"]
        BY <3>1 DEF HeartbeatStep, Beat
      <4> QED BY <4>1, <4>2 DEF EarlyBefore, RunFields
    <3>2. ASSUME \/ \E e \in Executions : LeaseExpires(e) \/ RecoveryLeaseExpires(e)
                 \/ \E t \in Tasks : Retry(t) \/ AddTask(t) \/ Approve(t)
                 \/ UNCHANGED vars
          PROVE  EarlyBefore
      BY <3>2 DEF LeaseExpires, RecoveryLeaseExpires, RunsStay, Retry, AddTask, Approve, vars,
                  EarlyBefore
    <3> QED BY <1>3, <3>1, <3>2
  <2> QED BY <2>1, <2>2, <2>3, BudgetStays
<1> QED BY <1>1, <1>2, <1>3 DEF Next

LEMMA BudgetInvAlways ==
    ASSUME Alone
    PROVE  Spec => []BudgetInv
<1>1. CoordinatorInv /\ DispatchInv /\ DispatchInv' /\ BudgetInv /\ [Next]_vars => BudgetInv'
  BY BudgetInvStep
<1> QED BY <1>1, BudgetInvInit, DispatchInvAlways, CoordinatorInvAlways, PTL DEF Spec

-----------------------------------------------------------------------------
(* One process: finished tasks *)

\* Process p has made task t DONE after a merge of its own, and the calls after
\* that have failed.
MergedLate(p, t) ==
    proc[p].pc \in {"write", "reconcile"} /\ proc[p].seen = "MERGED" /\ proc[p].task = t

\* What a recovery is about to write, it writes about a task that is not DONE,
\* though it looked at the task some steps before, unless it has just made it so.
FinishedInv ==
    \A p \in Processes :
       /\ proc[p].pc \in {"owned", "write", "reconcile"} => proc[p].task \in Tasks
       /\ proc[p].pc \in {"write", "reconcile"} =>
             taskStatus[proc[p].task] # "DONE" \/ MergedLate(p, proc[p].task)

\* A DONE task stays so, or becomes FAILED behind the merge that made it DONE.
DoneRemains ==
    \A t \in Tasks : taskStatus[t] = "DONE" =>
       \/ taskStatus'[t] = "DONE"
       \/ taskStatus'[t] = "FAILED" /\ \E p \in Processes : MergedLate(p, t)

\* A recovery reads the task before it goes on to write about it.
LEMMA RecoveryReadsFirst ==
    ASSUME StoreInv, CoordinatorInv, FinishedInv, NEW p \in Processes,
           CommandStep(p), proc'[p].pc \in {"owned", "write", "reconcile"}
    PROVE  /\ proc'[p].task \in Tasks
           /\ proc'[p].pc \in {"write", "reconcile"} =>
                 taskStatus'[proc'[p].task] # "DONE" \/ proc'[p].seen = "MERGED"
<1>a. /\ DOMAIN proc = Processes /\ DOMAIN proc[p] = CommandFields
      /\ taskStatus \in [Tasks -> TaskStatuses] /\ proc[p].phase \in {"startup", "drain"}
  BY DEF CoordinatorInv, CommandOK, StoreInv, StoreTypeOK
<1>b. Idle.pc = "idle" /\ [Idle EXCEPT !.pc = "tasks", !.phase = "drain"].pc = "tasks"
  BY DEF Idle
<1>1. ASSUME NEW e \in Executions, ExamineClaim(p, e)
      PROVE  proc'[p].task \in Tasks /\ proc'[p].pc = "owned"
  <2>1. At(p, "claims")
    BY <1>1 DEF ExamineClaim
  <2>2. CASE proc' = [proc EXCEPT ![p].todo = @ \ {e}]
    BY <1>a, <2>1, <2>2 DEF At, CommandFields
  <2>3. CASE /\ ClaimExpiredExecutionRecovery(e, p, now)
             /\ proc' = [proc EXCEPT ![p].pc = "owned", ![p].exec = e, ![p].task = claims[e].task,
                                     ![p].todo = @ \ {e}]
    <3>1. claims[e].task \in Tasks
      BY <2>3 DEF ClaimExpiredExecutionRecovery, Recoverable, StoreInv, ActiveClaimsNameATask,
                  ActiveClaims
    <3> QED BY <1>a, <2>3, <3>1 DEF CommandFields
  <2> QED BY <1>1, <2>2, <2>3 DEF ExamineClaim
<1>2. CASE InspectOwned(p)
  <2>1. proc[p].task \in Tasks /\ proc'[p].pc = "write"
        /\ proc'[p].task = proc[p].task /\ taskStatus[proc[p].task] \in ActiveStatuses
    BY <1>a, <1>2 DEF InspectOwned, Inspected, Resume, At, CommandFields, FinishedInv
  <2>2. UNCHANGED taskStatus
    BY <1>2 DEF InspectOwned, rowVars, storeVars
  <2> QED BY <2>1, <2>2 DEF ActiveStatuses
<1>3. CASE RecoverOwned(p) \/ RecoverUnfinished(p)
  <2>1. /\ proc[p].task \in Tasks /\ proc'[p].task = proc[p].task
        /\ SetTaskStatus(proc[p].task, "INTEGRATING") \/ proc'[p].seen = "MERGED"
    <3>1. CASE RecoverOwned(p)
      BY <1>a, <1>b, <3>1 DEF RecoverOwned, WriteOutcome, MergeFailsLate, Resume, At, CommandFields,
                              FinishedInv
    <3>2. CASE RecoverUnfinished(p)
      BY <1>a, <3>2 DEF RecoverUnfinished, WriteOutcome, MergeFailsLate, Resume, At, CommandFields,
                        FinishedInv
    <3> QED BY <1>3, <3>1, <3>2
  <2> QED BY <1>a, <2>1 DEF SetTaskStatus
<1>4. ASSUME NEW t \in Tasks, InspectUnfinished(p, t)
      PROVE  proc'[p].task \in Tasks /\ taskStatus'[proc'[p].task] # "DONE"
  <2>1. At(p, "unfinished") /\ UNCHANGED taskStatus
    BY <1>4 DEF InspectUnfinished, rowVars, storeVars
  <2>2. \/ proc' = [proc EXCEPT ![p].todo = @ \ {t}]
        \/ /\ taskStatus[t] \in ActiveStatuses \cup {"FAILED"}
           /\ \E n \in {RunningAttempt(t), Len(attempts[t])} :
                 proc' = [proc EXCEPT ![p].pc = "reconcile", ![p].task = t, ![p].todo = @ \ {t},
                                      ![p].seen = taskStatus[t], ![p].attempt = n]
    BY <1>4 DEF InspectUnfinished
  <2> QED BY <1>a, <2>1, <2>2 DEF At, CommandFields, ActiveStatuses
<1>5. CASE Integrate(p) \/ ReleaseEntry(p) \/ SettleOwned(p)
  BY <1>a, <1>5, WorkOnARowEnds
<1>6. CASE RecoverAbandoned(p) \/ ListClaims(p) \/ SkipClaimed(p) \/ ListUnfinished(p)
           \/ ListTasks(p) \/ DispatchEnds(p)
  BY <1>a, <1>6 DEF RecoverAbandoned, ListClaims, SkipClaimed, ListUnfinished, ListTasks,
                    DispatchEnds, Goto, CommandFields
<1>7. CASE StartupEnds(p) \/ Drain(p)
  BY <1>a, <1>7, CommandGoesOn
<1>8. CASE Plan(p)
  BY <1>8, PlannedTasks
<1>9. CASE Admit(p)
  BY <1>9, AdmissionMoves
<1> QED BY <1>1, <1>2, <1>3, <1>4, <1>5, <1>6, <1>7, <1>8, <1>9 DEF CommandStep

\* A command writes about no task that is DONE but behind its own merge.
LEMMA CommandsLeaveDone ==
    ASSUME StoreInv, FinishedInv, NEW p \in Processes,
           StartCommand(p) \/ CommandStep(p) \/ Crash(p)
    PROVE  DoneRemains
<1>a. taskStatus \in [Tasks -> TaskStatuses]
  BY DEF StoreInv, StoreTypeOK
<1>1. \/ UNCHANGED taskStatus
      \/ \E t, s : taskStatus[t] # "DONE" /\ SetTaskStatus(t, s)
      \/ \E t : MergedLate(p, t) /\ SetTaskStatus(t, "FAILED")
  <2>1. CASE Integrate(p)
    BY <2>1 DEF Integrate, rowVars, storeVars
  <2>2. CASE RecoverOwned(p)
    BY <2>2 DEF RecoverOwned, WriteOutcome, RecoveryOutcomes, At, FinishedInv, MergedLate,
                rowVars, storeVars
  <2>3. CASE RecoverUnfinished(p)
    BY <2>3 DEF RecoverUnfinished, WriteOutcome, RecoveryOutcomes, At, FinishedInv, MergedLate
  <2>4. CASE ~(Integrate(p) \/ RecoverOwned(p) \/ RecoverUnfinished(p))
    BY <2>4 DEF CommandStep, StartCommand, Crash, RecoverAbandoned, ReleaseEntry, ListClaims,
                ExamineClaim, InspectOwned, SettleOwned, SkipClaimed, ListUnfinished,
                InspectUnfinished, StartupEnds, ListTasks, Plan, Admit, DispatchEnds, Drain,
                ReleaseTaskExecution, ReleaseRecoveredTaskExecution, Settle,
                ClaimExpiredExecutionRecovery, ClaimTaskExecution, rowVars, storeVars
  <2> QED BY <2>1, <2>2, <2>3, <2>4
<1> QED BY <1>a, <1>1 DEF SetTaskStatus, DoneRemains

LEMMA FinishedInvStep ==
    ASSUME Alone, StoreInv, CoordinatorInv, DispatchInv, DueInv, FinishedInv, [Next]_vars
    PROVE  FinishedInv' /\ DoneRemains
<1>1. ASSUME NEW p \in Processes, StartCommand(p) \/ CommandStep(p) \/ Crash(p)
      PROVE  FinishedInv' /\ DoneRemains
  <2>1. CASE StartCommand(p) \/ Crash(p)
    <3>1. DOMAIN proc = Processes /\ DOMAIN proc[p] = CommandFields /\ Idle.pc = "idle"
      BY DEF CoordinatorInv, CommandOK, Idle
    <3>2. proc'[p].pc \in {"startup", "idle"}
      BY <2>1, <3>1 DEF StartCommand, Crash, Goto, CommandFields
    <3> QED BY <1>1, <3>2, CommandsLeaveDone DEF Alone, FinishedInv, MergedLate
  <2>2. CASE CommandStep(p)
    BY <1>1, <2>2, RecoveryReadsFirst, CommandsLeaveDone DEF Alone, FinishedInv, MergedLate
  <2> QED BY <1>1, <2>1, <2>2
<1>2. ASSUME \/ \E e \in Executions : \/ RunStep(e) \/ HeartbeatStep(e)
                                    \/ LeaseExpires(e) \/ RecoveryLeaseExpires(e)
             \/ \E t \in Tasks : Retry(t) \/ AddTask(t) \/ Approve(t)
             \/ UNCHANGED vars
      PROVE  FinishedInv' /\ DoneRemains
  <2>1. DoneStays /\ UNCHANGED proc
    BY <1>2, OthersLeaveDone, OthersStartNothing DEF StoreInv
  <2> QED BY <2>1 DEF DoneStays, DoneRemains, FinishedInv, MergedLate
<1> QED BY <1>1, <1>2 DEF Next

LEMMA FinishedInvAlways ==
    ASSUME Alone
    PROVE  Spec => []FinishedInv
<1>1. Init => FinishedInv
  BY DEF Init, Idle, FinishedInv
<1>2. StoreInv /\ CoordinatorInv /\ DispatchInv /\ DueInv /\ FinishedInv /\ [Next]_vars
         => FinishedInv'
  BY FinishedInvStep
<1> QED
  BY <1>1, <1>2, DueInvAlways, DispatchInvAlways, CoordinatorKeepsTheStore, CoordinatorInvAlways,
     PTL DEF Spec

-----------------------------------------------------------------------------
(* Theorems *)

\* As long as the heartbeats succeed, an executor at work holds its claim and
\* no recovery owns it, for any number of processes, tasks and crashes
\* (startHeartbeat, reconcileExpired).
THEOREM ExecutorsWorkUnderTheirClaims ==
    ASSUME LeasesKept
    PROVE  Spec => []WorkIsClaimed
<1>1. CoordinatorInv => WorkIsClaimed
  BY DEF CoordinatorInv, Tables, RowOK, Held, Holds, Renewable, WorkIsClaimed, Working
<1> QED BY <1>1, CoordinatorInvAlways, PTL

\* As long as the heartbeats succeed, two executors are never at work on one
\* task (executeAdmitted).
THEOREM OneExecutorAtATime ==
    ASSUME LeasesKept
    PROVE  Spec => []OneExecutorPerTask
<1>1. CoordinatorInv => OneExecutorPerTask
  <2> SUFFICES ASSUME CoordinatorInv, NEW e \in Executions, NEW f \in Executions,
                      Working(e), Working(f), run[e].task = run[f].task
               PROVE  e = f
    BY DEF OneExecutorPerTask
  <2>1. Holds(e) /\ Holds(f)
    BY DEF CoordinatorInv, Tables, RowOK, Held, Working
  <2>2. e \in ActiveClaims /\ f \in ActiveClaims /\ claims[e].task = claims[f].task
    BY <2>1 DEF Holds, Renewable, ActiveClaims
  <2> QED BY <2>2 DEF CoordinatorInv, Tables, OneActiveClaimPerTask
<1> QED BY <1>1, CoordinatorInvAlways, PTL

\* As long as the heartbeats succeed, two executors at work, of whatever
\* processes, never share a resource: their dispatches may not know of each
\* other, but both hold the locks (claimTaskExecution).
THEOREM ExecutorsShareNoResource ==
    ASSUME LeasesKept
    PROVE  Spec => [](\A e, f \in Executions :
                         Working(e) /\ Working(f) /\ e # f =>
                            Needs[run[e].task] \cap Needs[run[f].task] = {})
<1>1. CoordinatorInv /\ StoreInv =>
         \A e, f \in Executions :
            Working(e) /\ Working(f) /\ e # f => Needs[run[e].task] \cap Needs[run[f].task] = {}
  <2> SUFFICES ASSUME CoordinatorInv, StoreInv, NEW e \in Executions, NEW f \in Executions,
                      Working(e), Working(f),
                      NEW r \in Needs[run[e].task], r \in Needs[run[f].task]
               PROVE  e = f
    BY Zenon
  <2>1. Holds(e) /\ Holds(f)
    BY DEF CoordinatorInv, Tables, RowOK, Held, Working
  <2>2. /\ e \in ActiveClaims /\ claims[e].task = run[e].task
        /\ f \in ActiveClaims /\ claims[f].task = run[f].task
    BY <2>1 DEF Holds, Renewable, ActiveClaims
  <2>3. r \in Resources
    BY <2>2, ClaimStoreAssumption DEF StoreInv, ActiveClaimsNameATask
  <2>4. lock[r] = e /\ lock[r] = f
    BY <2>2, <2>3 DEF StoreInv, LocksMatchActiveClaims
  <2> QED BY <2>4
<1> QED BY <1>1, CoordinatorInvAlways, CoordinatorKeepsTheStore, PTL

\* As long as the heartbeats succeed, no more executors are at work than the
\* configured parallelism, over all processes together.
THEOREM ExecutorsRespectCapacity ==
    ASSUME LeasesKept
    PROVE  Spec => [](/\ IsFiniteSet({e \in Executions : Working(e)})
                      /\ Cardinality({e \in Executions : Working(e)}) <= MaxParallelism)
<1>1. CoordinatorInv /\ StoreInv =>
         /\ IsFiniteSet({e \in Executions : Working(e)})
         /\ Cardinality({e \in Executions : Working(e)}) <= MaxParallelism
  <2> SUFFICES ASSUME CoordinatorInv, StoreInv
               PROVE  /\ IsFiniteSet({e \in Executions : Working(e)})
                      /\ Cardinality({e \in Executions : Working(e)}) <= MaxParallelism
    OBVIOUS
  <2> DEFINE W == {e \in Executions : Working(e)}
  <2>1. \A e \in W : Holds(e)
    BY DEF CoordinatorInv, Tables, RowOK, Held, Working
  <2>2. W \subseteq ActiveClaims
    BY <2>1 DEF Holds, Renewable, ActiveClaims
  <2> HIDE DEF W
  <2>3. IsFiniteSet(ActiveClaims) /\ Cardinality(ActiveClaims) <= MaxParallelism
    BY DEF StoreInv, CapacityRespected
  <2>4. /\ IsFiniteSet(W) /\ Cardinality(W) <= Cardinality(ActiveClaims)
        /\ Cardinality(W) \in Nat /\ Cardinality(ActiveClaims) \in Nat
    BY <2>2, <2>3, FS_Subset, FS_CardinalityType
  <2>5. IsFiniteSet(W) /\ Cardinality(W) <= MaxParallelism
    BY <2>3, <2>4, ClaimStoreAssumption
  <2> QED BY <2>5 DEF W
<1> QED BY <1>1, CoordinatorInvAlways, CoordinatorKeepsTheStore, PTL

\* The recovery of an expired claim writes nothing about an execution that is
\* queued, even if it was queued after the recovery looked
\* (execution-claim-recovery.ts).
THEOREM RecoveryLeavesTheQueueAlone ==
    ASSUME LeasesKept
    PROVE  Spec => []QueuedWorkIsLeftToTheQueue
<1>1. CoordinatorInv => QueuedWorkIsLeftToTheQueue
  BY DEF CoordinatorInv, CommandOK, At, QueuedWorkIsLeftToTheQueue
<1> QED BY <1>1, CoordinatorInvAlways, PTL

\* However many processes dispatch, recover and crash, and whatever happens to
\* their heartbeats, the configured parallelism is never exceeded: the claiming
\* transaction counts, not the dispatch with its list (dispatchAvailable).
THEOREM CoordinatorRespectsCapacity == Spec => []CapacityRespected
BY CoordinatorKeepsTheStore, PTL DEF StoreInv

\* However many processes dispatch, recover and crash, a lock is held by the
\* claim that needs it, and no lock outlives its claim.
THEOREM CoordinatorLocksAgree == Spec => []LocksMatchActiveClaims
BY CoordinatorKeepsTheStore, PTL DEF StoreInv

\* A claim that is settled stays as it is, though a late executor, a recovery
\* and the queue processor may all try to settle it.
THEOREM CoordinatorSettlesOnce == Spec => SettledClaimsAreFinal
<1>1. StoreInv /\ CoordinatorInv /\ [Next]_vars =>
         [\A e \in Executions :
             claims[e].status \in SettledStatuses => claims'[e] = claims[e]]_storeVars
  BY SettledRowsStay, CoordinatorTakesStoreSteps
<1> QED
  BY <1>1, CoordinatorKeepsTheStore, CoordinatorInvAlways, PTL DEF Spec, SettledClaimsAreFinal

\* A starting command takes over a claim only after the lease of its holder, or
\* of the recovery before it, has run out (reconcileExpired).
THEOREM CoordinatorRecoversExpiredClaims == Spec => RecoveryWaitsForTheLease
<1>1. StoreInv /\ CoordinatorInv /\ [Next]_vars =>
         [\A e \in Executions :
             claims'[e].owner # claims[e].owner =>
                /\ claims'[e].owner # NONE
                /\ claims[e].leaseUntil <= now
                /\ claims[e].owner # NONE => claims[e].recoveryUntil <= now]_storeVars
  BY RecoveryTakesExpiredClaims, CoordinatorTakesStoreSteps
<1> QED
  BY <1>1, CoordinatorKeepsTheStore, CoordinatorInvAlways, PTL
     DEF Spec, RecoveryWaitsForTheLease

\* The unattended runs of any number of processes implement the abstract
\* admission protocol: the dispatches, their executions, the recoveries and the
\* queue processor only ever admit a task no live claim conflicts with, or
\* vacate a claim.
THEOREM CoordinatorImplementsAdmission == Spec => AdmissionSpec
<1>1. Init => Abstract!Init
  BY CoordinatorStartsEmpty, EmptyStoreAdmitsNobody
<1>2. StoreInv /\ CoordinatorInv /\ [Next]_vars => [Abstract!Next]_(Abstract!vars)
  BY StoreStepsAreAdmissions, CoordinatorTakesStoreSteps
<1> QED
  BY <1>1, <1>2, CoordinatorKeepsTheStore, CoordinatorInvAlways, PTL
     DEF Spec, AdmissionSpec, Abstract!Spec

\* However many processes there are, no task is worked on before it is approved,
\* if it has to be, nor before the tasks it depends on are added, however old
\* the list is that its plan was made of (selectRunnableTasks).
THEOREM WorkIsAllowed ==
    Spec => [](\A e \in Executions : Working(e) => Allowed(run[e].task))
<1>1. DispatchInv => \A e \in Executions : Working(e) => Allowed(run[e].task)
  BY DEF DispatchInv, Dispatched, Working, Started
<1> QED BY <1>1, DispatchInvAlways, PTL

\* A process that is alone never works on a task that is not due: in addition,
\* the tasks it depends on are DONE (selectRunnableTasks, dispatchAvailable).
THEOREM OneProcessDoesDueWork ==
    ASSUME Alone
    PROVE  Spec => []OnlyDueWork
<1>1. DispatchInv /\ DueInv => OnlyDueWork
  BY DEF DispatchInv, Dispatched, DueInv, Allowed, Met, OnlyDueWork, Working, Started
<1> QED BY <1>1, DispatchInvAlways, DueInvAlways, PTL

\* No path is in the scope of both tasks, and no resource is used by both.
ApartOf(e, f) ==
    LET t == run[e].task
        u == run[f].task IN
    /\ Needs[t] \cap Needs[u] = {}
    /\ ~\E path \in Paths : InTaskScope(path, Scope[t]) /\ InTaskScope(path, Scope[u])

\* One of two tasks of a dispatch was compared with the other, and the heuristic
\* that compares their scopes misses nothing.
LEMMA DispatchesKeepApart ==
    ASSUME DispatchInv, NEW e \in Executions, NEW f \in Executions,
           Working(e), Working(f), e # f, run[e].by = run[f].by
    PROVE  ApartOf(e, f)
<1> DEFINE t == run[e].task
           u == run[f].task
<1>1. t \in Tasks /\ u \in Tasks /\ (~Conflicting(t, u) \/ ~Conflicting(u, t))
  BY DEF DispatchInv, Dispatched, Compared, Working, Started
<1>2. IsScope(Scope[t]) /\ IsScope(Scope[u])
  BY <1>1, CoordinatorAssumption
<1> HIDE DEF t, u
<1>3. Needs[t] \cap Needs[u] = {}
  BY <1>1 DEF Conflicting
<1>4. ASSUME NEW path \in Paths, InTaskScope(path, Scope[t]), InTaskScope(path, Scope[u])
      PROVE  FALSE
  <2>1. Len(path) \in Nat
    BY CoordinatorAssumption
  <2>2. ScopesOverlap(Scope[t], Scope[u]) /\ ScopesOverlap(Scope[u], Scope[t])
    BY <1>2, <1>4, <2>1, ScopeConflictsAreFound
  <2> QED BY <1>1, <2>2 DEF Conflicting
<1> QED BY <1>3, <1>4 DEF ApartOf, t, u

\* However many processes there are, two executors of one process never work on
\* tasks that share a resource or may change one path (detectTaskConflicts,
\* dispatchAvailable).
THEOREM EachProcessKeepsScopesApart ==
    Spec => [](\A e, f \in Executions :
                  Working(e) /\ Working(f) /\ e # f /\ run[e].by = run[f].by => ApartOf(e, f))
<1>1. DispatchInv =>
         \A e, f \in Executions :
            Working(e) /\ Working(f) /\ e # f /\ run[e].by = run[f].by => ApartOf(e, f)
  BY DispatchesKeepApart
<1> QED BY <1>1, DispatchInvAlways, PTL

\* A process that is alone therefore keeps all work apart.
THEOREM OneProcessKeepsScopesApart ==
    ASSUME Alone
    PROVE  Spec => []ScopesStayApart
<1>1. DispatchInv => ScopesStayApart
  <2> SUFFICES ASSUME DispatchInv, NEW e \in Executions, NEW f \in Executions,
                      Working(e), Working(f), e # f
               PROVE  ApartOf(e, f)
    BY DEF ScopesStayApart, ApartOf
  <2>1. run[e].by = run[f].by
    BY DEF DispatchInv, Dispatched, Working, Started, Alone
  <2> QED BY <2>1, DispatchesKeepApart
<1> QED BY <1>1, DispatchInvAlways, PTL

\* A process that is alone never spends more attempts on a task than it may,
\* though its recoveries make tasks READY without looking at the attempts
\* (reconcileTask), and a retry looks at them long before the next attempt is
\* taken (selectRunnableTasks).
THEOREM OneProcessKeepsTheBudget ==
    ASSUME Alone
    PROVE  Spec => [](\A t \in Tasks : Len(attempts[t]) <= MaxAttempts)
<1>1. BudgetInv => \A t \in Tasks : Len(attempts[t]) <= MaxAttempts
  BY DEF BudgetInv
<1> QED BY <1>1, BudgetInvAlways, PTL

\* A process that is alone takes a DONE task back in one place only, where its
\* recovery has just merged the branch and made the task DONE and a later call in
\* the same try throws (reconcileTask): the task is then FAILED.  Whatever else it
\* recovers, fails or integrates, the status it writes by is never out of date
\* (failExecution, handleUnexpectedFailure).
THEOREM OneProcessLeavesDoneTasks ==
    ASSUME Alone
    PROVE  Spec => [][DoneRemains]_vars
<1>1. StoreInv /\ CoordinatorInv /\ DispatchInv /\ DueInv /\ FinishedInv /\ [Next]_vars =>
         [DoneRemains]_vars
  BY FinishedInvStep
<1> QED
  BY <1>1, FinishedInvAlways, DueInvAlways, DispatchInvAlways, CoordinatorKeepsTheStore,
     CoordinatorInvAlways, PTL DEF Spec
=============================================================================
