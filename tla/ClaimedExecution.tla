-------------------------- MODULE ClaimedExecution --------------------------
(***************************************************************************)
(* One execution under a claim (executeAdmitted of                         *)
(* task-execution-coordinator.ts): the executor is created, the heartbeat  *)
(* started, the workflow run in its queued mode, and the claim settled, or *)
(* an unexpected failure handled.  The workflow executor appears by what   *)
(* it writes to the store; TaskExecution has the rest of it.               *)
(*                                                                         *)
(* Only what is left of a lease matters here, so the clock of ClaimStore   *)
(* stands still and a lease that runs out is moved back to it.             *)
(***************************************************************************)
EXTENDS ClaimStore, Sequences, FiniteSetsExt

CONSTANTS Processes,   \* runner processes; each stands for its owner ids
          LeasesKept   \* whether the renewals of a living execution all succeed

VARIABLES attempts,  \* per task, whether each attempt is RUNNING or ENDED
          entry,     \* the queue entry of each execution
          run        \* the executions that coordinators started

rowVars == <<storeVars, attempts, entry>>

\* The simple workflow's statuses, in their order.
Stages == <<"IMPLEMENTING", "VERIFYING", "INTEGRATING">>

NoRun == [pc |-> "none", by |-> NONE, task |-> NONE, attempt |-> 0, stage |-> 0,
          beat |-> "none", outcome |-> "none", verdict |-> "none"]

RunAt(e, pc) == run[e].pc = pc
RunTo(e, pc) == run' = [run EXCEPT ![e].pc = pc]

Alive(e) == run[e].pc \notin {"none", "ended", "gone"}

\* The executor is at work: it may start agents and change the worktree.
Working(e) == run[e].pc \in {"execute", "attempt", "stage", "enqueue"}

Queued(e) == entry[e] \in {"PENDING", "INTEGRATING"}

\* The queue entry keeps the number of the attempt it is for.
QueuedAttempt(e) == IF Queued(e) THEN run[e].attempt ELSE 0

EndAttempt(t, n) ==
    attempts' = IF n \in DOMAIN attempts[t]
                THEN [attempts EXCEPT ![t][n] = "ENDED"] ELSE attempts

\* The execution ends; "recovery" makes the scheduler stop for a human.
EndRun(e, recovery) ==
    run' = [run EXCEPT ![e] =
               [NoRun EXCEPT !.pc = "ended", !.by = run[e].by, !.task = run[e].task,
                             !.attempt = QueuedAttempt(e),
                             !.outcome = IF recovery THEN "recovery"
                                         ELSE IF run[e].outcome = "rejected" THEN "rejected"
                                         ELSE "progress"]]

-----------------------------------------------------------------------------
(* The heartbeat *)

\* The executor is created and the lease renewed; if either fails there is no
\* heartbeat to stop.
StartHeartbeat(e) ==
    /\ RunAt(e, "create")
    /\ \/ /\ RenewTaskExecution(e, now)
          /\ run' = [run EXCEPT ![e].pc = "execute", ![e].beat = "ok"]
       \/ RunTo(e, "threw") /\ UNCHANGED storeVars
    /\ UNCHANGED <<attempts, entry>>

\* A beat.  The first one that is refused or throws is the last; the executor
\* goes on.
Beat(e) ==
    /\ Alive(e)
    /\ run[e].beat = "ok"
    /\ \/ RenewTaskExecution(e, now) /\ UNCHANGED run
       \/ /\ ~Renewable(e) \/ ~LeasesKept
          /\ run' = [run EXCEPT ![e].beat = "failed"]
          /\ UNCHANGED storeVars
    /\ UNCHANGED <<attempts, entry>>

-----------------------------------------------------------------------------
(* executor.run(), in queued mode *)

Returns(e, outcome) ==
    run' = [run EXCEPT ![e].pc = "return", ![e].outcome = outcome, ![e].stage = 0]

Execute(e) ==
    LET t == run[e].task IN
    /\ RunAt(e, "execute")
    /\ IF taskStatus[t] = "READY"
       THEN run' = [run EXCEPT ![e].pc = "attempt", ![e].attempt = Len(attempts[t]) + 1]
       ELSE Returns(e, "rejected")
    /\ UNCHANGED rowVars

\* putAttempt is an upsert under the number counted before.
CreateAttempt(e) ==
    LET t == run[e].task
        n == run[e].attempt
    IN
    /\ RunAt(e, "attempt")
    /\ \/ /\ attempts' = [attempts EXCEPT ![t] =
                            IF n \in DOMAIN @ THEN [@ EXCEPT ![n] = "RUNNING"]
                                              ELSE Append(@, "RUNNING")]
          /\ run' = [run EXCEPT ![e].pc = "stage", ![e].stage = 1]
       \/ Returns(e, "rejected") /\ UNCHANGED attempts
    /\ UNCHANGED <<storeVars, entry>>

\* transitionTask: the executor knows where it is and does not look.
EnterStage(e) ==
    LET k == run[e].stage IN
    /\ RunAt(e, "stage")
    /\ SetTaskStatus(run[e].task, Stages[k])
    /\ run' = [run EXCEPT ![e].pc = IF k = Len(Stages) THEN "enqueue" ELSE "stage",
                          ![e].stage = IF k = Len(Stages) THEN 0 ELSE k + 1]
    /\ UNCHANGED <<attempts, entry>>

\* The stage, its agent or a store call fails.
StageFails(e) ==
    /\ run[e].pc \in {"stage", "enqueue"}
    /\ run' = [run EXCEPT ![e].pc = "fail", ![e].stage = 0]
    /\ UNCHANGED rowVars

\* The entry is written before its event: failing there leaves it queued.
Enqueue(e) ==
    /\ RunAt(e, "enqueue")
    /\ entry' = [entry EXCEPT ![e] = "PENDING"]
    /\ Returns(e, "pending") \/ RunTo(e, "fail")
    /\ UNCHANGED <<storeVars, attempts>>

\* failExecution, which may itself fail to persist.
FailExecution(e) ==
    /\ RunAt(e, "fail")
    /\ \/ /\ \E s \in {"FAILED", "CANCELLED", "BLOCKED"} : SetTaskStatus(run[e].task, s)
          /\ EndAttempt(run[e].task, run[e].attempt)
          /\ Returns(e, "finished")
       \/ RunTo(e, "threw") /\ UNCHANGED <<storeVars, attempts>>
    /\ UNCHANGED entry

-----------------------------------------------------------------------------
(* Settlement *)

ClaimStatusForTask(status) ==
    CASE status = "DONE" -> "COMPLETED"
      [] status = "CANCELLED" -> "CANCELLED"
      [] status \in {"BLOCKED", "NEEDS_HUMAN"} -> "RECOVERY_REQUIRED"
      [] OTHER -> "FAILED"

\* assertHealthy, then releaseIfTerminal as far as its read of the task.
ReadOutcome(e) ==
    LET status == taskStatus[run[e].task] IN
    /\ RunAt(e, "return")
    /\ IF run[e].beat = "failed" THEN RunTo(e, "threw")
       ELSE IF run[e].outcome = "pending" \/ status \in ActiveStatuses THEN RunTo(e, "stop")
       ELSE run' = [run EXCEPT ![e].pc = "release",
                               ![e].verdict = ClaimStatusForTask(status)]
    /\ UNCHANGED rowVars

Release(e) ==
    /\ RunAt(e, "release")
    /\ \/ ReleaseTaskExecution(e, run[e].verdict, now) /\ RunTo(e, "stop")
       \/ ~Releasable(e, now) /\ EndRun(e, TRUE) /\ UNCHANGED storeVars
    /\ UNCHANGED <<attempts, entry>>

\* stop() rethrows the failure of a beat that came in after the release.
StopHeartbeat(e) ==
    /\ RunAt(e, "stop")
    /\ EndRun(e, run[e].beat = "failed")
    /\ UNCHANGED rowVars

-----------------------------------------------------------------------------
(* handleUnexpectedFailure *)

\* An execution whose heartbeat failed, or that is queued, is left to recovery.
ReadFailure(e) ==
    LET status == taskStatus[run[e].task] IN
    /\ RunAt(e, "threw")
    /\ IF run[e].beat = "failed" \/ Queued(e)
       THEN EndRun(e, TRUE)
       ELSE run' = [run EXCEPT
                      ![e].pc = IF status = "DONE" THEN "writeAttempt" ELSE "write",
                      ![e].beat = "none", ![e].outcome = "error",
                      ![e].verdict = IF status \in ActiveStatuses THEN "RECOVERY_REQUIRED"
                                                                  ELSE "FAILED"]
    /\ UNCHANGED rowVars

RunningAttempts(t) == {n \in DOMAIN attempts[t] : attempts[t][n] = "RUNNING"}

\* One transaction, on the status read before it: the last RUNNING attempt
\* ends, and a task that was not DONE gets the status chosen then.
WriteFailure(e) ==
    LET t == run[e].task
        running == RunningAttempts(t)
    IN
    /\ run[e].pc \in {"write", "writeAttempt"}
    /\ \/ /\ IF running = {} THEN UNCHANGED attempts ELSE EndAttempt(t, Max(running))
          /\ IF RunAt(e, "write")
             THEN SetTaskStatus(t, IF run[e].verdict = "FAILED" THEN "FAILED" ELSE "NEEDS_HUMAN")
             ELSE UNCHANGED storeVars
          /\ RunTo(e, "releaseFailed")
       \/ EndRun(e, TRUE) /\ UNCHANGED <<storeVars, attempts>>
    /\ UNCHANGED entry

\* The release's answer is ignored.
ReleaseFailed(e) ==
    /\ RunAt(e, "releaseFailed")
    /\ \/ ReleaseTaskExecution(e, run[e].verdict, now)
       \/ ~Releasable(e, now) /\ UNCHANGED storeVars
    /\ EndRun(e, run[e].verdict = "RECOVERY_REQUIRED")
    /\ UNCHANGED <<attempts, entry>>

ExecutionStep(e) ==
    \/ StartHeartbeat(e) \/ Execute(e) \/ CreateAttempt(e)
    \/ EnterStage(e) \/ StageFails(e) \/ Enqueue(e) \/ FailExecution(e)
    \/ ReadOutcome(e) \/ Release(e) \/ StopHeartbeat(e)
    \/ ReadFailure(e) \/ WriteFailure(e) \/ ReleaseFailed(e)
=============================================================================
