----------------------------- MODULE Coordinator -----------------------------
(***************************************************************************)
(* Unattended runs by several processes over one store: the startup        *)
(* recovery of expired claims and interrupted tasks                        *)
(* (execution-claim-recovery.ts), the coordinator's dispatch               *)
(* (task-execution-coordinator.ts) of ClaimedExecution's executions, and   *)
(* the scheduler's cycles around it (unattended-scheduler.ts).  The queue  *)
(* processor and crash recovery appear by what they write to the store;    *)
(* IntegrationProcessor and CrashRecovery have the rest of them.           *)
(***************************************************************************)
EXTENDS ClaimedExecution, TaskConflicts, SequencesExt

CONSTANTS DependsOn,    \* the tasks a task waits for
          Scope,        \* the paths a task may and may not change
          NeedsApproval,    \* the tasks with approval.required
          Paths,        \* the paths of the repository
          Capabilities, \* those a task requires of its agent
          Offered,      \* those of the configured agents, by agent
          Rank,         \* the order of priority, then id
          Listed,       \* the tasks of the store at the beginning
          MaxAttempts,
          MaxCrashes,   \* bound on the crashes of a behaviour
          MaxRetries,   \* bound on the retry commands of a behaviour
          MaxCommands   \* bound on the other commands, 0 for none

ASSUME CoordinatorAssumption ==
    /\ DependsOn \in [Tasks -> SUBSET Tasks]
    /\ DOMAIN Scope = Tasks /\ DOMAIN Capabilities = Tasks
    /\ \A t \in Tasks : IsScope(Scope[t])
    /\ \A path \in Paths : Len(path) \in Nat
    /\ NeedsApproval \subseteq Tasks /\ Listed \subseteq Tasks
    /\ Rank \in [Tasks -> Nat]
    /\ MaxAttempts \in Nat /\ MaxCrashes \in Nat /\ MaxRetries \in Nat /\ MaxCommands \in Nat
    /\ LeasesKept \in BOOLEAN
    /\ Processes \subseteq Owners

VARIABLES added,    \* the tasks that are in the store
          granted,  \* the tasks with an approval on record
          proc,     \* the commands, one per process
          crashes,
          retries,
          commands

taskVars == <<added, granted>>
vars == <<rowVars, taskVars, run, proc, crashes, retries, commands>>

Idle == [pc |-> "idle", phase |-> "startup", todo |-> {},
         exec |-> NONE, task |-> NONE, seen |-> "none", attempt |-> 0,
         snapshot |-> NONE, busy |-> {}, slots |-> 0, cycle |-> "quiet"]

Init == /\ now = 0
        /\ taskStatus = [t \in Tasks |-> "READY"]
        /\ claims = [e \in Executions |-> NoClaim]
        /\ lock = [r \in Resources |-> NONE]
        /\ attempts = [t \in Tasks |-> <<>>]
        /\ entry = [e \in Executions |-> "none"]
        /\ run = [e \in Executions |-> NoRun]
        /\ added = Listed
        /\ granted = {}
        /\ proc = [p \in Processes |-> Idle]
        /\ crashes = 0
        /\ retries = 0
        /\ commands = 0

At(p, pc) == proc[p].pc = pc
Goto(p, pc) == proc' = [proc EXCEPT ![p].pc = pc]

\* Work on one claim, task or entry is over.
Resume(p, pc) == proc' = [proc EXCEPT ![p].pc = pc, ![p].exec = NONE, ![p].task = NONE,
                                      ![p].seen = "none", ![p].attempt = 0]

\* The executions of the current dispatch.
Own(p) == {e \in Executions : run[e].by = p /\ run[e].pc \notin {"none", "gone"}}

\* The executions of process p are over: only their claims are left.
Leave(p) == run' = [e \in Executions |->
                      IF e \in Own(p)
                      THEN [NoRun EXCEPT !.pc = "gone", !.attempt = QueuedAttempt(e)]
                      ELSE run[e]]

\* What most steps leave alone.
RunsStay == UNCHANGED <<run, taskVars, crashes, retries, commands>>

-----------------------------------------------------------------------------
(* Time and failures *)

\* A lease runs out when nobody renews it: the execution is over or dead, or
\* its heartbeat has failed.
LeaseExpires(e) ==
    /\ claims[e].status = "ACTIVE"
    /\ claims[e].leaseUntil > now
    /\ ~Alive(e) \/ run[e].beat = "failed"
    /\ claims' = [claims EXCEPT ![e].leaseUntil = now]
    /\ UNCHANGED <<now, taskStatus, lock, attempts, entry, proc>> /\ RunsStay

\* Nobody renews a recovery lease, however long the recovery takes.
RecoveryLeaseExpires(e) ==
    /\ claims[e].status = "ACTIVE"
    /\ claims[e].recoveryUntil > now
    /\ claims' = [claims EXCEPT ![e].recoveryUntil = now]
    /\ UNCHANGED <<now, taskStatus, lock, attempts, entry, proc>> /\ RunsStay

\* A command dies, and with it the executions it runs.
Crash(p) ==
    /\ ~At(p, "idle")
    /\ crashes < MaxCrashes
    /\ crashes' = crashes + 1
    /\ proc' = [proc EXCEPT ![p] = Idle]
    /\ Leave(p)
    /\ UNCHANGED <<rowVars, taskVars, retries, commands>>

\* The retry command's own transaction; its startup is a status command.
Retry(t) ==
    /\ retries < MaxRetries
    /\ taskStatus[t] \in RetryableStatuses
    /\ Len(attempts[t]) < MaxAttempts
    /\ t \in NeedsApproval => t \in granted
    /\ TransitionTaskStatusFrom(t, taskStatus[t], "READY")
    /\ retries' = retries + 1
    /\ UNCHANGED <<attempts, entry, run, taskVars, proc, crashes, commands>>

\* addTask: a new task is READY.
AddTask(t) ==
    /\ t \notin added
    /\ added' = added \cup {t}
    /\ UNCHANGED <<rowVars, run, granted, proc, crashes, retries, commands>>

\* approve, of a task that is not over; a grant is never taken back.
Approve(t) ==
    /\ t \in (added \cap NeedsApproval) \ granted
    /\ taskStatus[t] \notin {"DONE", "CANCELLED"}
    /\ granted' = granted \cup {t}
    /\ UNCHANGED <<rowVars, run, added, proc, crashes, retries, commands>>

-----------------------------------------------------------------------------
(* startupReconcile: the queue *)

StartCommand(p) ==
    /\ At(p, "idle")
    /\ MaxCommands = 0 \/ commands < MaxCommands
    /\ Goto(p, "startup")
    /\ commands' = IF MaxCommands = 0 THEN 0 ELSE commands + 1
    /\ UNCHANGED <<rowVars, run, taskVars, crashes, retries>>

Abandoned(e) ==
    /\ entry[e] = "INTEGRATING"
    /\ claims[e].status # "ACTIVE" \/ claims[e].leaseUntil <= now

\* An entry that Git cannot classify is left alone.
RecoverAbandoned(p) ==
    /\ At(p, "startup")
    /\ \/ \E e \in Executions :
             /\ Abandoned(e)
             /\ proc' = [proc EXCEPT ![p].pc = "integrate", ![p].exec = e]
       \/ Goto(p, "listClaims")
    /\ UNCHANGED rowVars /\ RunsStay

\* The processor's work on an entry, as one step: it settles the entry, the
\* task and the attempt, or finds that somebody else has.
Integrate(p) ==
    LET e == proc[p].exec
        t == claims[e].task
        After(verdict) == proc' = [proc EXCEPT ![p].pc = "release", ![p].seen = verdict]
    IN
    /\ At(p, "integrate")
    /\ \/ /\ entry[e] = "INTEGRATING"
          /\ entry' = [entry EXCEPT ![e] = "SETTLED"]
          /\ EndAttempt(t, run[e].attempt)
          /\ IF taskStatus[t] = "INTEGRATING"
             THEN \E s \in TerminalStatuses : SetTaskStatus(t, s) /\ After(s)
             ELSE UNCHANGED storeVars /\ After("FAILED")
       \/ /\ entry[e] # "INTEGRATING"
          /\ Resume(p, proc[p].phase)
          /\ UNCHANGED rowVars
    /\ RunsStay

ClaimStatusOf(status) ==
    CASE status = "DONE" -> "COMPLETED"
      [] status = "CANCELLED" -> "CANCELLED"
      [] OTHER -> "FAILED"

\* releaseExecution ignores a refusal: the lease may have run out by now.
ReleaseEntry(p) ==
    LET e == proc[p].exec IN
    /\ At(p, "release")
    /\ \/ ReleaseTaskExecution(e, ClaimStatusOf(proc[p].seen), now)
       \/ ~Releasable(e, now) /\ UNCHANGED storeVars
    /\ Resume(p, proc[p].phase)
    /\ UNCHANGED <<attempts, entry>> /\ RunsStay

-----------------------------------------------------------------------------
(* startupReconcile: expired claims (reconcileExpired) *)

ListClaims(p) ==
    /\ At(p, "listClaims")
    /\ proc' = [proc EXCEPT ![p].pc = "claims", ![p].todo = ActiveClaims]
    /\ UNCHANGED rowVars /\ RunsStay

\* A claim is live, or another restart owns it, or this one now does.
ExamineClaim(p, e) ==
    /\ At(p, "claims")
    /\ e \in proc[p].todo
    /\ \/ /\ ClaimExpiredExecutionRecovery(e, p, now)
          /\ proc' = [proc EXCEPT ![p].pc = "owned", ![p].exec = e, ![p].task = claims[e].task,
                                  ![p].todo = @ \ {e}]
       \/ /\ ~Recoverable(e, now)
          /\ proc' = [proc EXCEPT ![p].todo = @ \ {e}]
          /\ UNCHANGED storeVars
    /\ UNCHANGED <<attempts, entry>> /\ RunsStay

\* The last attempt of a task, if it is RUNNING.
RunningAttempt(t) ==
    IF Len(attempts[t]) > 0 /\ Last(attempts[t]) = "RUNNING" THEN Len(attempts[t]) ELSE 0

Inspected(p, pc) ==
    LET t == proc[p].task IN
    proc' = [proc EXCEPT ![p].pc = pc, ![p].seen = taskStatus[t],
                         ![p].attempt = RunningAttempt(t)]

\* Mutant: the queue is not asked.
InspectOwnedTask(p) ==
    LET status == taskStatus[proc[p].task] IN
    /\ At(p, "owned")
    /\ \/ status \in TerminalStatuses /\ Inspected(p, "settle")
       \/ status \in ActiveStatuses /\ Inspected(p, "write")
       \/ status \notin TerminalStatuses \cup ActiveStatuses /\ Resume(p, "claims")
    /\ UNCHANGED rowVars /\ RunsStay

\* A queued execution is left to the processor; a finished task's claim is
\* settled; an interrupted task is reconciled; any other is left to a human.
InspectOwned(p) ==
    LET status == taskStatus[proc[p].task]
        queued == Queued(proc[p].exec)
    IN
    /\ At(p, "owned")
    /\ \/ ~queued /\ status \in TerminalStatuses /\ Inspected(p, "settle")
       \/ ~queued /\ status \in ActiveStatuses /\ Inspected(p, "write")
       \/ /\ queued \/ status \notin TerminalStatuses \cup ActiveStatuses
          /\ Resume(p, "claims")
    /\ UNCHANGED rowVars /\ RunsStay

\* What reconcileTask may make of a task, by the status it read, or of one whose
\* merge it has just recorded as "MERGED", when the calls after that record fail.
RecoveryOutcomes(status) ==
    CASE status \in {"PLANNING", "PLAN_REVIEW", "IMPLEMENTING", "CODE_REVIEW"} ->
             {"READY", "BLOCKED", "NEEDS_HUMAN"}
      [] status = "VERIFYING" -> {"INTEGRATING", "FAILED", "CANCELLED", "NEEDS_HUMAN"}
      [] status = "INTEGRATING" -> {"DONE", "FAILED", "CANCELLED", "NEEDS_HUMAN"}
      [] status = "MERGED" -> {"FAILED"}
      [] OTHER -> {"DONE"}

\* The outcome's transaction, for the task and the attempt that were read.
WriteOutcome(p, s) ==
    LET t == proc[p].task IN
    /\ SetTaskStatus(t, s)
    /\ IF s = "INTEGRATING" THEN UNCHANGED attempts ELSE EndAttempt(t, proc[p].attempt)
    /\ UNCHANGED entry

\* Without a running attempt the state is inconsistent: a human decides.
CanRecover(p, s) == s = "NEEDS_HUMAN" \/ proc[p].attempt > 0

\* integrateBranch and finishIntegrated share a try: when the task is DONE and a
\* later call throws, finishFailed follows.
MergeFailsLate(p, s) ==
    /\ proc[p].seen = "INTEGRATING" /\ s = "DONE"
    /\ proc' = [proc EXCEPT ![p].seen = "MERGED"]

\* recoveryTransaction: the owner must still hold its recovery lease, or the
\* command fails.
RecoverOwned(p) ==
    /\ At(p, "write")
    /\ \/ /\ OwnsRecovery(proc[p].exec, p, now)
          /\ \E s \in RecoveryOutcomes(proc[p].seen) :
                /\ CanRecover(p, s)
                /\ WriteOutcome(p, s)
                /\ \/ s = "INTEGRATING" /\ proc' = [proc EXCEPT ![p].seen = s]
                   \/ /\ s \in TerminalStatuses \cup {"READY"}
                      /\ proc' = [proc EXCEPT ![p].pc = "settle", ![p].seen = s]
                   \/ s \in {"BLOCKED", "NEEDS_HUMAN"} /\ Resume(p, "claims")
                   \/ MergeFailsLate(p, s)
       \/ /\ ~OwnsRecovery(proc[p].exec, p, now)
          /\ proc' = [proc EXCEPT ![p] = Idle]
          /\ UNCHANGED rowVars
    /\ RunsStay

SettleOwned(p) ==
    LET e == proc[p].exec IN
    /\ At(p, "settle")
    /\ \/ ReleaseRecoveredTaskExecution(e, p, ClaimStatusOf(proc[p].seen), now)
       \/ ~OwnsRecovery(e, p, now) /\ UNCHANGED storeVars
    /\ Resume(p, "claims")
    /\ UNCHANGED <<attempts, entry>> /\ RunsStay

-----------------------------------------------------------------------------
(* startupReconcile: interrupted tasks without a claim (reconcileUnfinished) *)

\* The claims are listed here, the tasks in the next step.
SkipClaimed(p) ==
    /\ At(p, "claims")
    /\ proc[p].todo = {}
    /\ proc' = [proc EXCEPT ![p].pc = "list",
                            ![p].busy = {claims[e].task : e \in ActiveClaims}]
    /\ UNCHANGED rowVars /\ RunsStay

ListUnfinished(p) ==
    /\ At(p, "list")
    /\ proc' = [proc EXCEPT
                  ![p].pc = "unfinished", ![p].busy = {},
                  ![p].todo = {t \in Tasks \ proc[p].busy :
                                  taskStatus[t] \in ActiveStatuses \cup {"FAILED"}}]
    /\ UNCHANGED rowVars /\ RunsStay

\* reconcileTask reads the task again.  A FAILED task stays as it is unless
\* its commit turns out to be integrated, which is left open here.
InspectUnfinished(p, t) ==
    LET reconcile(n) ==
          proc' = [proc EXCEPT ![p].pc = "reconcile", ![p].task = t, ![p].todo = @ \ {t},
                               ![p].seen = taskStatus[t], ![p].attempt = n]
    IN
    /\ At(p, "unfinished")
    /\ t \in proc[p].todo
    /\ \/ taskStatus[t] \in ActiveStatuses /\ reconcile(RunningAttempt(t))
       \/ /\ taskStatus[t] = "FAILED"
          /\ attempts[t] # <<>> /\ RunningAttempt(t) = 0
          /\ reconcile(Len(attempts[t]))
       \/ /\ taskStatus[t] \notin ActiveStatuses
          /\ proc' = [proc EXCEPT ![p].todo = @ \ {t}]
    /\ UNCHANGED rowVars /\ RunsStay

RecoverUnfinished(p) ==
    /\ At(p, "reconcile")
    /\ \E s \in RecoveryOutcomes(proc[p].seen) :
          /\ CanRecover(p, s)
          /\ WriteOutcome(p, s)
          /\ \/ s = "INTEGRATING" /\ proc' = [proc EXCEPT ![p].seen = s]
             \/ s # "INTEGRATING" /\ Resume(p, "unfinished")
             \/ MergeFailsLate(p, s)
    /\ RunsStay

\* A run command goes on to its first cycle; any other does its own work.
StartupEnds(p) ==
    /\ At(p, "unfinished")
    /\ proc[p].todo = {}
    /\ \E command \in {[Idle EXCEPT !.pc = "tasks", !.phase = "drain"], Idle} :
          proc' = [proc EXCEPT ![p] = command]
    /\ UNCHANGED rowVars /\ RunsStay

-----------------------------------------------------------------------------
(* dispatchAvailable *)

ListTasks(p) ==
    /\ At(p, "tasks")
    /\ proc' = [proc EXCEPT ![p].pc = "plan",
                            ![p].snapshot = [t \in added |-> [status |-> taskStatus[t],
                                                              granted |-> t \in granted]]]
    /\ UNCHANGED rowVars /\ RunsStay

\* selectAgentProfile finds one of the available agents.
Routable(t, available) == \E agent \in available : Capabilities[t] \subseteq Offered[agent]

\* Mutant: a dependency that is not among the unclaimed tasks is passed over.
RunnableBesideClaims(row, unclaimed, available) ==
    {t \in unclaimed : /\ row[t].status = "READY"
                       /\ \A d \in DependsOn[t] \cap unclaimed : row[d].status = "DONE"
                       /\ t \in NeedsApproval => row[t].granted
                       /\ Len(attempts[t]) < MaxAttempts
                       /\ Routable(t, available)}

\* selectRunnableTasks, over the tasks nobody has claimed.  A dependency that
\* is claimed, or was never added, counts as not done.
Runnable(row, unclaimed, available) ==
    {t \in unclaimed : /\ row[t].status = "READY"
                       /\ \A d \in DependsOn[t] : d \in unclaimed /\ row[d].status = "DONE"
                       /\ t \in NeedsApproval => row[t].granted
                       /\ Len(attempts[t]) < MaxAttempts
                       /\ Routable(t, available)}

\* The agents are discovered anew for every dispatch.
Plan(p) ==
    LET row == proc[p].snapshot
        active == {t \in DOMAIN row : row[t].status \in ActiveStatuses}
        claimed == {claims[e].task : e \in ActiveClaims}
        most(m, n) == IF m > n THEN m ELSE n
    IN
    /\ At(p, "plan")
    /\ \E available \in SUBSET DOMAIN Offered :
          proc' = [proc EXCEPT
                     ![p].pc = "admit", ![p].snapshot = NONE,
                     ![p].todo = Runnable(row, DOMAIN row \ claimed, available),
                     ![p].busy = active,
                     ![p].slots = most(Cardinality(ActiveClaims), Cardinality(active))]
    /\ UNCHANGED rowVars /\ RunsStay

\* orderRunnableTasks.
First(S) == CHOOSE t \in S : \A u \in S : Rank[t] <= Rank[u]

\* detectTaskConflicts.
Conflicting(t, u) ==
    \/ Needs[t] \cap Needs[u] # {}
    \/ ScopesOverlap(Scope[t], Scope[u])

\* Mutant: the tasks admitted in this dispatch are not added to the active ones.
ConflictsBefore(p, t) ==
    \E u \in proc[p].busy \ {run[e].task : e \in Own(p)} : Conflicting(t, u)

Conflicts(p, t) == \E u \in proc[p].busy : Conflicting(t, u)

\* One task of the plan: the dispatch stops at the capacity (or when Executions
\* is used up), passes over a conflict, and otherwise asks the store for a claim.
Admit(p) ==
    LET t == First(proc[p].todo)
        drop == proc' = [proc EXCEPT ![p].todo = @ \ {t}]
        stop == proc' = [proc EXCEPT ![p].todo = {}]
        fresh == {e \in Executions : claims[e].status = "ABSENT"}
    IN
    /\ At(p, "admit")
    /\ proc[p].todo # {}
    /\ \/ /\ proc[p].slots >= MaxParallelism \/ fresh = {}
          /\ stop /\ UNCHANGED <<storeVars, run>>
       \/ /\ proc[p].slots < MaxParallelism
          /\ Conflicts(p, t)
          /\ drop /\ UNCHANGED <<storeVars, run>>
       \/ /\ proc[p].slots < MaxParallelism
          /\ ~Conflicts(p, t)
          /\ \E e \in fresh :
                \/ /\ ClaimTaskExecution(e, t, now)
                   /\ run' = [run EXCEPT ![e] =
                                 [NoRun EXCEPT !.pc = "create", !.by = p, !.task = t]]
                   /\ proc' = [proc EXCEPT ![p].todo = @ \ {t}, ![p].busy = @ \cup {t},
                                           ![p].slots = @ + 1]
                \/ /\ ~Claimable(e, t)
                   /\ IF taskStatus[t] = "READY" /\ ActiveClaimsOf(t) = {}
                            /\ Cardinality(ActiveClaims) >= MaxParallelism
                      THEN stop ELSE drop
                   /\ UNCHANGED <<storeVars, run>>
    /\ UNCHANGED <<attempts, entry, taskVars, crashes, retries, commands>>

\* The dispatch returns when all its executions have ended.
DispatchEnds(p) ==
    LET outcomes == {run[e].outcome : e \in Own(p)} IN
    /\ At(p, "admit")
    /\ proc[p].todo = {}
    /\ \A e \in Own(p) : RunAt(e, "ended")
    /\ proc' = [proc EXCEPT ![p].pc = "drain", ![p].busy = {}, ![p].slots = 0,
                  ![p].cycle = IF "recovery" \in outcomes THEN "recovery"
                               ELSE IF "progress" \in outcomes THEN "progress" ELSE "quiet"]
    /\ Leave(p)
    /\ UNCHANGED <<rowVars, taskVars, crashes, retries, commands>>

-----------------------------------------------------------------------------
(* The scheduler's integrations and cycles *)

Drain(p) ==
    /\ At(p, "drain")
    /\ \/ /\ \A f \in Executions : entry[f] # "INTEGRATING"
          /\ \E e \in Executions :
                /\ entry[e] = "PENDING"
                /\ entry' = [entry EXCEPT ![e] = "INTEGRATING"]
                /\ proc' = [proc EXCEPT ![p].pc = "integrate", ![p].exec = e,
                                        ![p].cycle = IF @ = "quiet" THEN "progress" ELSE @]
       \/ /\ \E f \in Executions : entry[f] = "INTEGRATING"
          /\ proc' = [proc EXCEPT ![p] = Idle]
          /\ UNCHANGED entry
       \/ /\ \A f \in Executions : ~Queued(f)
          /\ proc' = [proc EXCEPT ![p] = IF @.cycle = "progress"
                                         THEN [Idle EXCEPT !.pc = "tasks", !.phase = "drain"]
                                         ELSE Idle]
          /\ UNCHANGED entry
    /\ UNCHANGED <<storeVars, attempts>> /\ RunsStay

-----------------------------------------------------------------------------
(* The specification *)

CommandStep(p) ==
    \/ RecoverAbandoned(p) \/ Integrate(p) \/ ReleaseEntry(p) \/ ListClaims(p)
    \/ (\E e \in Executions : ExamineClaim(p, e))
    \/ InspectOwned(p) \/ RecoverOwned(p) \/ SettleOwned(p)
    \/ SkipClaimed(p) \/ ListUnfinished(p)
    \/ (\E t \in Tasks : InspectUnfinished(p, t))
    \/ RecoverUnfinished(p) \/ StartupEnds(p)
    \/ ListTasks(p) \/ Plan(p) \/ Admit(p) \/ DispatchEnds(p) \/ Drain(p)

RunStep(e) == ExecutionStep(e) /\ UNCHANGED <<taskVars, proc, crashes, retries, commands>>

HeartbeatStep(e) == Beat(e) /\ UNCHANGED <<taskVars, proc, crashes, retries, commands>>

Next ==
    \/ \E p \in Processes :
          StartCommand(p) \/ CommandStep(p) \/ Crash(p)
    \/ \E e \in Executions :
          RunStep(e) \/ HeartbeatStep(e) \/ LeaseExpires(e) \/ RecoveryLeaseExpires(e)
    \/ \E t \in Tasks : Retry(t) \/ AddTask(t) \/ Approve(t)

Spec == Init /\ [][Next]_vars

-----------------------------------------------------------------------------
(* Properties *)

\* Two executors never work on one task at a time: what a claim is for.
OneExecutorPerTask ==
    \A e, f \in Executions :
       Working(e) /\ Working(f) /\ run[e].task = run[f].task => e = f

\* An executor at work holds its claim, and no recovery owns it.
WorkIsClaimed ==
    \A e \in Executions : Working(e) => claims[e].status = "ACTIVE" /\ claims[e].owner = NONE

\* The recovery of an expired claim does not touch queued work: the processor
\* settles that.
QueuedWorkIsLeftToTheQueue ==
    \A p \in Processes : proc[p].pc \in {"write", "settle"} => ~Queued(proc[p].exec)

\* What task-scope.ts lets one task change, task-conflicts.ts keeps from the
\* others while it is worked on: no path is in the scope of two of them, and no
\* resource is used by two.
ScopesStayApart ==
    \A e, f \in Executions :
       Working(e) /\ Working(f) /\ e # f =>
          LET t == run[e].task
              u == run[f].task IN
          /\ Needs[t] \cap Needs[u] = {}
          /\ ~\E path \in Paths : InTaskScope(path, Scope[t]) /\ InTaskScope(path, Scope[u])

\* No task is worked on before it is approved, if it has to be, and the tasks it
\* depends on are added and DONE, whatever was claimed or added since the list
\* was read.
OnlyDueWork ==
    \A e \in Executions : Working(e) =>
       LET t == run[e].task IN
       /\ t \in NeedsApproval => t \in granted
       /\ \A d \in DependsOn[t] : d \in added /\ taskStatus[d] = "DONE"
=============================================================================
