------------------------ MODULE IntegrationProcessor ------------------------
(***************************************************************************)
(* The integration queue processor: commands ("processes") that settle the *)
(* entries of IntegrationQueue against one Git repository, one await of    *)
(* the code per action, so that other processes, the user's own commits,   *)
(* lease expiry and crashes fall between any two of them.  What else ends  *)
(* a queued task is here too: the executor that queued it, when it fails   *)
(* behind the entry, and the startup recovery of expired claims and FAILED *)
(* tasks.                                                                  *)
(*                                                                         *)
(* A revision is its history: the sequence of patches since the initial    *)
(* commit.  Ancestry is then IsPrefix, a rebase replays a patch at the end *)
(* of another history, and a fast-forward replaces a history by a longer   *)
(* one.  Every attempt commits one patch and is enqueued once, so entry,   *)
(* attempt, patch and task share one name.                                 *)
(***************************************************************************)
EXTENDS IntegrationQueue, SequencesExt

CONSTANTS Processes,
          USER,            \* a commit of the user's own
          MaxUserCommits,  \* bound on the commits others make
          MaxCrashes,      \* bound on the crashes and the executors that fail
          RecoveryKept     \* whether a living recovery keeps its lease

ASSUME IntegrationProcessorAssumption ==
    /\ Attempts = Entries
    /\ MaxSequence >= Cardinality(Entries)
    /\ USER \notin Entries
    /\ MaxUserCommits \in Nat
    /\ MaxCrashes \in Nat
    /\ RecoveryKept \in BOOLEAN
    /\ NONE \notin Processes

VARIABLES head,           \* tip of the integration branch
          base,           \* revision each attempt started from
          branch,         \* tip of each attempt's branch
          verified,       \* branch revisions whose checks have passed
          evidence,       \* PASSED integration.verification.completed events
          refuted,        \* entries whose last such event is of the revision
                          \* queued and did not pass
          taskStatus,
          attemptStatus,
          lease,          \* of the claim an entry was executed under
          owner,          \* process whose recovery lease on that claim is in force
          executor,       \* where the executor of each attempt is
          proc,           \* volatile state of each process
          userCommits,    \* how many commits others have made
          crashes         \* how many crashes and failing executors

gitVars == <<head, base, branch, verified>>
events == <<evidence, refuted>>
claimVars == <<lease, owner>>
rowVars == <<events, taskStatus, attemptStatus, claimVars>>
bounds == <<userCommits, crashes>>
others == <<executor, bounds>>
vars == <<queueVars, gitVars, rowVars, executor, proc, bounds>>

Patches == Entries \cup {USER}

Idle == [pc |-> "idle", startup |-> FALSE, entry |-> NONE, todo |-> {},
         onto |-> <<>>, result |-> <<>>, failure |-> NONE, seen |-> NONE]

\* The revision recorded in the entry when it was enqueued.
TaskRevision(q) == Append(base[q], q)

Init ==
    /\ QueueInit
    /\ head = <<>>
    /\ base = [q \in Entries |-> <<>>]
    /\ branch = [q \in Entries |-> <<>>]
    /\ verified = {}
    /\ evidence = {}
    /\ refuted = {}
    /\ taskStatus = [q \in Entries |-> "READY"]
    /\ attemptStatus = [q \in Entries |-> "NONE"]
    /\ lease = [q \in Entries |-> "NONE"]
    /\ owner = [q \in Entries |-> NONE]
    /\ executor = [q \in Entries |-> "none"]
    /\ proc = [p \in Processes |-> Idle]
    /\ userCommits = 0
    /\ crashes = 0

-----------------------------------------------------------------------------
(* Executors *)

\* The executor of some runner process claims the task and creates the attempt's
\* worktree at HEAD.
StartAttempt(q) ==
    /\ executor[q] = "none"
    /\ executor' = [executor EXCEPT ![q] = "work"]
    /\ taskStatus' = [taskStatus EXCEPT ![q] = "IMPLEMENTING"]
    /\ attemptStatus' = [attemptStatus EXCEPT ![q] = "RUNNING"]
    /\ lease' = [lease EXCEPT ![q] = "LIVE"]
    /\ base' = [base EXCEPT ![q] = head]
    /\ branch' = [branch EXCEPT ![q] = head]
    /\ UNCHANGED <<queueVars, head, verified, events, owner, proc, bounds>>

\* The verified change is committed and the task becomes INTEGRATING.  An attempt
\* that ends before this has nothing to do with the queue.
CommitAttempt(q) ==
    /\ executor[q] = "work"
    /\ executor' = [executor EXCEPT ![q] = "enqueue"]
    /\ taskStatus' = [taskStatus EXCEPT ![q] = "INTEGRATING"]
    /\ branch' = [branch EXCEPT ![q] = TaskRevision(q)]
    /\ verified' = verified \cup {TaskRevision(q)}
    /\ UNCHANGED <<queueVars, head, base, events, attemptStatus, claimVars, proc, bounds>>

\* enqueueIntegrationStage up to the entry.
EnqueueAttempt(q) ==
    /\ executor[q] = "enqueue"
    /\ EnqueueIntegrationQueueEntry(q, q)
    /\ executor' = [executor EXCEPT ![q] = "report"]
    /\ UNCHANGED <<gitVars, rowVars, proc, bounds>>

\* The event behind the entry, and the task read again: the executor is over and
\* leaves its claim to the queue processor.
ReportEnqueued(q) ==
    /\ executor[q] = "report"
    /\ executor' = [executor EXCEPT ![q] = "gone"]
    /\ UNCHANGED <<queueVars, gitVars, rowVars, proc, bounds>>

Unlucky == crashes < MaxCrashes /\ crashes' = crashes + 1

\* A store call before the entry fails, or one behind it.
EnqueueingFails(q) ==
    /\ executor[q] \in {"enqueue", "report"}
    /\ Unlucky
    /\ executor' = [executor EXCEPT ![q] = "fail"]
    /\ UNCHANGED <<queueVars, gitVars, rowVars, proc, userCommits>>

\* failExecution, whatever has become of the entry since; when it fails too and
\* nothing is queued, handleUnexpectedFailure leaves the task to a human.
FailExecution(q) ==
    /\ executor[q] = "fail"
    /\ executor' = [executor EXCEPT ![q] = "release"]
    /\ \/ taskStatus' = [taskStatus EXCEPT ![q] = "FAILED"]
       \/ /\ entries[q].status = "ABSENT"
          /\ taskStatus' = [taskStatus EXCEPT ![q] = "NEEDS_HUMAN"]
    /\ attemptStatus' = [attemptStatus EXCEPT ![q] = "FAILED"]
    /\ UNCHANGED <<queueVars, gitVars, events, claimVars, proc, bounds>>

ReleaseFailed(q) ==
    /\ executor[q] = "release"
    /\ executor' = [executor EXCEPT ![q] = "failed"]
    /\ lease' = [lease EXCEPT ![q] = IF @ = "LIVE" THEN "SETTLED" ELSE @]
    /\ UNCHANGED <<queueVars, gitVars, events, taskStatus, attemptStatus, owner, proc, bounds>>

\* The executor's process dies, or what it fails with is left to recovery.
ExecutorDies(q) ==
    /\ executor[q] \in {"enqueue", "report", "fail", "release"}
    /\ Unlucky
    /\ executor' = [executor EXCEPT ![q] = IF @ = "release" THEN "failed" ELSE "gone"]
    /\ UNCHANGED <<queueVars, gitVars, rowVars, proc, userCommits>>

\* Nobody renews the lease when the executor is over.
LeaseExpires(q) ==
    /\ lease[q] = "LIVE"
    /\ executor[q] \in {"gone", "failed"}
    /\ lease' = [lease EXCEPT ![q] = "EXPIRED"]
    /\ UNCHANGED <<queueVars, gitVars, events, taskStatus, attemptStatus, owner, executor,
                   proc, bounds>>

-----------------------------------------------------------------------------
(* The surroundings *)

\* The user commits to the integration branch: a change of their own, or the
\* change of an attempt (a cherry-pick or a merge of its branch).
UserCommits(x) ==
    /\ userCommits < MaxUserCommits
    /\ x # USER => executor[x] \notin {"none", "work"} /\ ~Contains(head, x)
    /\ head' = Append(head, x)
    /\ userCommits' = userCommits + 1
    /\ UNCHANGED <<queueVars, base, branch, verified, rowVars, executor, proc, crashes>>

\* A command dies, or a store error that nothing catches rejects it.
Crash(p) ==
    /\ proc[p].pc # "idle"
    /\ Unlucky
    /\ proc' = [proc EXCEPT ![p] = Idle]
    /\ UNCHANGED <<queueVars, gitVars, rowVars, executor, userCommits>>

-----------------------------------------------------------------------------
(* Control *)

At(p, pc) == proc[p].pc = pc

Goto(p, pc) == proc' = [proc EXCEPT ![p].pc = pc]

\* What a process goes on with when nothing it has read is needed any more.
Forgetting(p, pc) ==
    [Idle EXCEPT !.pc = pc, !.startup = proc[p].startup, !.entry = proc[p].entry]

Proceed(p, pc) == proc' = [proc EXCEPT ![p] = Forgetting(p, pc)]

\* The checks are next, in the integration checkout, on a HEAD of this revision.
Verify(p, revision) ==
    proc' = [proc EXCEPT ![p] = [Forgetting(p, "verify") EXCEPT !.result = revision]]

Fail(p, kind) ==
    proc' = [proc EXCEPT ![p] = [Forgetting(p, "fail") EXCEPT !.failure = kind]]

\* The processor returns an outcome: startup goes on with the expired claims,
\* the scheduler's loop with the next entry.
Return(p) ==
    proc' = [proc EXCEPT ![p] = IF proc[p].startup THEN [Idle EXCEPT !.pc = "listClaims"]
                                                   ELSE [Idle EXCEPT !.pc = "next"]]

\* The reconciliation of one claim or task of a list is over.
Resume(p, pc) == proc' = [proc EXCEPT ![p] = [Idle EXCEPT !.pc = pc, !.todo = proc[p].todo]]

-----------------------------------------------------------------------------
(* Startup: abandoned entries (recoverAbandoned) *)

\* Mutant: an entry counts as abandoned although its claim is live.
AbandonedWhateverTheLease == With("INTEGRATING")

Abandoned == {q \in With("INTEGRATING") : lease[q] # "LIVE"}

\* A command starts and lists them; at most one entry is INTEGRATING.
StartCommand(p) ==
    /\ At(p, "idle")
    /\ \/ \E q \in Abandoned :
             proc' = [proc EXCEPT ![p].pc = "inspect", ![p].startup = TRUE, ![p].entry = q]
       \/ Abandoned = {} /\ proc' = [proc EXCEPT ![p].pc = "listClaims"]
    /\ UNCHANGED <<queueVars, gitVars, rowVars, others>>

InspectHead(p) ==
    /\ At(p, "inspect")
    /\ proc' = [proc EXCEPT ![p].pc = "classify", ![p].result = head]
    /\ UNCHANGED <<queueVars, gitVars, rowVars, others>>

\* Mutant: the evidence may be of another revision.
ClassifiedByEvidenceOfAnyRevision(q, seen) ==
    IF ~IsPrefix(TaskRevision(q), seen) THEN "requeue"
    ELSE IF \E v \in evidence : v.entry = q THEN "settle" ELSE "verify"

\* Mutant: what is merged is taken for verified.
ClassifiedByAncestry(q, seen) ==
    IF ~IsPrefix(TaskRevision(q), seen) THEN "requeue" ELSE "settle"

\* Where classifyAbandoned sends the entry, given the HEAD inspected before.
Classified(q, seen) ==
    IF ~IsPrefix(TaskRevision(q), seen) THEN "requeue"
    ELSE IF \E v \in evidence : v.entry = q /\ v.revision = seen
         THEN "settle" ELSE "verify"

ClassifyAbandoned(p) ==
    /\ At(p, "classify")
    /\ LET next == Classified(proc[p].entry, proc[p].result)
       IN IF next = "requeue" THEN Proceed(p, next) ELSE Goto(p, next)
    /\ UNCHANGED <<queueVars, gitVars, rowVars, others>>

\* Git cannot be read, or the branch of an entry that is not integrated is
\* gone: the entry is left to a human.
CannotClassify(p) ==
    /\ proc[p].pc \in {"inspect", "classify"}
    /\ Return(p)
    /\ UNCHANGED <<queueVars, gitVars, rowVars, others>>

RequeueNotIntegrated(p) ==
    /\ At(p, "requeue")
    /\ \/ RequeueIntegrationQueueEntry(proc[p].entry) /\ Goto(p, "reclaim")
       \/ /\ entries[proc[p].entry].status # "INTEGRATING"
          /\ Return(p)
          /\ UNCHANGED queueVars
    /\ UNCHANGED <<gitVars, rowVars, others>>

\* processRequeued: another entry that was claimed instead stays INTEGRATING.
ProcessRequeued(p) ==
    /\ At(p, "reclaim")
    /\ \/ \E q \in Entries :
             /\ ClaimNextIntegrationQueueEntry(q)
             /\ IF q = proc[p].entry THEN Goto(p, "claimed") ELSE Return(p)
       \/ /\ \A q \in Entries : ~IsNext(q)
          /\ Return(p)
          /\ UNCHANGED queueVars
    /\ UNCHANGED <<gitVars, rowVars, others>>

-----------------------------------------------------------------------------
(* Startup: expired claims (reconcileExpired) *)

TerminalStatuses == {"DONE", "FAILED", "CANCELLED"}

Active(q) == lease[q] \in {"LIVE", "EXPIRED"}

ListClaims(p) ==
    /\ At(p, "listClaims")
    /\ proc' = [proc EXCEPT ![p].pc = "claims", ![p].todo = {q \in Entries : Active(q)}]
    /\ UNCHANGED <<queueVars, gitVars, rowVars, others>>

\* Mutant: only claims that never reached the queue are looked at.
NeverEnqueued(q) ==
    /\ entries[q].status = "ABSENT"
    /\ taskStatus[q] \in TerminalStatuses

\* Whether the claim of q only has to be settled.
Finished(q) ==
    /\ entries[q].status \notin ActiveStatusesOfEntries
    /\ taskStatus[q] \in TerminalStatuses

\* Whether the executor left q between its commit and its entry.
Unqueued(q) == entries[q].status = "ABSENT" /\ taskStatus[q] = "INTEGRATING"

\* An expired claim that no other recovery owns is taken over, and left alone
\* when its entry is the processor's or its task is a human's.
ExamineClaim(p) ==
    \E q \in proc[p].todo :
       LET rest(pc) == proc' = [proc EXCEPT ![p].pc = pc, ![p].todo = @ \ {q},
                                            ![p].entry = IF pc = "claims" THEN NONE ELSE q]
       IN
       /\ At(p, "claims")
       /\ \/ /\ lease[q] = "EXPIRED" /\ owner[q] = NONE
             /\ owner' = [owner EXCEPT ![q] = p]
             /\ \/ Finished(q) /\ rest("settleClaim")
                \/ Unqueued(q) /\ rest("recover")
                \/ ~Finished(q) /\ ~Unqueued(q) /\ rest("claims")
          \/ /\ lease[q] # "EXPIRED" \/ owner[q] # NONE
             /\ rest("claims")
             /\ UNCHANGED owner
       /\ UNCHANGED <<queueVars, gitVars, events, taskStatus, attemptStatus, lease, others>>

Recovering(p, q) ==
    proc[p].entry = q /\ proc[p].pc \in {"recover", "remerge", "conclude", "concludeMerge",
                                         "giveUp", "human", "settleClaim"}

\* Nobody renews a recovery lease.
RecoveryLeaseExpires(q) ==
    /\ owner[q] # NONE
    /\ RecoveryKept => ~Recovering(owner[q], q)
    /\ owner' = [owner EXCEPT ![q] = NONE]
    /\ UNCHANGED <<queueVars, gitVars, events, taskStatus, attemptStatus, lease, proc, others>>

\* reconcileIntegration as far as its reads: the commit is integrated, or its
\* branch, which nobody has rebased, can be merged, or a human decides.  No check
\* of an entry that never was has been recorded.
RecoverUnqueued(p) ==
    LET commit == TaskRevision(proc[p].entry) IN
    /\ At(p, "recover")
    /\ \/ IsPrefix(commit, head) /\ Goto(p, "conclude")
       \/ IsPrefix(head, commit) /\ head # commit /\ Goto(p, "remerge")
       \/ Goto(p, "human")
    /\ UNCHANGED <<queueVars, gitVars, rowVars, others>>

\* integrateBranch once more.
Remerge(p) ==
    LET q == proc[p].entry IN
    /\ At(p, "remerge")
    /\ \/ IsPrefix(branch[q], head) /\ Goto(p, "concludeMerge") /\ UNCHANGED head
       \/ IsPrefix(head, branch[q]) /\ head' = branch[q] /\ Goto(p, "concludeMerge")
       \/ Goto(p, "giveUp") /\ UNCHANGED head
    /\ UNCHANGED <<queueVars, base, branch, verified, rowVars, others>>

\* recoveryTransaction: whoever has lost the recovery lease is rejected.
RecoveryTransaction(p, task, attempt) ==
    LET q == proc[p].entry IN
    IF owner[q] = p
    THEN /\ taskStatus' = [taskStatus EXCEPT ![q] = task]
         /\ attemptStatus' = [attemptStatus EXCEPT ![q] = attempt]
    ELSE UNCHANGED <<taskStatus, attemptStatus>> /\ proc' = [proc EXCEPT ![p] = Idle]

\* finishIntegrated.  After a merge it shares the merge's try: when its
\* transaction or a later call throws, finishFailed follows.
ConcludeIntegrated(p) ==
    /\ proc[p].pc \in {"conclude", "concludeMerge"}
    /\ \/ /\ RecoveryTransaction(p, "DONE", "SUCCEEDED")
          /\ owner[proc[p].entry] = p =>
                Goto(p, "settleClaim") \/ (At(p, "concludeMerge") /\ Goto(p, "giveUp"))
       \/ /\ At(p, "concludeMerge")
          /\ Goto(p, "giveUp")
          /\ UNCHANGED <<taskStatus, attemptStatus>>
    /\ UNCHANGED <<queueVars, gitVars, events, claimVars, others>>

\* finishFailed, or requiresHuman, which leaves the claim ACTIVE.
ConcludeOtherwise(p) ==
    /\ \/ /\ At(p, "giveUp")
          /\ RecoveryTransaction(p, "FAILED", "FAILED")
          /\ owner[proc[p].entry] = p => Goto(p, "settleClaim")
       \/ /\ At(p, "human")
          /\ RecoveryTransaction(p, "NEEDS_HUMAN", "FAILED")
          /\ owner[proc[p].entry] = p => Resume(p, "claims")
    /\ UNCHANGED <<queueVars, gitVars, events, claimVars, others>>

\* releaseRecoveredTaskExecution.
SettleClaim(p) ==
    LET q == proc[p].entry IN
    /\ At(p, "settleClaim")
    /\ IF owner[q] = p
       THEN /\ lease' = [lease EXCEPT ![q] = "SETTLED"]
            /\ owner' = [owner EXCEPT ![q] = NONE]
       ELSE UNCHANGED claimVars
    /\ Resume(p, "claims")
    /\ UNCHANGED <<queueVars, gitVars, events, taskStatus, attemptStatus, others>>

-----------------------------------------------------------------------------
(* Startup: FAILED tasks without a claim (reconcileUnfinished) *)

\* An INTEGRATING task always has a claim, so none is among them.
ListFailed(p) ==
    /\ At(p, "claims")
    /\ proc[p].todo = {}
    /\ proc' = [proc EXCEPT ![p].pc = "failed",
                            ![p].todo = {q \in Entries : taskStatus[q] = "FAILED" /\ ~Active(q)}]
    /\ UNCHANGED <<queueVars, gitVars, rowVars, others>>

\* reconcileFailedTask, as far as its reads: the commit is integrated, and the last
\* check of the integrated branch is not one of that very commit that did not pass.
\* Otherwise, also when Git cannot be read, the task stays FAILED.
JudgeFailed(p) ==
    /\ At(p, "failed")
    /\ \E q \in proc[p].todo :
          \/ /\ taskStatus[q] = "FAILED" /\ attemptStatus[q] # "RUNNING"
             /\ IsPrefix(TaskRevision(q), head) /\ q \notin refuted
             /\ proc' = [proc EXCEPT ![p].pc = "converge", ![p].todo = @ \ {q}, ![p].entry = q]
          \/ proc' = [proc EXCEPT ![p].todo = @ \ {q}]
    /\ UNCHANGED <<queueVars, gitVars, rowVars, others>>

\* finishIntegrated of a FAILED task, for which no owner is asked.
Converge(p) ==
    LET q == proc[p].entry IN
    /\ At(p, "converge")
    /\ taskStatus' = [taskStatus EXCEPT ![q] = "DONE"]
    /\ attemptStatus' = [attemptStatus EXCEPT ![q] = "SUCCEEDED"]
    /\ Resume(p, "failed")
    /\ UNCHANGED <<queueVars, gitVars, events, claimVars, others>>

\* The command ends, or is an unattended run and goes on to the queue.
StartupEnds(p) ==
    /\ At(p, "failed")
    /\ proc[p].todo = {}
    /\ \E pc \in {"idle", "next"} : proc' = [proc EXCEPT ![p] = [Idle EXCEPT !.pc = pc]]
    /\ UNCHANGED <<queueVars, gitVars, rowVars, others>>

-----------------------------------------------------------------------------
(* processNext and processClaimed *)

ProcessNext(p) ==
    /\ At(p, "next")
    /\ \/ \E q \in Entries :
             /\ ClaimNextIntegrationQueueEntry(q)
             /\ proc' = [proc EXCEPT ![p].pc = "claimed", ![p].entry = q]
       \/ /\ \A q \in Entries : ~IsNext(q)
          /\ proc' = [proc EXCEPT ![p] = Idle]
          /\ UNCHANGED queueVars
    /\ UNCHANGED <<gitVars, rowVars, others>>

\* The task may have left INTEGRATING, or a required check have no command.
CheckClaimed(p) ==
    /\ At(p, "claimed")
    /\ \/ taskStatus[proc[p].entry] = "INTEGRATING" /\ Goto(p, "reconcile")
       \/ Fail(p, "error")
    /\ UNCHANGED <<queueVars, gitVars, rowVars, others>>

\* drift.reconcile up to the rebase: the HEAD is read now, never earlier.
\* UNSAFE histories and Git errors fail.
ReconcileDrift(p) ==
    LET q == proc[p].entry
        integrated == IsPrefix(TaskRevision(q), head) IN
    /\ At(p, "reconcile")
    /\ \/ integrated /\ Verify(p, head)
       \/ ~integrated /\ head = base[q] /\ Goto(p, "merge")
       \/ ~integrated /\ head # base[q]
          /\ proc' = [proc EXCEPT ![p].pc = "rebase", ![p].onto = head]
       \/ Fail(p, "error")
    /\ UNCHANGED <<queueVars, gitVars, rowVars, others>>

\* Mutant: git rebase --reapply-cherry-picks.
RebasedReapplying(q, onto) == IF IsPrefix(onto, branch[q]) THEN branch[q] ELSE Append(onto, q)

\* What "git rebase" leaves on the branch when it does not conflict.
Rebased(q, onto) ==
    IF IsPrefix(onto, branch[q]) THEN branch[q]
    ELSE IF Contains(branch[q], q) /\ ~Contains(onto, q)
         THEN Append(onto, q) ELSE onto

\* A rebase that conflicts is aborted, which restores the branch.
RebaseBranch(p) ==
    LET q == proc[p].entry
        tip == Rebased(q, proc[p].onto) IN
    /\ At(p, "rebase")
    /\ \/ /\ branch' = [branch EXCEPT ![q] = tip]
          /\ IF tip = proc[p].onto THEN Verify(p, tip) ELSE Goto(p, "reevaluate")
       \/ Fail(p, "error") /\ UNCHANGED branch
    /\ UNCHANGED <<queueVars, head, base, verified, rowVars, others>>

\* Mutant: the rebased branch is merged without running the checks again.
ReevaluateAndMerge(p) ==
    /\ At(p, "reevaluate")
    /\ \/ head = proc[p].onto /\ Proceed(p, "merge")
       \/ Fail(p, "error")
    /\ UNCHANGED <<queueVars, gitVars, rowVars, others>>

\* The HEAD must still be the revision the branch was rebased onto.
Reevaluate(p) ==
    /\ At(p, "reevaluate")
    /\ \/ head = proc[p].onto /\ Proceed(p, "reverify")
       \/ Fail(p, "error")
    /\ UNCHANGED <<queueVars, gitVars, rowVars, others>>

\* runReconciliationVerification, in the task's worktree.
VerifyReconciled(p) ==
    /\ At(p, "reverify")
    /\ \/ verified' = verified \cup {branch[proc[p].entry]} /\ Goto(p, "merge")
       \/ (\E kind \in {"error", "cancelled"} : Fail(p, kind)) /\ UNCHANGED verified
    /\ UNCHANGED <<queueVars, head, base, branch, rowVars, others>>

\* integrateBranch: git merge --ff-only of the branch's tip, whatever it is
\* now; a dirty checkout or a HEAD that moved fails.
Integrate(p) ==
    LET q == proc[p].entry IN
    /\ At(p, "merge")
    /\ \/ IsPrefix(branch[q], head) /\ UNCHANGED head /\ Verify(p, head)
       \/ /\ IsPrefix(head, branch[q]) /\ head # branch[q]
          /\ head' = branch[q]
          /\ Verify(p, branch[q])
       \/ Fail(p, "error") /\ UNCHANGED head
    /\ UNCHANGED <<queueVars, base, branch, verified, rowVars, others>>

\* runIntegrationVerification, in the integration checkout: the tree it tests
\* is the HEAD of that moment, the revision it records the one from before.  A
\* check that cannot be run leaves no record.
VerifyIntegrated(p) ==
    LET q == proc[p].entry
        revision == proc[p].result IN
    /\ At(p, "verify")
    /\ \/ /\ evidence' = evidence \cup {[entry |-> q, revision |-> revision, tested |-> head]}
          /\ refuted' = refuted \ {q}
          /\ Goto(p, "settle")
       \/ /\ refuted' = IF revision = TaskRevision(q) THEN refuted \cup {q} ELSE refuted \ {q}
          /\ \E kind \in {"error", "cancelled"} : Fail(p, kind)
          /\ UNCHANGED evidence
       \/ Fail(p, "error") /\ UNCHANGED events
    /\ UNCHANGED <<queueVars, gitVars, taskStatus, attemptStatus, claimVars, others>>

\* One transaction; it rolls back when the entry is no longer INTEGRATING, or the
\* store fails.
SettleSuccess(p) ==
    LET q == proc[p].entry IN
    /\ At(p, "settle")
    /\ \/ /\ CompleteIntegrationQueueEntry(q)
          /\ attemptStatus' = [attemptStatus EXCEPT ![q] = "SUCCEEDED"]
          /\ taskStatus' = [taskStatus EXCEPT ![q] = "DONE"]
          /\ Proceed(p, "release")
       \/ /\ Fail(p, "error")
          /\ UNCHANGED <<queueVars, attemptStatus, taskStatus>>
    /\ UNCHANGED <<gitVars, events, claimVars, others>>

\* FAILED or CANCELLED, by what went wrong.
FailedAs(p) == IF proc[p].failure = "cancelled" THEN "CANCELLED" ELSE "FAILED"

\* settleFailure reads the task first.
ReadTask(p) ==
    /\ At(p, "fail")
    /\ proc' = [proc EXCEPT ![p].pc = "settleFailure", ![p].seen = taskStatus[proc[p].entry]]
    /\ UNCHANGED <<queueVars, gitVars, rowVars, others>>

\* A task that was no longer INTEGRATING keeps its status.
FailTask(p) ==
    taskStatus' = [taskStatus EXCEPT ![proc[p].entry] =
                     IF proc[p].seen = "INTEGRATING" THEN FailedAs(p) ELSE @]

\* Mutant: the attempt is written outside the transaction.
SettleFailureWithoutRollback(p) ==
    LET q == proc[p].entry IN
    /\ At(p, "settleFailure")
    /\ attemptStatus' = [attemptStatus EXCEPT ![q] = FailedAs(p)]
    /\ \/ FailIntegrationQueueEntry(q) /\ FailTask(p) /\ Proceed(p, "release")
       \/ /\ entries[q].status # "INTEGRATING"
          /\ Return(p)
          /\ UNCHANGED <<queueVars, taskStatus>>
    /\ UNCHANGED <<gitVars, events, claimVars, others>>

\* Mutant: the entry's own settlement is forgotten.
SettleFailureOfTheTask(p) ==
    /\ At(p, "settleFailure")
    /\ attemptStatus' = [attemptStatus EXCEPT ![proc[p].entry] = FailedAs(p)]
    /\ FailTask(p)
    /\ Proceed(p, "release")
    /\ UNCHANGED <<queueVars, gitVars, events, claimVars, others>>

\* Mutant: the entry is failed in a transaction of its own.
SettleFailureInTwoTransactions(p) ==
    LET q == proc[p].entry IN
    /\ At(p, "settleFailure")
    /\ \/ /\ FailIntegrationQueueEntry(q)
          /\ UNCHANGED <<attemptStatus, taskStatus, proc>>
       \/ /\ entries[q].status # "INTEGRATING"
          /\ attemptStatus' = [attemptStatus EXCEPT ![q] = FailedAs(p)]
          /\ FailTask(p)
          /\ Proceed(p, "release")
          /\ UNCHANGED queueVars
    /\ UNCHANGED <<gitVars, events, claimVars, others>>

\* One transaction too; a rolled back failure is reported and not released.
SettleFailure(p) ==
    LET q == proc[p].entry IN
    /\ At(p, "settleFailure")
    /\ \/ /\ FailIntegrationQueueEntry(q)
          /\ attemptStatus' = [attemptStatus EXCEPT ![q] = FailedAs(p)]
          /\ FailTask(p)
          /\ Proceed(p, "release")
       \/ /\ entries[q].status # "INTEGRATING"
          /\ Return(p)
          /\ UNCHANGED <<queueVars, attemptStatus, taskStatus>>
    /\ UNCHANGED <<gitVars, events, claimVars, others>>

\* releaseExecution: refused, without an error, once the lease has run out.
ReleaseExecution(p) ==
    LET q == proc[p].entry IN
    /\ At(p, "release")
    /\ lease' = [lease EXCEPT ![q] = IF @ = "LIVE" THEN "SETTLED" ELSE @]
    /\ Return(p)
    /\ UNCHANGED <<queueVars, gitVars, events, taskStatus, attemptStatus, owner, others>>

-----------------------------------------------------------------------------
\* What a process does of itself, once its command is running.
Step(p) ==
    \/ InspectHead(p) \/ ClassifyAbandoned(p) \/ RequeueNotIntegrated(p)
    \/ ProcessRequeued(p) \/ ListClaims(p) \/ ExamineClaim(p)
    \/ RecoverUnqueued(p) \/ Remerge(p) \/ ConcludeIntegrated(p) \/ ConcludeOtherwise(p)
    \/ SettleClaim(p) \/ ListFailed(p) \/ JudgeFailed(p) \/ Converge(p)
    \/ StartupEnds(p) \/ ProcessNext(p) \/ CheckClaimed(p)
    \/ ReconcileDrift(p) \/ RebaseBranch(p) \/ Reevaluate(p)
    \/ VerifyReconciled(p) \/ Integrate(p) \/ VerifyIntegrated(p)
    \/ SettleSuccess(p) \/ ReadTask(p) \/ SettleFailure(p) \/ ReleaseExecution(p)

ExecutorStep(q) ==
    \/ CommitAttempt(q) \/ EnqueueAttempt(q) \/ ReportEnqueued(q)
    \/ FailExecution(q) \/ ReleaseFailed(q)

Next ==
    \/ \E q \in Entries :
          \/ StartAttempt(q) \/ ExecutorStep(q) \/ EnqueueingFails(q) \/ ExecutorDies(q)
          \/ LeaseExpires(q) \/ RecoveryLeaseExpires(q)
    \/ \E x \in Patches : UserCommits(x)
    \/ \E p \in Processes : StartCommand(p) \/ Step(p) \/ CannotClassify(p) \/ Crash(p)

Spec == Init /\ [][Next]_vars

\* Steps that are started end, leases run out, users keep running commands,
\* some of them unattended runs, and Git can be read again sooner or later.
Fairness ==
    /\ \A q \in Entries :
          WF_vars(ExecutorStep(q)) /\ WF_vars(LeaseExpires(q)) /\ WF_vars(RecoveryLeaseExpires(q))
    /\ \A p \in Processes :
          /\ WF_vars(StartCommand(p))
          /\ WF_vars(Step(p))
          /\ SF_vars(InspectHead(p))
          /\ SF_vars(ClassifyAbandoned(p))
          /\ SF_vars(StartupEnds(p) /\ proc'[p].pc = "next")

FairSpec == Spec /\ Fairness

-----------------------------------------------------------------------------
(* Properties *)

\* The change of a DONE task is on the integration branch, and that of a COMPLETED
\* entry has passed the checks there, on a tree that contains it, whatever
\* crashed or raced.
DoneIsIntegrated ==
    \A q \in Entries :
       /\ taskStatus[q] = "DONE" \/ entries[q].status = "COMPLETED" => Contains(head, q)
       /\ entries[q].status = "COMPLETED" =>
             \E v \in evidence : v.entry = q /\ Contains(v.tested, q)

\* Before success is settled the checks have passed on a tree at least as new
\* as the HEAD the process saw: startup never trusts the evidence of an older one.
SuccessRestsOnFreshEvidence ==
    \A p \in Processes : At(p, "settle") =>
       \E v \in evidence : v.entry = proc[p].entry /\ IsPrefix(proc[p].result, v.tested)

\* The executor has written a failure.
WroteFailure(q) == executor[q] \in {"release", "failed"}

\* Unless its executor fails behind the entry, entry, attempt and task are settled
\* together and with the same verdict, also when two processes believe they own
\* the entry; only a startup that finds the failed change integrated raises it.
VerdictsAgree ==
    \A q \in Entries : ~WroteFailure(q) =>
       CASE entries[q].status = "COMPLETED" ->
               taskStatus[q] = "DONE" /\ attemptStatus[q] = "SUCCEEDED"
         [] entries[q].status = "FAILED" ->
               \/ taskStatus[q] = attemptStatus[q] /\ taskStatus[q] \in {"FAILED", "CANCELLED"}
               \/ /\ taskStatus[q] = "DONE" /\ attemptStatus[q] = "SUCCEEDED"
                  /\ IsPrefix(TaskRevision(q), head)
         [] entries[q].status \in ActiveStatusesOfEntries ->
               taskStatus[q] = "INTEGRATING" /\ attemptStatus[q] = "RUNNING"
         [] OTHER -> TRUE

\* Whatever fails where, a settled entry leaves nothing behind that waits for it.
SettledEntriesEndTheirTask ==
    \A q \in Entries : Settled(q) =>
       taskStatus[q] \in TerminalStatuses /\ attemptStatus[q] \notin {"NONE", "RUNNING"}

\* However often an entry is requeued, rebased and merged, its patch lands on
\* the integration branch at most once, also next to a cherry-pick of it.
PatchesLandOnce ==
    \A i, j \in 1..Len(head) : head[i] = head[j] /\ head[i] # USER => i = j

WorksOn(p, q) == proc[p].entry = q /\ proc[p].pc \notin {"idle", "inspect", "classify", "requeue"}

\* While the lease is live a claimed entry has one worker: startup of another
\* process leaves it alone.
LiveEntriesHaveOneWorker ==
    \A q \in Entries, p, r \in Processes :
       WorksOn(p, q) /\ WorksOn(r, q) /\ lease[q] = "LIVE" => p = r

\* The runner only ever moves the integration branch to a revision whose
\* checks have passed in the task's worktree: after a rebase "verification must
\* rerun before integration" (integration-drift.ts).
OnlyVerifiedRevisionsAreMerged ==
    [][head' # head /\ userCommits' = userCommits => head' \in verified]_vars

\* Every enqueued entry is settled in the end, in spite of crashes.
EveryEntrySettles ==
    \A q \in Entries : entries[q].status = "PENDING" ~> Settled(q)

\* The claim of a finished task is settled in the end, and its locks with it,
\* although the release is refused when the lease has run out in the queue, or
\* never comes when the holder dies.
ClaimsAreReleased ==
    \A q \in Entries : taskStatus[q] \in TerminalStatuses ~> lease[q] = "SETTLED"
=============================================================================
