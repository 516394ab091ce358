--------------------- MODULE IntegrationProcessorProofs ---------------------
(***************************************************************************)
(* Proofs about IntegrationProcessor, for every set of entries and of      *)
(* processes.  The inductive invariant says, for each step a process can   *)
(* be at, what it may rely on of the repository, the evidence and the      *)
(* leases while the others go on (ProcessOK), and what the rows of an      *)
(* attempt say while its executor is at a step, and after (RowsOK).        *)
(*                                                                         *)
(* The queue table comes first: IntegrationQueue's properties under any    *)
(* calls of its operations.  Its inductive invariant adds what the         *)
(* AUTOINCREMENT column guarantees: sequence numbers of inserted rows are  *)
(* distinct and at most lastSequence.                                      *)
(***************************************************************************)
EXTENDS IntegrationProcessor, SequenceTheorems, TLAPS

-----------------------------------------------------------------------------
(* The queue table, whoever calls it *)

SequencesAreIssued ==
    \A q \in Entries : entries[q].status # "ABSENT" => entries[q].sequence <= lastSequence

SequencesAreDistinct ==
    \A q, r \in Entries :
       /\ entries[q].status # "ABSENT"
       /\ entries[r].status # "ABSENT"
       /\ entries[q].sequence = entries[r].sequence
       => q = r

QueueInv ==
    /\ QueueTypeOK
    /\ SequencesAreIssued
    /\ SequencesAreDistinct
    /\ AtMostOneIntegrating
    /\ AttemptsQueueOnce
    /\ FirstInFirstOut

\* The invariant holds of the empty table.
LEMMA QueueInvInit == QueueInit => QueueInv
BY DEF QueueInit, QueueInv, QueueTypeOK, SequencesAreIssued, SequencesAreDistinct,
       AtMostOneIntegrating, AttemptsQueueOnce, FirstInFirstOut, Entry, NoEntry, With,
       ActiveStatusesOfEntries, FinalStatusesOfEntries

\* Inserting a row keeps the invariant: its number is larger than all others.
LEMMA EnqueueKeepsInv ==
    ASSUME QueueInv, NEW q \in Entries, NEW a \in Attempts,
           EnqueueIntegrationQueueEntry(q, a)
    PROVE  QueueInv'
<1> USE DEF QueueInv, EnqueueIntegrationQueueEntry, ActiveStatusesOfEntries,
            FinalStatusesOfEntries
<1>1. QueueTypeOK'
  BY DEF QueueTypeOK, Entry
<1>2. /\ entries'[q].status = "PENDING"
      /\ entries'[q].attempt = a
      /\ entries'[q].sequence = lastSequence + 1
      /\ \A r \in Entries : r # q => entries'[r] = entries[r]
  BY DEF QueueTypeOK, Entry
<1>3. \A r \in Entries : entries[r].sequence \in Nat
  BY DEF QueueTypeOK, Entry
<1>4. SequencesAreIssued'
  BY <1>2, <1>3 DEF SequencesAreIssued, QueueTypeOK
<1>5. SequencesAreDistinct'
  BY <1>2, <1>3 DEF SequencesAreDistinct, SequencesAreIssued, QueueTypeOK
<1>6. AtMostOneIntegrating'
  BY <1>2 DEF AtMostOneIntegrating, With
<1>7. AttemptsQueueOnce'
  BY <1>2 DEF AttemptsQueueOnce, HasActiveEntry
<1>8. FirstInFirstOut'
  BY <1>2, <1>3 DEF FirstInFirstOut, Settled, SequencesAreIssued, QueueTypeOK
<1> QED BY <1>1, <1>4, <1>5, <1>6, <1>7, <1>8

\* Claiming keeps the invariant: the claimed entry has the smallest number of
\* the pending ones, and nothing else is INTEGRATING.
LEMMA ClaimKeepsInv ==
    ASSUME QueueInv, NEW q \in Entries, ClaimNextIntegrationQueueEntry(q)
    PROVE  QueueInv'
<1> USE DEF QueueInv, ClaimNextIntegrationQueueEntry, ActiveStatusesOfEntries,
            FinalStatusesOfEntries
<1>1. QueueTypeOK'
  BY DEF QueueTypeOK, Entry
<1>2. /\ entries[q].status = "PENDING"
      /\ entries'[q].status = "INTEGRATING"
      /\ entries'[q].attempt = entries[q].attempt
      /\ entries'[q].sequence = entries[q].sequence
      /\ \A r \in Entries : r # q => entries'[r] = entries[r]
  BY DEF QueueTypeOK, Entry, IsNext
<1>3. \A r \in Entries : /\ entries[r].sequence \in Nat
                         /\ entries[r].status # "INTEGRATING"
                         /\ entries[r].status \in {"ABSENT", "PENDING", "COMPLETED", "FAILED"}
  BY DEF QueueTypeOK, Entry, IsNext, With
<1>4. SequencesAreIssued'
  BY <1>2 DEF SequencesAreIssued
<1>5. SequencesAreDistinct'
  BY <1>2 DEF SequencesAreDistinct
<1>6. AtMostOneIntegrating'
  BY <1>2, <1>3 DEF AtMostOneIntegrating, With
<1>7. AttemptsQueueOnce'
  BY <1>2 DEF AttemptsQueueOnce
<1>8. \A r \in Entries : entries[r].status = "PENDING" => entries[q].sequence <= entries[r].sequence
  BY DEF IsNext, With
<1>9. FirstInFirstOut'
  BY <1>2, <1>3, <1>8 DEF FirstInFirstOut, Settled
<1> QED BY <1>1, <1>4, <1>5, <1>6, <1>7, <1>9

\* Leaving INTEGRATING keeps the invariant, also back to PENDING: everything
\* after the entry is still pending.
LEMMA LeaveKeepsInv ==
    ASSUME QueueInv, NEW q \in Entries, NEW s \in {"PENDING", "COMPLETED", "FAILED"},
           LeaveIntegrating(q, s)
    PROVE  QueueInv'
<1> USE DEF QueueInv, LeaveIntegrating, ActiveStatusesOfEntries, FinalStatusesOfEntries
<1>1. QueueTypeOK'
  BY DEF QueueTypeOK, Entry
<1>2. /\ entries[q].status = "INTEGRATING"
      /\ entries'[q].status = s
      /\ entries'[q].attempt = entries[q].attempt
      /\ entries'[q].sequence = entries[q].sequence
      /\ \A r \in Entries : r # q => entries'[r] = entries[r]
  BY DEF QueueTypeOK, Entry
<1>3. SequencesAreIssued'
  BY <1>2 DEF SequencesAreIssued
<1>4. SequencesAreDistinct'
  BY <1>2 DEF SequencesAreDistinct
<1>5. AtMostOneIntegrating'
  BY <1>2 DEF AtMostOneIntegrating, With
<1>6. AttemptsQueueOnce'
  BY <1>2 DEF AttemptsQueueOnce
<1>7. FirstInFirstOut'
  BY <1>2 DEF FirstInFirstOut, Settled
<1> QED BY <1>1, <1>3, <1>4, <1>5, <1>6, <1>7

LEMMA QueueInvStep == QueueInv /\ [QueueNext]_queueVars => QueueInv'
<1> SUFFICES ASSUME QueueInv, [QueueNext]_queueVars PROVE QueueInv'
  OBVIOUS
<1>1. ASSUME NEW q \in Entries, NEW a \in Attempts, EnqueueIntegrationQueueEntry(q, a)
      PROVE  QueueInv'
  BY <1>1, EnqueueKeepsInv
<1>2. ASSUME NEW q \in Entries, ClaimNextIntegrationQueueEntry(q)
      PROVE  QueueInv'
  BY <1>2, ClaimKeepsInv
<1>3. ASSUME NEW q \in Entries,
             \/ CompleteIntegrationQueueEntry(q)
             \/ FailIntegrationQueueEntry(q)
             \/ RequeueIntegrationQueueEntry(q)
      PROVE  QueueInv'
  BY <1>3, LeaveKeepsInv DEF CompleteIntegrationQueueEntry, FailIntegrationQueueEntry,
                             RequeueIntegrationQueueEntry
<1>4. CASE UNCHANGED queueVars
  BY <1>4 DEF queueVars, QueueInv, QueueTypeOK, SequencesAreIssued, SequencesAreDistinct,
              AtMostOneIntegrating, AttemptsQueueOnce, FirstInFirstOut, With, Settled
<1> QED BY <1>1, <1>2, <1>3, <1>4 DEF QueueNext

LEMMA QueueInvariant == QueueSpec => []QueueInv
BY QueueInvInit, QueueInvStep, PTL DEF QueueSpec

\* The queue table only ever holds well-formed rows.
THEOREM QueueTypeCorrect == QueueSpec => []QueueTypeOK
<1>1. QueueInv => QueueTypeOK
  BY DEF QueueInv
<1> QED BY <1>1, QueueInvariant, PTL

\* Integration is serialised for every number of processes and entries.
THEOREM IntegrationIsSerial == QueueSpec => []AtMostOneIntegrating
<1>1. QueueInv => AtMostOneIntegrating
  BY DEF QueueInv
<1> QED BY <1>1, QueueInvariant, PTL

\* An attempt is never queued twice at a time.
THEOREM AttemptsAreQueuedOnce == QueueSpec => []AttemptsQueueOnce
<1>1. QueueInv => AttemptsQueueOnce
  BY DEF QueueInv
<1> QED BY <1>1, QueueInvariant, PTL

\* The queue is first in, first out, requeues included.
THEOREM QueueIsFair == QueueSpec => []FirstInFirstOut
<1>1. QueueInv => FirstInFirstOut
  BY DEF QueueInv
<1> QED BY <1>1, QueueInvariant, PTL

\* No operation changes a settled entry.
LEMMA StepKeepsSettled ==
    ASSUME QueueInv, [QueueNext]_queueVars
    PROVE  \A q \in Entries : Settled(q) => entries'[q] = entries[q]
<1> USE DEF Settled, FinalStatusesOfEntries, QueueInv, QueueTypeOK
<1>1. ASSUME NEW q \in Entries, NEW a \in Attempts, EnqueueIntegrationQueueEntry(q, a)
      PROVE  \A r \in Entries : Settled(r) => entries'[r] = entries[r]
  BY <1>1 DEF EnqueueIntegrationQueueEntry
<1>2. ASSUME NEW q \in Entries, ClaimNextIntegrationQueueEntry(q)
      PROVE  \A r \in Entries : Settled(r) => entries'[r] = entries[r]
  BY <1>2 DEF ClaimNextIntegrationQueueEntry, IsNext
<1>3. ASSUME NEW q \in Entries, NEW s \in {"PENDING", "COMPLETED", "FAILED"},
             LeaveIntegrating(q, s)
      PROVE  \A r \in Entries : Settled(r) => entries'[r] = entries[r]
  BY <1>3 DEF LeaveIntegrating
<1>4. CASE UNCHANGED queueVars
  BY <1>4 DEF queueVars
<1> QED BY <1>1, <1>2, <1>3, <1>4 DEF QueueNext, CompleteIntegrationQueueEntry,
           FailIntegrationQueueEntry, RequeueIntegrationQueueEntry

\* A settled entry keeps its verdict for good.
THEOREM SettledEntriesStaySettled == QueueSpec => SettledEntriesAreFinal
<1>1. QueueInv /\ [QueueNext]_queueVars
      => [\A q \in Entries : Settled(q) => entries'[q] = entries[q]]_queueVars
  BY StepKeepsSettled
<1> QED BY <1>1, QueueInvariant, PTL DEF QueueSpec, SettledEntriesAreFinal

-----------------------------------------------------------------------------
(* The processors *)

Revisions == Seq(Patches)

\* At a queued entry, at a commit that recovery found without one, at a claim or a
\* task that is settled, and at none.
WorkingSteps == {"inspect", "classify", "requeue", "reclaim", "claimed", "reconcile", "rebase",
                 "reevaluate", "reverify", "merge", "verify", "settle", "fail", "settleFailure",
                 "release"}
RecoverySteps == {"recover", "remerge", "conclude", "concludeMerge", "giveUp", "human"}
SettlingSteps == {"settleClaim", "converge"}
RestingSteps == {"idle", "listClaims", "claims", "failed", "next"}
Steps == WorkingSteps \cup RecoverySteps \cup SettlingSteps \cup RestingSteps

TaskStatuses == {"READY", "IMPLEMENTING", "INTEGRATING", "NEEDS_HUMAN"} \cup TerminalStatuses

ProcessRecord ==
    [pc : Steps, startup : BOOLEAN, entry : Entries \cup {NONE}, todo : SUBSET Entries,
     onto : Revisions, result : Revisions, failure : {"error", "cancelled", NONE},
     seen : TaskStatuses \cup {NONE}]

Types ==
    /\ QueueTypeOK
    /\ head \in Revisions
    /\ base \in [Entries -> Revisions]
    /\ branch \in [Entries -> Revisions]
    /\ verified \subseteq Revisions
    /\ evidence \subseteq [entry : Entries, revision : Revisions, tested : Revisions]
    /\ taskStatus \in [Entries -> TaskStatuses]
    /\ attemptStatus \in [Entries -> {"NONE", "RUNNING", "SUCCEEDED", "FAILED", "CANCELLED"}]
    /\ lease \in [Entries -> {"NONE", "LIVE", "EXPIRED", "SETTLED"}]
    /\ executor \in [Entries -> {"none", "work", "enqueue", "report", "fail", "release",
                                 "gone", "failed"}]
    /\ proc \in [Processes -> ProcessRecord]

Enqueued(q) == entries[q].status # "ABSENT"

InQueue(q) == entries[q].status \in {"PENDING", "INTEGRATING"}

\* The executor has committed; it enqueues the commit no more; it is over.
Committed(q) == executor[q] \notin {"none", "work"}
Decided(q) == executor[q] \notin {"none", "work", "enqueue"}
Over(q) == executor[q] \in {"gone", "failed"}

\* A process at work has an entry, which was enqueued, or a commit that never will be.
WorksOnAnEntry(p) ==
    LET q == proc[p].entry IN
    /\ proc[p].pc \in RestingSteps => q = NONE
    /\ proc[p].pc \notin RestingSteps => q \in Entries
    /\ proc[p].pc \in WorkingSteps => Enqueued(q)
    /\ proc[p].pc \in RecoverySteps => ~Enqueued(q) /\ Over(q)
    /\ proc[p].pc \in SettlingSteps => Decided(q)

ProcessOK(p) ==
    LET q == proc[p].entry IN
    /\ WorksOnAnEntry(p)
    /\ proc[p].pc \in {"classify", "verify"} => IsPrefix(proc[p].result, head)
    /\ proc[p].pc = "rebase" => IsPrefix(proc[p].onto, head)
    /\ proc[p].pc \in {"verify", "settle", "conclude", "concludeMerge"} => Contains(head, q)
    /\ proc[p].pc = "settle" =>
          \E v \in evidence : v.entry = q /\ IsPrefix(proc[p].result, v.tested)
    /\ proc[p].pc = "settleFailure" =>
          proc[p].seen = "INTEGRATING" \/ WroteFailure(q) \/ ~InQueue(q)
    /\ proc[p].pc = "converge" =>
          IsPrefix(TaskRevision(q), head) /\ (InQueue(q) => WroteFailure(q))
    /\ proc[p].pc \in {"inspect", "classify", "requeue", "reclaim"} \cup RecoverySteps
                         \cup SettlingSteps => lease[q] # "LIVE"
    /\ proc[p].pc = "failed" => \A r \in proc[p].todo : Decided(r) /\ lease[r] # "LIVE"
    /\ proc[p].pc = "converge" => \A r \in proc[p].todo : Decided(r) /\ lease[r] # "LIVE"

EvidenceOK ==
    \A v \in evidence : Contains(v.tested, v.entry) /\ IsPrefix(v.revision, v.tested)

BranchesHoldTheirPatch == \A q \in Entries : Committed(q) => Contains(branch[q], q)

\* What the rows say of an attempt while its executor is at a step, and after.
RowsOK ==
    \A q \in Entries :
       /\ ~Decided(q) => ~Enqueued(q)
       /\ executor[q] = "none" => taskStatus[q] = "READY"
       /\ executor[q] = "work" => taskStatus[q] = "IMPLEMENTING" /\ attemptStatus[q] = "RUNNING"
       /\ executor[q] = "enqueue" => taskStatus[q] = "INTEGRATING" /\ attemptStatus[q] = "RUNNING"
       /\ lease[q] = "EXPIRED" => Over(q)
       /\ WroteFailure(q) /\ Enqueued(q) => taskStatus[q] \in TerminalStatuses

\* Whoever works on an entry under a live lease has claimed it.
LiveEntriesAreClaimed ==
    \A p \in Processes, q \in Entries :
       WorksOn(p, q) /\ lease[q] = "LIVE" => entries[q].status # "PENDING"

ProcessorInv ==
    /\ Types
    /\ \A p \in Processes : ProcessOK(p)
    /\ EvidenceOK
    /\ BranchesHoldTheirPatch
    /\ RowsOK
    /\ VerdictsAgree
    /\ SettledEntriesEndTheirTask
    /\ DoneIsIntegrated
    /\ LiveEntriesAreClaimed
    /\ LiveEntriesHaveOneWorker

-----------------------------------------------------------------------------
(* Revisions *)

\* A revision with one more patch contains that patch and all it had.
LEMMA AppendContains ==
    ASSUME NEW S, NEW s \in Seq(S), NEW x \in S
    PROVE  /\ Append(s, x) \in Seq(S)
           /\ Contains(Append(s, x), x)
           /\ \A y : Contains(s, y) => Contains(Append(s, x), y)
           /\ IsPrefix(s, Append(s, x))
BY DEF Contains, IsPrefix

\* A descendant contains the patches of its ancestors.
LEMMA PrefixKeeps ==
    ASSUME NEW S, NEW s \in Seq(S), NEW t \in Seq(S), IsPrefix(s, t)
    PROVE  \A y : Contains(s, y) => Contains(t, y)
BY DEF Contains, IsPrefix

\* A revision is its own ancestor.
LEMMA PrefixReflexive ==
    ASSUME NEW S, NEW s \in Seq(S)
    PROVE  IsPrefix(s, s)
BY DEF IsPrefix

\* Ancestry is transitive.
LEMMA PrefixTransitive ==
    ASSUME NEW S, NEW s \in Seq(S), NEW t \in Seq(S), NEW u \in Seq(S),
           IsPrefix(s, t), IsPrefix(t, u)
    PROVE  IsPrefix(s, u)
<1>1. \A i \in 1..Len(s) : s[i] = t[i]
  BY DEF IsPrefix
<1>2. \A i \in 1..Len(t) : t[i] = u[i]
  BY DEF IsPrefix
<1>3. Len(s) <= Len(t) /\ Len(t) <= Len(u)
  BY DEF IsPrefix
<1>4. \A i \in 1..Len(s) : s[i] = u[i]
  BY <1>1, <1>2, <1>3
<1> QED BY <1>3, <1>4 DEF IsPrefix

\* What a rebase leaves on an entry's branch is a revision with its patch.
LEMMA RebaseKeepsThePatch ==
    ASSUME Types, NEW q \in Entries, Contains(branch[q], q), NEW onto \in Revisions
    PROVE  Rebased(q, onto) \in Revisions /\ Contains(Rebased(q, onto), q)
<1>1. branch[q] \in Revisions /\ q \in Patches
  BY DEF Types, Patches
<1>2. Append(onto, q) \in Revisions /\ Contains(Append(onto, q), q)
  BY <1>1, AppendContains DEF Revisions
<1> QED BY <1>1, <1>2 DEF Rebased

-----------------------------------------------------------------------------
(* Types *)

\* The initial state is typed.
LEMMA TypesInit == Init => Types
<1>1. <<>> \in Revisions
  BY DEF Revisions
<1>2. Idle \in ProcessRecord
  BY <1>1 DEF Idle, ProcessRecord, Steps, RestingSteps
<1> QED BY <1>1, <1>2 DEF Init, Types, QueueInit, QueueTypeOK, Entry, NoEntry, TaskStatuses,
           ActiveStatusesOfEntries, FinalStatusesOfEntries

\* Where a process that goes on, returns or fails finds itself, and with what.
LEMMA Control ==
    ASSUME Types, NEW p \in Processes
    PROVE  /\ \A pc \in Steps : Goto(p, pc) =>
                 /\ proc' \in [Processes -> ProcessRecord]
                 /\ proc'[p].pc = pc /\ proc'[p].entry = proc[p].entry
                 /\ proc'[p].result = proc[p].result
           /\ \A pc \in Steps : Proceed(p, pc) =>
                 /\ proc' \in [Processes -> ProcessRecord]
                 /\ proc'[p].pc = pc /\ proc'[p].entry = proc[p].entry
           /\ \A revision \in Revisions : Verify(p, revision) =>
                 /\ proc' \in [Processes -> ProcessRecord]
                 /\ proc'[p].pc = "verify" /\ proc'[p].entry = proc[p].entry
                 /\ proc'[p].result = revision
           /\ \A kind \in {"error", "cancelled"} : Fail(p, kind) =>
                 /\ proc' \in [Processes -> ProcessRecord]
                 /\ proc'[p].pc = "fail" /\ proc'[p].entry = proc[p].entry
           /\ Return(p) =>
                 /\ proc' \in [Processes -> ProcessRecord]
                 /\ proc'[p].pc \in {"listClaims", "next"} /\ proc'[p].entry = NONE
           /\ \A pc \in RestingSteps : Resume(p, pc) =>
                 /\ proc' \in [Processes -> ProcessRecord]
                 /\ proc'[p].pc = pc /\ proc'[p].entry = NONE /\ proc'[p].todo = proc[p].todo
<1>1. proc \in [Processes -> ProcessRecord] /\ proc[p] \in ProcessRecord
  BY DEF Types
<1>2. <<>> \in Revisions
  BY DEF Revisions
<1>3. Idle \in ProcessRecord
  BY <1>2 DEF Idle, ProcessRecord, Steps, RestingSteps
<1>4. ASSUME NEW pc \in Steps, Goto(p, pc)
      PROVE  /\ proc' \in [Processes -> ProcessRecord]
             /\ proc'[p].pc = pc /\ proc'[p].entry = proc[p].entry
             /\ proc'[p].result = proc[p].result
  BY <1>1, <1>4 DEF Goto, ProcessRecord
<1>5. ASSUME NEW pc \in Steps
      PROVE  /\ Forgetting(p, pc) \in ProcessRecord
             /\ Forgetting(p, pc).pc = pc /\ Forgetting(p, pc).entry = proc[p].entry
  BY <1>1, <1>2 DEF Forgetting, Idle, ProcessRecord
<1>6. ASSUME NEW pc \in Steps, Proceed(p, pc)
      PROVE  /\ proc' \in [Processes -> ProcessRecord]
             /\ proc'[p].pc = pc /\ proc'[p].entry = proc[p].entry
  BY <1>1, <1>5, <1>6 DEF Proceed
<1>7. ASSUME NEW revision \in Revisions, Verify(p, revision)
      PROVE  /\ proc' \in [Processes -> ProcessRecord]
             /\ proc'[p].pc = "verify" /\ proc'[p].entry = proc[p].entry
             /\ proc'[p].result = revision
  <2>1. "verify" \in Steps
    BY DEF Steps, WorkingSteps
  <2>2. LET f == [Forgetting(p, "verify") EXCEPT !.result = revision]
        IN  f \in ProcessRecord /\ f.pc = "verify" /\ f.entry = proc[p].entry /\ f.result = revision
    BY <1>5, <2>1 DEF ProcessRecord
  <2> QED BY <1>1, <1>7, <2>2 DEF Verify
<1>8. ASSUME NEW kind \in {"error", "cancelled"}, Fail(p, kind)
      PROVE  /\ proc' \in [Processes -> ProcessRecord]
             /\ proc'[p].pc = "fail" /\ proc'[p].entry = proc[p].entry
  <2>1. "fail" \in Steps
    BY DEF Steps, WorkingSteps
  <2>2. LET f == [Forgetting(p, "fail") EXCEPT !.failure = kind]
        IN  f \in ProcessRecord /\ f.pc = "fail" /\ f.entry = proc[p].entry
    BY <1>5, <2>1 DEF ProcessRecord
  <2> QED BY <1>1, <1>8, <2>2 DEF Fail
<1>9. ASSUME Return(p)
      PROVE  /\ proc' \in [Processes -> ProcessRecord]
             /\ proc'[p].pc \in {"listClaims", "next"} /\ proc'[p].entry = NONE
  <2>1. /\ [Idle EXCEPT !.pc = "listClaims"] \in ProcessRecord
        /\ [Idle EXCEPT !.pc = "next"] \in ProcessRecord
    BY <1>3 DEF ProcessRecord, Steps, RestingSteps
  <2> QED BY <1>1, <1>9, <2>1 DEF Return, Idle
<1>10. ASSUME NEW pc \in RestingSteps, Resume(p, pc)
       PROVE  /\ proc' \in [Processes -> ProcessRecord]
              /\ proc'[p].pc = pc /\ proc'[p].entry = NONE /\ proc'[p].todo = proc[p].todo
  <2>1. LET f == [Idle EXCEPT !.pc = pc, !.todo = proc[p].todo]
        IN  f \in ProcessRecord /\ f.pc = pc /\ f.entry = NONE /\ f.todo = proc[p].todo
    BY <1>1, <1>2 DEF Idle, ProcessRecord, Steps
  <2> QED BY <1>1, <1>10, <2>1 DEF Resume
<1> QED BY <1>4, <1>6, <1>7, <1>8, <1>9, <1>10

\* A process that crashes, or whose command ends, is idle or turns to the queue.
LEMMA IdlingIsTyped ==
    ASSUME Types, NEW p \in Processes
    PROVE  /\ proc' = [proc EXCEPT ![p] = Idle] =>
                 /\ proc' \in [Processes -> ProcessRecord]
                 /\ proc'[p].pc = "idle" /\ proc'[p].entry = NONE
           /\ \A pc \in {"idle", "next"} : proc' = [proc EXCEPT ![p] = [Idle EXCEPT !.pc = pc]] =>
                 /\ proc' \in [Processes -> ProcessRecord]
                 /\ proc'[p].pc = pc /\ proc'[p].entry = NONE
<1>1. Idle \in ProcessRecord
  BY DEF Idle, ProcessRecord, Steps, RestingSteps, Revisions
<1>2. ASSUME proc' = [proc EXCEPT ![p] = Idle]
      PROVE  /\ proc' \in [Processes -> ProcessRecord]
             /\ proc'[p].pc = "idle" /\ proc'[p].entry = NONE
  BY <1>1, <1>2 DEF Types, Idle
<1>3. ASSUME NEW pc \in {"idle", "next"}, proc' = [proc EXCEPT ![p] = [Idle EXCEPT !.pc = pc]]
      PROVE  /\ proc' \in [Processes -> ProcessRecord]
             /\ proc'[p].pc = pc /\ proc'[p].entry = NONE
  <2>1. [Idle EXCEPT !.pc = pc] \in ProcessRecord
    BY <1>1 DEF ProcessRecord, Steps, RestingSteps
  <2> QED BY <1>3, <2>1 DEF Types, Idle
<1> QED BY <1>2, <1>3

\* The queue's operations keep the table typed.
LEMMA QueueStepIsTyped ==
    ASSUME QueueTypeOK, NEW q \in Entries
    PROVE  /\ \A a \in Attempts : EnqueueIntegrationQueueEntry(q, a) => QueueTypeOK'
           /\ ClaimNextIntegrationQueueEntry(q) => QueueTypeOK'
           /\ \A s \in {"PENDING", "COMPLETED", "FAILED"} : LeaveIntegrating(q, s) => QueueTypeOK'
BY DEF QueueTypeOK, Entry, EnqueueIntegrationQueueEntry, ClaimNextIntegrationQueueEntry,
       LeaveIntegrating, ActiveStatusesOfEntries, FinalStatusesOfEntries

\* The queue's table is unchanged and so are its types.
LEMMA UnchangedQueueIsTyped == QueueTypeOK /\ UNCHANGED queueVars => QueueTypeOK'
BY DEF QueueTypeOK, queueVars

\* The revision recorded for an entry is a revision.
LEMMA TaskRevisionIsTyped ==
    ASSUME Types, NEW q \in Entries
    PROVE  TaskRevision(q) \in Revisions /\ Contains(TaskRevision(q), q)
BY AppendContains DEF Types, TaskRevision, Revisions, Patches

\* What the executor of an attempt does, and the time that passes for its claim.
ExecutorMoves(q) ==
    \/ StartAttempt(q) \/ CommitAttempt(q) \/ EnqueueAttempt(q) \/ ReportEnqueued(q)
    \/ EnqueueingFails(q) \/ FailExecution(q) \/ ReleaseFailed(q) \/ ExecutorDies(q)
    \/ LeaseExpires(q) \/ RecoveryLeaseExpires(q)

\* Executors, time and the user keep the types.
LEMMA SurroundingsAreTyped ==
    ASSUME Types,
           \/ \E q \in Entries : ExecutorMoves(q)
           \/ \E x \in Patches : UserCommits(x)
    PROVE  Types'
<1> USE DEF queueVars, gitVars, events, claimVars, rowVars, others, bounds
<1>1. ASSUME NEW q \in Entries, StartAttempt(q)
      PROVE  Types'
  BY <1>1, UnchangedQueueIsTyped DEF StartAttempt, Types, TaskStatuses
<1>2. ASSUME NEW q \in Entries, CommitAttempt(q)
      PROVE  Types'
  <2>1. TaskRevision(q) \in Revisions
    BY TaskRevisionIsTyped
  <2> QED BY <1>2, <2>1, UnchangedQueueIsTyped DEF CommitAttempt, Types, TaskStatuses
<1>3. ASSUME NEW q \in Entries, EnqueueAttempt(q)
      PROVE  Types'
  <2>1. QueueTypeOK'
    BY <1>3, QueueStepIsTyped, IntegrationProcessorAssumption DEF Types, EnqueueAttempt
  <2> QED BY <1>3, <2>1 DEF EnqueueAttempt, Types
<1>4. ASSUME NEW q \in Entries, ReportEnqueued(q) \/ EnqueueingFails(q) \/ ExecutorDies(q)
      PROVE  Types'
  BY <1>4, UnchangedQueueIsTyped DEF ReportEnqueued, EnqueueingFails, ExecutorDies, Types
<1>5. ASSUME NEW q \in Entries, FailExecution(q)
      PROVE  Types'
  BY <1>5, UnchangedQueueIsTyped DEF FailExecution, Types, TaskStatuses, TerminalStatuses
<1>6. ASSUME NEW q \in Entries, ReleaseFailed(q)
      PROVE  Types'
  BY <1>6, UnchangedQueueIsTyped DEF ReleaseFailed, Types
<1>7. ASSUME NEW q \in Entries, LeaseExpires(q) \/ RecoveryLeaseExpires(q)
      PROVE  Types'
  BY <1>7, UnchangedQueueIsTyped DEF LeaseExpires, RecoveryLeaseExpires, Types
<1>8. ASSUME NEW x \in Patches, UserCommits(x)
      PROVE  Types'
  <2>1. Append(head, x) \in Revisions
    BY AppendContains DEF Types, Revisions
  <2> QED BY <1>8, <2>1, UnchangedQueueIsTyped DEF UserCommits, Types
<1> QED BY <1>1, <1>2, <1>3, <1>4, <1>5, <1>6, <1>7, <1>8 DEF ExecutorMoves

\* What a process only looks at and decides.
LocalStep(p) ==
    \/ StartCommand(p) \/ InspectHead(p) \/ ClassifyAbandoned(p) \/ CannotClassify(p)
    \/ ListClaims(p) \/ RecoverUnqueued(p) \/ ListFailed(p) \/ JudgeFailed(p) \/ StartupEnds(p)
    \/ CheckClaimed(p) \/ ReconcileDrift(p) \/ Reevaluate(p) \/ ReadTask(p) \/ Crash(p)

\* What a decision leaves alone.
LEMMA LocalStepsChangeNoRow ==
    ASSUME NEW p \in Processes, LocalStep(p)
    PROVE  UNCHANGED <<queueVars, gitVars, rowVars, executor, userCommits>>
BY DEF LocalStep, StartCommand, InspectHead, ClassifyAbandoned, CannotClassify, ListClaims,
       RecoverUnqueued, ListFailed, JudgeFailed, StartupEnds, CheckClaimed, ReconcileDrift,
       Reevaluate, ReadTask, Crash, others, bounds

\* A decision keeps the types.
LEMMA LocalStepsAreTyped ==
    ASSUME Types, NEW p \in Processes, LocalStep(p), ProcessOK(p)
    PROVE  Types'
<1> USE DEF At
<1>0. SUFFICES proc' \in [Processes -> ProcessRecord]
  BY LocalStepsChangeNoRow, UnchangedQueueIsTyped
  DEF Types, queueVars, gitVars, rowVars, events, claimVars
<1>1. proc \in [Processes -> ProcessRecord] /\ proc[p] \in ProcessRecord /\ head \in Revisions
  BY DEF Types
<1>2. CASE StartCommand(p)
  BY <1>1, <1>2 DEF StartCommand, ProcessRecord, Steps, WorkingSteps, RestingSteps, Abandoned, With
<1>3. CASE InspectHead(p)
  BY <1>1, <1>3 DEF InspectHead, ProcessRecord, Steps, WorkingSteps
<1>4. CASE ClassifyAbandoned(p)
  BY <1>4, Control DEF ClassifyAbandoned, Classified, Steps, WorkingSteps
<1>5. CASE CannotClassify(p)
  BY <1>5, Control DEF CannotClassify
<1>6. CASE ListClaims(p)
  BY <1>1, <1>6 DEF ListClaims, ProcessRecord, Steps, RestingSteps
<1>7. CASE RecoverUnqueued(p)
  BY <1>7, Control DEF RecoverUnqueued, Steps, RecoverySteps
<1>8. CASE ListFailed(p)
  BY <1>1, <1>8 DEF ListFailed, ProcessRecord, Steps, RestingSteps
<1>9. CASE JudgeFailed(p)
  BY <1>1, <1>9 DEF JudgeFailed, ProcessRecord, Steps, SettlingSteps
<1>10. CASE StartupEnds(p)
  BY <1>10, IdlingIsTyped DEF StartupEnds
<1>11. CASE CheckClaimed(p)
  BY <1>11, Control DEF CheckClaimed, Steps, WorkingSteps
<1>12. CASE ReconcileDrift(p)
  <2>1. ASSUME proc' = [proc EXCEPT ![p].pc = "rebase", ![p].onto = head]
        PROVE  proc' \in [Processes -> ProcessRecord]
    BY <1>1, <2>1 DEF ProcessRecord, Steps, WorkingSteps
  <2> QED BY <1>1, <1>12, <2>1, Control DEF ReconcileDrift, Steps, WorkingSteps
<1>13. CASE Reevaluate(p)
  BY <1>13, Control DEF Reevaluate, Steps, WorkingSteps
<1>14. CASE ReadTask(p)
  <2>1. taskStatus[proc[p].entry] \in TaskStatuses
    BY <1>14 DEF ReadTask, ProcessOK, WorksOnAnEntry, RestingSteps, Types
  <2> QED BY <1>1, <1>14, <2>1 DEF ReadTask, ProcessRecord, Steps, WorkingSteps
<1>15. CASE Crash(p)
  BY <1>15, IdlingIsTyped DEF Crash
<1> QED BY <1>2, <1>3, <1>4, <1>5, <1>6, <1>7, <1>8, <1>9, <1>10, <1>11, <1>12, <1>13, <1>14,
           <1>15 DEF LocalStep

\* What a process asks of the queue, or does in the repository.
QueueAndGitStep(p) ==
    \/ RequeueNotIntegrated(p) \/ ProcessRequeued(p) \/ ProcessNext(p)
    \/ Remerge(p) \/ RebaseBranch(p) \/ VerifyReconciled(p) \/ Integrate(p)

\* What it writes to the rows.
RowStep(p) ==
    \/ ExamineClaim(p) \/ ConcludeIntegrated(p) \/ ConcludeOtherwise(p) \/ SettleClaim(p)
    \/ Converge(p) \/ VerifyIntegrated(p) \/ SettleSuccess(p) \/ SettleFailure(p)
    \/ ReleaseExecution(p)

StoreStep(p) == QueueAndGitStep(p) \/ RowStep(p)

\* The steps of the specification, sorted.
LEMMA WhoMoves ==
    ASSUME Next
    PROVE  \/ \E q \in Entries : ExecutorMoves(q)
           \/ \E x \in Patches : UserCommits(x)
           \/ \E p \in Processes : LocalStep(p) \/ StoreStep(p)
<1>1. ASSUME NEW p \in Processes, StartCommand(p) \/ Step(p) \/ CannotClassify(p) \/ Crash(p)
      PROVE  LocalStep(p) \/ StoreStep(p)
  BY <1>1 DEF Step, LocalStep, StoreStep, QueueAndGitStep, RowStep
<1>2. ASSUME NEW q \in Entries,
             \/ StartAttempt(q) \/ ExecutorStep(q) \/ EnqueueingFails(q) \/ ExecutorDies(q)
             \/ LeaseExpires(q) \/ RecoveryLeaseExpires(q)
      PROVE  ExecutorMoves(q)
  BY <1>2 DEF ExecutorStep, ExecutorMoves
<1> QED BY <1>1, <1>2 DEF Next

\* A process that writes has an entry, unless it looks for one.
LEMMA WritersHaveAnEntry ==
    ASSUME NEW p \in Processes, ProcessOK(p), StoreStep(p), ~At(p, "next"), ~At(p, "claims")
    PROVE  proc[p].entry \in Entries
<1>1. proc[p].pc \notin RestingSteps
  BY DEF StoreStep, QueueAndGitStep, RowStep, RequeueNotIntegrated, ProcessRequeued, ProcessNext,
         Remerge, RebaseBranch, VerifyReconciled, Integrate, ExamineClaim, ConcludeIntegrated,
         ConcludeOtherwise, SettleClaim, Converge, VerifyIntegrated, SettleSuccess, SettleFailure,
         ReleaseExecution, At, RestingSteps
<1> QED BY <1>1 DEF ProcessOK, WorksOnAnEntry

\* Claiming, requeueing, rebasing and merging keep the types.
LEMMA QueueAndGitStepsAreTyped ==
    ASSUME Types, NEW p \in Processes, ProcessOK(p), BranchesHoldTheirPatch, RowsOK,
           QueueAndGitStep(p)
    PROVE  Types'
<1> DEFINE q == proc[p].entry
<1> USE DEF queueVars, gitVars, events, claimVars, rowVars, others, bounds, At
<1>1. /\ proc \in [Processes -> ProcessRecord] /\ proc[p] \in ProcessRecord /\ QueueTypeOK
      /\ head \in Revisions /\ proc[p].onto \in Revisions
  BY DEF Types, ProcessRecord
<1>2. ASSUME ~At(p, "next")
      PROVE  q \in Entries /\ branch[q] \in Revisions
  BY <1>2, WritersHaveAnEntry
  DEF StoreStep, QueueAndGitStep, RequeueNotIntegrated, ProcessRequeued, ProcessNext, Remerge,
      RebaseBranch, VerifyReconciled, Integrate, Types
<1>3. CASE RequeueNotIntegrated(p)
  <2>1. QueueTypeOK'
    BY <1>1, <1>2, <1>3, QueueStepIsTyped, UnchangedQueueIsTyped
    DEF RequeueNotIntegrated, RequeueIntegrationQueueEntry
  <2>2. proc' \in [Processes -> ProcessRecord]
    BY <1>3, Control DEF RequeueNotIntegrated, Steps, WorkingSteps
  <2> QED BY <1>3, <2>1, <2>2 DEF RequeueNotIntegrated, Types
<1>4. CASE ProcessRequeued(p)
  <2>1. QueueTypeOK'
    BY <1>1, <1>4, QueueStepIsTyped, UnchangedQueueIsTyped DEF ProcessRequeued
  <2>2. proc' \in [Processes -> ProcessRecord]
    BY <1>4, Control DEF ProcessRequeued, Steps, WorkingSteps
  <2> QED BY <1>4, <2>1, <2>2 DEF ProcessRequeued, Types
<1>5. CASE ProcessNext(p)
  <2>1. QueueTypeOK'
    BY <1>1, <1>5, QueueStepIsTyped, UnchangedQueueIsTyped DEF ProcessNext
  <2>2. proc' \in [Processes -> ProcessRecord]
    BY <1>1, <1>5, IdlingIsTyped DEF ProcessNext, ProcessRecord, Steps, WorkingSteps
  <2> QED BY <1>5, <2>1, <2>2 DEF ProcessNext, Types
<1>6. CASE Remerge(p)
  <2>1. proc' \in [Processes -> ProcessRecord]
    BY <1>6, Control DEF Remerge, Steps, RecoverySteps
  <2>2. head' \in Revisions
    BY <1>1, <1>2, <1>6 DEF Remerge
  <2> QED BY <1>6, <2>1, <2>2, UnchangedQueueIsTyped DEF Remerge, Types
<1>7. CASE RebaseBranch(p)
  <2>1. q \in Entries /\ Contains(branch[q], q)
    BY <1>2, <1>7 DEF RebaseBranch, ProcessOK, WorksOnAnEntry, WorkingSteps, RowsOK, Decided,
                      Committed, BranchesHoldTheirPatch
  <2>2. Rebased(q, proc[p].onto) \in Revisions
    BY <1>1, <2>1, RebaseKeepsThePatch
  <2>3. proc' \in [Processes -> ProcessRecord]
    BY <1>7, <2>2, Control DEF RebaseBranch, Steps, WorkingSteps
  <2> QED BY <1>7, <2>1, <2>2, <2>3, UnchangedQueueIsTyped DEF RebaseBranch, Types
<1>8. CASE VerifyReconciled(p)
  <2>1. proc' \in [Processes -> ProcessRecord]
    BY <1>8, Control DEF VerifyReconciled, Steps, WorkingSteps
  <2> QED BY <1>2, <1>8, <2>1, UnchangedQueueIsTyped DEF VerifyReconciled, Types
<1>9. CASE Integrate(p)
  <2>1. proc' \in [Processes -> ProcessRecord]
    BY <1>1, <1>2, <1>9, Control DEF Integrate
  <2>2. head' \in Revisions
    BY <1>1, <1>2, <1>9 DEF Integrate
  <2> QED BY <1>9, <2>1, <2>2, UnchangedQueueIsTyped DEF Integrate, Types
<1> QED BY <1>3, <1>4, <1>5, <1>6, <1>7, <1>8, <1>9 DEF QueueAndGitStep

\* Verifying, settling and recovering keep the types.
LEMMA RowStepsAreTyped ==
    ASSUME Types, NEW p \in Processes, ProcessOK(p), RowStep(p)
    PROVE  Types'
<1> DEFINE q == proc[p].entry
<1> USE DEF queueVars, gitVars, events, claimVars, rowVars, others, bounds, At
<1>1. /\ proc \in [Processes -> ProcessRecord] /\ proc[p] \in ProcessRecord /\ QueueTypeOK
      /\ head \in Revisions /\ proc[p].result \in Revisions
  BY DEF Types, ProcessRecord
<1>2. ASSUME ~At(p, "claims")
      PROVE  q \in Entries
  BY <1>2, WritersHaveAnEntry
  DEF StoreStep, RowStep, ExamineClaim, ConcludeIntegrated, ConcludeOtherwise, SettleClaim,
      Converge, VerifyIntegrated, SettleSuccess, SettleFailure, ReleaseExecution
<1>3. CASE ExamineClaim(p)
  <2>1. proc' \in [Processes -> ProcessRecord]
    BY <1>1, <1>3 DEF ExamineClaim, ProcessRecord, Steps, RestingSteps, RecoverySteps, SettlingSteps
  <2> QED BY <1>3, <2>1, UnchangedQueueIsTyped DEF ExamineClaim, Types
<1>4. CASE ConcludeIntegrated(p) \/ ConcludeOtherwise(p)
  <2>1. proc' \in [Processes -> ProcessRecord]
    BY <1>4, Control, IdlingIsTyped
    DEF ConcludeIntegrated, ConcludeOtherwise, RecoveryTransaction, Steps, RecoverySteps,
        SettlingSteps, RestingSteps
  <2> QED BY <1>4, <2>1, UnchangedQueueIsTyped
          DEF ConcludeIntegrated, ConcludeOtherwise, RecoveryTransaction, Types, TaskStatuses,
              TerminalStatuses
<1>5. CASE SettleClaim(p)
  <2>1. proc' \in [Processes -> ProcessRecord]
    BY <1>5, Control DEF SettleClaim, RestingSteps
  <2> QED BY <1>5, <2>1, UnchangedQueueIsTyped DEF SettleClaim, Types
<1>6. CASE Converge(p)
  <2>1. proc' \in [Processes -> ProcessRecord]
    BY <1>6, Control DEF Converge, RestingSteps
  <2> QED BY <1>6, <2>1, UnchangedQueueIsTyped DEF Converge, Types, TaskStatuses, TerminalStatuses
<1>7. CASE VerifyIntegrated(p)
  <2>1. proc' \in [Processes -> ProcessRecord]
    BY <1>7, Control DEF VerifyIntegrated, Steps, WorkingSteps
  <2>2. [entry |-> q, revision |-> proc[p].result, tested |-> head]
           \in [entry : Entries, revision : Revisions, tested : Revisions]
    BY <1>1, <1>2, <1>7 DEF VerifyIntegrated
  <2> QED BY <1>7, <2>1, <2>2, UnchangedQueueIsTyped DEF VerifyIntegrated, Types
<1>8. CASE SettleSuccess(p)
  <2>1. QueueTypeOK'
    BY <1>1, <1>2, <1>8, QueueStepIsTyped, UnchangedQueueIsTyped
    DEF SettleSuccess, CompleteIntegrationQueueEntry
  <2>2. proc' \in [Processes -> ProcessRecord]
    BY <1>8, Control DEF SettleSuccess, Steps, WorkingSteps
  <2> QED BY <1>8, <2>1, <2>2 DEF SettleSuccess, Types, TaskStatuses, TerminalStatuses
<1>9. CASE SettleFailure(p)
  <2>1. QueueTypeOK'
    BY <1>1, <1>2, <1>9, QueueStepIsTyped, UnchangedQueueIsTyped
    DEF SettleFailure, FailIntegrationQueueEntry
  <2>2. proc' \in [Processes -> ProcessRecord]
    BY <1>9, Control DEF SettleFailure, Steps, WorkingSteps
  <2>3. FailedAs(p) \in {"FAILED", "CANCELLED"}
    BY DEF FailedAs
  <2> HIDE DEF FailedAs
  <2> QED BY <1>2, <1>9, <2>1, <2>2, <2>3
          DEF SettleFailure, FailTask, Types, TaskStatuses, TerminalStatuses
<1>10. CASE ReleaseExecution(p)
  <2>1. proc' \in [Processes -> ProcessRecord]
    BY <1>10, Control DEF ReleaseExecution
  <2> QED BY <1>10, <2>1, UnchangedQueueIsTyped DEF ReleaseExecution, Types
<1> QED BY <1>3, <1>4, <1>5, <1>6, <1>7, <1>8, <1>9, <1>10 DEF RowStep

-----------------------------------------------------------------------------
(* How the rows and the repository evolve *)

\* Nothing happens to q but that it is claimed, or that its executor ends.
Quiet(q) ==
    /\ taskStatus'[q] = taskStatus[q] /\ attemptStatus'[q] = attemptStatus[q]
    /\ \/ entries'[q].status = entries[q].status
       \/ entries[q].status = "PENDING" /\ entries'[q].status = "INTEGRATING"
    /\ \/ executor'[q] = executor[q]
       \/ executor[q] \in {"enqueue", "report", "fail"} /\ executor'[q] \in {"fail", "gone"}
       \/ executor[q] = "release" /\ executor'[q] = "failed"

\* What else happens to q.
Moved(q) ==
    \/ StartAttempt(q) \/ CommitAttempt(q) \/ EnqueueAttempt(q) \/ FailExecution(q)
    \/ \E p \in Processes :
          /\ proc[p].entry = q
          /\ \/ RequeueNotIntegrated(p) \/ SettleSuccess(p) \/ SettleFailure(p)
             \/ ConcludeIntegrated(p) \/ ConcludeOtherwise(p) \/ Converge(p)

\* A row changes by one of the steps that are about it.
LEMMA RowsEvolve ==
    ASSUME Types, \A p \in Processes : ProcessOK(p), Next, NEW q \in Entries
    PROVE  Quiet(q) \/ Moved(q)
<1> USE DEF queueVars, gitVars, events, claimVars, rowVars, others, bounds
<1>1. /\ entries \in [Entries -> Entry]
      /\ taskStatus \in [Entries -> TaskStatuses]
      /\ attemptStatus \in [Entries -> {"NONE", "RUNNING", "SUCCEEDED", "FAILED", "CANCELLED"}]
      /\ executor \in [Entries -> {"none", "work", "enqueue", "report", "fail", "release",
                                   "gone", "failed"}]
  BY DEF Types, QueueTypeOK
<1>2. ASSUME NEW r \in Entries, ClaimNextIntegrationQueueEntry(r)
      PROVE  \/ entries'[q].status = entries[q].status
             \/ entries[q].status = "PENDING" /\ entries'[q].status = "INTEGRATING"
  BY <1>1, <1>2 DEF ClaimNextIntegrationQueueEntry, IsNext, Entry
<1>3. ASSUME NEW r \in Entries, NEW s, LeaveIntegrating(r, s), r # q
      PROVE  entries'[q].status = entries[q].status
  BY <1>1, <1>3 DEF LeaveIntegrating
<1>4. ASSUME NEW r \in Entries, ExecutorMoves(r)
      PROVE  Quiet(q) \/ Moved(q)
  <2>1. CASE StartAttempt(r)
    BY <1>1, <2>1 DEF StartAttempt, Quiet, Moved
  <2>2. CASE CommitAttempt(r)
    BY <1>1, <2>2 DEF CommitAttempt, Quiet, Moved
  <2>3. CASE EnqueueAttempt(r)
    BY <1>1, <2>3 DEF EnqueueAttempt, EnqueueIntegrationQueueEntry, Quiet, Moved
  <2>4. CASE FailExecution(r)
    BY <1>1, <2>4 DEF FailExecution, Quiet, Moved
  <2>5. CASE ReportEnqueued(r) \/ EnqueueingFails(r) \/ ReleaseFailed(r) \/ ExecutorDies(r)
    BY <1>1, <2>5 DEF ReportEnqueued, EnqueueingFails, ReleaseFailed, ExecutorDies, Quiet
  <2>6. CASE LeaseExpires(r) \/ RecoveryLeaseExpires(r)
    BY <2>6 DEF LeaseExpires, RecoveryLeaseExpires, Quiet
  <2> QED BY <1>4, <2>1, <2>2, <2>3, <2>4, <2>5, <2>6 DEF ExecutorMoves
<1>5. ASSUME NEW x \in Patches, UserCommits(x)
      PROVE  Quiet(q)
  BY <1>5 DEF UserCommits, Quiet
<1>6. ASSUME NEW p \in Processes, LocalStep(p)
      PROVE  Quiet(q)
  BY <1>6, LocalStepsChangeNoRow DEF Quiet
<1>7. ASSUME NEW p \in Processes, QueueAndGitStep(p)
      PROVE  Quiet(q) \/ Moved(q)
  <2>1. CASE RequeueNotIntegrated(p)
    <3>1. proc[p].entry \in Entries
      BY <2>1, WritersHaveAnEntry DEF StoreStep, QueueAndGitStep, RequeueNotIntegrated, At
    <3> QED BY <1>1, <1>3, <2>1, <3>1
            DEF RequeueNotIntegrated, RequeueIntegrationQueueEntry, Quiet, Moved
  <2>2. CASE ProcessRequeued(p) \/ ProcessNext(p)
    BY <1>2, <2>2 DEF ProcessRequeued, ProcessNext, Quiet
  <2>3. CASE Remerge(p) \/ RebaseBranch(p) \/ VerifyReconciled(p) \/ Integrate(p)
    BY <2>3 DEF Remerge, RebaseBranch, VerifyReconciled, Integrate, Quiet
  <2> QED BY <1>7, <2>1, <2>2, <2>3 DEF QueueAndGitStep
<1>8. ASSUME NEW p \in Processes, RowStep(p)
      PROVE  Quiet(q) \/ Moved(q)
  <2>1. CASE proc[p].entry = q /\ (\/ SettleSuccess(p) \/ SettleFailure(p)
                                   \/ ConcludeIntegrated(p) \/ ConcludeOtherwise(p) \/ Converge(p))
    BY <2>1 DEF Moved
  <2>2. CASE ExamineClaim(p) \/ SettleClaim(p) \/ VerifyIntegrated(p) \/ ReleaseExecution(p)
    BY <2>2 DEF ExamineClaim, SettleClaim, VerifyIntegrated, ReleaseExecution, Quiet
  <2>3. CASE proc[p].entry # q /\ (SettleSuccess(p) \/ SettleFailure(p))
    <3>1. proc[p].entry \in Entries
      BY <2>3, WritersHaveAnEntry DEF StoreStep, RowStep, SettleSuccess, SettleFailure, At
    <3> QED BY <1>1, <1>3, <2>3, <3>1
            DEF SettleSuccess, SettleFailure, FailTask, CompleteIntegrationQueueEntry,
                FailIntegrationQueueEntry, Quiet
  <2>4. CASE proc[p].entry # q /\ (ConcludeIntegrated(p) \/ ConcludeOtherwise(p) \/ Converge(p))
    BY <1>1, <2>4 DEF ConcludeIntegrated, ConcludeOtherwise, RecoveryTransaction, Converge, Quiet
  <2> QED BY <1>8, <2>1, <2>2, <2>3, <2>4 DEF RowStep
<1> QED BY <1>4, <1>5, <1>6, <1>7, <1>8, WhoMoves DEF StoreStep

\* Which steps write to claims, evidence and the repository.
LEMMA WhoWrites ==
    ASSUME Next
    PROVE  /\ \/ lease' = lease
              \/ \E q \in Entries : StartAttempt(q) \/ ReleaseFailed(q) \/ LeaseExpires(q)
              \/ \E p \in Processes : SettleClaim(p) \/ ReleaseExecution(p)
           /\ evidence' = evidence \/ \E p \in Processes : VerifyIntegrated(p)
           /\ \/ head' = head
              \/ \E x \in Patches : UserCommits(x)
              \/ \E p \in Processes : Remerge(p) \/ Integrate(p)
           /\ base' = base \/ \E q \in Entries : StartAttempt(q)
           /\ \/ branch' = branch
              \/ \E q \in Entries : StartAttempt(q) \/ CommitAttempt(q)
              \/ \E p \in Processes : RebaseBranch(p)
           /\ verified \subseteq verified'
           /\ userCommits' = userCommits \/ \E x \in Patches : UserCommits(x)
<1> USE DEF queueVars, gitVars, events, claimVars, rowVars, others, bounds
<1>1. ASSUME NEW q \in Entries, ExecutorMoves(q)
      PROVE  /\ UNCHANGED <<head, evidence, userCommits>>
             /\ ~StartAttempt(q) /\ ~ReleaseFailed(q) /\ ~LeaseExpires(q) => lease' = lease
             /\ ~StartAttempt(q) => base' = base
             /\ ~StartAttempt(q) /\ ~CommitAttempt(q) => branch' = branch
             /\ verified \subseteq verified'
  BY <1>1 DEF ExecutorMoves, StartAttempt, CommitAttempt, EnqueueAttempt, ReportEnqueued,
     EnqueueingFails, Unlucky, FailExecution, ReleaseFailed, ExecutorDies, LeaseExpires,
     RecoveryLeaseExpires
<1>2. ASSUME NEW x \in Patches, UserCommits(x)
      PROVE  UNCHANGED <<lease, evidence, base, branch, verified>>
  BY <1>2 DEF UserCommits
<1>3. ASSUME NEW p \in Processes, LocalStep(p)
      PROVE  UNCHANGED <<lease, evidence, head, base, branch, verified, userCommits>>
  BY <1>3, LocalStepsChangeNoRow
<1>4. ASSUME NEW p \in Processes, QueueAndGitStep(p)
      PROVE  /\ UNCHANGED <<lease, evidence, base, userCommits>> /\ verified \subseteq verified'
             /\ ~Remerge(p) /\ ~Integrate(p) => head' = head
             /\ ~RebaseBranch(p) => branch' = branch
  BY <1>4 DEF QueueAndGitStep, RequeueNotIntegrated, ProcessRequeued, ProcessNext, Remerge,
     RebaseBranch, VerifyReconciled, Integrate
<1>5. ASSUME NEW p \in Processes, RowStep(p)
      PROVE  /\ UNCHANGED <<head, base, branch, verified, userCommits>>
             /\ ~SettleClaim(p) /\ ~ReleaseExecution(p) => lease' = lease
             /\ ~VerifyIntegrated(p) => evidence' = evidence
  BY <1>5 DEF RowStep, ExamineClaim, ConcludeIntegrated, ConcludeOtherwise, SettleClaim, Converge,
     VerifyIntegrated, SettleSuccess, SettleFailure, ReleaseExecution
<1> QED BY <1>1, <1>2, <1>3, <1>4, <1>5, WhoMoves DEF StoreStep

\* History only grows: the integration branch moves to descendants, evidence is
\* never removed, a settled entry stays settled, no attempt is enqueued late, no
\* base changes and no lease comes back to life.
Grows ==
    /\ IsPrefix(head, head')
    /\ evidence \subseteq evidence'
    /\ \A q \in Entries :
          /\ Enqueued(q) => Enqueued(q)'
          /\ Settled(q) => Settled(q)'
          /\ WroteFailure(q) => WroteFailure(q)'
          /\ Over(q) => Over(q)'
          /\ Committed(q) => Committed(q)'
          /\ Decided(q) => /\ Decided(q)'
                           /\ Enqueued(q)' => Enqueued(q)
                           /\ base'[q] = base[q]
                           /\ lease'[q] = "LIVE" => lease[q] = "LIVE"

\* Every step lets history grow.
LEMMA StepsGrow ==
    ASSUME Types, RowsOK, \A p \in Processes : ProcessOK(p), Next
    PROVE  Grows
<1>1. IsPrefix(head, head')
  <2>1. head \in Revisions /\ IsPrefix(head, head)
    BY PrefixReflexive DEF Types, Revisions
  <2>2. ASSUME NEW x \in Patches, UserCommits(x)
        PROVE  IsPrefix(head, head')
    <3>1. IsPrefix(head, Append(head, x))
      BY <2>1, AppendContains DEF Revisions
    <3> QED BY <2>2, <3>1 DEF UserCommits
  <2>3. ASSUME NEW p \in Processes, Remerge(p) \/ Integrate(p)
        PROVE  IsPrefix(head, head')
    BY <2>1, <2>3 DEF Remerge, Integrate
  <2> QED BY <2>1, <2>2, <2>3, WhoWrites
<1>2. evidence \subseteq evidence'
  BY WhoWrites DEF VerifyIntegrated, events
<1>3. ASSUME NEW q \in Entries
      PROVE  /\ Enqueued(q) => Enqueued(q)'
             /\ Settled(q) => Settled(q)'
             /\ WroteFailure(q) => WroteFailure(q)'
             /\ Over(q) => Over(q)'
             /\ Committed(q) => Committed(q)'
             /\ Decided(q) => Decided(q)' /\ (Enqueued(q)' => Enqueued(q))
  <2> USE DEF Enqueued, Settled, FinalStatusesOfEntries, WroteFailure, Over, Committed, Decided
  <2>1. /\ entries \in [Entries -> Entry]
        /\ executor \in [Entries -> {"none", "work", "enqueue", "report", "fail", "release",
                                     "gone", "failed"}]
    BY DEF Types, QueueTypeOK
  <2>2. CASE Quiet(q)
    BY <2>2 DEF Quiet
  <2>3. CASE StartAttempt(q) \/ CommitAttempt(q) \/ FailExecution(q)
    BY <2>1, <2>3 DEF StartAttempt, CommitAttempt, FailExecution, queueVars
  <2>4. CASE EnqueueAttempt(q)
    BY <2>1, <2>4 DEF EnqueueAttempt, EnqueueIntegrationQueueEntry, Entry
  <2>5. ASSUME NEW p \in Processes, proc[p].entry = q,
               RequeueNotIntegrated(p) \/ SettleSuccess(p) \/ SettleFailure(p)
        PROVE  /\ executor' = executor
               /\ \/ entries' = entries
                  \/ /\ entries[q].status = "INTEGRATING"
                     /\ entries'[q].status \in {"PENDING", "COMPLETED", "FAILED"}
    BY <2>1, <2>5 DEF RequeueNotIntegrated, SettleSuccess, SettleFailure,
       RequeueIntegrationQueueEntry, CompleteIntegrationQueueEntry, FailIntegrationQueueEntry,
       LeaveIntegrating, Entry, queueVars, others
  <2>6. ASSUME NEW p \in Processes,
               ConcludeIntegrated(p) \/ ConcludeOtherwise(p) \/ Converge(p)
        PROVE  entries' = entries /\ executor' = executor
    BY <2>6 DEF ConcludeIntegrated, ConcludeOtherwise, Converge, queueVars, others
  <2> QED BY <2>2, <2>3, <2>4, <2>5, <2>6, RowsEvolve DEF Moved
<1>4. ASSUME NEW q \in Entries, Decided(q)
      PROVE  base'[q] = base[q] /\ (lease'[q] = "LIVE" => lease[q] = "LIVE")
  <2>1. ASSUME NEW r \in Entries, StartAttempt(r)
        PROVE  r # q /\ base'[q] = base[q] /\ lease'[q] = lease[q]
    BY <1>4, <2>1 DEF StartAttempt, Decided, Types
  <2>2. ASSUME NEW r \in Entries, ReleaseFailed(r) \/ LeaseExpires(r)
        PROVE  lease'[q] = "LIVE" => lease[q] = "LIVE"
    BY <2>2 DEF ReleaseFailed, LeaseExpires, Types
  <2>3. ASSUME NEW p \in Processes, SettleClaim(p) \/ ReleaseExecution(p)
        PROVE  lease'[q] = "LIVE" => lease[q] = "LIVE"
    BY <2>3 DEF SettleClaim, ReleaseExecution, claimVars, Types
  <2> QED BY <2>1, <2>2, <2>3, WhoWrites
<1> QED BY <1>1, <1>2, <1>3, <1>4 DEF Grows

\* A step of one process, or of the surroundings, leaves every process that
\* does not take it with what it relied on.
LEMMA OthersKeepWhatTheyRelyOn ==
    ASSUME Types, Types', RowsOK, Grows, NEW p \in Processes, ProcessOK(p), proc'[p] = proc[p]
    PROVE  ProcessOK(p)'
<1> DEFINE q == proc[p].entry
<1>1. /\ proc[p] \in ProcessRecord /\ proc[p].todo \subseteq Entries
      /\ proc[p].result \in Revisions /\ proc[p].onto \in Revisions
      /\ head \in Revisions /\ head' \in Revisions
  BY DEF Types, ProcessRecord
<1>2. WorksOnAnEntry(p) /\ (proc[p].pc \notin RestingSteps => q \in Entries /\ Decided(q))
  BY DEF ProcessOK, WorksOnAnEntry, ProcessRecord, Types, Steps, RowsOK, Over, Decided
<1>3. WorksOnAnEntry(p)'
  <2>1. /\ proc[p].pc \in RestingSteps => q = NONE
        /\ proc[p].pc \notin RestingSteps => q \in Entries
        /\ proc[p].pc \in WorkingSteps => Enqueued(q)'
        /\ proc[p].pc \in RecoverySteps => ~Enqueued(q)' /\ Over(q)'
        /\ proc[p].pc \in SettlingSteps => Decided(q)'
    BY <1>2 DEF WorksOnAnEntry, Grows, WorkingSteps, RecoverySteps, SettlingSteps, RestingSteps
  <2> QED BY <2>1 DEF WorksOnAnEntry, Enqueued, Over, Decided
<1>4. \A r \in Revisions : IsPrefix(r, head) => IsPrefix(r, head')
  BY <1>1, PrefixTransitive DEF Grows, Revisions
<1>5. Contains(head, q) => Contains(head', q)
  BY <1>1, PrefixKeeps DEF Grows, Revisions
<1>6. proc[p].pc \in {"inspect", "classify", "requeue", "reclaim"} \cup RecoverySteps
                        \cup SettlingSteps => lease'[q] # "LIVE"
  BY <1>2 DEF ProcessOK, RestingSteps, RecoverySteps, SettlingSteps, Grows
<1>7. proc[p].pc = "settle" =>
         \E v \in evidence' : v.entry = q /\ IsPrefix(proc[p].result, v.tested)
  BY DEF ProcessOK, Grows
<1>8. ASSUME q \in Entries, Decided(q)
      PROVE  /\ ~InQueue(q) => ~InQueue(q)'
             /\ WroteFailure(q) => WroteFailure(q)'
             /\ IsPrefix(TaskRevision(q), head) => IsPrefix(TaskRevision(q)', head')
  <2>1. ~InQueue(q) => ~InQueue(q)'
    BY <1>8 DEF Grows, InQueue, Settled, Enqueued, FinalStatusesOfEntries, Types, QueueTypeOK, Entry,
                ActiveStatusesOfEntries
  <2>2. TaskRevision(q)' = TaskRevision(q) /\ TaskRevision(q) \in Revisions
    BY <1>8, TaskRevisionIsTyped DEF Grows, TaskRevision
  <2> QED BY <1>4, <1>8, <2>1, <2>2 DEF Grows
<1>9. proc[p].pc = "settleFailure" =>
         proc[p].seen = "INTEGRATING" \/ WroteFailure(q)' \/ ~InQueue(q)'
  BY <1>2, <1>8 DEF ProcessOK, RestingSteps
<1>10. proc[p].pc = "converge" =>
         IsPrefix(TaskRevision(q)', head') /\ (InQueue(q)' => WroteFailure(q)')
  BY <1>2, <1>8 DEF ProcessOK, RestingSteps
<1>11. proc[p].pc \in {"failed", "converge"} =>
          \A r \in proc[p].todo : Decided(r)' /\ lease'[r] # "LIVE"
  BY <1>1 DEF ProcessOK, Grows
<1> QED BY <1>1, <1>3, <1>4, <1>5, <1>6, <1>7, <1>9, <1>10, <1>11
        DEF ProcessOK, WroteFailure, InQueue, TaskRevision, Decided

-----------------------------------------------------------------------------
(* What a process establishes for its own next step *)

\* What a process must have seen to be at a step of the queue.
LEMMA WorkingIsOK ==
    ASSUME NEW p \in Processes, NEW q \in Entries, proc'[p].entry = q, Enqueued(q)'
    PROVE  /\ proc'[p].pc \in {"claimed", "reconcile", "reevaluate", "reverify", "merge", "fail",
                               "release"} => ProcessOK(p)'
           /\ proc'[p].pc \in {"inspect", "requeue", "reclaim"} /\ lease'[q] # "LIVE" => ProcessOK(p)'
           /\ proc'[p].pc = "classify" /\ lease'[q] # "LIVE" /\ IsPrefix(proc'[p].result, head')
              => ProcessOK(p)'
           /\ proc'[p].pc = "rebase" /\ IsPrefix(proc'[p].onto, head') => ProcessOK(p)'
           /\ proc'[p].pc = "verify" /\ IsPrefix(proc'[p].result, head') /\ Contains(head', q)
              => ProcessOK(p)'
           /\ /\ proc'[p].pc = "settle" /\ Contains(head', q)
              /\ \E v \in evidence' : v.entry = q /\ IsPrefix(proc'[p].result, v.tested)
              => ProcessOK(p)'
           /\ /\ proc'[p].pc = "settleFailure"
              /\ proc'[p].seen = "INTEGRATING" \/ WroteFailure(q)' \/ ~InQueue(q)'
              => ProcessOK(p)'
BY DEF ProcessOK, WorksOnAnEntry, WorkingSteps, RecoverySteps, SettlingSteps, RestingSteps,
       Enqueued, WroteFailure, InQueue

\* The same at a step of the recovery of a claim or of a FAILED task.
LEMMA RecoveringIsOK ==
    ASSUME NEW p \in Processes, NEW q \in Entries, proc'[p].entry = q, lease'[q] # "LIVE"
    PROVE  /\ /\ proc'[p].pc \in {"recover", "remerge", "giveUp", "human"}
              /\ ~Enqueued(q)' /\ Over(q)'
              => ProcessOK(p)'
           /\ /\ proc'[p].pc \in {"conclude", "concludeMerge"}
              /\ ~Enqueued(q)' /\ Over(q)' /\ Contains(head', q)
              => ProcessOK(p)'
           /\ proc'[p].pc = "settleClaim" /\ Decided(q)' => ProcessOK(p)'
           /\ /\ proc'[p].pc = "converge" /\ Decided(q)'
              /\ IsPrefix(TaskRevision(q)', head') /\ (InQueue(q)' => WroteFailure(q)')
              /\ \A r \in proc'[p].todo : Decided(r)' /\ lease'[r] # "LIVE"
              => ProcessOK(p)'
BY DEF ProcessOK, WorksOnAnEntry, WorkingSteps, RecoverySteps, SettlingSteps, RestingSteps,
       Enqueued, WroteFailure, InQueue, Over, Decided, TaskRevision

\* The same of a process without an entry.
LEMMA RestingIsOK ==
    ASSUME NEW p \in Processes, proc'[p].entry = NONE
    PROVE  /\ proc'[p].pc \in {"idle", "listClaims", "claims", "next"} => ProcessOK(p)'
           /\ /\ proc'[p].pc = "failed"
              /\ \A r \in proc'[p].todo : Decided(r)' /\ lease'[r] # "LIVE"
              => ProcessOK(p)'
BY DEF ProcessOK, WorksOnAnEntry, WorkingSteps, RecoverySteps, SettlingSteps, RestingSteps, Decided

\* Failing needs nothing but an entry, returning nothing at all.
LEMMA FailingIsOK ==
    ASSUME Types, NEW p \in Processes, NEW q \in Entries, proc[p].entry = q, Enqueued(q)'
    PROVE  /\ \A kind \in {"error", "cancelled"} : Fail(p, kind) => ProcessOK(p)'
           /\ Return(p) => ProcessOK(p)'
BY Control, WorkingIsOK, RestingIsOK

\* A process at the entry it works on.
LEMMA AtWork ==
    ASSUME Types, NEW p \in Processes, ProcessOK(p)
    PROVE  /\ proc[p].pc \in WorkingSteps => proc[p].entry \in Entries /\ Enqueued(proc[p].entry)
           /\ proc[p].pc \in RecoverySteps =>
                 proc[p].entry \in Entries /\ ~Enqueued(proc[p].entry) /\ Over(proc[p].entry)
           /\ proc[p].pc \in SettlingSteps => proc[p].entry \in Entries /\ Decided(proc[p].entry)
           /\ proc[p].pc \in RestingSteps => proc[p].entry = NONE
BY DEF ProcessOK, WorksOnAnEntry, WorkingSteps, RecoverySteps, SettlingSteps, RestingSteps

\* A commit whose task is FAILED waits in the queue only if its executor failed.
LEMMA FailedTasksAreOver ==
    ASSUME Types, RowsOK, VerdictsAgree, NEW q \in Entries, taskStatus[q] = "FAILED"
    PROVE  Decided(q) /\ (InQueue(q) => WroteFailure(q))
BY DEF Types, RowsOK, VerdictsAgree, Decided, InQueue, ActiveStatusesOfEntries

\* Decisions at an entry: a process goes where what it has seen allows.
LEMMA QueueDecisionsAreOK ==
    ASSUME ProcessorInv, NEW p \in Processes, NEW q \in Entries, proc[p].entry = q,
           \/ InspectHead(p) \/ ClassifyAbandoned(p) \/ CheckClaimed(p) \/ ReconcileDrift(p)
           \/ Reevaluate(p) \/ ReadTask(p) \/ RecoverUnqueued(p)
    PROVE  ProcessOK(p)'
<1> USE DEF At
<1>1. /\ Types /\ proc \in [Processes -> ProcessRecord] /\ proc[p] \in ProcessRecord
      /\ head \in Revisions /\ head' = head /\ evidence' = evidence
      /\ lease' = lease /\ entries' = entries /\ executor' = executor
      /\ proc[p].result \in Revisions /\ ProcessOK(p)
  BY LocalStepsChangeNoRow
  DEF ProcessorInv, Types, ProcessRecord, LocalStep, queueVars, gitVars, rowVars, events, claimVars
<1>2. IsPrefix(head, head)
  BY <1>1, PrefixReflexive DEF Revisions
<1>3. CASE InspectHead(p)
  <2>1. q \in Entries /\ Enqueued(q)' /\ lease'[q] # "LIVE"
    BY <1>1, <1>3, AtWork DEF InspectHead, ProcessOK, WorkingSteps, Enqueued
  <2>2. proc'[p].pc = "classify" /\ proc'[p].entry = q /\ proc'[p].result = head
    BY <1>1, <1>3 DEF InspectHead, ProcessRecord
  <2> QED BY <1>1, <1>2, <2>1, <2>2, WorkingIsOK
<1>4. CASE ClassifyAbandoned(p)
  <2> DEFINE next == Classified(q, proc[p].result)
  <2>1. q \in Entries /\ Enqueued(q)' /\ lease'[q] # "LIVE" /\ IsPrefix(proc[p].result, head)
    BY <1>1, <1>4, AtWork DEF ClassifyAbandoned, ProcessOK, WorkingSteps, Enqueued
  <2>2. IsPrefix(TaskRevision(q), proc[p].result) => Contains(head, q)
    BY <1>1, <2>1, TaskRevisionIsTyped, PrefixKeeps DEF Revisions
  <2>3. \/ next = "requeue"
        \/ /\ next = "settle" /\ IsPrefix(TaskRevision(q), proc[p].result)
           /\ \E v \in evidence : v.entry = q /\ IsPrefix(proc[p].result, v.tested)
        \/ next = "verify" /\ IsPrefix(TaskRevision(q), proc[p].result)
    BY DEF Classified, ProcessorInv, EvidenceOK
  <2> HIDE DEF next
  <2>4. ASSUME next = "requeue", Proceed(p, next)
        PROVE  ProcessOK(p)'
    <3>1. proc'[p].pc = "requeue" /\ proc'[p].entry = q
      BY <1>1, <2>4, Control DEF Steps, WorkingSteps
    <3> QED BY <2>1, <3>1, WorkingIsOK
  <2>5. ASSUME next \in {"settle", "verify"}, Goto(p, next)
        PROVE  ProcessOK(p)'
    <3>1. proc'[p].pc = next /\ proc'[p].entry = q /\ proc'[p].result = proc[p].result
      BY <1>1, <2>5, Control DEF Steps, WorkingSteps
    <3> QED BY <1>1, <2>1, <2>2, <2>3, <2>5, <3>1, WorkingIsOK
  <2> QED BY <1>4, <2>3, <2>4, <2>5 DEF ClassifyAbandoned, next
<1>5. CASE CheckClaimed(p)
  <2>1. q \in Entries /\ Enqueued(q)'
    BY <1>1, <1>5, AtWork DEF CheckClaimed, WorkingSteps, Enqueued
  <2>2. ASSUME Goto(p, "reconcile")
        PROVE  ProcessOK(p)'
    <3>1. proc'[p].pc = "reconcile" /\ proc'[p].entry = q
      BY <1>1, <2>2, Control DEF Steps, WorkingSteps
    <3> QED BY <2>1, <3>1, WorkingIsOK
  <2> QED BY <1>1, <1>5, <2>1, <2>2, FailingIsOK DEF CheckClaimed
<1>6. CASE ReconcileDrift(p)
  <2>1. q \in Entries /\ Enqueued(q)'
    BY <1>1, <1>6, AtWork DEF ReconcileDrift, WorkingSteps, Enqueued
  <2>2. ASSUME IsPrefix(TaskRevision(q), head), Verify(p, head)
        PROVE  ProcessOK(p)'
    <3>1. proc'[p].pc = "verify" /\ proc'[p].entry = q /\ proc'[p].result = head
      BY <1>1, <2>2, Control
    <3>2. Contains(head, q)
      BY <1>1, <2>1, <2>2, TaskRevisionIsTyped, PrefixKeeps DEF Revisions
    <3> QED BY <1>1, <1>2, <2>1, <3>1, <3>2, WorkingIsOK
  <2>3. ASSUME Goto(p, "merge")
        PROVE  ProcessOK(p)'
    <3>1. proc'[p].pc = "merge" /\ proc'[p].entry = q
      BY <1>1, <2>3, Control DEF Steps, WorkingSteps
    <3> QED BY <2>1, <3>1, WorkingIsOK
  <2>4. ASSUME proc' = [proc EXCEPT ![p].pc = "rebase", ![p].onto = head]
        PROVE  ProcessOK(p)'
    <3>1. proc'[p].pc = "rebase" /\ proc'[p].entry = q /\ proc'[p].onto = head
      BY <1>1, <2>4 DEF ProcessRecord
    <3> QED BY <1>1, <1>2, <2>1, <3>1, WorkingIsOK
  <2> QED BY <1>1, <1>6, <2>1, <2>2, <2>3, <2>4, FailingIsOK DEF ReconcileDrift
<1>7. CASE Reevaluate(p)
  <2>1. q \in Entries /\ Enqueued(q)'
    BY <1>1, <1>7, AtWork DEF Reevaluate, WorkingSteps, Enqueued
  <2>2. ASSUME Proceed(p, "reverify")
        PROVE  ProcessOK(p)'
    <3>1. proc'[p].pc = "reverify" /\ proc'[p].entry = q
      BY <1>1, <2>2, Control DEF Steps, WorkingSteps
    <3> QED BY <2>1, <3>1, WorkingIsOK
  <2> QED BY <1>1, <1>7, <2>1, <2>2, FailingIsOK DEF Reevaluate
<1>8. CASE ReadTask(p)
  <2>1. q \in Entries /\ Enqueued(q)'
    BY <1>1, <1>8, AtWork DEF ReadTask, WorkingSteps, Enqueued
  <2>2. proc'[p].pc = "settleFailure" /\ proc'[p].entry = q /\ proc'[p].seen = taskStatus[q]
    BY <1>1, <1>8 DEF ReadTask, ProcessRecord
  <2>3. taskStatus[q] = "INTEGRATING" \/ WroteFailure(q)' \/ ~InQueue(q)'
    BY <1>1, <2>1 DEF ProcessorInv, VerdictsAgree, ActiveStatusesOfEntries, InQueue, WroteFailure
  <2> QED BY <2>1, <2>2, <2>3, WorkingIsOK
<1>9. CASE RecoverUnqueued(p)
  <2>1. q \in Entries /\ ~Enqueued(q)' /\ Over(q)' /\ lease'[q] # "LIVE"
    BY <1>1, <1>9, AtWork DEF RecoverUnqueued, ProcessOK, RecoverySteps, Enqueued, Over
  <2>2. IsPrefix(TaskRevision(q), head) => Contains(head', q)
    BY <1>1, <2>1, TaskRevisionIsTyped, PrefixKeeps DEF Revisions
  <2>3. \A pc \in RecoverySteps : Goto(p, pc) => proc'[p].pc = pc /\ proc'[p].entry = q
    BY <1>1, Control DEF Steps
  <2>4. \/ IsPrefix(TaskRevision(q), head) /\ proc'[p].pc = "conclude" /\ proc'[p].entry = q
        \/ proc'[p].pc \in {"remerge", "human"} /\ proc'[p].entry = q
    BY <1>9, <2>3 DEF RecoverUnqueued, RecoverySteps
  <2> QED BY <2>1, <2>2, <2>4, RecoveringIsOK
<1> QED BY <1>3, <1>4, <1>5, <1>6, <1>7, <1>8, <1>9

\* Decisions without an entry, or to leave it.
LEMMA ListingsAreOK ==
    ASSUME ProcessorInv, NEW p \in Processes,
           \/ StartCommand(p) \/ CannotClassify(p) \/ ListClaims(p) \/ ListFailed(p)
           \/ JudgeFailed(p) \/ StartupEnds(p) \/ Crash(p)
    PROVE  ProcessOK(p)'
<1> USE DEF At
<1>1. /\ Types /\ proc \in [Processes -> ProcessRecord] /\ proc[p] \in ProcessRecord
      /\ head \in Revisions /\ head' = head /\ base' = base
      /\ lease' = lease /\ entries' = entries /\ executor' = executor /\ ProcessOK(p)
      /\ proc[p].todo \subseteq Entries
  BY LocalStepsChangeNoRow
  DEF ProcessorInv, Types, ProcessRecord, LocalStep, queueVars, gitVars, rowVars, events, claimVars
<1>2. CASE StartCommand(p)
  <2>1. ASSUME NEW r \in Abandoned,
               proc' = [proc EXCEPT ![p].pc = "inspect", ![p].startup = TRUE, ![p].entry = r]
        PROVE  ProcessOK(p)'
    <3>1. r \in Entries /\ Enqueued(r)' /\ lease'[r] # "LIVE"
      BY <1>1, <2>1 DEF Abandoned, With, Enqueued
    <3>2. proc'[p].pc = "inspect" /\ proc'[p].entry = r
      BY <1>1, <2>1 DEF ProcessRecord
    <3> QED BY <3>1, <3>2, WorkingIsOK
  <2>2. ASSUME proc' = [proc EXCEPT ![p].pc = "listClaims"]
        PROVE  ProcessOK(p)'
    <3>1. proc'[p].pc = "listClaims" /\ proc'[p].entry = NONE
      BY <1>1, <1>2, <2>2, AtWork DEF StartCommand, ProcessRecord, RestingSteps
    <3> QED BY <3>1, RestingIsOK
  <2> QED BY <1>2, <2>1, <2>2 DEF StartCommand
<1>3. CASE CannotClassify(p)
  BY <1>1, <1>3, Control, RestingIsOK DEF CannotClassify
<1>4. CASE ListClaims(p)
  <2>1. proc'[p].pc = "claims" /\ proc'[p].entry = NONE
    BY <1>1, <1>4, AtWork DEF ListClaims, ProcessRecord, RestingSteps
  <2> QED BY <2>1, RestingIsOK
<1>5. CASE ListFailed(p)
  <2>1. /\ proc'[p].pc = "failed" /\ proc'[p].entry = NONE
        /\ \A r \in proc'[p].todo : r \in Entries /\ taskStatus[r] = "FAILED" /\ ~Active(r)
    BY <1>1, <1>5, AtWork DEF ListFailed, ProcessRecord, RestingSteps
  <2>2. \A r \in proc'[p].todo : Decided(r)' /\ lease'[r] # "LIVE"
    BY <1>1, <2>1, FailedTasksAreOver DEF ProcessorInv, Active, Decided
  <2> QED BY <2>1, <2>2, RestingIsOK
<1>6. CASE JudgeFailed(p)
  <2>1. \A r \in proc[p].todo : Decided(r)' /\ lease'[r] # "LIVE"
    BY <1>1, <1>6 DEF JudgeFailed, ProcessOK, Decided
  <2>2. ASSUME NEW r \in proc[p].todo, taskStatus[r] = "FAILED", IsPrefix(TaskRevision(r), head),
               proc' = [proc EXCEPT ![p].pc = "converge", ![p].todo = @ \ {r}, ![p].entry = r]
        PROVE  ProcessOK(p)'
    <3>1. /\ proc'[p].pc = "converge" /\ proc'[p].entry = r /\ r \in Entries
          /\ proc'[p].todo = proc[p].todo \ {r}
      BY <1>1, <2>2 DEF ProcessRecord
    <3>2. InQueue(r)' => WroteFailure(r)'
      BY <1>1, <2>2, <3>1, FailedTasksAreOver DEF ProcessorInv, InQueue, WroteFailure
    <3>3. IsPrefix(TaskRevision(r)', head')
      BY <1>1, <2>2 DEF TaskRevision
    <3> QED BY <2>1, <3>1, <3>2, <3>3, RecoveringIsOK
  <2>3. ASSUME NEW r \in proc[p].todo, proc' = [proc EXCEPT ![p].todo = @ \ {r}]
        PROVE  ProcessOK(p)'
    <3>1. /\ proc'[p].pc = "failed" /\ proc'[p].entry = NONE
          /\ proc'[p].todo = proc[p].todo \ {r}
      BY <1>1, <1>6, <2>3, AtWork DEF JudgeFailed, ProcessRecord, RestingSteps
    <3> QED BY <2>1, <3>1, RestingIsOK
  <2> QED BY <1>6, <2>2, <2>3 DEF JudgeFailed
<1>7. CASE StartupEnds(p)
  BY <1>1, <1>7, IdlingIsTyped, RestingIsOK DEF StartupEnds
<1>8. CASE Crash(p)
  BY <1>1, <1>8, IdlingIsTyped, RestingIsOK DEF Crash
<1> QED BY <1>2, <1>3, <1>4, <1>5, <1>6, <1>7, <1>8

\* Writes to the queue and the repository: what is written is what the next step
\* relies on.
LEMMA QueueAndGitWritesAreOK ==
    ASSUME ProcessorInv, Grows, NEW p \in Processes, NEW q \in Entries, proc[p].entry = q,
           \/ RequeueNotIntegrated(p) \/ ProcessRequeued(p) \/ Remerge(p)
           \/ RebaseBranch(p) \/ VerifyReconciled(p) \/ Integrate(p)
    PROVE  ProcessOK(p)'
<1> USE DEF At
<1>1. /\ Types /\ proc[p] \in ProcessRecord /\ ProcessOK(p)
      /\ head \in Revisions /\ IsPrefix(head, head)
      /\ proc[p].result \in Revisions /\ proc[p].onto \in Revisions
      /\ branch \in [Entries -> Revisions] /\ branch[q] \in Revisions
      /\ IsPrefix(branch[q], branch[q])
  BY PrefixReflexive DEF ProcessorInv, Types, ProcessRecord, Revisions
<1>2. Enqueued(q) \/ Over(q) => Contains(branch[q], q)
  BY DEF ProcessorInv, BranchesHoldTheirPatch, RowsOK, Committed, Decided, Over
<1>3. Enqueued(q) => Enqueued(q)'
  BY DEF Grows
<1>4. \A pc \in Steps : Goto(p, pc) \/ Proceed(p, pc) => proc'[p].pc = pc /\ proc'[p].entry = q
  BY <1>1, Control
<1>5. \A revision \in Revisions : Verify(p, revision) =>
         proc'[p].pc = "verify" /\ proc'[p].entry = q /\ proc'[p].result = revision
  BY <1>1, Control
<1>6. CASE RequeueNotIntegrated(p)
  <2>1. Enqueued(q)' /\ lease'[q] # "LIVE"
    BY <1>1, <1>3, <1>6, AtWork
    DEF RequeueNotIntegrated, ProcessOK, WorkingSteps, rowVars, claimVars
  <2>2. Goto(p, "reclaim") => proc'[p].pc = "reclaim" /\ proc'[p].entry = q
    BY <1>4 DEF Steps, WorkingSteps
  <2> QED BY <1>1, <1>6, <2>1, <2>2, WorkingIsOK, FailingIsOK DEF RequeueNotIntegrated
<1>7. CASE ProcessRequeued(p)
  <2>1. Enqueued(q)'
    BY <1>1, <1>3, <1>7, AtWork DEF ProcessRequeued, WorkingSteps
  <2>2. Goto(p, "claimed") => proc'[p].pc = "claimed" /\ proc'[p].entry = q
    BY <1>4 DEF Steps, WorkingSteps
  <2> QED BY <1>1, <1>7, <2>1, <2>2, WorkingIsOK, FailingIsOK DEF ProcessRequeued
<1>8. CASE Remerge(p)
  <2>1. ~Enqueued(q) /\ Over(q) /\ lease[q] # "LIVE" /\ Contains(branch[q], q)
    BY <1>1, <1>2, <1>8, AtWork DEF Remerge, ProcessOK, RecoverySteps
  <2>2. ~Enqueued(q)' /\ Over(q)' /\ lease'[q] # "LIVE"
    BY <1>8, <2>1 DEF Remerge, Enqueued, Over, queueVars, rowVars, claimVars, others
  <2>3. IsPrefix(branch[q], head) => Contains(head, q)
    BY <1>1, <2>1, PrefixKeeps DEF Revisions
  <2>4. /\ Goto(p, "concludeMerge") => proc'[p].pc = "concludeMerge" /\ proc'[p].entry = q
        /\ Goto(p, "giveUp") => proc'[p].pc = "giveUp" /\ proc'[p].entry = q
    BY <1>4 DEF Steps, RecoverySteps
  <2>5. \/ Goto(p, "concludeMerge") /\ Contains(head', q)
        \/ Goto(p, "giveUp")
    BY <1>8, <2>1, <2>3 DEF Remerge
  <2> QED BY <2>2, <2>4, <2>5, RecoveringIsOK
<1>9. CASE RebaseBranch(p)
  <2> DEFINE tip == Rebased(q, proc[p].onto)
  <2>1. Enqueued(q) /\ Enqueued(q)' /\ IsPrefix(proc[p].onto, head) /\ head' = head
    BY <1>1, <1>3, <1>9, AtWork DEF RebaseBranch, ProcessOK, WorkingSteps
  <2>2. tip \in Revisions /\ Contains(tip, q)
    BY <1>1, <1>2, <2>1, RebaseKeepsThePatch
  <2> HIDE DEF tip
  <2>3. ASSUME tip = proc[p].onto, Verify(p, tip)
        PROVE  ProcessOK(p)'
    <3>1. Contains(head', q) /\ IsPrefix(tip, head')
      BY <1>1, <2>1, <2>2, <2>3, PrefixKeeps DEF Revisions
    <3> QED BY <1>5, <2>1, <2>2, <2>3, <3>1, WorkingIsOK
  <2>4. Goto(p, "reevaluate") => proc'[p].pc = "reevaluate" /\ proc'[p].entry = q
    BY <1>4 DEF Steps, WorkingSteps
  <2>5. \/ tip = proc[p].onto /\ Verify(p, tip)
        \/ Goto(p, "reevaluate") \/ Fail(p, "error")
    BY <1>9 DEF RebaseBranch, tip
  <2> QED BY <1>1, <2>1, <2>3, <2>4, <2>5, WorkingIsOK, FailingIsOK
<1>10. CASE VerifyReconciled(p)
  <2>1. Enqueued(q)'
    BY <1>1, <1>3, <1>10, AtWork DEF VerifyReconciled, WorkingSteps
  <2>2. Goto(p, "merge") => proc'[p].pc = "merge" /\ proc'[p].entry = q
    BY <1>4 DEF Steps, WorkingSteps
  <2> QED BY <1>1, <1>10, <2>1, <2>2, WorkingIsOK, FailingIsOK DEF VerifyReconciled
<1>11. CASE Integrate(p)
  <2>1. Enqueued(q)' /\ Contains(branch[q], q)
    BY <1>1, <1>2, <1>3, <1>11, AtWork DEF Integrate, WorkingSteps
  <2>2. IsPrefix(branch[q], head) => Contains(head, q)
    BY <1>1, <2>1, PrefixKeeps DEF Revisions
  <2>3. ASSUME NEW tip \in Revisions, IsPrefix(tip, head'), Contains(head', q), Verify(p, tip)
        PROVE  ProcessOK(p)'
    BY <1>5, <2>1, <2>3, WorkingIsOK
  <2> QED BY <1>1, <1>11, <2>1, <2>2, <2>3, FailingIsOK DEF Integrate
<1> QED BY <1>6, <1>7, <1>8, <1>9, <1>10, <1>11

\* Writes to the rows.
LEMMA RowWritesAreOK ==
    ASSUME ProcessorInv, Grows, NEW p \in Processes, NEW q \in Entries, proc[p].entry = q,
           \/ ConcludeIntegrated(p) \/ ConcludeOtherwise(p) \/ SettleClaim(p) \/ Converge(p)
           \/ VerifyIntegrated(p) \/ SettleSuccess(p) \/ SettleFailure(p) \/ ReleaseExecution(p)
    PROVE  ProcessOK(p)'
<1> USE DEF At
<1>1. /\ Types /\ proc[p] \in ProcessRecord /\ ProcessOK(p) /\ proc[p].todo \subseteq Entries
  BY DEF ProcessorInv, Types, ProcessRecord
<1>2. Enqueued(q) => Enqueued(q)'
  BY DEF Grows
<1>3. \A pc \in Steps : Goto(p, pc) \/ Proceed(p, pc) => proc'[p].pc = pc /\ proc'[p].entry = q
  BY <1>1, Control
<1>4. CASE ConcludeIntegrated(p) \/ ConcludeOtherwise(p)
  <2>1. ~Enqueued(q) /\ Over(q) /\ lease[q] # "LIVE"
    BY <1>1, <1>4, AtWork DEF ConcludeIntegrated, ConcludeOtherwise, ProcessOK, RecoverySteps
  <2>2. ~Enqueued(q)' /\ Over(q)' /\ Decided(q)' /\ lease'[q] # "LIVE"
    BY <1>4, <2>1 DEF ConcludeIntegrated, ConcludeOtherwise, Enqueued, Over, Decided, queueVars,
       claimVars, others
  <2>3. /\ Goto(p, "settleClaim") => proc'[p].pc = "settleClaim" /\ proc'[p].entry = q
        /\ Goto(p, "giveUp") => proc'[p].pc = "giveUp" /\ proc'[p].entry = q
        /\ Resume(p, "claims") => proc'[p].pc = "claims" /\ proc'[p].entry = NONE
        /\ proc' = [proc EXCEPT ![p] = Idle] => proc'[p].pc = "idle" /\ proc'[p].entry = NONE
    BY <1>1, <1>3, Control, IdlingIsTyped DEF Steps, RecoverySteps, SettlingSteps, RestingSteps
  <2>4. \/ Goto(p, "settleClaim") \/ Goto(p, "giveUp") \/ Resume(p, "claims")
        \/ proc' = [proc EXCEPT ![p] = Idle]
    BY <1>4 DEF ConcludeIntegrated, ConcludeOtherwise, RecoveryTransaction
  <2> QED BY <2>2, <2>3, <2>4, RecoveringIsOK, RestingIsOK
<1>5. CASE SettleClaim(p)
  BY <1>1, <1>5, Control, RestingIsOK DEF SettleClaim, RestingSteps
<1>6. CASE Converge(p)
  <2>1. proc'[p].pc = "failed" /\ proc'[p].entry = NONE /\ proc'[p].todo = proc[p].todo
    BY <1>1, <1>6, Control DEF Converge, RestingSteps
  <2>2. \A r \in proc'[p].todo : Decided(r)' /\ lease'[r] # "LIVE"
    BY <1>1, <1>6, <2>1 DEF Converge, ProcessOK, Grows
  <2> QED BY <2>1, <2>2, RestingIsOK
<1>7. CASE VerifyIntegrated(p)
  <2>1. /\ Enqueued(q)' /\ IsPrefix(proc[p].result, head) /\ Contains(head, q) /\ head' = head
    BY <1>1, <1>2, <1>7, AtWork DEF VerifyIntegrated, ProcessOK, WorkingSteps, gitVars
  <2>2. ASSUME evidence' = evidence \cup {[entry |-> q, revision |-> proc[p].result,
                                           tested |-> head]},
               Goto(p, "settle")
        PROVE  ProcessOK(p)'
    <3>1. proc'[p].pc = "settle" /\ proc'[p].entry = q /\ proc'[p].result = proc[p].result
      BY <1>1, <2>2, Control DEF Steps, WorkingSteps
    <3>2. \E v \in evidence' : v.entry = q /\ IsPrefix(proc'[p].result, v.tested)
      <4> DEFINE v == [entry |-> q, revision |-> proc[p].result, tested |-> head]
      <4>1. v \in evidence' /\ v.entry = q /\ v.tested = head
        BY <2>2
      <4> QED BY <2>1, <3>1, <4>1
    <3> QED BY <2>1, <3>1, <3>2, WorkingIsOK
  <2> QED BY <1>1, <1>7, <2>1, <2>2, FailingIsOK DEF VerifyIntegrated
<1>8. CASE SettleSuccess(p) \/ SettleFailure(p) \/ ReleaseExecution(p)
  <2>1. Enqueued(q)'
    BY <1>1, <1>2, <1>8, AtWork DEF SettleSuccess, SettleFailure, ReleaseExecution, WorkingSteps
  <2>2. Proceed(p, "release") => proc'[p].pc = "release" /\ proc'[p].entry = q
    BY <1>3 DEF Steps, WorkingSteps
  <2> QED BY <1>1, <1>8, <2>1, <2>2, WorkingIsOK, FailingIsOK
          DEF SettleSuccess, SettleFailure, ReleaseExecution
<1> QED BY <1>4, <1>5, <1>6, <1>7, <1>8

\* A process that takes an entry from the queue, or a claim from its list.
LEMMA TakingIsOK ==
    ASSUME ProcessorInv, NEW p \in Processes, ProcessNext(p) \/ ExamineClaim(p)
    PROVE  ProcessOK(p)'
<1> USE DEF At
<1>1. /\ Types /\ proc \in [Processes -> ProcessRecord] /\ proc[p] \in ProcessRecord
      /\ ProcessOK(p) /\ proc[p].todo \subseteq Entries
  BY DEF ProcessorInv, Types, ProcessRecord
<1>2. CASE ProcessNext(p)
  <2>1. ASSUME NEW r \in Entries, ClaimNextIntegrationQueueEntry(r),
               proc' = [proc EXCEPT ![p].pc = "claimed", ![p].entry = r]
        PROVE  ProcessOK(p)'
    <3>1. proc'[p].pc = "claimed" /\ proc'[p].entry = r
      BY <1>1, <2>1 DEF ProcessRecord
    <3>2. Enqueued(r)'
      BY <1>1, <2>1 DEF ClaimNextIntegrationQueueEntry, Types, QueueTypeOK, Entry, Enqueued
    <3> QED BY <3>1, <3>2, WorkingIsOK
  <2>2. ASSUME proc' = [proc EXCEPT ![p] = Idle]
        PROVE  ProcessOK(p)'
    BY <1>1, <2>2, IdlingIsTyped, RestingIsOK
  <2> QED BY <1>2, <2>1, <2>2 DEF ProcessNext
<1>3. CASE ExamineClaim(p)
  <2>1. PICK q \in proc[p].todo :
           \E pc \in {"claims", "settleClaim", "recover"} :
              /\ pc # "claims" => lease[q] = "EXPIRED"
              /\ pc = "recover" => ~Enqueued(q)
              /\ proc' = [proc EXCEPT ![p].pc = pc, ![p].todo = @ \ {q},
                                      ![p].entry = IF pc = "claims" THEN NONE ELSE q]
    BY <1>3 DEF ExamineClaim, Unqueued, Enqueued
  <2>2. /\ q \in Entries /\ lease' = lease /\ entries' = entries /\ executor' = executor
    BY <1>1, <1>3, <2>1 DEF ExamineClaim, queueVars, others
  <2>3. PICK pc \in {"claims", "settleClaim", "recover"} :
              /\ pc # "claims" => lease[q] = "EXPIRED"
              /\ pc = "recover" => ~Enqueued(q)
              /\ proc'[p].pc = pc /\ proc'[p].entry = IF pc = "claims" THEN NONE ELSE q
    BY <1>1, <2>1 DEF ProcessRecord
  <2>4. lease[q] = "EXPIRED" => Over(q)' /\ Decided(q)' /\ lease'[q] # "LIVE"
    BY <2>2 DEF ProcessorInv, RowsOK, Over, Decided
  <2>5. ~Enqueued(q) => ~Enqueued(q)'
    BY <2>2 DEF Enqueued
  <2> QED BY <2>2, <2>3, <2>4, <2>5, RecoveringIsOK, RestingIsOK
<1> QED BY <1>2, <1>3

\* Whatever a process does, it is where it may be.
LEMMA ProcessesStayOK ==
    ASSUME ProcessorInv, Grows, NEW p \in Processes, LocalStep(p) \/ StoreStep(p)
    PROVE  ProcessOK(p)'
<1>1. CASE \/ StartCommand(p) \/ CannotClassify(p) \/ ListClaims(p) \/ ListFailed(p)
           \/ JudgeFailed(p) \/ StartupEnds(p) \/ Crash(p)
  BY <1>1, ListingsAreOK
<1>2. CASE ProcessNext(p) \/ ExamineClaim(p)
  BY <1>2, TakingIsOK
<1>3. CASE \/ InspectHead(p) \/ ClassifyAbandoned(p) \/ CheckClaimed(p) \/ ReconcileDrift(p)
           \/ Reevaluate(p) \/ ReadTask(p) \/ RecoverUnqueued(p)
  <2>1. proc[p].pc \notin RestingSteps
    BY <1>3 DEF InspectHead, ClassifyAbandoned, CheckClaimed, ReconcileDrift, Reevaluate,
       ReadTask, RecoverUnqueued, At, RestingSteps
  <2>2. PICK q \in Entries : proc[p].entry = q
    BY <2>1 DEF ProcessorInv, ProcessOK, WorksOnAnEntry
  <2> QED BY <1>3, <2>2, QueueDecisionsAreOK
<1>4. CASE StoreStep(p) /\ ~ProcessNext(p) /\ ~ExamineClaim(p)
  <2>1. ~At(p, "next") /\ ~At(p, "claims")
    BY <1>4 DEF StoreStep, QueueAndGitStep, RowStep, RequeueNotIntegrated, ProcessRequeued,
       Remerge, RebaseBranch, VerifyReconciled, Integrate, ConcludeIntegrated, ConcludeOtherwise,
       SettleClaim, Converge, VerifyIntegrated, SettleSuccess, SettleFailure, ReleaseExecution, At
  <2>2. PICK q \in Entries : proc[p].entry = q
    BY <1>4, <2>1, WritersHaveAnEntry DEF ProcessorInv
  <2> QED BY <1>4, <2>2, QueueAndGitWritesAreOK, RowWritesAreOK
          DEF StoreStep, QueueAndGitStep, RowStep
<1> QED BY <1>1, <1>2, <1>3, <1>4 DEF LocalStep

-----------------------------------------------------------------------------
(* The repository and the rows *)

\* Evidence is of a tree that has the patch.
LEMMA EvidenceStaysOK == ASSUME ProcessorInv, Next PROVE EvidenceOK'
<1>1. CASE evidence' = evidence
  BY <1>1 DEF ProcessorInv, EvidenceOK
<1>2. ASSUME NEW p \in Processes, VerifyIntegrated(p)
      PROVE  EvidenceOK'
  <2>1. IsPrefix(proc[p].result, head) /\ Contains(head, proc[p].entry)
    BY <1>2 DEF ProcessorInv, ProcessOK, VerifyIntegrated, At
  <2> QED BY <1>2, <2>1 DEF ProcessorInv, EvidenceOK, VerifyIntegrated, events
<1> QED BY <1>1, <1>2, WhoWrites

\* An attempt is committed by its executor.
LEMMA WhoCommits ==
    ASSUME ProcessorInv, Next, NEW q \in Entries, Committed(q)'
    PROVE  Committed(q) \/ CommitAttempt(q)
<1>1. executor \in [Entries -> {"none", "work", "enqueue", "report", "fail", "release",
                                "gone", "failed"}]
  BY DEF ProcessorInv, Types
<1>2. CASE Quiet(q)
  BY <1>2 DEF Quiet, Committed
<1>3. CASE StartAttempt(q)
  BY <1>1, <1>3 DEF StartAttempt, Committed
<1>4. CASE EnqueueAttempt(q) \/ FailExecution(q)
  BY <1>4 DEF EnqueueAttempt, FailExecution, Committed
<1>5. ASSUME NEW p \in Processes,
             \/ RequeueNotIntegrated(p) \/ SettleSuccess(p) \/ SettleFailure(p)
             \/ ConcludeIntegrated(p) \/ ConcludeOtherwise(p) \/ Converge(p)
      PROVE  executor' = executor
  BY <1>5 DEF RequeueNotIntegrated, SettleSuccess, SettleFailure, ConcludeIntegrated,
     ConcludeOtherwise, Converge, others
<1> QED BY <1>1, <1>2, <1>3, <1>4, <1>5, RowsEvolve DEF Moved, Committed, ProcessorInv

\* A branch has its patch from the commit on, also after a rebase.
LEMMA BranchesKeepTheirPatch == ASSUME ProcessorInv, Next PROVE BranchesHoldTheirPatch'
<1>1. Types /\ \A q \in Entries : Committed(q) => Contains(branch[q], q)
  BY DEF ProcessorInv, BranchesHoldTheirPatch
<1>2. ASSUME NEW q \in Entries, Committed(q)'
      PROVE  Contains(branch'[q], q)
  <2>1. CASE CommitAttempt(q)
    BY <1>1, <2>1, TaskRevisionIsTyped DEF CommitAttempt, Types
  <2>2. CASE Committed(q)
    <3>1. CASE branch' = branch
      BY <1>1, <2>2, <3>1
    <3>2. ASSUME NEW r \in Entries, StartAttempt(r) \/ CommitAttempt(r)
          PROVE  r # q /\ branch'[q] = branch[q]
      BY <1>1, <2>2, <3>2 DEF StartAttempt, CommitAttempt, Committed, Types
    <3>3. ASSUME NEW p \in Processes, RebaseBranch(p)
          PROVE  Contains(branch'[q], q)
      <4>1. proc[p].onto \in Revisions /\ branch \in [Entries -> Revisions]
        BY <1>1 DEF Types, ProcessRecord
      <4> QED BY <1>1, <2>2, <3>3, <4>1, RebaseKeepsThePatch DEF RebaseBranch
    <3> QED BY <1>1, <2>2, <3>1, <3>2, <3>3, WhoWrites
  <2> QED BY <1>2, <2>1, <2>2, WhoCommits
<1> QED BY <1>2 DEF BranchesHoldTheirPatch, Committed

\* A lease runs out when the executor is over.
LEMMA ExpiredLeasesAreOver ==
    ASSUME ProcessorInv, Next, Grows
    PROVE  \A q \in Entries : lease'[q] = "EXPIRED" => Over(q)'
<1>1. /\ lease \in [Entries -> {"NONE", "LIVE", "EXPIRED", "SETTLED"}]
      /\ \A q \in Entries : lease[q] = "EXPIRED" => Over(q)
      /\ \A q \in Entries : Over(q) => Over(q)'
  BY DEF ProcessorInv, Types, RowsOK, Grows
<1>2. ASSUME NEW r \in Entries, StartAttempt(r) \/ ReleaseFailed(r)
      PROVE  \A q \in Entries : lease'[q] = "EXPIRED" => lease[q] = "EXPIRED"
  BY <1>1, <1>2 DEF StartAttempt, ReleaseFailed
<1>3. ASSUME NEW r \in Entries, LeaseExpires(r)
      PROVE  \A q \in Entries : lease'[q] = "EXPIRED" => lease[q] = "EXPIRED" \/ Over(q)
  BY <1>1, <1>3 DEF LeaseExpires, Over
<1>4. ASSUME NEW p \in Processes, SettleClaim(p) \/ ReleaseExecution(p)
      PROVE  \A q \in Entries : lease'[q] = "EXPIRED" => lease[q] = "EXPIRED"
  BY <1>1, <1>4 DEF SettleClaim, ReleaseExecution, claimVars
<1>5. \A q \in Entries : lease'[q] = "EXPIRED" => lease[q] = "EXPIRED" \/ Over(q)
  BY <1>2, <1>3, <1>4, WhoWrites
<1> QED BY <1>1, <1>5

\* The commit of an entry stays on the integration branch.
LEMMA IntegratedStays ==
    ASSUME Types, Types', Grows, NEW q \in Entries, Decided(q), IsPrefix(TaskRevision(q), head)
    PROVE  IsPrefix(TaskRevision(q)', head')
<1>1. TaskRevision(q)' = TaskRevision(q) /\ TaskRevision(q) \in Revisions
  BY TaskRevisionIsTyped DEF Grows, TaskRevision
<1> QED BY <1>1, PrefixTransitive DEF Types, Grows, Revisions

\* Settling is all or nothing: entry, attempt and task take the verdict together,
\* or none does; a failing executor and a startup leave nothing that waits.
LEMMA RowsStayTogether ==
    ASSUME ProcessorInv, Next, Types', Grows
    PROVE  RowsOK' /\ VerdictsAgree' /\ SettledEntriesEndTheirTask'
<1>1. /\ Types /\ RowsOK /\ VerdictsAgree /\ SettledEntriesEndTheirTask
      /\ \A p \in Processes : ProcessOK(p)
      /\ \A q \in Entries : lease'[q] = "EXPIRED" => Over(q)'
  BY ExpiredLeasesAreOver DEF ProcessorInv
<1> DEFINE Together(q) ==
             /\ executor'[q] \in {"none", "work", "enqueue"} => entries'[q].status = "ABSENT"
             /\ executor'[q] = "none" => taskStatus'[q] = "READY"
             /\ executor'[q] = "work" =>
                   taskStatus'[q] = "IMPLEMENTING" /\ attemptStatus'[q] = "RUNNING"
             /\ executor'[q] = "enqueue" =>
                   taskStatus'[q] = "INTEGRATING" /\ attemptStatus'[q] = "RUNNING"
             /\ executor'[q] \in {"release", "failed"} /\ entries'[q].status # "ABSENT" =>
                   taskStatus'[q] \in TerminalStatuses
             /\ executor'[q] \notin {"release", "failed"} =>
                   /\ entries'[q].status = "COMPLETED" =>
                         taskStatus'[q] = "DONE" /\ attemptStatus'[q] = "SUCCEEDED"
                   /\ entries'[q].status = "FAILED" =>
                         \/ /\ taskStatus'[q] = attemptStatus'[q]
                            /\ taskStatus'[q] \in {"FAILED", "CANCELLED"}
                         \/ /\ taskStatus'[q] = "DONE" /\ attemptStatus'[q] = "SUCCEEDED"
                            /\ IsPrefix(TaskRevision(q)', head')
                   /\ entries'[q].status \in {"PENDING", "INTEGRATING"} =>
                         taskStatus'[q] = "INTEGRATING" /\ attemptStatus'[q] = "RUNNING"
             /\ entries'[q].status \in {"COMPLETED", "FAILED"} =>
                   taskStatus'[q] \in TerminalStatuses /\ attemptStatus'[q] \notin {"NONE", "RUNNING"}
<1>2. SUFFICES ASSUME NEW q \in Entries
               PROVE  Together(q)
  <2>1. \A q \in Entries : entries'[q].status \in
           {"ABSENT", "PENDING", "INTEGRATING", "COMPLETED", "FAILED"}
    BY DEF Types, QueueTypeOK, Entry, ActiveStatusesOfEntries, FinalStatusesOfEntries
  <2>2. RowsOK'
    BY <1>1, <1>2 DEF RowsOK, Decided, Enqueued, WroteFailure
  <2>3. VerdictsAgree'
    BY <1>2, <2>1 DEF VerdictsAgree, WroteFailure, ActiveStatusesOfEntries
  <2>4. SettledEntriesEndTheirTask'
    BY <1>2 DEF SettledEntriesEndTheirTask, Settled, FinalStatusesOfEntries
  <2> QED BY <2>2, <2>3, <2>4
<1>3. /\ entries \in [Entries -> Entry] /\ taskStatus \in [Entries -> TaskStatuses]
      /\ attemptStatus \in [Entries -> {"NONE", "RUNNING", "SUCCEEDED", "FAILED", "CANCELLED"}]
      /\ executor \in [Entries -> {"none", "work", "enqueue", "report", "fail", "release",
                                   "gone", "failed"}]
      /\ entries[q].status \in {"ABSENT", "PENDING", "INTEGRATING", "COMPLETED", "FAILED"}
  BY <1>1 DEF Types, QueueTypeOK, Entry, ActiveStatusesOfEntries, FinalStatusesOfEntries
<1>4. /\ ~Decided(q) => entries[q].status = "ABSENT"
      /\ executor[q] = "none" => taskStatus[q] = "READY"
      /\ executor[q] = "work" => taskStatus[q] = "IMPLEMENTING" /\ attemptStatus[q] = "RUNNING"
      /\ executor[q] = "enqueue" => taskStatus[q] = "INTEGRATING" /\ attemptStatus[q] = "RUNNING"
      /\ executor[q] \in {"release", "failed"} /\ entries[q].status # "ABSENT" =>
            taskStatus[q] \in TerminalStatuses
  BY <1>1 DEF RowsOK, Enqueued, WroteFailure
<1>5. executor[q] \notin {"release", "failed"} =>
         /\ entries[q].status = "COMPLETED" =>
               taskStatus[q] = "DONE" /\ attemptStatus[q] = "SUCCEEDED"
         /\ entries[q].status = "FAILED" =>
               \/ taskStatus[q] = attemptStatus[q] /\ taskStatus[q] \in {"FAILED", "CANCELLED"}
               \/ /\ taskStatus[q] = "DONE" /\ attemptStatus[q] = "SUCCEEDED"
                  /\ IsPrefix(TaskRevision(q), head)
         /\ entries[q].status \in {"PENDING", "INTEGRATING"} =>
               taskStatus[q] = "INTEGRATING" /\ attemptStatus[q] = "RUNNING"
  BY <1>1 DEF VerdictsAgree, WroteFailure, ActiveStatusesOfEntries
<1>6. entries[q].status \in {"COMPLETED", "FAILED"} =>
         taskStatus[q] \in TerminalStatuses /\ attemptStatus[q] \notin {"NONE", "RUNNING"}
  BY <1>1 DEF SettledEntriesEndTheirTask, Settled, FinalStatusesOfEntries
<1>7. Decided(q) /\ IsPrefix(TaskRevision(q), head) => IsPrefix(TaskRevision(q)', head')
  BY <1>1, IntegratedStays
<1> HIDE <1>1
<1>8. CASE Quiet(q)
  BY <1>3, <1>4, <1>5, <1>6, <1>7, <1>8 DEF Quiet, Decided
<1>9. CASE StartAttempt(q) \/ CommitAttempt(q)
  BY <1>3, <1>4, <1>9 DEF StartAttempt, CommitAttempt, Decided, queueVars
<1>10. CASE EnqueueAttempt(q)
  BY <1>3, <1>4, <1>10 DEF EnqueueAttempt, EnqueueIntegrationQueueEntry, rowVars, Entry
<1>11. CASE FailExecution(q)
  BY <1>3, <1>4, <1>6, <1>11 DEF FailExecution, queueVars, TerminalStatuses
<1>12. ASSUME NEW p \in Processes, proc[p].entry = q, RequeueNotIntegrated(p)
       PROVE  Together(q)
  <2>1. /\ taskStatus' = taskStatus /\ attemptStatus' = attemptStatus /\ executor' = executor
        /\ \/ entries'[q].status = entries[q].status
           \/ entries[q].status = "INTEGRATING" /\ entries'[q].status = "PENDING"
    BY <1>3, <1>12 DEF RequeueNotIntegrated, RequeueIntegrationQueueEntry, LeaveIntegrating,
       Entry, rowVars, queueVars, others
  <2> QED BY <1>3, <1>4, <1>5, <1>6, <1>7, <2>1 DEF Decided
<1>13. ASSUME NEW p \in Processes, proc[p].entry = q, SettleSuccess(p)
       PROVE  Together(q)
  <2>1. /\ executor' = executor
        /\ \/ /\ taskStatus' = taskStatus /\ attemptStatus' = attemptStatus
              /\ entries' = entries
           \/ /\ taskStatus'[q] = "DONE" /\ attemptStatus'[q] = "SUCCEEDED"
              /\ entries[q].status = "INTEGRATING" /\ entries'[q].status = "COMPLETED"
    BY <1>3, <1>13 DEF SettleSuccess, CompleteIntegrationQueueEntry, LeaveIntegrating, Entry,
       queueVars, others
  <2> QED BY <1>3, <1>4, <1>5, <1>6, <1>7, <2>1 DEF Decided, TerminalStatuses
<1>14. ASSUME NEW p \in Processes, proc[p].entry = q, SettleFailure(p)
       PROVE  Together(q)
  <2>1. FailedAs(p) \in {"FAILED", "CANCELLED"}
    BY DEF FailedAs
  <2>2. /\ executor' = executor
        /\ \/ /\ taskStatus' = taskStatus /\ attemptStatus' = attemptStatus
              /\ entries' = entries
           \/ /\ taskStatus'[q] = IF proc[p].seen = "INTEGRATING" THEN FailedAs(p) ELSE taskStatus[q]
              /\ attemptStatus'[q] = FailedAs(p)
              /\ entries[q].status = "INTEGRATING" /\ entries'[q].status = "FAILED"
    BY <1>3, <1>14 DEF SettleFailure, FailTask, FailIntegrationQueueEntry, LeaveIntegrating, Entry,
       queueVars, others
  <2>3. \/ proc[p].seen = "INTEGRATING" \/ executor[q] \in {"release", "failed"}
        \/ entries[q].status # "INTEGRATING"
    BY <1>1, <1>14 DEF SettleFailure, ProcessOK, At, WroteFailure, InQueue
  <2> QED BY <1>3, <1>4, <1>5, <1>6, <1>7, <2>1, <2>2, <2>3 DEF Decided, TerminalStatuses
<1>15. ASSUME NEW p \in Processes, proc[p].entry = q, ConcludeIntegrated(p) \/ ConcludeOtherwise(p)
       PROVE  Together(q)
  <2>1. /\ executor' = executor /\ entries' = entries
        /\ entries[q].status = "ABSENT" /\ executor[q] \in {"gone", "failed"}
    BY <1>1, <1>15, AtWork
    DEF ConcludeIntegrated, ConcludeOtherwise, At, RecoverySteps, Enqueued, Over, queueVars, others
  <2> QED BY <2>1
<1>16. ASSUME NEW p \in Processes, proc[p].entry = q, Converge(p)
       PROVE  Together(q)
  <2>1. /\ executor' = executor /\ entries' = entries
        /\ taskStatus'[q] = "DONE" /\ attemptStatus'[q] = "SUCCEEDED"
    BY <1>3, <1>16 DEF Converge, queueVars, others
  <2>2. /\ Decided(q) /\ IsPrefix(TaskRevision(q), head)
        /\ entries[q].status \in {"PENDING", "INTEGRATING"} => executor[q] \in {"release", "failed"}
    BY <1>1, <1>16 DEF Converge, At, ProcessOK, WorksOnAnEntry, SettlingSteps, InQueue, WroteFailure
  <2> QED BY <1>3, <1>7, <2>1, <2>2 DEF Decided, TerminalStatuses
<1>17. Quiet(q) \/ Moved(q)
  BY <1>1, RowsEvolve
<1> QED BY <1>8, <1>9, <1>10, <1>11, <1>12, <1>13, <1>14, <1>15, <1>16, <1>17 DEF Moved

\* DONE rests on what the settling process relied on, and that stays so.
LEMMA DoneStaysEarned == ASSUME ProcessorInv, Next, Types', Grows PROVE DoneIsIntegrated'
<1>1. /\ Types /\ head \in Revisions /\ head' \in Revisions
      /\ DoneIsIntegrated /\ EvidenceOK /\ RowsOK
      /\ \A p \in Processes : ProcessOK(p)
  BY DEF ProcessorInv, Types
<1>2. /\ entries \in [Entries -> Entry] /\ taskStatus \in [Entries -> TaskStatuses]
  BY <1>1 DEF Types, QueueTypeOK
<1>3. ASSUME NEW q \in Entries
      PROVE  /\ taskStatus'[q] = "DONE" \/ entries'[q].status = "COMPLETED" => Contains(head, q)
             /\ entries'[q].status = "COMPLETED" =>
                   \E v \in evidence : v.entry = q /\ Contains(v.tested, q)
  <2>1. /\ taskStatus[q] = "DONE" \/ entries[q].status = "COMPLETED" => Contains(head, q)
        /\ entries[q].status = "COMPLETED" =>
              \E v \in evidence : v.entry = q /\ Contains(v.tested, q)
    BY <1>1 DEF DoneIsIntegrated
  <2>2. CASE Quiet(q)
    BY <2>1, <2>2 DEF Quiet
  <2>3. CASE StartAttempt(q) \/ CommitAttempt(q) \/ FailExecution(q)
    BY <1>2, <2>1, <2>3 DEF StartAttempt, CommitAttempt, FailExecution, queueVars
  <2>4. CASE EnqueueAttempt(q)
    BY <1>2, <2>1, <2>4 DEF EnqueueAttempt, EnqueueIntegrationQueueEntry, rowVars, Entry
  <2>5. ASSUME NEW p \in Processes, proc[p].entry = q,
               RequeueNotIntegrated(p) \/ SettleFailure(p) \/ ConcludeOtherwise(p)
        PROVE  /\ taskStatus'[q] = "DONE" => taskStatus[q] = "DONE"
               /\ entries'[q].status = "COMPLETED" => entries[q].status = "COMPLETED"
    BY <1>2, <2>5 DEF RequeueNotIntegrated, SettleFailure, ConcludeOtherwise, RecoveryTransaction,
       FailTask, FailedAs, RequeueIntegrationQueueEntry, FailIntegrationQueueEntry,
       LeaveIntegrating, Entry, queueVars, rowVars
  <2>6. ASSUME NEW p \in Processes, proc[p].entry = q, SettleSuccess(p)
        PROVE  Contains(head, q) /\ \E v \in evidence : v.entry = q /\ Contains(v.tested, q)
    BY <1>1, <2>6 DEF ProcessOK, EvidenceOK, SettleSuccess, At
  <2>7. ASSUME NEW p \in Processes, proc[p].entry = q, ConcludeIntegrated(p)
        PROVE  Contains(head, q) /\ entries' = entries
    BY <1>1, <2>7 DEF ProcessOK, ConcludeIntegrated, At, queueVars
  <2>8. ASSUME NEW p \in Processes, proc[p].entry = q, Converge(p)
        PROVE  Contains(head, q) /\ entries' = entries
    <3>1. IsPrefix(TaskRevision(q), head) /\ entries' = entries
      BY <1>1, <2>8 DEF ProcessOK, Converge, At, queueVars
    <3> QED BY <1>1, <3>1, TaskRevisionIsTyped, PrefixKeeps DEF Revisions
  <2>9. Quiet(q) \/ Moved(q)
    BY <1>1, RowsEvolve
  <2> QED BY <2>1, <2>2, <2>3, <2>4, <2>5, <2>6, <2>7, <2>8, <2>9 DEF Moved
<1>4. \A q \in Entries : Contains(head, q) => Contains(head', q)
  BY <1>1, PrefixKeeps DEF Grows, Revisions
<1>5. evidence \subseteq evidence'
  BY DEF Grows
<1> QED BY <1>3, <1>4, <1>5 DEF DoneIsIntegrated

-----------------------------------------------------------------------------
(* Workers under a live lease *)

\* One process moves at a time.
LEMMA OneProcessMoves ==
    ASSUME Types, Next
    PROVE  \/ proc' = proc
           \/ \E p \in Processes :
                 /\ LocalStep(p) \/ StoreStep(p)
                 /\ \A r \in Processes \ {p} : proc'[r] = proc[r]
<1>1. proc \in [Processes -> ProcessRecord]
  BY DEF Types
<1>2. ASSUME NEW q \in Entries, ExecutorMoves(q)
      PROVE  proc' = proc
  BY <1>2 DEF ExecutorMoves, StartAttempt, CommitAttempt, EnqueueAttempt, ReportEnqueued,
     EnqueueingFails, FailExecution, ReleaseFailed, ExecutorDies, LeaseExpires, RecoveryLeaseExpires
<1>3. ASSUME NEW x \in Patches, UserCommits(x)
      PROVE  proc' = proc
  BY <1>3 DEF UserCommits
<1>4. ASSUME NEW p \in Processes,
             \/ \E pc : Goto(p, pc) \/ Proceed(p, pc) \/ Resume(p, pc)
             \/ \E revision : Verify(p, revision)
             \/ \E kind : Fail(p, kind)
             \/ Return(p)
             \/ \E rec : proc' = [proc EXCEPT ![p] = rec]
      PROVE  \A r \in Processes \ {p} : proc'[r] = proc[r]
  BY <1>1, <1>4 DEF Goto, Proceed, Resume, Verify, Fail, Return
<1>5. ASSUME NEW p \in Processes, LocalStep(p)
      PROVE  \A r \in Processes \ {p} : proc'[r] = proc[r]
  BY <1>1, <1>4, <1>5 DEF LocalStep, StartCommand, InspectHead, ClassifyAbandoned, CannotClassify,
     ListClaims, RecoverUnqueued, ListFailed, JudgeFailed, StartupEnds, CheckClaimed,
     ReconcileDrift, Reevaluate, ReadTask, Crash
<1>6. ASSUME NEW p \in Processes, QueueAndGitStep(p)
      PROVE  \A r \in Processes \ {p} : proc'[r] = proc[r]
  BY <1>1, <1>4, <1>6 DEF QueueAndGitStep, RequeueNotIntegrated, ProcessRequeued, ProcessNext,
     Remerge, RebaseBranch, VerifyReconciled, Integrate
<1>7. ASSUME NEW p \in Processes, RowStep(p)
      PROVE  \A r \in Processes \ {p} : proc'[r] = proc[r]
  BY <1>1, <1>4, <1>7 DEF RowStep, ExamineClaim, ConcludeIntegrated, ConcludeOtherwise,
     RecoveryTransaction, SettleClaim, Converge, VerifyIntegrated, SettleSuccess, SettleFailure,
     ReleaseExecution
<1> QED BY <1>2, <1>3, <1>5, <1>6, <1>7, WhoMoves DEF StoreStep

\* Only a process that looks for an entry takes another one.
LEMMA EntriesAreKept ==
    ASSUME Types, NEW p \in Processes, ProcessOK(p), LocalStep(p) \/ StoreStep(p)
    PROVE  \/ proc'[p].entry \in {proc[p].entry, NONE}
           \/ ProcessNext(p)
           \/ proc'[p].pc \in {"inspect", "recover", "settleClaim", "converge"}
<1> DEFINE Kept == proc'[p].entry \in {proc[p].entry, NONE}
<1>1. proc \in [Processes -> ProcessRecord] /\ proc[p] \in ProcessRecord
  BY DEF Types
<1>2. ASSUME NEW pc, Goto(p, pc)
      PROVE  Kept
  BY <1>1, <1>2 DEF Goto, ProcessRecord
<1>3. ASSUME NEW pc, Forgetting(p, pc).entry # proc[p].entry
      PROVE  FALSE
  BY <1>1, <1>3 DEF Forgetting, Idle, ProcessRecord
<1>4. ASSUME NEW pc, Proceed(p, pc)
      PROVE  Kept
  BY <1>1, <1>3, <1>4 DEF Proceed
<1>5. ASSUME NEW revision, Verify(p, revision)
      PROVE  Kept
  BY <1>1, <1>5 DEF Verify, Forgetting, Idle, ProcessRecord
<1>6. ASSUME NEW kind, Fail(p, kind)
      PROVE  Kept
  BY <1>1, <1>6 DEF Fail, Forgetting, Idle, ProcessRecord
<1>7. ASSUME NEW pc, Resume(p, pc)
      PROVE  Kept
  BY <1>1, <1>7 DEF Resume, Idle
<1>8. ASSUME Return(p)
      PROVE  Kept
  BY <1>1, <1>8, Control
<1>9. ASSUME \/ proc' = [proc EXCEPT ![p] = Idle]
             \/ \E pc \in {"idle", "next"} : proc' = [proc EXCEPT ![p] = [Idle EXCEPT !.pc = pc]]
      PROVE  Kept
  BY <1>9, IdlingIsTyped
<1>10. CASE StartCommand(p) \/ InspectHead(p) \/ ListClaims(p) \/ ListFailed(p) \/ ReadTask(p)
  BY <1>1, <1>10 DEF StartCommand, InspectHead, ListClaims, ListFailed, ReadTask, ProcessRecord
<1>11. CASE JudgeFailed(p)
  BY <1>1, <1>11 DEF JudgeFailed, ProcessRecord
<1>12. CASE ExamineClaim(p)
  <2>1. PICK q \in proc[p].todo, pc \in {"claims", "settleClaim", "recover"} :
           proc' = [proc EXCEPT ![p].pc = pc, ![p].todo = @ \ {q},
                                ![p].entry = IF pc = "claims" THEN NONE ELSE q]
    BY <1>12 DEF ExamineClaim
  <2>2. proc'[p].pc = pc /\ proc'[p].entry = IF pc = "claims" THEN NONE ELSE q
    BY <1>1, <2>1 DEF ProcessRecord
  <2> QED BY <2>2
<1>13. CASE ReconcileDrift(p)
  <2>1. proc' = [proc EXCEPT ![p].pc = "rebase", ![p].onto = head] => Kept
    BY <1>1 DEF ProcessRecord
  <2> QED BY <1>2, <1>5, <1>6, <1>13, <2>1 DEF ReconcileDrift
<1> HIDE DEF Kept
<1>14. CASE \/ ClassifyAbandoned(p) \/ CannotClassify(p) \/ RecoverUnqueued(p) \/ StartupEnds(p)
            \/ CheckClaimed(p) \/ Reevaluate(p) \/ Crash(p)
  BY <1>2, <1>4, <1>6, <1>8, <1>9, <1>14 DEF ClassifyAbandoned, CannotClassify, RecoverUnqueued,
     StartupEnds, CheckClaimed, Reevaluate, Crash, Kept
<1>15. CASE QueueAndGitStep(p) /\ ~ProcessNext(p)
  <2>1. Kept
    BY <1>2, <1>5, <1>6, <1>8, <1>15 DEF QueueAndGitStep, RequeueNotIntegrated, ProcessRequeued,
       Remerge, RebaseBranch, VerifyReconciled, Integrate
  <2> QED BY <2>1 DEF Kept
<1>16. CASE RowStep(p) /\ ~ExamineClaim(p)
  <2>1. Kept
    BY <1>2, <1>4, <1>6, <1>7, <1>8, <1>9, <1>16 DEF RowStep, ConcludeIntegrated,
       ConcludeOtherwise, RecoveryTransaction, SettleClaim, Converge, VerifyIntegrated,
       SettleSuccess, SettleFailure, ReleaseExecution
  <2> QED BY <2>1 DEF Kept
<1> QED BY <1>10, <1>11, <1>12, <1>13, <1>14, <1>15, <1>16 DEF LocalStep, StoreStep

\* Whoever is at an entry under a live lease is past the recovery of it.
LEMMA LiveWork ==
    ASSUME ProcessorInv, NEW p \in Processes, NEW q \in Entries, WorksOn(p, q)
    PROVE  Decided(q) /\ (lease[q] = "LIVE" => Enqueued(q))
<1>1. /\ NONE \notin Entries /\ ProcessOK(p) /\ Types /\ RowsOK
      /\ proc[p].entry = q /\ proc[p].pc \in Steps
  BY IntegrationQueueAssumption DEF ProcessorInv, WorksOn, Types, ProcessRecord
<1>2. proc[p].pc \notin RestingSteps
  BY <1>1, AtWork
<1>3. CASE proc[p].pc \in WorkingSteps
  BY <1>1, <1>3, AtWork DEF RowsOK
<1>4. CASE proc[p].pc \in RecoverySteps \cup SettlingSteps
  BY <1>1, <1>4, AtWork DEF ProcessOK, Over, Decided
<1> QED BY <1>1, <1>2, <1>3, <1>4 DEF Steps

\* Under a live lease, work on an entry begins with claiming it.
LEMMA WorkBeginsWithAClaim ==
    ASSUME ProcessorInv, NEW p \in Processes, ProcessOK(p)', LocalStep(p) \/ StoreStep(p),
           NEW q \in Entries, WorksOn(p, q)', ~WorksOn(p, q), lease'[q] = "LIVE"
    PROVE  lease[q] = "LIVE" /\ entries[q].status = "PENDING" /\ entries'[q].status = "INTEGRATING"
<1>1. /\ Types /\ proc \in [Processes -> ProcessRecord] /\ proc[p] \in ProcessRecord
      /\ ProcessOK(p) /\ q # NONE /\ proc'[p].entry = q
      /\ lease \in [Entries -> {"NONE", "LIVE", "EXPIRED", "SETTLED"}]
  BY IntegrationQueueAssumption DEF ProcessorInv, Types, WorksOn
<1>2. proc'[p].pc \notin {"inspect", "classify", "requeue", "reclaim"} \cup RecoverySteps
                             \cup SettlingSteps
  BY <1>1 DEF ProcessOK
<1>3. lease[q] = "LIVE"
  <2>1. CASE SettleClaim(p) \/ ReleaseExecution(p)
    BY <1>1, <2>1 DEF SettleClaim, ReleaseExecution, claimVars
  <2>2. CASE ~SettleClaim(p) /\ ~ReleaseExecution(p)
    <3>1. lease' = lease
      BY <2>2, LocalStepsChangeNoRow
      DEF StoreStep, QueueAndGitStep, RequeueNotIntegrated, ProcessRequeued, ProcessNext, Remerge,
          RebaseBranch, VerifyReconciled, Integrate, RowStep, ExamineClaim, ConcludeIntegrated,
          ConcludeOtherwise, Converge, VerifyIntegrated, SettleSuccess, SettleFailure, rowVars,
          claimVars
    <3> QED BY <3>1
  <2> QED BY <2>1, <2>2
<1>4. proc[p].entry # q
  <2>1. ASSUME proc[p].entry = q
        PROVE  FALSE
    <3>1. proc[p].pc \in {"idle", "inspect", "classify", "requeue"}
      BY <2>1 DEF WorksOn
    <3>2. proc[p].pc # "idle"
      BY <1>1, <2>1, AtWork DEF RestingSteps
    <3> QED BY <1>1, <1>3, <2>1, <3>1, <3>2 DEF ProcessOK
  <2> QED BY <2>1
<1>5. ProcessNext(p)
  BY <1>1, <1>2, <1>4, EntriesAreKept DEF RecoverySteps, SettlingSteps
<1>6. PICK r \in Entries : ClaimNextIntegrationQueueEntry(r) /\ proc'[p].entry = r
  BY <1>1, <1>5 DEF ProcessNext, Idle, ProcessRecord
<1> QED BY <1>1, <1>3, <1>6 DEF ClaimNextIntegrationQueueEntry, IsNext, Types, QueueTypeOK, Entry

\* An entry in the queue is put back only when its lease has run out.
LEMMA OnlyDeadEntriesAreRequeued ==
    ASSUME ProcessorInv, Next, NEW q \in Entries, Enqueued(q), entries[q].status # "PENDING",
           lease[q] = "LIVE"
    PROVE  entries'[q].status # "PENDING"
<1>1. Types /\ entries \in [Entries -> Entry] /\ \A p \in Processes : ProcessOK(p)
  BY DEF ProcessorInv, Types, QueueTypeOK
<1>2. CASE Quiet(q)
  BY <1>2 DEF Quiet
<1>3. CASE StartAttempt(q) \/ CommitAttempt(q) \/ FailExecution(q)
  BY <1>3 DEF StartAttempt, CommitAttempt, FailExecution, queueVars
<1>4. CASE EnqueueAttempt(q)
  BY <1>4 DEF EnqueueAttempt, EnqueueIntegrationQueueEntry, Enqueued
<1>5. ASSUME NEW p \in Processes, proc[p].entry = q, RequeueNotIntegrated(p)
      PROVE  FALSE
  BY <1>1, <1>5 DEF RequeueNotIntegrated, At, ProcessOK
<1>6. ASSUME NEW p \in Processes, SettleSuccess(p) \/ SettleFailure(p)
      PROVE  entries'[q].status # "PENDING"
  BY <1>1, <1>6 DEF SettleSuccess, SettleFailure, CompleteIntegrationQueueEntry,
     FailIntegrationQueueEntry, LeaveIntegrating, Entry, queueVars
<1>7. ASSUME NEW p \in Processes, ConcludeIntegrated(p) \/ ConcludeOtherwise(p) \/ Converge(p)
      PROVE  entries' = entries
  BY <1>7 DEF ConcludeIntegrated, ConcludeOtherwise, Converge, queueVars
<1> QED BY <1>1, <1>2, <1>3, <1>4, <1>5, <1>6, <1>7, RowsEvolve DEF Moved

\* So a second worker never joins the first.
LEMMA WorkersStayAlone ==
    ASSUME ProcessorInv, Next, Grows, \A p \in Processes : ProcessOK(p)'
    PROVE  LiveEntriesAreClaimed' /\ LiveEntriesHaveOneWorker'
<1>1. Types /\ LiveEntriesAreClaimed /\ LiveEntriesHaveOneWorker
  BY DEF ProcessorInv
<1>2. ASSUME NEW p \in Processes, NEW q \in Entries, WorksOn(p, q), lease'[q] = "LIVE"
      PROVE  lease[q] = "LIVE" /\ Enqueued(q) /\ entries[q].status # "PENDING"
  <2>1. Decided(q) /\ (lease[q] = "LIVE" => Enqueued(q))
    BY <1>2, LiveWork
  <2> QED BY <1>1, <1>2, <2>1 DEF Grows, LiveEntriesAreClaimed
<1>3. ASSUME NEW p \in Processes, NEW q \in Entries, WorksOn(p, q)', ~WorksOn(p, q),
             lease'[q] = "LIVE"
      PROVE  /\ lease[q] = "LIVE"
             /\ entries[q].status = "PENDING" /\ entries'[q].status = "INTEGRATING"
  <2>1. proc'[p] # proc[p]
    BY <1>3 DEF WorksOn
  <2>2. LocalStep(p) \/ StoreStep(p)
    BY <1>1, <2>1, OneProcessMoves
  <2> QED BY <1>3, <2>2, WorkBeginsWithAClaim
<1>4. ASSUME NEW p \in Processes, NEW q \in Entries, WorksOn(p, q)', lease'[q] = "LIVE"
      PROVE  entries'[q].status # "PENDING"
  <2>1. CASE WorksOn(p, q)
    BY <1>2, <1>4, <2>1, OnlyDeadEntriesAreRequeued
  <2>2. CASE ~WorksOn(p, q)
    BY <1>3, <1>4, <2>2
  <2> QED BY <2>1, <2>2
<1>5. ASSUME NEW p \in Processes, NEW r \in Processes, NEW q \in Entries,
             WorksOn(p, q)', WorksOn(r, q)', lease'[q] = "LIVE", p # r
      PROVE  FALSE
  <2>1. WorksOn(p, q) \/ WorksOn(r, q)
    BY <1>1, <1>5, OneProcessMoves DEF WorksOn
  <2>2. CASE WorksOn(p, q) /\ WorksOn(r, q)
    BY <1>1, <1>2, <1>5, <2>2 DEF LiveEntriesHaveOneWorker
  <2>3. CASE WorksOn(p, q) /\ ~WorksOn(r, q)
    BY <1>2, <1>3, <1>5, <2>3
  <2>4. CASE ~WorksOn(p, q) /\ WorksOn(r, q)
    BY <1>2, <1>3, <1>5, <2>4
  <2> QED BY <2>1, <2>2, <2>3, <2>4
<1> QED BY <1>4, <1>5 DEF LiveEntriesAreClaimed, LiveEntriesHaveOneWorker, WorksOn

-----------------------------------------------------------------------------
(* Theorems *)

\* The invariant holds when nothing has been started.
LEMMA ProcessorInvInit == Init => ProcessorInv
<1> SUFFICES ASSUME Init PROVE ProcessorInv
  OBVIOUS
<1>1. Types
  BY TypesInit
<1>2. /\ \A q \in Entries : /\ entries[q].status = "ABSENT"
                            /\ taskStatus[q] = "READY" /\ executor[q] = "none"
                            /\ lease[q] = "NONE"
      /\ \A p \in Processes : proc[p].pc = "idle" /\ proc[p].entry = NONE
      /\ evidence = {}
  BY DEF Init, QueueInit, NoEntry, Idle
<1>3. \A p \in Processes : ProcessOK(p)
  BY <1>2 DEF ProcessOK, WorksOnAnEntry, WorkingSteps, RecoverySteps, SettlingSteps, RestingSteps
<1>4. VerdictsAgree /\ SettledEntriesEndTheirTask /\ DoneIsIntegrated
  BY <1>2 DEF VerdictsAgree, SettledEntriesEndTheirTask, DoneIsIntegrated, Settled,
              ActiveStatusesOfEntries, FinalStatusesOfEntries
<1>5. RowsOK /\ BranchesHoldTheirPatch /\ EvidenceOK
  BY <1>2 DEF RowsOK, BranchesHoldTheirPatch, EvidenceOK, Committed, Enqueued, WroteFailure
<1>6. LiveEntriesAreClaimed /\ LiveEntriesHaveOneWorker
  BY <1>2 DEF LiveEntriesAreClaimed, LiveEntriesHaveOneWorker, WorksOn
<1> QED BY <1>1, <1>3, <1>4, <1>5, <1>6 DEF ProcessorInv

\* Every step keeps it: the process that moves establishes what it relies on
\* next, and the others keep what they rely on.
LEMMA ProcessorInvStep == ProcessorInv /\ [Next]_vars => ProcessorInv'
<1> SUFFICES ASSUME ProcessorInv, [Next]_vars PROVE ProcessorInv'
  OBVIOUS
<1>1. CASE UNCHANGED vars
  <2> USE <1>1 DEF vars, queueVars, gitVars, rowVars, events, claimVars, bounds
  <2>1. Types'
    BY DEF ProcessorInv, Types, QueueTypeOK
  <2>2. \A p \in Processes : ProcessOK(p)'
    BY DEF ProcessorInv, ProcessOK, WorksOnAnEntry, Enqueued, Over, Decided, WroteFailure, InQueue,
           TaskRevision
  <2>3. EvidenceOK' /\ BranchesHoldTheirPatch' /\ RowsOK'
    BY DEF ProcessorInv, EvidenceOK, BranchesHoldTheirPatch, RowsOK, Committed, Decided, Enqueued,
           Over, WroteFailure
  <2>4. VerdictsAgree'
    BY DEF ProcessorInv, VerdictsAgree, WroteFailure, TaskRevision
  <2>5. SettledEntriesEndTheirTask' /\ DoneIsIntegrated'
    BY DEF ProcessorInv, SettledEntriesEndTheirTask, DoneIsIntegrated, Settled
  <2>6. LiveEntriesAreClaimed' /\ LiveEntriesHaveOneWorker'
    BY DEF ProcessorInv, LiveEntriesAreClaimed, LiveEntriesHaveOneWorker, WorksOn
  <2> QED BY <2>1, <2>2, <2>3, <2>4, <2>5, <2>6 DEF ProcessorInv
<1>2. CASE Next
  <2>1. Types /\ RowsOK /\ BranchesHoldTheirPatch /\ \A p \in Processes : ProcessOK(p)
    BY DEF ProcessorInv
  <2>2. Types'
    BY <1>2, <2>1, WhoMoves, SurroundingsAreTyped, LocalStepsAreTyped, QueueAndGitStepsAreTyped,
       RowStepsAreTyped DEF StoreStep
  <2>3. Grows
    BY <1>2, <2>1, StepsGrow
  <2>4. ASSUME NEW p \in Processes
        PROVE  ProcessOK(p)'
    <3>1. CASE proc'[p] = proc[p]
      BY <2>1, <2>2, <2>3, <3>1, OthersKeepWhatTheyRelyOn
    <3>2. CASE LocalStep(p) \/ StoreStep(p)
      BY <2>3, <3>2, ProcessesStayOK
    <3> QED BY <1>2, <2>1, <3>1, <3>2, OneProcessMoves
  <2> QED BY <1>2, <2>2, <2>3, <2>4, EvidenceStaysOK, BranchesKeepTheirPatch, RowsStayTogether,
             DoneStaysEarned, WorkersStayAlone DEF ProcessorInv
<1> QED BY <1>1, <1>2

\* So it always holds.
LEMMA ProcessorInvAlways == Spec => []ProcessorInv
BY ProcessorInvInit, ProcessorInvStep, PTL DEF Spec

\* DONE means integrated, whoever wrote it (settleSuccess or a startup's
\* finishIntegrated), and a COMPLETED entry has passed the checks on a tree with its
\* change, for any number of processes that crash, race and recover one another's
\* entries.
THEOREM DoneRestsOnIntegration == Spec => []DoneIsIntegrated
<1>1. ProcessorInv => DoneIsIntegrated
  BY DEF ProcessorInv
<1> QED BY <1>1, ProcessorInvAlways, PTL

\* What is about to be settled as a success was tested on a tree at least as
\* new as the HEAD the process saw (classifyAbandoned, processClaimed).
THEOREM SuccessIsFresh == Spec => []SuccessRestsOnFreshEvidence
<1>1. ProcessorInv => SuccessRestsOnFreshEvidence
  BY DEF ProcessorInv, ProcessOK, SuccessRestsOnFreshEvidence, At
<1> QED BY <1>1, ProcessorInvAlways, PTL

\* Unless its executor fails behind the entry, entry, attempt and task are settled
\* together (settleSuccess, settleFailure), and a startup raises a FAILED task only
\* when its commit is integrated (reconcileFailedTask).
THEOREM VerdictsAlwaysAgree == Spec => []VerdictsAgree
<1>1. ProcessorInv => VerdictsAgree
  BY DEF ProcessorInv
<1> QED BY <1>1, ProcessorInvAlways, PTL

\* Whatever fails, also the executor behind its entry, the task and the attempt of
\* a settled entry have ended (settleFailure's two cases, failExecution).
THEOREM SettledEntriesLeaveNothingWaiting == Spec => []SettledEntriesEndTheirTask
<1>1. ProcessorInv => SettledEntriesEndTheirTask
  BY DEF ProcessorInv
<1> QED BY <1>1, ProcessorInvAlways, PTL

\* Under a live lease a claimed entry has one worker (recoverAbandoned).
THEOREM LeaseKeepsOthersOut == Spec => []LiveEntriesHaveOneWorker
<1>1. ProcessorInv => LiveEntriesHaveOneWorker
  BY DEF ProcessorInv
<1> QED BY <1>1, ProcessorInvAlways, PTL

\* Whatever the processes do to the queue is one of its operations: what holds
\* of the queue under any calls holds of it under theirs.
THEOREM ProcessorImplementsQueue == Spec => QueueSpec
<1>1. Init => QueueInit
  BY DEF Init
<1>2. ProcessorInv /\ [Next]_vars => [QueueNext]_queueVars
  <2> SUFFICES ASSUME ProcessorInv, [Next]_vars, ~UNCHANGED queueVars
               PROVE  QueueNext
    OBVIOUS
  <2>1. Next
    BY DEF vars, queueVars
  <2>2. \A p \in Processes : ProcessOK(p)
    BY DEF ProcessorInv
  <2>3. ASSUME NEW q \in Entries, ExecutorMoves(q)
        PROVE  QueueNext
    <3>1. EnqueueAttempt(q)
      BY <2>3 DEF ExecutorMoves, StartAttempt, CommitAttempt, ReportEnqueued, EnqueueingFails,
         FailExecution, ReleaseFailed, ExecutorDies, LeaseExpires, RecoveryLeaseExpires
    <3> QED BY <3>1, IntegrationProcessorAssumption DEF EnqueueAttempt, QueueNext
  <2>4. ASSUME NEW p \in Processes, StoreStep(p)
        PROVE  QueueNext
    <3>1. CASE ProcessRequeued(p) \/ ProcessNext(p)
      BY <3>1 DEF ProcessRequeued, ProcessNext, QueueNext
    <3>2. CASE RequeueNotIntegrated(p) \/ SettleSuccess(p) \/ SettleFailure(p)
      <4>1. proc[p].entry \in Entries
        BY <2>2, <2>4, <3>2, WritersHaveAnEntry
        DEF RequeueNotIntegrated, SettleSuccess, SettleFailure, At
      <4> QED BY <3>2, <4>1 DEF RequeueNotIntegrated, SettleSuccess, SettleFailure, QueueNext
    <3>3. ~UNCHANGED queueVars
      OBVIOUS
    <3> QED BY <2>4, <3>1, <3>2, <3>3
            DEF StoreStep, QueueAndGitStep, RowStep, Remerge, RebaseBranch, VerifyReconciled,
                Integrate, ExamineClaim, ConcludeIntegrated, ConcludeOtherwise, SettleClaim,
                Converge, VerifyIntegrated, ReleaseExecution
  <2>5. ASSUME NEW p \in Processes, LocalStep(p)
        PROVE  FALSE
    BY <2>5, LocalStepsChangeNoRow DEF queueVars
  <2>6. ASSUME NEW x \in Patches, UserCommits(x)
        PROVE  FALSE
    BY <2>6 DEF UserCommits
  <2> QED BY <2>1, <2>3, <2>4, <2>5, <2>6, WhoMoves
<1> QED BY <1>1, <1>2, ProcessorInvAlways, PTL DEF Spec, QueueSpec

\* At most one entry is in integration, however many processes claim, recover
\* and requeue (claimNextIntegrationQueueEntry).
THEOREM ProcessorIsSerial == Spec => []AtMostOneIntegrating
BY ProcessorImplementsQueue, IntegrationIsSerial, PTL

\* An entry is overtaken by none, also when it is requeued after a crash.
THEOREM ProcessorIsFair == Spec => []FirstInFirstOut
BY ProcessorImplementsQueue, QueueIsFair, PTL

\* No process settles an entry a second time.
THEOREM ProcessorVerdictsStay == Spec => SettledEntriesAreFinal
BY ProcessorImplementsQueue, SettledEntriesStaySettled, PTL

-----------------------------------------------------------------------------
(* Patches land once *)

\* No patch of an attempt is in a revision twice.
Once(s) == \A i, j \in 1..Len(s) : s[i] = s[j] /\ s[i] # USER => i = j

\* Only what an executor has committed is in a revision.
Known(s) == \A q \in Entries : Contains(s, q) => Committed(q)

RevisionsOK ==
    /\ Once(head) /\ Known(head)
    /\ \A q \in Entries : /\ Once(base[q]) /\ Known(base[q])
                          /\ Once(branch[q]) /\ Known(branch[q])

\* A commit of a patch that is not there yet.
LEMMA OnceMore ==
    ASSUME NEW s \in Revisions, Once(s), NEW x \in Patches, x # USER => ~Contains(s, x)
    PROVE  /\ Once(Append(s, x))
           /\ \A q \in Entries : Contains(Append(s, x), q) => Contains(s, q) \/ q = x
<1> DEFINE t == Append(s, x)
<1>1. /\ Len(t) = Len(s) + 1 /\ Len(s) \in Nat
      /\ t[Len(t)] = x /\ \A i \in 1..Len(s) : t[i] = s[i]
  BY DEF Revisions
<1> HIDE DEF t
<1>2. Once(t)
  <2> SUFFICES ASSUME NEW i \in 1..Len(t), NEW j \in 1..Len(t), t[i] = t[j], t[i] # USER
               PROVE  i = j
    BY DEF Once
  <2>1. CASE i \in 1..Len(s) /\ j \in 1..Len(s)
    BY <1>1, <2>1 DEF Once
  <2>2. CASE i \in 1..Len(s) /\ j = Len(t)
    BY <1>1, <2>2 DEF Contains
  <2>3. CASE i = Len(t) /\ j \in 1..Len(s)
    BY <1>1, <2>3 DEF Contains
  <2> QED BY <1>1, <2>1, <2>2, <2>3
<1>3. \A q \in Entries : Contains(t, q) => Contains(s, q) \/ q = x
  BY <1>1 DEF Contains
<1> QED BY <1>2, <1>3 DEF t

\* An ancestor has no more than its descendant.
LEMMA AncestorsOnce ==
    ASSUME NEW s \in Revisions, NEW t \in Revisions, IsPrefix(s, t), Once(t), Known(t)
    PROVE  Once(s) /\ Known(s)
<1>1. Len(s) <= Len(t) /\ \A i \in 1..Len(s) : s[i] = t[i] /\ i \in 1..Len(t)
  BY DEF IsPrefix, Revisions
<1>2. Once(s)
  BY <1>1 DEF Once
<1> QED BY <1>2, PrefixKeeps DEF Known, Revisions

\* A step commits a patch only where it is missing.
LEMMA RevisionsStayOK ==
    ASSUME ProcessorInv, RevisionsOK, Next
    PROVE  RevisionsOK'
<1>1. /\ Types /\ RowsOK /\ \A p \in Processes : ProcessOK(p)
      /\ head \in Revisions /\ base \in [Entries -> Revisions] /\ branch \in [Entries -> Revisions]
  BY DEF ProcessorInv, Types
<1>2. Grows
  BY <1>1, StepsGrow
<1>3. \A q \in Entries : Committed(q) => Committed(q)'
  BY <1>2 DEF Grows
<1>4. CASE UNCHANGED <<head, base, branch>>
  BY <1>3, <1>4 DEF RevisionsOK, Once, Known
<1>5. ASSUME NEW q \in Entries, StartAttempt(q)
      PROVE  RevisionsOK'
  BY <1>1, <1>3, <1>5 DEF StartAttempt, RevisionsOK, Once, Known
<1>6. ASSUME NEW q \in Entries, CommitAttempt(q)
      PROVE  RevisionsOK'
  <2>1. ~Committed(q) /\ Committed(q)'
    BY <1>1, <1>6 DEF CommitAttempt, Committed, Types
  <2>2. base[q] \in Revisions /\ Once(base[q]) /\ Known(base[q]) /\ ~Contains(base[q], q)
    BY <1>1, <2>1 DEF RevisionsOK, Known
  <2>3. Once(TaskRevision(q))
    BY <2>2, OnceMore DEF TaskRevision, Patches
  <2>4. \A r \in Entries : Contains(TaskRevision(q), r) => Committed(r)'
    BY <1>3, <2>1, <2>2, OnceMore DEF TaskRevision, Patches, Known
  <2>5. /\ UNCHANGED <<head, base>> /\ branch' = [branch EXCEPT ![q] = TaskRevision(q)]
    BY <1>6 DEF CommitAttempt
  <2> QED BY <1>1, <1>3, <2>3, <2>4, <2>5 DEF RevisionsOK, Once, Known
<1>7. ASSUME NEW x \in Patches, UserCommits(x)
      PROVE  RevisionsOK'
  <2>1. head' = Append(head, x) /\ UNCHANGED <<base, branch>>
    BY <1>7 DEF UserCommits
  <2>2. x # USER => x \in Entries /\ ~Contains(head, x) /\ Committed(x)
    BY <1>7 DEF UserCommits, Patches, Committed
  <2>3. Once(head') /\ \A r \in Entries : Contains(head', r) => Committed(r)
    BY <1>1, <2>1, <2>2, OnceMore, IntegrationProcessorAssumption DEF RevisionsOK, Known
  <2> QED BY <1>3, <2>1, <2>3 DEF RevisionsOK, Once, Known
<1>8. ASSUME NEW p \in Processes, RebaseBranch(p)
      PROVE  RevisionsOK'
  <2> DEFINE q == proc[p].entry
             onto == proc[p].onto
             tip == Rebased(q, onto)
  <2>1. q \in Entries /\ Committed(q) /\ onto \in Revisions /\ IsPrefix(onto, head)
    <3>1. q \in Entries /\ Enqueued(q)
      BY <1>1, <1>8, AtWork DEF RebaseBranch, At, WorkingSteps
    <3>2. Committed(q)
      BY <1>1, <3>1 DEF RowsOK, Committed, Decided
    <3> QED BY <1>1, <1>8, <3>1, <3>2 DEF RebaseBranch, At, ProcessOK, Types, ProcessRecord
  <2>2. Once(onto) /\ Known(onto)
    BY <1>1, <2>1, AncestorsOnce DEF RevisionsOK
  <2>3. Once(tip) /\ Known(tip)
    <3>1. CASE tip = branch[q]
      BY <2>1, <3>1 DEF RevisionsOK
    <3>2. CASE tip = onto
      BY <2>2, <3>2
    <3>3. CASE tip = Append(onto, q) /\ ~Contains(onto, q)
      BY <2>1, <2>2, <3>3, OnceMore DEF Patches, Known
    <3> QED BY <3>1, <3>2, <3>3 DEF Rebased
  <2> HIDE DEF tip, q
  <2>4. UNCHANGED <<head, base>> /\ (branch' = branch \/ branch' = [branch EXCEPT ![q] = tip])
    BY <1>8 DEF RebaseBranch, q, tip
  <2> QED BY <1>1, <1>3, <2>1, <2>3, <2>4 DEF RevisionsOK, Once, Known
<1>9. ASSUME NEW p \in Processes, Remerge(p) \/ Integrate(p)
      PROVE  RevisionsOK'
  <2>1. proc[p].entry \in Entries
    BY <1>1, <1>9, AtWork DEF Remerge, Integrate, At, WorkingSteps, RecoverySteps
  <2>2. UNCHANGED <<base, branch>> /\ (head' = head \/ head' = branch[proc[p].entry])
    BY <1>9 DEF Remerge, Integrate
  <2> QED BY <1>3, <2>1, <2>2 DEF RevisionsOK, Once, Known
<1> QED BY <1>4, <1>5, <1>6, <1>7, <1>8, <1>9, WhoWrites

\* However often an entry is requeued, rebased and merged, and by whichever
\* process, its patch is on the integration branch at most once (rebase drops a
\* patch that is there, the merge is a fast-forward).
THEOREM EachPatchLandsOnce == Spec => []PatchesLandOnce
<1>1. Init => RevisionsOK
  BY DEF Init, RevisionsOK, Once, Known, Contains
<1>2. ProcessorInv /\ RevisionsOK /\ [Next]_vars => RevisionsOK'
  <2>1. CASE UNCHANGED vars
    BY <2>1 DEF vars, gitVars, RevisionsOK, Once, Known, Committed
  <2> QED BY <2>1, RevisionsStayOK
<1>3. RevisionsOK => PatchesLandOnce
  BY DEF RevisionsOK, Once, PatchesLandOnce
<1> QED BY <1>1, <1>2, <1>3, ProcessorInvAlways, PTL DEF Spec

-----------------------------------------------------------------------------
(* Only verified revisions are merged *)

\* Between the verification of a branch and its merge another process could
\* rebase it: the theorem is about one process at a time.
Alone == \A p, q \in Processes : p = q

\* A committed branch that is not verified was rebased by the processor, because
\* HEAD had moved on from its base; and whoever is about to merge has verified it.
MergesOK ==
    /\ userCommits \in Nat
    /\ \A q \in Entries :
          /\ IsPrefix(base[q], head)
          /\ Committed(q) /\ branch[q] \notin verified =>
                Enqueued(q) /\ Len(base[q]) < Len(head)
    /\ \A p \in Processes :
          /\ proc[p].pc = "rebase" => Len(base[proc[p].entry]) < Len(head)
          /\ proc[p].pc = "merge" => branch[proc[p].entry] \in verified

\* HEAD is at the base of a branch or has grown beyond it.
LEMMA BeyondTheBase ==
    ASSUME NEW s \in Revisions, NEW t \in Revisions, IsPrefix(s, t), s # t
    PROVE  Len(s) < Len(t)
<1>1. Len(s) <= Len(t) /\ \A i \in 1..Len(s) : s[i] = t[i]
  BY DEF IsPrefix, Revisions
<1>2. Len(s) # Len(t)
  BY <1>1, SeqEqual DEF Revisions
<1> QED BY <1>1, <1>2 DEF Revisions

\* The steps of a process that lead to a merge or a rebase.
LEMMA WhoComesToMerge ==
    ASSUME Types, NEW p \in Processes, ProcessOK(p), LocalStep(p) \/ StoreStep(p),
           ~ReconcileDrift(p), ~VerifyReconciled(p), ~Reevaluate(p)
    PROVE  proc'[p].pc \notin {"rebase", "merge"}
<1>1. proc \in [Processes -> ProcessRecord] /\ proc[p] \in ProcessRecord
      /\ head \in Revisions /\ proc[p].result \in Revisions /\ proc[p].onto \in Revisions
  BY DEF Types, ProcessRecord
<1> USE DEF Steps, WorkingSteps, RecoverySteps, SettlingSteps, RestingSteps, At
<1>2. CASE StartCommand(p) \/ InspectHead(p) \/ ListClaims(p) \/ ListFailed(p) \/ JudgeFailed(p)
  <2>1. CASE StartCommand(p)
    BY <1>1, <2>1 DEF StartCommand, ProcessRecord
  <2>2. CASE InspectHead(p) \/ ListClaims(p) \/ ListFailed(p)
    BY <1>1, <2>2 DEF InspectHead, ListClaims, ListFailed, ProcessRecord
  <2>3. CASE JudgeFailed(p)
    BY <1>1, <2>3 DEF JudgeFailed, ProcessRecord
  <2> QED BY <1>2, <2>1, <2>2, <2>3
<1>3. CASE StartupEnds(p) \/ Crash(p) \/ ReadTask(p)
  BY <1>1, <1>3 DEF StartupEnds, Crash, ReadTask, Idle, ProcessRecord
<1>4. CASE ClassifyAbandoned(p) \/ CannotClassify(p) \/ RecoverUnqueued(p) \/ CheckClaimed(p)
  BY <1>4, Control DEF ClassifyAbandoned, Classified, CannotClassify, RecoverUnqueued, CheckClaimed
<1>5. CASE RequeueNotIntegrated(p) \/ ProcessRequeued(p) \/ Remerge(p)
  BY <1>5, Control DEF RequeueNotIntegrated, ProcessRequeued, Remerge
<1>6. CASE ProcessNext(p)
  BY <1>1, <1>6 DEF ProcessNext, Idle, ProcessRecord
<1>7. CASE RebaseBranch(p)
  <2>1. proc[p].entry \in Entries /\ Enqueued(proc[p].entry)
    BY <1>1, <1>7, AtWork DEF RebaseBranch
  <2> QED BY <1>1, <1>7, <2>1, Control DEF RebaseBranch
<1>8. CASE Integrate(p)
  <2>1. branch[proc[p].entry] \in Revisions
    BY <1>1, <1>8, AtWork DEF Integrate, Types
  <2> QED BY <1>1, <1>8, <2>1, Control DEF Integrate
<1>9. CASE ExamineClaim(p)
  BY <1>1, <1>9 DEF ExamineClaim, ProcessRecord
<1>10. CASE ConcludeIntegrated(p) \/ ConcludeOtherwise(p)
  BY <1>1, <1>10, Control DEF ConcludeIntegrated, ConcludeOtherwise, RecoveryTransaction, Idle
<1>11. CASE SettleClaim(p) \/ Converge(p) \/ VerifyIntegrated(p)
  BY <1>11, Control DEF SettleClaim, Converge, VerifyIntegrated
<1>12. CASE SettleSuccess(p) \/ SettleFailure(p) \/ ReleaseExecution(p)
  BY <1>12, Control DEF SettleSuccess, SettleFailure, ReleaseExecution
<1> QED BY <1>2, <1>3, <1>4, <1>5, <1>6, <1>7, <1>8, <1>9, <1>10, <1>11, <1>12
        DEF LocalStep, StoreStep, QueueAndGitStep, RowStep

\* Bases stay behind HEAD, and only a rebase leaves a branch without verification.
LEMMA BranchesStayVerified ==
    ASSUME ProcessorInv, MergesOK, Next
    PROVE  \A q \in Entries :
              /\ IsPrefix(base[q], head)'
              /\ (Committed(q) /\ branch[q] \notin verified =>
                     Enqueued(q) /\ Len(base[q]) < Len(head))'
<1>1. /\ Types /\ RowsOK /\ \A p \in Processes : ProcessOK(p)
      /\ head \in Revisions /\ base \in [Entries -> Revisions] /\ branch \in [Entries -> Revisions]
  BY DEF ProcessorInv, Types
<1>2. Types'
  BY ProcessorInvStep DEF ProcessorInv
<1>3. Grows
  BY <1>1, StepsGrow
<1>4. IsPrefix(head, head') /\ head' \in Revisions /\ Len(head) <= Len(head')
  BY <1>2, <1>3 DEF Grows, Types, IsPrefix, Revisions
<1>5. verified \subseteq verified'
  BY WhoWrites
<1> SUFFICES ASSUME NEW q \in Entries
             PROVE  /\ IsPrefix(base'[q], head')
                    /\ Committed(q)' /\ branch'[q] \notin verified' =>
                          Enqueued(q)' /\ Len(base'[q]) < Len(head')
  OBVIOUS
<1>6. CASE base'[q] = base[q] /\ branch'[q] = branch[q] /\ ~CommitAttempt(q)
  <2>1. IsPrefix(base[q], head')
    BY <1>1, <1>4, PrefixTransitive DEF MergesOK, Revisions
  <2>2. Committed(q)' => Committed(q)
    BY <1>6, WhoCommits
  <2>3. Enqueued(q) => Enqueued(q)'
    BY <1>3 DEF Grows
  <2> QED BY <1>1, <1>4, <1>5, <1>6, <2>1, <2>2, <2>3 DEF MergesOK, Revisions
<1>7. CASE StartAttempt(q)
  <2>1. base'[q] = head /\ head' = head /\ ~Committed(q)'
    BY <1>1, <1>7 DEF StartAttempt, Committed, Types
  <2> QED BY <1>1, <2>1, PrefixReflexive DEF Revisions
<1>8. CASE CommitAttempt(q)
  <2>1. base' = base /\ head' = head /\ branch'[q] \in verified'
    BY <1>1, <1>8 DEF CommitAttempt
  <2> QED BY <2>1 DEF MergesOK
<1>9. ASSUME NEW p \in Processes, RebaseBranch(p), proc[p].entry = q
      PROVE  IsPrefix(base'[q], head') /\ Enqueued(q)' /\ Len(base'[q]) < Len(head')
  <2>1. Enqueued(q)'
    BY <1>1, <1>3, <1>9, AtWork DEF RebaseBranch, At, WorkingSteps, Grows
  <2>2. base' = base /\ head' = head /\ Len(base[q]) < Len(head)
    BY <1>9 DEF RebaseBranch, At, MergesOK
  <2> QED BY <2>1, <2>2 DEF MergesOK
<1>10. \/ base'[q] = base[q] /\ branch'[q] = branch[q] /\ ~CommitAttempt(q)
       \/ StartAttempt(q) \/ CommitAttempt(q)
       \/ \E p \in Processes : RebaseBranch(p) /\ proc[p].entry = q
  <2>1. ASSUME NEW r \in Entries, StartAttempt(r) \/ CommitAttempt(r), r # q
        PROVE  base'[q] = base[q] /\ branch'[q] = branch[q]
    BY <1>1, <2>1 DEF StartAttempt, CommitAttempt
  <2>2. ASSUME NEW p \in Processes, RebaseBranch(p), proc[p].entry # q
        PROVE  base'[q] = base[q] /\ branch'[q] = branch[q]
    BY <1>1, <2>2 DEF RebaseBranch
  <2> QED BY <2>1, <2>2, WhoWrites
<1> QED BY <1>6, <1>7, <1>8, <1>9, <1>10

\* One process verifies before it merges.
LEMMA MergesStayOK ==
    ASSUME ProcessorInv, MergesOK, Alone, Next
    PROVE  MergesOK'
<1>1. /\ Types /\ RowsOK /\ \A p \in Processes : ProcessOK(p)
      /\ head \in Revisions /\ base \in [Entries -> Revisions] /\ branch \in [Entries -> Revisions]
  BY DEF ProcessorInv, Types
<1>2. Types'
  BY ProcessorInvStep DEF ProcessorInv
<1>3. Len(head) \in Nat /\ Len(head') \in Nat /\ Len(head) <= Len(head')
  BY <1>1, <1>2, StepsGrow DEF Grows, Types, IsPrefix, Revisions
<1>4. verified \subseteq verified'
  BY WhoWrites
<1>5. ASSUME NEW p \in Processes, NEW q, proc[p].entry = q
      PROVE  /\ proc'[p].pc = "rebase" => Len(base'[proc'[p].entry]) < Len(head')
             /\ proc'[p].pc = "merge" => branch'[proc'[p].entry] \in verified'
  <2>1. CASE ReconcileDrift(p)
    <3>1. q \in Entries /\ Committed(q) /\ proc[p] \in ProcessRecord
      BY <1>1, <1>5, <2>1, AtWork
      DEF ReconcileDrift, At, WorkingSteps, RowsOK, Decided, Committed, Types
    <3>2. /\ UNCHANGED <<head, base, branch, verified>>
          /\ proc'[p].pc \in {"rebase", "merge"} => proc'[p].entry = q
          /\ proc'[p].pc = "rebase" => head # base[q]
          /\ proc'[p].pc = "merge" => head = base[q]
      BY <1>1, <1>5, <2>1, <3>1, Control
      DEF ReconcileDrift, gitVars, Types, ProcessRecord, Steps, WorkingSteps
    <3>3. proc'[p].pc = "rebase" => Len(base[q]) < Len(head)
      BY <1>1, <3>1, <3>2, BeyondTheBase DEF MergesOK
    <3>4. proc'[p].pc = "merge" => branch[q] \in verified
      BY <1>1, <1>3, <3>1, <3>2 DEF MergesOK
    <3> QED BY <3>2, <3>3, <3>4
  <2>2. CASE VerifyReconciled(p)
    BY <1>1, <1>5, <2>2, Control DEF VerifyReconciled, Steps, WorkingSteps
  <2>3. CASE Reevaluate(p)
    BY <1>1, <2>3, Control DEF Reevaluate, Steps, WorkingSteps
  <2>4. CASE (LocalStep(p) \/ StoreStep(p)) /\ ~ReconcileDrift(p) /\ ~VerifyReconciled(p)
             /\ ~Reevaluate(p)
    BY <1>1, <2>4, WhoComesToMerge
  <2>5. CASE proc' = proc /\ proc[p].pc \in {"rebase", "merge"}
    <3>1. q \in Entries /\ Decided(q) /\ Committed(q)
      BY <1>1, <1>5, <2>5, AtWork DEF WorkingSteps, RowsOK, Decided, Committed
    <3>2. base'[q] = base[q]
      BY <1>1, <3>1, StepsGrow DEF Grows
    <3>3. branch'[q] = branch[q]
      <4>1. ASSUME NEW r \in Entries, StartAttempt(r) \/ CommitAttempt(r)
            PROVE  branch'[q] = branch[q]
        BY <1>1, <3>1, <4>1 DEF StartAttempt, CommitAttempt, Committed
      <4>2. ASSUME NEW r \in Processes
            PROVE  ~RebaseBranch(r)
        <5>1. RebaseBranch(r) => LocalStep(r) \/ StoreStep(r)
          BY DEF StoreStep, QueueAndGitStep
        <5>2. RebaseBranch(r) => ~ReconcileDrift(r) /\ ~VerifyReconciled(r) /\ ~Reevaluate(r)
          BY DEF RebaseBranch, ReconcileDrift, VerifyReconciled, Reevaluate, At
        <5> QED BY <1>1, <2>5, <5>1, <5>2, WhoComesToMerge DEF RebaseBranch, At
      <4> QED BY <4>1, <4>2, WhoWrites
    <3> QED BY <1>1, <1>3, <1>4, <1>5, <2>5, <3>1, <3>2, <3>3 DEF MergesOK, Revisions
  <2> QED BY <1>1, <2>1, <2>2, <2>3, <2>4, <2>5, OneProcessMoves DEF Alone
<1>6. userCommits' \in Nat
  BY WhoWrites DEF MergesOK, UserCommits
<1> QED BY <1>5, <1>6, BranchesStayVerified DEF MergesOK

\* A single process merges only what was verified: after a crash between a rebase
\* and its verification, too, HEAD is not at the base any more, so the branch is
\* rebased and verified again before it is merged (reconcile, processClaimed).
THEOREM OneProcessMergesVerifiedWork == Alone /\ Spec => OnlyVerifiedRevisionsAreMerged
<1> SUFFICES ASSUME Alone PROVE Spec => OnlyVerifiedRevisionsAreMerged
  OBVIOUS
<1>1. Init => MergesOK
  BY DEF Init, MergesOK, IsPrefix, Idle, Committed
<1>2. ProcessorInv /\ MergesOK /\ [Next]_vars => MergesOK'
  <2>1. CASE UNCHANGED vars
    BY <2>1 DEF vars, queueVars, gitVars, bounds, MergesOK, Enqueued, Committed
  <2> QED BY <2>1, MergesStayOK
<1>3. ProcessorInv /\ MergesOK /\ [Next]_vars
         => [head' # head /\ userCommits' = userCommits => head' \in verified]_vars
  <2> SUFFICES ASSUME ProcessorInv, MergesOK, Next, head' # head, userCommits' = userCommits
               PROVE  head' \in verified
    BY DEF vars
  <2>1. ~\E x \in Patches : UserCommits(x)
    BY DEF MergesOK, UserCommits
  <2>2. PICK p \in Processes : Remerge(p) \/ Integrate(p)
    BY <2>1, WhoWrites
  <2>3. CASE Integrate(p)
    BY <2>3 DEF Integrate, At, MergesOK
  <2>4. CASE Remerge(p)
    <3>1. proc[p].entry \in Entries /\ ~Enqueued(proc[p].entry) /\ Committed(proc[p].entry)
      BY <2>4 DEF Remerge, At, ProcessorInv, ProcessOK, WorksOnAnEntry, RecoverySteps, RestingSteps,
                  Over, Committed
    <3> QED BY <2>4, <3>1 DEF Remerge, MergesOK
  <2> QED BY <2>2, <2>3, <2>4
<1> QED BY <1>1, <1>2, <1>3, ProcessorInvAlways, PTL DEF Spec, OnlyVerifiedRevisionsAreMerged
=============================================================================
