-------------------------- MODULE IntegrationQueue --------------------------
(***************************************************************************)
(* The integration_queue table of the SQLite runner store.  Each operation *)
(* is one statement or one BEGIN IMMEDIATE transaction and is one action;  *)
(* an operation that throws (its compare-and-swap found another status)    *)
(* changes nothing.  The module is open: any process may call any          *)
(* operation on any entry at any time.                                     *)
(***************************************************************************)
EXTENDS Naturals, FiniteSets

CONSTANTS Entries,      \* entry ids; each is a fresh UUID
          Attempts,
          MaxSequence,  \* bound on the AUTOINCREMENT sequence
          NONE

ASSUME IntegrationQueueAssumption ==
    /\ MaxSequence \in Nat
    /\ NONE \notin Entries \cup Attempts

VARIABLES entries,      \* integration_queue, one row per entry id
          lastSequence  \* the AUTOINCREMENT counter

queueVars == <<entries, lastSequence>>

ActiveStatusesOfEntries == {"PENDING", "INTEGRATING"}
FinalStatusesOfEntries == {"COMPLETED", "FAILED"}

\* "ABSENT": no row with this id has been inserted yet.
Entry == [status   : {"ABSENT"} \cup ActiveStatusesOfEntries \cup FinalStatusesOfEntries,
          attempt  : Attempts \cup {NONE},
          sequence : Nat]

NoEntry == [status |-> "ABSENT", attempt |-> NONE, sequence |-> 0]

QueueTypeOK ==
    /\ entries \in [Entries -> Entry]
    /\ lastSequence \in Nat

With(s) == {q \in Entries : entries[q].status = s}

Settled(q) == entries[q].status \in FinalStatusesOfEntries

QueueInit ==
    /\ entries = [q \in Entries |-> NoEntry]
    /\ lastSequence = 0

-----------------------------------------------------------------------------
(* Operations *)

\* The partial unique index: at most one active entry per attempt.
HasActiveEntry(a) ==
    \E q \in Entries : /\ entries[q].status \in ActiveStatusesOfEntries
                       /\ entries[q].attempt = a

EnqueueIntegrationQueueEntry(q, a) ==
    /\ entries[q].status = "ABSENT"
    /\ ~HasActiveEntry(a)
    /\ lastSequence < MaxSequence
    /\ lastSequence' = lastSequence + 1
    /\ entries' = [entries EXCEPT ![q] =
                     [status |-> "PENDING", attempt |-> a,
                      sequence |-> lastSequence + 1]]

\* Mutant: an entry that is INTEGRATING does not block the queue.
IsNextInParallel(q) ==
    /\ entries[q].status = "PENDING"
    /\ \A r \in With("PENDING") : entries[q].sequence <= entries[r].sequence

\* Mutant: the entries are not ordered by their sequence.
IsNextInAnyOrder(q) == entries[q].status = "PENDING" /\ With("INTEGRATING") = {}

\* Whether q is the entry that claimNextIntegrationQueueEntry would claim.
IsNext(q) ==
    /\ With("INTEGRATING") = {}
    /\ entries[q].status = "PENDING"
    /\ \A r \in With("PENDING") : entries[q].sequence <= entries[r].sequence

ClaimNextIntegrationQueueEntry(q) ==
    /\ IsNext(q)
    /\ entries' = [entries EXCEPT ![q].status = "INTEGRATING"]
    /\ UNCHANGED lastSequence

\* Mutant: an unconditional update.
LeaveIntegratingFromAnywhere(q, s) ==
    /\ entries[q].status # "ABSENT"
    /\ entries' = [entries EXCEPT ![q].status = s]
    /\ UNCHANGED lastSequence

\* The compare-and-swap of the complete, fail and requeue operations.
LeaveIntegrating(q, s) ==
    /\ entries[q].status = "INTEGRATING"
    /\ entries' = [entries EXCEPT ![q].status = s]
    /\ UNCHANGED lastSequence

CompleteIntegrationQueueEntry(q) == LeaveIntegrating(q, "COMPLETED")

FailIntegrationQueueEntry(q) == LeaveIntegrating(q, "FAILED")

RequeueIntegrationQueueEntry(q) == LeaveIntegrating(q, "PENDING")

QueueNext ==
    \E q \in Entries :
       \/ \E a \in Attempts : EnqueueIntegrationQueueEntry(q, a)
       \/ ClaimNextIntegrationQueueEntry(q)
       \/ CompleteIntegrationQueueEntry(q)
       \/ FailIntegrationQueueEntry(q)
       \/ RequeueIntegrationQueueEntry(q)

QueueSpec == QueueInit /\ [][QueueNext]_queueVars

-----------------------------------------------------------------------------
(* Properties *)

\* Integration is serialised: whatever the processes do, at most one entry is
\* INTEGRATING (claimNextIntegrationQueueEntry).
AtMostOneIntegrating ==
    \A q, r \in With("INTEGRATING") : q = r

\* An attempt waits in the queue at most once (idx_integration_queue_active_identity).
AttemptsQueueOnce ==
    \A q, r \in Entries :
       /\ entries[q].status \in ActiveStatusesOfEntries
       /\ entries[r].status \in ActiveStatusesOfEntries
       /\ entries[q].attempt = entries[r].attempt
       => q = r

\* First in, first out, across crashes and requeues: an entry that has ever
\* been claimed and not requeued since has only settled entries before it.
\* In particular a requeued entry is never overtaken.
FirstInFirstOut ==
    \A q, r \in Entries :
       /\ entries[q].status \notin {"ABSENT", "PENDING"}
       /\ entries[r].status # "ABSENT"
       /\ entries[r].sequence < entries[q].sequence
       => Settled(r)

\* A settled entry is never integrated again, nor settled with another verdict.
SettledEntriesAreFinal ==
    [][\A q \in Entries : Settled(q) => entries'[q] = entries[q]]_queueVars
=============================================================================
