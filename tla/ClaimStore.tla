----------------------------- MODULE ClaimStore -----------------------------
(***************************************************************************)
(* The execution-claim, lease and resource-lock tables of the SQLite       *)
(* runner store.  Every operation of the store on them is one action: each *)
(* is a single statement or one BEGIN IMMEDIATE transaction, so no other   *)
(* connection sees it half done.  An operation that returns false or a     *)
(* refusal changes nothing and is no action.                               *)
(*                                                                         *)
(* The module is open: any process may call any operation, at any time,    *)
(* with any clock reading it took earlier ("at" is at most "now", because  *)
(* callers read the clock before they wait for the database).  What holds  *)
(* here holds whatever the callers do.                                     *)
(***************************************************************************)
EXTENDS TaskLifecycle, Naturals, FiniteSets

CONSTANTS Tasks,
          Executions,      \* execution ids; each is a fresh UUID
          Owners,          \* recovery owner ids; each is a fresh UUID
          Resources,
          Needs,           \* the resources a task's definition asks for
          MaxParallelism,
          LeaseDuration,
          RecoveryLeaseDuration,
          MaxTime,         \* bound on the clock
          WrittenStatuses, \* the task statuses callers write
          Verdicts,        \* the terminal claim statuses callers settle with
          NONE

SettledStatuses == {"COMPLETED", "FAILED", "CANCELLED", "RECOVERY_REQUIRED"}

ASSUME ClaimStoreAssumption ==
    /\ Needs \in [Tasks -> SUBSET Resources]
    /\ MaxParallelism \in Nat \ {0}
    /\ LeaseDuration \in Nat \ {0}
    /\ RecoveryLeaseDuration \in Nat \ {0}
    /\ MaxTime \in Nat
    /\ WrittenStatuses \subseteq TaskStatuses
    /\ Verdicts \subseteq SettledStatuses
    /\ NONE \notin Tasks \cup Executions \cup Owners

VARIABLES now,         \* the machine's clock
          taskStatus,  \* tasks.status
          claims,      \* execution_claims, one row per execution id
          lock         \* resource_locks: the execution that holds a resource

storeVars == <<now, taskStatus, claims, lock>>

\* "ABSENT": no row with this id has been inserted yet.
Claim == [status        : {"ABSENT", "ACTIVE"} \cup SettledStatuses,
          task          : Tasks \cup {NONE},
          leaseUntil    : Nat,
          owner         : Owners \cup {NONE},
          recoveryUntil : Nat]

NoClaim == [status |-> "ABSENT", task |-> NONE, leaseUntil |-> 0,
            owner |-> NONE, recoveryUntil |-> 0]

ActiveClaims == {e \in Executions : claims[e].status = "ACTIVE"}

ActiveClaimsOf(t) == {e \in ActiveClaims : claims[e].task = t}

StoreTypeOK ==
    /\ now \in Nat
    /\ taskStatus \in [Tasks -> TaskStatuses]
    /\ claims \in [Executions -> Claim]
    /\ lock \in [Resources -> Executions \cup {NONE}]

StoreInit ==
    /\ now = 0
    /\ taskStatus \in [Tasks -> WrittenStatuses]
    /\ claims = [e \in Executions |-> NoClaim]
    /\ lock = [r \in Resources |-> NONE]

-----------------------------------------------------------------------------
(* Operations *)

\* Mutant: other claims of the task are not looked for.
ClaimableTwice(e, t) ==
    /\ claims[e].status = "ABSENT"
    /\ taskStatus[t] = "READY"
    /\ Cardinality(ActiveClaims) < MaxParallelism
    /\ \A r \in Needs[t] : lock[r] = NONE

\* Mutant: the capacity check is off by one.
ClaimableOverCapacity(e, t) ==
    /\ claims[e].status = "ABSENT"
    /\ taskStatus[t] = "READY"
    /\ ActiveClaimsOf(t) = {}
    /\ Cardinality(ActiveClaims) <= MaxParallelism
    /\ \A r \in Needs[t] : lock[r] = NONE

\* Mutant: the locks are not checked.
ClaimableWithoutLocks(e, t) ==
    /\ claims[e].status = "ABSENT"
    /\ taskStatus[t] = "READY"
    /\ ActiveClaimsOf(t) = {}
    /\ Cardinality(ActiveClaims) < MaxParallelism

\* The conditions claimTaskExecution checks in the inserting transaction:
\* readiness, the absence of another claim, capacity, and every lock.
Claimable(e, t) ==
    /\ claims[e].status = "ABSENT"
    /\ taskStatus[t] = "READY"
    /\ ActiveClaimsOf(t) = {}
    /\ Cardinality(ActiveClaims) < MaxParallelism
    /\ \A r \in Needs[t] : lock[r] = NONE

\* claimTaskExecution, the "claimed" result: inserts the row and the locks.
ClaimTaskExecution(e, t, at) ==
    /\ Claimable(e, t)
    /\ claims' = [claims EXCEPT ![e] =
                    [status |-> "ACTIVE", task |-> t,
                     leaseUntil |-> at + LeaseDuration,
                     owner |-> NONE, recoveryUntil |-> 0]]
    /\ lock' = [r \in Resources |-> IF r \in Needs[t] THEN e ELSE lock[r]]
    /\ UNCHANGED <<now, taskStatus>>

\* Mutant: the renewal does not ask for ACTIVE.
RenewableAfterSettlement(e) == claims[e].status # "ABSENT" /\ claims[e].owner = NONE

\* Whether renewTaskExecution changes the row.  It does not ask whether the
\* lease has expired: a late holder may revive a lease nobody recovered.
Renewable(e) == claims[e].status = "ACTIVE" /\ claims[e].owner = NONE

RenewTaskExecution(e, at) ==
    /\ Renewable(e)
    /\ claims' = [claims EXCEPT ![e].leaseUntil = at + LeaseDuration]
    /\ UNCHANGED <<now, taskStatus, lock>>

\* Mutant: another process' recovery lease is not respected.
RecoverableTwice(e, at) ==
    /\ claims[e].status = "ACTIVE"
    /\ claims[e].leaseUntil <= at

\* Mutant: the execution lease is not looked at.
RecoverableEarly(e, at) ==
    /\ claims[e].status = "ACTIVE"
    /\ claims[e].owner = NONE \/ claims[e].recoveryUntil <= at

\* Whether claimExpiredExecutionRecovery wins the compare-and-swap.
Recoverable(e, at) ==
    /\ claims[e].status = "ACTIVE"
    /\ claims[e].leaseUntil <= at
    /\ claims[e].owner = NONE \/ claims[e].recoveryUntil <= at

ClaimExpiredExecutionRecovery(e, o, at) ==
    /\ Recoverable(e, at)
    /\ claims' = [claims EXCEPT
                    ![e].owner = o,
                    ![e].recoveryUntil = at + RecoveryLeaseDuration]
    /\ UNCHANGED <<now, taskStatus, lock>>

\* assertRecoveredExecutionOwner.
OwnsRecovery(e, o, at) ==
    /\ claims[e].status = "ACTIVE"
    /\ claims[e].owner = o
    /\ claims[e].recoveryUntil > at

\* Mutant: the task's status is stored as the claim's.
SettleWithTheTaskStatus(e, s) ==
    /\ claims' = [claims EXCEPT ![e].status = IF s = "COMPLETED" THEN "DONE" ELSE s]
    /\ lock' = [r \in Resources |-> IF lock[r] = e THEN NONE ELSE lock[r]]
    /\ UNCHANGED <<now, taskStatus>>

\* Mutant: the locks are not deleted.
SettleKeepingLocks(e, s) ==
    /\ claims' = [claims EXCEPT ![e].status = s]
    /\ UNCHANGED <<now, taskStatus, lock>>

\* Both release operations settle the row and delete the execution's locks.
Settle(e, s) ==
    /\ claims' = [claims EXCEPT ![e].status = s]
    /\ lock' = [r \in Resources |-> IF lock[r] = e THEN NONE ELSE lock[r]]
    /\ UNCHANGED <<now, taskStatus>>

\* Mutant: release does not ask whether the claim is still ACTIVE.
ReleasableTwice(e, at) ==
    claims[e].status # "ABSENT" /\ claims[e].owner = NONE /\ claims[e].leaseUntil > at

Releasable(e, at) == Renewable(e) /\ claims[e].leaseUntil > at

ReleaseTaskExecution(e, s, at) == Releasable(e, at) /\ Settle(e, s)

ReleaseRecoveredTaskExecution(e, o, s, at) ==
    OwnsRecovery(e, o, at) /\ Settle(e, s)

\* setTaskStatus: an unconditional UPDATE.
SetTaskStatus(t, s) ==
    /\ taskStatus' = [taskStatus EXCEPT ![t] = s]
    /\ UNCHANGED <<now, claims, lock>>

\* transitionTaskStatusFrom: a compare-and-swap on the status.
TransitionTaskStatusFrom(t, from, to) ==
    taskStatus[t] = from /\ SetTaskStatus(t, to)

Tick == /\ now < MaxTime
        /\ now' = now + 1
        /\ UNCHANGED <<taskStatus, claims, lock>>

StoreNext ==
    \/ \E e \in Executions, at \in 0..now :
          \/ \E t \in Tasks : ClaimTaskExecution(e, t, at)
          \/ RenewTaskExecution(e, at)
          \/ \E o \in Owners : ClaimExpiredExecutionRecovery(e, o, at)
          \/ \E s \in Verdicts : ReleaseTaskExecution(e, s, at)
          \/ \E o \in Owners, s \in Verdicts :
                ReleaseRecoveredTaskExecution(e, o, s, at)
    \/ \E t \in Tasks, s \in WrittenStatuses : SetTaskStatus(t, s)
    \/ \E t \in Tasks, from, to \in WrittenStatuses :
          TransitionTaskStatusFrom(t, from, to)
    \/ Tick

StoreSpec == StoreInit /\ [][StoreNext]_storeVars

-----------------------------------------------------------------------------
(* Properties *)

\* However the processes race, a task has at most one ACTIVE claim
\* (claimTaskExecution; the partial unique index on execution_claims).
OneActiveClaimPerTask ==
    \A e, f \in ActiveClaims : claims[e].task = claims[f].task => e = f

\* However the processes race, at most MaxParallelism claims are ACTIVE.
CapacityRespected ==
    IsFiniteSet(ActiveClaims) /\ Cardinality(ActiveClaims) <= MaxParallelism

\* The lock table and the claim table agree: a resource is locked exactly by
\* the ACTIVE claim whose task needs it.  No lock outlives its claim, no claim
\* runs without its locks, no two ACTIVE claims share a resource.
LocksMatchActiveClaims ==
    \A r \in Resources, e \in Executions :
       lock[r] = e <=> e \in ActiveClaims /\ r \in Needs[claims[e].task]

\* A settled claim is never revived or settled again with another verdict,
\* neither by a late holder nor by a late recovery.
SettledClaimsAreFinal ==
    [][\A e \in Executions :
          claims[e].status \in SettledStatuses => claims'[e] = claims[e]]_storeVars

\* Recovery of an execution starts only once its lease has run out, and passes
\* from one recovering process to the next only once the first one's recovery
\* lease has run out; the original holder never gets the claim back.
RecoveryWaitsForTheLease ==
    [][\A e \in Executions :
          claims'[e].owner # claims[e].owner =>
             /\ claims'[e].owner # NONE
             /\ claims[e].leaseUntil <= now
             /\ claims[e].owner # NONE => claims[e].recoveryUntil <= now]_storeVars

\* The tables implement the abstract admission protocol.
Abstract == INSTANCE Admission WITH
    assigned <- [e \in Executions |->
                   IF claims[e].status = "ACTIVE" THEN claims[e].task ELSE NONE],
    spent    <- {e \in Executions : claims[e].status # "ABSENT"}

AdmissionSpec == Abstract!Spec
=============================================================================
