-------------------------- MODULE ClaimStoreProofs --------------------------
(***************************************************************************)
(* Proofs about the claim store for every set of tasks, executions,        *)
(* recovery owners and resources, every capacity, every lease duration and *)
(* every caller.                                                           *)
(***************************************************************************)
EXTENDS ClaimStore, FiniteSetTheorems, TLAPS

\* An ACTIVE row names the task it was inserted for.
ActiveClaimsNameATask == \A e \in ActiveClaims : claims[e].task \in Tasks

\* A row that was never inserted holds nothing.
AbsentRowsAreBlank ==
    \A e \in Executions : claims[e].status = "ABSENT" => claims[e] = NoClaim

\* The inductive invariant.  The claim table alone says nothing of who holds
\* a resource, so mutual exclusion needs the agreement of the two tables, and
\* that agreement needs every ACTIVE row to name a task.
StoreInv ==
    /\ StoreTypeOK
    /\ ActiveClaimsNameATask
    /\ AbsentRowsAreBlank
    /\ OneActiveClaimPerTask
    /\ CapacityRespected
    /\ LocksMatchActiveClaims

-----------------------------------------------------------------------------
(* What any caller can do to the tables *)

\* A lease runs out in a model whose clock stands still: it comes back to it.
LeaseLapses(e) ==
    /\ claims[e].status = "ACTIVE"
    /\ \/ claims' = [claims EXCEPT ![e].leaseUntil = now]
       \/ claims' = [claims EXCEPT ![e].recoveryUntil = now]
    /\ UNCHANGED <<now, taskStatus, lock>>

\* Steps that leave the ACTIVE claims, their tasks and the locks as they are.
QuietStep ==
    \/ \E e \in Executions, at \in 0..now :
          \/ RenewTaskExecution(e, at)
          \/ \E o \in Owners : ClaimExpiredExecutionRecovery(e, o, at)
    \/ \E t \in Tasks, s \in TaskStatuses : SetTaskStatus(t, s)
    \/ \E e \in Executions : LeaseLapses(e)
    \/ Tick
    \/ UNCHANGED storeVars

\* The three ways a step can act on the claims: the case split of the proofs.
\* They are stated for every status that can be written, whatever the constants
\* allow, because Coordinator's commands take these steps too.
StoreStep ==
    \/ \E e \in Executions, t \in Tasks, at \in 0..now : ClaimTaskExecution(e, t, at)
    \/ \E e \in Executions, s \in SettledStatuses :
          claims[e].status = "ACTIVE" /\ Settle(e, s)
    \/ QuietStep

LEMMA StoreNextIsStoreStep == [StoreNext]_storeVars => StoreStep
BY ClaimStoreAssumption
   DEF StoreNext, StoreStep, QuietStep, ReleaseTaskExecution, ReleaseRecoveredTaskExecution,
       TransitionTaskStatusFrom, Releasable, Renewable, OwnsRecovery

-----------------------------------------------------------------------------
(* Lemmas about the operations *)

\* Type correctness is preserved by each operation.
LEMMA StoreTypeStep == StoreTypeOK /\ StoreStep => StoreTypeOK'
<1> SUFFICES ASSUME StoreTypeOK, StoreStep
             PROVE  StoreTypeOK'
  OBVIOUS
<1> USE ClaimStoreAssumption DEF StoreTypeOK, Claim
<1>1. ASSUME NEW e \in Executions, NEW t \in Tasks, NEW at \in 0..now,
             ClaimTaskExecution(e, t, at)
      PROVE  StoreTypeOK'
  BY <1>1 DEF ClaimTaskExecution, Claimable
<1>2. ASSUME NEW e \in Executions, NEW at \in 0..now, RenewTaskExecution(e, at)
      PROVE  StoreTypeOK'
  BY <1>2 DEF RenewTaskExecution
<1>3. ASSUME NEW e \in Executions, NEW o \in Owners, NEW at \in 0..now,
             ClaimExpiredExecutionRecovery(e, o, at)
      PROVE  StoreTypeOK'
  <2>1. claims' \in [Executions -> Claim]
    <3> DEFINE c == [claims[e] EXCEPT !.owner = o,
                                      !.recoveryUntil = at + RecoveryLeaseDuration]
    <3>1. claims' = [claims EXCEPT ![e] = c]
      BY <1>3 DEF ClaimExpiredExecutionRecovery
    <3>2. at + RecoveryLeaseDuration \in Nat
      OBVIOUS
    <3>3. c \in Claim
      BY <3>2
    <3> QED
      BY <3>1, <3>3
  <2> QED
    BY <1>3, <2>1 DEF ClaimExpiredExecutionRecovery
<1>4. ASSUME NEW e \in Executions, NEW s \in SettledStatuses, Settle(e, s)
      PROVE  StoreTypeOK'
  BY <1>4 DEF Settle
<1>5. ASSUME NEW t \in Tasks, NEW s \in TaskStatuses, SetTaskStatus(t, s)
      PROVE  StoreTypeOK'
  BY <1>5 DEF SetTaskStatus
<1>6. CASE Tick
  BY <1>6 DEF Tick
<1>7. CASE UNCHANGED storeVars
  BY <1>7 DEF storeVars
<1>8. ASSUME NEW e \in Executions, LeaseLapses(e)
      PROVE  StoreTypeOK'
  BY <1>8 DEF LeaseLapses
<1> QED
  BY <1>1, <1>2, <1>3, <1>4, <1>5, <1>6, <1>7, <1>8 DEF StoreStep, QuietStep

\* Admission adds exactly the new execution to the ACTIVE claims.
LEMMA ClaimAddsOne ==
  ASSUME StoreTypeOK,
         NEW e \in Executions, NEW t \in Tasks, NEW at \in 0..now,
         ClaimTaskExecution(e, t, at)
  PROVE  /\ ActiveClaims' = ActiveClaims \cup {e}
         /\ e \notin ActiveClaims
         /\ claims'[e].task = t
         /\ \A f \in Executions \ {e} : claims'[f] = claims[f]
BY DEF StoreTypeOK, ClaimTaskExecution, Claimable, ActiveClaims

\* Settling removes exactly the settled execution from the ACTIVE claims.
LEMMA SettleRemovesOne ==
  ASSUME StoreTypeOK, NEW e \in Executions, NEW s \in SettledStatuses, Settle(e, s)
  PROVE  /\ ActiveClaims' = ActiveClaims \ {e}
         /\ \A f \in Executions : claims'[f].task = claims[f].task
BY ClaimStoreAssumption DEF StoreTypeOK, Claim, Settle, ActiveClaims, SettledStatuses

\* Every other operation leaves the ACTIVE claims, their tasks and the locks.
LEMMA OthersKeepClaims ==
  ASSUME StoreTypeOK, QuietStep
  PROVE  /\ ActiveClaims' = ActiveClaims
         /\ \A f \in Executions : claims'[f].task = claims[f].task
         /\ \A f \in Executions : claims'[f].status = claims[f].status
         /\ \A f \in Executions :
               claims[f].status # "ACTIVE" => claims'[f] = claims[f]
         /\ lock' = lock
<1> DEFINE Kept == /\ \A f \in Executions : claims'[f].task = claims[f].task
                   /\ \A f \in Executions : claims'[f].status = claims[f].status
                   /\ \A f \in Executions :
                         claims[f].status # "ACTIVE" => claims'[f] = claims[f]
                   /\ lock' = lock
<1>1. ASSUME NEW e \in Executions, NEW at \in 0..now, RenewTaskExecution(e, at)
      PROVE  Kept
  BY <1>1 DEF StoreTypeOK, Claim, RenewTaskExecution, Renewable
<1>2. ASSUME NEW e \in Executions, NEW o \in Owners, NEW at \in 0..now,
             ClaimExpiredExecutionRecovery(e, o, at)
      PROVE  Kept
  <2> DEFINE c == [claims[e] EXCEPT !.owner = o,
                                    !.recoveryUntil = at + RecoveryLeaseDuration]
  <2>1. /\ claims' = [claims EXCEPT ![e] = c]
        /\ lock' = lock
        /\ claims[e].status = "ACTIVE"
    BY <1>2 DEF ClaimExpiredExecutionRecovery, Recoverable
  <2>2. c.task = claims[e].task /\ c.status = claims[e].status
    BY DEF StoreTypeOK, Claim
  <2> QED
    BY <2>1, <2>2 DEF StoreTypeOK
<1>3. ASSUME \/ \E t \in Tasks, s \in TaskStatuses : SetTaskStatus(t, s)
             \/ Tick
             \/ UNCHANGED storeVars
      PROVE  Kept
  BY <1>3 DEF SetTaskStatus, Tick, storeVars
<1>4. ASSUME NEW e \in Executions, LeaseLapses(e)
      PROVE  Kept
  BY <1>4 DEF StoreTypeOK, Claim, LeaseLapses
<1>5. Kept
  BY <1>1, <1>2, <1>3, <1>4 DEF QuietStep
<1> QED
  BY <1>5 DEF ActiveClaims

-----------------------------------------------------------------------------
(* The invariant *)

\* Of empty claim and lock tables, whatever the tasks are.
EmptyStore ==
    /\ now = 0
    /\ taskStatus \in [Tasks -> TaskStatuses]
    /\ claims = [e \in Executions |-> NoClaim]
    /\ lock = [r \in Resources |-> NONE]

LEMMA StoreInvInit == EmptyStore => StoreInv
<1> SUFFICES ASSUME EmptyStore PROVE StoreInv
  OBVIOUS
<1>1. StoreTypeOK
  BY ClaimStoreAssumption DEF EmptyStore, StoreTypeOK, NoClaim, Claim
<1>2. ActiveClaims = {}
  BY DEF EmptyStore, NoClaim, ActiveClaims
<1>3. CapacityRespected
  BY <1>2, FS_EmptySet, ClaimStoreAssumption DEF CapacityRespected
<1>4. LocksMatchActiveClaims
  BY <1>2, ClaimStoreAssumption DEF LocksMatchActiveClaims, EmptyStore
<1> QED
  BY <1>1, <1>2, <1>3, <1>4
     DEF StoreInv, ActiveClaimsNameATask, AbsentRowsAreBlank,
         OneActiveClaimPerTask, EmptyStore

LEMMA StoreInvStep == StoreInv /\ StoreStep => StoreInv'
<1> SUFFICES ASSUME StoreInv, StoreStep
             PROVE  StoreInv'
  OBVIOUS
<1> USE DEF StoreInv
<1>1. StoreTypeOK'
  BY StoreTypeStep
<1>2. ASSUME NEW e \in Executions, NEW t \in Tasks, NEW at \in 0..now,
             ClaimTaskExecution(e, t, at)
      PROVE  StoreInv'
  <2>1. /\ ActiveClaims' = ActiveClaims \cup {e}
        /\ e \notin ActiveClaims
        /\ claims'[e].task = t
        /\ \A f \in Executions \ {e} : claims'[f] = claims[f]
    BY <1>2, ClaimAddsOne
  <2>2. ActiveClaims \subseteq Executions
    BY DEF ActiveClaims
  <2>3. \A f \in ActiveClaims : claims'[f] = claims[f] /\ claims[f].task # t
    BY <1>2, <2>1, <2>2 DEF ClaimTaskExecution, Claimable, ActiveClaimsOf
  <2>4. ActiveClaimsNameATask'
    BY <2>1, <2>3 DEF ActiveClaimsNameATask
  <2>5. OneActiveClaimPerTask'
    BY <2>1, <2>3 DEF OneActiveClaimPerTask
  <2>6. CapacityRespected'
    <3>1. IsFiniteSet(ActiveClaims) /\ Cardinality(ActiveClaims) < MaxParallelism
      BY <1>2 DEF CapacityRespected, ClaimTaskExecution, Claimable
    <3>2. /\ IsFiniteSet(ActiveClaims')
          /\ Cardinality(ActiveClaims') = Cardinality(ActiveClaims) + 1
      BY <2>1, <3>1, FS_AddElement
    <3>3. Cardinality(ActiveClaims) \in Nat
      BY <3>1, FS_CardinalityType
    <3> QED
      BY <3>1, <3>2, <3>3, ClaimStoreAssumption DEF CapacityRespected
  <2>7. LocksMatchActiveClaims'
    <3> SUFFICES ASSUME NEW r \in Resources, NEW f \in Executions
                 PROVE  lock'[r] = f <=>
                           f \in ActiveClaims' /\ r \in Needs[claims'[f].task]
      BY DEF LocksMatchActiveClaims
    <3>1. lock[r] = f <=> f \in ActiveClaims /\ r \in Needs[claims[f].task]
      BY DEF LocksMatchActiveClaims
    <3>2. lock'[r] = IF r \in Needs[t] THEN e ELSE lock[r]
      BY <1>2 DEF ClaimTaskExecution, Claimable
    <3>3. r \in Needs[t] => lock[r] = NONE
      BY <1>2 DEF ClaimTaskExecution, Claimable
    <3>4. f # NONE
      BY ClaimStoreAssumption
    <3> QED
      BY <2>1, <2>3, <3>1, <3>2, <3>3, <3>4
  <2>8. AbsentRowsAreBlank'
    BY <2>1, ClaimStoreAssumption
       DEF AbsentRowsAreBlank, ActiveClaims, StoreTypeOK
  <2> QED
    BY <1>1, <2>4, <2>5, <2>6, <2>7, <2>8
<1>3. ASSUME NEW e \in Executions, NEW s \in SettledStatuses, Settle(e, s)
      PROVE  StoreInv'
  <2>6. AbsentRowsAreBlank'
    BY <1>3, ClaimStoreAssumption
       DEF AbsentRowsAreBlank, Settle, StoreTypeOK, Claim, SettledStatuses
  <2>1. /\ ActiveClaims' = ActiveClaims \ {e}
        /\ \A f \in Executions : claims'[f].task = claims[f].task
    BY <1>3, SettleRemovesOne
  <2>2. ActiveClaims \subseteq Executions
    BY DEF ActiveClaims
  <2>3. ActiveClaimsNameATask' /\ OneActiveClaimPerTask'
    BY <2>1, <2>2 DEF ActiveClaimsNameATask, OneActiveClaimPerTask
  <2>4. CapacityRespected'
    <3>1. /\ IsFiniteSet(ActiveClaims \ {e})
          /\ Cardinality(ActiveClaims \ {e}) <= Cardinality(ActiveClaims)
          /\ Cardinality(ActiveClaims \ {e}) \in Nat
          /\ Cardinality(ActiveClaims) \in Nat
      BY FS_Subset, FS_CardinalityType, ActiveClaims \ {e} \subseteq ActiveClaims
         DEF CapacityRespected
    <3> QED
      BY <2>1, <3>1, ClaimStoreAssumption DEF CapacityRespected
  <2>5. LocksMatchActiveClaims'
    <3> SUFFICES ASSUME NEW r \in Resources, NEW f \in Executions
                 PROVE  lock'[r] = f <=>
                           f \in ActiveClaims' /\ r \in Needs[claims'[f].task]
      BY DEF LocksMatchActiveClaims
    <3>1. lock[r] = f <=> f \in ActiveClaims /\ r \in Needs[claims[f].task]
      BY DEF LocksMatchActiveClaims
    <3>2. lock'[r] = IF lock[r] = e THEN NONE ELSE lock[r]
      BY <1>3 DEF Settle
    <3>3. f # NONE
      BY ClaimStoreAssumption
    <3> QED
      BY <2>1, <3>1, <3>2, <3>3
  <2> QED
    BY <1>1, <2>3, <2>4, <2>5, <2>6
<1>4. CASE QuietStep
  <2>1. /\ ActiveClaims' = ActiveClaims
        /\ \A f \in Executions : claims'[f].task = claims[f].task
        /\ \A f \in Executions : claims'[f].status = claims[f].status
        /\ \A f \in Executions :
              claims[f].status # "ACTIVE" => claims'[f] = claims[f]
        /\ lock' = lock
    BY <1>4, OthersKeepClaims
  <2>2. ActiveClaims \subseteq Executions
    BY DEF ActiveClaims
  <2>3. ActiveClaimsNameATask' /\ OneActiveClaimPerTask' /\ CapacityRespected'
    BY <2>1, <2>2 DEF ActiveClaimsNameATask, OneActiveClaimPerTask, CapacityRespected
  <2>4. LocksMatchActiveClaims'
    BY <2>1 DEF LocksMatchActiveClaims
  <2>5. AbsentRowsAreBlank'
    BY <2>1 DEF AbsentRowsAreBlank
  <2> QED
    BY <1>1, <2>3, <2>4, <2>5
<1> QED
  BY <1>2, <1>3, <1>4 DEF StoreStep

-----------------------------------------------------------------------------
(* Theorems *)

\* The inductive invariant holds in every reachable state of the store.
LEMMA StoreInvariant == StoreSpec => []StoreInv
<1>1. StoreInit => StoreInv
  BY StoreInvInit, ClaimStoreAssumption DEF StoreInit, EmptyStore
<1>2. StoreInv /\ [StoreNext]_storeVars => StoreInv'
  BY StoreInvStep, StoreNextIsStoreStep
<1> QED
  BY <1>1, <1>2, PTL DEF StoreSpec

\* The columns of the task, claim and lock tables keep their types.
THEOREM StoreTypeCorrect == StoreSpec => []StoreTypeOK
BY StoreInvariant, PTL DEF StoreInv

\* Whatever the processes do, a task has at most one ACTIVE claim.
THEOREM AtMostOneActiveClaim == StoreSpec => []OneActiveClaimPerTask
BY StoreInvariant, PTL DEF StoreInv

\* Whatever the processes do, the configured parallelism is never exceeded.
THEOREM CapacityIsRespected == StoreSpec => []CapacityRespected
BY StoreInvariant, PTL DEF StoreInv

\* Whatever the processes do, locks and ACTIVE claims agree.
THEOREM LocksAgreeWithClaims == StoreSpec => []LocksMatchActiveClaims
BY StoreInvariant, PTL DEF StoreInv

\* A settled row does not change.
LEMMA SettledRowsStay ==
    ASSUME StoreInv, StoreStep
    PROVE  \A f \in Executions : claims[f].status \in SettledStatuses => claims'[f] = claims[f]
<1> SUFFICES ASSUME NEW f \in Executions, claims[f].status \in SettledStatuses
             PROVE  claims'[f] = claims[f]
  OBVIOUS
<1> USE DEF StoreInv
<1>1. claims[f].status # "ACTIVE" /\ claims[f].status # "ABSENT"
  BY DEF SettledStatuses
<1>2. ASSUME NEW e \in Executions, NEW t \in Tasks, NEW at \in 0..now,
             ClaimTaskExecution(e, t, at)
      PROVE  claims'[f] = claims[f]
  BY <1>1, <1>2 DEF ClaimTaskExecution, Claimable, StoreTypeOK
<1>3. ASSUME NEW e \in Executions, NEW s \in SettledStatuses,
             claims[e].status = "ACTIVE", Settle(e, s)
      PROVE  claims'[f] = claims[f]
  BY <1>1, <1>3 DEF Settle, StoreTypeOK
<1> QED
  BY <1>1, <1>2, <1>3, OthersKeepClaims DEF StoreStep

\* A settled claim keeps its verdict: late renewals, releases and recoveries
\* change nothing.
THEOREM SettledStaysSettled == StoreSpec => SettledClaimsAreFinal
<1>1. StoreInv /\ [StoreNext]_storeVars =>
         [\A e \in Executions :
             claims[e].status \in SettledStatuses => claims'[e] = claims[e]]_storeVars
  BY SettledRowsStay, StoreNextIsStoreStep
<1> QED
  BY <1>1, StoreInvariant, PTL DEF StoreSpec, SettledClaimsAreFinal

\* Only a recovering process changes the owner of a claim, and only after the
\* lease of its holder, or the recovery lease of its predecessor, has run out.
LEMMA RecoveryTakesExpiredClaims ==
    ASSUME StoreInv, StoreStep
    PROVE  \A e \in Executions :
              claims'[e].owner # claims[e].owner =>
                 /\ claims'[e].owner # NONE
                 /\ claims[e].leaseUntil <= now
                 /\ claims[e].owner # NONE => claims[e].recoveryUntil <= now
<1> SUFFICES ASSUME NEW f \in Executions, claims'[f].owner # claims[f].owner
             PROVE  /\ claims'[f].owner # NONE
                    /\ claims[f].leaseUntil <= now
                    /\ claims[f].owner # NONE => claims[f].recoveryUntil <= now
  OBVIOUS
<1> USE DEF StoreInv
<1>1. ASSUME NEW e \in Executions, NEW t \in Tasks, NEW at \in 0..now,
             ClaimTaskExecution(e, t, at)
      PROVE  FALSE
  BY <1>1 DEF ClaimTaskExecution, Claimable, StoreTypeOK, AbsentRowsAreBlank, NoClaim
<1>2. ASSUME NEW e \in Executions, NEW s \in SettledStatuses, Settle(e, s)
      PROVE  FALSE
  BY <1>2 DEF Settle, StoreTypeOK, Claim
<1>3. ASSUME NEW e \in Executions, NEW at \in 0..now, RenewTaskExecution(e, at)
      PROVE  FALSE
  BY <1>3 DEF RenewTaskExecution, StoreTypeOK, Claim
<1>4. ASSUME NEW e \in Executions, LeaseLapses(e)
      PROVE  FALSE
  BY <1>4 DEF LeaseLapses, StoreTypeOK, Claim
<1>5. ASSUME \/ \E t \in Tasks, s \in TaskStatuses : SetTaskStatus(t, s)
             \/ Tick
             \/ UNCHANGED storeVars
      PROVE  FALSE
  BY <1>5 DEF SetTaskStatus, Tick, storeVars
<1>6. PICK e \in Executions, o \in Owners, at \in 0..now :
             ClaimExpiredExecutionRecovery(e, o, at)
  BY <1>1, <1>2, <1>3, <1>4, <1>5 DEF StoreStep, QuietStep
<1> DEFINE c == [claims[e] EXCEPT !.owner = o,
                                  !.recoveryUntil = at + RecoveryLeaseDuration]
<1>7. claims' = [claims EXCEPT ![e] = c]
  BY <1>6 DEF ClaimExpiredExecutionRecovery
<1>8. f = e
  BY <1>7 DEF StoreTypeOK
<1>9. c.owner = o /\ o # NONE
  BY ClaimStoreAssumption DEF StoreTypeOK, Claim
<1>10. claims[f].leaseUntil \in Nat /\ claims[f].recoveryUntil \in Nat
  BY DEF StoreTypeOK, Claim
<1>11. Recoverable(e, at)
  BY <1>6 DEF ClaimExpiredExecutionRecovery
<1>12. claims'[f].owner # NONE
  BY <1>7, <1>8, <1>9 DEF StoreTypeOK
<1>13. /\ claims[f].leaseUntil <= now
       /\ claims[f].owner # NONE => claims[f].recoveryUntil <= now
  BY <1>8, <1>10, <1>11 DEF Recoverable, StoreTypeOK
<1> QED
  BY <1>12, <1>13

\* A recovering process takes a claim only after the lease of its holder, or
\* the recovery lease of its predecessor, has run out.
THEOREM RecoveryIsExclusive == StoreSpec => RecoveryWaitsForTheLease
<1>1. StoreInv /\ [StoreNext]_storeVars =>
         [\A e \in Executions :
             claims'[e].owner # claims[e].owner =>
                /\ claims'[e].owner # NONE
                /\ claims[e].leaseUntil <= now
                /\ claims[e].owner # NONE => claims[e].recoveryUntil <= now]_storeVars
  BY RecoveryTakesExpiredClaims, StoreNextIsStoreStep
<1> QED
  BY <1>1, StoreInvariant, PTL DEF StoreSpec, RecoveryWaitsForTheLease

-----------------------------------------------------------------------------
(* Refinement *)

\* No other ACTIVE claim conflicts with a task the store has just admitted:
\* the lock check stands for the resource conflicts, the claim check for the
\* same task.
LEMMA AdmittedTaskHasNoConflict ==
  ASSUME StoreInv,
         NEW e \in Executions, NEW t \in Tasks, NEW at \in 0..now,
         ClaimTaskExecution(e, t, at)
  PROVE  \A x \in ActiveClaims :
            claims[x].task # t /\ Needs[claims[x].task] \cap Needs[t] = {}
<1> SUFFICES ASSUME NEW x \in ActiveClaims
             PROVE  claims[x].task # t /\ Needs[claims[x].task] \cap Needs[t] = {}
  OBVIOUS
<1>1. x \in Executions
  BY DEF ActiveClaims
<1>2. claims[x].task # t
  BY <1>1 DEF ClaimTaskExecution, Claimable, ActiveClaimsOf
<1>3. ASSUME NEW r \in Needs[claims[x].task] \cap Needs[t]
      PROVE  FALSE
  <2>1. r \in Resources
    BY ClaimStoreAssumption
  <2>2. lock[r] = x
    BY <1>1, <2>1 DEF StoreInv, LocksMatchActiveClaims
  <2>3. lock[r] = NONE
    BY DEF ClaimTaskExecution, Claimable
  <2> QED
    BY <1>1, <2>2, <2>3, ClaimStoreAssumption
<1> QED
  BY <1>2, <1>3

\* Empty tables are the initial state of the admission protocol.
LEMMA EmptyStoreAdmitsNobody == EmptyStore => Abstract!Init
BY DEF EmptyStore, NoClaim, Abstract!Init

\* Every step of the store is a step of the admission protocol or a stutter of
\* it: claiming is Admit, settling is Vacate, and leases, renewals, recovery
\* ownership, task statuses and the clock are invisible.
LEMMA StoreStepsAreAdmissions ==
    ASSUME StoreInv, StoreStep
    PROVE  [Abstract!Next]_(Abstract!vars)
<1> DEFINE assigned == [e \in Executions |->
                          IF claims[e].status = "ACTIVE" THEN claims[e].task ELSE NONE]
           spent    == {e \in Executions : claims[e].status # "ABSENT"}
<1> SUFFICES Abstract!Next \/ (assigned' = assigned /\ spent' = spent)
  BY DEF Abstract!vars
<1> USE DEF StoreInv
<1>0. Abstract!Live = ActiveClaims
  BY ClaimStoreAssumption DEF Abstract!Live, ActiveClaims, ActiveClaimsNameATask
<1>1. ASSUME NEW e \in Executions, NEW t \in Tasks, NEW at \in 0..now,
             ClaimTaskExecution(e, t, at)
      PROVE  Abstract!Admit(e, t)
  <2>1. /\ claims'[e].status = "ACTIVE"
        /\ claims'[e].task = t
        /\ \A f \in Executions \ {e} : claims'[f] = claims[f]
        /\ claims[e].status = "ABSENT"
    BY <1>1 DEF ClaimTaskExecution, Claimable, StoreTypeOK
  <2>2. assigned' = [assigned EXCEPT ![e] = t]
    BY <2>1
  <2>3. spent' = spent \cup {e} /\ e \notin spent
    BY <2>1
  <2>4. Cardinality(ActiveClaims) < MaxParallelism
    BY <1>1 DEF ClaimTaskExecution, Claimable
  <2>5. \A x \in ActiveClaims : ~Abstract!Conflict(assigned[x], t)
    <3>1. \A x \in ActiveClaims :
             /\ assigned[x] = claims[x].task
             /\ claims[x].task # t
             /\ Needs[claims[x].task] \cap Needs[t] = {}
      BY <1>1, AdmittedTaskHasNoConflict DEF ActiveClaims
    <3> QED
      BY <3>1 DEF Abstract!Conflict
  <2>6. Abstract!Cardinality(ActiveClaims) = Cardinality(ActiveClaims)
    BY DEF Abstract!Cardinality, Cardinality, Abstract!IsFiniteSet, IsFiniteSet
  <2> QED
    BY <1>0, <2>2, <2>3, <2>4, <2>5, <2>6 DEF Abstract!Admit
<1>2. ASSUME NEW e \in Executions, NEW s \in SettledStatuses,
             claims[e].status = "ACTIVE", Settle(e, s)
      PROVE  Abstract!Vacate(e)
  <2>1. /\ claims'[e].status = s
        /\ \A f \in Executions \ {e} : claims'[f] = claims[f]
        /\ s # "ACTIVE" /\ s # "ABSENT"
    BY <1>2, ClaimStoreAssumption
       DEF Settle, StoreTypeOK, Claim, SettledStatuses
  <2>2. assigned[e] # NONE
    BY <1>2, ClaimStoreAssumption DEF ActiveClaimsNameATask, ActiveClaims
  <2>3. assigned' = [assigned EXCEPT ![e] = NONE]
    BY <2>1
  <2>4. spent' = spent
    BY <1>2, <2>1
  <2> QED
    BY <2>2, <2>3, <2>4 DEF Abstract!Vacate
<1>3. ASSUME QuietStep
      PROVE  assigned' = assigned /\ spent' = spent
  BY <1>3, OthersKeepClaims
<1> QED
  BY <1>1, <1>2, <1>3 DEF StoreStep, Abstract!Next

\* The claim, lease and lock tables implement the abstract admission protocol.
THEOREM StoreImplementsAdmission == StoreSpec => AdmissionSpec
<1>1. StoreInit => Abstract!Init
  BY EmptyStoreAdmitsNobody, ClaimStoreAssumption DEF StoreInit, EmptyStore
<1>2. StoreInv /\ [StoreNext]_storeVars => [Abstract!Next]_(Abstract!vars)
  BY StoreStepsAreAdmissions, StoreNextIsStoreStep
<1> QED
  BY <1>1, <1>2, StoreInvariant, PTL
     DEF StoreSpec, AdmissionSpec, Abstract!Spec
=============================================================================
