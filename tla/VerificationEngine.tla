------------------------- MODULE VerificationEngine -------------------------
(***************************************************************************)
(* One verification run: the configured checks one after the other, each a *)
(* child process without a timeout.  `verdict` is NONE while it is going.  *)
(***************************************************************************)
EXTENDS ProcessRunner, Integers, SequencesExt

CONSTANTS NumChecks,    \* the checks the task requires
          FailFast

CheckOutcomes == {"PASSED", "FAILED", "CANCELLED"}

ASSUME VerificationEngineAssumption ==
    /\ NumChecks \in Nat /\ FailFast \in BOOLEAN
    /\ NONE \notin CheckOutcomes \cup {"ERROR"}

VARIABLES results,      \* outcomes of the checks that ran
          verdict

engineVars == <<results, verdict>>

\* normalizeOutcome
CheckOutcome(outcome) ==
    CASE outcome = "completed" -> "PASSED"
      [] outcome = "cancelled" -> "CANCELLED"
      [] OTHER -> "FAILED"

LastIs(outcome) == results # <<>> /\ Last(results) = outcome

\* No further check is run.
EngineStops ==
    \/ Len(results) = NumChecks
    \/ LastIs("CANCELLED")
    \/ FailFast /\ LastIs("FAILED")

\* resolveRunStatus
RunStatus ==
    CASE LastIs("CANCELLED") -> "CANCELLED"
      [] Len(results) = NumChecks /\ \A i \in DOMAIN results : results[i] = "PASSED" -> "PASSED"
      [] OTHER -> "FAILED"

\* The input is refused before a check runs.
EngineThrows ==
    /\ Vacant /\ results = <<>>
    /\ verdict' = "ERROR"
    /\ UNCHANGED <<runnerVars, results>>

StartCheck ==
    /\ Vacant /\ ~EngineStops /\ ~signal
    /\ Start(FALSE)
    /\ UNCHANGED engineVars

CheckReturns ==
    /\ Settled
    /\ results' = Append(results, CheckOutcome(run.outcome))
    /\ Collect
    /\ UNCHANGED verdict

EngineReturns ==
    /\ Vacant
    /\ \/ ~EngineStops /\ signal /\ verdict' = "CANCELLED"
       \/ EngineStops /\ verdict' = RunStatus
    /\ UNCHANGED <<runnerVars, results>>
=============================================================================
