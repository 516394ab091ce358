--------------------------- MODULE ProcessRunner ---------------------------
(***************************************************************************)
(* The run of one child process, as NodeProcessRunner sees it: the events  *)
(* of the child, the timeout, the abort signal of the command, and the     *)
(* force-kill timer race, and the promise resolves once.  Agents and       *)
(* verification commands are run this way, one at a time.                  *)
(*                                                                         *)
(* A child that has exited may leave descendants that hold its pipes open: *)
(* 'close' comes when they are gone.                                       *)
(***************************************************************************)
CONSTANT NONE

VARIABLES signal,     \* has the command's AbortSignal fired?
          run         \* the latest run of a child process

runnerVars == <<signal, run>>

Children == {"none", "unspawned", "running", "exited", "closed"}
Exits == {"zero", "nonzero", "signal"}
Outcomes == {"completed", "failed", "terminated", "timeout", "cancelled", "spawn-error"}

ASSUME ProcessRunnerAssumption == NONE \notin Outcomes

NoRun == [child |-> "none", exit |-> NONE, timer |-> FALSE, timedOut |-> FALSE,
          cancelled |-> FALSE, kill |-> "no", outcome |-> NONE]

Runs == [child : Children, exit : Exits \cup {NONE}, timer : BOOLEAN, timedOut : BOOLEAN,
         cancelled : BOOLEAN, kill : {"no", "term", "force"}, outcome : Outcomes \cup {NONE}]

Settled == run.outcome # NONE

\* Between run() and the settling of its promise; and before and after it.
Pending == run.child \in {"unspawned", "running", "exited"} /\ ~Settled
Vacant == run.child \in {"none", "closed"} /\ ~Settled

Writing == run.child \in {"running", "exited"}

-----------------------------------------------------------------------------
\* Spawning may fail at once, or with an 'error' event of the child.  Only a
\* run that is given a timeout has a timer.
Start(timed) ==
    /\ IF signal
       THEN run' = [NoRun EXCEPT !.outcome = "cancelled"]
       ELSE \/ run' = [NoRun EXCEPT !.outcome = "spawn-error"]
            \/ \E child \in {"unspawned", "running"} :
                  run' = [NoRun EXCEPT !.child = child, !.timer = timed]
    /\ UNCHANGED signal

\* Mutant: the promise resolves without waiting for the child.
KilledAndForgotten(r) ==
    IF r.child = "running"
    THEN [r EXCEPT !.kill = "term", !.outcome = IF r.timedOut THEN "timeout" ELSE "cancelled"]
    ELSE r

\* killChild: SIGTERM, and the force-kill timer starts; a child that is gone
\* is left alone.
Killed(r) == IF r.child = "running" THEN [r EXCEPT !.kill = "term"] ELSE r

TimerFires ==
    /\ Pending /\ run.timer /\ ~run.timedOut
    /\ run' = Killed([run EXCEPT !.timedOut = TRUE])
    /\ UNCHANGED signal

\* The user stops the command: the listener is there while a run is pending.
Abort ==
    /\ ~signal
    /\ signal' = TRUE
    /\ run' = IF Pending THEN Killed([run EXCEPT !.cancelled = TRUE]) ELSE run

\* Mutant: the force-kill timer does nothing.
KillNobody == [run EXCEPT !.kill = "force"]

\* SIGKILL cannot be ignored.
ForceKilled == [run EXCEPT !.kill = "force", !.child = "exited", !.exit = "signal"]

ForceKillTimerFires ==
    /\ Pending /\ run.kill = "term" /\ run.child = "running"
    /\ run' = ForceKilled
    /\ UNCHANGED signal

ChildExits ==
    /\ run.child = "running"
    /\ \E exit \in Exits : run' = [run EXCEPT !.child = "exited", !.exit = exit]
    /\ UNCHANGED signal

\* 'error' before 'exit': the child was never there.
SpawnErrorEvent ==
    /\ run.child = "unspawned"
    /\ run' = IF run.timedOut \/ run.cancelled
              THEN [run EXCEPT !.child = "exited", !.exit = "nonzero"]
              ELSE [run EXCEPT !.child = "closed", !.outcome = "spawn-error"]
    /\ UNCHANGED signal

\* What 'close' resolves the promise with.
OutcomeOfClose ==
    IF run.timedOut THEN "timeout"
    ELSE IF run.cancelled THEN "cancelled"
    ELSE CASE run.exit = "signal" -> "terminated"
           [] run.exit = "zero" -> "completed"
           [] OTHER -> "failed"

ChildCloses ==
    /\ run.child = "exited"
    /\ run' = [run EXCEPT !.child = "closed", !.outcome = OutcomeOfClose]
    /\ UNCHANGED signal

\* The caller goes on with the outcome; the child is what it is.
Collect == run' = [NoRun EXCEPT !.child = run.child] /\ UNCHANGED signal

ChildEvent ==
    \/ TimerFires \/ ForceKillTimerFires \/ ChildExits \/ SpawnErrorEvent \/ ChildCloses

\* The adapters' normalizeResult: what the agent's invocation returns.
AgentResult(outcome) ==
    CASE outcome = "completed" -> "success"
      [] outcome \in {"timeout", "cancelled"} -> outcome
      [] OTHER -> "failure"
=============================================================================
