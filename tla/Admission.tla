----------------------------- MODULE Admission -----------------------------
(***************************************************************************)
(* What the execution-claim table promises, with no leases, locks, owners  *)
(* or clocks: an execution is assigned at most one task in its life, no    *)
(* two live assignments conflict (same task, or a shared resource), and    *)
(* there are never more than MaxParallelism of them.                       *)
(***************************************************************************)
EXTENDS Naturals, FiniteSets

CONSTANTS Tasks, Executions, Needs, MaxParallelism, NONE

VARIABLES assigned,  \* the task each execution may work on, or NONE
          spent      \* the executions that have been admitted so far

vars == <<assigned, spent>>

Live == {e \in Executions : assigned[e] # NONE}

Conflict(t, u) == t = u \/ Needs[t] \cap Needs[u] # {}

Init == /\ assigned = [e \in Executions |-> NONE]
        /\ spent = {}

Admit(e, t) ==
    /\ e \notin spent
    /\ Cardinality(Live) < MaxParallelism
    /\ \A x \in Live : ~Conflict(assigned[x], t)
    /\ assigned' = [assigned EXCEPT ![e] = t]
    /\ spent' = spent \cup {e}

Vacate(e) ==
    /\ assigned[e] # NONE
    /\ assigned' = [assigned EXCEPT ![e] = NONE]
    /\ UNCHANGED spent

Next == \E e \in Executions : Vacate(e) \/ \E t \in Tasks : Admit(e, t)

Spec == Init /\ [][Next]_vars
=============================================================================
