----------------------- MODULE MCIntegrationProcessor -----------------------
(* Instances of IntegrationProcessor; the sizes are in the configurations.  *)
EXTENDS IntegrationProcessor

CONSTANTS q1, q2, p1, p2

MCEntries == {q1, q2}
OneEntry == {q1}
OneProcess == {p1}
TwoProcesses == {p1, p2}

Symmetry == Permutations(MCEntries) \cup Permutations(TwoProcesses)
ProcessSymmetry == Permutations(TwoProcesses)
=============================================================================
