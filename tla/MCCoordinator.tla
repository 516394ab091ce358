--------------------------- MODULE MCCoordinator ---------------------------
(* Up to two processes and four tasks; the configurations choose.           *)
EXTENDS Coordinator, TLC

CONSTANTS t1, t2, t3, t4, e1, e2, p1, p2, r1

MCTasks == {t1, t2, t3, t4}
OneTask == {t1}
MCExecutions == {e1, e2}

MCProcesses == {p1, p2}
OneProcess == {p1}
MCResources == {r1}
OneNoNeeds == [t \in OneTask |-> {}]
MCRank == t1 :> 1 @@ t2 :> 2 @@ t3 :> 3 @@ t4 :> 4
OneRank == t1 :> 1

\* t2 conflicts with t1 and t4 by its paths and with t3 by a resource; t3 may be
\* worked on beside t1 or t4, which waits for t1.
MCNeeds == t1 :> {} @@ t2 :> {r1} @@ t3 :> {r1} @@ t4 :> {}
MCDependsOn == t1 :> {} @@ t2 :> {} @@ t3 :> {} @@ t4 :> {t1}

\* t1 may change src/a and src/docs/ but src/docs/b, t2 src/*, t3 docs/a/ and t4
\* src/b.
SrcA == Pattern(<<Literal("src"), Literal("a")>>)
SrcB == Pattern(<<Literal("src"), Literal("b")>>)
SrcAny == Pattern(<<Literal("src"), Wildcard({"a", "b"})>>)
SrcDocs == Directory(<<Literal("src"), Literal("docs")>>)
DocsA == Directory(<<Literal("docs"), Literal("a")>>)
NotB == Pattern(<<Literal("src"), Multi, Literal("b")>>)
Allowing(patterns) == [allowedPaths |-> patterns, forbiddenPaths |-> {}]
MCScope == t1 :> [allowedPaths |-> {SrcA, SrcDocs}, forbiddenPaths |-> {NotB}] @@
           t2 :> Allowing({SrcAny}) @@ t3 :> Allowing({DocsA}) @@ t4 :> Allowing({SrcB})
OneScope == t1 :> Allowing({SrcA})
MCPaths == UNION {[1..n -> {"src", "docs", "a", "b"}] : n \in 1..3}

\* Only one agent can do t3; t2 needs an approval; t1, which t4 waits for, is
\* added late.
MCCapabilities == t1 :> {} @@ t2 :> {} @@ t3 :> {"writing"} @@ t4 :> {}
OneCapability == t1 :> {}
MCOffered == [coder |-> {}, writer |-> {"writing"}]
MCListed == {t2, t3, t4}
MCApproval == {t2}

ExecutionSymmetry == Permutations(Executions)
Symmetry == Permutations(Executions) \cup Permutations(Processes)
=============================================================================
