--------------------------- MODULE TaskConflicts ---------------------------
(***************************************************************************)
(* Whether the scopes of two tasks can claim one path (task-conflicts.ts). *)
(* The code decides it on the patterns alone and compiles them anew, on    *)
(* the safe side of what task-scope.ts matches.                            *)
(***************************************************************************)
EXTENDS TaskScope

CompileScopeSegments(pattern) ==
    IF pattern.directory THEN Append(Anchored(pattern), Multi) ELSE Anchored(pattern)

\* Mutant: a wildcard is compared by its text.
CanShareEqualSegments(a, b) == a = b

CanShareSegment(a, b) == (a.kind = "literal" /\ b.kind = "literal") => a.names = b.names

SegmentsOverlap(a, b) ==
    LET m == Len(a)
        n == Len(b)
        match[at \in (1..(m + 1)) \X (1..(n + 1))] ==
            LET i == at[1]
                j == at[2]
            IN
            CASE i > m /\ j > n -> TRUE
              [] i <= m /\ a[i] = Multi ->
                     match[<<i + 1, j>>] \/ (j <= n /\ match[<<i, j + 1>>])
              [] j <= n /\ b[j] = Multi ->
                     match[<<i, j + 1>>] \/ (i <= m /\ match[<<i + 1, j>>])
              [] OTHER -> /\ i <= m /\ j <= n
                          /\ CanShareSegment(a[i], b[j])
                          /\ match[<<i + 1, j + 1>>]
    IN match[<<1, 1>>]

\* Forbidden paths do not count.
ScopesOverlap(scope, other) ==
    \E p \in scope.allowedPaths, q \in other.allowedPaths :
       SegmentsOverlap(CompileScopeSegments(p), CompileScopeSegments(q))
=============================================================================
