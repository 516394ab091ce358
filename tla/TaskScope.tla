----------------------------- MODULE TaskScope -----------------------------
(***************************************************************************)
(* The patterns of a task's scope and the paths they match                 *)
(* (task-scope.ts).  A path is a sequence of names.  A pattern is what is  *)
(* left after normalisation: its segments and whether it ends with "/".    *)
(* A segment with * or ? in it is told by the names it matches.            *)
(***************************************************************************)
EXTENDS Integers, Sequences

Literal(name) == [kind |-> "literal", names |-> {name}]
Wildcard(names) == [kind |-> "wildcard", names |-> names]
Multi == [kind |-> "multi", names |-> {}]                   \* **

Pattern(segments) == [segments |-> segments, directory |-> FALSE]
Directory(segments) == [segments |-> segments, directory |-> TRUE]

\* What a task's definition may contain, once it has been normalised.
IsSegment(segment) ==
    \/ segment = Multi
    \/ segment = Wildcard(segment.names)
    \/ \E name \in segment.names : segment = Literal(name)

IsPattern(pattern) ==
    LET used == {pattern.segments[i] : i \in DOMAIN pattern.segments} IN
    /\ pattern.segments \in Seq(used) /\ Len(pattern.segments) > 0
    /\ \A segment \in used : IsSegment(segment)

IsScope(scope) == \A pattern \in scope.allowedPaths \cup scope.forbiddenPaths : IsPattern(pattern)

\* A pattern without "/" is looked for at every depth.
Anchored(pattern) ==
    IF Len(pattern.segments) = 1 THEN <<Multi>> \o pattern.segments ELSE pattern.segments

\* compileScopePattern: "docs/" is what is below docs, "docs/**/" no more.
CompileScopePattern(pattern) ==
    LET segments == Anchored(pattern) IN
    IF pattern.directory /\ segments[Len(segments)] # Multi THEN Append(segments, Multi)
                                                           ELSE segments

\* The regular expression: ** is any number of names, at the end at least one.
MatchesScopePattern(path, pattern) ==
    LET segments == CompileScopePattern(pattern)
        m == Len(segments)
        n == Len(path)
        match[at \in (1..(m + 1)) \X (1..(n + 1))] ==
            LET i == at[1]
                j == at[2]
            IN
            \/ i > m /\ j > n
            \/ i = m /\ segments[i] = Multi /\ j <= n
            \/ /\ i < m /\ segments[i] = Multi
               /\ match[<<i + 1, j>>] \/ (j <= n /\ match[<<i, j + 1>>])
            \/ /\ i <= m /\ segments[i] # Multi
               /\ j <= n /\ path[j] \in segments[i].names
               /\ match[<<i + 1, j + 1>>]
    IN match[<<1, 1>>]

\* validateTaskScope, of one changed path.
InTaskScope(path, scope) ==
    /\ \E pattern \in scope.allowedPaths : MatchesScopePattern(path, pattern)
    /\ \A pattern \in scope.forbiddenPaths : ~MatchesScopePattern(path, pattern)
=============================================================================
