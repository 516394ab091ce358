------------------------ MODULE TaskConflictsProofs ------------------------
(***************************************************************************)
(* Proofs about TaskConflicts and TaskScope, for every scope and path: the *)
(* static check of task-conflicts.ts finds every pair of tasks that        *)
(* task-scope.ts would let change one path.  Both algorithms recurse over  *)
(* the positions of two sequences; that the recursions have a solution is  *)
(* proved first (GridRecursion), and what is proved by induction takes the *)
(* counterexample with the fewest positions left.                          *)
(***************************************************************************)
EXTENDS TaskConflicts, WellFoundedInduction, TLAPS

\* A set of naturals that is not empty has a least element.
LEMMA LeastNatural ==
    ASSUME NEW T, T \subseteq Nat, T # {}
    PROVE  \E x \in T : \A y \in T : x <= y
<1> DEFINE R == OpToRel(<, Nat)
<1>1. PICK x \in T : \A y \in T : ~(<<y, x>> \in R)
  <2>1. IsWellFoundedOn(R, Nat)
    BY NatLessThanWellFounded
  <2> HIDE DEF R
  <2> QED BY <2>1, WFMin
<1>2. \A y \in T : ~(y < x)
  <2>1. \A y \in T : <<y, x>> \in Nat \X Nat
    OBVIOUS
  <2> QED BY <1>1, <2>1 DEF OpToRel
<1> QED BY <1>2

\* A set of naturals with all numbers whose predecessors it has is all of Nat.
LEMMA AllNaturals ==
    ASSUME NEW T, 0 \in T, \A n \in Nat : n \in T => n + 1 \in T
    PROVE  Nat \subseteq T
<1> SUFFICES ASSUME Nat \ T # {} PROVE FALSE
  OBVIOUS
<1>1. PICK n \in Nat \ T : \A k \in Nat \ T : n <= k
  BY LeastNatural
<1>2. n # 0 /\ n - 1 \in Nat /\ n - 1 \in T
  BY <1>1
<1> QED BY <1>1, <1>2

\* A recursion has a solution when each value depends on values of lower rank only.
LEMMA RankedRecursion ==
    ASSUME NEW D, NEW rank \in [D -> Nat], NEW Step \in [[D -> BOOLEAN] -> [D -> BOOLEAN]],
           \A g, h \in [D -> BOOLEAN], x \in D :
              (\A y \in D : rank[y] < rank[x] => g[y] = h[y]) => Step[g][x] = Step[h][x]
    PROVE  \E f \in [D -> BOOLEAN] : f = Step[f]
<1> DEFINE Upto(f, n) == \A x \in D : rank[x] < n => f[x] = Step[f][x]
           T == {n \in Nat : \E f \in [D -> BOOLEAN] : Upto(f, n)}
<1>1. 0 \in T
  <2>2. [x \in D |-> TRUE] \in [D -> BOOLEAN]
    OBVIOUS
  <2>3. Upto([x \in D |-> TRUE], 0)
    OBVIOUS
  <2> QED BY <2>2, <2>3
<1>2. ASSUME NEW n \in Nat, n \in T
      PROVE  n + 1 \in T
  <2>1. PICK f \in [D -> BOOLEAN] : Upto(f, n)
    BY <1>2
  <2> DEFINE g == [x \in D |-> IF rank[x] < n THEN f[x] ELSE Step[f][x]]
  <2>2. g \in [D -> BOOLEAN]
    OBVIOUS
  <2>3. ASSUME NEW x \in D, rank[x] < n + 1
        PROVE  g[x] = Step[g][x]
    <3>1. \A y \in D : rank[y] < rank[x] => f[y] = g[y]
      BY <2>3
    <3>2. Step[f][x] = Step[g][x]
      BY <2>2, <3>1
    <3> QED BY <2>1, <3>2
  <2> HIDE DEF g
  <2>4. Upto(g, n + 1)
    BY <2>3
  <2> QED BY <2>2, <2>4
<1>3. \A n \in Nat : n \in T
  <2> HIDE DEF T
  <2> QED BY <1>1, <1>2, AllNaturals
<1> DEFINE At(n) == CHOOSE f \in [D -> BOOLEAN] : Upto(f, n)
           lim == [x \in D |-> At(rank[x] + 1)[x]]
<1>4. \A n \in Nat : At(n) \in [D -> BOOLEAN] /\ Upto(At(n), n)
  BY <1>3
<1> HIDE DEF At, T
<1>5. \A m, n \in Nat : m <= n => \A x \in D : rank[x] < m => At(m)[x] = At(n)[x]
  <2> SUFFICES ASSUME NEW m \in Nat, NEW n \in Nat, m <= n,
                      NEW z \in D, rank[z] < m, At(m)[z] # At(n)[z]
               PROVE  FALSE
    OBVIOUS
  <2> DEFINE Bad == {x \in D : rank[x] < m /\ At(m)[x] # At(n)[x]}
             W == {rank[x] : x \in Bad}
  <2>0. z \in Bad /\ \A x \in Bad : rank[x] \in Nat
    OBVIOUS
  <2> HIDE DEF Bad
  <2>1. W \subseteq Nat /\ W # {}
    BY <2>0
  <2>2. \E w \in W : \A y \in W : w <= y
    BY <2>1, LeastNatural
  <2>3. PICK x \in Bad : \A y \in Bad : rank[x] <= rank[y]
    BY <2>2
  <2> USE DEF Bad
  <2>4. \A y \in D : rank[y] < rank[x] => At(m)[y] = At(n)[y]
    BY <2>3
  <2>5. Step[At(m)][x] = Step[At(n)][x]
    BY <1>4, <2>3, <2>4
  <2>6. At(m)[x] = Step[At(m)][x] /\ At(n)[x] = Step[At(n)][x]
    BY <1>4, <2>3
  <2> QED BY <2>3, <2>5, <2>6
<1>6. lim \in [D -> BOOLEAN]
  BY <1>4
<1>7. ASSUME NEW x \in D
      PROVE  lim[x] = Step[lim][x]
  <2>1. \A y \in D : rank[y] < rank[x] => lim[y] = At(rank[x] + 1)[y]
    BY <1>5
  <2>2. At(rank[x] + 1)[x] = Step[At(rank[x] + 1)][x]
    BY <1>4
  <2>3. Step[At(rank[x] + 1)][x] = Step[lim][x]
    <3>1. rank[x] + 1 \in Nat /\ At(rank[x] + 1) \in [D -> BOOLEAN]
      BY <1>4
    <3> HIDE DEF lim
    <3> QED BY <1>6, <2>1, <3>1
  <2> QED BY <2>2, <2>3
<1>8. lim = Step[lim]
  <2>1. Step[lim] \in [D -> BOOLEAN]
    BY <1>6
  <2> QED BY <1>6, <1>7, <2>1
<1> QED BY <1>6, <1>8

\* The positions of two sequences of m and n segments, and the ends behind them.
Grid(m, n) == (1..(m + 1)) \X (1..(n + 1))

\* A recursion over a grid that goes on to the next row, the next column or both
\* has a solution.
LEMMA GridRecursion ==
    ASSUME NEW m \in Nat, NEW n \in Nat,
           NEW Step \in [[Grid(m, n) -> BOOLEAN] -> [Grid(m, n) -> BOOLEAN]],
           \A g, h \in [Grid(m, n) -> BOOLEAN], i \in 1..(m + 1), j \in 1..(n + 1) :
              /\ i <= m => g[<<i + 1, j>>] = h[<<i + 1, j>>]
              /\ j <= n => g[<<i, j + 1>>] = h[<<i, j + 1>>]
              /\ i <= m /\ j <= n => g[<<i + 1, j + 1>>] = h[<<i + 1, j + 1>>]
              => Step[g][<<i, j>>] = Step[h][<<i, j>>]
    PROVE  \E f \in [Grid(m, n) -> BOOLEAN] : f = Step[f]
<1> DEFINE rank == [at \in Grid(m, n) |-> (m - at[1]) + (n - at[2]) + 2]
<1>1. rank \in [Grid(m, n) -> Nat]
  BY DEF Grid
<1>2. \A i \in 1..(m + 1), j \in 1..(n + 1) :
         <<i, j>> \in Grid(m, n) /\ rank[<<i, j>>] = (m - i) + (n - j) + 2
  BY DEF Grid
<1> HIDE DEF rank
<1>3. ASSUME NEW g \in [Grid(m, n) -> BOOLEAN], NEW h \in [Grid(m, n) -> BOOLEAN], NEW x \in Grid(m, n),
             \A y \in Grid(m, n) : rank[y] < rank[x] => g[y] = h[y]
      PROVE  Step[g][x] = Step[h][x]
  <2>1. PICK i \in 1..(m + 1), j \in 1..(n + 1) : x = <<i, j>>
    BY DEF Grid
  <2>2. /\ i <= m => <<i + 1, j>> \in Grid(m, n) /\ rank[<<i + 1, j>>] < rank[x]
        /\ j <= n => <<i, j + 1>> \in Grid(m, n) /\ rank[<<i, j + 1>>] < rank[x]
        /\ i <= m /\ j <= n => <<i + 1, j + 1>> \in Grid(m, n) /\ rank[<<i + 1, j + 1>>] < rank[x]
    BY <1>2, <2>1
  <2>3. /\ i <= m => g[<<i + 1, j>>] = h[<<i + 1, j>>]
        /\ j <= n => g[<<i, j + 1>>] = h[<<i, j + 1>>]
        /\ i <= m /\ j <= n => g[<<i + 1, j + 1>>] = h[<<i + 1, j + 1>>]
    BY <1>3, <2>2
  <2> QED BY <2>1, <2>3
<1>4. \A g, h \in [Grid(m, n) -> BOOLEAN], x \in Grid(m, n) :
         (\A y \in Grid(m, n) : rank[y] < rank[x] => g[y] = h[y]) => Step[g][x] = Step[h][x]
  BY <1>3
<1> QED BY <1>1, <1>4, RankedRecursion, ZenonT(40)

\* What SegmentsOverlap decides is the first value of a function with these rules.
LEMMA OverlapRules ==
    ASSUME NEW a, NEW b, Len(a) \in Nat, Len(b) \in Nat
    PROVE  \E f :
              /\ SegmentsOverlap(a, b) = f[<<1, 1>>]
              /\ f[<<Len(a) + 1, Len(b) + 1>>]
              /\ \A i \in 1..Len(a), j \in 1..(Len(b) + 1) :
                    a[i] = Multi /\ (f[<<i + 1, j>>] \/ (j <= Len(b) /\ f[<<i, j + 1>>])) => f[<<i, j>>]
              /\ \A i \in 1..(Len(a) + 1), j \in 1..Len(b) :
                    b[j] = Multi /\ (f[<<i, j + 1>>] \/ (i <= Len(a) /\ f[<<i + 1, j>>])) => f[<<i, j>>]
              /\ \A i \in 1..Len(a), j \in 1..Len(b) :
                    a[i] # Multi /\ b[j] # Multi /\ CanShareSegment(a[i], b[j]) /\ f[<<i + 1, j + 1>>]
                       => f[<<i, j>>]
<1> DEFINE m == Len(a)
           n == Len(b)
           D == (1..(m + 1)) \X (1..(n + 1))
           Value(match, i, j) ==
              CASE i > m /\ j > n -> TRUE
                [] i <= m /\ a[i] = Multi ->
                       match[<<i + 1, j>>] \/ (j <= n /\ match[<<i, j + 1>>])
                [] j <= n /\ b[j] = Multi ->
                       match[<<i, j + 1>>] \/ (i <= m /\ match[<<i + 1, j>>])
                [] OTHER -> /\ i <= m /\ j <= n
                            /\ CanShareSegment(a[i], b[j])
                            /\ match[<<i + 1, j + 1>>]
           Body(match) == [at \in D |-> Value(match, at[1], at[2])]
           Step == [g \in [D -> BOOLEAN] |-> Body(g)]
           f == CHOOSE g : g = Body(g)
<1>1. SegmentsOverlap(a, b) = f[<<1, 1>>]
  BY Zenon DEF SegmentsOverlap
<1> HIDE DEF f
<1>2. m \in Nat /\ n \in Nat
  OBVIOUS
<1> HIDE DEF m, n
<1>3. \A g, i, j : i \in 1..(m + 1) /\ j \in 1..(n + 1) => Value(g, i, j) \in BOOLEAN
  BY ZenonT(40)
<1>4. ASSUME NEW g \in [D -> BOOLEAN], NEW h \in [D -> BOOLEAN], NEW i \in 1..(m + 1), NEW j \in 1..(n + 1),
             /\ i <= m => g[<<i + 1, j>>] = h[<<i + 1, j>>]
             /\ j <= n => g[<<i, j + 1>>] = h[<<i, j + 1>>]
             /\ i <= m /\ j <= n => g[<<i + 1, j + 1>>] = h[<<i + 1, j + 1>>]
      PROVE  Value(g, i, j) <=> Value(h, i, j)
  <2> HIDE DEF D
  <2>1. CASE i > m /\ j > n
    BY <1>2, <2>1
  <2>2. CASE i <= m /\ a[i] = Multi
    BY <1>2, <1>4, <2>2
  <2>3. CASE ~(i <= m /\ a[i] = Multi) /\ j <= n /\ b[j] = Multi
    BY <1>2, <1>4, <2>3
  <2>4. CASE ~(i > m /\ j > n) /\ ~(i <= m /\ a[i] = Multi) /\ ~(j <= n /\ b[j] = Multi)
    BY <1>2, <1>4, <2>4
  <2> QED BY <2>1, <2>2, <2>3, <2>4
<1>5. /\ Value(f, m + 1, n + 1)
      /\ \A i \in 1..m, j \in 1..(n + 1) :
            a[i] = Multi /\ (f[<<i + 1, j>>] \/ (j <= n /\ f[<<i, j + 1>>])) => Value(f, i, j)
      /\ \A i \in 1..(m + 1), j \in 1..n :
            b[j] = Multi /\ (f[<<i, j + 1>>] \/ (i <= m /\ f[<<i + 1, j>>])) => Value(f, i, j)
      /\ \A i \in 1..m, j \in 1..n :
            a[i] # Multi /\ b[j] # Multi /\ CanShareSegment(a[i], b[j]) /\ f[<<i + 1, j + 1>>]
               => Value(f, i, j)
  BY <1>2
<1> HIDE DEF Value
<1>6. /\ D = Grid(m, n)
      /\ \A g : Body(g) \in [D -> BOOLEAN]
      /\ \A g, i, j : <<i, j>> \in D => Body(g)[<<i, j>>] = Value(g, i, j)
  BY <1>3 DEF Grid
<1> HIDE DEF Body
<1>7. Step \in [[D -> BOOLEAN] -> [D -> BOOLEAN]] /\ \A g \in [D -> BOOLEAN] : Step[g] = Body(g)
  BY <1>6
<1>8. \A i \in 1..(m + 1), j \in 1..(n + 1) : <<i, j>> \in D
  OBVIOUS
<1>9. \E g \in [D -> BOOLEAN] : g = Step[g]
  <2> HIDE DEF D, Step
  <2>1. \A g, h \in [D -> BOOLEAN], i \in 1..(m + 1), j \in 1..(n + 1) :
              /\ i <= m => g[<<i + 1, j>>] = h[<<i + 1, j>>]
              /\ j <= n => g[<<i, j + 1>>] = h[<<i, j + 1>>]
              /\ i <= m /\ j <= n => g[<<i + 1, j + 1>>] = h[<<i + 1, j + 1>>]
              => Step[g][<<i, j>>] = Step[h][<<i, j>>]
    <3> SUFFICES ASSUME NEW g \in [D -> BOOLEAN], NEW h \in [D -> BOOLEAN],
                        NEW i \in 1..(m + 1), NEW j \in 1..(n + 1),
                        /\ i <= m => g[<<i + 1, j>>] = h[<<i + 1, j>>]
                        /\ j <= n => g[<<i, j + 1>>] = h[<<i, j + 1>>]
                        /\ i <= m /\ j <= n => g[<<i + 1, j + 1>>] = h[<<i + 1, j + 1>>]
                 PROVE  Step[g][<<i, j>>] = Step[h][<<i, j>>]
      BY Zenon
    <3>1. Value(g, i, j) = Value(h, i, j)
      <4>1. Value(g, i, j) <=> Value(h, i, j)
        BY <1>4
      <4> QED BY <1>3, <4>1
    <3>2. /\ Step[g][<<i, j>>] = Value(g, i, j)
          /\ Step[h][<<i, j>>] = Value(h, i, j)
      BY <1>6, <1>7, <1>8
    <3> QED BY <3>1, <3>2
  <2> QED BY <1>2, <1>6, <1>7, <2>1, GridRecursion
<1>10. f = Body(f)
  BY <1>7, <1>9 DEF f
<1> HIDE DEF D, Step
<1>11. \A i \in 1..(m + 1), j \in 1..(n + 1) : f[<<i, j>>] = Value(f, i, j)
  BY <1>6, <1>8, <1>10
<1>12. /\ f[<<m + 1, n + 1>>] <=> Value(f, m + 1, n + 1)
       /\ \A i \in 1..m, j \in 1..(n + 1) : f[<<i, j>>] = Value(f, i, j)
       /\ \A i \in 1..(m + 1), j \in 1..n : f[<<i, j>>] = Value(f, i, j)
       /\ \A i \in 1..m, j \in 1..n : f[<<i, j>>] = Value(f, i, j)
  BY <1>2, <1>11
<1> QED BY <1>1, <1>5, <1>12, Zenon DEF m, n

\* What MatchesScopePattern decides is the first value of a function that is
\* true only for these reasons.
LEMMA MatchRules ==
    ASSUME NEW path, NEW pattern, Len(path) \in Nat, Len(CompileScopePattern(pattern)) \in Nat
    PROVE  LET s == CompileScopePattern(pattern)
               m == Len(s)
               n == Len(path)
           IN
           \E f :
              /\ MatchesScopePattern(path, pattern) = f[<<1, 1>>]
              /\ \A k \in 1..(n + 1) : f[<<m + 1, k>>] => k > n
              /\ \A i \in 1..m, k \in 1..(n + 1) :
                    s[i] = Multi /\ f[<<i, k>>] =>
                       \/ i = m /\ k <= n
                       \/ i < m /\ f[<<i + 1, k>>]
                       \/ i < m /\ k <= n /\ f[<<i, k + 1>>]
              /\ \A i \in 1..m, k \in 1..(n + 1) :
                    s[i] # Multi /\ f[<<i, k>>] =>
                       k <= n /\ path[k] \in s[i].names /\ f[<<i + 1, k + 1>>]
<1> DEFINE s == CompileScopePattern(pattern)
           m == Len(s)
           n == Len(path)
           D == (1..(m + 1)) \X (1..(n + 1))
           Value(match, i, j) ==
              \/ i > m /\ j > n
              \/ i = m /\ s[i] = Multi /\ j <= n
              \/ /\ i < m /\ s[i] = Multi
                 /\ match[<<i + 1, j>>] \/ (j <= n /\ match[<<i, j + 1>>])
              \/ /\ i <= m /\ s[i] # Multi
                 /\ j <= n /\ path[j] \in s[i].names
                 /\ match[<<i + 1, j + 1>>]
           Body(match) == [at \in D |-> Value(match, at[1], at[2])]
           Step == [g \in [D -> BOOLEAN] |-> Body(g)]
           f == CHOOSE g : g = Body(g)
<1>1. MatchesScopePattern(path, pattern) = f[<<1, 1>>]
  BY Zenon DEF MatchesScopePattern
<1>2. m \in Nat /\ n \in Nat
  OBVIOUS
<1> HIDE DEF f, s, m, n
<1>3. \A g, i, j : Value(g, i, j) \in BOOLEAN
  OBVIOUS
<1>4. ASSUME NEW g \in [D -> BOOLEAN], NEW h \in [D -> BOOLEAN], NEW i \in 1..(m + 1), NEW j \in 1..(n + 1),
             /\ i <= m => g[<<i + 1, j>>] = h[<<i + 1, j>>]
             /\ j <= n => g[<<i, j + 1>>] = h[<<i, j + 1>>]
             /\ i <= m /\ j <= n => g[<<i + 1, j + 1>>] = h[<<i + 1, j + 1>>]
      PROVE  Value(g, i, j) <=> Value(h, i, j)
  <2> HIDE DEF D
  <2>1. CASE i > m \/ (i = m /\ s[i] = Multi)
    BY <1>2, <2>1
  <2>2. CASE i < m /\ s[i] = Multi
    BY <1>2, <1>4, <2>2
  <2>3. CASE i <= m /\ s[i] # Multi
    BY <1>2, <1>4, <2>3
  <2> QED BY <1>2, <2>1, <2>2, <2>3
<1>5. /\ \A k \in 1..(n + 1) : Value(f, m + 1, k) => k > n
      /\ \A i \in 1..m, k \in 1..(n + 1) :
            s[i] = Multi /\ Value(f, i, k) =>
               \/ i = m /\ k <= n
               \/ i < m /\ f[<<i + 1, k>>]
               \/ i < m /\ k <= n /\ f[<<i, k + 1>>]
      /\ \A i \in 1..m, k \in 1..(n + 1) :
            s[i] # Multi /\ Value(f, i, k) =>
               k <= n /\ path[k] \in s[i].names /\ f[<<i + 1, k + 1>>]
  BY <1>2
<1> HIDE DEF Value
<1>6. /\ D = Grid(m, n)
      /\ \A g : Body(g) \in [D -> BOOLEAN]
      /\ \A g, i, j : <<i, j>> \in D => Body(g)[<<i, j>>] = Value(g, i, j)
  BY <1>3 DEF Grid
<1> HIDE DEF Body
<1>7. Step \in [[D -> BOOLEAN] -> [D -> BOOLEAN]] /\ \A g \in [D -> BOOLEAN] : Step[g] = Body(g)
  BY <1>6
<1>8. \A i \in 1..(m + 1), j \in 1..(n + 1) : <<i, j>> \in D
  OBVIOUS
<1>9. \E g \in [D -> BOOLEAN] : g = Step[g]
  <2> HIDE DEF D, Step
  <2>1. \A g, h \in [D -> BOOLEAN], i \in 1..(m + 1), j \in 1..(n + 1) :
              /\ i <= m => g[<<i + 1, j>>] = h[<<i + 1, j>>]
              /\ j <= n => g[<<i, j + 1>>] = h[<<i, j + 1>>]
              /\ i <= m /\ j <= n => g[<<i + 1, j + 1>>] = h[<<i + 1, j + 1>>]
              => Step[g][<<i, j>>] = Step[h][<<i, j>>]
    <3> SUFFICES ASSUME NEW g \in [D -> BOOLEAN], NEW h \in [D -> BOOLEAN],
                        NEW i \in 1..(m + 1), NEW j \in 1..(n + 1),
                        /\ i <= m => g[<<i + 1, j>>] = h[<<i + 1, j>>]
                        /\ j <= n => g[<<i, j + 1>>] = h[<<i, j + 1>>]
                        /\ i <= m /\ j <= n => g[<<i + 1, j + 1>>] = h[<<i + 1, j + 1>>]
                 PROVE  Step[g][<<i, j>>] = Step[h][<<i, j>>]
      BY Zenon
    <3>1. Value(g, i, j) = Value(h, i, j)
      <4>1. Value(g, i, j) <=> Value(h, i, j)
        BY <1>4
      <4> QED BY <1>3, <4>1
    <3>2. /\ Step[g][<<i, j>>] = Value(g, i, j)
          /\ Step[h][<<i, j>>] = Value(h, i, j)
      BY <1>6, <1>7, <1>8
    <3> QED BY <3>1, <3>2
  <2> QED BY <1>2, <1>6, <1>7, <2>1, GridRecursion
<1>10. f = Body(f)
  BY <1>7, <1>9 DEF f
<1> HIDE DEF D, Step
<1>11. \A i \in 1..(m + 1), j \in 1..(n + 1) : f[<<i, j>>] = Value(f, i, j)
  BY <1>6, <1>8, <1>10
<1>12. /\ \A k \in 1..(n + 1) : f[<<m + 1, k>>] = Value(f, m + 1, k)
       /\ \A i \in 1..m, k \in 1..(n + 1) : f[<<i, k>>] = Value(f, i, k)
  BY <1>2, <1>11
<1>13. /\ \A k \in 1..(n + 1) : f[<<m + 1, k>>] => k > n
       /\ \A i \in 1..m, k \in 1..(n + 1) :
            s[i] = Multi /\ f[<<i, k>>] =>
               \/ i = m /\ k <= n
               \/ i < m /\ f[<<i + 1, k>>]
               \/ i < m /\ k <= n /\ f[<<i, k + 1>>]
       /\ \A i \in 1..m, k \in 1..(n + 1) :
            s[i] # Multi /\ f[<<i, k>>] =>
               k <= n /\ path[k] \in s[i].names /\ f[<<i + 1, k + 1>>]
  BY <1>5, <1>12
<1> QED BY <1>1, <1>13, Zenon DEF m, n, s

\* The two compilations of one pattern differ in a last ** at most: the check
\* appends it to "docs/**/" too.
LEMMA CompiledPattern ==
    ASSUME NEW pattern, IsPattern(pattern)
    PROVE  LET s == CompileScopePattern(pattern)
               t == CompileScopeSegments(pattern)
           IN
           /\ Len(s) \in Nat /\ Len(t) \in {Len(s), Len(s) + 1}
           /\ \A i \in 1..Len(s) : t[i] = s[i] /\ IsSegment(s[i])
           /\ Len(t) > Len(s) => t[Len(t)] = Multi
<1> DEFINE used == {pattern.segments[i] : i \in DOMAIN pattern.segments}
<1>1. /\ pattern.segments \in Seq(used) /\ Len(pattern.segments) > 0
      /\ \A segment \in used \cup {Multi} : IsSegment(segment)
  BY DEF IsPattern, IsSegment
<1> HIDE DEF used
<1>2. Anchored(pattern) \in Seq(used \cup {Multi}) /\ Len(Anchored(pattern)) > 0
  <2> HIDE DEF Multi
  <2>1. pattern.segments \in Seq(used \cup {Multi}) /\ <<Multi>> \in Seq(used \cup {Multi})
    BY <1>1
  <2>2. CASE Len(pattern.segments) = 1
    <3>1. <<Multi>> \o pattern.segments \in Seq(used \cup {Multi})
      BY <2>1
    <3>2. Len(<<Multi>> \o pattern.segments) > 0
      <4>1. Len(<<Multi>>) = 1 /\ Len(<<Multi>>) \in Nat /\ Len(pattern.segments) \in Nat
        BY <2>1
      <4>2. Len(<<Multi>> \o pattern.segments) = Len(<<Multi>>) + Len(pattern.segments)
        BY <2>1
      <4> QED BY <2>2, <4>1, <4>2
    <3> QED BY <2>2, <3>1, <3>2 DEF Anchored
  <2> QED BY <1>1, <2>1, <2>2 DEF Anchored
<1>3. Multi \in used \cup {Multi}
  OBVIOUS
<1> HIDE DEF Multi
<1>4. CASE CompileScopePattern(pattern) = Anchored(pattern) /\ CompileScopeSegments(pattern) = Anchored(pattern)
  BY <1>1, <1>2, <1>4
<1>5. CASE /\ CompileScopePattern(pattern) = Append(Anchored(pattern), Multi)
           /\ CompileScopeSegments(pattern) = Append(Anchored(pattern), Multi)
  BY <1>1, <1>2, <1>3, <1>5
<1>6. CASE /\ CompileScopePattern(pattern) = Anchored(pattern)
           /\ CompileScopeSegments(pattern) = Append(Anchored(pattern), Multi)
  BY <1>1, <1>2, <1>3, <1>6
<1> QED BY <1>4, <1>5, <1>6 DEF CompileScopePattern, CompileScopeSegments

\* How ** overlaps: it takes no segment of the other pattern, or one more.
MultiRule(f, a, m, n) ==
    /\ m \in Nat /\ n \in Nat
    /\ f[<<m + 1, n + 1>>]
    /\ \A i \in 1..m, j \in 1..(n + 1) :
          a[i] = Multi /\ (f[<<i + 1, j>>] \/ (j <= n /\ f[<<i, j + 1>>])) => f[<<i, j>>]

\* A pattern of which only ** is left overlaps whatever is left of the other.
LEMMA MultiTailOverlaps ==
    ASSUME NEW f, NEW a, NEW m, NEW n, MultiRule(f, a, m, n),
           NEW k \in 1..m, \A i \in k..m : a[i] = Multi
    PROVE  \A j \in 1..(n + 1) : f[<<k, j>>]
<1> USE DEF MultiRule
<1> SUFFICES ASSUME NEW l \in 1..(n + 1), ~f[<<k, l>>]
             PROVE  FALSE
  OBVIOUS
<1> DEFINE W == {w \in Nat : \E i \in k..m, j \in 1..(n + 1) :
                                w = (m - i) + (n + 1 - j) /\ ~f[<<i, j>>]}
<1>1. \A i \in k..m, j \in 1..(n + 1) : ~f[<<i, j>>] => (m - i) + (n + 1 - j) \in W
  <2> SUFFICES ASSUME NEW i \in k..m, NEW j \in 1..(n + 1), ~f[<<i, j>>]
               PROVE  (m - i) + (n + 1 - j) \in W
    OBVIOUS
  <2>1. (m - i) + (n + 1 - j) \in Nat
    OBVIOUS
  <2> QED BY <2>1
<1>2. \A w \in W : w \in Nat /\ \E i \in k..m, j \in 1..(n + 1) :
                                w = (m - i) + (n + 1 - j) /\ ~f[<<i, j>>]
  OBVIOUS
<1> HIDE DEF W
<1>3. W # {}
  BY <1>1
<1>4. PICK w \in W : \A v \in W : w <= v
  BY <1>2, <1>3, LeastNatural
<1>5. PICK i \in k..m, j \in 1..(n + 1) : w = (m - i) + (n + 1 - j) /\ ~f[<<i, j>>]
  BY <1>2
<1>6. j <= n => f[<<i, j + 1>>]
  <2> SUFFICES ASSUME j <= n, ~f[<<i, j + 1>>] PROVE FALSE
    OBVIOUS
  <2>1. (m - i) + (n + 1 - (j + 1)) \in W
    BY <1>1, <1>5
  <2> QED BY <1>4, <1>5, <2>1
<1>7. i < m => f[<<i + 1, j>>]
  <2> SUFFICES ASSUME i < m, ~f[<<i + 1, j>>] PROVE FALSE
    OBVIOUS
  <2>1. (m - (i + 1)) + (n + 1 - j) \in W
    BY <1>1, <1>5
  <2> QED BY <1>4, <1>5, <2>1
<1> QED BY <1>5, <1>6, <1>7

\* The same with the patterns exchanged.
LEMMA MultiTailOverlapsRight ==
    ASSUME NEW f, NEW b, NEW m \in Nat, NEW n \in Nat,
           f[<<m + 1, n + 1>>],
           \A i \in 1..(m + 1), j \in 1..n :
              b[j] = Multi /\ (f[<<i, j + 1>>] \/ (i <= m /\ f[<<i + 1, j>>])) => f[<<i, j>>],
           NEW k \in 1..n, \A j \in k..n : b[j] = Multi
    PROVE  \A i \in 1..(m + 1) : f[<<i, k>>]
<1>1. PICK e : \A j \in 1..(n + 1), i \in 1..(m + 1) : e[<<j, i>>] = f[<<i, j>>]
  <2> WITNESS [at \in (1..(n + 1)) \X (1..(m + 1)) |-> f[<<at[2], at[1]>>]]
  <2> QED OBVIOUS
<1>2. e[<<n + 1, m + 1>>]
  BY <1>1
<1>3. \A i \in 1..n, j \in 1..(m + 1) :
         b[i] = Multi /\ (e[<<i + 1, j>>] \/ (j <= m /\ e[<<i, j + 1>>])) => e[<<i, j>>]
  <2> SUFFICES ASSUME NEW j \in 1..n, NEW i \in 1..(m + 1),
                      b[j] = Multi, e[<<j + 1, i>>] \/ (i <= m /\ e[<<j, i + 1>>])
               PROVE  e[<<j, i>>]
    OBVIOUS
  <2>1. /\ e[<<j + 1, i>>] = f[<<i, j + 1>>] /\ e[<<j, i>>] = f[<<i, j>>]
        /\ i <= m => e[<<j, i + 1>>] = f[<<i + 1, j>>]
    BY <1>1
  <2>2. f[<<i, j>>]
    BY <2>1
  <2> QED BY <2>1, <2>2
<1>4. \A j \in 1..(m + 1) : e[<<k, j>>]
  <2>1. MultiRule(e, b, n, m)
    BY <1>2, <1>3, Zenon DEF MultiRule
  <2> QED BY <2>1, MultiTailOverlaps, Zenon
<1>5. k \in 1..(n + 1)
  OBVIOUS
<1> QED BY <1>1, <1>4, <1>5

\* A name that two segments both match is one the check lets them share.
LEMMA OneNameIsShared ==
    ASSUME NEW s, NEW t, NEW name, IsSegment(s), IsSegment(t), s # Multi, t # Multi,
           name \in s.names, name \in t.names
    PROVE  CanShareSegment(s, t)
<1> SUFFICES ASSUME s.kind = "literal", t.kind = "literal" PROVE s.names = t.names
  BY DEF CanShareSegment
<1>1. PICK x \in s.names : s = Literal(x)
  BY DEF IsSegment, Wildcard
<1>2. PICK y \in t.names : t = Literal(y)
  BY DEF IsSegment, Wildcard
<1> QED BY <1>1, <1>2 DEF Literal

\* A path that two patterns match walks both of them to their ends at once; the
\* overlap is true all along the walk, from its end back to its start.
LEMMA SharedPathOverlaps ==
    ASSUME NEW path, NEW p, NEW q, Len(path) \in Nat, IsPattern(p), IsPattern(q),
           MatchesScopePattern(path, p), MatchesScopePattern(path, q)
    PROVE  SegmentsOverlap(CompileScopeSegments(p), CompileScopeSegments(q))
<1> DEFINE a == CompileScopePattern(p)
           b == CompileScopePattern(q)
           c == CompileScopeSegments(p)
           d == CompileScopeSegments(q)
           m == Len(a)
           n == Len(b)
           M == Len(c)
           N == Len(d)
           L == Len(path)
<1>1. /\ m \in Nat /\ M \in {m, m + 1}
      /\ \A i \in 1..m : c[i] = a[i] /\ IsSegment(a[i])
      /\ M > m => c[M] = Multi
  BY CompiledPattern
<1>2. /\ n \in Nat /\ N \in {n, n + 1}
      /\ \A j \in 1..n : d[j] = b[j] /\ IsSegment(b[j])
      /\ N > n => d[N] = Multi
  BY CompiledPattern
<1>3. PICK g :
         /\ g[<<1, 1>>]
         /\ \A k \in 1..(L + 1) : g[<<m + 1, k>>] => k > L
         /\ \A i \in 1..m, k \in 1..(L + 1) :
               a[i] = Multi /\ g[<<i, k>>] =>
                  \/ i = m /\ k <= L
                  \/ i < m /\ g[<<i + 1, k>>]
                  \/ i < m /\ k <= L /\ g[<<i, k + 1>>]
         /\ \A i \in 1..m, k \in 1..(L + 1) :
               a[i] # Multi /\ g[<<i, k>>] => k <= L /\ path[k] \in a[i].names /\ g[<<i + 1, k + 1>>]
  BY <1>1, MatchRules, Zenon
<1>4. PICK h :
         /\ h[<<1, 1>>]
         /\ \A k \in 1..(L + 1) : h[<<n + 1, k>>] => k > L
         /\ \A j \in 1..n, k \in 1..(L + 1) :
               b[j] = Multi /\ h[<<j, k>>] =>
                  \/ j = n /\ k <= L
                  \/ j < n /\ h[<<j + 1, k>>]
                  \/ j < n /\ k <= L /\ h[<<j, k + 1>>]
         /\ \A j \in 1..n, k \in 1..(L + 1) :
               b[j] # Multi /\ h[<<j, k>>] => k <= L /\ path[k] \in b[j].names /\ h[<<j + 1, k + 1>>]
  BY <1>2, MatchRules, Zenon
<1>5. M \in Nat /\ N \in Nat /\ L \in Nat
  BY <1>1, <1>2
<1>6. PICK f :
         /\ SegmentsOverlap(c, d) = f[<<1, 1>>]
         /\ f[<<M + 1, N + 1>>]
         /\ \A i \in 1..M, j \in 1..(N + 1) :
               c[i] = Multi /\ (f[<<i + 1, j>>] \/ (j <= N /\ f[<<i, j + 1>>])) => f[<<i, j>>]
         /\ \A i \in 1..(M + 1), j \in 1..N :
               d[j] = Multi /\ (f[<<i, j + 1>>] \/ (i <= M /\ f[<<i + 1, j>>])) => f[<<i, j>>]
         /\ \A i \in 1..M, j \in 1..N :
               c[i] # Multi /\ d[j] # Multi /\ CanShareSegment(c[i], d[j]) /\ f[<<i + 1, j + 1>>]
                  => f[<<i, j>>]
  BY <1>5, OverlapRules, Zenon
<1> HIDE DEF a, b, c, d, m, n, M, N, L
<1>7. \A i \in 1..M : (\A x \in i..M : c[x] = Multi) => \A j \in 1..(N + 1) : f[<<i, j>>]
  <2> SUFFICES ASSUME NEW i \in 1..M, \A x \in i..M : c[x] = Multi
               PROVE  \A j \in 1..(N + 1) : f[<<i, j>>]
    OBVIOUS
  <2>1. MultiRule(f, c, M, N)
    BY <1>5, <1>6, Zenon DEF MultiRule
  <2> QED BY <2>1, MultiTailOverlaps, Zenon
<1>8. \A j \in 1..N : (\A x \in j..N : d[x] = Multi) => \A i \in 1..(M + 1) : f[<<i, j>>]
  <2> SUFFICES ASSUME NEW j \in 1..N, \A x \in j..N : d[x] = Multi
               PROVE  \A i \in 1..(M + 1) : f[<<i, j>>]
    OBVIOUS
  <2> QED BY <1>5, <1>6, MultiTailOverlapsRight, Zenon
<1> DEFINE Bad(i, j, k) == g[<<i, k>>] /\ h[<<j, k>>] /\ ~f[<<i, j>>]
           Left(i, j, k) == (m - i) + (n - j) + (L - k) + 3
           W == {w \in Nat : \E i \in 1..(m + 1), j \in 1..(n + 1), k \in 1..(L + 1) :
                                w = Left(i, j, k) /\ Bad(i, j, k)}
<1>9. \A i \in 1..(m + 1), j \in 1..(n + 1), k \in 1..(L + 1) : Bad(i, j, k) => Left(i, j, k) \in W
  <2> SUFFICES ASSUME NEW i \in 1..(m + 1), NEW j \in 1..(n + 1), NEW k \in 1..(L + 1), Bad(i, j, k)
               PROVE  Left(i, j, k) \in W
    OBVIOUS
  <2>1. Left(i, j, k) \in Nat
    BY <1>1, <1>2, <1>5
  <2> QED BY <2>1
<1>10. \A w \in W : w \in Nat /\ \E i \in 1..(m + 1), j \in 1..(n + 1), k \in 1..(L + 1) :
                                    w = Left(i, j, k) /\ Bad(i, j, k)
  OBVIOUS
<1> HIDE DEF W
<1>11. SUFFICES ASSUME ~f[<<1, 1>>] PROVE FALSE
  BY <1>6 DEF c, d
<1>12. W # {}
  <2>1. Bad(1, 1, 1) /\ 1 \in 1..(m + 1) /\ 1 \in 1..(n + 1) /\ 1 \in 1..(L + 1)
    BY <1>1, <1>2, <1>3, <1>4, <1>5, <1>11
  <2> QED BY <1>9, <2>1
<1>13. PICK w \in W : \A v \in W : w <= v
  BY <1>10, <1>12, LeastNatural
<1>14. PICK i \in 1..(m + 1), j \in 1..(n + 1), k \in 1..(L + 1) : w = Left(i, j, k) /\ Bad(i, j, k)
  BY <1>10
<1>15. ASSUME NEW u \in 1..(m + 1), NEW v \in 1..(n + 1), NEW z \in 1..(L + 1),
              i <= u, j <= v, k <= z, i < u \/ j < v \/ k < z,
              g[<<u, z>>], h[<<v, z>>]
       PROVE  f[<<u, v>>]
  <2> SUFFICES ASSUME ~f[<<u, v>>] PROVE FALSE
    OBVIOUS
  <2>1. Left(u, v, z) \in W
    BY <1>9, <1>15
  <2>2. w <= Left(u, v, z)
    BY <1>13, <2>1
  <2> QED BY <1>1, <1>2, <1>5, <1>14, <1>15, <2>2
<1>16. g[<<i, k>>] /\ h[<<j, k>>] /\ ~f[<<i, j>>] /\ i <= M + 1 /\ j <= N + 1
  BY <1>1, <1>2, <1>14
<1>17. /\ i <= m /\ a[i] = Multi => ~(i = m)
       /\ j <= n /\ b[j] = Multi => ~(j = n)
  <2>1. ASSUME i = m, a[i] = Multi PROVE FALSE
    <3>1. i \in 1..M /\ \A x \in i..M : c[x] = Multi
      BY <1>1, <2>1
    <3> QED BY <1>2, <1>5, <1>7, <1>16, <3>1
  <2>2. ASSUME j = n, b[j] = Multi PROVE FALSE
    <3>1. j \in 1..N /\ \A x \in j..N : d[x] = Multi
      BY <1>2, <2>2
    <3> QED BY <1>1, <1>5, <1>8, <1>16, <3>1
  <2> QED BY <2>1, <2>2
<1>18. k <= L => i <= m /\ j <= n
  <2>1. i = m + 1 => k > L
    BY <1>3, <1>16
  <2>2. j = n + 1 => k > L
    BY <1>4, <1>16
  <2> QED BY <1>1, <1>2, <1>5, <2>1, <2>2
<1>19. CASE i <= m /\ a[i] = Multi
  <2>1. i < m /\ c[i] = Multi /\ i \in 1..M /\ j \in 1..(N + 1)
    BY <1>1, <1>2, <1>17, <1>19
  <2>2. ~g[<<i + 1, k>>]
    <3>1. g[<<i + 1, k>>] => f[<<i + 1, j>>]
      BY <1>1, <1>2, <1>5, <1>15, <1>16, <2>1
    <3> QED BY <1>6, <1>16, <2>1, <3>1
  <2>3. k <= L /\ g[<<i, k + 1>>]
    BY <1>1, <1>3, <1>16, <1>19, <2>1, <2>2
  <2>4. j <= n /\ j <= N
    BY <1>2, <1>18, <2>3
  <2>5. ~f[<<i, j + 1>>]
    BY <1>6, <1>16, <2>1, <2>4
  <2> j \in 1..n
    BY <1>2, <2>4
  <2>6. b[j] = Multi => h[<<j + 1, k>>] \/ h[<<j, k + 1>>]
    <3>1. b[j] = Multi => j < n
      BY <1>2, <1>17, <2>4
    <3> QED BY <1>4, <1>16, <3>1
  <2>7. b[j] # Multi => h[<<j + 1, k + 1>>]
    BY <1>4, <1>16
  <2> QED BY <1>1, <1>2, <1>5, <1>15, <1>16, <2>3, <2>4, <2>5, <2>6, <2>7
<1>20. CASE ~(i <= m /\ a[i] = Multi) /\ j <= n /\ b[j] = Multi
  <2>1. j < n /\ d[j] = Multi /\ j \in 1..N /\ i \in 1..(M + 1)
    BY <1>1, <1>2, <1>17, <1>20
  <2>2. ~h[<<j + 1, k>>]
    <3>1. h[<<j + 1, k>>] => f[<<i, j + 1>>]
      BY <1>1, <1>2, <1>5, <1>15, <1>16, <2>1
    <3> QED BY <1>6, <1>16, <2>1, <3>1
  <2>3. k <= L /\ h[<<j, k + 1>>]
    <3>1. j \in 1..n /\ ~(j = n)
      BY <1>2, <2>1
    <3> QED BY <1>4, <1>16, <1>20, <2>2, <3>1
  <2>4. i <= m /\ i <= M
    BY <1>1, <1>18, <2>3
  <2>5. g[<<i + 1, k + 1>>]
    BY <1>3, <1>16, <1>20, <2>4
  <2>6. f[<<i + 1, j>>]
    BY <1>1, <1>2, <1>5, <1>15, <2>3, <2>4, <2>5, SMTT(20)
  <2> QED BY <1>6, <1>16, <2>1, <2>4, <2>6
<1>21. CASE ~(i <= m /\ a[i] = Multi) /\ ~(j <= n /\ b[j] = Multi)
  <2>1. CASE k <= L
    <3>1. i \in 1..m /\ j \in 1..n /\ a[i] # Multi /\ b[j] # Multi
      BY <1>1, <1>2, <1>18, <1>21, <2>1
    <3>2. path[k] \in a[i].names /\ path[k] \in b[j].names /\ g[<<i + 1, k + 1>>] /\ h[<<j + 1, k + 1>>]
      BY <1>3, <1>4, <1>16, <3>1
    <3>3. f[<<i + 1, j + 1>>]
      <4>1. /\ i + 1 \in 1..(m + 1) /\ j + 1 \in 1..(n + 1) /\ k + 1 \in 1..(L + 1)
            /\ i <= i + 1 /\ j <= j + 1 /\ k <= k + 1 /\ i < i + 1
        BY <1>1, <1>2, <1>5, <2>1, <3>1
      <4> QED BY <1>15, <3>2, <4>1
    <3>4. CanShareSegment(a[i], b[j])
      <4>1. IsSegment(a[i]) /\ IsSegment(b[j])
        BY <1>1, <1>2, <3>1
      <4> QED BY <3>1, <3>2, <4>1, OneNameIsShared
    <3>5. i \in 1..M /\ j \in 1..N /\ c[i] = a[i] /\ d[j] = b[j]
      BY <1>1, <1>2, <3>1
    <3> QED BY <1>6, <1>16, <3>1, <3>3, <3>4, <3>5
  <2>2. CASE ~(k <= L)
    <3>1. i = m + 1 /\ j = n + 1
      <4>1. ~(i \in 1..m)
        <5>1. i \in 1..m => a[i] # Multi
          BY <1>1, <1>21
        <5> QED BY <1>3, <1>16, <2>2, <5>1
      <4>2. ~(j \in 1..n)
        <5>1. j \in 1..n => b[j] # Multi
          BY <1>2, <1>21
        <5> QED BY <1>4, <1>16, <2>2, <5>1
      <4> QED BY <1>1, <1>2, <4>1, <4>2
    <3>2. CASE M = m + 1
      <4>1. i \in 1..M /\ \A x \in i..M : c[x] = Multi
        BY <1>1, <3>1, <3>2
      <4> QED BY <1>2, <1>5, <1>7, <1>16, <4>1
    <3>3. CASE N = n + 1
      <4>1. j \in 1..N /\ \A x \in j..N : d[x] = Multi
        BY <1>2, <3>1, <3>3
      <4> QED BY <1>1, <1>5, <1>8, <1>16, <4>1
    <3> QED BY <1>1, <1>2, <1>6, <1>16, <3>1, <3>2, <3>3
  <2> QED BY <2>1, <2>2
<1> QED BY <1>19, <1>20, <1>21

\* What the static check promises the schedule: two scopes that it keeps apart
\* share no path that validateTaskScope would let both tasks change.
THEOREM ScopeConflictsAreFound ==
    ASSUME NEW path, NEW scope, NEW other, Len(path) \in Nat,
           IsScope(scope), IsScope(other), InTaskScope(path, scope), InTaskScope(path, other)
    PROVE  ScopesOverlap(scope, other)
<1>1. PICK p \in scope.allowedPaths : MatchesScopePattern(path, p)
  BY DEF InTaskScope
<1>2. PICK q \in other.allowedPaths : MatchesScopePattern(path, q)
  BY DEF InTaskScope
<1>3. IsPattern(p) /\ IsPattern(q)
  BY DEF IsScope
<1> QED BY <1>1, <1>2, <1>3, SharedPathOverlaps DEF ScopesOverlap
=============================================================================
