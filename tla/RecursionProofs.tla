-------------------------- MODULE RecursionProofs --------------------------
(***************************************************************************)
(* Theorems about the two programs that are recursive functions: the       *)
(* alignment of strands, for any bases and length, and the ranking of      *)
(* guesses, for any stars, distances and ratings.                          *)
(***************************************************************************)
EXTENDS Align, WhereAmI, SequenceTheorems, FiniteSetTheorems, WellFoundedInduction, TLAPS

\* The least number outside T, if there were one, would be in T.
LEMMA StrongInduction ==
    ASSUME NEW T, \A n \in Nat : (\A m \in Nat : m < n => m \in T) => n \in T
    PROVE  Nat \subseteq T
<1> SUFFICES ASSUME NEW n \in Nat, n \notin T PROVE FALSE
  OBVIOUS
<1> DEFINE B == {m \in Nat : m \notin T}
           R == OpToRel(<, Nat)
<1>1. IsWellFoundedOn(R, Nat)
  BY NatLessThanWellFounded, Zenon
<1>2. \A m, k \in Nat : m < k => <<m, k>> \in R
  BY DEF OpToRel
<1>3. B \subseteq Nat /\ B # {}
  OBVIOUS
<1> HIDE DEF R
<1>4. \E k \in B : \A m \in B : ~ (<<m, k>> \in R)
  <2> HIDE DEF B
  <2> QED BY <1>1, <1>3, WFMin
<1>5. PICK k \in B : \A m \in B : ~ (m < k)
  BY <1>2, <1>3, <1>4, Zenon
<1>6. \A m \in Nat : m < k => m \in T
  BY <1>5
<1> QED BY <1>5, <1>6

LEMMA Induction ==
    ASSUME NEW T, 0 \in T, \A n \in Nat : n \in T => n + 1 \in T
    PROVE  Nat \subseteq T
<1>1. ASSUME NEW n \in Nat, \A m \in Nat : m < n => m \in T PROVE n \in T
  <2>1. CASE n = 0 BY <2>1
  <2>2. CASE n # 0
    <3>1. n - 1 \in Nat /\ n - 1 < n /\ (n - 1) + 1 = n BY <2>2
    <3>2. n - 1 \in T BY <1>1, <3>1
    <3>3. (n - 1) + 1 \in T BY <3>1, <3>2
    <3> QED BY <3>1, <3>3
  <2> QED BY <2>1, <2>2
<1> QED BY <1>1, StrongInduction, Zenon

-----------------------------------------------------------------------------
(* Recursive functions.  F[<<g, x>>] is the value at x, as computed with g  *)
(* for the calls it makes, which are for arguments of smaller size.         *)

\* The functions g from a part E of D of which P holds: P has the pairs of an
\* argument and a value that may go with it.
Obeys(g, E, P) == g = [y \in E |-> g[y]] /\ \A y \in E : <<y, g[y]>> \in P
Partial(D, P) ==
    {g \in UNION {[E -> {p[2] : p \in P}] : E \in SUBSET D} : \A y \in DOMAIN g : <<y, g[y]>> \in P}

Below(D, size, n) == {x \in D : size[x] < n}

\* Calls of a smaller size are all that a value depends on.
OnSmaller(F, D, P, size) ==
    /\ \A g \in Partial(D, P), x \in D :
          Below(D, size, size[x]) \subseteq DOMAIN g => <<x, F[<<g, x>>]>> \in P
    /\ \A g, h \in Partial(D, P), x \in D :
          /\ Below(D, size, size[x]) \subseteq DOMAIN g
          /\ Below(D, size, size[x]) \subseteq DOMAIN h
          /\ \A y \in Below(D, size, size[x]) : g[y] = h[y]
          => F[<<g, x>>] = F[<<h, x>>]

Solves(g, F, D, P, size, n) ==
    /\ Obeys(g, Below(D, size, n), P)
    /\ \A x \in Below(D, size, n) : g[x] = F[<<g, x>>]

\* A function with domain E that has pairs of P only is a part of a solution.
LEMMA PartialIs ==
    ASSUME NEW D, NEW P, NEW E \in SUBSET D, NEW g, Obeys(g, E, P)
    PROVE  g \in Partial(D, P) /\ DOMAIN g = E
<1>1. DOMAIN g = E /\ \A y \in E : <<y, g[y]>> \in P
  BY DEF Obeys
<1> DEFINE R == {p[2] : p \in P}
<1>2. ASSUME NEW y \in E PROVE g[y] \in R
  <2>1. <<y, g[y]>> \in P /\ <<y, g[y]>>[2] = g[y]
    BY <1>1
  <2> QED BY <2>1
<1> HIDE DEF R
<1>3. g \in [E -> R]
  BY <1>2 DEF Obeys
<1> QED BY <1>1, <1>3, Zenon DEF Partial, R

\* Two solutions, each up to a size, are the same where both are.
LEMMA OneSolution ==
    ASSUME NEW D, NEW P, NEW size \in [D -> Nat], NEW F, OnSmaller(F, D, P, size),
           NEW m \in Nat, NEW n \in Nat, NEW g, NEW h,
           Solves(g, F, D, P, size, m), Solves(h, F, D, P, size, n),
           NEW x \in D, size[x] < m, size[x] < n
    PROVE  g[x] = h[x]
<1> DEFINE Same(k) == \A y \in D : size[y] = k /\ size[y] < m /\ size[y] < n => g[y] = h[y]
           T == {k \in Nat : Same(k)}
<1>1. ASSUME NEW k \in Nat, \A j \in Nat : j < k => j \in T PROVE k \in T
  <2> SUFFICES ASSUME NEW y \in D, size[y] = k, size[y] < m, size[y] < n PROVE g[y] = h[y]
    OBVIOUS
  <2> DEFINE B == Below(D, size, size[y])
             Bm == Below(D, size, m)
             Bn == Below(D, size, n)
  <2>1. B \subseteq Bm /\ B \subseteq Bn /\ Bm \subseteq D /\ Bn \subseteq D
    BY DEF Below
  <2>2. y \in Bm /\ y \in Bn
    BY DEF Below
  <2>3. \A z \in B : g[z] = h[z]
    BY <1>1 DEF Below
  <2>4. Obeys(g, Bm, P) /\ Obeys(h, Bn, P) /\ g[y] = F[<<g, y>>] /\ h[y] = F[<<h, y>>]
    BY <2>2 DEF Solves
  <2>5. /\ g \in Partial(D, P) /\ DOMAIN g = Bm
        /\ h \in Partial(D, P) /\ DOMAIN h = Bn
    <3> HIDE DEF Bm, Bn
    <3> QED BY <2>1, <2>4, PartialIs
  <2>6. F[<<g, y>>] = F[<<h, y>>]
    BY <2>1, <2>3, <2>5 DEF OnSmaller
  <2> QED BY <2>4, <2>6
<1>2. Nat \subseteq T
  <2> HIDE DEF T
  <2> QED BY <1>1, StrongInduction, Zenon
<1>3. size[x] \in Nat
  OBVIOUS
<1> QED BY <1>2, <1>3

\* There is a solution up to every size, one size after the other.
LEMMA SolutionsExist ==
    ASSUME NEW D, NEW P, NEW size \in [D -> Nat], NEW F, OnSmaller(F, D, P, size)
    PROVE  \A n \in Nat : \E g : Solves(g, F, D, P, size, n)
<1> DEFINE T == {n \in Nat : \E g : Solves(g, F, D, P, size, n)}
<1>1. 0 \in T
  <2>1. Below(D, size, 0) = {}
    BY DEF Below
  <2>2. Obeys([x \in {} |-> x], {}, P)
    BY DEF Obeys
  <2>3. Solves([x \in {} |-> x], F, D, P, size, 0)
    BY <2>1, <2>2 DEF Solves
  <2> QED BY <2>3
<1>2. ASSUME NEW n \in Nat, n \in T PROVE n + 1 \in T
  <2>1. PICK g : Solves(g, F, D, P, size, n)
    BY <1>2
  <2> DEFINE B == Below(D, size, n)
             C == Below(D, size, n + 1)
             h == [x \in C |-> F[<<g, x>>]]
  <2>2. B \subseteq C /\ C \subseteq D /\ B \subseteq D
    BY DEF Below
  <2>3. Obeys(g, B, P) /\ \A x \in B : g[x] = F[<<g, x>>]
    BY <2>1 DEF Solves
  <2>4. \A x \in C : Below(D, size, size[x]) \subseteq B
    BY DEF Below
  <2>5. g \in Partial(D, P) /\ DOMAIN g = B
    <3> HIDE DEF B
    <3> QED BY <2>2, <2>3, PartialIs
  <2>6. \A x \in C : <<x, F[<<g, x>>]>> \in P
    BY <2>2, <2>4, <2>5 DEF OnSmaller
  <2>7. Obeys(h, C, P)
    BY <2>6 DEF Obeys
  <2>8. h \in Partial(D, P) /\ DOMAIN h = C
    <3> HIDE DEF C, h
    <3> QED BY <2>2, <2>7, PartialIs
  <2>9. \A x \in B : h[x] = g[x]
    BY <2>2, <2>3
  <2>10. ASSUME NEW x \in C PROVE h[x] = F[<<h, x>>]
    <3> DEFINE S == Below(D, size, size[x])
    <3>1. S \subseteq DOMAIN g /\ S \subseteq DOMAIN h /\ \A y \in S : g[y] = h[y]
      BY <2>2, <2>4, <2>5, <2>9
    <3>2. F[<<g, x>>] = F[<<h, x>>]
      <4> HIDE DEF h
      <4> QED BY <2>2, <2>5, <2>8, <3>1 DEF OnSmaller
    <3> QED BY <3>2
  <2>11. Solves(h, F, D, P, size, n + 1)
    <3> HIDE DEF h
    <3> QED BY <2>7, <2>10 DEF Solves
  <2> QED BY <2>11
<1>3. Nat \subseteq T
  <2> HIDE DEF T
  <2> QED BY <1>1, <1>2, Induction, Zenon
<1> QED BY <1>3

\* The values of those solutions make up a function for all of D.
LEMMA RecursionExists ==
    ASSUME NEW D, NEW P, NEW size \in [D -> Nat], NEW F, OnSmaller(F, D, P, size)
    PROVE  \E f : Obeys(f, D, P) /\ f \in Partial(D, P) /\ \A x \in D : f[x] = F[<<f, x>>]
<1> DEFINE Solution(n) == CHOOSE g : Solves(g, F, D, P, size, n)
           f == [x \in D |-> Solution(size[x] + 1)[x]]
<1>1. \A n \in Nat : Solves(Solution(n), F, D, P, size, n)
  BY SolutionsExist, Zenon
<1> HIDE DEF Solution
<1>2. ASSUME NEW x \in D
      PROVE  /\ <<x, f[x]>> \in P
             /\ \A n \in Nat : size[x] < n => f[x] = Solution(n)[x]
  <2>1. size[x] + 1 \in Nat /\ size[x] < size[x] + 1
    OBVIOUS
  <2>2. Solves(Solution(size[x] + 1), F, D, P, size, size[x] + 1)
    BY <1>1, <2>1
  <2>3. f[x] = Solution(size[x] + 1)[x]
    OBVIOUS
  <2>4. <<x, Solution(size[x] + 1)[x]>> \in P
    BY <2>1, <2>2 DEF Solves, Below, Obeys
  <2>5. \A n \in Nat : size[x] < n => Solution(size[x] + 1)[x] = Solution(n)[x]
    <3> TAKE n \in Nat
    <3> HAVE size[x] < n
    <3>1. Solves(Solution(n), F, D, P, size, n)
      BY <1>1
    <3> QED BY <2>1, <2>2, <3>1, OneSolution
  <2> QED BY <2>3, <2>4, <2>5
<1>3. Obeys(f, D, P)
  BY <1>2 DEF Obeys
<1> HIDE DEF f
<1>4. f \in Partial(D, P) /\ DOMAIN f = D
  BY <1>3, PartialIs
<1>5. ASSUME NEW x \in D PROVE f[x] = F[<<f, x>>]
  <2> DEFINE n == size[x] + 1
             g == Solution(n)
             B == Below(D, size, n)
             S == Below(D, size, size[x])
  <2>1. n \in Nat /\ size[x] < n
    OBVIOUS
  <2>2. Solves(g, F, D, P, size, n)
    BY <1>1, <2>1
  <2>3. x \in B /\ B \subseteq D /\ S \subseteq B
    BY <2>1 DEF Below
  <2>4. Obeys(g, B, P) /\ g[x] = F[<<g, x>>]
    BY <2>2, <2>3 DEF Solves
  <2>5. \A y \in S : f[y] = g[y]
    <3> TAKE y \in S
    <3>1. y \in D /\ size[y] < n
      BY DEF Below
    <3> QED BY <1>2, <2>1, <3>1
  <2> HIDE DEF n, g, B
  <2>6. g \in Partial(D, P) /\ DOMAIN g = B
    BY <2>3, <2>4, PartialIs
  <2>7. F[<<f, x>>] = F[<<g, x>>]
    BY <1>4, <2>3, <2>5, <2>6 DEF OnSmaller
  <2>8. f[x] = g[x]
    BY <1>2, <2>1 DEF g
  <2> QED BY <2>4, <2>7, <2>8
<1> QED BY <1>3, <1>4, <1>5

\* A recursion whose calls get smaller does define a function, of which P holds.
Recursive(F, D, P, size) == size \in [D -> Nat] /\ OnSmaller(F, D, P, size)

LEMMA FunctionExists ==
    ASSUME NEW F, NEW D, NEW P, NEW size, Recursive(F, D, P, size)
    PROVE  \E f : Obeys(f, D, P) /\ f \in Partial(D, P) /\ \A x \in D : f[x] = F[<<f, x>>]
BY RecursionExists DEF Recursive

-----------------------------------------------------------------------------
(* The score of an alignment *)

\* sums[k] is what the first k bases of a, aligned with those of b, are worth.
Sums(sums, a, b) ==
    sums = [k \in 0..Len(a) |-> IF k = 0 THEN 0 ELSE sums[k - 1] + Worth(a[k], b[k])]

LEMMA WorthInt ==
    ASSUME NEW a, NEW b
    PROVE  Worth(a, b) \in Int
BY DEF Worth

\* There are such sums for strands of any length.
LEMMA SumsExist ==
    ASSUME NEW S, NEW a \in Seq(S), NEW b
    PROVE  \E sums : Sums(sums, a, b)
<1> DEFINE UpTo(g, n) == g = [k \in 0..n |-> IF k = 0 THEN 0 ELSE g[k - 1] + Worth(a[k], b[k])]
           T == {n \in Nat : \E g : UpTo(g, n)}
<1>1. 0 \in T
  <2> DEFINE g == [k \in 0..0 |-> 0]
  <2>1. UpTo(g, 0)
    OBVIOUS
  <2> HIDE DEF UpTo
  <2> QED BY <2>1
<1>2. ASSUME NEW n \in Nat, n \in T PROVE n + 1 \in T
  <2>1. PICK g : UpTo(g, n)
    BY <1>2
  <2> DEFINE last == g[n] + Worth(a[n + 1], b[n + 1])
  <2> HIDE DEF last
  <2> DEFINE h == [k \in 0..(n + 1) |-> IF k = n + 1 THEN last ELSE g[k]]
  <2>2. /\ h[n + 1] = last
        /\ \A k \in 0..n : h[k] = g[k] /\ g[k] = IF k = 0 THEN 0 ELSE g[k - 1] + Worth(a[k], b[k])
    BY <2>1
  <2>3. DOMAIN h = 0..(n + 1) /\ h = [k \in 0..(n + 1) |-> h[k]]
    OBVIOUS
  <2> HIDE DEF h
  <2>4. ASSUME NEW k \in 0..(n + 1)
        PROVE  h[k] = IF k = 0 THEN 0 ELSE h[k - 1] + Worth(a[k], b[k])
    <3>1. CASE k = n + 1
      BY <2>2, <3>1 DEF last
    <3>2. CASE k # n + 1
      <4>1. k \in 0..n /\ (k # 0 => k - 1 \in 0..n)
        BY <3>2
      <4> QED BY <2>2, <4>1
    <3> QED BY <3>1, <3>2
  <2>5. UpTo(h, n + 1)
    BY <2>3, <2>4
  <2> HIDE DEF UpTo
  <2> QED BY <2>5
<1>3. Nat \subseteq T
  <2> HIDE DEF T
  <2> QED BY <1>1, <1>2, Induction, Zenon
<1>4. Len(a) \in T
  BY <1>3
<1>5. PICK g : UpTo(g, Len(a))
  BY <1>4
<1>6. Sums(g, a, b)
  BY <1>5 DEF Sums
<1> QED BY <1>6

\* There is one list of sums only.
LEMMA SumsAre ==
    ASSUME NEW S, NEW a \in Seq(S), NEW b, NEW g, Sums(g, a, b), NEW h, Sums(h, a, b)
    PROVE  \A k \in 0..Len(a) : g[k] \in Int /\ g[k] = h[k]
<1>1. \A k \in 0..Len(a) : /\ g[k] = IF k = 0 THEN 0 ELSE g[k - 1] + Worth(a[k], b[k])
                           /\ h[k] = IF k = 0 THEN 0 ELSE h[k - 1] + Worth(a[k], b[k])
  BY DEF Sums
<1> DEFINE T == {k \in Nat : k <= Len(a) => g[k] \in Int /\ g[k] = h[k]}
<1>2. 0 \in T
  BY <1>1
<1>3. ASSUME NEW k \in Nat, k \in T PROVE k + 1 \in T
  <2> SUFFICES ASSUME k + 1 <= Len(a) PROVE g[k + 1] \in Int /\ g[k + 1] = h[k + 1]
    OBVIOUS
  <2>1. k + 1 \in 0..Len(a) /\ (k + 1) - 1 = k /\ k + 1 # 0
    OBVIOUS
  <2>2. g[k] \in Int /\ g[k] = h[k]
    BY <1>3
  <2>3. Worth(a[k + 1], b[k + 1]) \in Int
    BY WorthInt
  <2> QED BY <1>1, <2>1, <2>2, <2>3
<1>4. Nat \subseteq T
  <2> HIDE DEF T
  <2> QED BY <1>2, <1>3, Induction, Zenon
<1> QED BY <1>4

\* The score of two strands is the last of their sums.
LEMMA ScoreIs ==
    ASSUME NEW S, NEW a \in Seq(S), NEW b, NEW g, Sums(g, a, b)
    PROVE  Score(a, b) = g[Len(a)] /\ g[Len(a)] \in Int
<1> DEFINE sum[k \in 0..Len(a)] == IF k = 0 THEN 0 ELSE sum[k - 1] + Worth(a[k], b[k])
<1>1. Score(a, b) = sum[Len(a)]
  BY DEF Score
<1>2. g = [k \in 0..Len(a) |-> IF k = 0 THEN 0 ELSE g[k - 1] + Worth(a[k], b[k])]
  BY DEF Sums
<1>3. sum = [k \in 0..Len(a) |-> IF k = 0 THEN 0 ELSE sum[k - 1] + Worth(a[k], b[k])]
  BY <1>2, Zenon
<1> HIDE DEF sum
<1>4. Sums(sum, a, b)
  BY <1>3 DEF Sums
<1>5. Len(a) \in 0..Len(a)
  OBVIOUS
<1> QED BY <1>1, <1>4, <1>5, SumsAre

\* One more pair of bases in front adds what it is worth.
LEMMA ScoreInFront ==
    ASSUME NEW S, NEW a \in Seq(S), NEW b \in Seq(S), Len(a) = Len(b), NEW x \in S, NEW y \in S
    PROVE  /\ Score(<<x>> \o a, <<y>> \o b) = Score(a, b) + Worth(x, y)
           /\ Score(a, b) \in Int
<1> DEFINE c == <<x>> \o a
           d == <<y>> \o b
<1>1. /\ c \in Seq(S) /\ Len(c) = Len(a) + 1 /\ c[1] = x /\ d[1] = y
      /\ \A k \in 2..(Len(a) + 1) : c[k] = a[k - 1] /\ d[k] = b[k - 1]
  OBVIOUS
<1>2. PICK g : Sums(g, a, b)
  BY SumsExist
<1>3. \A k \in 0..Len(a) : g[k] = IF k = 0 THEN 0 ELSE g[k - 1] + Worth(a[k], b[k])
  BY <1>2 DEF Sums
<1>4. \A k \in 0..Len(a) : g[k] \in Int
  BY <1>2, SumsAre
<1> HIDE DEF c, d
<1> DEFINE w == Worth(x, y)
           h == [k \in 0..Len(c) |-> IF k = 0 THEN 0 ELSE g[k - 1] + w]
<1>5. w \in Int
  BY WorthInt
<1> HIDE DEF w
<1>6. ASSUME NEW k \in 0..Len(c)
      PROVE  h[k] = IF k = 0 THEN 0 ELSE h[k - 1] + Worth(c[k], d[k])
  <2>1. CASE k = 0
    BY <2>1
  <2>2. CASE k = 1
    <3>1. h[1] = g[0] + w /\ h[0] = 0 /\ g[0] = 0
      BY <1>1, <1>3, <2>2
    <3>2. Worth(c[1], d[1]) = w
      BY <1>1 DEF w
    <3> QED BY <1>5, <2>2, <3>1, <3>2
  <2>3. CASE k # 0 /\ k # 1
    <3>1. /\ k - 1 \in 1..Len(a) /\ k \in 2..(Len(a) + 1) /\ k - 2 \in 0..Len(a)
          /\ k - 1 \in 0..Len(a) /\ (k - 1) - 1 = k - 2 /\ k - 1 \in 0..Len(c)
      BY <1>1, <2>3
    <3>2. h[k] = g[k - 1] + w /\ h[k - 1] = g[k - 2] + w
      BY <2>3, <3>1
    <3>3. g[k - 1] = g[k - 2] + Worth(a[k - 1], b[k - 1])
      BY <1>3, <3>1
    <3>4. Worth(a[k - 1], b[k - 1]) = Worth(c[k], d[k])
      BY <1>1, <3>1
    <3> HIDE DEF h
    <3> DEFINE v == Worth(c[k], d[k])
    <3>5. v \in Int
      BY WorthInt
    <3>6. g[k - 1] = g[k - 2] + v
      BY <3>3, <3>4
    <3> HIDE DEF v
    <3>7. h[k] = h[k - 1] + v
      BY <1>4, <1>5, <3>1, <3>2, <3>5, <3>6
    <3> QED BY <2>3, <3>7 DEF v
  <2> QED BY <2>1, <2>2, <2>3
<1>7. h = [k \in 0..Len(c) |-> h[k]]
  OBVIOUS
<1>8. h[Len(c)] = g[Len(a)] + w
  BY <1>1
<1> HIDE DEF h
<1>9. Sums(h, c, d)
  BY <1>6, <1>7 DEF Sums
<1>10. Score(c, d) = h[Len(c)]
  BY <1>1, <1>9, ScoreIs
<1>11. Score(a, b) = g[Len(a)] /\ g[Len(a)] \in Int
  BY <1>2, ScoreIs
<1> QED BY <1>8, <1>10, <1>11 DEF c, d, w

\* Two strands of which one has only spaces.
LEMMA ScoreOfSpaces ==
    ASSUME NEW S, NEW a \in Seq(S), NEW b \in Seq(S), Len(a) = Len(b),
           \A k \in 1..Len(a) : a[k] = Space \/ b[k] = Space
    PROVE  Score(a, b) = -2 * Len(a)
<1> DEFINE g == [k \in 0..Len(a) |-> -2 * k]
<1>1. ASSUME NEW k \in 0..Len(a)
      PROVE  g[k] = IF k = 0 THEN 0 ELSE g[k - 1] + Worth(a[k], b[k])
  <2>1. CASE k = 0
    <3>1. -2 * k = 0 - k - k
      OBVIOUS
    <3>2. g[k] = -2 * k
      OBVIOUS
    <3> HIDE DEF g
    <3> QED BY <2>1, <3>1, <3>2
  <2>2. CASE k # 0
    <3>1. k \in 1..Len(a) /\ k - 1 \in 0..Len(a)
      BY <2>2
    <3>2. Worth(a[k], b[k]) = -2
      BY <3>1 DEF Worth
    <3>3. g[k] = -2 * k /\ g[k - 1] = -2 * (k - 1)
      BY <3>1
    <3> QED BY <2>2, <3>2, <3>3
  <2> QED BY <2>1, <2>2
<1>2. g = [k \in 0..Len(a) |-> g[k]] /\ g[Len(a)] = -2 * Len(a)
  OBVIOUS
<1> HIDE DEF g
<1>3. Sums(g, a, b)
  BY <1>1, <1>2 DEF Sums
<1> QED BY <1>2, <1>3, ScoreIs

-----------------------------------------------------------------------------
(* What calls do to memory *)

\* All dictionaries have the score of their strands.
Good(m) == \A n \in 1..Len(m.heap) : Scored(m.heap[n])

\* What a call does to memory: it returns a dictionary, takes none away, and
\* leaves all with the score of their strands if they had it.
Leads(m, n) == /\ n \in Memory /\ n.at # 0
               /\ Len(m.heap) <= Len(n.heap)
               /\ Good(m) => Good(n)

\* What two calls do, one after the other.
LEMMA LeadsOn ==
    ASSUME NEW k \in Memory, NEW m, Leads(k, m), NEW n, Leads(m, n)
    PROVE  Leads(k, n)
<1>1. \A i \in Memory : Len(i.heap) \in Nat
  BY DEF Memory
<1>2. m \in Memory /\ n \in Memory
  BY DEF Leads
<1> QED BY <1>1, <1>2 DEF Leads

\* The entries of a cache are about places that there are.
Inside(c, h) == \A e \in c : e.at \in 1..Len(h)

\* The parts of a memory and of what was returned in it.
LEMMA MemoryFacts ==
    ASSUME NEW m \in Memory
    PROVE  /\ m = [heap |-> m.heap, cache |-> m.cache, at |-> m.at]
           /\ m.heap \in Seq(Results) /\ Len(m.heap) \in Nat
           /\ \A n \in 1..Len(m.heap) : m.heap[n] \in Results
           /\ m.cache \in SUBSET CacheEntries
           /\ Inside(m.cache, m.heap)
           /\ m.at \in 0..Len(m.heap)
           /\ m.at # 0 => m.at \in 1..Len(m.heap) /\ Result(m) \in Results
<1>1. m \in [heap : Seq(Results), cache : SUBSET CacheEntries, at : Nat]
  BY DEF Memory
<1>2. m.at <= Len(m.heap) /\ \A c \in m.cache : c.at \in 1..Len(m.heap)
  BY DEF Memory
<1>3. m.heap \in Seq(Results)
  BY <1>1
<1>4. Len(m.heap) \in Nat /\ \A n \in 1..Len(m.heap) : m.heap[n] \in Results
  BY <1>3
<1> QED BY <1>1, <1>2, <1>3, <1>4 DEF Result, Inside

\* One of its parts is replaced.
LEMMA PartReplaced ==
    ASSUME NEW m, NEW h, NEW c, NEW n, m = [heap |-> h, cache |-> c, at |-> n]
    PROVE  /\ \A g : [m EXCEPT !.heap = g] = [heap |-> g, cache |-> c, at |-> n]
           /\ \A d : [m EXCEPT !.cache = d] = [heap |-> h, cache |-> d, at |-> n]
           /\ \A k : [m EXCEPT !.at = k] = [heap |-> h, cache |-> c, at |-> k]
OBVIOUS

\* When these parts are a memory.
LEMMA MemoryIs ==
    ASSUME NEW h \in Seq(Results), NEW c \in SUBSET CacheEntries, NEW n \in 1..Len(h),
           Inside(c, h),
           NEW m, m = [heap |-> h, cache |-> c, at |-> n]
    PROVE  /\ m \in Memory /\ m.at # 0
           /\ m.heap = h /\ m.cache = c /\ m.at = n
<1>1. m \in [heap : Seq(Results), cache : SUBSET CacheEntries, at : Nat]
  OBVIOUS
<1>2. m.heap = h /\ m.cache = c /\ m.at = n
  OBVIOUS
<1> QED BY <1>1, <1>2 DEF Memory, Inside

LEMMA ResultFacts ==
    ASSUME NEW r \in Results
    PROVE  /\ r.score \in Int
           /\ r.strand1 \in Aligned /\ r.strand2 \in Aligned
BY DEF Results

LEMMA ResultIs ==
    ASSUME NEW k \in Int, NEW a \in Aligned, NEW b \in Aligned,
           NEW r, r = [score |-> k, strand1 |-> a, strand2 |-> b]
    PROVE  /\ r \in Results
           /\ r.score = k /\ r.strand1 = a /\ r.strand2 = b
BY DEF Results

-----------------------------------------------------------------------------
(* The steps of a call *)

\* A new dictionary is returned, and all earlier ones stay.
LEMMA ReturningLeads ==
    ASSUME NEW m \in Memory, NEW r \in Results, Good(m) => Scored(r)
    PROVE  /\ Leads(m, Returning(m, r))
           /\ Result(Returning(m, r)) = r
<1> DEFINE h == m.heap
           g == Append(h, r)
           n == Returning(m, r)
<1>1. /\ m = [heap |-> h, cache |-> m.cache, at |-> m.at]
      /\ h \in Seq(Results) /\ Len(h) \in Nat
      /\ m.cache \in SUBSET CacheEntries
      /\ Inside(m.cache, h)
  BY MemoryFacts
<1>2. n = [heap |-> g, cache |-> m.cache, at |-> Len(h) + 1]
  <2> DEFINE k == Len(h) + 1
             c == m.cache
             at == m.at
  <2>1. n = [m EXCEPT !.heap = g, !.at = k]
    BY DEF Returning
  <2>2. m = [heap |-> h, cache |-> c, at |-> at]
    BY <1>1
  <2> HIDE DEF n, g, h, k, c, at
  <2> DEFINE i == [m EXCEPT !.heap = g]
  <2>3. i = [heap |-> g, cache |-> c, at |-> at]
    BY <2>2, PartReplaced
  <2>4. [m EXCEPT !.heap = g, !.at = k] = [i EXCEPT !.at = k]
    BY <2>2
  <2> HIDE DEF i
  <2>5. [i EXCEPT !.at = k] = [heap |-> g, cache |-> c, at |-> k]
    BY <2>3, PartReplaced
  <2> QED BY <2>1, <2>4, <2>5 DEF k, c
<1> HIDE DEF h, n
<1>3. /\ g \in Seq(Results) /\ Len(g) = Len(h) + 1
      /\ g[Len(h) + 1] = r /\ \A k \in 1..Len(h) : g[k] = h[k]
  BY <1>1
<1> HIDE DEF g
<1>4. Len(h) + 1 \in 1..Len(g) /\ Inside(m.cache, g)
  BY <1>1, <1>3 DEF Inside
<1>5. /\ n \in Memory /\ n.at # 0
      /\ n.heap = g /\ n.cache = m.cache /\ n.at = Len(h) + 1
  BY <1>1, <1>2, <1>3, <1>4, MemoryIs
<1>6. ASSUME Good(m) PROVE Good(n)
  <2> SUFFICES ASSUME NEW k \in 1..Len(g) PROVE Scored(g[k])
    BY <1>5 DEF Good
  <2>1. CASE k \in 1..Len(h)
    BY <1>3, <1>6, <2>1 DEF Good, h
  <2>2. CASE k = Len(h) + 1
    BY <1>3, <1>6, <2>2
  <2> QED BY <1>1, <1>3, <2>1, <2>2
<1>7. Len(m.heap) <= Len(n.heap)
  BY <1>1, <1>3, <1>5 DEF h
<1>8. Result(n) = r
  BY <1>3, <1>5 DEF Result
<1> QED BY <1>5, <1>6, <1>7, <1>8 DEF Leads, n

\* The dictionary that was returned, possibly one of the cache, is extended
\* in place: its score and its strands change together.
LEMMA ExtendedLeads ==
    ASSUME NEW m \in Memory, m.at # 0,
           NEW a \in Bases \cup {Space}, NEW b \in Bases \cup {Space},
           NEW gain, gain = Worth(a, b)
    PROVE  /\ Leads(m, Extended(m, gain, a, b))
           /\ Extended(m, gain, a, b).at = m.at
<1> DEFINE h == m.heap
           at == m.at
           old == Result(m)
           s1 == <<a>> \o old.strand1
           s2 == <<b>> \o old.strand2
           sc == old.score + gain
           new == [score |-> sc, strand1 |-> s1, strand2 |-> s2]
           g == [h EXCEPT ![at] = new]
           n == Extended(m, gain, a, b)
<1>1. /\ m = [heap |-> h, cache |-> m.cache, at |-> at]
      /\ h \in Seq(Results) /\ Len(h) \in Nat
      /\ m.cache \in SUBSET CacheEntries
      /\ Inside(m.cache, h)
      /\ at \in 1..Len(h) /\ old \in Results /\ old = h[at]
  BY MemoryFacts DEF Result
<1>2. old.score \in Int /\ old.strand1 \in Aligned /\ old.strand2 \in Aligned
  BY <1>1, ResultFacts
<1>3. n = [heap |-> g, cache |-> m.cache, at |-> at]
  <2>1. n = [m EXCEPT !.heap = g]
    BY DEF Extended
  <2> HIDE DEF n, g, h, at
  <2> QED BY <1>1, <2>1, PartReplaced
<1>4. gain \in Int
  BY WorthInt
<1>5. sc \in Int /\ s1 \in Aligned /\ s2 \in Aligned
  BY <1>2, <1>4 DEF Aligned
<1>6. new \in Results /\ new.score = sc /\ new.strand1 = s1 /\ new.strand2 = s2
  <2> HIDE DEF sc, s1, s2
  <2> QED BY <1>5, ResultIs
<1> HIDE DEF h, at, n, new
<1>7. /\ g \in Seq(Results) /\ Len(g) = Len(h) /\ g[at] = new
      /\ \A k \in 1..Len(h) : k # at => g[k] = h[k]
  BY <1>1, <1>6
<1> HIDE DEF g
<1>8. /\ n \in Memory /\ n.at # 0
      /\ n.heap = g /\ n.cache = m.cache /\ n.at = at
  <2>1. Inside(m.cache, g) /\ at \in 1..Len(g)
    BY <1>1, <1>7 DEF Inside
  <2> QED BY <1>1, <1>3, <1>7, <2>1, MemoryIs
<1>9. ASSUME Scored(old) PROVE Scored(new)
  <2> DEFINE o1 == old.strand1
             o2 == old.strand2
  <2>1. Len(o1) = Len(o2) /\ old.score = Score(o1, o2) /\ o1 \in Aligned /\ o2 \in Aligned
    BY <1>2, <1>9 DEF Scored
  <2>2. Score(s1, s2) = Score(o1, o2) + Worth(a, b)
    <3> HIDE DEF o1, o2
    <3> QED BY <2>1, ScoreInFront DEF s1, s2, o1, o2, Aligned
  <2>3. Len(s1) = Len(s2)
    <3> HIDE DEF o1, o2
    <3> QED BY <2>1 DEF s1, s2, o1, o2, Aligned
  <2> QED BY <1>6, <2>1, <2>2, <2>3 DEF Scored
<1>10. ASSUME Good(m) PROVE Good(n)
  <2> SUFFICES ASSUME NEW k \in 1..Len(g) PROVE Scored(g[k])
    BY <1>8 DEF Good
  <2>1. Scored(h[k])
    BY <1>7, <1>10 DEF Good, h
  <2>2. CASE k = at
    BY <1>1, <1>7, <1>9, <2>1, <2>2
  <2>3. CASE k # at
    BY <1>7, <2>1, <2>3
  <2> QED BY <2>2, <2>3
<1>11. Len(m.heap) <= Len(n.heap)
  BY <1>1, <1>7, <1>8 DEF h
<1> QED BY <1>8, <1>10, <1>11 DEF Leads, n, at

\* Another dictionary is chosen.
LEMMA AtLeads ==
    ASSUME NEW m \in Memory, NEW k \in 1..Len(m.heap)
    PROVE  Leads(m, [m EXCEPT !.at = k])
<1> DEFINE n == [m EXCEPT !.at = k]
<1>1. /\ m = [heap |-> m.heap, cache |-> m.cache, at |-> m.at]
      /\ m.heap \in Seq(Results) /\ Len(m.heap) \in Nat
      /\ m.cache \in SUBSET CacheEntries
      /\ Inside(m.cache, m.heap)
  BY MemoryFacts
<1>2. n = [heap |-> m.heap, cache |-> m.cache, at |-> k]
  BY <1>1
<1> HIDE DEF n
<1>3. n \in Memory /\ n.at # 0 /\ n.heap = m.heap
  BY <1>1, <1>2, MemoryIs
<1>4. Leads(m, n)
  BY <1>1, <1>3 DEF Leads, Good
<1> QED BY <1>4 DEF n

\* A dictionary is entered into the cache.
LEMMA CachedLeads ==
    ASSUME NEW m \in Memory, m.at # 0, NEW s \in Seq(Bases), NEW t \in Seq(Bases)
    PROVE  Leads(m, [m EXCEPT !.cache = @ \cup {[key |-> <<s, t>>, at |-> m.at]}])
<1> DEFINE e == [key |-> <<s, t>>, at |-> m.at]
           c == m.cache \cup {e}
           n == [m EXCEPT !.cache = @ \cup {e}]
<1>1. /\ m = [heap |-> m.heap, cache |-> m.cache, at |-> m.at]
      /\ m.heap \in Seq(Results) /\ Len(m.heap) \in Nat
      /\ m.cache \in SUBSET CacheEntries
      /\ Inside(m.cache, m.heap)
      /\ m.at \in 1..Len(m.heap)
  BY MemoryFacts
<1>2. e \in CacheEntries /\ e.at = m.at
  BY <1>1 DEF CacheEntries
<1> HIDE DEF e
<1>3. n = [heap |-> m.heap, cache |-> c, at |-> m.at]
  <2>1. n = [m EXCEPT !.cache = c]
    OBVIOUS
  <2> HIDE DEF n, c
  <2> QED BY <1>1, <2>1, PartReplaced
<1> HIDE DEF n
<1>4. c \in SUBSET CacheEntries /\ Inside(c, m.heap)
  BY <1>1, <1>2 DEF Inside
<1> HIDE DEF c
<1>5. n \in Memory /\ n.at # 0 /\ n.heap = m.heap
  BY <1>1, <1>3, <1>4, MemoryIs
<1>6. Leads(m, n)
  BY <1>1, <1>5 DEF Leads, Good
<1> QED BY <1>6 DEF n, e

\* The strands that remain when the other one is used up.
LEMMA SpacesLead ==
    ASSUME NEW m \in Memory, NEW t \in Seq(Bases)
    PROVE  /\ Leads(m, Returning(m, [score |-> -2 * Len(t), strand1 |-> Spaces(Len(t)), strand2 |-> t]))
           /\ Leads(m, Returning(m, [score |-> -2 * Len(t), strand1 |-> t, strand2 |-> Spaces(Len(t))]))
<1> DEFINE S == Bases \cup {Space}
           p == Spaces(Len(t))
           k == -2 * Len(t)
<1>1. t \in Seq(S) /\ p \in Seq(S) /\ Len(p) = Len(t) /\ k \in Int
  <2>1. Len(t) \in Nat /\ t \in Seq(S)
    OBVIOUS
  <2>2. p \in [1..Len(t) -> S]
    BY DEF Spaces
  <2> QED BY <2>1, <2>2
<1>2. \A n \in 1..Len(t) : p[n] = Space
  BY DEF Spaces
<1>3. Score(p, t) = k /\ Score(t, p) = k
  <2> HIDE DEF p, S
  <2> QED BY <1>1, <1>2, ScoreOfSpaces
<1> DEFINE r1 == [score |-> k, strand1 |-> p, strand2 |-> t]
           r2 == [score |-> k, strand1 |-> t, strand2 |-> p]
<1> HIDE DEF k, p
<1> HIDE DEF r1, r2
<1>4. /\ r1 \in Results /\ r1.score = k /\ r1.strand1 = p /\ r1.strand2 = t
      /\ r2 \in Results /\ r2.score = k /\ r2.strand1 = t /\ r2.strand2 = p
  <2>1. t \in Aligned /\ p \in Aligned
    BY <1>1 DEF Aligned
  <2>2. /\ r1 = [score |-> k, strand1 |-> p, strand2 |-> t]
        /\ r2 = [score |-> k, strand1 |-> t, strand2 |-> p]
    BY DEF r1, r2
  <2> QED BY <1>1, <2>1, <2>2, ResultIs
<1>5. Scored(r1) /\ Scored(r2)
  BY <1>1, <1>3, <1>4 DEF Scored
<1>6. Leads(m, Returning(m, r1)) /\ Leads(m, Returning(m, r2))
  BY <1>4, <1>5, ReturningLeads
<1> QED BY <1>6 DEF r1, r2, k, p

-----------------------------------------------------------------------------
(* A call and the calls it makes *)

Calls == Seq(Bases) \X Seq(Bases) \X Memory

\* The pairs of a call and the memory it may lead to.
CallLeads == {p \in Calls \X Memory : Leads(p[1][3], p[2])}

CallSize == [call \in Calls |-> Len(call[1]) + Len(call[2])]

\* What the call with s, t and m returns; `find' is used for the calls it makes.
Find(find, s, t, m) ==
    IF s = <<>>
    THEN Returning(m, [score |-> -2 * Len(t), strand1 |-> Spaces(Len(t)), strand2 |-> t])
    ELSE IF t = <<>>
    THEN Returning(m, [score |-> -2 * Len(s), strand1 |-> s, strand2 |-> Spaces(Len(s))])
    ELSE LET Cached(u, v, n) == FindOptimalAlignmentCached(find, u, v, n)
             with == Cached(Tail(s), Tail(t), m)
         IN  IF Head(s) = Head(t)
             THEN Extended(Returning(with, Result(with)), 1, Head(s), Head(t))
             ELSE LET m1 == Extended(with, -1, Head(s), Head(t))
                      m2 == Extended(Cached(s, Tail(t), m1), -2, Space, Head(t))
                      best == Better(m2, m1.at)
                      m3 == Extended(Cached(Tail(s), t, m2), -2, Head(s), Space)
                  IN  [m3 EXCEPT !.at = Better(m3, best)]

\* find leads on from the calls with fewer than n bases.
Finds(find, n) ==
    \A u, v \in Seq(Bases), m \in Memory : Len(u) + Len(v) < n => Leads(m, find[<<u, v, m>>])

\* f and g are the same for the calls with fewer than n bases.
SameFinds(f, g, n) ==
    \A u, v \in Seq(Bases), m \in Memory :
        Len(u) + Len(v) < n => f[<<u, v, m>>] = g[<<u, v, m>>]

\* A call that the cache answers, or passes on.
LEMMA CachedCallLeads ==
    ASSUME NEW find, NEW n, Finds(find, n),
           NEW u \in Seq(Bases), NEW v \in Seq(Bases), Len(u) + Len(v) < n, NEW m \in Memory
    PROVE  Leads(m, FindOptimalAlignmentCached(find, u, v, m))
<1>1. CASE \E c \in m.cache : c.key = <<u, v>>
  <2> DEFINE c == CHOOSE c \in m.cache : c.key = <<u, v>>
  <2>1. c \in m.cache
    BY <1>1
  <2>2. FindOptimalAlignmentCached(find, u, v, m) = [m EXCEPT !.at = c.at]
    BY <1>1 DEF FindOptimalAlignmentCached
  <2> HIDE DEF c
  <2>3. c.at \in 1..Len(m.heap)
    <3>1. Inside(m.cache, m.heap)
      BY MemoryFacts
    <3> QED BY <2>1, <3>1 DEF Inside
  <2> QED BY <2>2, <2>3, AtLeads
<1>2. CASE ~ \E c \in m.cache : c.key = <<u, v>>
  <2> DEFINE found == find[<<u, v, m>>]
  <2>1. FindOptimalAlignmentCached(find, u, v, m) =
            [found EXCEPT !.cache = @ \cup {[key |-> <<u, v>>, at |-> found.at]}]
    BY <1>2 DEF FindOptimalAlignmentCached
  <2>2. Leads(m, found)
    BY DEF Finds
  <2> HIDE DEF found
  <2>3. found \in Memory /\ found.at # 0
    BY <2>2 DEF Leads
  <2>4. Leads(found, [found EXCEPT !.cache = @ \cup {[key |-> <<u, v>>, at |-> found.at]}])
    BY <2>3, CachedLeads
  <2> QED BY <2>1, <2>2, <2>4, LeadsOn
<1> QED BY <1>1, <1>2

\* It depends on the one call that it may pass on.
LEMMA CachedCallSame ==
    ASSUME NEW f, NEW g, NEW n, SameFinds(f, g, n),
           NEW u \in Seq(Bases), NEW v \in Seq(Bases), Len(u) + Len(v) < n, NEW m \in Memory
    PROVE  FindOptimalAlignmentCached(f, u, v, m) = FindOptimalAlignmentCached(g, u, v, m)
<1>1. f[<<u, v, m>>] = g[<<u, v, m>>]
  BY DEF SameFinds
<1> DEFINE x == f[<<u, v, m>>]
           y == g[<<u, v, m>>]
<1>2. x = y
  BY <1>1
<1> QED BY <1>1, Zenon DEF FindOptimalAlignmentCached

\* The place of the better of two results is a place.
LEMMA BetterIs ==
    ASSUME NEW m \in Memory, m.at # 0, NEW k \in 1..Len(m.heap)
    PROVE  Better(m, k) \in 1..Len(m.heap)
BY MemoryFacts DEF Better

\* The three calls that a call makes, one after the other, and the result.
With(find, s, t, m)    == FindOptimalAlignmentCached(find, Tail(s), Tail(t), m)
AfterM1(find, s, t, m) == Extended(With(find, s, t, m), -1, Head(s), Head(t))
Call2(find, s, t, m)   == FindOptimalAlignmentCached(find, s, Tail(t), AfterM1(find, s, t, m))
AfterM2(find, s, t, m) == Extended(Call2(find, s, t, m), -2, Space, Head(t))
Call3(find, s, t, m)   == FindOptimalAlignmentCached(find, Tail(s), t, AfterM2(find, s, t, m))
AfterM3(find, s, t, m) == Extended(Call3(find, s, t, m), -2, Head(s), Space)

\* The bases in front are the same: one call.
LEMMA FindMatch ==
    ASSUME NEW find, NEW s, s # <<>>, NEW t, t # <<>>, NEW m, Head(s) = Head(t)
    PROVE  Find(find, s, t, m) =
             Extended(Returning(With(find, s, t, m), Result(With(find, s, t, m))), 1, Head(s), Head(t))
BY Zenon DEF Find, With

\* They are not: three calls, each with the memory that the one before left.
LEMMA FindMismatch ==
    ASSUME NEW find, NEW s, s # <<>>, NEW t, t # <<>>, NEW m, Head(s) # Head(t)
    PROVE  LET m1 == AfterM1(find, s, t, m)
               m2 == AfterM2(find, s, t, m)
               m3 == AfterM3(find, s, t, m)
           IN  Find(find, s, t, m) = [m3 EXCEPT !.at = Better(m3, Better(m2, m1.at))]
BY Zenon DEF Find, With, AfterM1, Call2, AfterM2, Call3, AfterM3

\* The calls that are made have fewer bases.
LEMMA SmallerCalls ==
    ASSUME NEW s \in Seq(Bases), s # <<>>, NEW t \in Seq(Bases), t # <<>>
    PROVE  /\ Tail(s) \in Seq(Bases) /\ Tail(t) \in Seq(Bases)
           /\ Head(s) \in Bases /\ Head(t) \in Bases
           /\ Len(Tail(s)) + Len(Tail(t)) < Len(s) + Len(t)
           /\ Len(s) + Len(Tail(t)) < Len(s) + Len(t)
           /\ Len(Tail(s)) + Len(t) < Len(s) + Len(t)
OBVIOUS

LEMMA WorthOfBases ==
    ASSUME NEW a \in Bases, NEW b \in Bases
    PROVE  /\ Worth(a, b) = IF a = b THEN 1 ELSE -1
           /\ Worth(Space, b) = -2 /\ Worth(a, Space) = -2
BY SpaceAssumption DEF Worth

\* The steps of a call with different bases in front, each leading on.
LEMMA StepsLead ==
    ASSUME NEW find, NEW s \in Seq(Bases), s # <<>>, NEW t \in Seq(Bases), t # <<>>,
           Finds(find, Len(s) + Len(t)), NEW m \in Memory
    PROVE  /\ Leads(m, With(find, s, t, m))
           /\ Head(s) # Head(t) => /\ Leads(m, AfterM1(find, s, t, m))
                                   /\ Leads(AfterM1(find, s, t, m), AfterM2(find, s, t, m))
                                   /\ Leads(AfterM2(find, s, t, m), AfterM3(find, s, t, m))
<1> DEFINE n == Len(s) + Len(t)
           w == With(find, s, t, m)
           m1 == AfterM1(find, s, t, m)
           c2 == Call2(find, s, t, m)
           m2 == AfterM2(find, s, t, m)
           c3 == Call3(find, s, t, m)
           m3 == AfterM3(find, s, t, m)
<1>1. \A k, l : Leads(k, l) => l \in Memory /\ l.at # 0
  BY DEF Leads
<1>2. Leads(m, w)
  BY SmallerCalls, CachedCallLeads DEF With
<1>3. SUFFICES ASSUME Head(s) # Head(t)
               PROVE  Leads(m, m1) /\ Leads(m1, m2) /\ Leads(m2, m3)
  BY <1>2
<1>4. /\ m1 = Extended(w, -1, Head(s), Head(t))
      /\ c2 = FindOptimalAlignmentCached(find, s, Tail(t), m1)
      /\ m2 = Extended(c2, -2, Space, Head(t))
      /\ c3 = FindOptimalAlignmentCached(find, Tail(s), t, m2)
      /\ m3 = Extended(c3, -2, Head(s), Space)
  BY Zenon DEF AfterM1, Call2, AfterM2, Call3, AfterM3
<1> HIDE DEF n, w, m1, c2, m2, c3, m3
<1>5. /\ Head(s) \in Bases \cup {Space} /\ Head(t) \in Bases \cup {Space}
      /\ Space \in Bases \cup {Space}
      /\ -1 = Worth(Head(s), Head(t)) /\ -2 = Worth(Space, Head(t)) /\ -2 = Worth(Head(s), Space)
  BY <1>3, SmallerCalls, WorthOfBases
<1>6. Leads(w, m1) /\ Leads(m, m1)
  <2>1. Leads(w, m1)
    BY <1>1, <1>2, <1>4, <1>5, ExtendedLeads
  <2> QED BY <1>2, <2>1, LeadsOn
<1>7. Leads(m1, m2)
  <2>1. Leads(m1, c2)
    BY <1>1, <1>4, <1>6, SmallerCalls, CachedCallLeads
  <2>2. Leads(c2, m2)
    BY <1>1, <1>4, <1>5, <2>1, ExtendedLeads
  <2> QED BY <1>1, <1>6, <2>1, <2>2, LeadsOn
<1>8. Leads(m2, m3)
  <2>1. Leads(m2, c3)
    BY <1>1, <1>4, <1>7, SmallerCalls, CachedCallLeads
  <2>2. Leads(c3, m3)
    BY <1>1, <1>4, <1>5, <2>1, ExtendedLeads
  <2> QED BY <1>1, <1>7, <2>1, <2>2, LeadsOn
<1> QED BY <1>6, <1>7, <1>8

\* A call leads on if the smaller calls that it makes do.
LEMMA FindLeads ==
    ASSUME NEW find, NEW s \in Seq(Bases), NEW t \in Seq(Bases),
           Finds(find, Len(s) + Len(t)), NEW m \in Memory
    PROVE  Leads(m, Find(find, s, t, m))
<1>1. CASE s = <<>>
  BY <1>1, SpacesLead DEF Find
<1>2. CASE s # <<>> /\ t = <<>>
  BY <1>2, SpacesLead DEF Find
<1>3. CASE s # <<>> /\ t # <<>> /\ Head(s) = Head(t)
  <2> DEFINE w == With(find, s, t, m)
             r == Result(w)
             k == Returning(w, r)
  <2>1. Find(find, s, t, m) = Extended(k, 1, Head(s), Head(t))
    BY <1>3, FindMatch
  <2>2. Leads(m, w)
    BY <1>3, StepsLead
  <2> HIDE DEF w
  <2>3. w \in Memory /\ w.at # 0
    BY <2>2 DEF Leads
  <2>4. r \in Results /\ (Good(w) => Scored(r))
    BY <2>3, MemoryFacts DEF Good, Result
  <2> HIDE DEF r
  <2>5. Leads(w, k)
    BY <2>3, <2>4, ReturningLeads
  <2> HIDE DEF k
  <2>6. k \in Memory /\ k.at # 0
    BY <2>5 DEF Leads
  <2>7. Head(s) \in Bases /\ 1 = Worth(Head(s), Head(t)) /\ Head(t) \in Bases
    BY <1>3, SmallerCalls, WorthOfBases
  <2>8. Leads(k, Extended(k, 1, Head(s), Head(t)))
    BY <2>6, <2>7, ExtendedLeads
  <2>9. Leads(w, Extended(k, 1, Head(s), Head(t)))
    BY <2>3, <2>5, <2>8, LeadsOn
  <2> QED BY <2>1, <2>2, <2>9, LeadsOn
<1>4. CASE s # <<>> /\ t # <<>> /\ Head(s) # Head(t)
  <2> DEFINE m1 == AfterM1(find, s, t, m)
             m2 == AfterM2(find, s, t, m)
             m3 == AfterM3(find, s, t, m)
             best == Better(m2, m1.at)
             at == Better(m3, best)
  <2>1. Find(find, s, t, m) = [m3 EXCEPT !.at = at]
    BY <1>4, FindMismatch
  <2>2. Leads(m, m1) /\ Leads(m1, m2) /\ Leads(m2, m3)
    BY <1>4, StepsLead
  <2> HIDE DEF m1, m2, m3
  <2>3. /\ m1 \in Memory /\ m1.at # 0 /\ m2 \in Memory /\ m2.at # 0 /\ m3 \in Memory /\ m3.at # 0
        /\ Len(m1.heap) <= Len(m2.heap) /\ Len(m2.heap) <= Len(m3.heap)
    BY <2>2 DEF Leads
  <2>4. m1.at \in 1..Len(m1.heap) /\ Len(m1.heap) \in Nat /\ Len(m2.heap) \in Nat /\ Len(m3.heap) \in Nat
    BY <2>3, MemoryFacts
  <2>5. m1.at \in 1..Len(m2.heap)
    BY <2>3, <2>4
  <2>6. best \in 1..Len(m2.heap)
    BY <2>3, <2>5, BetterIs
  <2> HIDE DEF best
  <2>7. best \in 1..Len(m3.heap)
    BY <2>3, <2>4, <2>6
  <2>8. at \in 1..Len(m3.heap)
    BY <2>3, <2>7, BetterIs
  <2> HIDE DEF at
  <2>9. Leads(m3, [m3 EXCEPT !.at = at])
    BY <2>3, <2>8, AtLeads
  <2>10. Leads(m, m3)
    BY <2>2, <2>3, LeadsOn
  <2> QED BY <2>1, <2>9, <2>10, LeadsOn
<1> QED BY <1>1, <1>2, <1>3, <1>4

\* What it returns depends on smaller calls only.
LEMMA FindSame ==
    ASSUME NEW f, NEW g, NEW s \in Seq(Bases), NEW t \in Seq(Bases),
           SameFinds(f, g, Len(s) + Len(t)), Finds(f, Len(s) + Len(t)), NEW m \in Memory
    PROVE  Find(f, s, t, m) = Find(g, s, t, m)
<1>1. CASE s = <<>> \/ t = <<>>
  BY <1>1, Zenon DEF Find
<1>2. CASE s # <<>> /\ t # <<>>
  <2> DEFINE n == Len(s) + Len(t)
             u == Tail(s)
             v == Tail(t)
  <2>0. /\ SameFinds(f, g, n)
        /\ u \in Seq(Bases) /\ v \in Seq(Bases)
        /\ Len(u) + Len(v) < n
        /\ Len(s) + Len(v) < n
        /\ Len(u) + Len(t) < n
    BY <1>2, SmallerCalls
  <2>1. With(f, s, t, m) = With(g, s, t, m)
    <3>1. /\ With(f, s, t, m) = FindOptimalAlignmentCached(f, u, v, m)
          /\ With(g, s, t, m) = FindOptimalAlignmentCached(g, u, v, m)
      BY Zenon DEF With
    <3> HIDE DEF n, u, v
    <3>2. FindOptimalAlignmentCached(f, u, v, m) = FindOptimalAlignmentCached(g, u, v, m)
      BY <2>0, CachedCallSame
    <3> QED BY <3>1, <3>2
  <2>2. CASE Head(s) = Head(t)
    BY <1>2, <2>1, <2>2, FindMatch
  <2>3. CASE Head(s) # Head(t)
    <3> DEFINE m1 == AfterM1(f, s, t, m)
               m2 == AfterM2(f, s, t, m)
               m3 == AfterM3(f, s, t, m)
               k1 == AfterM1(g, s, t, m)
               k2 == AfterM2(g, s, t, m)
               k3 == AfterM3(g, s, t, m)
    <3>1. m1 \in Memory /\ m2 \in Memory
      BY <1>2, <2>3, StepsLead DEF Leads
    <3>2. m1 = k1
      BY <2>1, Zenon DEF AfterM1
    <3>3. m2 = k2
      <4>1. /\ m2 = Extended(FindOptimalAlignmentCached(f, s, v, m1), -2, Space, Head(t))
            /\ k2 = Extended(FindOptimalAlignmentCached(g, s, v, k1), -2, Space, Head(t))
        BY Zenon DEF AfterM2, Call2
      <4> HIDE DEF n, u, v, m1, m2, k1, k2
      <4>2. FindOptimalAlignmentCached(f, s, v, m1) = FindOptimalAlignmentCached(g, s, v, m1)
        BY <2>0, <3>1, CachedCallSame
      <4> QED BY <3>2, <4>1, <4>2
    <3>4. m3 = k3
      <4>1. /\ m3 = Extended(FindOptimalAlignmentCached(f, u, t, m2), -2, Head(s), Space)
            /\ k3 = Extended(FindOptimalAlignmentCached(g, u, t, k2), -2, Head(s), Space)
        BY Zenon DEF AfterM3, Call3
      <4> HIDE DEF n, u, v, m2, k2, m3, k3
      <4>2. FindOptimalAlignmentCached(f, u, t, m2) = FindOptimalAlignmentCached(g, u, t, m2)
        BY <2>0, <3>1, CachedCallSame
      <4> QED BY <3>3, <4>1, <4>2
    <3>5. /\ Find(f, s, t, m) = [m3 EXCEPT !.at = Better(m3, Better(m2, m1.at))]
          /\ Find(g, s, t, m) = [k3 EXCEPT !.at = Better(k3, Better(k2, k1.at))]
      BY <1>2, <2>3, FindMismatch
    <3> HIDE DEF m1, m2, m3, k1, k2, k3
    <3> QED BY <3>2, <3>3, <3>4, <3>5
  <2> QED BY <2>2, <2>3
<1> QED BY <1>1, <1>2

CallsTogether ==
    [gx \in Partial(Calls, CallLeads) \X Calls |-> Find(gx[1], gx[2][1], gx[2][2], gx[2][3])]

LEMMA CallIs ==
    ASSUME NEW s \in Seq(Bases), NEW t \in Seq(Bases), NEW m \in Memory
    PROVE  /\ <<s, t, m>> \in Calls
           /\ CallSize[<<s, t, m>>] = Len(s) + Len(t)
BY DEF Calls, CallSize

LEMMA CallFacts ==
    ASSUME NEW call \in Calls
    PROVE  /\ call = <<call[1], call[2], call[3]>>
           /\ call[1] \in Seq(Bases) /\ call[2] \in Seq(Bases) /\ call[3] \in Memory
           /\ CallSize[call] = Len(call[1]) + Len(call[2])
BY DEF Calls, CallSize

\* A part of a solution leads on from the calls in its domain.
LEMMA PartialFinds ==
    ASSUME NEW g \in Partial(Calls, CallLeads), NEW n,
           Below(Calls, CallSize, n) \subseteq DOMAIN g
    PROVE  Finds(g, n)
<1> SUFFICES ASSUME NEW u \in Seq(Bases), NEW v \in Seq(Bases), NEW m \in Memory,
                    Len(u) + Len(v) < n
             PROVE  Leads(m, g[<<u, v, m>>])
  BY DEF Finds
<1> DEFINE c == <<u, v, m>>
<1>1. c \in Calls /\ CallSize[c] < n
  BY CallIs
<1>2. c[3] = m
  OBVIOUS
<1> HIDE DEF c
<1>3. c \in DOMAIN g
  BY <1>1 DEF Below
<1>4. <<c, g[c]>> \in CallLeads
  BY <1>3, Zenon DEF Partial
<1> DEFINE r == g[c]
<1> HIDE DEF r
<1>5. <<c, r>> \in CallLeads
  BY <1>4 DEF r
<1>6. Leads(c[3], r)
  <2> DEFINE p == <<c, r>>
  <2>1. Leads(p[1][3], p[2])
    BY <1>5 DEF CallLeads
  <2> QED BY <2>1
<1> QED BY <1>2, <1>6 DEF r, c

LEMMA CallsOnSmaller == OnSmaller(CallsTogether, Calls, CallLeads, CallSize)
<1> DEFINE D == Calls
           P == CallLeads
<1>1. ASSUME NEW g \in Partial(D, P), NEW x \in D
      PROVE  CallsTogether[<<g, x>>] = Find(g, x[1], x[2], x[3])
  <2>1. <<g, x>> \in Partial(D, P) \X D
    OBVIOUS
  <2> QED BY <2>1 DEF CallsTogether
<1>2. ASSUME NEW g \in Partial(D, P), NEW x \in D, Below(D, CallSize, CallSize[x]) \subseteq DOMAIN g
      PROVE  /\ Finds(g, Len(x[1]) + Len(x[2]))
             /\ <<x, CallsTogether[<<g, x>>]>> \in P
  <2> DEFINE s == x[1]
             t == x[2]
             m == x[3]
  <2>1. s \in Seq(Bases) /\ t \in Seq(Bases) /\ m \in Memory /\ CallSize[x] = Len(s) + Len(t)
    BY CallFacts
  <2>2. Finds(g, Len(s) + Len(t))
    BY <1>2, <2>1, PartialFinds
  <2>3. Leads(m, Find(g, s, t, m))
    <3> HIDE DEF s, t, m
    <3> QED BY <2>1, <2>2, FindLeads
  <2> DEFINE r == CallsTogether[<<g, x>>]
  <2>4. r = Find(g, s, t, m)
    BY <1>1
  <2> HIDE DEF r
  <2>5. Leads(x[3], r) /\ r \in Memory
    BY <2>3, <2>4 DEF Leads
  <2>6. <<x, r>> \in CallLeads
    BY <2>5 DEF CallLeads
  <2> QED BY <2>2, <2>6 DEF r
<1>3. ASSUME NEW g \in Partial(D, P), NEW h \in Partial(D, P), NEW x \in D,
             Below(D, CallSize, CallSize[x]) \subseteq DOMAIN g,
             \A y \in Below(D, CallSize, CallSize[x]) : g[y] = h[y]
      PROVE  CallsTogether[<<g, x>>] = CallsTogether[<<h, x>>]
  <2> DEFINE s == x[1]
             t == x[2]
             m == x[3]
             n == Len(s) + Len(t)
  <2>1. s \in Seq(Bases) /\ t \in Seq(Bases) /\ m \in Memory /\ CallSize[x] = n
    BY CallFacts
  <2>2. Finds(g, n)
    BY <1>2, <1>3
  <2> HIDE DEF s, t, m, n
  <2>3. SameFinds(g, h, n)
    <3> SUFFICES ASSUME NEW u \in Seq(Bases), NEW v \in Seq(Bases), NEW k \in Memory,
                        Len(u) + Len(v) < n
                 PROVE  g[<<u, v, k>>] = h[<<u, v, k>>]
      BY DEF SameFinds
    <3> DEFINE c == <<u, v, k>>
    <3>1. c \in Calls /\ CallSize[c] < n
      BY CallIs
    <3> HIDE DEF c
    <3>2. c \in Below(D, CallSize, CallSize[x])
      BY <2>1, <3>1 DEF Below
    <3>3. g[c] = h[c]
      BY <1>3, <3>2
    <3> QED BY <3>3 DEF c
  <2>4. Find(g, s, t, m) = Find(h, s, t, m)
    BY <2>1, <2>2, <2>3, FindSame DEF n
  <2> QED BY <1>1, <2>4 DEF s, t, m
<1> QED BY <1>2, <1>3 DEF OnSmaller

\* The recursive calls come to an end, and each leads on.
LEMMA FindOptimalAlignmentIs ==
    ASSUME NEW s \in Seq(Bases), NEW t \in Seq(Bases), NEW m \in Memory
    PROVE  Leads(m, FindOptimalAlignment[<<s, t, m>>])
<1> DEFINE Equation(f) == f = [call \in Calls |-> Find(f, call[1], call[2], call[3])]
<1>1. CallSize \in [Calls -> Nat]
  <2>1. ASSUME NEW c \in Calls PROVE Len(c[1]) + Len(c[2]) \in Nat
    <3> DEFINE u == c[1]
               v == c[2]
    <3>1. u \in Seq(Bases) /\ v \in Seq(Bases)
      BY CallFacts
    <3> HIDE DEF u, v
    <3>2. Len(u) + Len(v) \in Nat
      BY <3>1
    <3> QED BY <3>2 DEF u, v
  <2> QED BY <2>1 DEF CallSize
<1>2. \E f : /\ Obeys(f, Calls, CallLeads)
             /\ f \in Partial(Calls, CallLeads)
             /\ \A x \in Calls : f[x] = CallsTogether[<<f, x>>]
  <2>1. Recursive(CallsTogether, Calls, CallLeads, CallSize)
    BY <1>1, CallsOnSmaller DEF Recursive
  <2> QED BY <2>1, FunctionExists
<1>3. PICK f : /\ Obeys(f, Calls, CallLeads)
               /\ f \in Partial(Calls, CallLeads)
               /\ \A x \in Calls : f[x] = CallsTogether[<<f, x>>]
  BY <1>2, Zenon
<1>4. \A x \in Calls : f[x] = Find(f, x[1], x[2], x[3])
  <2> TAKE x \in Calls
  <2>1. <<f, x>> \in Partial(Calls, CallLeads) \X Calls
    BY <1>3
  <2> QED BY <1>3, <2>1 DEF CallsTogether
<1>5. Equation(f)
  BY <1>3, <1>4 DEF Obeys
<1>6. FindOptimalAlignment = CHOOSE g : Equation(g)
  BY Zenon DEF FindOptimalAlignment, Calls, Find
<1>7. Equation(FindOptimalAlignment)
  <2> HIDE DEF Equation
  <2> QED BY <1>5, <1>6, Zenon
<1> DEFINE g == FindOptimalAlignment
<1> HIDE DEF g
<1>8. g = [call \in Calls |-> Find(g, call[1], call[2], call[3])]
  BY <1>7 DEF g
<1> DEFINE T == {n \in Nat : Finds(g, n)}
<1>9. ASSUME NEW n \in Nat, \A k \in Nat : k < n => k \in T PROVE n \in T
  <2> SUFFICES ASSUME NEW u \in Seq(Bases), NEW v \in Seq(Bases), NEW k \in Memory,
                      Len(u) + Len(v) < n
               PROVE  Leads(k, g[<<u, v, k>>])
    BY DEF Finds
  <2>1. Len(u) + Len(v) \in Nat
    OBVIOUS
  <2>2. Finds(g, Len(u) + Len(v))
    BY <1>9, <2>1
  <2>3. Leads(k, Find(g, u, v, k))
    BY <2>2, FindLeads
  <2>4. g[<<u, v, k>>] = Find(g, u, v, k)
    <3> DEFINE c == <<u, v, k>>
    <3>1. c \in Calls /\ c[1] = u /\ c[2] = v /\ c[3] = k
      BY CallIs
    <3> HIDE DEF c
    <3>2. g[c] = Find(g, c[1], c[2], c[3])
      BY <1>8, <3>1
    <3> QED BY <3>1, <3>2 DEF c
  <2> QED BY <2>3, <2>4
<1>10. Nat \subseteq T
  <2> HIDE DEF T
  <2> QED BY <1>9, StrongInduction, Zenon
<1>11. Len(s) + Len(t) + 1 \in T /\ Len(s) + Len(t) < Len(s) + Len(t) + 1
  BY <1>10
<1> QED BY <1>11 DEF g, Finds

-----------------------------------------------------------------------------
(* Alignments that are printed *)

\* The score that is printed is always the score of the strands that are
\* printed, which are equally long, for any bases and any length.
THEOREM ScoresOfAlignments == AlignSpec => []ScoreOfAlignment
<1>1. AlignInit => ScoreOfAlignment
  <2> SUFFICES ASSUME AlignInit PROVE ScoreOfAlignment
    OBVIOUS
  <2> DEFINE e == << >>
  <2>1. e \in Seq(Bases) /\ Len(e) = 0
    OBVIOUS
  <2>2. Score(e, e) = -2 * Len(e)
    <3> HIDE DEF e
    <3>1. \A k \in 1..Len(e) : e[k] = Space \/ e[k] = Space
      BY <2>1
    <3> QED BY <2>1, <3>1, ScoreOfSpaces
  <2>3. -2 * Len(e) = 0
    <3>1. ASSUME NEW k \in Int PROVE -2 * k = 0 - k - k
      OBVIOUS
    <3> DEFINE k == Len(e)
    <3>2. k = 0
      OBVIOUS
    <3> HIDE DEF k
    <3>3. k \in Int
      BY <3>2
    <3>4. -2 * k = 0 - k - k
      BY <3>1, <3>3
    <3>5. -2 * k = 0
      BY <3>2, <3>4
    <3> QED BY <3>5 DEF k
  <2>4. alignment.score = 0 /\ alignment.strand1 = e /\ alignment.strand2 = e
    BY DEF AlignInit, NoAlignment
  <2> HIDE DEF e
  <2> QED BY <2>2, <2>3, <2>4 DEF ScoreOfAlignment, Scored
<1>2. ScoreOfAlignment /\ [\E s, t \in Strands : FindAndPrint(s, t)]_alignVars => ScoreOfAlignment'
  <2> SUFFICES ASSUME ScoreOfAlignment, [\E s, t \in Strands : FindAndPrint(s, t)]_alignVars
               PROVE  ScoreOfAlignment'
    OBVIOUS
  <2>1. CASE UNCHANGED alignVars
    BY <2>1 DEF alignVars, ScoreOfAlignment
  <2>2. CASE \E s, t \in Strands : FindAndPrint(s, t)
    <3>1. PICK s \in Strands, t \in Strands : FindAndPrint(s, t)
      BY <2>2
    <3> DEFINE n == FindOptimalAlignment[<<s, t, NoMemory>>]
    <3>2. s \in Seq(Bases) /\ t \in Seq(Bases)
      BY SpaceAssumption DEF Strands
    <3>3. NoMemory \in Memory /\ Good(NoMemory)
      <4>1. NoMemory.heap = <<>> /\ NoMemory.cache = {} /\ NoMemory.at = 0
        BY DEF NoMemory
      <4>2. NoMemory \in [heap : Seq(Results), cache : SUBSET CacheEntries, at : Nat]
        BY DEF NoMemory
      <4> QED BY <4>1, <4>2 DEF Memory, Good
    <3>4. Leads(NoMemory, n)
      BY <3>2, <3>3, FindOptimalAlignmentIs
    <3>5. alignment' = Result(n)
      BY <3>1 DEF FindAndPrint
    <3> HIDE DEF n
    <3>6. n \in Memory /\ n.at # 0 /\ Good(n)
      BY <3>3, <3>4 DEF Leads
    <3>7. Scored(Result(n))
      BY <3>6, MemoryFacts DEF Good, Result
    <3>8. Scored(alignment')
      BY <3>5, <3>7
    <3> QED BY <3>8 DEF ScoreOfAlignment, Scored
  <2> QED BY <2>1, <2>2
<1> QED BY <1>1, <1>2, PTL DEF AlignSpec

-----------------------------------------------------------------------------
(* Lists that are built element by element *)

\* g[k] is what k steps have made of a.
Iterates(g, N, a, step) == g = [k \in 0..N |-> IF k = 0 THEN a ELSE step[<<k, g[k - 1]>>]]

\* A value can be stepped any number of times.
LEMMA IterationExists ==
    ASSUME NEW N \in Nat, NEW V, NEW a \in V, NEW step \in [(1..N) \X V -> V]
    PROVE  \E g \in [0..N -> V] : Iterates(g, N, a, step)
<1> DEFINE UpTo(g, n) == /\ g \in [0..n -> V]
                         /\ g = [k \in 0..n |-> IF k = 0 THEN a ELSE step[<<k, g[k - 1]>>]]
           T == {n \in Nat : n <= N => \E g : UpTo(g, n)}
<1>1. 0 \in T
  <2> DEFINE g == [k \in 0..0 |-> a]
  <2>1. UpTo(g, 0)
    OBVIOUS
  <2> HIDE DEF UpTo
  <2> QED BY <2>1
<1>2. ASSUME NEW n \in Nat, n \in T PROVE n + 1 \in T
  <2> SUFFICES ASSUME n + 1 <= N PROVE \E g : UpTo(g, n + 1)
    OBVIOUS
  <2>1. PICK g : UpTo(g, n)
    BY <1>2
  <2> DEFINE last == step[<<n + 1, g[n]>>]
  <2>2. last \in V
    BY <2>1
  <2> HIDE DEF last
  <2> DEFINE h == [k \in 0..(n + 1) |-> IF k = n + 1 THEN last ELSE g[k]]
  <2>3. /\ h[n + 1] = last /\ h \in [0..(n + 1) -> V]
        /\ \A k \in 0..n : h[k] = g[k] /\ g[k] = IF k = 0 THEN a ELSE step[<<k, g[k - 1]>>]
    BY <2>1, <2>2
  <2>4. h = [k \in 0..(n + 1) |-> h[k]]
    OBVIOUS
  <2> HIDE DEF h
  <2>5. ASSUME NEW k \in 0..(n + 1)
        PROVE  h[k] = IF k = 0 THEN a ELSE step[<<k, h[k - 1]>>]
    <3>1. CASE k = n + 1
      <4>1. (n + 1) - 1 = n /\ n \in 0..n /\ n + 1 # 0
        OBVIOUS
      <4>2. h[n] = g[n]
        BY <2>3, <4>1
      <4> QED BY <2>3, <3>1, <4>1, <4>2 DEF last
    <3>2. CASE k # n + 1
      <4>1. k \in 0..n /\ (k # 0 => k - 1 \in 0..n)
        BY <3>2
      <4> QED BY <2>3, <4>1
    <3> QED BY <3>1, <3>2
  <2>6. UpTo(h, n + 1)
    BY <2>3, <2>4, <2>5
  <2> HIDE DEF UpTo
  <2> QED BY <2>6
<1>3. Nat \subseteq T
  <2> HIDE DEF T
  <2> QED BY <1>1, <1>2, Induction, Zenon
<1>4. N \in T
  BY <1>3
<1>5. PICK g : UpTo(g, N)
  BY <1>4
<1> QED BY <1>5 DEF Iterates

\* A list and the set of its elements.
LEMMA SeqElements ==
    ASSUME NEW S, NEW s \in Seq(S)
    PROVE  /\ Len(s) \in Nat /\ DOMAIN s = 1..Len(s) /\ ToSet(s) \subseteq S
           /\ s \in Seq(ToSet(s))
           /\ \A x : x \in ToSet(s) <=> \E n \in 1..Len(s) : x = s[n]
<1>1. Len(s) \in Nat /\ DOMAIN s = 1..Len(s) /\ s \in [1..Len(s) -> S]
  OBVIOUS
<1>2. \A x : x \in ToSet(s) <=> \E n \in 1..Len(s) : x = s[n]
  BY <1>1 DEF ToSet
<1>3. s \in [1..Len(s) -> ToSet(s)]
  BY <1>1, <1>2
<1> DEFINE T == ToSet(s)
<1>4. s \in Seq(T)
  <2> HIDE DEF T
  <2>1. s \in [1..Len(s) -> T]
    BY <1>3 DEF T
  <2> QED BY <1>1, <2>1
<1> QED BY <1>1, <1>2, <1>4

LEMMA AppendElements ==
    ASSUME NEW S, NEW s \in Seq(S), NEW e \in S
    PROVE  /\ Append(s, e) \in Seq(S) /\ Len(Append(s, e)) = Len(s) + 1
           /\ ToSet(Append(s, e)) = ToSet(s) \cup {e}
           /\ IsInjective(s) /\ e \notin ToSet(s) => IsInjective(Append(s, e))
<1> DEFINE t == Append(s, e)
<1>1. /\ t \in Seq(S) /\ Len(t) = Len(s) + 1 /\ t[Len(s) + 1] = e
      /\ \A n \in 1..Len(s) : t[n] = s[n]
  OBVIOUS
<1> HIDE DEF t
<1>2. /\ Len(s) \in Nat /\ DOMAIN s = 1..Len(s) /\ DOMAIN t = 1..Len(t)
      /\ \A x : x \in ToSet(s) <=> \E n \in 1..Len(s) : x = s[n]
      /\ \A x : x \in ToSet(t) <=> \E n \in 1..Len(t) : x = t[n]
  BY <1>1, SeqElements
<1>3. \A n : n \in 1..Len(t) <=> n \in 1..Len(s) \/ n = Len(s) + 1
  BY <1>1, <1>2
<1>4. ToSet(t) = ToSet(s) \cup {e}
  BY <1>1, <1>2, <1>3
<1>5. ASSUME IsInjective(s), e \notin ToSet(s) PROVE IsInjective(t)
  BY <1>1, <1>2, <1>3, <1>5 DEF IsInjective
<1> QED BY <1>1, <1>4, <1>5 DEF t

LEMMA ConcatElements ==
    ASSUME NEW S, NEW s \in Seq(S), NEW t \in Seq(S)
    PROVE  /\ s \o t \in Seq(S) /\ Len(s \o t) = Len(s) + Len(t)
           /\ ToSet(s \o t) = ToSet(s) \cup ToSet(t)
           /\ IsInjective(s) /\ IsInjective(t) /\ ToSet(s) \cap ToSet(t) = {}
                => IsInjective(s \o t)
<1> DEFINE u == s \o t
<1>1. /\ u \in Seq(S) /\ Len(u) = Len(s) + Len(t)
      /\ \A n \in 1..Len(s) : u[n] = s[n]
      /\ \A n \in 1..Len(t) : u[Len(s) + n] = t[n]
  OBVIOUS
<1> HIDE DEF u
<1>2. /\ Len(s) \in Nat /\ DOMAIN s = 1..Len(s)
      /\ Len(t) \in Nat /\ DOMAIN t = 1..Len(t) /\ DOMAIN u = 1..Len(u)
      /\ \A x : x \in ToSet(s) <=> \E n \in 1..Len(s) : x = s[n]
      /\ \A x : x \in ToSet(t) <=> \E n \in 1..Len(t) : x = t[n]
      /\ \A x : x \in ToSet(u) <=> \E n \in 1..Len(u) : x = u[n]
  BY <1>1, SeqElements
<1>3. \A n \in 1..Len(u) : \/ n \in 1..Len(s) /\ u[n] = s[n]
                           \/ /\ n - Len(s) \in 1..Len(t) /\ u[n] = t[n - Len(s)]
                              /\ n \notin 1..Len(s)
  <2> TAKE n \in 1..Len(u)
  <2>1. CASE n \in 1..Len(s)
    BY <1>1, <2>1
  <2>2. CASE n \notin 1..Len(s)
    <3> DEFINE m == n - Len(s)
    <3>1. m \in 1..Len(t) /\ n = Len(s) + m
      BY <1>1, <1>2, <2>2
    <3>2. u[n] = t[m]
      <4> HIDE DEF m
      <4> QED BY <1>1, <3>1
    <3> QED BY <2>2, <3>1, <3>2
  <2> QED BY <2>1, <2>2
<1>4. ToSet(u) = ToSet(s) \cup ToSet(t)
  <2>1. ASSUME NEW x \in ToSet(s) PROVE x \in ToSet(u)
    <3>1. PICK n \in 1..Len(s) : x = s[n]
      BY <1>2
    <3>2. n \in 1..Len(u) /\ u[n] = x
      BY <1>1, <1>2, <3>1
    <3> QED BY <1>2, <3>2
  <2>2. ASSUME NEW x \in ToSet(t) PROVE x \in ToSet(u)
    <3>1. PICK n \in 1..Len(t) : x = t[n]
      BY <1>2
    <3>2. Len(s) + n \in 1..Len(u) /\ u[Len(s) + n] = x
      BY <1>1, <1>2, <3>1
    <3> QED BY <1>2, <3>2
  <2>3. ASSUME NEW x \in ToSet(u) PROVE x \in ToSet(s) \cup ToSet(t)
    <3>1. PICK n \in 1..Len(u) : x = u[n]
      BY <1>2
    <3> QED BY <1>2, <1>3, <3>1
  <2> QED BY <2>1, <2>2, <2>3
<1>5. ASSUME IsInjective(s), IsInjective(t), ToSet(s) \cap ToSet(t) = {}
      PROVE  IsInjective(u)
  <2> SUFFICES ASSUME NEW j \in 1..Len(u), NEW k \in 1..Len(u), u[j] = u[k] PROVE j = k
    BY <1>2 DEF IsInjective
  <2>1. CASE j \in 1..Len(s) /\ k \in 1..Len(s)
    BY <1>1, <1>2, <1>5, <2>1 DEF IsInjective
  <2>2. CASE j \in 1..Len(s) /\ k \notin 1..Len(s)
    BY <1>2, <1>3, <1>5, <2>2
  <2>3. CASE j \notin 1..Len(s) /\ k \in 1..Len(s)
    BY <1>2, <1>3, <1>5, <2>3
  <2>4. CASE j \notin 1..Len(s) /\ k \notin 1..Len(s)
    <3>1. /\ j - Len(s) \in 1..Len(t) /\ k - Len(s) \in 1..Len(t)
          /\ t[j - Len(s)] = t[k - Len(s)]
      BY <1>3, <2>4
    <3>2. j - Len(s) = k - Len(s)
      BY <1>2, <1>5, <3>1 DEF IsInjective
    <3> QED BY <1>2, <3>2
  <2> QED BY <2>1, <2>2, <2>3, <2>4
<1> QED BY <1>1, <1>4, <1>5 DEF u

-----------------------------------------------------------------------------
(* Joining lists: joined[k] is the first k parts, one after the other. *)

Joins(joined, parts) ==
    joined = [k \in 0..Len(parts) |-> IF k = 0 THEN <<>> ELSE joined[k - 1] \o parts[k]]

\* Lists can be joined.
LEMMA JoinExists ==
    ASSUME NEW S, NEW parts \in Seq(Seq(S))
    PROVE  \E joined : Joins(joined, parts)
<1> DEFINE N == Len(parts)
           V == Seq(S)
           step == [kv \in (1..N) \X V |-> kv[2] \o parts[kv[1]]]
<1>1. N \in Nat /\ <<>> \in V /\ \A k \in 1..N : parts[k] \in V
  OBVIOUS
<1>2. step \in [(1..N) \X V -> V]
  <2>1. ASSUME NEW kv \in (1..N) \X V PROVE kv[2] \o parts[kv[1]] \in V
    <3> DEFINE p == parts[kv[1]]
               v == kv[2]
    <3>1. p \in Seq(S) /\ v \in Seq(S)
      BY <1>1
    <3> HIDE DEF p, v
    <3>2. v \o p \in Seq(S)
      BY <3>1
    <3> QED BY <3>2 DEF p, v
  <2> QED BY <2>1
<1>3. \A k \in 1..N, v \in V : step[<<k, v>>] = v \o parts[k]
  OBVIOUS
<1> DEFINE none == <<>>
<1>4. \E g \in [0..N -> V] : Iterates(g, N, none, step)
  <2>1. none \in V
    BY <1>1
  <2> HIDE DEF none, step, V, N
  <2> QED BY <1>1, <1>2, <2>1, IterationExists
<1> HIDE DEF step, V
<1>5. PICK g \in [0..N -> V] : g = [k \in 0..N |-> IF k = 0 THEN <<>> ELSE step[<<k, g[k - 1]>>]]
  BY <1>4 DEF Iterates
<1>6. ASSUME NEW k \in 0..N PROVE g[k] = IF k = 0 THEN <<>> ELSE g[k - 1] \o parts[k]
  <2>1. g[k] = IF k = 0 THEN <<>> ELSE step[<<k, g[k - 1]>>]
    BY <1>5
  <2>2. ASSUME k # 0 PROVE k \in 1..N /\ g[k - 1] \in V
    <3>1. k \in 1..N /\ k - 1 \in 0..N
      BY <1>1, <2>2
    <3> QED BY <1>5, <3>1
  <2> QED BY <1>3, <2>1, <2>2
<1>7. g = [k \in 0..N |-> IF k = 0 THEN <<>> ELSE g[k - 1] \o parts[k]]
  BY <1>5, <1>6
<1> QED BY <1>7 DEF Joins

\* They are joined in one way only.
LEMMA JoinedIs ==
    ASSUME NEW S, NEW parts \in Seq(Seq(S)), NEW g, Joins(g, parts), NEW h, Joins(h, parts)
    PROVE  g = h
<1>1. \A k \in 0..Len(parts) : /\ g[k] = IF k = 0 THEN <<>> ELSE g[k - 1] \o parts[k]
                               /\ h[k] = IF k = 0 THEN <<>> ELSE h[k - 1] \o parts[k]
  BY DEF Joins
<1> DEFINE T == {k \in Nat : k <= Len(parts) => g[k] = h[k]}
<1>2. 0 \in T
  BY <1>1
<1>3. ASSUME NEW k \in Nat, k \in T PROVE k + 1 \in T
  <2> SUFFICES ASSUME k + 1 <= Len(parts) PROVE g[k + 1] = h[k + 1]
    OBVIOUS
  <2>1. k + 1 \in 0..Len(parts) /\ (k + 1) - 1 = k /\ k + 1 # 0 /\ k <= Len(parts)
    OBVIOUS
  <2> QED BY <1>1, <1>3, <2>1
<1>4. Nat \subseteq T
  <2> HIDE DEF T
  <2> QED BY <1>2, <1>3, Induction, Zenon
<1>5. \A k \in 0..Len(parts) : g[k] = h[k]
  BY <1>4
<1>6. g = [k \in 0..Len(parts) |-> g[k]] /\ h = [k \in 0..Len(parts) |-> h[k]]
  BY DEF Joins
<1> QED BY <1>5, <1>6

\* What is joined has the elements of all the parts, once if no part shares any.
LEMMA JoinedElements ==
    ASSUME NEW S, NEW parts \in Seq(Seq(S)), NEW g, Joins(g, parts)
    PROVE  /\ \A k \in 0..Len(parts) :
                 /\ g[k] \in Seq(S)
                 /\ ToSet(g[k]) = UNION {ToSet(parts[j]) : j \in 1..k}
           /\ /\ \A j \in 1..Len(parts) : IsInjective(parts[j])
              /\ \A i, j \in 1..Len(parts) : i # j => ToSet(parts[i]) \cap ToSet(parts[j]) = {}
              => IsInjective(g[Len(parts)])
<1>1. \A k \in 0..Len(parts) : g[k] = IF k = 0 THEN <<>> ELSE g[k - 1] \o parts[k]
  BY DEF Joins
<1>2. Len(parts) \in Nat /\ \A j \in 1..Len(parts) : parts[j] \in Seq(S)
  OBVIOUS
<1> DEFINE Has(k) == g[k] \in Seq(S) /\ ToSet(g[k]) = UNION {ToSet(parts[j]) : j \in 1..k}
           T == {k \in Nat : k <= Len(parts) => Has(k)}
<1>3. 0 \in T
  <2>1. g[0] = <<>> /\ 1..0 = {}
    BY <1>1, <1>2
  <2>2. ToSet(<<>>) = {}
    BY DEF ToSet
  <2>3. UNION {ToSet(parts[j]) : j \in 1..0} = {}
    BY <2>1
  <2>4. <<>> \in Seq(S)
    OBVIOUS
  <2> QED BY <2>1, <2>2, <2>3, <2>4
<1>4. ASSUME NEW k \in Nat, k \in T PROVE k + 1 \in T
  <2> SUFFICES ASSUME k + 1 <= Len(parts) PROVE Has(k + 1)
    OBVIOUS
  <2>1. /\ k + 1 \in 0..Len(parts) /\ (k + 1) - 1 = k /\ k + 1 # 0 /\ k <= Len(parts)
        /\ k + 1 \in 1..Len(parts) /\ 1..(k + 1) = 1..k \cup {k + 1}
    OBVIOUS
  <2> DEFINE s == g[k]
             t == parts[k + 1]
             u == g[k + 1]
  <2>2. u = s \o t /\ s \in Seq(S) /\ t \in Seq(S)
    BY <1>1, <1>2, <1>4, <2>1
  <2>3. ToSet(s) = UNION {ToSet(parts[j]) : j \in 1..k}
    BY <1>4, <2>1
  <2>4. u \in Seq(S) /\ ToSet(u) = ToSet(s) \cup ToSet(t)
    <3> HIDE DEF s, t, u
    <3> QED BY <2>2, ConcatElements
  <2>5. ToSet(u) = UNION {ToSet(parts[j]) : j \in 1..(k + 1)}
    <3>1. \A x : x \in ToSet(u) <=> x \in ToSet(s) \/ x \in ToSet(t)
      BY <2>4
    <3> HIDE DEF s, u
    <3>2. \A x : x \in ToSet(s) <=> \E j \in 1..k : x \in ToSet(parts[j])
      BY <2>3
    <3>3. \A x : x \in ToSet(u) <=> \E j \in 1..(k + 1) : x \in ToSet(parts[j])
      BY <2>1, <3>1, <3>2
    <3> QED BY <3>3
  <2> QED BY <2>4, <2>5
<1>5. Nat \subseteq T
  <2> HIDE DEF T
  <2> QED BY <1>3, <1>4, Induction, Zenon
<1>6. \A k \in 0..Len(parts) : Has(k)
  <2> HIDE DEF Has
  <2> QED BY <1>2, <1>5
<1>7. ASSUME \A j \in 1..Len(parts) : IsInjective(parts[j]),
             \A i, j \in 1..Len(parts) : i # j => ToSet(parts[i]) \cap ToSet(parts[j]) = {}
      PROVE  IsInjective(g[Len(parts)])
  <2> DEFINE U == {k \in Nat : k <= Len(parts) => IsInjective(g[k])}
  <2>1. 0 \in U
    <3>1. g[0] = <<>>
      BY <1>1, <1>2
    <3> QED BY <3>1 DEF IsInjective
  <2>2. ASSUME NEW k \in Nat, k \in U PROVE k + 1 \in U
    <3> SUFFICES ASSUME k + 1 <= Len(parts) PROVE IsInjective(g[k + 1])
      OBVIOUS
    <3>1. /\ k + 1 \in 0..Len(parts) /\ (k + 1) - 1 = k /\ k + 1 # 0 /\ k <= Len(parts)
          /\ k + 1 \in 1..Len(parts) /\ k \in 0..Len(parts)
          /\ \A j \in 1..k : j \in 1..Len(parts) /\ j # k + 1
      BY <1>2
    <3> DEFINE s == g[k]
               t == parts[k + 1]
    <3>2. g[k + 1] = s \o t /\ s \in Seq(S) /\ t \in Seq(S)
      BY <1>1, <1>2, <1>6, <3>1
    <3>3. IsInjective(s) /\ IsInjective(t)
      BY <1>7, <2>2, <3>1
    <3>4. ToSet(s) \cap ToSet(t) = {}
      <4>1. ToSet(s) = UNION {ToSet(parts[j]) : j \in 1..k}
        BY <1>6, <3>1
      <4>2. \A j \in 1..k : ToSet(parts[j]) \cap ToSet(t) = {}
        BY <1>7, <3>1
      <4> HIDE DEF s, t
      <4> QED BY <4>1, <4>2
    <3> HIDE DEF s, t
    <3> QED BY <3>2, <3>3, <3>4, ConcatElements
  <2>3. Nat \subseteq U
    <3> HIDE DEF U
    <3> QED BY <2>1, <2>2, Induction, Zenon
  <2> QED BY <1>2, <2>3
<1> QED BY <1>6, <1>7

-----------------------------------------------------------------------------
(* What is kept of a list *)

Keeps(kept, ls, S) ==
    kept = [n \in 0..Len(ls) |->
              IF n = 0 THEN <<>>
              ELSE IF ls[n] \in S THEN Append(kept[n - 1], ls[n]) ELSE kept[n - 1]]

\* What Kept computes, and that it does.
LEMMA KeptIs ==
    ASSUME NEW T, NEW ls \in Seq(T), NEW S
    PROVE  \E kept : Keeps(kept, ls, S) /\ Kept(ls, S) = kept[Len(ls)]
<1> DEFINE N == Len(ls)
           V == Seq(T)
           step == [kv \in (1..N) \X V |-> IF ls[kv[1]] \in S THEN Append(kv[2], ls[kv[1]]) ELSE kv[2]]
           none == <<>>
<1>1. N \in Nat /\ none \in V /\ \A n \in 1..N : ls[n] \in T
  OBVIOUS
<1>2. step \in [(1..N) \X V -> V]
  <2>1. ASSUME NEW kv \in (1..N) \X V
        PROVE  (IF ls[kv[1]] \in S THEN Append(kv[2], ls[kv[1]]) ELSE kv[2]) \in V
    <3> DEFINE e == ls[kv[1]]
               v == kv[2]
    <3>1. e \in T /\ v \in Seq(T)
      BY <1>1
    <3> HIDE DEF e, v
    <3>2. Append(v, e) \in Seq(T)
      BY <3>1
    <3> QED BY <3>1, <3>2 DEF e, v
  <2> QED BY <2>1
<1>3. \A n \in 1..N, v \in V : step[<<n, v>>] = IF ls[n] \in S THEN Append(v, ls[n]) ELSE v
  OBVIOUS
<1>4. \E g \in [0..N -> V] : Iterates(g, N, none, step)
  <2> HIDE DEF none, step, V, N
  <2> QED BY <1>1, <1>2, IterationExists
<1> HIDE DEF step, V
<1>5. PICK g \in [0..N -> V] : g = [n \in 0..N |-> IF n = 0 THEN <<>> ELSE step[<<n, g[n - 1]>>]]
  BY <1>4 DEF Iterates
<1>6. ASSUME NEW n \in 0..N
      PROVE  g[n] = IF n = 0 THEN <<>> ELSE IF ls[n] \in S THEN Append(g[n - 1], ls[n]) ELSE g[n - 1]
  <2>1. g[n] = IF n = 0 THEN <<>> ELSE step[<<n, g[n - 1]>>]
    BY <1>5
  <2>2. ASSUME n # 0 PROVE n \in 1..N /\ g[n - 1] \in V
    <3>1. n \in 1..N /\ n - 1 \in 0..N
      BY <1>1, <2>2
    <3> QED BY <1>5, <3>1
  <2> QED BY <1>3, <2>1, <2>2
<1>7. g = [n \in 0..Len(ls) |->
             IF n = 0 THEN <<>>
             ELSE IF ls[n] \in S THEN Append(g[n - 1], ls[n]) ELSE g[n - 1]]
  BY <1>5, <1>6
<1> DEFINE kept[n \in 0..Len(ls)] ==
               IF n = 0 THEN <<>>
               ELSE IF ls[n] \in S THEN Append(kept[n - 1], ls[n]) ELSE kept[n - 1]
<1>8. kept = [n \in 0..Len(ls) |->
                IF n = 0 THEN <<>>
                ELSE IF ls[n] \in S THEN Append(kept[n - 1], ls[n]) ELSE kept[n - 1]]
  BY <1>7, Zenon
<1>9. Kept(ls, S) = kept[Len(ls)]
  BY DEF Kept
<1> HIDE DEF kept
<1> QED BY <1>8, <1>9 DEF Keeps

\* After n elements, those of the first n that are in S are kept.
LEMMA KeptPrefix ==
    ASSUME NEW T, NEW ls \in Seq(T), NEW S, NEW kept, Keeps(kept, ls, S)
    PROVE  \A n \in 0..Len(ls) :
              /\ kept[n] \in Seq(T) /\ Len(kept[n]) <= n
              /\ \A x : x \in ToSet(kept[n]) <=> x \in S /\ \E i \in 1..n : ls[i] = x
              /\ IsInjective(ls) => IsInjective(kept[n])
<1>1. \A n \in 0..Len(ls) :
         kept[n] = IF n = 0 THEN <<>>
                   ELSE IF ls[n] \in S THEN Append(kept[n - 1], ls[n]) ELSE kept[n - 1]
  BY DEF Keeps
<1>2. Len(ls) \in Nat /\ DOMAIN ls = 1..Len(ls) /\ \A n \in 1..Len(ls) : ls[n] \in T
  OBVIOUS
<1> DEFINE Has(n) == /\ kept[n] \in Seq(T) /\ Len(kept[n]) <= n
                     /\ \A x : x \in ToSet(kept[n]) <=> x \in S /\ \E i \in 1..n : ls[i] = x
                     /\ IsInjective(ls) => IsInjective(kept[n])
           U == {n \in Nat : n <= Len(ls) => Has(n)}
<1>3. 0 \in U
  <2>1. kept[0] = <<>>
    BY <1>1, <1>2
  <2>2. ToSet(<<>>) = {} /\ IsInjective(<<>>)
    BY DEF ToSet, IsInjective
  <2>3. <<>> \in Seq(T) /\ Len(<<>>) <= 0
    OBVIOUS
  <2>4. \A x : x \in ToSet(kept[0]) <=> x \in S /\ \E i \in 1..0 : ls[i] = x
    BY <2>1, <2>2
  <2> QED BY <2>1, <2>2, <2>3, <2>4
<1>4. ASSUME NEW n \in Nat, n \in U PROVE n + 1 \in U
  <2> SUFFICES ASSUME n + 1 <= Len(ls) PROVE Has(n + 1)
    OBVIOUS
  <2> DEFINE old == kept[n]
             new == kept[n + 1]
             e == ls[n + 1]
  <2>1. /\ n + 1 \in 0..Len(ls) /\ (n + 1) - 1 = n /\ n + 1 # 0
        /\ n + 1 \in 1..Len(ls) /\ \A i : i \in 1..(n + 1) <=> i \in 1..n \/ i = n + 1
    OBVIOUS
  <2>2. new = (IF e \in S THEN Append(old, e) ELSE old) /\ e \in T
    BY <1>1, <1>2, <2>1
  <2>3. /\ old \in Seq(T) /\ Len(old) <= n
        /\ \A x : x \in ToSet(old) <=> x \in S /\ \E i \in 1..n : ls[i] = x
        /\ IsInjective(ls) => IsInjective(old)
    BY <1>4
  <2>4. \A x : (\E i \in 1..(n + 1) : ls[i] = x) <=> (\E i \in 1..n : ls[i] = x) \/ x = e
    BY <2>1
  <2>5. CASE e \notin S
    <3>1. new = old
      BY <2>2, <2>5
    <3>2. \A x : x \in ToSet(new) <=> x \in S /\ \E i \in 1..(n + 1) : ls[i] = x
      <4> HIDE DEF old, new, e
      <4> QED BY <2>3, <2>4, <2>5, <3>1
    <3>3. new \in Seq(T) /\ Len(new) <= n + 1
      <4> HIDE DEF old, new
      <4>1. Len(old) \in Nat
        BY <2>3
      <4> QED BY <2>3, <3>1, <4>1
    <3> QED BY <2>3, <3>1, <3>2, <3>3
  <2>6. CASE e \in S
    <3>1. new = Append(old, e)
      BY <2>2, <2>6
    <3>2. IsInjective(ls) => e \notin ToSet(old)
      <4> SUFFICES ASSUME IsInjective(ls), NEW i \in 1..n, ls[i] = e PROVE FALSE
        BY <2>3
      <4>1. i \in 1..Len(ls) /\ i # n + 1
        OBVIOUS
      <4> QED BY <1>2, <2>1, <4>1 DEF IsInjective
    <3> HIDE DEF old, new, e
    <3>3. /\ new \in Seq(T) /\ Len(new) = Len(old) + 1
          /\ ToSet(new) = ToSet(old) \cup {e}
          /\ IsInjective(old) /\ e \notin ToSet(old) => IsInjective(new)
      BY <2>2, <2>3, <3>1, AppendElements
    <3>4. Len(new) <= n + 1
      <4>1. Len(old) \in Nat
        BY <2>3
      <4> QED BY <2>3, <3>3, <4>1
    <3>5. \A x : x \in ToSet(new) <=> x \in S /\ \E i \in 1..(n + 1) : ls[i] = x
      BY <2>3, <2>4, <2>6, <3>3
    <3> QED BY <2>3, <3>2, <3>3, <3>4, <3>5 DEF new
  <2> QED BY <2>5, <2>6
<1>5. Nat \subseteq U
  <2> HIDE DEF U
  <2> QED BY <1>3, <1>4, Induction, Zenon
<1>6. \A n \in 0..Len(ls) : Has(n)
  <2> HIDE DEF Has
  <2> QED BY <1>2, <1>5
<1> QED BY <1>6

\* The elements in S are kept, in a list that is not longer.
LEMMA KeptFacts ==
    ASSUME NEW T, NEW ls \in Seq(T), NEW S
    PROVE  /\ Kept(ls, S) \in Seq(T) /\ Len(Kept(ls, S)) <= Len(ls)
           /\ ToSet(Kept(ls, S)) = ToSet(ls) \cap S
           /\ IsInjective(ls) => IsInjective(Kept(ls, S))
<1>1. PICK kept : Keeps(kept, ls, S) /\ Kept(ls, S) = kept[Len(ls)]
  BY KeptIs
<1> DEFINE k == Kept(ls, S)
           n == Len(ls)
<1>2. n \in 0..n
  OBVIOUS
<1>3. /\ k \in Seq(T) /\ Len(k) <= n
      /\ \A x : x \in ToSet(k) <=> x \in S /\ \E i \in 1..n : ls[i] = x
      /\ IsInjective(ls) => IsInjective(k)
  <2> DEFINE l == kept[n]
  <2>1. /\ l \in Seq(T) /\ Len(l) <= n
        /\ \A x : x \in ToSet(l) <=> x \in S /\ \E i \in 1..n : ls[i] = x
        /\ IsInjective(ls) => IsInjective(l)
    BY <1>1, <1>2, KeptPrefix
  <2>2. k = l
    BY <1>1
  <2> HIDE DEF k, l, n
  <2> QED BY <2>1, <2>2
<1>4. \A x : x \in ToSet(ls) <=> \E i \in 1..n : x = ls[i]
  BY SeqElements
<1> HIDE DEF k
<1>5. ToSet(k) = ToSet(ls) \cap S
  BY <1>3, <1>4
<1> QED BY <1>3, <1>5 DEF k

\* What is not in the one set is in the other.
Splits(ls, A, B) == \A i \in 1..Len(ls) : ls[i] \in A <=> ls[i] \notin B

\* What goes to one of two sides has the length of both together.
LEMMA KeptSplits ==
    ASSUME NEW T, NEW ls \in Seq(T), NEW A, NEW B, Splits(ls, A, B)
    PROVE  Len(Kept(ls, A)) + Len(Kept(ls, B)) = Len(ls)
<1>1. PICK j : Keeps(j, ls, A) /\ Kept(ls, A) = j[Len(ls)]
  BY KeptIs
<1>2. PICK k : Keeps(k, ls, B) /\ Kept(ls, B) = k[Len(ls)]
  BY KeptIs
<1>3. \A n \in 0..Len(ls) :
         /\ j[n] = IF n = 0 THEN <<>>
                   ELSE IF ls[n] \in A THEN Append(j[n - 1], ls[n]) ELSE j[n - 1]
         /\ k[n] = IF n = 0 THEN <<>>
                   ELSE IF ls[n] \in B THEN Append(k[n - 1], ls[n]) ELSE k[n - 1]
  BY <1>1, <1>2 DEF Keeps
<1>4. \A n \in 0..Len(ls) : j[n] \in Seq(T) /\ k[n] \in Seq(T)
  <2>1. \A n \in 0..Len(ls) : j[n] \in Seq(T)
    BY <1>1, KeptPrefix
  <2>2. \A n \in 0..Len(ls) : k[n] \in Seq(T)
    BY <1>2, KeptPrefix
  <2> QED BY <2>1, <2>2
<1> DEFINE Adds(n) == Len(j[n]) + Len(k[n]) = n
           U == {n \in Nat : n <= Len(ls) => Adds(n)}
<1>5. 0 \in U
  <2>1. j[0] = <<>> /\ k[0] = <<>>
    BY <1>3
  <2>2. Adds(0)
    BY <2>1
  <2> HIDE DEF Adds
  <2> QED BY <2>2
<1>6. ASSUME NEW n \in Nat, n \in U PROVE n + 1 \in U
  <2> DEFINE e == ls[n + 1]
             j0 == j[n]
             k0 == k[n]
             j1 == j[n + 1]
             k1 == k[n + 1]
  <2>0. SUFFICES ASSUME n + 1 <= Len(ls) PROVE Len(j1) + Len(k1) = n + 1
    <3>1. Adds(n + 1) <=> Len(j1) + Len(k1) = n + 1
      OBVIOUS
    <3> HIDE DEF Adds, j1, k1
    <3> QED BY <3>1
  <2>1. /\ n + 1 \in 0..Len(ls) /\ (n + 1) - 1 = n /\ n + 1 # 0 /\ n \in 0..Len(ls)
        /\ n + 1 \in 1..Len(ls) /\ n <= Len(ls)
    BY <2>0
  <2>2. /\ j1 = IF e \in A THEN Append(j0, e) ELSE j0
        /\ k1 = IF e \in B THEN Append(k0, e) ELSE k0
    BY <1>3, <2>1
  <2>3. (e \in A <=> e \notin B) /\ e \in T
    BY <2>1 DEF Splits
  <2>4. j0 \in Seq(T) /\ k0 \in Seq(T)
    BY <1>4, <2>1
  <2>5. Len(j0) + Len(k0) = n
    <3>1. Adds(n)
      <4> HIDE DEF Adds
      <4> QED BY <1>6, <2>1
    <3> QED BY <3>1
  <2> HIDE DEF e, j0, k0, j1, k1
  <2> DEFINE a == Len(j0)
             b == Len(k0)
  <2>6. /\ a \in Nat /\ b \in Nat
        /\ Len(Append(j0, e)) = a + 1 /\ Len(Append(k0, e)) = b + 1
    BY <2>3, <2>4
  <2>7. CASE e \in A
    <3>1. Len(j1) = a + 1 /\ Len(k1) = b
      BY <2>2, <2>3, <2>6, <2>7
    <3> HIDE DEF a, b
    <3>2. a + b = n
      BY <2>5 DEF a, b
    <3> QED BY <2>6, <3>1, <3>2
  <2>8. CASE e \notin A
    <3>1. Len(j1) = a /\ Len(k1) = b + 1
      BY <2>2, <2>3, <2>6, <2>8
    <3> HIDE DEF a, b
    <3>2. a + b = n
      BY <2>5 DEF a, b
    <3> QED BY <2>6, <3>1, <3>2
  <2> QED BY <2>7, <2>8
<1>7. Nat \subseteq U
  <2> HIDE DEF U
  <2> QED BY <1>5, <1>6, Induction, Zenon
<1>8. Adds(Len(ls))
  <2> HIDE DEF Adds
  <2>1. Len(ls) \in Nat
    OBVIOUS
  <2> QED BY <1>7, <2>1
<1> QED BY <1>1, <1>2, <1>8

-----------------------------------------------------------------------------
(* Quicksort *)

Rated == Ratings \X Guess

Ascends(r) == \A i, j \in 1..Len(r) : i < j => r[i][1] <= r[j][1]

SortsTo(ls, r) == /\ r \in Seq(Rated) /\ Len(r) = Len(ls)
                  /\ ToSet(r) = ToSet(ls)
                  /\ Ascends(r)

\* What quicksort returns for ls; `sort' is used for the calls it makes.
Sort(sort, ls) ==
    IF Len(ls) <= 1 THEN ls
    ELSE LET split == Partition(Head(ls), Tail(ls))
         IN  sort[split[1]] \o <<Head(ls)>> \o sort[split[2]]

SortSize == [ls \in Seq(Rated) |-> Len(ls)]
CallSorts == {p \in Seq(Rated) \X Seq(Rated) : SortsTo(p[1], p[2])}

LEMMA RatedFacts ==
    ASSUME NEW e \in Rated
    PROVE  e[1] \in Int
BY StarsAssumption DEF Rated

\* A list is its head and its tail.
LEMMA HeadAndTail ==
    ASSUME NEW T, NEW ls \in Seq(T), ls # <<>>
    PROVE  /\ Head(ls) \in T /\ Tail(ls) \in Seq(T) /\ Len(Tail(ls)) = Len(ls) - 1
           /\ ToSet(ls) = {Head(ls)} \cup ToSet(Tail(ls))
           /\ IsInjective(ls) => Head(ls) \notin ToSet(Tail(ls)) /\ IsInjective(Tail(ls))
<1> DEFINE t == Tail(ls)
<1>1. /\ Head(ls) \in T /\ Head(ls) = ls[1] /\ t \in Seq(T) /\ Len(t) = Len(ls) - 1
      /\ Len(ls) \in Nat \ {0} /\ \A n \in 1..Len(t) : t[n] = ls[n + 1]
  OBVIOUS
<1> HIDE DEF t
<1>2. /\ DOMAIN ls = 1..Len(ls) /\ DOMAIN t = 1..Len(t)
      /\ \A x : x \in ToSet(ls) <=> \E n \in 1..Len(ls) : x = ls[n]
      /\ \A x : x \in ToSet(t) <=> \E n \in 1..Len(t) : x = t[n]
  <2>1. DOMAIN ls = 1..Len(ls) /\ \A x : x \in ToSet(ls) <=> \E n \in 1..Len(ls) : x = ls[n]
    BY SeqElements
  <2>2. DOMAIN t = 1..Len(t) /\ \A x : x \in ToSet(t) <=> \E n \in 1..Len(t) : x = t[n]
    <3>1. t \in Seq(T)
      BY <1>1
    <3> QED BY <3>1, SeqElements
  <2> QED BY <2>1, <2>2
<1>3. /\ \A n \in 1..Len(ls) : n = 1 \/ (n - 1 \in 1..Len(t) /\ ls[n] = t[n - 1])
      /\ \A n \in 1..Len(t) : n + 1 \in 1..Len(ls)
      /\ 1 \in 1..Len(ls)
  <2>1. ASSUME NEW n \in 1..Len(ls), n # 1 PROVE n - 1 \in 1..Len(t) /\ ls[n] = t[n - 1]
    <3> DEFINE m == n - 1
    <3>1. m \in 1..Len(t) /\ n = m + 1
      BY <1>1, <2>1
    <3> HIDE DEF m
    <3>2. ls[n] = t[m]
      BY <1>1, <3>1
    <3> QED BY <3>1, <3>2 DEF m
  <2> QED BY <1>1, <2>1
<1>4. ToSet(ls) = {Head(ls)} \cup ToSet(t)
  <2>1. ASSUME NEW x \in ToSet(ls) PROVE x \in {Head(ls)} \cup ToSet(t)
    <3>1. PICK n \in 1..Len(ls) : x = ls[n]
      BY <1>2
    <3> QED BY <1>1, <1>2, <1>3, <3>1
  <2>2. ASSUME NEW x \in {Head(ls)} \cup ToSet(t) PROVE x \in ToSet(ls)
    BY <1>1, <1>2, <1>3
  <2> QED BY <2>1, <2>2
<1>5. ASSUME IsInjective(ls) PROVE Head(ls) \notin ToSet(t) /\ IsInjective(t)
  <2>1. Head(ls) \notin ToSet(t)
    <3> SUFFICES ASSUME NEW n \in 1..Len(t), t[n] = Head(ls) PROVE FALSE
      BY <1>2
    <3>1. n + 1 \in 1..Len(ls) /\ ls[n + 1] = ls[1] /\ n + 1 # 1
      BY <1>1, <1>3
    <3> QED BY <1>2, <1>3, <1>5, <3>1 DEF IsInjective
  <2>2. ASSUME NEW j \in 1..Len(t), NEW k \in 1..Len(t), t[j] = t[k] PROVE j = k
    <3>1. j + 1 \in 1..Len(ls) /\ k + 1 \in 1..Len(ls) /\ ls[j + 1] = ls[k + 1]
      BY <1>1, <1>3, <2>2
    <3>2. j + 1 = k + 1
      BY <1>2, <1>5, <3>1 DEF IsInjective
    <3> QED BY <3>2
  <2> QED BY <1>2, <2>1, <2>2 DEF IsInjective
<1> QED BY <1>1, <1>4, <1>5 DEF t

\* The list without its head h is taken apart into low and high.
Parted(ls, h, low, high) ==
    /\ h \in Rated /\ low \in Seq(Rated) /\ high \in Seq(Rated)
    /\ Len(low) + Len(high) + 1 = Len(ls)
    /\ ToSet(ls) = {h} \cup ToSet(low) \cup ToSet(high)
    /\ \A e \in ToSet(low) : e[1] <= h[1]
    /\ \A e \in ToSet(high) : h[1] <= e[1]

\* partition puts each element of the tail on one side of the pivot.
LEMMA PartitionFacts ==
    ASSUME NEW ls \in Seq(Rated), Len(ls) > 1
    PROVE  LET split == Partition(Head(ls), Tail(ls))
           IN  Parted(ls, Head(ls), split[1], split[2])
<1> DEFINE low == Partition(Head(ls), Tail(ls))[1]
           high == Partition(Head(ls), Tail(ls))[2]
           h == Head(ls)
           t == Tail(ls)
           A == {e \in ToSet(t) : Before(e, h)}
           B == {e \in ToSet(t) : ~ Before(e, h)}
<1>1. low = Kept(t, A) /\ high = Kept(t, B)
  BY DEF Partition
<1> HIDE DEF low, high
<1>2. /\ h \in Rated /\ t \in Seq(Rated) /\ Len(t) = Len(ls) - 1
      /\ ToSet(ls) = {h} \cup ToSet(t)
  <2>1. ls # <<>>
    OBVIOUS
  <2> QED BY <2>1, HeadAndTail
<1> HIDE DEF h, t
<1>3. \A i \in 1..Len(t) : t[i] \in ToSet(t)
  BY <1>2, SeqElements
<1>4. Splits(t, A, B)
  BY <1>3 DEF Splits
<1>5. A \cup B = ToSet(t) /\ A \subseteq ToSet(t) /\ B \subseteq ToSet(t)
  OBVIOUS
<1>6. /\ \A e \in A : e[1] <= h[1]
      /\ \A e \in B : h[1] <= e[1]
  <2>1. \A e \in ToSet(t) : e \in Rated
    BY <1>2, SeqElements
  <2>2. \A e \in ToSet(t) : e[1] \in Int
    BY <2>1, RatedFacts
  <2>3. h[1] \in Int
    BY <1>2, RatedFacts
  <2>4. ASSUME NEW e \in ToSet(t) PROVE (e \in A => e[1] <= h[1]) /\ (e \in B => h[1] <= e[1])
    <3> DEFINE i == e[1]
               j == h[1]
    <3>1. (e \in A => i < j) /\ (e \in B => ~ (i < j))
      BY DEF Before
    <3>2. i \in Int /\ j \in Int
      BY <2>2, <2>3
    <3> HIDE DEF i, j
    <3>3. (e \in A => i <= j) /\ (e \in B => j <= i)
      BY <3>1, <3>2
    <3> QED BY <3>3 DEF i, j
  <2> QED BY <1>5, <2>4
<1> HIDE DEF A, B
<1>7. /\ low \in Seq(Rated) /\ ToSet(low) = ToSet(t) \cap A
      /\ high \in Seq(Rated) /\ ToSet(high) = ToSet(t) \cap B
  BY <1>1, <1>2, KeptFacts
<1>8. Len(low) + Len(high) = Len(t)
  <2>1. t \in Seq(Rated)
    BY <1>2
  <2>2. Len(Kept(t, A)) + Len(Kept(t, B)) = Len(t)
    BY <1>4, <2>1, KeptSplits
  <2> QED BY <1>1, <2>2
<1>9. Len(low) + Len(high) + 1 = Len(ls)
  <2> DEFINE i == Len(low)
             j == Len(high)
             k == Len(ls)
  <2>1. i \in Nat /\ j \in Nat /\ k \in Nat
    BY <1>7
  <2>2. i + j = k - 1
    BY <1>2, <1>8
  <2> HIDE DEF i, j, k
  <2>3. i + j + 1 = k
    BY <2>1, <2>2
  <2> QED BY <2>3 DEF i, j, k
<1>10. Parted(ls, h, low, high)
  BY <1>2, <1>5, <1>6, <1>7, <1>9 DEF Parted
<1> QED BY <1>10 DEF h, low, high

\* What is low, the pivot and what is high, each of them in order.
LEMMA JoinedInOrder ==
    ASSUME NEW a \in Seq(Rated), NEW h \in Rated, NEW b \in Seq(Rated),
           Ascends(a), Ascends(b),
           \A e \in ToSet(a) : e[1] <= h[1], \A e \in ToSet(b) : h[1] <= e[1]
    PROVE  /\ a \o <<h>> \o b \in Seq(Rated) /\ Len(a \o <<h>> \o b) = Len(a) + Len(b) + 1
           /\ ToSet(a \o <<h>> \o b) = {h} \cup ToSet(a) \cup ToSet(b)
           /\ Ascends(a \o <<h>> \o b)
<1> DEFINE m == <<h>>
           c == a \o m
           r == c \o b
           la == Len(a)
           lb == Len(b)
<1>1. m \in Seq(Rated) /\ Len(m) = 1 /\ ToSet(m) = {h}
  <2>1. m \in Seq(Rated) /\ Len(m) = 1 /\ m[1] = h
    OBVIOUS
  <2>2. DOMAIN m = {1}
    OBVIOUS
  <2> HIDE DEF m
  <2>3. ToSet(m) = {h}
    BY <2>1, <2>2 DEF ToSet
  <2> QED BY <2>1, <2>3
<1>2. c \in Seq(Rated) /\ Len(c) = la + 1 /\ ToSet(c) = ToSet(a) \cup {h}
  <2> HIDE DEF m
  <2>1. /\ c \in Seq(Rated) /\ Len(c) = Len(a) + Len(m)
        /\ ToSet(c) = ToSet(a) \cup ToSet(m)
    BY <1>1, ConcatElements
  <2> HIDE DEF c
  <2> QED BY <1>1, <2>1
<1>3. r \in Seq(Rated) /\ Len(r) = la + 1 + lb /\ ToSet(r) = ToSet(a) \cup {h} \cup ToSet(b)
  <2> HIDE DEF c
  <2> QED BY <1>2, ConcatElements
<1>4. la \in Nat /\ lb \in Nat
  OBVIOUS
<1>5. /\ \A n \in 1..la : r[n] = a[n]
      /\ r[la + 1] = h
      /\ \A n \in 1..lb : r[la + 1 + n] = b[n]
  <2>1. (\A n \in 1..la : c[n] = a[n]) /\ c[la + 1] = h
    OBVIOUS
  <2> HIDE DEF c
  <2>2. (\A n \in 1..(la + 1) : r[n] = c[n]) /\ \A n \in 1..lb : r[la + 1 + n] = b[n]
    BY <1>2
  <2> HIDE DEF la, lb, r
  <2>3. (\A n \in 1..la : n \in 1..(la + 1)) /\ la + 1 \in 1..(la + 1)
    BY <1>4
  <2> QED BY <2>1, <2>2, <2>3
<1>6. /\ \A n \in 1..la : a[n] \in ToSet(a) /\ a[n] \in Rated
      /\ \A n \in 1..lb : b[n] \in ToSet(b) /\ b[n] \in Rated
  BY SeqElements
<1> HIDE DEF r, la, lb, c
<1>7. Ascends(r)
  <2> SUFFICES ASSUME NEW i \in 1..Len(r), NEW j \in 1..Len(r), i < j PROVE r[i][1] <= r[j][1]
    BY DEF Ascends
  <2>1. CASE i \in 1..la /\ j \in 1..la
    BY <1>5, <2>1 DEF Ascends, la
  <2>2. CASE i \in 1..la /\ j = la + 1
    BY <1>5, <1>6, <2>2
  <2>3. CASE i \in 1..la /\ j > la + 1
    <3> DEFINE n == j - (la + 1)
    <3>1. n \in 1..lb /\ j = la + 1 + n
      BY <1>3, <1>4, <2>3
    <3> HIDE DEF n
    <3>2. r[j] = b[n] /\ r[i] = a[i]
      BY <1>5, <2>3, <3>1
    <3> DEFINE x == a[i][1]
               y == h[1]
               z == b[n][1]
    <3>3. x \in Int /\ y \in Int /\ z \in Int
      BY <1>6, <2>3, <3>1, RatedFacts
    <3>4. x <= y /\ y <= z
      BY <1>6, <2>3, <3>1
    <3> HIDE DEF x, y, z
    <3>5. x <= z
      BY <3>3, <3>4
    <3> QED BY <3>2, <3>5 DEF x, z
  <2>4. CASE i = la + 1 /\ j > la + 1
    <3> DEFINE n == j - (la + 1)
    <3>1. n \in 1..lb /\ j = la + 1 + n
      BY <1>3, <1>4, <2>4
    <3> HIDE DEF n
    <3>2. r[j] = b[n] /\ r[i] = h
      BY <1>5, <2>4, <3>1
    <3> QED BY <1>6, <3>1, <3>2
  <2>5. CASE i > la + 1 /\ j > la + 1
    <3> DEFINE m1 == i - (la + 1)
               n == j - (la + 1)
    <3>1. n \in 1..lb /\ j = la + 1 + n /\ m1 \in 1..lb /\ i = la + 1 + m1 /\ m1 < n
      BY <1>3, <1>4, <2>5
    <3> HIDE DEF n, m1
    <3>2. r[j] = b[n] /\ r[i] = b[m1]
      BY <1>5, <3>1
    <3> QED BY <3>1, <3>2 DEF Ascends, lb
  <2> QED BY <1>3, <1>4, <2>1, <2>2, <2>3, <2>4, <2>5
<1> QED BY <1>3, <1>4, <1>7 DEF r, c, la, lb

\* sort is right for the lists that are shorter than n.
Sorts(sort, n) == \A l \in Seq(Rated) : Len(l) < n => SortsTo(l, sort[l])

\* Both sides are shorter than the list.
LEMMA ShorterParts ==
    ASSUME NEW ls \in Seq(Rated), Len(ls) > 1
    PROVE  /\ Partition(Head(ls), Tail(ls))[1] \in Seq(Rated)
           /\ Partition(Head(ls), Tail(ls))[2] \in Seq(Rated)
           /\ Len(Partition(Head(ls), Tail(ls))[1]) < Len(ls)
           /\ Len(Partition(Head(ls), Tail(ls))[2]) < Len(ls)
<1> DEFINE low == Partition(Head(ls), Tail(ls))[1]
           high == Partition(Head(ls), Tail(ls))[2]
<1>0. Parted(ls, Head(ls), low, high)
  BY PartitionFacts
<1> HIDE DEF low, high
<1>1. low \in Seq(Rated) /\ high \in Seq(Rated) /\ Len(low) + Len(high) + 1 = Len(ls)
  BY <1>0 DEF Parted
<1>2. Len(low) \in Nat /\ Len(high) \in Nat /\ Len(ls) \in Nat
  BY <1>1
<1>3. Len(low) < Len(ls) /\ Len(high) < Len(ls)
  BY <1>1, <1>2
<1> QED BY <1>1, <1>3 DEF low, high

\* A list is sorted if shorter lists are.
LEMMA SortIsRight ==
    ASSUME NEW sort, NEW ls \in Seq(Rated), Sorts(sort, Len(ls))
    PROVE  SortsTo(ls, Sort(sort, ls))
<1>1. CASE Len(ls) <= 1
  <2>1. Sort(sort, ls) = ls
    BY <1>1 DEF Sort
  <2>2. Ascends(ls)
    BY <1>1 DEF Ascends
  <2> QED BY <2>1, <2>2 DEF SortsTo
<1>2. CASE ~ (Len(ls) <= 1)
  <2> DEFINE h == Head(ls)
             low == Partition(Head(ls), Tail(ls))[1]
             high == Partition(Head(ls), Tail(ls))[2]
             a == sort[low]
             b == sort[high]
  <2>1. Len(ls) > 1
    BY <1>2
  <2>2. /\ h \in Rated
        /\ Len(low) + Len(high) + 1 = Len(ls)
        /\ ToSet(ls) = {h} \cup ToSet(low) \cup ToSet(high)
        /\ \A e \in ToSet(low) : e[1] <= h[1]
        /\ \A e \in ToSet(high) : h[1] <= e[1]
    <3>1. Parted(ls, h, low, high)
      BY <2>1, PartitionFacts
    <3> HIDE DEF h, low, high
    <3> QED BY <3>1 DEF Parted
  <2>3. low \in Seq(Rated) /\ high \in Seq(Rated) /\ Len(low) < Len(ls) /\ Len(high) < Len(ls)
    BY <2>1, ShorterParts
  <2>4. Sort(sort, ls) = a \o <<h>> \o b
    BY <1>2 DEF Sort
  <2> HIDE DEF h, low, high
  <2>5. SortsTo(low, a) /\ SortsTo(high, b)
    BY <2>3 DEF Sorts
  <2> HIDE DEF a, b
  <2>6. /\ a \in Seq(Rated) /\ Len(a) = Len(low) /\ ToSet(a) = ToSet(low) /\ Ascends(a)
        /\ b \in Seq(Rated) /\ Len(b) = Len(high) /\ ToSet(b) = ToSet(high) /\ Ascends(b)
    BY <2>5 DEF SortsTo
  <2>7. (\A e \in ToSet(a) : e[1] <= h[1]) /\ (\A e \in ToSet(b) : h[1] <= e[1])
    BY <2>2, <2>6
  <2> DEFINE r == a \o <<h>> \o b
  <2>8. /\ r \in Seq(Rated) /\ Len(r) = Len(a) + Len(b) + 1
        /\ ToSet(r) = {h} \cup ToSet(a) \cup ToSet(b) /\ Ascends(r)
    BY <2>2, <2>6, <2>7, JoinedInOrder
  <2> HIDE DEF r
  <2>9. SortsTo(ls, r)
    BY <2>2, <2>6, <2>8 DEF SortsTo
  <2> QED BY <2>4, <2>9 DEF r
<1> QED BY <1>1, <1>2

\* How it is sorted depends on shorter lists only.
LEMMA SortSame ==
    ASSUME NEW f, NEW g, NEW ls \in Seq(Rated),
           \A l \in Seq(Rated) : Len(l) < Len(ls) => f[l] = g[l]
    PROVE  Sort(f, ls) = Sort(g, ls)
<1>1. CASE Len(ls) <= 1
  BY <1>1 DEF Sort
<1>2. CASE ~ (Len(ls) <= 1)
  <2> DEFINE low == Partition(Head(ls), Tail(ls))[1]
             high == Partition(Head(ls), Tail(ls))[2]
  <2>1. low \in Seq(Rated) /\ high \in Seq(Rated) /\ Len(low) < Len(ls) /\ Len(high) < Len(ls)
    BY <1>2, ShorterParts
  <2>2. /\ Sort(f, ls) = f[low] \o <<Head(ls)>> \o f[high]
        /\ Sort(g, ls) = g[low] \o <<Head(ls)>> \o g[high]
    BY <1>2 DEF Sort
  <2> HIDE DEF low, high
  <2>3. f[low] = g[low] /\ f[high] = g[high]
    BY <2>1
  <2> QED BY <2>2, <2>3
<1> QED BY <1>1, <1>2

SortsTogether ==
    [gx \in Partial(Seq(Rated), CallSorts) \X Seq(Rated) |-> Sort(gx[1], gx[2])]

LEMMA SortsOnSmaller == OnSmaller(SortsTogether, Seq(Rated), CallSorts, SortSize)
<1> DEFINE D == Seq(Rated)
           P == CallSorts
<1>1. ASSUME NEW g \in Partial(D, P), NEW x \in D
      PROVE  SortsTogether[<<g, x>>] = Sort(g, x) /\ SortSize[x] = Len(x)
  <2>1. <<g, x>> \in Partial(D, P) \X D
    OBVIOUS
  <2> QED BY <2>1 DEF SortsTogether, SortSize
<1>2. ASSUME NEW x \in D, NEW l \in D, Len(l) < Len(x)
      PROVE  l \in Below(D, SortSize, SortSize[x])
  BY <1>2 DEF Below, SortSize
<1>3. ASSUME NEW g \in Partial(D, P), NEW x \in D, Below(D, SortSize, SortSize[x]) \subseteq DOMAIN g
      PROVE  <<x, SortsTogether[<<g, x>>]>> \in P
  <2>1. Sorts(g, Len(x))
    <3> SUFFICES ASSUME NEW l \in D, Len(l) < Len(x) PROVE SortsTo(l, g[l])
      BY DEF Sorts
    <3>1. l \in DOMAIN g
      BY <1>2, <1>3
    <3>2. <<l, g[l]>> \in CallSorts
      BY <3>1, Zenon DEF Partial
    <3> DEFINE r == g[l]
    <3> HIDE DEF r
    <3>3. <<l, r>> \in CallSorts
      BY <3>2 DEF r
    <3> DEFINE p == <<l, r>>
    <3>4. SortsTo(p[1], p[2])
      BY <3>3 DEF CallSorts
    <3>5. p[1] = l /\ p[2] = r
      OBVIOUS
    <3> HIDE DEF p
    <3>6. SortsTo(l, r)
      BY <3>4, <3>5
    <3> QED BY <3>6 DEF r
  <2> DEFINE r == SortsTogether[<<g, x>>]
  <2>2. r = Sort(g, x)
    BY <1>1
  <2> HIDE DEF r
  <2>3. SortsTo(x, r)
    BY <2>1, <2>2, SortIsRight
  <2>4. r \in Seq(Rated)
    BY <2>3 DEF SortsTo
  <2>5. <<x, r>> \in CallSorts
    BY <2>3, <2>4 DEF CallSorts
  <2> QED BY <2>5 DEF r
<1>4. ASSUME NEW g \in Partial(D, P), NEW h \in Partial(D, P), NEW x \in D,
             \A y \in Below(D, SortSize, SortSize[x]) : g[y] = h[y]
      PROVE  SortsTogether[<<g, x>>] = SortsTogether[<<h, x>>]
  <2>1. \A l \in Seq(Rated) : Len(l) < Len(x) => g[l] = h[l]
    BY <1>2, <1>4
  <2>2. Sort(g, x) = Sort(h, x)
    BY <2>1, SortSame
  <2> QED BY <1>1, <2>2
<1> QED BY <1>3, <1>4 DEF OnSmaller

\* Quicksort comes to an end, and has sorted the list then.
LEMMA QuicksortSorts ==
    ASSUME NEW ls \in Seq(Rated)
    PROVE  SortsTo(ls, Quicksort[ls])
<1> DEFINE Equation(f) == f = [l \in Seq(Rated) |-> Sort(f, l)]
<1>1. SortSize \in [Seq(Rated) -> Nat]
  BY DEF SortSize
<1>2. \E f : /\ Obeys(f, Seq(Rated), CallSorts)
             /\ f \in Partial(Seq(Rated), CallSorts)
             /\ \A x \in Seq(Rated) : f[x] = SortsTogether[<<f, x>>]
  <2>1. Recursive(SortsTogether, Seq(Rated), CallSorts, SortSize)
    BY <1>1, SortsOnSmaller DEF Recursive
  <2> QED BY <2>1, FunctionExists
<1>3. PICK f : /\ Obeys(f, Seq(Rated), CallSorts)
               /\ f \in Partial(Seq(Rated), CallSorts)
               /\ \A x \in Seq(Rated) : f[x] = SortsTogether[<<f, x>>]
  BY <1>2, Zenon
<1>4. \A x \in Seq(Rated) : f[x] = Sort(f, x)
  <2> TAKE x \in Seq(Rated)
  <2>1. <<f, x>> \in Partial(Seq(Rated), CallSorts) \X Seq(Rated)
    BY <1>3
  <2> QED BY <1>3, <2>1 DEF SortsTogether
<1>5. Equation(f)
  BY <1>3, <1>4 DEF Obeys
<1>6. Quicksort = CHOOSE g : Equation(g)
  BY Zenon DEF Quicksort, Rated, Sort
<1>7. Equation(Quicksort)
  <2> HIDE DEF Equation
  <2> QED BY <1>5, <1>6, Zenon
<1> DEFINE g == Quicksort
<1> HIDE DEF g
<1>8. g = [l \in Seq(Rated) |-> Sort(g, l)]
  BY <1>7 DEF g
<1> DEFINE T == {n \in Nat : Sorts(g, n)}
<1>9. ASSUME NEW n \in Nat, \A k \in Nat : k < n => k \in T PROVE n \in T
  <2> SUFFICES ASSUME NEW l \in Seq(Rated), Len(l) < n PROVE SortsTo(l, g[l])
    BY DEF Sorts
  <2>1. Len(l) \in Nat
    OBVIOUS
  <2>2. Sorts(g, Len(l))
    BY <1>9, <2>1
  <2>3. SortsTo(l, Sort(g, l))
    BY <2>2, SortIsRight
  <2>4. g[l] = Sort(g, l)
    BY <1>8
  <2> QED BY <2>3, <2>4
<1>10. Nat \subseteq T
  <2> HIDE DEF T
  <2> QED BY <1>9, StrongInduction, Zenon
<1>11. Len(ls) + 1 \in T /\ Len(ls) < Len(ls) + 1
  BY <1>10
<1> QED BY <1>11 DEF g, Sorts

-----------------------------------------------------------------------------
(* The pairings of distances with stars *)

Shorter(ds, S) == IF Len(ds) <= Cardinality(S) THEN Len(ds) ELSE Cardinality(S)
Injections(n, S) == {f \in [1..n -> S] : \A j, k \in 1..n : f[j] = f[k] => j = k}
Paired(ds, at, n) == [k \in 1..n |-> <<ds[k], at[k]>>]

LEMMA PairingsAre ==
    ASSUME NEW ds, NEW S
    PROVE  Pairings(ds, S) = {Paired(ds, at, Shorter(ds, S)) : at \in Injections(Shorter(ds, S), S)}
BY Zenon DEF Pairings, Shorter, Injections, Paired

\* One distance less, and one star less: one pair less.
LEMMA ShorterIs ==
    ASSUME NEW T, NEW ds \in Seq(T), NEW S, IsFiniteSet(S)
    PROVE  /\ Shorter(ds, S) \in Nat /\ Shorter(ds, S) <= Len(ds)
           /\ Shorter(ds, S) = 0 <=> ds = <<>> \/ S = {}
           /\ ds # <<>> => \A x \in S : Shorter(Tail(ds), S \ {x}) = Shorter(ds, S) - 1
<1> DEFINE c == Cardinality(S)
           l == Len(ds)
           n == Shorter(ds, S)
<1>1. c \in Nat /\ (c = 0 <=> S = {})
  BY FS_CardinalityType, FS_EmptySet
<1>2. l \in Nat /\ (l = 0 <=> ds = <<>>)
  OBVIOUS
<1>3. n = IF l <= c THEN l ELSE c
  BY DEF Shorter
<1>4. ASSUME ds # <<>>, NEW x \in S PROVE Shorter(Tail(ds), S \ {x}) = n - 1
  <2>1. Len(Tail(ds)) = l - 1
    BY <1>4
  <2>2. Cardinality(S \ {x}) = c - 1
    BY FS_RemoveElement
  <2>3. Shorter(Tail(ds), S \ {x}) = IF l - 1 <= c - 1 THEN l - 1 ELSE c - 1
    BY <2>1, <2>2 DEF Shorter
  <2> HIDE DEF c, l, n
  <2> QED BY <1>1, <1>2, <1>3, <2>3
<1> HIDE DEF c, l, n
<1>5. n \in Nat /\ n <= l /\ (n = 0 <=> l = 0 \/ c = 0)
  BY <1>1, <1>2, <1>3
<1> QED BY <1>1, <1>2, <1>4, <1>5 DEF n, l

\* Without a distance or a star there is the empty pairing only.
LEMMA PairingsNone ==
    ASSUME NEW T, NEW ds \in Seq(T), NEW S, IsFiniteSet(S), ds = <<>> \/ S = {}
    PROVE  Pairings(ds, S) = { <<>> }
<1>1. Shorter(ds, S) = 0
  BY ShorterIs
<1>2. \A at : Paired(ds, at, 0) = <<>>
  BY DEF Paired
<1>3. [k \in {} |-> k] \in Injections(0, S)
  BY DEF Injections
<1>4. Pairings(ds, S) = {Paired(ds, at, 0) : at \in Injections(0, S)}
  BY <1>1, PairingsAre
<1> QED BY <1>2, <1>3, <1>4

\* Putting e in front of q, element by element.
LEMMA FrontIs ==
    ASSUME NEW T, NEW e \in T, NEW q \in Seq(T),
           NEW p, p = [k \in 1..(Len(q) + 1) |-> IF k = 1 THEN e ELSE q[k - 1]]
    PROVE  p = <<e>> \o q
<1> DEFINE r == <<e>> \o q
<1>1. /\ r \in Seq(T) /\ Len(r) = Len(q) + 1 /\ r[1] = e
      /\ \A k \in 1..Len(q) : r[k + 1] = q[k]
  OBVIOUS
<1>2. Len(q) \in Nat
  OBVIOUS
<1> HIDE DEF r
<1>3. \A k \in 1..(Len(q) + 1) : r[k] = IF k = 1 THEN e ELSE q[k - 1]
  <2> TAKE k \in 1..(Len(q) + 1)
  <2>1. CASE k = 1
    BY <1>1, <2>1
  <2>2. CASE k # 1
    <3> DEFINE m == k - 1
    <3>1. m \in 1..Len(q) /\ k = m + 1
      BY <1>2, <2>2
    <3> HIDE DEF m
    <3>2. r[k] = q[m]
      BY <1>1, <3>1
    <3> QED BY <2>2, <3>2 DEF m
  <2> QED BY <2>1, <2>2
<1>4. r = [k \in 1..(Len(q) + 1) |-> r[k]]
  BY <1>1
<1>5. r = p
  BY <1>3, <1>4
<1> QED BY <1>5 DEF r

\* p is the first distance with the star x, in front of a pairing of the
\* other distances with the other stars.
FirstWith(p, ds, S, x) == \E q \in Pairings(Tail(ds), S \ {x}) : p = << <<Head(ds), x>> >> \o q

\* A pairing starts with the first distance.
LEMMA PairingsFirst ==
    ASSUME NEW T, NEW ds \in Seq(T), NEW S, IsFiniteSet(S), ds # <<>>, S # {},
           NEW p
    PROVE  p \in Pairings(ds, S) <=> \E x \in S : FirstWith(p, ds, S, x)
<1> DEFINE n == Shorter(ds, S)
           U == T \X S
           t == Tail(ds)
<1>1. n \in Nat /\ n <= Len(ds) /\ Len(ds) \in Nat \ {0}
  BY ShorterIs
<1>2. \A x \in S : Shorter(t, S \ {x}) = n - 1
  BY ShorterIs
<1>3. /\ t \in Seq(T) /\ Len(t) = Len(ds) - 1 /\ Head(ds) = ds[1] /\ Head(ds) \in T
      /\ \A k \in 1..Len(t) : t[k] = ds[k + 1] /\ t[k] \in T
  OBVIOUS
<1>4. n # 0
  BY ShorterIs
<1> HIDE DEF n, t
<1>5. \A k \in 1..(n - 1) : k \in 1..Len(t) /\ k + 1 \in 1..n /\ t[k] = ds[k + 1] /\ t[k] \in T
  BY <1>1, <1>3
<1>6. ASSUME NEW x \in S, NEW f \in [1..(n - 1) -> S]
      PROVE  /\ n # 0
             /\ Paired(t, f, n - 1) \in Seq(U) /\ Len(Paired(t, f, n - 1)) = n - 1
             /\ << <<Head(ds), x>> >> \o Paired(t, f, n - 1) =
                   Paired(ds, [k \in 1..n |-> IF k = 1 THEN x ELSE f[k - 1]], n)
  <2> DEFINE q == Paired(t, f, n - 1)
             e == <<Head(ds), x>>
             g == [k \in 1..n |-> IF k = 1 THEN x ELSE f[k - 1]]
             r == Paired(ds, g, n)
  <2>1. n # 0 /\ n - 1 \in Nat
    BY <1>1, <1>4
  <2>2. q \in [1..(n - 1) -> U] /\ \A k \in 1..(n - 1) : q[k] = <<ds[k + 1], f[k]>>
    BY <1>5 DEF Paired
  <2>3. q \in Seq(U) /\ Len(q) = n - 1
    <3> HIDE DEF q
    <3> QED BY <2>1, <2>2
  <2>4. e \in U
    BY <1>3
  <2>5. ASSUME NEW k \in 1..n
        PROVE  r[k] = IF k = 1 THEN e ELSE q[k - 1]
    <3>1. r[k] = <<ds[k], g[k]>>
      BY DEF Paired
    <3>2. CASE k = 1
      <4>1. g[k] = x
        BY <3>2
      <4> QED BY <1>3, <3>1, <3>2, <4>1
    <3>3. CASE k # 1
      <4> DEFINE m == k - 1
      <4>1. m \in 1..(n - 1) /\ k = m + 1
        BY <1>1, <3>3
      <4>2. g[k] = f[m]
        BY <3>3
      <4> HIDE DEF m, q, r, g
      <4>3. q[m] = <<ds[m + 1], f[m]>>
        BY <2>2, <4>1
      <4>4. r[k] = q[m]
        BY <3>1, <4>1, <4>2, <4>3
      <4> QED BY <3>3, <4>4 DEF m
    <3> QED BY <3>2, <3>3
  <2>6. r = [k \in 1..n |-> r[k]] /\ (n - 1) + 1 = n
    BY <1>1 DEF Paired
  <2> HIDE DEF q, e, r
  <2>7. r = [k \in 1..(Len(q) + 1) |-> IF k = 1 THEN e ELSE q[k - 1]]
    BY <2>3, <2>5, <2>6
  <2>8. r = <<e>> \o q
    BY <2>3, <2>4, <2>7, FrontIs
  <2> QED BY <2>1, <2>3, <2>8 DEF q, e, r
<1>7. ASSUME p \in Pairings(ds, S)
      PROVE  \E x \in S : \E q \in Pairings(t, S \ {x}) : p = << <<Head(ds), x>> >> \o q
  <2>1. PICK at \in Injections(n, S) : p = Paired(ds, at, n)
    BY <1>7, PairingsAre DEF n
  <2>2. at \in [1..n -> S] /\ \A j, k \in 1..n : at[j] = at[k] => j = k
    BY DEF Injections
  <2> DEFINE x == at[1]
             f == [k \in 1..(n - 1) |-> at[k + 1]]
             g == [k \in 1..n |-> IF k = 1 THEN x ELSE f[k - 1]]
  <2>3. 1 \in 1..n /\ x \in S
    BY <1>1, <1>4, <2>2
  <2>4. \A k \in 1..(n - 1) : k + 1 \in 1..n /\ k + 1 # 1
    BY <1>1
  <2>5. f \in [1..(n - 1) -> S \ {x}] /\ \A j, k \in 1..(n - 1) : f[j] = f[k] => j = k
    BY <2>2, <2>3, <2>4
  <2>6. g = at
    <3>1. ASSUME NEW k \in 1..n PROVE g[k] = at[k]
      <4>1. CASE k = 1
        BY <4>1
      <4>2. CASE k # 1
        <5>1. k - 1 \in 1..(n - 1) /\ (k - 1) + 1 = k
          BY <1>1, <4>2
        <5> QED BY <4>2, <5>1
      <4> QED BY <4>1, <4>2
    <3> QED BY <2>2, <3>1
  <2> HIDE DEF x, f
  <2>7. << <<Head(ds), x>> >> \o Paired(t, f, n - 1) = Paired(ds, g, n)
    BY <1>6, <2>3, <2>5
  <2>8. Paired(t, f, n - 1) \in Pairings(t, S \ {x})
    <3>1. f \in Injections(n - 1, S \ {x})
      BY <2>5 DEF Injections
    <3> QED BY <1>2, <2>3, <3>1, PairingsAre
  <2> QED BY <2>1, <2>3, <2>6, <2>7, <2>8
<1>8. ASSUME NEW x \in S, NEW q \in Pairings(t, S \ {x}), p = << <<Head(ds), x>> >> \o q
      PROVE  p \in Pairings(ds, S)
  <2>1. PICK f \in Injections(n - 1, S \ {x}) : q = Paired(t, f, n - 1)
    BY <1>2, PairingsAre
  <2>2. f \in [1..(n - 1) -> S \ {x}] /\ \A j, k \in 1..(n - 1) : f[j] = f[k] => j = k
    BY DEF Injections
  <2> DEFINE g == [k \in 1..n |-> IF k = 1 THEN x ELSE f[k - 1]]
  <2>3. p = Paired(ds, g, n)
    <3>1. f \in [1..(n - 1) -> S]
      BY <2>2
    <3>2. << <<Head(ds), x>> >> \o Paired(t, f, n - 1) = Paired(ds, g, n)
      BY <1>6, <3>1
    <3> QED BY <1>8, <2>1, <3>2
  <2>4. \A k \in 1..n : \/ k = 1 /\ g[k] = x
                        \/ k # 1 /\ k - 1 \in 1..(n - 1) /\ g[k] = f[k - 1] /\ f[k - 1] \in S \ {x}
    <3> TAKE k \in 1..n
    <3>1. k # 1 => k - 1 \in 1..(n - 1)
      BY <1>1
    <3>2. g[k] = IF k = 1 THEN x ELSE f[k - 1]
      OBVIOUS
    <3>3. k # 1 => f[k - 1] \in S \ {x}
      BY <2>2, <3>1
    <3> HIDE DEF g
    <3> QED BY <3>1, <3>2, <3>3
  <2>5. g \in [1..n -> S]
    BY <2>4
  <2>6. \A j, k \in 1..n : g[j] = g[k] => j = k
    <3> SUFFICES ASSUME NEW j \in 1..n, NEW k \in 1..n, g[j] = g[k] PROVE j = k
      OBVIOUS
    <3> HIDE DEF g
    <3>1. CASE j = 1 \/ k = 1
      BY <2>4, <3>1
    <3>2. CASE j # 1 /\ k # 1
      <4>1. j - 1 = k - 1
        BY <2>2, <2>4, <3>2
      <4> QED BY <1>1, <4>1
    <3> QED BY <3>1, <3>2
  <2> HIDE DEF g
  <2>7. g \in Injections(n, S)
    BY <2>5, <2>6 DEF Injections
  <2> QED BY <2>3, <2>7, PairingsAre DEF n
<1> DEFINE Has(x) == \E q \in Pairings(t, S \ {x}) : p = << <<Head(ds), x>> >> \o q
<1>9. p \in Pairings(ds, S) <=> \E x \in S : Has(x)
  BY <1>7, <1>8
<1>10. \A x \in S : Has(x) <=> FirstWith(p, ds, S, x)
  BY Zenon DEF FirstWith, t
<1> HIDE DEF Has
<1> QED BY <1>9, <1>10, Zenon

\* A pairing is a list of distances with stars.
LEMMA PairingsGuesses ==
    ASSUME NEW T, NEW ds \in Seq(T), NEW R, NEW S \in SUBSET R, IsFiniteSet(S)
    PROVE  \A p \in Pairings(ds, S) : p \in Seq(T \X R)
<1> DEFINE n == Shorter(ds, S)
           U == T \X R
<1>1. n \in Nat /\ n <= Len(ds) /\ Len(ds) \in Nat
  BY ShorterIs
<1> HIDE DEF n
<1>2. ASSUME NEW at \in Injections(n, S) PROVE Paired(ds, at, n) \in Seq(U)
  <2>1. \A k \in 1..n : at[k] \in R /\ ds[k] \in T
    BY <1>1 DEF Injections
  <2>2. Paired(ds, at, n) \in [1..n -> U]
    BY <2>1 DEF Paired
  <2> HIDE DEF U
  <2> QED BY <1>1, <2>2
<1>3. Pairings(ds, S) = {Paired(ds, at, n) : at \in Injections(n, S)}
  BY PairingsAre DEF n
<1> QED BY <1>2, <1>3

-----------------------------------------------------------------------------
(* All the guesses *)

GuessCalls == Seq(Distance) \X Seq(Star)

\* r has each pairing of the distances with the stars; once, if no star is
\* there twice.
Guesses(ds, ss, r) ==
    /\ r \in Seq(Guess)
    /\ ToSet(r) = Pairings(ds, ToSet(ss))
    /\ IsInjective(ss) => IsInjective(r)

\* The guesses that pair the first distance with the k-th star.
Part(find, ds, ss, k) ==
    LET pairs == find[<<Tail(ds), Without(ss[k], ss)>>]
    IN  [n \in 1..Len(pairs) |-> << <<Head(ds), ss[k]>> >> \o pairs[n]]

Parts(find, ds, ss) == [k \in 1..Len(ss) |-> Part(find, ds, ss, k)]

\* What all-guesses returns for a call; `find' is used for the calls it makes.
Guessing(find, call) ==
    LET ds == call[1]
        ss == call[2]
    IN  IF ds = <<>> \/ ss = <<>> THEN << <<>> >>
        ELSE LET guesses[k \in 0..Len(ss)] ==
                     IF k = 0 THEN <<>>
                     ELSE LET pairs == find[<<Tail(ds), Without(ss[k], ss)>>]
                          IN  guesses[k - 1] \o
                                [n \in 1..Len(pairs) |-> << <<Head(ds), ss[k]>> >> \o pairs[n]]
             IN  guesses[Len(ss)]

\* Guesses for all the calls with fewer than n distances.
GuessesRight(find, n) ==
    \A ds \in Seq(Distance), ss \in Seq(Star) :
        Len(ds) < n => Guesses(ds, ss, find[<<ds, ss>>])

LEMMA StarsFinite ==
    ASSUME NEW ss \in Seq(Star)
    PROVE  IsFiniteSet(ToSet(ss))
<1>1. ToSet(ss) \subseteq Star
  BY SeqElements
<1> QED BY <1>1, StarsAssumption, FS_Subset

\* remove takes one star out of the set of stars.
LEMMA WithoutFacts ==
    ASSUME NEW ss \in Seq(Star), NEW x
    PROVE  /\ Without(x, ss) \in Seq(Star)
           /\ ToSet(Without(x, ss)) = ToSet(ss) \ {x}
           /\ IsInjective(ss) => IsInjective(Without(x, ss))
<1> DEFINE S == ToSet(ss) \ {x}
<1>1. Without(x, ss) = Kept(ss, S)
  BY DEF Without
<1>2. ToSet(ss) \cap S = S
  OBVIOUS
<1> HIDE DEF S
<1>3. /\ Kept(ss, S) \in Seq(Star) /\ ToSet(Kept(ss, S)) = ToSet(ss) \cap S
      /\ IsInjective(ss) => IsInjective(Kept(ss, S))
  BY KeptFacts
<1> QED BY <1>1, <1>2, <1>3 DEF S

\* The inner recursion joins the parts.
LEMMA GuessingJoins ==
    ASSUME NEW find, NEW call, call[1] # <<>>, call[2] # <<>>, Len(call[2]) \in Nat,
           Parts(find, call[1], call[2]) \in Seq(Seq(Guess))
    PROVE  \E g : /\ Joins(g, Parts(find, call[1], call[2]))
                  /\ Guessing(find, call) = g[Len(call[2])]
<1> DEFINE ds == call[1]
           ss == call[2]
           N == Len(ss)
           parts == Parts(find, ds, ss)
           Equation(g) == g = [k \in 0..Len(ss) |->
                     IF k = 0 THEN <<>>
                     ELSE LET pairs == find[<<Tail(ds), Without(ss[k], ss)>>]
                          IN  g[k - 1] \o
                                [n \in 1..Len(pairs) |-> << <<Head(ds), ss[k]>> >> \o pairs[n]]]
<1>1. Len(parts) = N /\ \A k \in 1..N : parts[k] = Part(find, ds, ss, k)
  <2>1. DOMAIN parts = 1..N
    BY DEF Parts
  <2>2. Len(parts) \in Nat /\ DOMAIN parts = 1..Len(parts)
    OBVIOUS
  <2>3. Len(parts) = N
    <3> DEFINE M == Len(parts)
    <3>1. M \in Nat /\ 1..M = 1..N /\ N \in Nat
      BY <2>1, <2>2
    <3> HIDE DEF M, N
    <3>2. M = N
      BY <3>1
    <3> QED BY <3>2 DEF M
  <2> QED BY <2>3 DEF Parts
<1>2. PICK h : Joins(h, parts)
  <2>1. parts \in Seq(Seq(Guess))
    OBVIOUS
  <2> HIDE DEF parts
  <2> QED BY <2>1, JoinExists
<1>3. h = [k \in 0..N |-> IF k = 0 THEN <<>> ELSE h[k - 1] \o Part(find, ds, ss, k)]
  <2>1. h = [k \in 0..N |-> IF k = 0 THEN <<>> ELSE h[k - 1] \o parts[k]]
    <3> HIDE DEF parts, N
    <3> QED BY <1>1, <1>2 DEF Joins
  <2>2. \A k \in 0..N : k # 0 => k \in 1..N
    BY DEF N
  <2> HIDE DEF parts, N
  <2> QED BY <1>1, <2>1, <2>2
<1>4. Equation(h)
  BY <1>3, Zenon DEF Part
<1>5. Equation(CHOOSE g : Equation(g))
  <2> HIDE DEF Equation
  <2> QED BY <1>4, Zenon
<1> DEFINE g == CHOOSE q : Equation(q)
<1>6. Guessing(find, call) = g[Len(ss)]
  BY Zenon DEF Guessing
<1>7. g = [k \in 0..N |-> IF k = 0 THEN <<>> ELSE g[k - 1] \o Part(find, ds, ss, k)]
  BY <1>5, Zenon DEF Part
<1> HIDE DEF g, Equation
<1>8. g = [k \in 0..Len(parts) |-> IF k = 0 THEN <<>> ELSE g[k - 1] \o parts[k]]
  <2>2. \A k \in 0..N : k # 0 => k \in 1..N
    BY DEF N
  <2> HIDE DEF parts, N
  <2> QED BY <1>1, <1>7, <2>2
<1> QED BY <1>6, <1>8 DEF Joins

\* The same for the two parts of a call.
LEMMA GuessingIs ==
    ASSUME NEW find, NEW ds, NEW ss, ds # <<>>, ss # <<>>, Len(ss) \in Nat,
           Parts(find, ds, ss) \in Seq(Seq(Guess))
    PROVE  \E g : Joins(g, Parts(find, ds, ss)) /\ Guessing(find, <<ds, ss>>) = g[Len(ss)]
<1> DEFINE call == <<ds, ss>>
<1>1. call[1] = ds /\ call[2] = ss
  OBVIOUS
<1> HIDE DEF call
<1>2. /\ call[1] # <<>> /\ call[2] # <<>> /\ Len(call[2]) \in Nat
      /\ Parts(find, call[1], call[2]) \in Seq(Seq(Guess))
  BY <1>1
<1>3. \E g : /\ Joins(g, Parts(find, call[1], call[2]))
             /\ Guessing(find, call) = g[Len(call[2])]
  BY <1>2, GuessingJoins, Zenon
<1>4. \E g : Joins(g, Parts(find, ds, ss)) /\ Guessing(find, call) = g[Len(ss)]
  BY <1>1, <1>3
<1> QED BY <1>4 DEF call

LEMMA FunctionIsSeq ==
    ASSUME NEW V, NEW n \in Nat, NEW u \in [1..n -> V]
    PROVE  u \in Seq(V)
OBVIOUS

LEMMA FrontElements ==
    ASSUME NEW T, NEW e \in T, NEW q \in Seq(T), NEW v, v = <<e>> \o q
    PROVE  /\ v \in Seq(T) /\ Len(v) = Len(q) + 1 /\ v[1] = e
           /\ \A k \in 1..Len(q) : v[k + 1] = q[k]
OBVIOUS

\* Equal lists have the same front, and the same rest.
LEMMA SameFront ==
    ASSUME NEW T, NEW d \in T, NEW e \in T, NEW q \in Seq(T), NEW r \in Seq(T),
           NEW v, v = <<d>> \o q, NEW w, w = <<e>> \o r, v = w
    PROVE  d = e
<1>1. v[1] = d
  BY FrontElements
<1>2. w[1] = e
  BY FrontElements
<1> QED BY <1>1, <1>2

LEMMA SameRest ==
    ASSUME NEW T, NEW e \in T, NEW q \in Seq(T), NEW r \in Seq(T),
           NEW v, v = <<e>> \o q, v = <<e>> \o r
    PROVE  q = r
<1>1. Len(v) = Len(q) + 1 /\ \A k \in 1..Len(q) : v[k + 1] = q[k]
  BY FrontElements
<1>2. Len(v) = Len(r) + 1 /\ \A k \in 1..Len(r) : v[k + 1] = r[k]
  BY FrontElements
<1>3. Len(q) \in Nat /\ Len(r) \in Nat
  OBVIOUS
<1>4. Len(q) = Len(r)
  BY <1>1, <1>2, <1>3
<1>5. \A k \in 1..Len(q) : q[k] = r[k]
  BY <1>1, <1>2, <1>4
<1> QED BY <1>4, <1>5, SeqEqual

Fronted(u, e, r) == u = [n \in 1..Len(r) |-> <<e>> \o r[n]]

\* A list of guesses, each with e in front.
LEMMA AllWithFront ==
    ASSUME NEW T, NEW e \in T, NEW r \in Seq(Seq(T)), NEW u, Fronted(u, e, r)
    PROVE  /\ u \in Seq(Seq(T))
           /\ \A p : p \in ToSet(u) <=> \E q \in ToSet(r) : p = <<e>> \o q
           /\ IsInjective(r) => IsInjective(u)
<1>1. /\ Len(r) \in Nat /\ DOMAIN r = 1..Len(r)
      /\ \A x : x \in ToSet(r) <=> \E n \in 1..Len(r) : x = r[n]
  BY SeqElements
<1>2. \A n \in 1..Len(r) : r[n] \in Seq(T)
  OBVIOUS
<1>3. \A n \in 1..Len(r) : u[n] = <<e>> \o r[n]
  BY DEF Fronted
<1>4. \A n \in 1..Len(r) : u[n] \in Seq(T)
  <2> TAKE n \in 1..Len(r)
  <2>1. <<e>> \o r[n] \in Seq(T)
    BY <1>2, FrontElements
  <2> QED BY <1>3, <2>1
<1>5. u = [n \in 1..Len(r) |-> u[n]] /\ DOMAIN u = 1..Len(r)
  BY DEF Fronted
<1>6. u \in [1..Len(r) -> Seq(T)]
  BY <1>4, <1>5
<1> DEFINE V == Seq(T)
<1>7. u \in Seq(V)
  <2> HIDE DEF V
  <2>1. u \in [1..Len(r) -> V]
    BY <1>6 DEF V
  <2> QED BY <1>1, <2>1, FunctionIsSeq
<1>8. \A p : p \in ToSet(u) <=> \E n \in 1..Len(r) : p = u[n]
  BY <1>5 DEF ToSet
<1>9. ASSUME IsInjective(r) PROVE IsInjective(u)
  <2> SUFFICES ASSUME NEW j \in 1..Len(r), NEW k \in 1..Len(r), u[j] = u[k] PROVE j = k
    BY <1>5 DEF IsInjective
  <2> DEFINE q == r[j]
             s == r[k]
             v == u[j]
  <2>1. q \in Seq(T) /\ s \in Seq(T)
    BY <1>2
  <2>2. v = <<e>> \o q /\ v = <<e>> \o s
    BY <1>3
  <2> HIDE DEF q, s, v
  <2>3. q = s
    BY <2>1, <2>2, SameRest
  <2> QED BY <1>1, <1>9, <2>3 DEF q, s, IsInjective
<1>10. \A p : p \in ToSet(u) <=> \E q \in ToSet(r) : p = <<e>> \o q
  <2>1. \A p : (\E n \in 1..Len(r) : p = u[n]) <=> \E q \in ToSet(r) : p = <<e>> \o q
    <3> TAKE p
    <3>1. ASSUME NEW n \in 1..Len(r), p = u[n] PROVE \E q \in ToSet(r) : p = <<e>> \o q
      BY <1>1, <1>3, <3>1, Zenon
    <3>2. ASSUME NEW q \in ToSet(r), p = <<e>> \o q PROVE \E n \in 1..Len(r) : p = u[n]
      <4>1. PICK n \in 1..Len(r) : q = r[n]
        BY <1>1
      <4> QED BY <1>3, <3>2, <4>1, Zenon
    <3> QED BY <3>1, <3>2
  <2> QED BY <1>8, <2>1, Zenon
<1> QED BY <1>7, <1>9, <1>10

\* A part has every guess with its star in front, once.
LEMMA PartFacts ==
    ASSUME NEW find, NEW ds \in Seq(Distance), ds # <<>>, NEW ss \in Seq(Star),
           GuessesRight(find, Len(ds)), NEW k \in 1..Len(ss)
    PROVE  /\ Part(find, ds, ss, k) \in Seq(Guess)
           /\ \A p : p \in ToSet(Part(find, ds, ss, k)) <=>
                       FirstWith(p, ds, ToSet(ss), ss[k])
           /\ IsInjective(ss) => IsInjective(Part(find, ds, ss, k))
<1> DEFINE t == Tail(ds)
           w == Without(ss[k], ss)
           r == find[<<t, w>>]
           e == <<Head(ds), ss[k]>>
           u == Part(find, ds, ss, k)
           T == Distance \X Star
<1>1. t \in Seq(Distance) /\ Len(t) < Len(ds) /\ Head(ds) \in Distance
  OBVIOUS
<1>2. ss[k] \in Star
  OBVIOUS
<1>3. /\ w \in Seq(Star) /\ ToSet(w) = ToSet(ss) \ {ss[k]}
      /\ IsInjective(ss) => IsInjective(w)
  BY WithoutFacts
<1>4. e \in T
  BY <1>1, <1>2
<1>5. Fronted(u, e, r)
  BY Zenon DEF Part, Fronted
<1>6. Guesses(t, w, r)
  <2> HIDE DEF t, w
  <2> QED BY <1>1, <1>3 DEF GuessesRight
<1>7. /\ r \in Seq(Seq(T)) /\ ToSet(r) = Pairings(t, ToSet(ss) \ {ss[k]})
      /\ IsInjective(ss) => IsInjective(r)
  <2> HIDE DEF t, w, r
  <2> QED BY <1>3, <1>6 DEF Guesses, Guess
<1> HIDE DEF r, e, u, T
<1>8. /\ u \in Seq(Seq(T))
      /\ \A p : p \in ToSet(u) <=> \E q \in ToSet(r) : p = <<e>> \o q
      /\ IsInjective(r) => IsInjective(u)
  BY <1>4, <1>5, <1>7, AllWithFront
<1>9. u \in Seq(Guess)
  BY <1>8, Zenon DEF T, Guess
<1>10. \A p : p \in ToSet(u) <=> FirstWith(p, ds, ToSet(ss), ss[k])
  BY <1>7, <1>8, Zenon DEF FirstWith, e, t
<1> QED BY <1>7, <1>8, <1>9, <1>10 DEF u

LEMMA PartsFacts ==
    ASSUME NEW find, NEW ds \in Seq(Distance), ds # <<>>, NEW ss \in Seq(Star),
           GuessesRight(find, Len(ds))
    PROVE  /\ Parts(find, ds, ss) \in Seq(Seq(Guess)) /\ Len(Parts(find, ds, ss)) = Len(ss)
           /\ \A k \in 1..Len(ss) : Parts(find, ds, ss)[k] = Part(find, ds, ss, k)
<1> DEFINE V == Seq(Guess)
           N == Len(ss)
           parts == Parts(find, ds, ss)
<1>1. N \in Nat
  OBVIOUS
<1>2. \A k \in 1..N : Part(find, ds, ss, k) \in V
  BY PartFacts
<1>3. parts = [k \in 1..N |-> Part(find, ds, ss, k)]
  BY DEF Parts
<1> HIDE DEF V, N, parts
<1>4. parts \in [1..N -> V] /\ \A k \in 1..N : parts[k] = Part(find, ds, ss, k)
  BY <1>2, <1>3
<1>5. parts \in Seq(V) /\ Len(parts) = N
  BY <1>1, <1>4
<1> QED BY <1>4, <1>5 DEF V, N, parts

\* The parts have different first stars.
LEMMA PartsApart ==
    ASSUME NEW find, NEW ds \in Seq(Distance), ds # <<>>, NEW ss \in Seq(Star), IsInjective(ss),
           GuessesRight(find, Len(ds)), NEW i \in 1..Len(ss), NEW j \in 1..Len(ss), i # j
    PROVE  ToSet(Part(find, ds, ss, i)) \cap ToSet(Part(find, ds, ss, j)) = {}
<1> DEFINE T == Distance \X Star
           t == Tail(ds)
           d == <<Head(ds), ss[i]>>
           e == <<Head(ds), ss[j]>>
<1> SUFFICES ASSUME NEW p, p \in ToSet(Part(find, ds, ss, i)), p \in ToSet(Part(find, ds, ss, j))
             PROVE  FALSE
  OBVIOUS
<1>1. PICK q \in Pairings(t, ToSet(ss) \ {ss[i]}) : p = <<d>> \o q
  <2>1. FirstWith(p, ds, ToSet(ss), ss[i])
    BY PartFacts
  <2> QED BY <2>1, Zenon DEF FirstWith
<1>2. PICK r \in Pairings(t, ToSet(ss) \ {ss[j]}) : p = <<e>> \o r
  <2>1. FirstWith(p, ds, ToSet(ss), ss[j])
    BY PartFacts
  <2> QED BY <2>1, Zenon DEF FirstWith
<1>3. /\ ss[i] \in Star /\ ss[j] \in Star /\ Head(ds) \in Distance /\ t \in Seq(Distance)
      /\ ss[i] # ss[j]
  <2>1. ss[i] # ss[j]
    <3>1. DOMAIN ss = 1..Len(ss)
      OBVIOUS
    <3> QED BY <3>1 DEF IsInjective
  <2> QED BY <2>1
<1>4. d \in T /\ e \in T /\ d # e
  BY <1>3
<1>5. q \in Seq(T) /\ r \in Seq(T)
  <2> DEFINE S1 == ToSet(ss) \ {ss[i]}
             S2 == ToSet(ss) \ {ss[j]}
  <2>1. S1 \subseteq Star /\ S2 \subseteq Star /\ IsFiniteSet(S1) /\ IsFiniteSet(S2)
    <3>1. ToSet(ss) \subseteq Star /\ IsFiniteSet(ToSet(ss))
      BY SeqElements, StarsFinite
    <3> QED BY <3>1, FS_Subset
  <2> HIDE DEF S1, S2, t
  <2>2. q \in Seq(T)
    BY <1>1, <1>3, <2>1, PairingsGuesses DEF S1
  <2>3. r \in Seq(T)
    BY <1>2, <1>3, <2>1, PairingsGuesses DEF S2
  <2> QED BY <2>2, <2>3
<1> HIDE DEF d, e, T
<1> QED BY <1>1, <1>2, <1>4, <1>5, SameFront

\* A call makes every guess if the calls with fewer distances do.
LEMMA GuessingIsRight ==
    ASSUME NEW find, NEW ds \in Seq(Distance), NEW ss \in Seq(Star), GuessesRight(find, Len(ds))
    PROVE  Guesses(ds, ss, Guessing(find, <<ds, ss>>))
<1> DEFINE S == ToSet(ss)
           call == <<ds, ss>>
           result == Guessing(find, call)
<1>1. IsFiniteSet(S) /\ (ss = <<>> <=> S = {})
  <2>1. ss = <<>> <=> S = {}
    <3>1. Len(ss) \in Nat /\ \A x : x \in S <=> \E n \in 1..Len(ss) : x = ss[n]
      BY SeqElements
    <3>2. ss # <<>> => 1 \in 1..Len(ss)
      OBVIOUS
    <3>3. ss = <<>> => 1..Len(ss) = {}
      OBVIOUS
    <3> HIDE DEF S
    <3> QED BY <3>1, <3>2, <3>3
  <2> QED BY <2>1, StarsFinite
<1>2. call[1] = ds /\ call[2] = ss
  OBVIOUS
<1>3. CASE ds = <<>> \/ ss = <<>>
  <2> DEFINE one == << <<>> >>
  <2>1. result = one
    <3>1. call[1] = <<>> \/ call[2] = <<>>
      BY <1>2, <1>3
    <3> HIDE DEF call
    <3> QED BY <3>1, Zenon DEF Guessing
  <2>2. one \in Seq(Guess)
    <3>1. <<>> \in Guess
      BY DEF Guess
    <3> QED BY <3>1
  <2>3. IsInjective(one) /\ ToSet(one) = { <<>> }
    BY DEF IsInjective, ToSet
  <2>4. Pairings(ds, S) = { <<>> }
    BY <1>1, <1>3, PairingsNone
  <2> QED BY <2>1, <2>2, <2>3, <2>4 DEF Guesses
<1>4. CASE ds # <<>> /\ ss # <<>>
  <2> DEFINE parts == Parts(find, ds, ss)
             N == Len(ss)
  <2>1. /\ parts \in Seq(Seq(Guess)) /\ Len(parts) = N
        /\ \A k \in 1..N : parts[k] = Part(find, ds, ss, k)
    BY <1>4, PartsFacts
  <2>2. N \in Nat
    OBVIOUS
  <2>3. PICK g : Joins(g, parts) /\ result = g[N]
    <3> HIDE DEF parts
    <3> QED BY <1>4, <2>1, <2>2, GuessingIs DEF parts
  <2> HIDE DEF parts, N, result
  <2> DEFINE U == Guess
  <2>4. /\ g[N] \in Seq(U)
        /\ ToSet(g[N]) = UNION {ToSet(parts[j]) : j \in 1..N}
        /\ /\ \A j \in 1..N : IsInjective(parts[j])
           /\ \A i, j \in 1..N : i # j => ToSet(parts[i]) \cap ToSet(parts[j]) = {}
           => IsInjective(g[N])
    <3>1. parts \in Seq(Seq(U)) /\ N \in 0..N
      BY <2>1, <2>2
    <3> HIDE DEF U
    <3>2. /\ \A k \in 0..Len(parts) :
                 /\ g[k] \in Seq(U)
                 /\ ToSet(g[k]) = UNION {ToSet(parts[j]) : j \in 1..k}
          /\ /\ \A j \in 1..Len(parts) : IsInjective(parts[j])
             /\ \A i, j \in 1..Len(parts) : i # j => ToSet(parts[i]) \cap ToSet(parts[j]) = {}
             => IsInjective(g[Len(parts)])
      BY <2>3, <3>1, JoinedElements, Zenon
    <3> QED BY <2>1, <3>1, <3>2
  <2>5. \A p : p \in ToSet(result) <=> p \in Pairings(ds, S)
    <3> TAKE p
    <3>1. p \in ToSet(result) <=> \E j \in 1..N : p \in ToSet(Part(find, ds, ss, j))
      BY <2>1, <2>3, <2>4
    <3>2. \A j \in 1..N : p \in ToSet(Part(find, ds, ss, j)) <=> FirstWith(p, ds, S, ss[j])
      BY <1>4, PartFacts DEF N
    <3>3. p \in Pairings(ds, S) <=> \E x \in S : FirstWith(p, ds, S, x)
      <4> HIDE DEF S
      <4> QED BY <1>1, <1>4, PairingsFirst
    <3>4. \A x : x \in S <=> \E n \in 1..N : x = ss[n]
      BY SeqElements DEF N
    <3> HIDE DEF S
    <3> QED BY <3>1, <3>2, <3>3, <3>4, Zenon
  <2>6. ASSUME IsInjective(ss) PROVE IsInjective(result)
    <3>1. \A j \in 1..N : IsInjective(parts[j])
      BY <1>4, <2>1, <2>6, PartFacts DEF N
    <3>2. \A i, j \in 1..N : i # j => ToSet(parts[i]) \cap ToSet(parts[j]) = {}
      <4> TAKE i, j \in 1..N
      <4> HAVE i # j
      <4>1. ToSet(Part(find, ds, ss, i)) \cap ToSet(Part(find, ds, ss, j)) = {}
        BY <1>4, <2>6, PartsApart DEF N
      <4> QED BY <2>1, <4>1
    <3> QED BY <2>3, <2>4, <3>1, <3>2
  <2>7. ToSet(result) = Pairings(ds, S)
    BY <2>5
  <2>8. Guesses(ds, ss, result)
    BY <2>3, <2>4, <2>6, <2>7 DEF Guesses
  <2> QED BY <2>8 DEF result
<1> QED BY <1>3, <1>4

\* Guesses depend on calls with fewer distances only.
LEMMA GuessingSame ==
    ASSUME NEW f, NEW h, NEW ds \in Seq(Distance), NEW ss \in Seq(Star),
           GuessesRight(f, Len(ds)), GuessesRight(h, Len(ds)),
           \A es \in Seq(Distance), rs \in Seq(Star) :
              Len(es) < Len(ds) => f[<<es, rs>>] = h[<<es, rs>>]
    PROVE  Guessing(f, <<ds, ss>>) = Guessing(h, <<ds, ss>>)
<1> DEFINE call == <<ds, ss>>
<1>1. call[1] = ds /\ call[2] = ss
  OBVIOUS
<1> HIDE DEF call
<1>2. CASE ds = <<>> \/ ss = <<>>
  <2>1. call[1] = <<>> \/ call[2] = <<>>
    BY <1>1, <1>2
  <2>2. Guessing(f, call) = << <<>> >> /\ Guessing(h, call) = << <<>> >>
    BY <2>1, Zenon DEF Guessing
  <2> QED BY <2>2 DEF call
<1>3. CASE ds # <<>> /\ ss # <<>>
  <2>1. \A k \in 1..Len(ss) : Part(f, ds, ss, k) = Part(h, ds, ss, k)
    <3> TAKE k \in 1..Len(ss)
    <3> DEFINE t == Tail(ds)
               w == Without(ss[k], ss)
    <3>1. t \in Seq(Distance) /\ Len(t) < Len(ds)
      BY <1>3
    <3>2. w \in Seq(Star)
      BY WithoutFacts
    <3>3. f[<<t, w>>] = h[<<t, w>>]
      <4> HIDE DEF t, w
      <4> QED BY <3>1, <3>2
    <3> QED BY <3>3, Zenon DEF Part
  <2>2. Parts(f, ds, ss) = Parts(h, ds, ss)
    BY <2>1, Zenon DEF Parts
  <2> DEFINE parts == Parts(f, ds, ss)
             N == Len(ss)
  <2>3. parts \in Seq(Seq(Guess)) /\ N \in Nat
    BY <1>3, PartsFacts
  <2>4. PICK g : Joins(g, parts) /\ Guessing(f, call) = g[N]
    BY <1>3, <2>3, GuessingIs DEF call
  <2>5. PICK k : Joins(k, parts) /\ Guessing(h, call) = k[N]
    BY <1>3, <2>2, <2>3, GuessingIs DEF call
  <2>6. g = k
    <3> HIDE DEF parts
    <3> QED BY <2>3, <2>4, <2>5, JoinedIs
  <2> QED BY <2>4, <2>5, <2>6 DEF call
<1> QED BY <1>2, <1>3

GuessSize == [call \in GuessCalls |-> Len(call[1])]
CallGuesses == {p \in GuessCalls \X Seq(Guess) : Guesses(p[1][1], p[1][2], p[2])}
GuessingTogether ==
    [gx \in Partial(GuessCalls, CallGuesses) \X GuessCalls |-> Guessing(gx[1], gx[2])]

LEMMA CallIsPair ==
    ASSUME NEW call \in GuessCalls
    PROVE  /\ call[1] \in Seq(Distance) /\ call[2] \in Seq(Star) /\ call = <<call[1], call[2]>>
           /\ GuessSize[call] = Len(call[1]) /\ GuessSize[call] \in Nat
BY DEF GuessCalls, GuessSize

\* A part of a solution has the guesses of the calls in its domain.
LEMMA GuessesBelow ==
    ASSUME NEW g \in Partial(GuessCalls, CallGuesses), NEW n \in Nat,
           Below(GuessCalls, GuessSize, n) \subseteq DOMAIN g
    PROVE  GuessesRight(g, n)
<1> SUFFICES ASSUME NEW ds \in Seq(Distance), NEW ss \in Seq(Star), Len(ds) < n
             PROVE  Guesses(ds, ss, g[<<ds, ss>>])
  BY DEF GuessesRight
<1> DEFINE call == <<ds, ss>>
           r == g[call]
           p == <<call, r>>
<1>1. call \in GuessCalls /\ call[1] = ds /\ call[2] = ss
  BY DEF GuessCalls
<1> HIDE DEF call
<1>2. call \in Below(GuessCalls, GuessSize, n)
  <2>1. GuessSize[call] = Len(ds)
    BY <1>1, CallIsPair
  <2> QED BY <1>1, <2>1 DEF Below
<1>3. p \in CallGuesses
  <2>1. call \in DOMAIN g
    BY <1>2
  <2> QED BY <2>1, Zenon DEF Partial
<1>4. p[1] = call /\ p[2] = r
  OBVIOUS
<1> HIDE DEF p, r
<1>5. Guesses(p[1][1], p[1][2], p[2])
  BY <1>3 DEF CallGuesses
<1>6. Guesses(ds, ss, r)
  BY <1>1, <1>4, <1>5
<1> QED BY <1>6 DEF r, call

LEMMA GuessesOnSmaller == OnSmaller(GuessingTogether, GuessCalls, CallGuesses, GuessSize)
<1> DEFINE D == GuessCalls
           P == CallGuesses
<1>1. ASSUME NEW g \in Partial(D, P), NEW x \in D
      PROVE  GuessingTogether[<<g, x>>] = Guessing(g, x)
  <2>1. <<g, x>> \in Partial(D, P) \X D
    OBVIOUS
  <2> QED BY <2>1 DEF GuessingTogether
<1>2. ASSUME NEW g \in Partial(D, P), NEW x \in D, Below(D, GuessSize, GuessSize[x]) \subseteq DOMAIN g
      PROVE  GuessesRight(g, Len(x[1]))
  BY <1>2, CallIsPair, GuessesBelow
<1>3. ASSUME NEW g \in Partial(D, P), NEW x \in D, Below(D, GuessSize, GuessSize[x]) \subseteq DOMAIN g
      PROVE  <<x, GuessingTogether[<<g, x>>]>> \in P
  <2> DEFINE r == GuessingTogether[<<g, x>>]
             ds == x[1]
             ss == x[2]
             p == <<x, r>>
  <2>1. ds \in Seq(Distance) /\ ss \in Seq(Star) /\ x = <<ds, ss>>
    BY CallIsPair
  <2>2. GuessesRight(g, Len(ds))
    BY <1>2, <1>3
  <2>3. r = Guessing(g, x)
    BY <1>1
  <2> HIDE DEF r
  <2>4. Guesses(ds, ss, r)
    <3> HIDE DEF ds, ss
    <3>1. Guesses(ds, ss, Guessing(g, <<ds, ss>>))
      BY <2>1, <2>2, GuessingIsRight
    <3> QED BY <2>1, <2>3, <3>1
  <2>5. r \in Seq(Guess)
    BY <2>4 DEF Guesses
  <2>6. p \in GuessCalls \X Seq(Guess) /\ p[1] = x /\ p[2] = r
    BY <2>5
  <2> HIDE DEF p
  <2>7. p \in CallGuesses
    BY <2>4, <2>6 DEF CallGuesses
  <2> QED BY <2>7 DEF p, r
<1>4. ASSUME NEW g \in Partial(D, P), NEW h \in Partial(D, P), NEW x \in D,
             Below(D, GuessSize, GuessSize[x]) \subseteq DOMAIN g,
             Below(D, GuessSize, GuessSize[x]) \subseteq DOMAIN h,
             \A y \in Below(D, GuessSize, GuessSize[x]) : g[y] = h[y]
      PROVE  GuessingTogether[<<g, x>>] = GuessingTogether[<<h, x>>]
  <2> DEFINE ds == x[1]
             ss == x[2]
  <2>1. ds \in Seq(Distance) /\ ss \in Seq(Star) /\ x = <<ds, ss>> /\ GuessSize[x] = Len(ds)
    BY CallIsPair
  <2>2. GuessesRight(g, Len(ds)) /\ GuessesRight(h, Len(ds))
    BY <1>2, <1>4
  <2>3. \A es \in Seq(Distance), rs \in Seq(Star) :
              Len(es) < Len(ds) => g[<<es, rs>>] = h[<<es, rs>>]
    <3> SUFFICES ASSUME NEW es \in Seq(Distance), NEW rs \in Seq(Star), Len(es) < Len(ds)
                 PROVE  g[<<es, rs>>] = h[<<es, rs>>]
      OBVIOUS
    <3> DEFINE y == <<es, rs>>
    <3>1. y \in GuessCalls /\ y[1] = es
      BY DEF GuessCalls
    <3> HIDE DEF y
    <3>2. y \in Below(D, GuessSize, GuessSize[x])
      <4>1. GuessSize[y] = Len(es)
        BY <3>1, CallIsPair
      <4> QED BY <2>1, <3>1, <4>1 DEF Below
    <3>3. g[y] = h[y]
      BY <1>4, <3>2
    <3> QED BY <3>3 DEF y
  <2> HIDE DEF ds, ss
  <2>4. Guessing(g, <<ds, ss>>) = Guessing(h, <<ds, ss>>)
    BY <2>1, <2>2, <2>3, GuessingSame
  <2>5. Guessing(g, x) = Guessing(h, x)
    BY <2>1, <2>4
  <2> QED BY <1>1, <2>5
<1> QED BY <1>3, <1>4 DEF OnSmaller

\* all-guesses comes to an end, and has made every guess then.
LEMMA AllGuessesMade ==
    ASSUME NEW ds \in Seq(Distance), NEW ss \in Seq(Star)
    PROVE  Guesses(ds, ss, AllGuesses[<<ds, ss>>])
<1> DEFINE Equation(f) == f = [call \in GuessCalls |-> Guessing(f, call)]
<1>1. GuessSize \in [GuessCalls -> Nat]
  BY CallIsPair DEF GuessSize
<1>2. \E f : /\ Obeys(f, GuessCalls, CallGuesses)
             /\ f \in Partial(GuessCalls, CallGuesses)
             /\ \A x \in GuessCalls : f[x] = GuessingTogether[<<f, x>>]
  <2>1. Recursive(GuessingTogether, GuessCalls, CallGuesses, GuessSize)
    BY <1>1, GuessesOnSmaller DEF Recursive
  <2> QED BY <2>1, FunctionExists
<1>3. PICK f : /\ Obeys(f, GuessCalls, CallGuesses)
               /\ f \in Partial(GuessCalls, CallGuesses)
               /\ \A x \in GuessCalls : f[x] = GuessingTogether[<<f, x>>]
  BY <1>2, Zenon
<1>4. \A x \in GuessCalls : f[x] = Guessing(f, x)
  <2> TAKE x \in GuessCalls
  <2>1. <<f, x>> \in Partial(GuessCalls, CallGuesses) \X GuessCalls
    BY <1>3
  <2> QED BY <1>3, <2>1 DEF GuessingTogether
<1>5. Equation(f)
  BY <1>3, <1>4 DEF Obeys
<1>6. AllGuesses = CHOOSE g : Equation(g)
  BY Zenon DEF AllGuesses, GuessCalls, Guessing
<1>7. Equation(AllGuesses)
  <2> HIDE DEF Equation
  <2> QED BY <1>5, <1>6, Zenon
<1> DEFINE g == AllGuesses
<1> HIDE DEF g
<1>8. g = [call \in GuessCalls |-> Guessing(g, call)]
  BY <1>7 DEF g
<1>9. \A es \in Seq(Distance), rs \in Seq(Star) : g[<<es, rs>>] = Guessing(g, <<es, rs>>)
  BY <1>8 DEF GuessCalls
<1> DEFINE T == {n \in Nat : GuessesRight(g, n)}
<1>10. ASSUME NEW n \in Nat, \A k \in Nat : k < n => k \in T PROVE n \in T
  <2> SUFFICES ASSUME NEW es \in Seq(Distance), NEW rs \in Seq(Star), Len(es) < n
               PROVE  Guesses(es, rs, g[<<es, rs>>])
    BY DEF GuessesRight
  <2>1. Len(es) \in Nat
    OBVIOUS
  <2>2. GuessesRight(g, Len(es))
    BY <1>10, <2>1
  <2>3. Guesses(es, rs, Guessing(g, <<es, rs>>))
    BY <2>2, GuessingIsRight
  <2> QED BY <1>9, <2>3
<1>11. Nat \subseteq T
  <2> HIDE DEF T
  <2> QED BY <1>10, StrongInduction, Zenon
<1>12. Len(ds) + 1 \in T /\ Len(ds) < Len(ds) + 1
  BY <1>11
<1> QED BY <1>12 DEF g, GuessesRight

\* A list without repetition is as long as its set has elements.
LEMMA InjectiveLength ==
    ASSUME NEW T, NEW s \in Seq(T), IsInjective(s)
    PROVE  Cardinality(ToSet(s)) = Len(s)
<1> DEFINE n == Len(s)
           S == ToSet(s)
<1>1. /\ n \in Nat /\ DOMAIN s = 1..n /\ \A x : x \in S <=> \E k \in 1..n : x = s[k]
      /\ s \in [1..n -> T]
  BY SeqElements
<1>2. \A j, k \in 1..n : s[j] = s[k] => j = k
  BY <1>1 DEF IsInjective
<1> HIDE DEF n, S
<1>3. s \in [1..n -> S]
  BY <1>1
<1>4. s \in Bijection(1..n, S)
  BY <1>1, <1>2, <1>3 DEF Bijection, Injection, Surjection, IsInjective
<1>5. ExistsBijection(1..n, S)
  BY <1>4 DEF ExistsBijection
<1>6. IsFiniteSet(1..n) /\ Cardinality(1..n) = n
  BY <1>1, FS_Interval
<1>7. Cardinality(S) = n
  BY <1>5, <1>6, FS_Bijection
<1> QED BY <1>7 DEF n, S

Ranks(r, ds, S, rate) ==
    /\ {r[n][2] : n \in DOMAIN r} = Pairings(ds, S)
    /\ Len(r) = Cardinality(Pairings(ds, S))
    /\ \A n \in DOMAIN r : r[n][1] = rate[r[n][2]]
    /\ \A m, n \in DOMAIN r : m < n => r[m][1] <= r[n][1]

RatedList(list, g, rate) == list = [n \in 1..Len(g) |-> <<rate[g[n]], g[n]>>]

\* The list of guesses with their ratings has each guess with its own.
LEMMA RatedGuesses ==
    ASSUME NEW g \in Seq(Guess), NEW rate \in [ToSet(g) -> Ratings],
           NEW list, RatedList(list, g, rate)
    PROVE  /\ list \in Seq(Rated) /\ Len(list) = Len(g)
           /\ \A e : e \in ToSet(list) <=> \E p \in ToSet(g) : e = <<rate[p], p>>
<1> DEFINE N == Len(g)
<1>1. /\ N \in Nat /\ ToSet(g) \subseteq Guess
      /\ \A x : x \in ToSet(g) <=> \E n \in 1..N : x = g[n]
  BY SeqElements
<1>2. DOMAIN list = 1..N /\ \A n \in 1..N : list[n] = <<rate[g[n]], g[n]>>
  BY DEF RatedList
<1>3. \A n \in 1..N : list[n] \in Rated
  <2> TAKE n \in 1..N
  <2>1. g[n] \in ToSet(g) /\ g[n] \in Guess /\ rate[g[n]] \in Ratings
    BY <1>1
  <2>2. list[n] = <<rate[g[n]], g[n]>>
    BY <1>2
  <2> QED BY <2>1, <2>2 DEF Rated
<1>4. list = [n \in 1..N |-> list[n]]
  BY DEF RatedList
<1> DEFINE R == Rated
<1>5. list \in [1..N -> R]
  BY <1>3, <1>4
<1>6. list \in Seq(R) /\ Len(list) = N
  <2> HIDE DEF N, R
  <2> QED BY <1>1, <1>5
<1>7. \A e : e \in ToSet(list) <=> \E n \in 1..N : e = list[n]
  BY <1>2 DEF ToSet
<1> HIDE DEF N
<1>8. ASSUME NEW e PROVE e \in ToSet(list) <=> \E p \in ToSet(g) : e = <<rate[p], p>>
  <2>1. ASSUME e \in ToSet(list) PROVE \E p \in ToSet(g) : e = <<rate[p], p>>
    <3>1. PICK n \in 1..N : e = list[n]
      BY <1>7, <2>1
    <3>2. g[n] \in ToSet(g) /\ e = <<rate[g[n]], g[n]>>
      BY <1>1, <1>2, <3>1
    <3> QED BY <3>2
  <2>2. ASSUME NEW p \in ToSet(g), e = <<rate[p], p>> PROVE e \in ToSet(list)
    <3>1. PICK n \in 1..N : p = g[n]
      BY <1>1
    <3> QED BY <1>2, <1>7, <2>2, <3>1
  <2> QED BY <2>1, <2>2
<1> QED BY <1>6, <1>8 DEF N

\* Sorted, it ranks them.
LEMMA SortedRanks ==
    ASSUME NEW ds, NEW S, NEW g \in Seq(Guess), IsInjective(g), ToSet(g) = Pairings(ds, S),
           NEW rate \in [ToSet(g) -> Ratings],
           NEW list, list \in Seq(Rated), Len(list) = Len(g),
           \A e : e \in ToSet(list) <=> \E p \in ToSet(g) : e = <<rate[p], p>>,
           NEW r, SortsTo(list, r)
    PROVE  Ranks(r, ds, S, rate)
<1>1. r \in Seq(Rated) /\ Len(r) = Len(list) /\ ToSet(r) = ToSet(list) /\ Ascends(r)
  BY DEF SortsTo
<1>2. DOMAIN r = 1..Len(r) /\ \A x : x \in ToSet(r) <=> \E n \in 1..Len(r) : x = r[n]
  BY <1>1, SeqElements
<1>3. Len(r) = Cardinality(Pairings(ds, S))
  BY <1>1, InjectiveLength
<1>4. \A n \in DOMAIN r : r[n][2] \in ToSet(g) /\ r[n][1] = rate[r[n][2]]
  <2> TAKE n \in DOMAIN r
  <2>1. r[n] \in ToSet(list)
    BY <1>1, <1>2
  <2>2. PICK p \in ToSet(g) : r[n] = <<rate[p], p>>
    BY <2>1
  <2> QED BY <2>2
<1>5. \A p \in ToSet(g) : \E n \in DOMAIN r : r[n][2] = p
  <2> TAKE p \in ToSet(g)
  <2> DEFINE e == <<rate[p], p>>
  <2>1. e[2] = p
    OBVIOUS
  <2> HIDE DEF e
  <2>2. e \in ToSet(r)
    BY <1>1 DEF e
  <2>3. PICK n \in 1..Len(r) : e = r[n]
    BY <1>2, <2>2
  <2> QED BY <1>2, <2>1, <2>3
<1>6. {r[n][2] : n \in DOMAIN r} = Pairings(ds, S)
  BY <1>4, <1>5
<1>7. \A m, n \in DOMAIN r : m < n => r[m][1] <= r[n][1]
  BY <1>1, <1>2 DEF Ascends
<1> QED BY <1>3, <1>4, <1>6, <1>7 DEF Ranks

\* where-am-i ranks the guesses.
LEMMA RankGuessesRanks ==
    ASSUME NEW ds \in Seq(Distance), NEW ss \in Seq(Star), IsInjective(ss),
           NEW rate \in [Pairings(ds, ToSet(ss)) -> Ratings], RankGuesses(ds, ss, rate)
    PROVE  Ranks(ranked', ds, ToSet(ss), rate)
<1> DEFINE g == AllGuesses[<<ds, ss>>]
           S == ToSet(ss)
           list == [n \in 1..Len(g) |-> <<rate[g[n]], g[n]>>]
           r == Quicksort[list]
<1>1. g \in Seq(Guess) /\ ToSet(g) = Pairings(ds, S) /\ IsInjective(g)
  BY AllGuessesMade DEF Guesses
<1>2. ranked' = r
  BY Zenon DEF RankGuesses
<1> HIDE DEF g, S
<1>3. rate \in [ToSet(g) -> Ratings]
  BY <1>1 DEF S
<1>4. /\ list \in Seq(Rated) /\ Len(list) = Len(g)
      /\ \A e : e \in ToSet(list) <=> \E p \in ToSet(g) : e = <<rate[p], p>>
  <2>1. RatedList(list, g, rate)
    BY Zenon DEF RatedList
  <2> HIDE DEF list
  <2> QED BY <1>1, <1>3, <2>1, RatedGuesses
<1> HIDE DEF list
<1>5. SortsTo(list, r)
  BY <1>4, QuicksortSorts
<1> HIDE DEF r
<1>6. Ranks(r, ds, S, rate)
  BY <1>1, <1>3, <1>4, <1>5, SortedRanks
<1> QED BY <1>2, <1>6 DEF S

-----------------------------------------------------------------------------
\* The answer has every pairing of the distances with stars once, with its
\* rating and the best first, for any stars, distances and ratings, those that
\* are the same included (all-guesses, remove, partition and quicksort, which
\* are recursive and always come to an end).
THEOREM GuessesAreRanked == WhereSpec => []GuessesRanked
<1>1. WhereInit => GuessesRanked
  BY DEF WhereInit, GuessesRanked
<1>2. GuessesRanked /\ [WhereNext]_whereVars => GuessesRanked'
  <2> SUFFICES ASSUME GuessesRanked, [WhereNext]_whereVars PROVE GuessesRanked'
    OBVIOUS
  <2>1. CASE UNCHANGED whereVars
    BY <2>1 DEF whereVars, GuessesRanked
  <2>2. CASE WhereNext
    <3>1. PICK ss \in SetToSeqs(Star), ds \in UNION {[1..n -> Distance] : n \in 1..MaxGuess} :
              \E rate \in [Pairings(ds, ToSet(ss)) -> Ratings] : RankGuesses(ds, ss, rate)
      BY <2>2, Zenon DEF WhereNext
    <3>2. PICK rate \in [Pairings(ds, ToSet(ss)) -> Ratings] : RankGuesses(ds, ss, rate)
      BY <3>1
    <3>3. ss \in Seq(Star) /\ IsInjective(ss)
      <4>1. Cardinality(Star) \in Nat
        BY StarsAssumption, FS_CardinalityType
      <4>2. /\ ss \in [1..Cardinality(Star) -> Star]
            /\ \A i, j \in 1..Cardinality(Star) : i # j => ss[i] # ss[j]
        BY DEF SetToSeqs
      <4>3. ss \in Seq(Star)
        BY <4>1, <4>2
      <4> QED BY <4>2, <4>3 DEF IsInjective
    <3>4. ds \in Seq(Distance)
      <4>1. PICK n \in 1..MaxGuess : ds \in [1..n -> Distance]
        OBVIOUS
      <4>2. n \in Nat
        BY StarsAssumption
      <4> QED BY <4>1, <4>2
    <3>5. Ranks(ranked', ds, ToSet(ss), rate)
      BY <3>2, <3>3, <3>4, RankGuessesRanks
    <3>6. distances' = ds /\ stars' = ss /\ rating' = rate
      BY <3>2, Zenon DEF RankGuesses
    <3> QED BY <3>5, <3>6 DEF Ranks, GuessesRanked
  <2> QED BY <2>1, <2>2
<1> QED BY <1>1, <1>2, PTL DEF WhereSpec
============================================================================
