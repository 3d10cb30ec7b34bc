-------------------------- MODULE ContainersProofs --------------------------
(***************************************************************************)
(* Theorems about the containers of assn-3-vector-hashset: a vector and    *)
(* its client, for any elements, order, allocations and number of calls,   *)
(* then the hash set and its client, for any hash function and number of   *)
(* buckets too.                                                            *)
(***************************************************************************)
EXTENDS VectorClient, HashSet, TLAPS, FiniteSetTheorems, SequenceTheorems,
        WellFoundedInduction

-----------------------------------------------------------------------------
(* The operations preserve a vector's form. *)

LEMMA NewWellFormed ==
    ASSUME NEW n \in Nat, NEW frees \in BOOLEAN
    PROVE  /\ WellFormed(NewVector(n, frees))
           /\ NewVector(n, frees).len = 0
           /\ NewVector(n, frees).frees = frees
<1> DEFINE a == IF n = 0 THEN DefaultAlloc ELSE n
<1>1. a \in Nat \ {0} BY DefaultAssumption
<1> HIDE DEF a
<1>2. NewVector(n, frees) = [mem |-> [i \in 0..(a - 1) |-> Blank], len |-> 0,
                             alloc |-> a, inc |-> a, frees |-> frees]
  BY DEF NewVector, a
<1>3. 1 \in 1..a /\ a = 1 * a BY <1>1
<1>4. 0..(0 - 1) = {} OBVIOUS
<1> QED BY <1>1, <1>2, <1>3, <1>4 DEF WellFormed

\* realloc adds room at the end and leaves the elements in use alone.
LEMMA GrownWellFormed ==
    ASSUME NEW v, WellFormed(v)
    PROVE  LET g == Grown(v) IN
           /\ WellFormed(g)
           /\ g.len = v.len /\ g.len < g.alloc
           /\ g.inc = v.inc /\ g.frees = v.frees
           /\ \A i \in 0..(v.len - 1) : g.mem[i] = v.mem[i]
<1> DEFINE a == v.alloc + v.inc
           m == [i \in 0..(v.alloc + v.inc - 1) |-> ReadAt(v.mem, i)]
<1> USE DEF WellFormed
<1>1. CASE v.alloc # v.len
  BY <1>1 DEF Grown
<1>2. CASE v.alloc = v.len
  <2>1. Grown(v) = [v EXCEPT !.alloc = @ + v.inc, !.mem = m]
    BY <1>2, Zenon DEF Grown
  <2>2. a \in Nat /\ a > v.alloc OBVIOUS
  <2>3. m \in [0..(a - 1) -> Elem \cup {Blank}] BY DEF ReadAt
  <2>4. \A i \in 0..(v.len - 1) : m[i] = v.mem[i]
    BY <1>2, <2>2 DEF ReadAt
  <2>5. \E k \in 1..a : a = k * v.inc
    <3>1. PICK k \in 1..v.alloc : v.alloc = k * v.inc OBVIOUS
    <3>2. k + 1 \in 1..a BY <2>2
    <3>3. (k + 1) * v.inc = k * v.inc + v.inc BY <3>1
    <3> QED BY <3>1, <3>2, <3>3
  <2> HIDE DEF m
  <2>6. /\ Grown(v).alloc = a /\ Grown(v).mem = m /\ Grown(v).len = v.len
        /\ Grown(v).inc = v.inc /\ Grown(v).frees = v.frees
    BY <2>1
  <2>7. Grown(v) = [mem |-> m, len |-> v.len, alloc |-> a, inc |-> v.inc, frees |-> v.frees]
    BY <2>1
  <2> HIDE DEF a
  <2>8. Grown(v) \in [mem : [0..(a - 1) -> Elem \cup {Blank}], len : 0..a,
                      alloc : Nat, inc : Nat \ {0}, frees : BOOLEAN]
    BY <2>2, <2>3, <2>7
  <2> QED BY <1>2, <2>2, <2>3, <2>4, <2>5, <2>6, <2>8
<1> QED BY <1>1, <1>2

\* v with another array and another length.
Rewritten(v, m, n) == [v EXCEPT !.mem = m, !.len = n]

\* An array of the same size, with elements at its first n places.
Fits(v, m, n) == /\ m \in [0..(v.alloc - 1) -> Elem \cup {Blank}]
                 /\ n \in 0..v.alloc
                 /\ \A i \in 0..(n - 1) : m[i] \in Elem

\* A well-formed vector whose array and length have changed is well-formed
\* if the array kept its size and holds elements where it is in use.
LEMMA RewrittenWellFormed ==
    ASSUME NEW v, NEW m, NEW n, WellFormed(v), Fits(v, m, n)
    PROVE  /\ WellFormed(Rewritten(v, m, n))
           /\ Rewritten(v, m, n).mem = m
           /\ Rewritten(v, m, n).len = n
           /\ Rewritten(v, m, n).frees = v.frees
<1> DEFINE w == Rewritten(v, m, n)
<1>1. /\ w.mem = m /\ w.len = n /\ w.frees = v.frees
      /\ w.alloc = v.alloc /\ w.inc = v.inc
  BY DEF WellFormed, Fits, Rewritten
<1>2. w \in [mem : [0..(v.alloc - 1) -> Elem \cup {Blank}], len : 0..v.alloc,
             alloc : Nat, inc : Nat \ {0}, frees : BOOLEAN]
  BY DEF WellFormed, Fits, Rewritten
<1>3. \E k \in 1..v.alloc : v.alloc = k * v.inc BY DEF WellFormed
<1> HIDE DEF w
<1>4. WellFormed(w) BY <1>1, <1>2, <1>3 DEF WellFormed, Fits
<1> QED BY <1>1, <1>4 DEF w

LEMMA InsertedElements ==
    ASSUME NEW v, WellFormed(v), NEW e \in Elem, NEW p \in 0..v.len
    PROVE  LET w == Inserted(v, e, p) IN
           /\ WellFormed(w)
           /\ w.len = v.len + 1 /\ w.frees = v.frees
           /\ \A i \in 0..v.len :
                 w.mem[i] = IF i < p THEN v.mem[i]
                            ELSE IF i = p THEN e ELSE v.mem[i - 1]
<1> DEFINE g == Grown(v)
           s == Moved(g.mem, p + 1, p, g.len - p)
           m == [s EXCEPT ![p] = e]
<1>1. /\ WellFormed(g)
      /\ g.len = v.len /\ g.len < g.alloc
      /\ g.frees = v.frees
      /\ \A i \in 0..(v.len - 1) : g.mem[i] = v.mem[i]
  BY GrownWellFormed
<1> HIDE DEF g
<1>2. v.len \in Nat BY DEF WellFormed
<1>3. /\ g.mem \in [0..(g.alloc - 1) -> Elem \cup {Blank}]
      /\ g.alloc \in Nat
  BY <1>1 DEF WellFormed
<1>4. s = [i \in 0..(g.alloc - 1) |->
              IF i \in (p + 1)..v.len THEN ReadAt(g.mem, i - 1) ELSE g.mem[i]]
  <2>1. \A i \in Int : p + (i - (p + 1)) = i - 1 BY <1>2
  <2>2. (p + 1) + ((g.len - p) - 1) = v.len BY <1>1, <1>2
  <2>3. DOMAIN g.mem = 0..(g.alloc - 1) BY <1>3
  <2> QED BY <2>1, <2>2, <2>3, <1>3 DEF Moved
<1>5. \A i \in (p + 1)..v.len : ReadAt(g.mem, i - 1) = g.mem[i - 1]
  BY <1>1, <1>2, <1>3 DEF ReadAt
<1>6. s \in [0..(g.alloc - 1) -> Elem \cup {Blank}]
  <2>1. ASSUME NEW i \in 0..(g.alloc - 1)
        PROVE  s[i] \in Elem \cup {Blank}
    <3>1. CASE i \in (p + 1)..v.len
      <4>1. s[i] = g.mem[i - 1] BY <3>1, <1>4, <1>5
      <4>2. i - 1 \in 0..(g.alloc - 1) BY <3>1, <1>1, <1>2, <1>3
      <4> QED BY <4>1, <4>2, <1>3
    <3>2. CASE i \notin (p + 1)..v.len
      <4>1. s[i] = g.mem[i] BY <3>2, <1>4
      <4> QED BY <4>1, <1>3
    <3> QED BY <3>1, <3>2
  <2> QED BY <2>1, <1>4
<1>7. m \in [0..(g.alloc - 1) -> Elem \cup {Blank}] BY <1>6
<1> HIDE DEF s
<1>8. ASSUME NEW i \in 0..v.len
      PROVE  m[i] = IF i < p THEN v.mem[i] ELSE IF i = p THEN e ELSE v.mem[i - 1]
  <2>1. i \in 0..(g.alloc - 1) BY <1>1, <1>2, <1>3
  <2>2. CASE i < p
    <3>1. i \notin (p + 1)..v.len /\ i # p /\ i \in 0..(v.len - 1) BY <2>2, <1>2
    <3>2. s[i] = v.mem[i] BY <2>1, <3>1, <1>1, <1>4
    <3>3. m[i] = s[i] BY <2>1, <3>1, <1>6
    <3> QED BY <2>2, <3>2, <3>3
  <2>3. CASE i = p
    <3>1. m[i] = e BY <2>1, <2>3, <1>6
    <3> QED BY <2>3, <3>1, <1>2
  <2>4. CASE i > p
    <3>1. i \in (p + 1)..v.len /\ i # p /\ i - 1 \in 0..(v.len - 1) BY <2>4, <1>2
    <3>2. s[i] = v.mem[i - 1] BY <2>1, <3>1, <1>1, <1>4, <1>5
    <3>3. m[i] = s[i] BY <2>1, <3>1, <1>6
    <3> QED BY <2>4, <3>2, <3>3, <1>2
  <2>5. i < p \/ i = p \/ i > p BY <1>2
  <2> QED BY <2>2, <2>3, <2>4, <2>5, Zenon
<1>9. \A i \in 0..v.len : m[i] \in Elem
  <2>1. \A i \in 0..(v.len - 1) : v.mem[i] \in Elem BY DEF WellFormed
  <2> QED BY <2>1, <1>2, <1>8
<1>10. Inserted(v, e, p) = Rewritten(g, m, v.len + 1)
  <2> HIDE DEF s
  <2>1. Shifted(g, p, 1) = [g EXCEPT !.mem = s, !.len = g.len + 1] BY DEF Shifted, s
  <2>2. [Shifted(g, p, 1) EXCEPT !.mem[p] = e] = [g EXCEPT !.mem = m, !.len = g.len + 1]
    BY <2>1, <1>1 DEF WellFormed
  <2> QED BY <2>2, <1>1 DEF Inserted, Rewritten, g
<1> HIDE DEF m
<1>11. v.len + 1 \in 0..g.alloc BY <1>1, <1>2, <1>3
<1>12. \A i \in 0..((v.len + 1) - 1) : m[i] \in Elem BY <1>2, <1>9
<1>13. Fits(g, m, v.len + 1) BY <1>7, <1>11, <1>12 DEF Fits
<1> QED BY <1>1, <1>8, <1>10, <1>13, RewrittenWellFormed

LEMMA ReplacedElements ==
    ASSUME NEW v, WellFormed(v), NEW e \in Elem, NEW p \in 0..(v.len - 1)
    PROVE  LET w == Replaced(v, e, p) IN
           /\ WellFormed(w)
           /\ w.len = v.len /\ w.frees = v.frees
           /\ \A i \in 0..(v.len - 1) : w.mem[i] = IF i = p THEN e ELSE v.mem[i]
<1> DEFINE m == [v.mem EXCEPT ![p] = e]
<1>1. /\ m \in [0..(v.alloc - 1) -> Elem \cup {Blank}]
      /\ v.len \in 0..v.alloc
      /\ v.len \in Nat
  BY DEF WellFormed
<1>2. \A i \in 0..(v.len - 1) : m[i] = IF i = p THEN e ELSE v.mem[i]
  BY DEF WellFormed
<1>3. \A i \in 0..(v.len - 1) : m[i] \in Elem BY <1>2 DEF WellFormed
<1>4. Replaced(v, e, p) = Rewritten(v, m, v.len)
  BY DEF Replaced, Rewritten, WellFormed
<1> HIDE DEF m
<1>5. Fits(v, m, v.len) BY <1>1, <1>3 DEF Fits
<1> QED BY <1>2, <1>4, <1>5, RewrittenWellFormed

LEMMA DeletedElements ==
    ASSUME NEW v, WellFormed(v), NEW p \in 0..(v.len - 1)
    PROVE  LET w == Deleted(v, p) IN
           /\ WellFormed(w)
           /\ w.len = v.len - 1 /\ w.frees = v.frees
           /\ \A i \in 0..(v.len - 2) :
                 w.mem[i] = IF i < p THEN v.mem[i] ELSE v.mem[i + 1]
<1> DEFINE m == Moved(v.mem, p, p + 1, v.len - (p + 1))
<1>1. /\ v.mem \in [0..(v.alloc - 1) -> Elem \cup {Blank}]
      /\ v.alloc \in Nat /\ v.len \in Nat /\ v.len <= v.alloc
      /\ p \in Nat /\ p < v.len
      /\ \A i \in 0..(v.len - 1) : v.mem[i] \in Elem
  BY DEF WellFormed
<1>2. m = [i \in 0..(v.alloc - 1) |->
              IF i \in p..(v.len - 2) THEN ReadAt(v.mem, i + 1) ELSE v.mem[i]]
  <2>1. \A i \in Int : (p + 1) + (i - p) = i + 1 BY <1>1
  <2>2. \A n \in Nat : p + ((n - (p + 1)) - 1) = n - 2 BY <1>1
  <2>3. DOMAIN v.mem = 0..(v.alloc - 1) BY <1>1
  <2> QED BY <2>1, <2>2, <2>3, <1>1 DEF Moved
<1>3. \A i \in p..(v.len - 2) : ReadAt(v.mem, i + 1) = v.mem[i + 1]
  BY <1>1 DEF ReadAt
<1>4. m \in [0..(v.alloc - 1) -> Elem \cup {Blank}]
  <2>1. ASSUME NEW i \in 0..(v.alloc - 1)
        PROVE  m[i] \in Elem \cup {Blank}
    <3>1. CASE i \in p..(v.len - 2)
      <4>1. m[i] = v.mem[i + 1] BY <3>1, <1>2, <1>3
      <4>2. i + 1 \in 0..(v.alloc - 1) BY <3>1, <1>1
      <4> QED BY <4>1, <4>2, <1>1
    <3>2. CASE i \notin p..(v.len - 2)
      BY <3>2, <1>1, <1>2
    <3> QED BY <3>1, <3>2
  <2> QED BY <2>1, <1>2
<1>5. ASSUME NEW i \in 0..(v.len - 2)
      PROVE  m[i] = IF i < p THEN v.mem[i] ELSE v.mem[i + 1]
  BY <1>1, <1>2, <1>3
<1>6. \A i \in 0..((v.len - 1) - 1) : m[i] \in Elem
  <2> HIDE DEF m
  <2>1. (v.len - 1) - 1 = v.len - 2 BY <1>1
  <2>2. \A i \in 0..(v.len - 2) : i \in 0..(v.len - 1) /\ i + 1 \in 0..(v.len - 1)
    BY <1>1
  <2> QED BY <2>1, <2>2, <1>1, <1>5
<1>7. Deleted(v, p) = Rewritten(v, m, v.len - 1)
  <2>1. (p + 1) + (-1) = p /\ v.len + (-1) = v.len - 1 BY <1>1
  <2> QED BY <2>1 DEF Deleted, Shifted, Rewritten, WellFormed
<1> HIDE DEF m
<1>8. v.len - 1 \in 0..v.alloc BY <1>1
<1>9. Fits(v, m, v.len - 1) BY <1>4, <1>6, <1>8 DEF Fits
<1> QED BY <1>5, <1>7, <1>9, RewrittenWellFormed

\* Sorting permutes the elements.
LEMMA SortedElements ==
    ASSUME NEW v, WellFormed(v), NEW w \in SortedArrays(v)
    PROVE  /\ WellFormed(w)
           /\ w.len = v.len /\ w.frees = v.frees
           /\ SortedFrom(w, 0)
           /\ \E f \in Bijection(0..(v.len - 1), 0..(v.len - 1)) :
                 \A i \in 0..(v.len - 1) : w.mem[i] = v.mem[f[i]]
<1> DEFINE used == 0..(v.len - 1)
           m(f) == [i \in DOMAIN v.mem |-> IF i \in used THEN v.mem[f[i]] ELSE v.mem[i]]
<1>1. PICK f \in Bijection(used, used) :
         /\ w = [v EXCEPT !.mem = m(f)]
         /\ SortedFrom(w, 0)
  BY DEF SortedArrays
<1>2. f \in [used -> used] BY DEF Bijection, Injection
<1>3. /\ v.mem \in [0..(v.alloc - 1) -> Elem \cup {Blank}]
      /\ v.alloc \in Nat /\ v.len \in 0..v.alloc
      /\ \A i \in used : v.mem[i] \in Elem
  BY DEF WellFormed
<1>4. /\ m(f) \in [0..(v.alloc - 1) -> Elem \cup {Blank}]
      /\ \A i \in used : m(f)[i] = v.mem[f[i]] /\ m(f)[i] \in Elem
  BY <1>2, <1>3
<1>5. w = Rewritten(v, m(f), v.len) BY <1>1 DEF Rewritten, WellFormed
<1> HIDE DEF m
<1>6. WellFormed(w) /\ w.mem = m(f) /\ w.len = v.len /\ w.frees = v.frees
  <2>1. Fits(v, m(f), v.len) BY <1>3, <1>4 DEF Fits
  <2> QED BY <2>1, <1>5, RewrittenWellFormed
<1> QED BY <1>1, <1>4, <1>6

-----------------------------------------------------------------------------
(***************************************************************************)
(* Induction and recursion.                                                *)
(***************************************************************************)
\* A set of natural numbers has a least one.
LEMMA LeastNumber ==
    ASSUME NEW T, T \subseteq Nat, T # {}
    PROVE  \E n \in T : \A m \in T : n <= m
<1> DEFINE R == OpToRel(<, Nat)
<1>1. IsWellFoundedOn(R, Nat)
  BY NatLessThanWellFounded
<1>2. \A m, n \in Nat : m < n => <<m, n>> \in R
  BY DEF OpToRel
<1> HIDE DEF R
<1>3. \E n \in T : \A m \in T : ~ (<<m, n>> \in R)
  BY <1>1, WFMin
<1>4. PICK n \in T : \A m \in T : ~ (m < n)
  BY <1>2, <1>3, Zenon
<1> QED BY <1>4

\* So a set that has each number of which it has all smaller ones has all.
LEMMA AllNumbers ==
    ASSUME NEW T, \A n \in Nat : (\A m \in Nat : m < n => m \in T) => n \in T
    PROVE  Nat \subseteq T
<1> SUFFICES ASSUME NEW n \in Nat, n \notin T PROVE FALSE
  OBVIOUS
<1> DEFINE B == {m \in Nat : m \notin T}
<1>1. PICK k \in B : \A m \in B : k <= m
  BY LeastNumber
<1>2. \A m \in Nat : m < k => m \in T
  BY <1>1
<1> QED BY <1>1, <1>2

\* The numbers have predecessors.
LEMMA Numbers ==
    /\ \A n \in Nat : n # 0 => n - 1 \in Nat /\ n - 1 < n /\ (n - 1) + 1 = n
    /\ \A m, k \in Nat : m < k + 1 => m < k \/ m = k
OBVIOUS

\* A rule (Step) that gives the value of a function from X to V at x from its
\* values at what is below x in a measure that is bounded by N.
Recursive(X, V, M, N, Step) ==
    /\ V # {}
    /\ M \in [X -> Nat] /\ N \in Nat /\ \A x \in X : M[x] < N
    /\ Step \in [[X -> V] \X X -> V]
    /\ \A x \in X : \A g, h \in [X -> V] :
          (\A y \in X : M[y] < M[x] => g[y] = h[y]) => Step[<<g, x>>] = Step[<<h, x>>]

\* There is a function that follows such a rule.
LEMMA RecursiveFunction ==
    ASSUME NEW X, NEW V, NEW M, NEW N, NEW Step, Recursive(X, V, M, N, Step)
    PROVE  \E g \in [X -> V] : \A x \in X : g[x] = Step[<<g, x>>]
<1> USE DEF Recursive
<1> PICK v0 \in V : TRUE
  OBVIOUS
<1> DEFINE Right(g, k) == \A x \in X : M[x] < k => g[x] = Step[<<g, x>>]
           T == {k \in Nat : \E g \in [X -> V] : Right(g, k)}
<1>1. 0 \in T
  <2> DEFINE c == [x \in X |-> v0]
  <2>1. c \in [X -> V]
    OBVIOUS
  <2>2. \A x \in X : ~(M[x] < 0)
    OBVIOUS
  <2> QED BY <2>1, <2>2
<1>2. ASSUME NEW k \in Nat, k \in T PROVE k + 1 \in T
  <2>1. PICK g \in [X -> V] : Right(g, k)
    BY <1>2
  <2> DEFINE h == [x \in X |-> IF M[x] = k THEN Step[<<g, x>>] ELSE g[x]]
  <2>2. h \in [X -> V]
    OBVIOUS
  <2>3. \A x \in X : M[x] < k => h[x] = g[x]
    OBVIOUS
  <2>4. \A x \in X : M[x] = k => h[x] = Step[<<g, x>>]
    OBVIOUS
  <2> HIDE DEF h
  <2>5. ASSUME NEW x \in X, M[x] < k + 1 PROVE h[x] = Step[<<h, x>>]
    <3>1. M[x] \in Nat /\ \A y \in X : M[y] \in Nat
      OBVIOUS
    <3>2. \A y \in X : M[y] < M[x] => g[y] = h[y]
      BY <2>3, <2>5, <3>1
    <3>3. Step[<<g, x>>] = Step[<<h, x>>]
      BY <2>2, <3>2
    <3>4. CASE M[x] < k
      BY <2>1, <2>3, <3>3, <3>4
    <3>5. CASE M[x] = k
      BY <2>4, <3>3, <3>5
    <3>6. M[x] < k \/ M[x] = k
      BY <2>5, <3>1, Numbers, Zenon
    <3> QED BY <3>4, <3>5, <3>6, Zenon
  <2> QED BY <2>2, <2>5
<1> HIDE DEF T, Right
<1>3. ASSUME NEW n \in Nat, \A m \in Nat : m < n => m \in T PROVE n \in T
  <2>1. CASE n = 0
    BY <1>1, <2>1
  <2>2. CASE n # 0
    <3>1. n - 1 \in Nat /\ n - 1 < n /\ (n - 1) + 1 = n
      BY <2>2, Numbers, Zenon
    <3>2. n - 1 \in T
      BY <1>3, <3>1
    <3>3. (n - 1) + 1 \in T
      BY <1>2, <3>1, <3>2, Zenon
    <3> QED BY <3>1, <3>3
  <2> QED BY <2>1, <2>2
<1>4. N \in T
  <2>1. Nat \subseteq T
    BY <1>3, AllNumbers, Zenon
  <2> QED BY <2>1
<1> QED BY <1>4 DEF T, Right

-----------------------------------------------------------------------------
(* The binary searches.                                                     *)

\* What a binary search of v for e answers, by what it answers for smaller
\* areas; miss[l] is its answer for an empty area at l.
Narrowed(v, e, miss, at, a) ==
    LET l   == a[1]
        u   == a[2]
        mid == (l + u) \div 2
    IN  IF l >= u THEN miss[l]
        ELSE IF Rank[e] = Rank[v.mem[mid]] THEN mid
        ELSE IF Rank[e] < Rank[v.mem[mid]] THEN at[<<l, mid>>]
        ELSE at[<<mid + 1, u>>]

LEMMA MiddleInside ==
    ASSUME NEW l \in Nat, NEW u \in Nat, l < u
    PROVE  /\ (l + u) \div 2 \in l..(u - 1)
           /\ l + (u - l) \div 2 = (l + u) \div 2
OBVIOUS

LEMMA SearchExists ==
    ASSUME NEW v, NEW e, v.len \in Nat, NEW start \in 0..v.len, NEW miss \in [0..v.len -> Int]
    PROVE  \E g \in [Areas(v, start) -> Int] :
              g = [a \in Areas(v, start) |-> Narrowed(v, e, miss, g, a)]
<1> DEFINE X == Areas(v, start)
           M == [a \in X |-> IF a[1] < a[2] THEN a[2] - a[1] ELSE 0]
           Step == [p \in [X -> Int] \X X |-> Narrowed(v, e, miss, p[1], p[2])]
<1>1. ASSUME NEW a \in X
      PROVE  /\ a = <<a[1], a[2]>> /\ a[1] \in start..v.len /\ a[2] \in start..v.len
             /\ a[1] \in Nat /\ a[2] \in Nat
             /\ M[a] \in Nat /\ M[a] < v.len + 1
             /\ a[1] < a[2] => M[a] = a[2] - a[1]
  BY DEF Areas
<1>2. ASSUME NEW a \in X, a[1] < a[2]
      PROVE  LET mid == (a[1] + a[2]) \div 2
             IN  /\ mid \in Int
                 /\ <<a[1], mid>> \in X /\ M[<<a[1], mid>>] < M[a]
                 /\ <<mid + 1, a[2]>> \in X /\ M[<<mid + 1, a[2]>>] < M[a]
  <2> DEFINE mid == (a[1] + a[2]) \div 2
  <2>1. mid \in a[1]..(a[2] - 1)
    BY <1>1, <1>2, MiddleInside
  <2> HIDE DEF mid
  <2>2. mid \in start..v.len /\ mid + 1 \in start..v.len
    BY <1>1, <2>1
  <2>3. <<a[1], mid>> \in X /\ <<mid + 1, a[2]>> \in X
    BY <1>1, <2>2 DEF Areas
  <2>4. /\ M[<<a[1], mid>>] = IF a[1] < mid THEN mid - a[1] ELSE 0
        /\ M[<<mid + 1, a[2]>>] = IF mid + 1 < a[2] THEN a[2] - (mid + 1) ELSE 0
    BY <2>3
  <2>5. M[a] = a[2] - a[1]
    BY <1>1, <1>2
  <2> HIDE DEF M
  <2>6. M[<<a[1], mid>>] < M[a] /\ M[<<mid + 1, a[2]>>] < M[a]
    BY <1>1, <1>2, <2>1, <2>4, <2>5
  <2> QED BY <1>1, <2>1, <2>3, <2>6 DEF mid
<1>3. M \in [X -> Nat] /\ v.len + 1 \in Nat /\ \A a \in X : M[a] < v.len + 1
  BY <1>1
<1> HIDE DEF M, X
<1>4. ASSUME NEW g \in [X -> Int], NEW a \in X
      PROVE  Narrowed(v, e, miss, g, a) \in Int
  BY <1>1, <1>2 DEF Narrowed
<1>5. Step \in [[X -> Int] \X X -> Int]
  BY <1>4
<1>6. ASSUME NEW a \in X, NEW g \in [X -> Int], NEW h \in [X -> Int],
             \A b \in X : M[b] < M[a] => g[b] = h[b]
      PROVE  Step[<<g, a>>] = Step[<<h, a>>]
  <2>1. Narrowed(v, e, miss, g, a) = Narrowed(v, e, miss, h, a)
    BY <1>1, <1>2, <1>6 DEF Narrowed
  <2> QED BY <2>1
<1>7. \A g \in [X -> Int], a \in X : Step[<<g, a>>] = Narrowed(v, e, miss, g, a)
  OBVIOUS
<1> HIDE DEF Step
<1>8. \E g \in [X -> Int] : \A a \in X : g[a] = Step[<<g, a>>]
  <2>1. 0 \in Int /\ \A a \in X : M[a] < v.len + 1
    BY <1>3
  <2>2. \A a \in X : \A g, h \in [X -> Int] :
           (\A b \in X : M[b] < M[a] => g[b] = h[b]) => Step[<<g, a>>] = Step[<<h, a>>]
    BY <1>6
  <2>3. Recursive(X, Int, M, v.len + 1, Step)
    BY <1>3, <1>5, <2>1, <2>2 DEF Recursive
  <2> QED BY <2>3, RecursiveFunction
<1>9. PICK g \in [X -> Int] : \A a \in X : g[a] = Narrowed(v, e, miss, g, a)
  BY <1>7, <1>8
<1>10. g = [a \in X |-> Narrowed(v, e, miss, g, a)]
  BY <1>9
<1> QED BY <1>10 DEF X

\* p answers a search for e in the area from l to before u: it is the place of
\* an equal element, or the miss at the place where such an element belongs.
Answers(v, e, miss, l, u, p) ==
    \/ p \in l..(u - 1) /\ Rank[v.mem[p]] = Rank[e]
    \/ \E k \in l..u :
          /\ p = miss[k]
          /\ \A i \in l..(k - 1) : Rank[v.mem[i]] < Rank[e]
          /\ \A i \in k..(u - 1) : Rank[e] < Rank[v.mem[i]]

LEMMA AnswersBelow ==
    ASSUME NEW v, WellFormed(v), NEW start \in 0..v.len, SortedFrom(v, start), NEW e \in Elem,
           NEW miss, NEW l \in start..v.len, NEW u \in start..v.len, NEW m \in l..(u - 1),
           Rank[e] < Rank[v.mem[m]], NEW p, Answers(v, e, miss, l, m, p)
    PROVE  Answers(v, e, miss, l, u, p)
<1>1. /\ v.len \in Nat /\ start \in Nat /\ l \in Nat /\ u \in Nat /\ m \in Nat
      /\ start <= l /\ l <= m /\ m < u /\ u <= v.len
  BY DEF WellFormed
<1>2. \A i \in 0..(v.len - 1) : Rank[v.mem[i]] \in Nat
  BY ElemAssumption DEF WellFormed
<1>3. Rank[e] \in Nat
  BY ElemAssumption
<1>4. \A i \in m..(u - 1) : Rank[e] < Rank[v.mem[i]]
  <2> SUFFICES ASSUME NEW i \in m..(u - 1) PROVE Rank[e] < Rank[v.mem[i]]
    OBVIOUS
  <2>1. m \in start..(v.len - 1) /\ i \in start..(v.len - 1) /\ (m < i \/ m = i)
    BY <1>1
  <2>2. Rank[v.mem[m]] <= Rank[v.mem[i]]
    BY <1>1, <1>2, <2>1 DEF SortedFrom
  <2>3. Rank[v.mem[m]] \in Nat /\ Rank[v.mem[i]] \in Nat
    BY <1>1, <1>2, <2>1
  <2> QED BY <1>3, <2>2, <2>3
<1>5. CASE p \in l..(m - 1) /\ Rank[v.mem[p]] = Rank[e]
  BY <1>1, <1>5 DEF Answers
<1>6. ASSUME NEW k \in l..m, p = miss[k],
             \A i \in l..(k - 1) : Rank[v.mem[i]] < Rank[e],
             \A i \in k..(m - 1) : Rank[e] < Rank[v.mem[i]]
      PROVE  Answers(v, e, miss, l, u, p)
  <2>1. k \in l..u
    BY <1>1
  <2>2. \A i \in k..(u - 1) : i \in k..(m - 1) \/ i \in m..(u - 1)
    BY <1>1
  <2>3. \A i \in k..(u - 1) : Rank[e] < Rank[v.mem[i]]
    BY <1>4, <1>6, <2>2
  <2> QED BY <1>6, <2>1, <2>3 DEF Answers
<1> QED BY <1>5, <1>6 DEF Answers

LEMMA AnswersAbove ==
    ASSUME NEW v, WellFormed(v), NEW start \in 0..v.len, SortedFrom(v, start), NEW e \in Elem,
           NEW miss, NEW l \in start..v.len, NEW u \in start..v.len, NEW m \in l..(u - 1),
           Rank[v.mem[m]] < Rank[e], NEW p, Answers(v, e, miss, m + 1, u, p)
    PROVE  Answers(v, e, miss, l, u, p)
<1>1. /\ v.len \in Nat /\ start \in Nat /\ l \in Nat /\ u \in Nat /\ m \in Nat
      /\ start <= l /\ l <= m /\ m < u /\ u <= v.len
  BY DEF WellFormed
<1>2. \A i \in 0..(v.len - 1) : Rank[v.mem[i]] \in Nat
  BY ElemAssumption DEF WellFormed
<1>3. Rank[e] \in Nat
  BY ElemAssumption
<1>4. \A i \in l..m : Rank[v.mem[i]] < Rank[e]
  <2> SUFFICES ASSUME NEW i \in l..m PROVE Rank[v.mem[i]] < Rank[e]
    OBVIOUS
  <2>1. m \in start..(v.len - 1) /\ i \in start..(v.len - 1) /\ (i < m \/ m = i)
    BY <1>1
  <2>2. Rank[v.mem[i]] <= Rank[v.mem[m]]
    BY <1>1, <1>2, <2>1 DEF SortedFrom
  <2>3. Rank[v.mem[m]] \in Nat /\ Rank[v.mem[i]] \in Nat
    BY <1>1, <1>2, <2>1
  <2> QED BY <1>3, <2>2, <2>3
<1>5. CASE p \in (m + 1)..(u - 1) /\ Rank[v.mem[p]] = Rank[e]
  BY <1>1, <1>5 DEF Answers
<1>6. ASSUME NEW k \in (m + 1)..u, p = miss[k],
             \A i \in (m + 1)..(k - 1) : Rank[v.mem[i]] < Rank[e],
             \A i \in k..(u - 1) : Rank[e] < Rank[v.mem[i]]
      PROVE  Answers(v, e, miss, l, u, p)
  <2>1. k \in l..u
    BY <1>1
  <2>2. \A i \in l..(k - 1) : i \in l..m \/ i \in (m + 1)..(k - 1)
    BY <1>1
  <2>3. \A i \in l..(k - 1) : Rank[v.mem[i]] < Rank[e]
    BY <1>4, <1>6, <2>2
  <2> QED BY <1>6, <2>1, <2>3 DEF Answers
<1> QED BY <1>5, <1>6 DEF Answers

\* A function that narrows its areas answers.
LEMMA NarrowingAnswers ==
    ASSUME NEW v, WellFormed(v), NEW start \in 0..v.len, SortedFrom(v, start), NEW e \in Elem,
           NEW miss, NEW at,
           \A a \in Areas(v, start) : at[a] = Narrowed(v, e, miss, at, a)
    PROVE  \A l, u \in start..v.len : l <= u => Answers(v, e, miss, l, u, at[<<l, u>>])
<1> DEFINE T == {n \in Nat : \A l, u \in start..v.len :
                                 l <= u /\ u - l = n => Answers(v, e, miss, l, u, at[<<l, u>>])}
<1>1. ASSUME NEW n \in Nat, \A m \in Nat : m < n => m \in T,
             NEW l \in start..v.len, NEW u \in start..v.len, l <= u, u - l = n
      PROVE  Answers(v, e, miss, l, u, at[<<l, u>>])
  <2> DEFINE mid == (l + u) \div 2
  <2>1. /\ v.len \in Nat /\ start \in Nat /\ l \in Nat /\ u \in Nat /\ l >= start /\ u <= v.len
        /\ \A i \in 0..(v.len - 1) : Rank[v.mem[i]] \in Nat
        /\ Rank[e] \in Nat
    BY ElemAssumption DEF WellFormed
  <2>2. <<l, u>> \in Areas(v, start) /\ <<l, u>>[1] = l /\ <<l, u>>[2] = u
    BY DEF Areas
  <2>3. at[<<l, u>>] = IF l >= u THEN miss[l]
                       ELSE IF Rank[e] = Rank[v.mem[mid]] THEN mid
                       ELSE IF Rank[e] < Rank[v.mem[mid]] THEN at[<<l, mid>>]
                       ELSE at[<<mid + 1, u>>]
    BY <2>2 DEF Narrowed
  <2>4. CASE l = u
    <3>1. at[<<l, u>>] = miss[l] /\ l \in l..u /\ l..(l - 1) = {} /\ l..(u - 1) = {}
      BY <2>1, <2>3, <2>4
    <3> QED BY <3>1 DEF Answers
  <2>5. CASE l < u
    <3>1. mid \in l..(u - 1)
      BY <2>1, <2>5, MiddleInside
    <3>2. ~(l >= u)
      BY <2>1, <2>5
    <3> HIDE DEF mid
    <3>3. /\ mid \in start..v.len /\ mid + 1 \in start..v.len /\ mid \in 0..(v.len - 1)
          /\ l <= mid /\ mid + 1 <= u
          /\ mid - l \in Nat /\ mid - l < n /\ u - (mid + 1) \in Nat /\ u - (mid + 1) < n
      BY <1>1, <2>1, <3>1
    <3>4. Rank[v.mem[mid]] \in Nat
      BY <2>1, <3>3
    <3>5. CASE Rank[e] = Rank[v.mem[mid]]
      BY <2>3, <3>1, <3>2, <3>5 DEF Answers
    <3>6. CASE Rank[e] < Rank[v.mem[mid]]
      <4>1. at[<<l, u>>] = at[<<l, mid>>]
        BY <2>1, <2>3, <3>2, <3>4, <3>6
      <4>2. mid - l \in T
        BY <1>1, <3>3
      <4>3. Answers(v, e, miss, l, mid, at[<<l, mid>>])
        BY <3>3, <4>2
      <4> QED BY <3>1, <3>6, <4>1, <4>3, AnswersBelow
    <3>7. CASE Rank[v.mem[mid]] < Rank[e]
      <4>1. at[<<l, u>>] = at[<<mid + 1, u>>]
        BY <2>1, <2>3, <3>2, <3>4, <3>7
      <4>2. u - (mid + 1) \in T
        BY <1>1, <3>3
      <4>3. Answers(v, e, miss, mid + 1, u, at[<<mid + 1, u>>])
        BY <3>3, <4>2
      <4> QED BY <3>1, <3>7, <4>1, <4>3, AnswersAbove
    <3> QED BY <2>1, <3>4, <3>5, <3>6, <3>7
  <2> QED BY <1>1, <2>1, <2>4, <2>5
<1>2. \A n \in Nat : (\A m \in Nat : m < n => m \in T) => n \in T
  BY <1>1
<1> HIDE DEF T
<1>3. Nat \subseteq T
  BY <1>2, AllNumbers
<1>4. \A l, u \in start..v.len : l <= u => u - l \in Nat
  BY DEF WellFormed
<1> QED BY <1>3, <1>4 DEF T

-----------------------------------------------------------------------------
\* bsearch1 finds the place of an equal element or the place for a new one.
LEMMA InsertionPointAnswers ==
    ASSUME NEW v, WellFormed(v), SortedFrom(v, 0), NEW e \in Elem
    PROVE  Answers(v, e, [l \in 0..v.len |-> l], 0, v.len, InsertionPoint(v, e))
<1> DEFINE miss == [l \in 0..v.len |-> l]
           X == Areas(v, 0)
           at[area \in Areas(v, 0)] ==
              LET base == area[1]
                  end  == area[2]
                  mid  == base + (end - base) \div 2
              IN  IF base >= end THEN base
                  ELSE IF Rank[e] = Rank[v.mem[mid]] THEN mid
                  ELSE IF Rank[e] < Rank[v.mem[mid]] THEN at[<<base, mid>>]
                  ELSE at[<<mid + 1, end>>]
           Body(g, area) ==
              LET base == area[1]
                  end  == area[2]
                  mid  == base + (end - base) \div 2
              IN  IF base >= end THEN base
                  ELSE IF Rank[e] = Rank[v.mem[mid]] THEN mid
                  ELSE IF Rank[e] < Rank[v.mem[mid]] THEN g[<<base, mid>>]
                  ELSE g[<<mid + 1, end>>]
<1>1. InsertionPoint(v, e) = at[<<0, v.len>>]
  BY DEF InsertionPoint
<1>2. v.len \in Nat /\ 0 \in 0..v.len /\ v.len \in 0..v.len /\ miss \in [0..v.len -> Int]
  BY DEF WellFormed
<1>3. ASSUME NEW g, NEW a \in X PROVE Body(g, a) = Narrowed(v, e, miss, g, a)
  <2>1. a[1] \in 0..v.len /\ a[2] \in 0..v.len /\ a[1] \in Nat /\ a[2] \in Nat
    BY <1>2 DEF Areas
  <2>2. a[1] + (a[2] - a[1]) \div 2 = (a[1] + a[2]) \div 2
    BY <2>1
  <2>3. miss[a[1]] = a[1]
    BY <2>1
  <2> QED BY <2>2, <2>3 DEF Narrowed
<1>4. PICK g : g = [a \in X |-> Narrowed(v, e, miss, g, a)]
  <2> HIDE DEF miss
  <2>1. \E g \in [X -> Int] : g = [a \in X |-> Narrowed(v, e, miss, g, a)]
    BY <1>2, SearchExists
  <2> QED BY <2>1
<1>5. g = [a \in X |-> Body(g, a)]
  BY <1>3, <1>4
<1>6. at = [a \in X |-> Body(at, a)]
  BY <1>5
<1> HIDE DEF at, Body
<1>7. \A a \in X : at[a] = Narrowed(v, e, miss, at, a)
  BY <1>3, <1>6
<1> HIDE DEF miss
<1>8. \A l, u \in 0..v.len : l <= u => Answers(v, e, miss, l, u, at[<<l, u>>])
  BY <1>2, <1>7, NarrowingAnswers
<1>9. Answers(v, e, miss, 0, v.len, InsertionPoint(v, e))
  BY <1>1, <1>2, <1>8
<1> QED BY <1>9 DEF miss

\* So does bsearch, but its answer for a missing element is -1.
LEMMA BsearchAnswers ==
    ASSUME NEW v, WellFormed(v), NEW start \in 0..v.len, SortedFrom(v, start), NEW e \in Elem
    PROVE  Answers(v, e, [l \in 0..v.len |-> -1], start, v.len, Bsearch(v, e, start))
<1> DEFINE miss == [l \in 0..v.len |-> -1]
           X == Areas(v, start)
           at[area \in Areas(v, start)] ==
              LET l   == area[1]
                  u   == area[2]
                  mid == (l + u) \div 2
              IN  IF l >= u THEN -1
                  ELSE IF Rank[e] = Rank[v.mem[mid]] THEN mid
                  ELSE IF Rank[e] < Rank[v.mem[mid]] THEN at[<<l, mid>>]
                  ELSE at[<<mid + 1, u>>]
           Body(g, area) ==
              LET l   == area[1]
                  u   == area[2]
                  mid == (l + u) \div 2
              IN  IF l >= u THEN -1
                  ELSE IF Rank[e] = Rank[v.mem[mid]] THEN mid
                  ELSE IF Rank[e] < Rank[v.mem[mid]] THEN g[<<l, mid>>]
                  ELSE g[<<mid + 1, u>>]
<1>1. Bsearch(v, e, start) = at[<<start, v.len>>]
  BY DEF Bsearch
<1>2. /\ v.len \in Nat /\ start \in start..v.len /\ v.len \in start..v.len /\ start <= v.len
      /\ miss \in [0..v.len -> Int]
  BY DEF WellFormed
<1>3. ASSUME NEW g, NEW a \in X PROVE Body(g, a) = Narrowed(v, e, miss, g, a)
  <2>1. a[1] \in 0..v.len
    BY <1>2 DEF Areas
  <2>2. miss[a[1]] = -1
    BY <2>1
  <2> QED BY <2>2 DEF Narrowed
<1>4. PICK g : g = [a \in X |-> Narrowed(v, e, miss, g, a)]
  <2> HIDE DEF miss
  <2>1. \E g \in [X -> Int] : g = [a \in X |-> Narrowed(v, e, miss, g, a)]
    BY <1>2, SearchExists
  <2> QED BY <2>1
<1>5. g = [a \in X |-> Body(g, a)]
  BY <1>3, <1>4
<1>6. at = [a \in X |-> Body(at, a)]
  BY <1>5
<1> HIDE DEF at, Body
<1>7. \A a \in X : at[a] = Narrowed(v, e, miss, at, a)
  BY <1>3, <1>6
<1> HIDE DEF miss
<1>8. \A l, u \in start..v.len : l <= u => Answers(v, e, miss, l, u, at[<<l, u>>])
  BY <1>2, <1>7, NarrowingAnswers
<1>9. Answers(v, e, miss, start, v.len, Bsearch(v, e, start))
  BY <1>1, <1>2, <1>8
<1> QED BY <1>9 DEF miss

\* p answers a linear search for e from a place on.
First(v, e, from, p) ==
    \/ /\ p \in from..(v.len - 1) /\ Rank[v.mem[p]] = Rank[e]
       /\ \A i \in from..(p - 1) : Rank[v.mem[i]] # Rank[e]
    \/ p = -1 /\ \A i \in from..(v.len - 1) : Rank[v.mem[i]] # Rank[e]

\* A linear search finds the first equal element.
LEMMA LinearSearchAnswers ==
    ASSUME NEW v, WellFormed(v), NEW start \in 0..v.len, NEW e
    PROVE  First(v, e, start, LinearSearch(v, e, start))
<1> DEFINE n == v.len - start
           X == 0..n
           at[i \in 0..(v.len - start)] ==
              IF i = v.len - start THEN -1
              ELSE IF Rank[e] = Rank[v.mem[start + i]] THEN start + i
              ELSE at[i + 1]
           Body(g, i) ==
              IF i = v.len - start THEN -1
              ELSE IF Rank[e] = Rank[v.mem[start + i]] THEN start + i
              ELSE g[i + 1]
           M == [i \in X |-> n - i]
           Step == [p \in [X -> Int] \X X |-> Body(p[1], p[2])]
<1>1. LinearSearch(v, e, start) = at[0]
  BY DEF LinearSearch
<1>2. v.len \in Nat /\ start \in Nat /\ n \in Nat /\ start <= v.len
  BY DEF WellFormed
<1>3. Recursive(X, Int, M, n + 1, Step)
  <2>1. M \in [X -> Nat] /\ n + 1 \in Nat /\ \A i \in X : M[i] < n + 1
    BY <1>2
  <2>2. ASSUME NEW g \in [X -> Int], NEW i \in X PROVE Body(g, i) \in Int
    BY <1>2
  <2>3. Step \in [[X -> Int] \X X -> Int]
    BY <2>2
  <2>4. ASSUME NEW i \in X, NEW g \in [X -> Int], NEW h \in [X -> Int],
               \A j \in X : M[j] < M[i] => g[j] = h[j]
        PROVE  Step[<<g, i>>] = Step[<<h, i>>]
    <3>1. i # n => i + 1 \in X /\ M[i + 1] < M[i]
      BY <1>2
    <3>2. Body(g, i) = Body(h, i)
      BY <2>4, <3>1
    <3> QED BY <3>2
  <2> HIDE DEF X, M, Step
  <2>5. Int # {}
    BY 0 \in Int
  <2> QED BY <2>1, <2>3, <2>4, <2>5 DEF Recursive
<1>4. PICK g : g = [i \in X |-> Body(g, i)]
  <2>1. \A g \in [X -> Int], i \in X : Step[<<g, i>>] = Body(g, i)
    OBVIOUS
  <2> HIDE DEF Step, Body, M, X, n
  <2>2. PICK g \in [X -> Int] : \A i \in X : g[i] = Step[<<g, i>>]
    BY <1>3, RecursiveFunction
  <2>3. g = [i \in X |-> Body(g, i)]
    BY <2>1, <2>2
  <2> QED BY <2>3
<1>5. at = [i \in X |-> Body(at, i)]
  BY <1>4
<1> HIDE DEF at
<1>6. \A i \in X : at[i] = Body(at, i)
  BY <1>5
<1> DEFINE T == {k \in Nat : \A i \in X : n - i = k => First(v, e, start + i, at[i])}
<1>7. ASSUME NEW k \in Nat, \A m \in Nat : m < k => m \in T, NEW i \in X, n - i = k
      PROVE  First(v, e, start + i, at[i])
  <2>1. at[i] = Body(at, i) /\ start + i \in Nat
    BY <1>2, <1>6
  <2>2. CASE i = n
    BY <1>2, <2>1, <2>2 DEF First
  <2>3. CASE i # n /\ Rank[e] = Rank[v.mem[start + i]]
    <3>1. at[i] = start + i /\ start + i \in (start + i)..(v.len - 1)
      BY <1>2, <2>1, <2>3
    <3>2. (start + i)..((start + i) - 1) = {}
      BY <1>2
    <3> QED BY <2>3, <3>1, <3>2 DEF First
  <2>4. CASE i # n /\ Rank[e] # Rank[v.mem[start + i]]
    <3>1. at[i] = at[i + 1]
      BY <1>2, <2>1, <2>4
    <3>2. i + 1 \in X /\ n - (i + 1) \in Nat /\ n - (i + 1) < k /\ start + (i + 1) = (start + i) + 1
      BY <1>2, <1>7, <2>4
    <3>3. n - (i + 1) \in T
      BY <1>7, <3>2
    <3>4. First(v, e, (start + i) + 1, at[i])
      BY <3>1, <3>2, <3>3
    <3>5. \A x \in Int : \A j \in (start + i)..x : j = start + i \/ j \in ((start + i) + 1)..x
      BY <1>2
    <3>6. \A x \in ((start + i) + 1)..(v.len - 1) : x \in (start + i)..(v.len - 1) /\ x - 1 \in Int
      BY <1>2
    <3>7. v.len - 1 \in Int
      BY <1>2
    <3> HIDE DEF X, n
    <3> QED BY <2>4, <3>4, <3>5, <3>6, <3>7 DEF First
  <2> QED BY <2>2, <2>3, <2>4
<1>8. \A k \in Nat : (\A m \in Nat : m < k => m \in T) => k \in T
  BY <1>7
<1> HIDE DEF T
<1>9. Nat \subseteq T
  BY <1>8, AllNumbers
<1>10. n - 0 \in T /\ 0 \in X
  BY <1>2, <1>9
<1>11. First(v, e, start + 0, at[0])
  BY <1>10 DEF T
<1> QED BY <1>1, <1>2, <1>11

\* bsearch1 is right about where an element belongs, in an array of any length.
LEMMA PlaceKeepsOrder ==
    ASSUME NEW v, WellFormed(v), SortedFrom(v, 0), NEW e \in Elem
    PROVE  LET p == InsertionPoint(v, e)
           IN  /\ p \in 0..v.len
               /\ \A i \in 0..(v.len - 1) :
                     IF i < p THEN Rank[v.mem[i]] <= Rank[e]
                     ELSE Rank[e] <= Rank[v.mem[i]]
<1> DEFINE p == InsertionPoint(v, e)
           miss == [l \in 0..v.len |-> l]
<1>1. Answers(v, e, miss, 0, v.len, p)
  BY InsertionPointAnswers
<1>2. /\ v.len \in Nat /\ Rank[e] \in Nat
      /\ \A i \in 0..(v.len - 1) : Rank[v.mem[i]] \in Nat
  BY ElemAssumption DEF WellFormed
<1> HIDE DEF p
<1>3. CASE p \in 0..(v.len - 1) /\ Rank[v.mem[p]] = Rank[e]
  <2>1. \A i \in 0..(v.len - 1) : /\ i < p => Rank[v.mem[i]] <= Rank[v.mem[p]]
                                  /\ p < i => Rank[v.mem[p]] <= Rank[v.mem[i]]
    BY <1>3 DEF SortedFrom
  <2>2. p \in 0..v.len
    BY <1>2, <1>3
  <2>3. \A i \in 0..(v.len - 1) : i < p \/ i = p \/ p < i
    BY <1>2, <2>2
  <2> QED BY <1>2, <1>3, <2>1, <2>2, <2>3 DEF p
<1>4. ASSUME NEW k \in 0..v.len, p = miss[k],
             \A i \in 0..(k - 1) : Rank[v.mem[i]] < Rank[e],
             \A i \in k..(v.len - 1) : Rank[e] < Rank[v.mem[i]]
      PROVE  /\ p \in 0..v.len
             /\ \A i \in 0..(v.len - 1) : IF i < p THEN Rank[v.mem[i]] <= Rank[e]
                                         ELSE Rank[e] <= Rank[v.mem[i]]
  <2>1. p = k
    BY <1>4
  <2> QED BY <1>2, <1>4, <2>1
<1> QED BY <1>1, <1>3, <1>4 DEF Answers, p

\* bsearch is right about whether there is an equal element.
LEMMA BinarySearchFinds ==
    ASSUME NEW v, WellFormed(v), NEW e \in Elem, NEW start \in 0..v.len, SortedFrom(v, start)
    PROVE  LET p == Bsearch(v, e, start)
               equals == {i \in start..(v.len - 1) : Rank[v.mem[i]] = Rank[e]}
           IN  IF equals = {} THEN p = -1 ELSE p \in equals
<1> DEFINE p == Bsearch(v, e, start)
           equals == {i \in start..(v.len - 1) : Rank[v.mem[i]] = Rank[e]}
<1>1. /\ v.len \in Nat /\ start \in Nat /\ Rank[e] \in Nat
      /\ \A i \in 0..(v.len - 1) : Rank[v.mem[i]] \in Nat
  BY ElemAssumption DEF WellFormed
<1>2. Answers(v, e, [l \in 0..v.len |-> -1], start, v.len, p)
  BY BsearchAnswers
<1> HIDE DEF p
<1>3. CASE p \in start..(v.len - 1) /\ Rank[v.mem[p]] = Rank[e]
  BY <1>3 DEF p
<1>4. ASSUME NEW k \in start..v.len, p = [l \in 0..v.len |-> -1][k],
             \A i \in start..(k - 1) : Rank[v.mem[i]] < Rank[e],
             \A i \in k..(v.len - 1) : Rank[e] < Rank[v.mem[i]]
      PROVE  p = -1 /\ equals = {}
  <2>1. p = -1
    BY <1>1, <1>4
  <2>2. \A i \in start..(v.len - 1) : Rank[v.mem[i]] # Rank[e]
    BY <1>1, <1>4
  <2> QED BY <2>1, <2>2
<1> QED BY <1>2, <1>3, <1>4 DEF Answers, p

\* So is VectorSearch, and a linear one finds the first.
LEMMA SearchesFind ==
    ASSUME NEW v, WellFormed(v), NEW e \in Elem, NEW start \in 0..v.len, NEW isSorted \in BOOLEAN,
           isSorted => SortedFrom(v, start)
    PROVE  LET p == VectorSearch(v, e, start, isSorted)
               equals == {i \in start..(v.len - 1) : Rank[v.mem[i]] = Rank[e]}
           IN  IF equals = {} THEN p = -1
               ELSE /\ p \in equals
                    /\ ~isSorted => \A i \in equals : p <= i
<1> DEFINE p == VectorSearch(v, e, start, isSorted)
           equals == {i \in start..(v.len - 1) : Rank[v.mem[i]] = Rank[e]}
<1>1. v.len \in Nat /\ start \in Nat
  BY DEF WellFormed
<1>2. CASE isSorted
  BY <1>2, BinarySearchFinds DEF VectorSearch
<1>3. CASE ~isSorted
  <2>1. First(v, e, start, p)
    BY <1>3, LinearSearchAnswers DEF VectorSearch
  <2> HIDE DEF p
  <2>2. CASE p = -1 /\ \A i \in start..(v.len - 1) : Rank[v.mem[i]] # Rank[e]
    BY <2>2 DEF p
  <2>3. CASE /\ p \in start..(v.len - 1) /\ Rank[v.mem[p]] = Rank[e]
             /\ \A i \in start..(p - 1) : Rank[v.mem[i]] # Rank[e]
    <3>1. \A i \in equals : p <= i
      BY <1>1, <2>3
    <3> QED BY <2>3, <3>1 DEF p
  <2> QED BY <2>1, <2>2, <2>3 DEF First
<1> QED BY <1>2, <1>3

-----------------------------------------------------------------------------
(* What the operations do to the set of elements the vector holds. *)

LEMMA InsertedHolds ==
    ASSUME NEW v, WellFormed(v), NEW e \in Elem, NEW p \in 0..v.len,
           Distinct(v), ~Holds(v, e)
    PROVE  /\ Distinct(Inserted(v, e, p))
           /\ \A x : Holds(Inserted(v, e, p), x) <=> Holds(v, x) \/ x = e
<1> DEFINE w == Inserted(v, e, p)
<1>1. /\ w.len = v.len + 1
      /\ \A i \in 0..v.len : w.mem[i] = IF i < p THEN v.mem[i]
                                       ELSE IF i = p THEN e ELSE v.mem[i - 1]
  BY InsertedElements
<1> HIDE DEF w
<1>2. v.len \in Nat /\ p \in Nat /\ p <= v.len BY DEF WellFormed
<1>3. 0..(w.len - 1) = 0..v.len BY <1>1, <1>2
<1>4. Distinct(w)
  <2> SUFFICES ASSUME NEW i \in 0..v.len, NEW j \in 0..v.len, w.mem[i] = w.mem[j]
               PROVE  i = j
    BY <1>3 DEF Distinct
  <2>1. \A k \in 0..v.len : k # p => \E l \in 0..(v.len - 1) :
           /\ w.mem[k] = v.mem[l]
           /\ l = IF k < p THEN k ELSE k - 1
    BY <1>1, <1>2
  <2>2. CASE i = p \/ j = p BY <2>1, <2>2, <1>1, <1>2 DEF Holds
  <2>3. CASE i # p /\ j # p BY <2>1, <2>3, <1>2 DEF Distinct
  <2> QED BY <2>2, <2>3
<1>5. ASSUME NEW x PROVE Holds(w, x) <=> Holds(v, x) \/ x = e
  <2>1. w.mem[p] = e BY <1>1, <1>2
  <2>2. ASSUME NEW i \in 0..(v.len - 1)
        PROVE  \E j \in 0..v.len : w.mem[j] = v.mem[i]
    <3>1. CASE i < p BY <3>1, <1>1, <1>2
    <3>2. CASE i >= p
      <4>1. i + 1 \in 0..v.len /\ ~(i + 1 < p) /\ i + 1 # p /\ (i + 1) - 1 = i
        BY <3>2, <1>2
      <4> QED BY <4>1, <1>1
    <3> QED BY <3>1, <3>2, <1>2
  <2>3. ASSUME NEW j \in 0..v.len, j # p
        PROVE  \E i \in 0..(v.len - 1) : w.mem[j] = v.mem[i]
    BY <2>3, <1>1, <1>2
  <2> QED BY <1>2, <1>3, <2>1, <2>2, <2>3 DEF Holds
<1> QED BY <1>4, <1>5 DEF w

LEMMA ReplacedHolds ==
    ASSUME NEW v, WellFormed(v), NEW e \in Elem, NEW p \in 0..(v.len - 1),
           Distinct(v), ~Holds(v, e)
    PROVE  /\ Distinct(Replaced(v, e, p))
           /\ \A x : Holds(Replaced(v, e, p), x) <=>
                         x = e \/ (Holds(v, x) /\ x # v.mem[p])
<1> DEFINE w == Replaced(v, e, p)
<1>1. /\ w.len = v.len
      /\ \A i \in 0..(v.len - 1) : w.mem[i] = IF i = p THEN e ELSE v.mem[i]
  BY ReplacedElements
<1> HIDE DEF w
<1>2. Distinct(w) BY <1>1 DEF Distinct, Holds
<1>3. \A x : Holds(w, x) <=> x = e \/ (Holds(v, x) /\ x # v.mem[p])
  BY <1>1 DEF Distinct, Holds
<1> QED BY <1>2, <1>3 DEF w

LEMMA DeletedHolds ==
    ASSUME NEW v, WellFormed(v), NEW p \in 0..(v.len - 1), Distinct(v)
    PROVE  /\ Distinct(Deleted(v, p))
           /\ \A x : Holds(Deleted(v, p), x) <=> Holds(v, x) /\ x # v.mem[p]
<1> DEFINE w == Deleted(v, p)
<1>1. /\ w.len = v.len - 1
      /\ \A i \in 0..(v.len - 2) : w.mem[i] = IF i < p THEN v.mem[i] ELSE v.mem[i + 1]
  BY DeletedElements
<1> HIDE DEF w
<1>2. v.len \in Nat /\ p \in Nat /\ p < v.len BY DEF WellFormed
<1>3. 0..(w.len - 1) = 0..(v.len - 2)
  <2>1. (v.len - 1) - 1 = v.len - 2 BY <1>2
  <2> QED BY <2>1, <1>1
<1>4. \A k \in 0..(v.len - 2) : \E l \in 0..(v.len - 1) :
         /\ w.mem[k] = v.mem[l]
         /\ l = IF k < p THEN k ELSE k + 1
         /\ l # p
  <2> TAKE k \in 0..(v.len - 2)
  <2>1. CASE k < p BY <2>1, <1>1, <1>2
  <2>2. CASE ~(k < p)
    <3>1. k + 1 \in 0..(v.len - 1) /\ k + 1 # p BY <2>2, <1>2
    <3> QED BY <3>1, <2>2, <1>1
  <2> QED BY <2>1, <2>2
<1>5. Distinct(w)
  <2> SUFFICES ASSUME NEW i \in 0..(v.len - 2), NEW j \in 0..(v.len - 2),
                      w.mem[i] = w.mem[j]
               PROVE  i = j
    BY <1>3 DEF Distinct
  <2> QED BY <1>2, <1>4 DEF Distinct
<1>6. ASSUME NEW x PROVE Holds(w, x) <=> Holds(v, x) /\ x # v.mem[p]
  <2>1. ASSUME NEW i \in 0..(v.len - 1), i # p
        PROVE  \E j \in 0..(v.len - 2) : w.mem[j] = v.mem[i]
    <3>1. CASE i < p
      <4>1. i \in 0..(v.len - 2) BY <3>1, <1>2
      <4> QED BY <4>1, <3>1, <1>1
    <3>2. CASE ~(i < p)
      <4>1. i - 1 \in 0..(v.len - 2) /\ ~(i - 1 < p) /\ (i - 1) + 1 = i
        BY <2>1, <3>2, <1>2
      <4> QED BY <4>1, <1>1
    <3> QED BY <3>1, <3>2
  <2>2. Holds(w, x) => Holds(v, x) /\ x # v.mem[p]
    BY <1>2, <1>3, <1>4 DEF Holds, Distinct
  <2>3. Holds(v, x) /\ x # v.mem[p] => Holds(w, x)
    BY <1>3, <2>1 DEF Holds
  <2> QED BY <2>2, <2>3
<1> QED BY <1>5, <1>6 DEF w

LEMMA SortedHolds ==
    ASSUME NEW v, WellFormed(v), NEW w \in SortedArrays(v), Distinct(v)
    PROVE  Distinct(w) /\ \A x : Holds(w, x) <=> Holds(v, x)
<1> DEFINE used == 0..(v.len - 1)
<1>1. w.len = v.len BY SortedElements
<1>2. PICK f \in Bijection(used, used) : \A i \in used : w.mem[i] = v.mem[f[i]]
  BY SortedElements
<1> HIDE DEF used
<1>3. /\ f \in [used -> used]
      /\ \A i, j \in used : f[i] = f[j] => i = j
      /\ \A j \in used : \E i \in used : f[i] = j
  BY DEF Bijection, Injection, Surjection, IsInjective
<1>4. ASSUME NEW i \in used, NEW j \in used, w.mem[i] = w.mem[j]
      PROVE  i = j
  <2>1. f[i] \in used /\ f[j] \in used /\ v.mem[f[i]] = v.mem[f[j]]
    BY <1>2, <1>3, <1>4
  <2>2. f[i] = f[j] BY <2>1 DEF Distinct, used
  <2> QED BY <2>2, <1>3
<1>5. ASSUME NEW x
      PROVE  (\E i \in used : w.mem[i] = x) <=> (\E i \in used : v.mem[i] = x)
  <2>1. ASSUME NEW i \in used, w.mem[i] = x PROVE \E k \in used : v.mem[k] = x
    <3>1. f[i] \in used /\ v.mem[f[i]] = x BY <2>1, <1>2, <1>3
    <3> QED BY <3>1
  <2>2. ASSUME NEW k \in used, v.mem[k] = x PROVE \E i \in used : w.mem[i] = x
    <3>1. PICK i \in used : f[i] = k BY <1>3
    <3>2. w.mem[i] = x BY <2>2, <3>1, <1>2
    <3> QED BY <3>2
  <2> QED BY <2>1, <2>2
<1> QED BY <1>1, <1>4, <1>5 DEF Distinct, Holds, used

\* freeFn is called once on each of these elements and on no other.
LEMMA FreedOnce ==
    ASSUME NEW v, WellFormed(v), Distinct(v), v.frees,
           NEW f \in [Elem -> Nat], NEW P \in SUBSET (0..(v.len - 1))
    PROVE  /\ Freed(f, v, P) \in [Elem -> Nat]
           /\ \A e \in Elem : Freed(f, v, P)[e] =
                 f[e] + (IF \E i \in P : v.mem[i] = e THEN 1 ELSE 0)
<1> DEFINE at(e) == {i \in P : v.mem[i] = e}
<1>1. Freed(f, v, P) = [e \in Elem |-> f[e] + Cardinality(at(e))]
  BY DEF Freed
<1>2. ASSUME NEW e \in Elem
      PROVE  Cardinality(at(e)) = IF \E i \in P : v.mem[i] = e THEN 1 ELSE 0
  <2>1. CASE \E i \in P : v.mem[i] = e
    <3>1. PICK i \in P : v.mem[i] = e BY <2>1
    <3>2. at(e) = {i} BY <3>1 DEF Distinct
    <3>3. Cardinality({i}) = 1 BY FS_Singleton
    <3> QED BY <3>1, <3>2, <3>3
  <2>2. CASE ~\E i \in P : v.mem[i] = e
    <3>1. at(e) = {} BY <2>2
    <3>2. Cardinality({}) = 0 BY FS_EmptySet
    <3> QED BY <3>1, <3>2, <2>2
  <2> QED BY <2>1, <2>2
<1> HIDE DEF at
<1> QED BY <1>1, <1>2

-----------------------------------------------------------------------------
\* The invariant: a raw vector holds nothing yet.
VectorInv == /\ VectorTypeOK
             /\ VectorOwnership
             /\ status = "raw" => vec.len = 0

LEMMA EmptyHoldsNothing ==
    ASSUME NEW v, v.len = 0
    PROVE  Distinct(v) /\ \A x : ~Holds(v, x)
<1>1. 0..(v.len - 1) = {} OBVIOUS
<1> QED BY <1>1 DEF Distinct, Holds

LEMMA VectorInvInit == VectorInit => VectorInv
<1> SUFFICES ASSUME VectorInit PROVE VectorInv OBVIOUS
<1>1. PICK frees \in BOOLEAN : vec = NewVector(0, frees) BY DEF VectorInit
<1>2. WellFormed(vec) /\ vec.len = 0 BY <1>1, NewWellFormed
<1>3. Distinct(vec) /\ \A x : ~Holds(vec, x) BY <1>2, EmptyHoldsNothing
<1> QED BY <1>2, <1>3 DEF VectorInit, VectorInv, VectorTypeOK, VectorOwnership, InVector

\* An assertion that fails changes nothing that is owned.
LEMMA AbortKeepsInv ==
    ASSUME VectorInv, Abort, status = "live"
    PROVE  VectorInv'
BY DEF VectorInv, VectorTypeOK, VectorOwnership, InVector, Abort, WellFormed,
       Holds, Distinct

LEMMA VectorNewKeepsInv ==
    ASSUME VectorInv, NEW n \in Int, VectorNew(n)
    PROVE  VectorInv'
<1>1. \A x : ~InVector(x)
  BY EmptyHoldsNothing DEF VectorInv, VectorNew, InVector
<1>2. WellFormed(vec') /\ vec'.len = 0 /\ vec'.frees = vec.frees
  <2>1. CASE n >= 0
    <3>1. vec' = NewVector(n, vec.frees) /\ n \in Nat BY <2>1 DEF VectorNew
    <3>2. vec.frees \in BOOLEAN BY DEF VectorInv, VectorTypeOK, WellFormed
    <3> QED BY <3>1, <3>2, NewWellFormed
  <2>2. CASE n < 0
    <3>1. vec' = [vec EXCEPT !.len = 0] BY <2>2 DEF VectorNew
    <3>2. WellFormed(vec) BY DEF VectorInv, VectorTypeOK
    <3>3. vec' = Rewritten(vec, vec.mem, 0) BY <3>1, <3>2 DEF Rewritten, WellFormed
    <3>4. Fits(vec, vec.mem, 0) BY <3>2 DEF Fits, WellFormed
    <3> QED BY <3>2, <3>3, <3>4, RewrittenWellFormed
  <2> QED BY <2>1, <2>2
<1>3. Distinct(vec') /\ \A x : ~Holds(vec', x) BY <1>2, EmptyHoldsNothing
<1>4. given' = given /\ freed' = freed /\ status' \in {"live", "aborted"}
  BY DEF VectorNew
<1>5. Distinct(vec)' /\ \A x : ~InVector(x)' BY <1>3 DEF Distinct, Holds, InVector
<1> QED BY <1>1, <1>2, <1>4, <1>5
        DEF VectorInv, VectorTypeOK, VectorOwnership, WellFormed

LEMMA VectorInsertKeepsInv ==
    ASSUME VectorInv, NEW e \in Elem, NEW position, VectorInsert(e, position)
    PROVE  VectorInv'
<1>1. CASE Abort BY <1>1, AbortKeepsInv DEF VectorInsert
<1>2. CASE ~Abort
  <2>1. /\ status = "live" /\ e \notin given
        /\ position \in 0..vec.len
        /\ vec' = Inserted(vec, e, position)
        /\ given' = given \cup {e}
        /\ status' = status /\ freed' = freed
    BY <1>2 DEF VectorInsert
  <2>2. WellFormed(vec) /\ Distinct(vec) /\ ~Holds(vec, e)
    BY <2>1 DEF VectorInv, VectorTypeOK, VectorOwnership, InVector
  <2>3. WellFormed(vec') /\ vec'.frees = vec.frees
    BY <2>1, <2>2, InsertedElements
  <2>4. Distinct(vec') /\ \A x : Holds(vec', x) <=> Holds(vec, x) \/ x = e
    BY <2>1, <2>2, InsertedHolds
  <2>5. \A x : InVector(x)' <=> InVector(x) \/ x = e
    BY <2>1, <2>4 DEF InVector
  <2> QED BY <2>1, <2>3, <2>4, <2>5 DEF VectorInv, VectorTypeOK, VectorOwnership
<1> QED BY <1>1, <1>2

LEMMA VectorReplaceKeepsInv ==
    ASSUME VectorInv, NEW e \in Elem, NEW position \in Int, VectorReplace(e, position)
    PROVE  VectorInv'
<1>1. CASE Abort BY <1>1, AbortKeepsInv DEF VectorReplace
<1>2. CASE ~Abort
  <2>1. /\ status = "live" /\ e \notin given
        /\ InBounds(vec, position)
        /\ freed' = Freed(freed, vec, {position})
        /\ vec' = Replaced(vec, e, position)
        /\ given' = given \cup {e}
        /\ status' = status
    BY <1>2 DEF VectorReplace
  <2>2. /\ WellFormed(vec) /\ Distinct(vec) /\ ~Holds(vec, e)
        /\ freed \in [Elem -> Nat]
    BY <2>1 DEF VectorInv, VectorTypeOK, VectorOwnership, InVector
  <2>3. position \in 0..(vec.len - 1) /\ {position} \in SUBSET (0..(vec.len - 1))
    BY <2>1, <2>2 DEF InBounds, WellFormed
  <2>4. WellFormed(vec') /\ vec'.frees = vec.frees
    BY <2>1, <2>2, <2>3, ReplacedElements
  <2>5. /\ Distinct(vec')
        /\ \A x : Holds(vec', x) <=> x = e \/ (Holds(vec, x) /\ x # vec.mem[position])
    BY <2>1, <2>2, <2>3, ReplacedHolds
  <2>6. \A x : InVector(x)' <=> x = e \/ (InVector(x) /\ x # vec.mem[position])
    BY <2>1, <2>5 DEF InVector
  <2>7. /\ freed' \in [Elem -> Nat]
        /\ \A x \in Elem : freed'[x] =
              freed[x] + (IF vec.frees /\ x = vec.mem[position] THEN 1 ELSE 0)
    <3>1. CASE vec.frees BY <3>1, <2>1, <2>2, <2>3, FreedOnce
    <3>2. CASE ~vec.frees BY <3>2, <2>1, <2>2 DEF Freed
    <3> QED BY <3>1, <3>2
  <2>8. InVector(vec.mem[position]) BY <2>1, <2>3 DEF InVector, Holds
  <2>9. VectorOwnership'
    <3>1. ASSUME NEW x \in Elem
          PROVE  /\ InVector(x)' => x \in given'
                 /\ freed'[x] = IF x \in given' /\ ~InVector(x)' /\ vec'.frees THEN 1 ELSE 0
      <4>1. /\ InVector(x) => x \in given
            /\ freed[x] = IF x \in given /\ ~InVector(x) /\ vec.frees THEN 1 ELSE 0
        BY DEF VectorInv, VectorOwnership
      <4>2. CASE x = vec.mem[position]
        <5>1. x \in given /\ x # e BY <4>1, <4>2, <2>1, <2>8
        <5>2. ~InVector(x)' BY <5>1, <4>2, <2>6
        <5>3. freed[x] = 0 /\ freed'[x] = IF vec.frees THEN 1 ELSE 0
          BY <4>1, <4>2, <2>7, <2>8
        <5> QED BY <5>1, <5>2, <5>3, <2>1, <2>4
      <4>3. CASE x # vec.mem[position]
        BY <4>1, <4>3, <2>1, <2>2, <2>4, <2>6, <2>7
      <4> QED BY <4>2, <4>3
    <3> QED BY <3>1, <2>5 DEF VectorOwnership
  <2> QED BY <2>1, <2>4, <2>7, <2>9 DEF VectorInv, VectorTypeOK
<1> QED BY <1>1, <1>2

LEMMA VectorDeleteKeepsInv ==
    ASSUME VectorInv, NEW position \in Int, VectorDelete(position)
    PROVE  VectorInv'
<1>1. CASE Abort BY <1>1, AbortKeepsInv DEF VectorDelete
<1>2. CASE ~Abort
  <2>1. /\ status = "live"
        /\ InBounds(vec, position)
        /\ freed' = Freed(freed, vec, {position})
        /\ vec' = Deleted(vec, position)
        /\ given' = given
        /\ status' = status
    BY <1>2 DEF VectorDelete
  <2>2. /\ WellFormed(vec) /\ Distinct(vec)
        /\ freed \in [Elem -> Nat]
    BY <2>1 DEF VectorInv, VectorTypeOK, VectorOwnership
  <2>3. position \in 0..(vec.len - 1) /\ {position} \in SUBSET (0..(vec.len - 1))
    BY <2>1, <2>2 DEF InBounds, WellFormed
  <2>4. WellFormed(vec') /\ vec'.frees = vec.frees
    BY <2>1, <2>2, <2>3, DeletedElements
  <2>5. /\ Distinct(vec')
        /\ \A x : Holds(vec', x) <=> Holds(vec, x) /\ x # vec.mem[position]
    BY <2>1, <2>2, <2>3, DeletedHolds
  <2>6. \A x : InVector(x)' <=> InVector(x) /\ x # vec.mem[position]
    BY <2>1, <2>5 DEF InVector
  <2>7. /\ freed' \in [Elem -> Nat]
        /\ \A x \in Elem : freed'[x] =
              freed[x] + (IF vec.frees /\ x = vec.mem[position] THEN 1 ELSE 0)
    <3>1. CASE vec.frees BY <3>1, <2>1, <2>2, <2>3, FreedOnce
    <3>2. CASE ~vec.frees BY <3>2, <2>1, <2>2 DEF Freed
    <3> QED BY <3>1, <3>2
  <2>8. InVector(vec.mem[position]) BY <2>1, <2>3 DEF InVector, Holds
  <2>9. VectorOwnership'
    <3>1. ASSUME NEW x \in Elem
          PROVE  /\ InVector(x)' => x \in given'
                 /\ freed'[x] = IF x \in given' /\ ~InVector(x)' /\ vec'.frees THEN 1 ELSE 0
      <4>1. /\ InVector(x) => x \in given
            /\ freed[x] = IF x \in given /\ ~InVector(x) /\ vec.frees THEN 1 ELSE 0
        BY DEF VectorInv, VectorOwnership
      <4>2. CASE x = vec.mem[position]
        BY <4>1, <4>2, <2>1, <2>2, <2>4, <2>6, <2>7, <2>8
      <4>3. CASE x # vec.mem[position]
        BY <4>1, <4>3, <2>1, <2>2, <2>4, <2>6, <2>7
      <4> QED BY <4>2, <4>3
    <3> QED BY <3>1, <2>5 DEF VectorOwnership
  <2> QED BY <2>1, <2>4, <2>7, <2>9 DEF VectorInv, VectorTypeOK
<1> QED BY <1>1, <1>2

LEMMA VectorSortKeepsInv ==
    ASSUME VectorInv, VectorSort
    PROVE  VectorInv'
<1>1. /\ status = "live" /\ vec' \in SortedArrays(vec)
      /\ given' = given /\ freed' = freed /\ status' = status
  BY DEF VectorSort
<1>2. WellFormed(vec) /\ Distinct(vec)
  BY DEF VectorInv, VectorTypeOK, VectorOwnership
<1>3. WellFormed(vec') /\ vec'.frees = vec.frees
  BY <1>1, <1>2, SortedElements
<1>4. Distinct(vec') /\ \A x : Holds(vec', x) <=> Holds(vec, x)
  BY <1>1, <1>2, SortedHolds
<1>5. \A x : InVector(x)' <=> InVector(x) BY <1>1, <1>4 DEF InVector
<1> QED BY <1>1, <1>3, <1>4, <1>5 DEF VectorInv, VectorTypeOK, VectorOwnership

LEMMA VectorDisposeKeepsInv ==
    ASSUME VectorInv, VectorDispose
    PROVE  VectorInv'
<1>1. /\ status = "live" /\ status' = "disposed"
      /\ freed' = Freed(freed, vec, 0..(vec.len - 1))
      /\ vec' = vec /\ given' = given
  BY DEF VectorDispose
<1>2. /\ WellFormed(vec) /\ Distinct(vec)
      /\ freed \in [Elem -> Nat]
  BY DEF VectorInv, VectorTypeOK, VectorOwnership
<1>3. \A x : InVector(x) <=> \E i \in 0..(vec.len - 1) : vec.mem[i] = x
  BY <1>1 DEF InVector, Holds
<1>4. /\ freed' \in [Elem -> Nat]
      /\ \A x \in Elem : freed'[x] =
            freed[x] + (IF vec.frees /\ InVector(x) THEN 1 ELSE 0)
  <2>1. CASE vec.frees
    <3> DEFINE used == 0..(vec.len - 1)
    <3>1. used \in SUBSET (0..(vec.len - 1)) /\ freed' = Freed(freed, vec, used)
      BY <1>1
    <3> HIDE DEF used
    <3>2. /\ freed' \in [Elem -> Nat]
          /\ \A x \in Elem : freed'[x] =
                freed[x] + (IF \E i \in used : vec.mem[i] = x THEN 1 ELSE 0)
      BY <2>1, <3>1, <1>2, FreedOnce
    <3> QED BY <2>1, <3>2, <1>3 DEF used
  <2>2. CASE ~vec.frees BY <2>2, <1>1, <1>2 DEF Freed
  <2> QED BY <2>1, <2>2
<1>5. \A x : ~InVector(x)' BY <1>1 DEF InVector
<1> QED BY <1>1, <1>2, <1>4, <1>5 DEF VectorInv, VectorTypeOK, VectorOwnership, InVector

LEMMA VectorInvStep == VectorInv /\ [VectorNext]_vecVars => VectorInv'
<1> SUFFICES ASSUME VectorInv, [VectorNext]_vecVars PROVE VectorInv' OBVIOUS
<1>1. ASSUME NEW n \in InitialAllocs, VectorNew(n) PROVE VectorInv'
  BY <1>1, InitialAllocsAssumption, VectorNewKeepsInv
<1>2. CASE VectorDispose BY <1>2, VectorDisposeKeepsInv
<1>3. ASSUME NEW e \in Elem, VectorInsertSorted(e) PROVE VectorInv'
  BY <1>3, VectorInsertKeepsInv DEF VectorInsertSorted
<1>4. ASSUME NEW e \in Elem, VectorAppend(e) PROVE VectorInv'
  BY <1>4, VectorInsertKeepsInv DEF VectorAppend
<1>5. ASSUME NEW e \in Elem, NEW position, VectorInsert(e, position) PROVE VectorInv'
  BY <1>5, VectorInsertKeepsInv
<1>6. ASSUME NEW e \in Elem, NEW position \in Int, VectorReplace(e, position)
      PROVE  VectorInv'
  BY <1>6, VectorReplaceKeepsInv
<1>7. ASSUME NEW position \in Int, VectorDelete(position) PROVE VectorInv'
  BY <1>7, VectorDeleteKeepsInv
<1>8. CASE VectorSort BY <1>8, VectorSortKeepsInv
<1>9. CASE UNCHANGED vecVars
  BY <1>9 DEF vecVars, VectorInv, VectorTypeOK, VectorOwnership, InVector, WellFormed,
              Holds, Distinct
<1>10. -1..(vec.len + 1) \subseteq Int
  BY DEF VectorInv, VectorTypeOK, WellFormed
<1> QED BY <1>1, <1>2, <1>3, <1>4, <1>5, <1>6, <1>7, <1>8, <1>9, <1>10 DEF VectorNext

LEMMA VectorInvAlways == VectorSpec => []VectorInv
<1> QED BY VectorInvInit, VectorInvStep, PTL DEF VectorSpec

\* The elements of a vector always fit in its array, whose length is always
\* a multiple of the initial allocation: resizeIfSaturated grows it in time.
THEOREM AllocationSuffices == VectorSpec => []VectorTypeOK
<1>1. VectorInv => VectorTypeOK BY DEF VectorInv
<1> QED BY <1>1, VectorInvAlways, PTL

\* Whatever is called, in any order, with any positions, freeFn is called
\* once on each element that leaves the vector and on no element in it.
THEOREM ElementsFreedOnce == VectorSpec => []VectorOwnership
<1>1. VectorInv => VectorOwnership BY DEF VectorInv
<1> QED BY <1>1, VectorInvAlways, PTL

\* In a sorted vector, bsearch1 names the place where an element belongs.
THEOREM InsertionPointRight == VectorSpec => []InsertionKeepsOrder
<1>1. ASSUME VectorInv PROVE InsertionKeepsOrder
  <2>1. WellFormed(vec) BY <1>1 DEF VectorInv, VectorTypeOK
  <2> QED BY <2>1, PlaceKeepsOrder DEF InsertionKeepsOrder
<1> QED BY <1>1, VectorInvAlways, PTL

\* VectorSearch, linear or binary, from any start, finds what is there and
\* says so if nothing is.
THEOREM SearchesRight == VectorSpec => []SearchFinds
<1>1. ASSUME VectorInv PROVE SearchFinds
  <2>1. WellFormed(vec) BY <1>1 DEF VectorInv, VectorTypeOK
  <2> QED BY <2>1, SearchesFind DEF SearchFinds
<1> QED BY <1>1, VectorInvAlways, PTL

-----------------------------------------------------------------------------
(* The vector as a list. *)

LEMMA InsertedSeq ==
    ASSUME NEW X, NEW s \in Seq(X), NEW t \in Seq(X), NEW e \in X,
           NEW i \in 1..(Len(s) + 1),
           Len(t) = Len(s) + 1,
           \A k \in 1..(Len(s) + 1) :
              t[k] = IF k < i THEN s[k] ELSE IF k = i THEN e ELSE s[k - 1]
    PROVE  t = SubSeq(s, 1, i - 1) \o <<e>> \o SubSeq(s, i, Len(s))
<1> DEFINE a == SubSeq(s, 1, i - 1)
           b == SubSeq(s, i, Len(s))
<1>1. Len(s) \in Nat BY LenProperties
<1>2. \A k \in 1..Len(s) : s[k] \in X BY ElementOfSeq
<1>3. /\ a \in Seq(X) /\ Len(a) = i - 1
      /\ \A k \in 1..(i - 1) : a[k] = s[k]
  <2>1. \A k \in 1..(i - 1) : s[k] \in X BY <1>1, <1>2
  <2>2. /\ SubSeq(s, 1, i - 1) \in Seq(X)
        /\ Len(SubSeq(s, 1, i - 1)) = IF 1 <= i - 1 THEN (i - 1) - 1 + 1 ELSE 0
        /\ \A k \in 1..((i - 1) - 1 + 1) : SubSeq(s, 1, i - 1)[k] = s[1 + k - 1]
    BY <2>1, <1>1, SubSeqProperties
  <2> QED BY <2>2, <1>1
<1>4. /\ b \in Seq(X) /\ Len(b) = Len(s) - i + 1
      /\ \A k \in 1..(Len(s) - i + 1) : b[k] = s[i + k - 1]
  <2>1. \A k \in i..Len(s) : s[k] \in X BY <1>1, <1>2
  <2>2. i \in Int /\ Len(s) \in Int BY <1>1
  <2>3. /\ SubSeq(s, i, Len(s)) \in Seq(X)
        /\ Len(SubSeq(s, i, Len(s))) = IF i <= Len(s) THEN Len(s) - i + 1 ELSE 0
        /\ \A k \in 1..(Len(s) - i + 1) : SubSeq(s, i, Len(s))[k] = s[i + k - 1]
    BY <2>1, <2>2, SubSeqProperties
  <2> QED BY <2>3, <1>1
<1> HIDE DEF a, b
<1>5. <<e>> \in Seq(X) /\ Len(<<e>>) = 1 /\ <<e>>[1] = e OBVIOUS
<1>6. /\ a \o <<e>> \in Seq(X) /\ Len(a \o <<e>>) = i
      /\ \A k \in 1..i : (a \o <<e>>)[k] = IF k < i THEN a[k] ELSE e
  <2>1. /\ a \o <<e>> \in Seq(X)
        /\ Len(a \o <<e>>) = Len(a) + Len(<<e>>)
        /\ \A k \in 1..(Len(a) + Len(<<e>>)) : (a \o <<e>>)[k] =
              IF k <= Len(a) THEN a[k] ELSE <<e>>[k - Len(a)]
    BY <1>3, <1>5, ConcatProperties
  <2> QED BY <2>1, <1>1, <1>3, <1>5
<1>7. /\ (a \o <<e>>) \o b \in Seq(X)
      /\ Len((a \o <<e>>) \o b) = Len(s) + 1
      /\ \A k \in 1..(Len(s) + 1) : ((a \o <<e>>) \o b)[k] =
            IF k <= i THEN (a \o <<e>>)[k] ELSE b[k - i]
  <2> DEFINE c == a \o <<e>>
  <2>1. c \in Seq(X) /\ Len(c) = i BY <1>6
  <2> HIDE DEF c
  <2>2. /\ c \o b \in Seq(X)
        /\ Len(c \o b) = Len(c) + Len(b)
        /\ \A k \in 1..(Len(c) + Len(b)) : (c \o b)[k] =
              IF k <= Len(c) THEN c[k] ELSE b[k - Len(c)]
    BY <2>1, <1>4, ConcatProperties
  <2>3. Len(c) + Len(b) = Len(s) + 1 BY <2>1, <1>1, <1>4
  <2>4. /\ c \o b \in Seq(X)
        /\ Len(c \o b) = Len(s) + 1
        /\ \A k \in 1..(Len(s) + 1) : (c \o b)[k] = IF k <= i THEN c[k] ELSE b[k - i]
    BY <2>1, <2>2, <2>3
  <2> QED BY <2>4 DEF c
<1>8. ASSUME NEW k \in 1..(Len(s) + 1) PROVE ((a \o <<e>>) \o b)[k] = t[k]
  <2>1. CASE k < i BY <2>1, <1>1, <1>3, <1>6, <1>7
  <2>2. CASE k = i BY <2>2, <1>1, <1>6, <1>7
  <2>3. CASE k > i
    <3>1. k - i \in 1..(Len(s) - i + 1) /\ i + (k - i) - 1 = k - 1 BY <2>3, <1>1
    <3>2. b[k - i] = s[k - 1] BY <3>1, <1>4
    <3> QED BY <2>3, <3>2, <1>1, <1>7
  <2>4. k < i \/ k = i \/ k > i BY <1>1
  <2> QED BY <2>1, <2>2, <2>3, <2>4, Zenon
<1> QED BY <1>7, <1>8, SeqEqual DEF a, b

LEMMA DeletedSeq ==
    ASSUME NEW X, NEW s \in Seq(X), NEW t \in Seq(X), NEW i \in 1..Len(s),
           Len(t) = Len(s) - 1,
           \A k \in 1..(Len(s) - 1) : t[k] = IF k < i THEN s[k] ELSE s[k + 1]
    PROVE  t = SubSeq(s, 1, i - 1) \o SubSeq(s, i + 1, Len(s))
<1> DEFINE a == SubSeq(s, 1, i - 1)
           b == SubSeq(s, i + 1, Len(s))
<1>1. Len(s) \in Nat BY LenProperties
<1>2. \A k \in 1..Len(s) : s[k] \in X BY ElementOfSeq
<1>3. /\ a \in Seq(X) /\ Len(a) = i - 1
      /\ \A k \in 1..(i - 1) : a[k] = s[k]
  <2>1. \A k \in 1..(i - 1) : s[k] \in X BY <1>1, <1>2
  <2>2. /\ SubSeq(s, 1, i - 1) \in Seq(X)
        /\ Len(SubSeq(s, 1, i - 1)) = IF 1 <= i - 1 THEN (i - 1) - 1 + 1 ELSE 0
        /\ \A k \in 1..((i - 1) - 1 + 1) : SubSeq(s, 1, i - 1)[k] = s[1 + k - 1]
    BY <2>1, <1>1, SubSeqProperties
  <2> QED BY <2>2, <1>1
<1>4. /\ b \in Seq(X) /\ Len(b) = Len(s) - i
      /\ \A k \in 1..(Len(s) - i) : b[k] = s[i + k]
  <2>1. \A k \in (i + 1)..Len(s) : s[k] \in X BY <1>1, <1>2
  <2>2. i + 1 \in Int /\ Len(s) \in Int BY <1>1
  <2>3. /\ SubSeq(s, i + 1, Len(s)) \in Seq(X)
        /\ Len(SubSeq(s, i + 1, Len(s))) = IF i + 1 <= Len(s) THEN Len(s) - (i + 1) + 1 ELSE 0
        /\ \A k \in 1..(Len(s) - (i + 1) + 1) :
              SubSeq(s, i + 1, Len(s))[k] = s[(i + 1) + k - 1]
    BY <2>1, <2>2, SubSeqProperties
  <2> QED BY <2>3, <1>1
<1> HIDE DEF a, b
<1>5. /\ a \o b \in Seq(X)
      /\ Len(a \o b) = Len(s) - 1
      /\ \A k \in 1..(Len(s) - 1) : (a \o b)[k] =
            IF k <= i - 1 THEN a[k] ELSE b[k - (i - 1)]
  <2>1. /\ a \o b \in Seq(X)
        /\ Len(a \o b) = Len(a) + Len(b)
        /\ \A k \in 1..(Len(a) + Len(b)) : (a \o b)[k] =
              IF k <= Len(a) THEN a[k] ELSE b[k - Len(a)]
    BY <1>3, <1>4, ConcatProperties
  <2>2. Len(a) + Len(b) = Len(s) - 1 BY <1>1, <1>3, <1>4
  <2> QED BY <2>1, <2>2, <1>3
<1>6. ASSUME NEW k \in 1..(Len(s) - 1) PROVE (a \o b)[k] = t[k]
  <2>1. CASE k < i
    <3>1. k \in 1..(i - 1) /\ k <= i - 1 BY <2>1, <1>1
    <3>2. (a \o b)[k] = a[k] /\ a[k] = s[k] BY <3>1, <1>3, <1>5
    <3> QED BY <2>1, <3>2
  <2>2. CASE k >= i
    <3>1. k - (i - 1) \in 1..(Len(s) - i) /\ i + (k - (i - 1)) = k + 1 BY <2>2, <1>1
    <3>2. b[k - (i - 1)] = s[k + 1] BY <3>1, <1>4
    <3> QED BY <2>2, <3>2, <1>1, <1>5
  <2>3. k < i \/ k >= i BY <1>1
  <2> QED BY <2>1, <2>2, <2>3, Zenon
<1> QED BY <1>5, <1>6, SeqEqual DEF a, b

LEMMA ContentsSeq ==
    ASSUME NEW v, WellFormed(v)
    PROVE  /\ Contents(v) \in Seq(Elem)
           /\ Len(Contents(v)) = v.len
           /\ DOMAIN Contents(v) = 1..v.len
           /\ \A i \in 1..v.len : Contents(v)[i] = v.mem[i - 1]
<1>1. /\ v.len \in Nat /\ v.alloc \in Nat /\ v.len <= v.alloc
      /\ DOMAIN v.mem = 0..(v.alloc - 1)
  BY DEF WellFormed
<1>2. \A i \in 1..v.len : i - 1 \in 0..(v.len - 1) /\ i - 1 \in 0..(v.alloc - 1)
  BY <1>1
<1>3. \A i \in 1..v.len : Contents(v)[i] = v.mem[i - 1]
  BY <1>1, <1>2 DEF Contents, ReadAt
<1>4. Contents(v) \in [1..v.len -> Elem]
  <2>1. \A i \in 1..v.len : ReadAt(v.mem, i - 1) \in Elem
    BY <1>1, <1>2 DEF ReadAt, WellFormed
  <2> QED BY <2>1 DEF Contents
<1> QED BY <1>1, <1>3, <1>4

LEMMA InsertIsListInsert ==
    ASSUME NEW v, WellFormed(v), NEW e \in Elem, NEW p \in 0..v.len
    PROVE  LET c == Contents(v) IN
           Contents(Inserted(v, e, p)) =
               SubSeq(c, 1, (p + 1) - 1) \o <<e>> \o SubSeq(c, p + 1, Len(c))
<1> DEFINE w == Inserted(v, e, p)
           c == Contents(v)
           d == Contents(w)
<1>1. /\ WellFormed(w) /\ w.len = v.len + 1
      /\ \A i \in 0..v.len : w.mem[i] = IF i < p THEN v.mem[i]
                                       ELSE IF i = p THEN e ELSE v.mem[i - 1]
  BY InsertedElements
<1> HIDE DEF w
<1>2. /\ c \in Seq(Elem) /\ Len(c) = v.len
      /\ \A i \in 1..v.len : c[i] = v.mem[i - 1]
  BY ContentsSeq
<1>3. /\ d \in Seq(Elem) /\ Len(d) = v.len + 1
      /\ \A i \in 1..(v.len + 1) : d[i] = w.mem[i - 1]
  BY <1>1, ContentsSeq
<1>4. v.len \in Nat /\ p \in Nat BY DEF WellFormed
<1> HIDE DEF c, d
<1>5. ASSUME NEW k \in 1..(v.len + 1)
      PROVE  d[k] = IF k < p + 1 THEN c[k] ELSE IF k = p + 1 THEN e ELSE c[k - 1]
  <2>1. /\ k - 1 \in 0..v.len
        /\ d[k] = w.mem[k - 1]
        /\ w.mem[k - 1] = IF k - 1 < p THEN v.mem[k - 1]
                          ELSE IF k - 1 = p THEN e ELSE v.mem[(k - 1) - 1]
    BY <1>1, <1>3, <1>4
  <2>2. CASE k < p + 1
    <3>1. k \in 1..v.len /\ k - 1 < p BY <2>2, <1>4
    <3> QED BY <2>1, <2>2, <3>1, <1>2
  <2>3. CASE k = p + 1 BY <2>1, <2>3, <1>4
  <2>4. CASE k > p + 1
    <3>1. k - 1 \in 1..v.len /\ ~(k - 1 < p) /\ k - 1 # p BY <2>4, <1>4
    <3>2. d[k] = c[k - 1] BY <2>1, <3>1, <1>2
    <3> QED BY <2>4, <3>2, <1>4
  <2>5. k < p + 1 \/ k = p + 1 \/ k > p + 1 BY <1>4
  <2> QED BY <2>2, <2>3, <2>4, <2>5, Zenon
<1>6. p + 1 \in 1..(Len(c) + 1) BY <1>2, <1>4
<1>7. d = SubSeq(c, 1, (p + 1) - 1) \o <<e>> \o SubSeq(c, p + 1, Len(c))
  <2> DEFINE i == p + 1
  <2>1. i \in 1..(Len(c) + 1) /\ Len(d) = Len(c) + 1 BY <1>2, <1>3, <1>6
  <2>2. \A k \in 1..(Len(c) + 1) :
           d[k] = IF k < i THEN c[k] ELSE IF k = i THEN e ELSE c[k - 1]
    BY <1>2, <1>5
  <2> HIDE DEF i
  <2>3. d = SubSeq(c, 1, i - 1) \o <<e>> \o SubSeq(c, i, Len(c))
    BY <2>1, <2>2, <1>2, <1>3, InsertedSeq
  <2> QED BY <2>3 DEF i
<1> QED BY <1>7 DEF c, d, w

LEMMA DeleteIsListDelete ==
    ASSUME NEW v, WellFormed(v), NEW p \in 0..(v.len - 1)
    PROVE  LET c == Contents(v) IN
           Contents(Deleted(v, p)) =
               SubSeq(c, 1, (p + 1) - 1) \o SubSeq(c, (p + 1) + 1, Len(c))
<1> DEFINE w == Deleted(v, p)
           c == Contents(v)
           d == Contents(w)
<1>1. /\ WellFormed(w) /\ w.len = v.len - 1
      /\ \A i \in 0..(v.len - 2) : w.mem[i] = IF i < p THEN v.mem[i] ELSE v.mem[i + 1]
  BY DeletedElements
<1> HIDE DEF w
<1>2. /\ c \in Seq(Elem) /\ Len(c) = v.len
      /\ \A i \in 1..v.len : c[i] = v.mem[i - 1]
  BY ContentsSeq
<1>3. /\ d \in Seq(Elem) /\ Len(d) = v.len - 1
      /\ \A i \in 1..(v.len - 1) : d[i] = w.mem[i - 1]
  BY <1>1, ContentsSeq
<1>4. v.len \in Nat /\ p \in Nat /\ p < v.len BY DEF WellFormed
<1> HIDE DEF c, d
<1>5. ASSUME NEW k \in 1..(v.len - 1)
      PROVE  d[k] = IF k < p + 1 THEN c[k] ELSE c[k + 1]
  <2>1. k \in Nat /\ k - 1 \in 0..(v.len - 2) BY <1>4
  <2>2. d[k] = IF k - 1 < p THEN v.mem[k - 1] ELSE v.mem[(k - 1) + 1]
    BY <2>1, <1>1, <1>3
  <2>3. /\ k \in 1..v.len /\ k + 1 \in 1..v.len
        /\ (k - 1) + 1 = (k + 1) - 1
        /\ k - 1 < p <=> k < p + 1
    BY <2>1, <1>4
  <2> QED BY <2>2, <2>3, <1>2
<1>6. p + 1 \in 1..Len(c) BY <1>2, <1>4
<1>7. d = SubSeq(c, 1, (p + 1) - 1) \o SubSeq(c, (p + 1) + 1, Len(c))
  <2> DEFINE i == p + 1
  <2>1. i \in 1..Len(c) /\ Len(d) = Len(c) - 1 BY <1>2, <1>3, <1>6
  <2>2. \A k \in 1..(Len(c) - 1) : d[k] = IF k < i THEN c[k] ELSE c[k + 1]
    BY <1>2, <1>5
  <2> HIDE DEF i
  <2>3. d = SubSeq(c, 1, i - 1) \o SubSeq(c, i + 1, Len(c))
    BY <2>1, <2>2, <1>2, <1>3, DeletedSeq
  <2> QED BY <2>3 DEF i
<1> QED BY <1>7 DEF c, d, w

LEMMA ReplaceIsListReplace ==
    ASSUME NEW v, WellFormed(v), NEW e \in Elem, NEW p \in 0..(v.len - 1)
    PROVE  Contents(Replaced(v, e, p)) = [Contents(v) EXCEPT ![p + 1] = e]
<1> DEFINE w == Replaced(v, e, p)
           c == Contents(v)
           d == Contents(w)
<1>1. /\ WellFormed(w) /\ w.len = v.len
      /\ \A i \in 0..(v.len - 1) : w.mem[i] = IF i = p THEN e ELSE v.mem[i]
  BY ReplacedElements
<1> HIDE DEF w
<1>2. /\ c \in Seq(Elem) /\ Len(c) = v.len
      /\ \A i \in 1..v.len : c[i] = v.mem[i - 1]
  BY ContentsSeq
<1>3. /\ d \in Seq(Elem) /\ Len(d) = v.len
      /\ \A i \in 1..v.len : d[i] = w.mem[i - 1]
  BY <1>1, ContentsSeq
<1>4. v.len \in Nat /\ p \in Nat /\ p < v.len BY DEF WellFormed
<1> HIDE DEF c, d
<1>5. /\ [c EXCEPT ![p + 1] = e] \in Seq(Elem)
      /\ Len([c EXCEPT ![p + 1] = e]) = v.len
      /\ \A k \in 1..v.len : [c EXCEPT ![p + 1] = e][k] = IF k = p + 1 THEN e ELSE c[k]
  BY <1>2, <1>4, ExceptSeq
<1>6. ASSUME NEW k \in 1..v.len PROVE d[k] = [c EXCEPT ![p + 1] = e][k]
  <2>1. k - 1 \in 0..(v.len - 1) /\ (k - 1 = p <=> k = p + 1) BY <1>4
  <2> QED BY <2>1, <1>1, <1>2, <1>3, <1>5
<1>7. d = [c EXCEPT ![p + 1] = e] BY <1>3, <1>5, <1>6, SeqEqual
<1> QED BY <1>7 DEF c, d, w

\* A sequence of n elements is permuted as its positions are, counted from 0
\* or from 1.
LEMMA SortIsListSort ==
    ASSUME NEW v, WellFormed(v), NEW w \in SortedArrays(v)
    PROVE  LET c == Contents(v) IN
           \E f \in Bijection(DOMAIN c, DOMAIN c) :
              /\ Contents(w) = [i \in DOMAIN c |-> c[f[i]]]
              /\ \A i, j \in DOMAIN c : i < j => Rank[c[f[i]]] <= Rank[c[f[j]]]
<1> DEFINE used == 0..(v.len - 1)
           c == Contents(v)
           d == Contents(w)
<1>1. WellFormed(w) /\ w.len = v.len /\ SortedFrom(w, 0) BY SortedElements
<1>2. PICK g \in Bijection(used, used) : \A i \in used : w.mem[i] = v.mem[g[i]]
  BY SortedElements
<1>3. v.len \in Nat BY DEF WellFormed
<1>4. /\ c \in Seq(Elem) /\ DOMAIN c = 1..v.len
      /\ \A i \in 1..v.len : c[i] = v.mem[i - 1]
  BY ContentsSeq
<1>5. /\ d \in Seq(Elem) /\ DOMAIN d = 1..v.len
      /\ \A i \in 1..v.len : d[i] = w.mem[i - 1]
  BY <1>1, ContentsSeq
<1> HIDE DEF c, d
<1> DEFINE f == [i \in 1..v.len |-> g[i - 1] + 1]
<1>6. /\ g \in [used -> used]
      /\ \A i, j \in used : g[i] = g[j] => i = j
      /\ \A j \in used : \E i \in used : g[i] = j
  BY DEF Bijection, Injection, Surjection, IsInjective
<1>7. \A i \in 1..v.len : i - 1 \in used /\ g[i - 1] \in used /\ f[i] = g[i - 1] + 1
  <2>1. \A i \in 1..v.len : i - 1 \in used BY <1>3
  <2> HIDE DEF used
  <2>2. \A i \in 1..v.len : g[i - 1] \in used BY <2>1, <1>6
  <2> QED BY <2>1, <2>2
<1>8. \A k \in used : k \in Int /\ k + 1 \in 1..v.len /\ (k + 1) - 1 = k BY <1>3
<1>9. f \in [1..v.len -> 1..v.len] BY <1>7, <1>8
<1> HIDE DEF f, used
<1>10. ASSUME NEW i \in 1..v.len, NEW j \in 1..v.len, f[i] = f[j] PROVE i = j
  <2>1. g[i - 1] = g[j - 1] BY <1>7, <1>8, <1>10
  <2>2. i - 1 = j - 1 BY <2>1, <1>6, <1>7
  <2> QED BY <2>2, <1>3
<1>11. ASSUME NEW j \in 1..v.len PROVE \E i \in 1..v.len : f[i] = j
  <2>1. j - 1 \in used BY <1>7
  <2>2. PICK k \in used : g[k] = j - 1 BY <2>1, <1>6
  <2>3. k + 1 \in 1..v.len /\ f[k + 1] = g[k] + 1 BY <1>7, <1>8
  <2>4. (j - 1) + 1 = j BY <1>3
  <2> QED BY <2>2, <2>3, <2>4
<1>12. f \in Bijection(1..v.len, 1..v.len)
  BY <1>9, <1>10, <1>11 DEF Bijection, Injection, Surjection, IsInjective
<1>13. ASSUME NEW i \in 1..v.len PROVE d[i] = c[f[i]]
  <2>1. d[i] = v.mem[g[i - 1]] BY <1>2, <1>5, <1>7
  <2>2. f[i] \in 1..v.len /\ f[i] - 1 = g[i - 1] BY <1>7, <1>8, <1>9
  <2> QED BY <2>1, <2>2, <1>4
<1>14. d = [i \in 1..v.len |-> c[f[i]]]
  <2>1. d \in [1..v.len -> Elem] BY <1>5, LenProperties
  <2> QED BY <2>1, <1>13
<1>15. ASSUME NEW i \in 1..v.len, NEW j \in 1..v.len, i < j
       PROVE  Rank[c[f[i]]] <= Rank[c[f[j]]]
  <2>1. i - 1 \in 0..(w.len - 1) /\ j - 1 \in 0..(w.len - 1) /\ i - 1 < j - 1
    BY <1>1, <1>3, <1>15
  <2>2. Rank[w.mem[i - 1]] <= Rank[w.mem[j - 1]] BY <2>1, <1>1 DEF SortedFrom
  <2> QED BY <2>2, <1>5, <1>13
<1>16. \E h \in Bijection(DOMAIN c, DOMAIN c) :
          /\ d = [i \in DOMAIN c |-> c[h[i]]]
          /\ \A i, j \in DOMAIN c : i < j => Rank[c[h[i]]] <= Rank[c[h[j]]]
  <2>1. f \in Bijection(DOMAIN c, DOMAIN c) BY <1>4, <1>12
  <2>2. d = [i \in DOMAIN c |-> c[f[i]]] BY <1>4, <1>14
  <2>3. \A i, j \in DOMAIN c : i < j => Rank[c[f[i]]] <= Rank[c[f[j]]]
    BY <1>4, <1>15
  <2> QED BY <2>1, <2>2, <2>3
<1> QED BY <1>16 DEF c, d

LEMMA EmptyContents ==
    ASSUME NEW v, v.len = 0
    PROVE  Contents(v) = <<>>
<1>1. 1..v.len = {} OBVIOUS
<1> QED BY <1>1 DEF Contents

LEMMA VectorInitIsListInit == VectorInit => L!Init
<1> SUFFICES ASSUME VectorInit PROVE Seen = <<>> BY DEF L!Init
<1>1. PICK frees \in BOOLEAN : vec = NewVector(0, frees) BY DEF VectorInit
<1>2. vec.len = 0 BY <1>1, NewWellFormed
<1> QED BY <1>2, EmptyContents DEF Seen, VectorInit

\* In order as the array has them, in order as the client sees them.
LEMMA InOrderContents ==
    ASSUME NEW v, WellFormed(v)
    PROVE  SortedFrom(v, 0) <=> L!InOrder(Contents(v))
<1>1. /\ v.len \in Nat /\ DOMAIN Contents(v) = 1..v.len
      /\ \A i \in 1..v.len : Contents(v)[i] = v.mem[i - 1]
  BY ContentsSeq DEF WellFormed
<1> DEFINE c == Contents(v)
<1> HIDE DEF c
<1>2. ASSUME SortedFrom(v, 0), NEW i \in DOMAIN c, NEW j \in DOMAIN c, i < j
      PROVE  Rank[c[i]] <= Rank[c[j]]
  <2>1. i - 1 \in 0..(v.len - 1) /\ j - 1 \in 0..(v.len - 1) /\ i - 1 < j - 1
    BY <1>1, <1>2 DEF c
  <2> QED BY <1>1, <1>2, <2>1 DEF c, SortedFrom
<1>3. ASSUME L!InOrder(c), NEW i \in 0..(v.len - 1), NEW j \in 0..(v.len - 1), i < j
      PROVE  Rank[v.mem[i]] <= Rank[v.mem[j]]
  <2>1. /\ i + 1 \in 1..v.len /\ j + 1 \in 1..v.len /\ i + 1 < j + 1
        /\ (i + 1) - 1 = i /\ (j + 1) - 1 = j
    BY <1>1, <1>3
  <2>2. c[i + 1] = v.mem[i] /\ c[j + 1] = v.mem[j]
    BY <1>1, <2>1 DEF c
  <2>3. Rank[c[i + 1]] <= Rank[c[j + 1]]
    BY <1>1, <1>3, <2>1 DEF c, L!InOrder
  <2> QED BY <2>2, <2>3
<1> QED BY <1>2, <1>3 DEF c, SortedFrom, L!InOrder

\* An element inserted where bsearch1 says leaves the array sorted.
LEMMA InsertedSorted ==
    ASSUME NEW v, WellFormed(v), SortedFrom(v, 0), NEW e \in Elem
    PROVE  SortedFrom(Inserted(v, e, InsertionPoint(v, e)), 0)
<1> DEFINE p == InsertionPoint(v, e)
           w == Inserted(v, e, p)
<1>1. /\ p \in 0..v.len
      /\ \A i \in 0..(v.len - 1) : IF i < p THEN Rank[v.mem[i]] <= Rank[e]
                                   ELSE Rank[e] <= Rank[v.mem[i]]
  BY PlaceKeepsOrder
<1> HIDE DEF p
<1>2. /\ w.len = v.len + 1
      /\ \A i \in 0..v.len : w.mem[i] = IF i < p THEN v.mem[i]
                                        ELSE IF i = p THEN e ELSE v.mem[i - 1]
  BY <1>1, InsertedElements
<1>3. v.len \in Nat /\ \A i \in 0..(v.len - 1) : v.mem[i] \in Elem
  BY DEF WellFormed
<1>4. Rank \in [Elem -> Nat]
  BY ElemAssumption
<1>5. \A i, j \in 0..(v.len - 1) : i < j => Rank[v.mem[i]] <= Rank[v.mem[j]]
  BY DEF SortedFrom
<1> HIDE DEF w
<1>6. ASSUME NEW i \in 0..v.len, NEW j \in 0..v.len, i < j
      PROVE  Rank[w.mem[i]] <= Rank[w.mem[j]]
  <2>1. CASE j < p
    BY <1>1, <1>2, <1>3, <1>5, <1>6, <2>1
  <2>2. CASE j = p
    BY <1>1, <1>2, <1>3, <1>6, <2>2
  <2>3. CASE p < j
    <3>1. j - 1 \in 0..(v.len - 1) /\ ~(j - 1 < p) /\ w.mem[j] = v.mem[j - 1]
      BY <1>1, <1>2, <1>3, <2>3
    <3>2. CASE i < p
      BY <1>1, <1>2, <1>3, <1>5, <3>1, <3>2
    <3>3. CASE i = p
      BY <1>1, <1>2, <3>1, <3>3
    <3>4. CASE p < i
      <4>1. i - 1 \in 0..(v.len - 1) /\ i - 1 < j - 1 /\ w.mem[i] = v.mem[i - 1]
        BY <1>1, <1>2, <1>3, <1>6, <3>4
      <4> QED BY <1>5, <3>1, <4>1
    <3> QED BY <1>1, <3>2, <3>3, <3>4
  <2> QED BY <1>1, <2>1, <2>2, <2>3
<1>7. 0..(w.len - 1) = 0..v.len
  BY <1>2, <1>3
<1> QED BY <1>6, <1>7 DEF w, p, SortedFrom

LEMMA AbortDoesNothing == Abort => status' = "aborted" /\ (status = "live" => Seen' = Seen)
BY DEF Abort, Seen, Contents

\* What an insertion that returns has done.
LEMMA InsertTakesEffect ==
    ASSUME VectorInv, NEW e \in Elem, NEW position, VectorInsert(e, position)
    PROVE  /\ Does(L!Insert(e, position + 1))
           /\ \/ status' = "aborted" /\ Seen' = Seen
              \/ /\ position \in 0..vec.len /\ position + 1 \in 1..(Len(Seen) + 1)
                 /\ status' = "live"
                 /\ Seen = Contents(vec)
                 /\ Seen' = Contents(Inserted(vec, e, position))
                 /\ L!Insert(e, position + 1)
<1>1. WellFormed(vec) /\ vec.len \in Nat BY DEF VectorInv, VectorTypeOK, WellFormed
<1>2. CASE Abort BY <1>2, AbortDoesNothing DEF VectorInsert, Does
<1>3. CASE ~Abort
  <2>1. /\ position \in 0..vec.len /\ vec' = Inserted(vec, e, position)
        /\ status = "live" /\ status' = "live"
    BY <1>3 DEF VectorInsert
  <2>2. Seen = Contents(vec) /\ Seen' = Contents(Inserted(vec, e, position))
    BY <2>1 DEF Seen, Contents
  <2>3. L!Insert(e, position + 1)
    BY <1>1, <2>1, <2>2, InsertIsListInsert DEF L!Insert
  <2>4. position + 1 \in 1..(Len(Seen) + 1)
    BY <1>1, <2>1, <2>2, ContentsSeq
  <2> QED BY <2>1, <2>2, <2>3, <2>4 DEF Does
<1> QED BY <1>2, <1>3

LEMMA InsertSortedTakesEffect ==
    ASSUME VectorInv, NEW e \in Elem, VectorInsertSorted(e)
    PROVE  Does(L!InsertSorted(e))
<1> DEFINE p == InsertionPoint(vec, e)
<1>1. SortedFrom(vec, 0) /\ VectorInsert(e, p) BY DEF VectorInsertSorted
<1> HIDE DEF p
<1>2. CASE status' = "aborted" /\ Seen' = Seen BY <1>2 DEF Does
<1>3. CASE /\ p \in 0..vec.len /\ p + 1 \in 1..(Len(Seen) + 1)
           /\ status' = "live"
           /\ Seen = Contents(vec)
           /\ Seen' = Contents(Inserted(vec, e, p))
           /\ L!Insert(e, p + 1)
  <2>1. WellFormed(vec) BY DEF VectorInv, VectorTypeOK
  <2>2. WellFormed(Inserted(vec, e, p)) BY <1>3, <2>1, InsertedElements
  <2>3. SortedFrom(Inserted(vec, e, p), 0) BY <1>1, <2>1, InsertedSorted DEF p
  <2>4. L!InOrder(Seen) BY <1>1, <1>3, <2>1, InOrderContents
  <2>5. L!InOrder(Contents(Inserted(vec, e, p))) BY <2>2, <2>3, InOrderContents
  <2>6. L!InOrder(Seen') BY <1>3, <2>5
  <2> QED BY <1>3, <2>4, <2>6 DEF Does, L!InsertSorted
<1> QED BY <1>1, <1>2, <1>3, InsertTakesEffect

LEMMA ReplaceTakesEffect ==
    ASSUME VectorInv, NEW e \in Elem, NEW position \in Int, VectorReplace(e, position)
    PROVE  /\ Does(L!Replace(e, position + 1))
           /\ \/ Seen' = Seen
              \/ position + 1 \in DOMAIN Seen /\ L!Replace(e, position + 1)
<1>1. WellFormed(vec) /\ vec.len \in Nat BY DEF VectorInv, VectorTypeOK, WellFormed
<1>2. CASE Abort BY <1>2, AbortDoesNothing DEF VectorReplace, Does
<1>3. CASE ~Abort
  <2>1. /\ InBounds(vec, position) /\ vec' = Replaced(vec, e, position)
        /\ status = "live" /\ status' = "live"
    BY <1>3 DEF VectorReplace
  <2>2. Seen = Contents(vec) /\ Seen' = Contents(Replaced(vec, e, position))
    BY <2>1 DEF Seen, Contents
  <2>3. position \in 0..(vec.len - 1) /\ position + 1 \in 1..vec.len
    BY <1>1, <2>1 DEF InBounds
  <2>4. L!Replace(e, position + 1)
    BY <1>1, <2>2, <2>3, ReplaceIsListReplace DEF L!Replace
  <2>5. position + 1 \in DOMAIN Seen BY <1>1, <2>2, <2>3, ContentsSeq
  <2> QED BY <2>1, <2>4, <2>5 DEF Does
<1> QED BY <1>2, <1>3

LEMMA DeleteTakesEffect ==
    ASSUME VectorInv, NEW position \in Int, VectorDelete(position)
    PROVE  /\ Does(L!Delete(position + 1))
           /\ \/ Seen' = Seen
              \/ position + 1 \in DOMAIN Seen /\ L!Delete(position + 1)
<1>1. WellFormed(vec) /\ vec.len \in Nat BY DEF VectorInv, VectorTypeOK, WellFormed
<1>2. CASE Abort BY <1>2, AbortDoesNothing DEF VectorDelete, Does
<1>3. CASE ~Abort
  <2>1. /\ InBounds(vec, position) /\ vec' = Deleted(vec, position)
        /\ status = "live" /\ status' = "live"
    BY <1>3 DEF VectorDelete
  <2>2. Seen = Contents(vec) /\ Seen' = Contents(Deleted(vec, position))
    BY <2>1 DEF Seen, Contents
  <2>3. position \in 0..(vec.len - 1) /\ position + 1 \in 1..vec.len
    BY <1>1, <2>1 DEF InBounds
  <2>4. L!Delete(position + 1)
    BY <1>1, <2>2, <2>3, DeleteIsListDelete DEF L!Delete
  <2>5. position + 1 \in DOMAIN Seen BY <1>1, <2>2, <2>3, ContentsSeq
  <2> QED BY <2>1, <2>4, <2>5 DEF Does
<1> QED BY <1>2, <1>3

LEMMA SortTakesEffect ==
    ASSUME VectorInv, VectorSort
    PROVE  Does(L!Sort) /\ L!Sort
<1>1. WellFormed(vec) BY DEF VectorInv, VectorTypeOK
<1>2. /\ vec' \in SortedArrays(vec)
      /\ status = "live" /\ status' = "live"
  BY DEF VectorSort
<1>3. Seen = Contents(vec) /\ Seen' = Contents(vec')
  BY <1>2 DEF Seen, Contents
<1>4. \A D : L!Bijection(D, D) = Bijection(D, D)
  BY DEF L!Bijection, L!Injection, L!Surjection, L!IsInjective,
         Bijection, Injection, Surjection, IsInjective
<1>5. \E f \in Bijection(DOMAIN Seen, DOMAIN Seen) :
         /\ Seen' = [i \in DOMAIN Seen |-> Seen[f[i]]]
         /\ \A i, j \in DOMAIN Seen : i < j => Rank[Seen[f[i]]] <= Rank[Seen[f[j]]]
  BY <1>1, <1>2, <1>3, SortIsListSort
<1>6. L!Sort BY <1>4, <1>5 DEF L!Sort
<1> QED BY <1>2, <1>6 DEF Does

LEMMA NewTakesEffect ==
    ASSUME VectorInv, NEW n \in InitialAllocs, VectorNew(n)
    PROVE  Does(L!Clear) /\ Seen' = Seen
<1>1. WellFormed(vec) /\ vec.len \in Nat BY DEF VectorInv, VectorTypeOK, WellFormed
<1>2. n \in Int BY InitialAllocsAssumption
<1>3. Seen = <<>> BY EmptyContents DEF VectorNew, VectorInv, Seen
<1>4. vec'.len = 0
  <2>1. CASE n >= 0
    <3>1. vec' = NewVector(n, vec.frees) /\ n \in Nat BY <1>2, <2>1 DEF VectorNew
    <3>2. vec.frees \in BOOLEAN BY <1>1 DEF WellFormed
    <3> QED BY <3>1, <3>2, NewWellFormed
  <2>2. CASE n < 0 BY <1>1, <1>2, <2>2 DEF VectorNew, WellFormed
  <2> QED BY <1>2, <2>1, <2>2
<1>5. Contents(vec)' = <<>>
  <2>1. Contents(vec') = <<>> BY <1>4, EmptyContents
  <2> QED BY <2>1 DEF Contents
<1>6. Seen' = <<>> BY <1>5 DEF Seen
<1> QED BY <1>3, <1>6 DEF Does, L!Clear

LEMMA DisposeTakesEffect ==
    ASSUME VectorDispose
    PROVE  Does(L!Clear) /\ L!Clear
BY DEF VectorDispose, Does, L!Clear, Seen

\* Whichever call a step is, it does to the list what the call asks.
LEMMA CallsDo ==
    ASSUME VectorInv
    PROVE  CallsTakeEffect
<1>1. vec.len \in Nat BY DEF VectorInv, VectorTypeOK, WellFormed
<1>2. \A n \in InitialAllocs : VectorNew(n) => Does(L!Clear) BY NewTakesEffect
<1>3. VectorDispose => Does(L!Clear) BY DisposeTakesEffect
<1>4. ASSUME NEW e \in Elem
      PROVE  /\ VectorInsertSorted(e) => Does(L!InsertSorted(e))
             /\ VectorAppend(e) => Does(L!Insert(e, Len(Seen) + 1))
  <2>1. ASSUME VectorAppend(e) PROVE Does(L!Insert(e, Len(Seen) + 1))
    <3>1. Does(L!Insert(e, vec.len + 1)) BY <2>1, InsertTakesEffect DEF VectorAppend
    <3>2. status = "live" /\ WellFormed(vec)
      BY <2>1 DEF VectorAppend, VectorInsert, VectorInv, VectorTypeOK
    <3>3. Len(Seen) = vec.len BY <3>2, ContentsSeq DEF Seen
    <3> QED BY <3>1, <3>3
  <2> QED BY <2>1, InsertSortedTakesEffect
<1>5. ASSUME NEW position \in -1..(vec.len + 1)
      PROVE  /\ \A e \in Elem :
                   /\ VectorInsert(e, position) => Does(L!Insert(e, position + 1))
                   /\ VectorReplace(e, position) => Does(L!Replace(e, position + 1))
             /\ VectorDelete(position) => Does(L!Delete(position + 1))
  <2>1. position \in Int BY <1>1
  <2> QED BY <2>1, InsertTakesEffect, ReplaceTakesEffect, DeleteTakesEffect
<1>6. VectorSort => Does(L!Sort) BY SortTakesEffect
<1> QED BY <1>2, <1>3, <1>4, <1>5, <1>6 DEF CallsTakeEffect

\* Every step of the vector is a step of the list, or changes nothing the
\* client sees.
LEMMA VectorStepIsListStep ==
    ASSUME VectorInv, [VectorNext]_vecVars
    PROVE  [L!Next]_Seen
<1>1. vec.len \in Nat BY DEF VectorInv, VectorTypeOK, WellFormed
<1>2. CASE UNCHANGED vecVars BY <1>2 DEF vecVars, Seen, Contents
<1>3. CASE VectorNext
  <2>1. ASSUME NEW e \in Elem, NEW position, VectorInsert(e, position) PROVE [L!Next]_Seen
    BY <2>1, InsertTakesEffect DEF L!Next
  <2>2. ASSUME NEW position \in -1..(vec.len + 1), NEW e \in Elem, VectorReplace(e, position)
        PROVE  [L!Next]_Seen
    <3>1. position \in Int BY <1>1
    <3> QED BY <2>2, <3>1, ReplaceTakesEffect DEF L!Next
  <2>3. ASSUME NEW position \in -1..(vec.len + 1), VectorDelete(position) PROVE [L!Next]_Seen
    <3>1. position \in Int BY <1>1
    <3> QED BY <2>3, <3>1, DeleteTakesEffect DEF L!Next
  <2>4. ASSUME NEW e \in Elem, VectorInsertSorted(e) \/ VectorAppend(e) PROVE [L!Next]_Seen
    BY <2>1, <2>4 DEF VectorInsertSorted, VectorAppend
  <2>5. CASE VectorDispose BY <2>5, DisposeTakesEffect DEF L!Next
  <2>6. CASE VectorSort BY <2>6, SortTakesEffect DEF L!Next
  <2>7. ASSUME NEW n \in InitialAllocs, VectorNew(n) PROVE [L!Next]_Seen
    BY <2>7, NewTakesEffect
  <2> QED BY <1>3, <2>1, <2>2, <2>3, <2>4, <2>5, <2>6, <2>7 DEF VectorNext
<1> QED BY <1>2, <1>3

\* Through every growth of the array and every move inside it, a client of
\* the vector sees the list its calls make, each call doing what it asks.
THEOREM VectorImplementsList == VectorSpec => ImplementsList
<1>1. VectorInv /\ [VectorNext]_vecVars => [L!Next]_Seen BY VectorStepIsListStep
<1>2. VectorInv /\ [VectorNext]_vecVars => [CallsTakeEffect]_vecVars BY CallsDo
<1> QED BY <1>1, <1>2, VectorInitIsListInit, VectorInvAlways, PTL
        DEF VectorSpec, ImplementsList, L!Spec

-----------------------------------------------------------------------------
(***************************************************************************)
(* The hash set.  The inductive invariant.                                 *)
(***************************************************************************)
\* A bucket is sorted and has no two equal elements.
Ascending(v) == \A i, j \in 0..(v.len - 1) : i < j => Rank[v.mem[i]] < Rank[v.mem[j]]

BucketOK(v, b) ==
    /\ WellFormed(v) /\ v.frees = freefn /\ v.inc = BucketAlloc
    /\ Ascending(v)
    /\ \A i \in 0..(v.len - 1) : Hash[v.mem[i]] = b

IsMember(e) == \E b \in DOMAIN table : Holds(table[b], e)

\* Whoever has entered is a member, or has left and been released.
Owned(e) == /\ IsMember(e) => e \in entered
            /\ released[e] = IF e \in entered /\ ~IsMember(e) /\ freefn THEN 1 ELSE 0

SetTypes == /\ setStatus \in {"raw", "live", "disposed", "aborted"}
            /\ freefn \in BOOLEAN
            /\ entered \subseteq Elem
            /\ released \in [Elem -> Nat]

\* The buckets are numbered from 0 on; a set that is not in use has none.
Numbered == \E n \in Nat : DOMAIN table = 0..(n - 1)
Unused == setStatus \in {"raw", "disposed"} => DOMAIN table = {}

HashInv == /\ SetTypes
           /\ Numbered
           /\ Unused
           /\ \A b \in DOMAIN table : BucketOK(table[b], b)
           /\ \A e \in Elem : Owned(e)

-----------------------------------------------------------------------------
(* Ascending buckets.                                                       *)
LEMMA AscendingFacts ==
    ASSUME NEW v, WellFormed(v), Ascending(v)
    PROVE  /\ SortedFrom(v, 0)
           /\ Distinct(v)
           /\ \A i, j \in 0..(v.len - 1) : Rank[v.mem[i]] = Rank[v.mem[j]] => i = j
<1>1. /\ v.len \in Nat
      /\ \A i \in 0..(v.len - 1) : Rank[v.mem[i]] \in Nat
  BY ElemAssumption DEF WellFormed
<1>2. SortedFrom(v, 0)
  BY <1>1 DEF SortedFrom, Ascending
<1>3. \A i, j \in 0..(v.len - 1) : Rank[v.mem[i]] = Rank[v.mem[j]] => i = j
  BY <1>1 DEF Ascending
<1> QED BY <1>2, <1>3 DEF Distinct

\* An element replaces its equal and nothing moves.
LEMMA ReplacedAscending ==
    ASSUME NEW v, WellFormed(v), Ascending(v), NEW e \in Elem, NEW p \in 0..(v.len - 1),
           Rank[v.mem[p]] = Rank[e]
    PROVE  /\ Ascending(Replaced(v, e, p))
           /\ Replaced(v, e, p).inc = v.inc
<1> DEFINE w == Replaced(v, e, p)
<1>1. w.len = v.len /\ \A i \in 0..(v.len - 1) : w.mem[i] = IF i = p THEN e ELSE v.mem[i]
  BY ReplacedElements
<1>2. w.inc = v.inc
  BY DEF Replaced, WellFormed
<1> HIDE DEF w
<1>3. \A i \in 0..(v.len - 1) : Rank[w.mem[i]] = Rank[v.mem[i]]
  BY <1>1
<1>4. Ascending(w)
  BY <1>1, <1>3 DEF Ascending
<1> QED BY <1>2, <1>4 DEF w

\* bsearch1 places a new element where the bucket stays in order.
LEMMA InsertedAscending ==
    ASSUME NEW v, WellFormed(v), Ascending(v), NEW e \in Elem,
           \A i \in 0..(v.len - 1) : Rank[v.mem[i]] # Rank[e]
    PROVE  LET p == InsertionPoint(v, e)
               w == Inserted(v, e, p)
           IN  /\ p \in 0..v.len
               /\ Ascending(w)
               /\ w.inc = v.inc
<1> DEFINE p == InsertionPoint(v, e)
           w == Inserted(v, e, p)
<1>1. /\ p \in 0..v.len
      /\ \A i \in 0..(v.len - 1) : IF i < p THEN Rank[v.mem[i]] <= Rank[e]
                                   ELSE Rank[e] <= Rank[v.mem[i]]
  BY AscendingFacts, PlaceKeepsOrder
<1> HIDE DEF p
<1>2. /\ v.len \in Nat /\ p \in Nat /\ p <= v.len /\ Rank[e] \in Nat
      /\ \A i \in 0..(v.len - 1) : Rank[v.mem[i]] \in Nat
  BY <1>1, ElemAssumption DEF WellFormed
<1>3. /\ w.len = v.len + 1
      /\ \A i \in 0..v.len : w.mem[i] = IF i < p THEN v.mem[i]
                                       ELSE IF i = p THEN e ELSE v.mem[i - 1]
  BY <1>1, InsertedElements
<1>4. w.inc = v.inc
  <2>1. Grown(v).inc = v.inc /\ WellFormed(Grown(v))
    BY GrownWellFormed
  <2> DEFINE g == Grown(v)
  <2> HIDE DEF g
  <2>2. Shifted(g, p, 1) = [g EXCEPT !.mem = Moved(g.mem, p + 1, p, g.len - p),
                                     !.len = g.len + 1]
    BY DEF Shifted
  <2>3. Shifted(g, p, 1).inc = g.inc
    BY <2>1, <2>2 DEF WellFormed, g
  <2> DEFINE s == Shifted(g, p, 1)
  <2> HIDE DEF s
  <2>4. [s EXCEPT !.mem[p] = e].inc = s.inc
    OBVIOUS
  <2> QED BY <2>1, <2>3, <2>4 DEF Inserted, g, s
<1> HIDE DEF w
<1>5. \A i \in 0..(v.len - 1) : IF i < p THEN Rank[v.mem[i]] < Rank[e]
                                ELSE Rank[e] < Rank[v.mem[i]]
  BY <1>1, <1>2
<1>6. 0..(w.len - 1) = 0..v.len
  BY <1>2, <1>3
<1>7. ASSUME NEW i \in 0..v.len, NEW j \in 0..v.len, i < j
      PROVE  Rank[w.mem[i]] < Rank[w.mem[j]]
  <2>1. \A k \in 0..v.len : /\ k < p => k \in 0..(v.len - 1)
                            /\ k > p => k - 1 \in 0..(v.len - 1) /\ k - 1 >= p
    BY <1>1, <1>2
  <2>2. CASE j < p
    <3>1. /\ w.mem[i] = v.mem[i] /\ w.mem[j] = v.mem[j]
          /\ i \in 0..(v.len - 1) /\ j \in 0..(v.len - 1)
      BY <1>2, <1>3, <1>7, <2>2
    <3>2. Rank[v.mem[i]] < Rank[v.mem[j]]
      BY <1>7, <3>1 DEF Ascending
    <3> QED BY <3>1, <3>2
  <2>3. CASE j = p
    <3>1. w.mem[i] = v.mem[i] /\ w.mem[j] = e /\ i < p /\ i \in 0..(v.len - 1)
      BY <1>2, <1>3, <1>7, <2>3
    <3> QED BY <1>5, <3>1
  <2>4. CASE j > p
    <3>1. w.mem[j] = v.mem[j - 1] /\ j - 1 \in 0..(v.len - 1) /\ ~(j - 1 < p)
      BY <1>2, <1>3, <2>4
    <3>2. CASE i < p
      <4>1. w.mem[i] = v.mem[i] /\ i \in 0..(v.len - 1) /\ i < j - 1
        BY <1>2, <1>3, <2>4, <3>2
      <4> QED BY <3>1, <4>1 DEF Ascending
    <3>3. CASE i = p
      <4>1. w.mem[i] = e
        BY <1>3, <3>3
      <4> QED BY <1>5, <3>1, <4>1
    <3>4. CASE i > p
      <4>1. w.mem[i] = v.mem[i - 1] /\ i - 1 \in 0..(v.len - 1) /\ i - 1 < j - 1
        BY <1>2, <1>3, <1>7, <3>4
      <4> QED BY <3>1, <4>1 DEF Ascending
    <3> QED BY <1>2, <3>2, <3>3, <3>4
  <2> QED BY <1>2, <2>2, <2>3, <2>4
<1>8. Ascending(w)
  BY <1>6, <1>7 DEF Ascending
<1> QED BY <1>1, <1>4, <1>8 DEF p, w

-----------------------------------------------------------------------------
(* Members and their buckets.                                               *)

\* HashSetMap visits the members.
LEMMA MembersAre == \A e : e \in Members <=> IsMember(e)
BY DEF Members, IsMember, Holds

\* An element is looked for in the one bucket it can be in.
LEMMA MemberAtHome ==
    ASSUME HashInv, NEW e
    PROVE  IsMember(e) <=> HashInRange(e) /\ Holds(Bucket(e), e)
<1>1. ASSUME NEW b \in DOMAIN table, Holds(table[b], e) PROVE b = Hash[e]
  BY <1>1 DEF HashInv, BucketOK, Holds
<1> QED BY <1>1 DEF IsMember, HashInRange, Bucket

\* What VectorSearch says about a bucket.
LEMMA FoundAtFacts ==
    ASSUME HashInv, NEW e \in Elem, HashInRange(e)
    PROVE  /\ BucketOK(Bucket(e), Hash[e])
           /\ \/ /\ FoundAt(e) = -1
                 /\ \A i \in 0..(Bucket(e).len - 1) : Rank[Bucket(e).mem[i]] # Rank[e]
              \/ /\ FoundAt(e) # -1
                 /\ FoundAt(e) \in 0..(Bucket(e).len - 1)
                 /\ Rank[Bucket(e).mem[FoundAt(e)]] = Rank[e]
<1> DEFINE v == Bucket(e)
           equals == {i \in 0..(v.len - 1) : Rank[v.mem[i]] = Rank[e]}
<1>1. BucketOK(v, Hash[e])
  BY DEF HashInv, HashInRange, Bucket
<1>2. WellFormed(v) /\ SortedFrom(v, 0) /\ 0 \in 0..v.len /\ v.len \in Nat
  <2>1. WellFormed(v) /\ Ascending(v)
    BY <1>1 DEF BucketOK
  <2> HIDE DEF v
  <2>2. v.len \in Nat
    BY <2>1 DEF WellFormed
  <2> QED BY <2>1, <2>2, AscendingFacts
<1>3. IF equals = {} THEN FoundAt(e) = -1 ELSE FoundAt(e) \in equals
  <2> HIDE DEF v
  <2>1. IF equals = {} THEN Bsearch(v, e, 0) = -1 ELSE Bsearch(v, e, 0) \in equals
    BY <1>2, BinarySearchFinds
  <2> QED BY <2>1 DEF FoundAt, VectorSearch, v
<1> HIDE DEF v
<1>4. CASE equals = {}
  BY <1>1, <1>3, <1>4 DEF v
<1>5. CASE equals # {}
  <2>1. FoundAt(e) \in 0..(v.len - 1) /\ Rank[v.mem[FoundAt(e)]] = Rank[e]
    BY <1>3, <1>5
  <2>2. FoundAt(e) # -1
    BY <1>2, <2>1
  <2> QED BY <1>1, <2>1, <2>2 DEF v
<1> QED BY <1>4, <1>5

\* After one bucket has changed, the members are those of that bucket and,
\* as they were, of the others.
LEMMA OneBucketChanged ==
    ASSUME NEW b \in DOMAIN table, NEW w, table' = [table EXCEPT ![b] = w],
           \A c \in DOMAIN table : BucketOK(table[c], c), BucketOK(w, b), freefn' = freefn
    PROVE  /\ DOMAIN table' = DOMAIN table
           /\ (\A c \in DOMAIN table : BucketOK(table[c], c))'
           /\ \A x : IsMember(x)' <=> IF Hash[x] = b THEN Holds(w, x) ELSE IsMember(x)
<1>1. DOMAIN table' = DOMAIN table /\ table'[b] = w /\ \A c \in DOMAIN table \ {b} : table'[c] = table[c]
  OBVIOUS
<1>2. (\A c \in DOMAIN table : BucketOK(table[c], c))'
  <2>1. \A c \in DOMAIN table : BucketOK(table'[c], c)
    BY <1>1
  <2> QED BY <1>1, <2>1 DEF BucketOK
<1>3. \A x, c \in DOMAIN table : Holds(table[c], x) => Hash[x] = c
  BY DEF BucketOK, Holds
<1>4. \A x : Holds(w, x) => Hash[x] = b
  BY DEF BucketOK, Holds
<1>5. \A x : IsMember(x)' <=> \E c \in DOMAIN table : Holds(table'[c], x)
  BY <1>1 DEF IsMember, Holds
<1>6. ASSUME NEW x
      PROVE  IsMember(x)' <=> IF Hash[x] = b THEN Holds(w, x) ELSE IsMember(x)
  <2>1. ASSUME NEW c \in DOMAIN table, Holds(table[c], x) PROVE Hash[x] = c
    BY <2>1 DEF BucketOK, Holds
  <2> QED BY <1>1, <1>4, <1>5, <2>1 DEF IsMember
<1> QED BY <1>1, <1>2, <1>6

-----------------------------------------------------------------------------
(* What entering does to the members.                                       *)
BucketsOK == \A b \in DOMAIN table : BucketOK(table[b], b)

LEMMA MemberRanks ==
    ASSUME HashInv, NEW e \in Elem, HashInRange(e), NEW m \in Elem, IsMember(m), Rank[m] = Rank[e]
    PROVE  \E i \in 0..(Bucket(e).len - 1) : Bucket(e).mem[i] = m
<1>1. Hash[m] = Hash[e]
  BY HashAssumption
<1> QED BY <1>1, MemberAtHome DEF Bucket, Holds

LEMMA ReplaceEffect ==
    ASSUME HashInv, NEW e \in Elem, ~IsMember(e), HashInRange(e), ReplaceEqual(e), freefn' = freefn
    PROVE  \E old \in Elem :
              /\ IsMember(old) /\ Rank[old] = Rank[e] /\ old # e
              /\ \A m \in Elem : IsMember(m) /\ Rank[m] = Rank[e] => m = old
              /\ DOMAIN table' = DOMAIN table /\ BucketsOK'
              /\ \A x : IsMember(x)' <=> x = e \/ (IsMember(x) /\ x # old)
              /\ released' \in [Elem -> Nat]
              /\ \A x \in Elem : released'[x] = released[x] + (IF x = old /\ freefn THEN 1 ELSE 0)
<1> DEFINE v == Bucket(e)
           p == FoundAt(e)
           w == Replaced(v, e, p)
<1>1. BucketOK(v, Hash[e]) /\ p \in 0..(v.len - 1) /\ Rank[v.mem[p]] = Rank[e]
  BY FoundAtFacts DEF ReplaceEqual
<1>2. table' = [table EXCEPT ![Hash[e]] = w] /\ released' = Freed(released, v, {p})
  BY DEF ReplaceEqual, Bucket
<1>3. v = table[Hash[e]] /\ Hash[e] \in DOMAIN table
  BY DEF Bucket, HashInRange
<1> HIDE DEF v, p, w
<1>4. /\ WellFormed(v) /\ Ascending(v) /\ v.frees = freefn /\ v.inc = BucketAlloc
      /\ \A i \in 0..(v.len - 1) : v.mem[i] \in Elem /\ Hash[v.mem[i]] = Hash[e]
  BY <1>1 DEF BucketOK, WellFormed
<1>5. Distinct(v) /\ \A i, j \in 0..(v.len - 1) : Rank[v.mem[i]] = Rank[v.mem[j]] => i = j
  BY <1>4, AscendingFacts
<1>6. ~Holds(v, e)
  BY <1>3 DEF IsMember
<1>7. BucketOK(w, Hash[e])
  <2>1. /\ WellFormed(w) /\ w.len = v.len /\ w.frees = v.frees
        /\ \A i \in 0..(v.len - 1) : w.mem[i] = IF i = p THEN e ELSE v.mem[i]
    BY <1>1, <1>4, ReplacedElements DEF w
  <2>2. Ascending(w) /\ w.inc = v.inc
    BY <1>1, <1>4, ReplacedAscending DEF w
  <2> QED BY <1>4, <2>1, <2>2 DEF BucketOK
<1>8. \A x : Holds(w, x) <=> x = e \/ (Holds(v, x) /\ x # v.mem[p])
  BY <1>1, <1>4, <1>5, <1>6, ReplacedHolds DEF w
<1> DEFINE old == v.mem[p]
<1>9. old \in Elem /\ Holds(v, old) /\ old # e
  BY <1>1, <1>4, <1>6 DEF Holds
<1>10. IsMember(old) /\ Rank[old] = Rank[e]
  BY <1>1, <1>3, <1>9 DEF IsMember
<1>11. \A m \in Elem : IsMember(m) /\ Rank[m] = Rank[e] => m = old
  <2> SUFFICES ASSUME NEW m \in Elem, IsMember(m), Rank[m] = Rank[e] PROVE m = old
    OBVIOUS
  <2>1. PICK i \in 0..(v.len - 1) : v.mem[i] = m
    BY MemberRanks DEF v
  <2> QED BY <1>1, <1>5, <2>1
<1>12. /\ DOMAIN table' = DOMAIN table
       /\ BucketsOK'
       /\ \A x : IsMember(x)' <=> IF Hash[x] = Hash[e] THEN Holds(w, x) ELSE IsMember(x)
  <2>1. \A c \in DOMAIN table : BucketOK(table[c], c)
    BY DEF HashInv
  <2> QED BY <1>2, <1>3, <1>7, <2>1, OneBucketChanged DEF BucketsOK
<1>13. \A x : IsMember(x)' <=> x = e \/ (IsMember(x) /\ x # old)
  <2> SUFFICES ASSUME NEW x PROVE IsMember(x)' <=> x = e \/ (IsMember(x) /\ x # old)
    OBVIOUS
  <2>1. CASE Hash[x] = Hash[e]
    <3>1. IsMember(x) <=> Holds(v, x)
      BY <2>1, MemberAtHome DEF Bucket, HashInRange, v
    <3> QED BY <1>8, <1>12, <2>1, <3>1
  <2>2. CASE Hash[x] # Hash[e]
    <3>1. x # e /\ x # old
      BY <1>1, <1>4, <2>2
    <3> QED BY <1>12, <2>2, <3>1
  <2> QED BY <2>1, <2>2
<1>14. /\ released' \in [Elem -> Nat]
       /\ \A x \in Elem : released'[x] = released[x] + (IF x = old /\ freefn THEN 1 ELSE 0)
  <2>1. released \in [Elem -> Nat]
    BY DEF HashInv, SetTypes
  <2>2. CASE freefn
    <3>1. v.frees
      BY <1>4, <2>2
    <3>2. {p} \in SUBSET (0..(v.len - 1))
      BY <1>1
    <3>3. /\ released' \in [Elem -> Nat]
          /\ \A x \in Elem : released'[x] =
                released[x] + (IF \E i \in {p} : v.mem[i] = x THEN 1 ELSE 0)
      BY <1>2, <1>4, <1>5, <2>1, <3>1, <3>2, FreedOnce
    <3> QED BY <2>2, <3>3
  <2>3. CASE ~freefn
    <3>1. released' = released
      BY <1>2, <1>4, <2>3 DEF Freed
    <3> QED BY <2>1, <2>3, <3>1
  <2> QED BY <2>2, <2>3
<1> HIDE DEF old
<1> QED BY <1>9, <1>10, <1>11, <1>12, <1>13, <1>14

LEMMA InsertEffect ==
    ASSUME HashInv, NEW e \in Elem, ~IsMember(e), HashInRange(e), InsertNew(e), freefn' = freefn
    PROVE  /\ \A m \in Elem : IsMember(m) => Rank[m] # Rank[e]
           /\ DOMAIN table' = DOMAIN table /\ BucketsOK'
           /\ \A x : IsMember(x)' <=> x = e \/ IsMember(x)
           /\ released' = released
<1> DEFINE v == Bucket(e)
           p == InsertionPoint(v, e)
           w == Inserted(v, e, p)
<1>1. BucketOK(v, Hash[e]) /\ \A i \in 0..(v.len - 1) : Rank[v.mem[i]] # Rank[e]
  BY FoundAtFacts DEF InsertNew
<1>2. table' = [table EXCEPT ![Hash[e]] = w] /\ released' = released
  BY DEF InsertNew, Bucket
<1>3. v = table[Hash[e]] /\ Hash[e] \in DOMAIN table
  BY DEF Bucket, HashInRange
<1> HIDE DEF v
<1>4. /\ WellFormed(v) /\ Ascending(v) /\ v.frees = freefn /\ v.inc = BucketAlloc
      /\ \A i \in 0..(v.len - 1) : v.mem[i] \in Elem /\ Hash[v.mem[i]] = Hash[e]
      /\ v.len \in Nat
  BY <1>1 DEF BucketOK, WellFormed
<1>5. Distinct(v)
  BY <1>4, AscendingFacts
<1>6. ~Holds(v, e)
  BY <1>3 DEF IsMember
<1>7. p \in 0..v.len /\ Ascending(w) /\ w.inc = v.inc
  BY <1>1, <1>4, InsertedAscending
<1> HIDE DEF p, w
<1>8. BucketOK(w, Hash[e])
  <2>1. /\ WellFormed(w) /\ w.len = v.len + 1 /\ w.frees = v.frees
        /\ \A i \in 0..v.len : w.mem[i] = IF i < p THEN v.mem[i]
                                         ELSE IF i = p THEN e ELSE v.mem[i - 1]
    BY <1>4, <1>7, InsertedElements DEF w
  <2>2. \A i \in 0..(w.len - 1) : w.mem[i] = e \/ \E j \in 0..(v.len - 1) : w.mem[i] = v.mem[j]
    BY <1>4, <1>7, <2>1
  <2>3. \A i \in 0..(w.len - 1) : Hash[w.mem[i]] = Hash[e]
    BY <1>4, <2>2
  <2> QED BY <1>4, <1>7, <2>1, <2>3 DEF BucketOK
<1>9. \A x : Holds(w, x) <=> Holds(v, x) \/ x = e
  BY <1>4, <1>5, <1>6, <1>7, InsertedHolds DEF w
<1>10. /\ DOMAIN table' = DOMAIN table
       /\ BucketsOK'
       /\ \A x : IsMember(x)' <=> IF Hash[x] = Hash[e] THEN Holds(w, x) ELSE IsMember(x)
  <2>1. \A c \in DOMAIN table : BucketOK(table[c], c)
    BY DEF HashInv
  <2> QED BY <1>2, <1>3, <1>8, <2>1, OneBucketChanged DEF BucketsOK
<1>11. \A m \in Elem : IsMember(m) => Rank[m] # Rank[e]
  <2> SUFFICES ASSUME NEW m \in Elem, IsMember(m), Rank[m] = Rank[e] PROVE FALSE
    OBVIOUS
  <2>1. PICK i \in 0..(v.len - 1) : v.mem[i] = m
    BY MemberRanks DEF v
  <2> QED BY <1>1, <2>1
<1>12. \A x : IsMember(x)' <=> x = e \/ IsMember(x)
  <2> SUFFICES ASSUME NEW x PROVE IsMember(x)' <=> x = e \/ IsMember(x)
    OBVIOUS
  <2>1. CASE Hash[x] = Hash[e]
    <3>1. IsMember(x) <=> Holds(v, x)
      BY <2>1, MemberAtHome DEF Bucket, HashInRange, v
    <3> QED BY <1>9, <1>10, <2>1, <3>1
  <2>2. CASE Hash[x] # Hash[e]
    BY <1>10, <2>2
  <2> QED BY <2>1, <2>2
<1> QED BY <1>2, <1>10, <1>11, <1>12

-----------------------------------------------------------------------------
(* The invariant.                                                           *)
LEMMA HashInvInit == HashSetInit => HashInv
<1> SUFFICES ASSUME HashSetInit PROVE HashInv
  OBVIOUS
<1>1. DOMAIN table = {}
  BY DEF HashSetInit
<1>2. Numbered
  <2>1. 0 \in Nat /\ 0..(0 - 1) = {}
    OBVIOUS
  <2> QED BY <1>1, <2>1 DEF Numbered
<1>3. \A e : ~IsMember(e)
  BY <1>1 DEF IsMember
<1>4. SetTypes
  BY DEF HashSetInit, SetTypes
<1> QED BY <1>1, <1>2, <1>3, <1>4 DEF HashSetInit, HashInv, Unused, Owned

\* A failed assertion changes nothing but that the program ends.
LEMMA SetAbortKeeps ==
    ASSUME HashInv, SetAbort PROVE HashInv'
BY DEF SetAbort, HashInv, SetTypes, Numbered, Unused, BucketOK, Owned, IsMember, Holds

LEMMA NewBucketOK ==
    ASSUME freefn \in BOOLEAN, NEW b
    PROVE  BucketOK(NewVector(BucketAlloc, freefn), b)
<1> DEFINE v == NewVector(BucketAlloc, freefn)
<1>1. BucketAlloc \in Nat /\ BucketAlloc # 0
  BY HashAssumption
<1>2. WellFormed(v) /\ v.len = 0 /\ v.frees = freefn
  BY <1>1, NewWellFormed
<1>3. v.inc = BucketAlloc
  BY <1>1 DEF NewVector
<1> HIDE DEF v
<1>4. 0..(v.len - 1) = {}
  BY <1>2
<1> QED BY <1>2, <1>3, <1>4 DEF BucketOK, Ascending, v

LEMMA HashSetNewKeeps ==
    ASSUME HashInv, NEW n \in Int, HashSetNew(n)
    PROVE  HashInv' /\ Members' = Members
<1>1. DOMAIN table = {}
  BY DEF HashSetNew, HashInv, Unused
<1>2. \A e : ~IsMember(e)
  BY <1>1 DEF IsMember
<1>3. CASE n <= 0
  <2>1. SetAbort
    BY <1>3 DEF HashSetNew
  <2> QED BY <2>1, SetAbortKeeps DEF SetAbort, Members
<1>4. CASE n > 0
  <2>1. /\ table' = [b \in 0..(n - 1) |-> NewVector(BucketAlloc, freefn)]
        /\ setStatus' = "live" /\ UNCHANGED <<freefn, entered, released>>
    BY <1>4 DEF HashSetNew
  <2>2. freefn \in BOOLEAN
    BY DEF HashInv, SetTypes
  <2>3. DOMAIN table' = 0..(n - 1) /\ \A b \in DOMAIN table' : table'[b] = NewVector(BucketAlloc, freefn)
    BY <2>1
  <2>4. \A b \in DOMAIN table' : BucketOK(table'[b], b) /\ \A x : ~Holds(table'[b], x)
    <3>1. BucketAlloc \in Nat
      BY HashAssumption
    <3>2. NewVector(BucketAlloc, freefn).len = 0
      BY <2>2, <3>1, NewWellFormed
    <3> QED BY <2>2, <2>3, <3>2, NewBucketOK, EmptyHoldsNothing
  <2>5. (\A b \in DOMAIN table : BucketOK(table[b], b))'
    BY <2>1, <2>4 DEF BucketOK
  <2>6. \A x : ~IsMember(x)'
    BY <2>4 DEF IsMember
  <2>7. Numbered'
    BY <1>4, <2>3 DEF Numbered
  <2>8. (\A e \in Elem : Owned(e))'
    BY <1>2, <2>1, <2>6 DEF HashInv, Owned
  <2>9. SetTypes' /\ Unused'
    BY <2>1 DEF HashInv, SetTypes, Unused
  <2>10. Members' = Members
    <3>1. \A x : x \notin Members
      BY <1>2, MembersAre
    <3>2. \A x : x \notin Members'
      BY <2>6 DEF Members, IsMember, Holds
    <3> QED BY <3>1, <3>2
  <2> QED BY <2>5, <2>7, <2>8, <2>9, <2>10 DEF HashInv
<1> QED BY <1>3, <1>4

\* Every member has one place.
LEMMA OnePlace ==
    ASSUME HashInv, NEW e \in Elem
    PROVE  Cardinality(PlacesOf(e)) = IF IsMember(e) THEN 1 ELSE 0
<1>1. \A b, i : <<b, i>> \in PlacesOf(e) <=>
          b \in DOMAIN table /\ i \in 0..(table[b].len - 1) /\ table[b].mem[i] = e
  BY DEF PlacesOf
<1>2. \A x \in PlacesOf(e) : \E b \in DOMAIN table : \E i \in 0..(table[b].len - 1) : x = <<b, i>>
  BY DEF PlacesOf
<1>3. CASE IsMember(e)
  <2>1. PICK b \in DOMAIN table : Holds(table[b], e)
    BY <1>3 DEF IsMember
  <2>2. PICK i \in 0..(table[b].len - 1) : table[b].mem[i] = e
    BY <2>1 DEF Holds
  <2>3. Distinct(table[b]) /\ \A c \in DOMAIN table : Holds(table[c], e) => c = b
    BY <2>1, AscendingFacts DEF HashInv, BucketOK, Holds
  <2>4. \A x \in PlacesOf(e) : x = <<b, i>>
    BY <1>1, <1>2, <2>2, <2>3 DEF Distinct, Holds
  <2>5. <<b, i>> \in PlacesOf(e)
    BY <1>1, <2>2
  <2>6. PlacesOf(e) = {<<b, i>>}
    BY <2>4, <2>5
  <2> QED BY <1>3, <2>6, FS_Singleton
<1>4. CASE ~IsMember(e)
  <2>1. PlacesOf(e) = {}
    BY <1>1, <1>2, <1>4 DEF IsMember, Holds
  <2> QED BY <1>4, <2>1, FS_EmptySet
<1> QED BY <1>3, <1>4

LEMMA HashSetDisposeKeeps ==
    ASSUME HashInv, HashSetDispose
    PROVE  HashInv' /\ Members' = {}
<1>1. DOMAIN table' = {} /\ setStatus' = "disposed" /\ UNCHANGED <<freefn, entered>>
  BY DEF HashSetDispose
<1>2. \A x : ~IsMember(x)'
  BY <1>1 DEF IsMember
<1>3. released \in [Elem -> Nat] /\ freefn \in BOOLEAN
  BY DEF HashInv, SetTypes
<1>4. \A e \in Elem : released[e] + Cardinality(PlacesOf(e)) = released[e] + (IF IsMember(e) THEN 1 ELSE 0)
  BY OnePlace
<1>5. /\ released' \in [Elem -> Nat]
      /\ \A e \in Elem : released'[e] = released[e] + (IF IsMember(e) /\ freefn THEN 1 ELSE 0)
  <2>1. CASE freefn
    <3>1. released' = [e \in Elem |-> released[e] + (IF IsMember(e) THEN 1 ELSE 0)]
      BY <1>4, <2>1 DEF HashSetDispose
    <3> QED BY <1>3, <2>1, <3>1
  <2>2. CASE ~freefn
    <3>1. released' = released
      BY <2>2 DEF HashSetDispose
    <3> QED BY <1>3, <2>2, <3>1
  <2> QED BY <2>1, <2>2
<1>6. (\A e \in Elem : Owned(e))'
  <2> SUFFICES ASSUME NEW e \in Elem PROVE Owned(e)'
    OBVIOUS
  <2>1. Owned(e) /\ released[e] \in Nat
    BY <1>3 DEF HashInv
  <2> QED BY <1>1, <1>2, <1>5, <2>1 DEF Owned
<1>7. Numbered'
  <2>1. 0 \in Nat /\ 0..(0 - 1) = {}
    OBVIOUS
  <2> QED BY <1>1, <2>1 DEF Numbered
<1>8. SetTypes' /\ Unused'
  BY <1>1, <1>5 DEF HashInv, SetTypes, Unused
<1>9. (\A b \in DOMAIN table : BucketOK(table[b], b))'
  BY <1>1
<1>10. Members' = {}
  BY <1>1 DEF Members
<1> QED BY <1>6, <1>7, <1>8, <1>9, <1>10 DEF HashInv

LEMMA HashSetEnterKeeps ==
    ASSUME HashInv, NEW e \in Elem, HashSetEnter(e)
    PROVE  HashInv'
<1>1. CASE SetAbort
  BY <1>1, SetAbortKeeps
<1>2. CASE /\ HashInRange(e)
           /\ ReplaceEqual(e) \/ InsertNew(e)
           /\ entered' = entered \cup {e} /\ UNCHANGED <<freefn, setStatus>>
  <2>1. /\ Owned(e) /\ e \notin entered /\ ~IsMember(e)
        /\ HashInRange(e) /\ freefn' = freefn
    <3>1. Owned(e) /\ e \notin entered
      BY DEF HashInv, HashSetEnter
    <3>2. ~IsMember(e)
      BY <3>1 DEF Owned
    <3> QED BY <1>2, <3>1, <3>2
  <2>2. released \in [Elem -> Nat] /\ freefn \in BOOLEAN
    BY DEF HashInv, SetTypes
  <2>3. PICK gone \in SUBSET Elem :
           /\ DOMAIN table' = DOMAIN table /\ BucketsOK'
           /\ \A x \in gone : IsMember(x) /\ x # e
           /\ \A x : IsMember(x)' <=> x = e \/ (IsMember(x) /\ x \notin gone)
           /\ released' \in [Elem -> Nat]
           /\ \A x \in Elem : released'[x] = released[x] + (IF x \in gone /\ freefn THEN 1 ELSE 0)
    <3>1. CASE ReplaceEqual(e)
      <4>1. PICK old \in Elem :
               /\ IsMember(old) /\ old # e
               /\ DOMAIN table' = DOMAIN table /\ BucketsOK'
               /\ \A x : IsMember(x)' <=> x = e \/ (IsMember(x) /\ x # old)
               /\ released' \in [Elem -> Nat]
               /\ \A x \in Elem : released'[x] = released[x] + (IF x = old /\ freefn THEN 1 ELSE 0)
        BY <2>1, <3>1, ReplaceEffect
      <4>2. {old} \in SUBSET Elem /\ \A x : x \in {old} <=> x = old
        OBVIOUS
      <4> QED BY <4>1, <4>2
    <3>2. CASE InsertNew(e)
      <4>1. /\ DOMAIN table' = DOMAIN table /\ BucketsOK'
            /\ \A x : IsMember(x)' <=> x = e \/ IsMember(x)
            /\ released' = released
        BY <2>1, <3>2, InsertEffect
      <4>2. {} \in SUBSET Elem /\ \A x \in Elem : released[x] = released[x] + 0
        BY <2>2
      <4> QED BY <2>2, <4>1, <4>2
    <3> QED BY <1>2, <3>1, <3>2
  <2>4. ASSUME NEW x \in Elem PROVE Owned(x)'
    <3>1. Owned(x) /\ released[x] \in Nat
      BY <2>2 DEF HashInv
    <3>2. CASE x = e
      BY <1>2, <2>1, <2>3, <3>1, <3>2 DEF Owned
    <3>3. CASE x # e /\ x \in gone
      BY <1>2, <2>3, <3>1, <3>3 DEF Owned
    <3>4. CASE x # e /\ x \notin gone
      BY <1>2, <2>3, <3>1, <3>4 DEF Owned
    <3> QED BY <3>2, <3>3, <3>4
  <2>5. SetTypes'
    BY <1>2, <2>3 DEF HashInv, SetTypes
  <2>6. Numbered' /\ Unused'
    BY <1>2, <2>3 DEF HashInv, Numbered, Unused
  <2> QED BY <2>3, <2>4, <2>5, <2>6 DEF HashInv, BucketsOK
<1> QED BY <1>1, <1>2 DEF HashSetEnter

LEMMA HashInvStep == HashInv /\ [HashSetNext]_setVars => HashInv'
<1> SUFFICES ASSUME HashInv, [HashSetNext]_setVars PROVE HashInv'
  OBVIOUS
<1>1. ASSUME NEW n \in BucketCounts, HashSetNew(n) PROVE HashInv'
  BY <1>1, HashAssumption, HashSetNewKeeps
<1>2. CASE HashSetDispose
  BY <1>2, HashSetDisposeKeeps
<1>3. ASSUME NEW e \in Elem, HashSetEnter(e) PROVE HashInv'
  BY <1>3, HashSetEnterKeeps
<1>4. CASE UNCHANGED setVars
  <2>1. UNCHANGED <<table, freefn, setStatus, entered, released>>
    BY <1>4 DEF setVars
  <2>2. SetTypes' /\ Numbered' /\ Unused'
    BY <2>1 DEF HashInv, SetTypes, Numbered, Unused
  <2>3. (\A b \in DOMAIN table : BucketOK(table[b], b))'
    BY <2>1 DEF HashInv, BucketOK
  <2>4. (\A e \in Elem : Owned(e))'
    BY <2>1 DEF HashInv, Owned, IsMember, Holds
  <2> QED BY <2>2, <2>3, <2>4 DEF HashInv
<1> QED BY <1>1, <1>2, <1>3, <1>4 DEF HashSetNext

LEMMA HashInvAlways == HashSetSpec => []HashInv
BY HashInvInit, HashInvStep, PTL DEF HashSetSpec

\* Every bucket is always a well-formed vector of the kind initVectors made.
THEOREM BucketsWellFormed == HashSetSpec => []HashSetTypeOK
<1>1. HashInv => HashSetTypeOK
  BY DEF HashInv, SetTypes, BucketOK, HashSetTypeOK
<1> QED BY <1>1, HashInvAlways, PTL

\* HashSetEnter leaves the vectors strictly sorted, each with the elements of
\* its own hash only.
THEOREM BucketsSorted == HashSetSpec => []BucketsInOrder
<1>1. HashInv => BucketsInOrder
  BY DEF HashInv, BucketOK, Ascending, BucketsInOrder
<1> QED BY <1>1, HashInvAlways, PTL

\* An element that was entered is in the set once or was freed once.
THEOREM SetElementsFreedOnce == HashSetSpec => []SetOwnership
<1>1. ASSUME HashInv PROVE SetOwnership
  <2>1. ASSUME NEW e \in Elem PROVE Cardinality(PlacesOf(e)) <= 1
    BY <1>1, OnePlace
  <2>2. \A e \in Elem : Owned(e)
    BY <1>1 DEF HashInv
  <2> QED BY <2>1, <2>2, MembersAre DEF SetOwnership, Owned
<1> QED BY <1>1, HashInvAlways, PTL

-----------------------------------------------------------------------------
(* A keyed set.                                                             *)
LEMMA MembersTyped == HashInv => Members \subseteq Elem
<1>1. ASSUME HashInv, NEW x, IsMember(x) PROVE x \in Elem
  BY <1>1 DEF HashInv, BucketOK, WellFormed, IsMember, Holds
<1> QED BY <1>1, MembersAre

\* HashSetEnter makes the element a member in place of its equal.
LEMMA EnterIsEnter ==
    ASSUME HashInv, NEW e \in Elem, HashSetEnter(e)
    PROVE  K!Enter(e) \/ Members' = Members
<1>1. CASE SetAbort
  BY <1>1 DEF SetAbort, Members
<1>2. CASE /\ HashInRange(e)
           /\ ReplaceEqual(e) \/ InsertNew(e)
           /\ entered' = entered \cup {e} /\ UNCHANGED <<freefn, setStatus>>
  <2>1. Owned(e) /\ e \notin entered
    BY DEF HashInv, HashSetEnter
  <2>2. ~IsMember(e) /\ HashInRange(e) /\ freefn' = freefn
    BY <1>2, <2>1 DEF Owned
  <2>3. \A x : x \in Members' <=> IsMember(x)'
    BY DEF Members, IsMember, Holds
  <2>4. Members \subseteq Elem /\ \A x : x \in Members <=> IsMember(x)
    BY MembersTyped, MembersAre
  <2>5. \A x : IsMember(x)' <=> x = e \/ (IsMember(x) /\ Rank[x] # Rank[e])
    <3>1. CASE ReplaceEqual(e)
      <4>1. PICK old \in Elem :
               /\ IsMember(old) /\ Rank[old] = Rank[e]
               /\ \A m \in Elem : IsMember(m) /\ Rank[m] = Rank[e] => m = old
               /\ \A x : IsMember(x)' <=> x = e \/ (IsMember(x) /\ x # old)
        BY <2>2, <3>1, ReplaceEffect
      <4> QED BY <2>4, <4>1
    <3>2. CASE InsertNew(e)
      <4>1. /\ \A m \in Elem : IsMember(m) => Rank[m] # Rank[e]
            /\ \A x : IsMember(x)' <=> x = e \/ IsMember(x)
        BY <2>2, <3>2, InsertEffect
      <4> QED BY <2>4, <4>1
    <3> QED BY <1>2, <3>1, <3>2
  <2>6. Members' = {m \in Members : Rank[m] # Rank[e]} \cup {e}
    BY <2>3, <2>4, <2>5
  <2> QED BY <2>6 DEF K!Enter
<1> QED BY <1>1, <1>2 DEF HashSetEnter

\* To its client, the hash set is a set in which an element replaces its equal,
\* whatever the hash function, the buckets and the searches in them.
THEOREM HashSetIsKeyedSet == HashSetSpec => ImplementsKeyedSet
<1>1. HashSetInit => K!Init
  BY DEF HashSetInit, K!Init, Members
<1>2. ASSUME HashInv, [HashSetNext]_setVars PROVE [K!Next]_Members
  <2>1. ASSUME NEW n \in BucketCounts, HashSetNew(n) PROVE [K!Next]_Members
    BY <1>2, <2>1, HashAssumption, HashSetNewKeeps
  <2>2. CASE HashSetDispose
    BY <1>2, <2>2, HashSetDisposeKeeps DEF K!Next, K!Clear
  <2>3. ASSUME NEW e \in Elem, HashSetEnter(e) PROVE [K!Next]_Members
    BY <1>2, <2>3, EnterIsEnter DEF K!Next
  <2>4. CASE UNCHANGED setVars
    BY <2>4 DEF setVars, Members
  <2> QED BY <1>2, <2>1, <2>2, <2>3, <2>4 DEF HashSetNext
<1> QED BY <1>1, <1>2, HashInvAlways, PTL DEF HashSetSpec, ImplementsKeyedSet, K!Spec

-----------------------------------------------------------------------------
(* Lookups and counts.                                                      *)
LEMMA LookupRight ==
    ASSUME HashInv, NEW e \in Elem, HashInRange(e)
    PROVE  HashSetLookup(e) = {m \in Members : Rank[m] = Rank[e]}
<1> DEFINE v == Bucket(e)
           p == FoundAt(e)
<1>1. BucketOK(v, Hash[e])
  BY FoundAtFacts
<1>2. ASSUME NEW m \in Members, Rank[m] = Rank[e]
      PROVE  \E i \in 0..(v.len - 1) : v.mem[i] = m
  <2>1. m \in Elem /\ IsMember(m)
    BY <1>2, MembersTyped, MembersAre
  <2> QED BY <1>2, <2>1, MemberRanks
<1>3. CASE p = -1 /\ \A i \in 0..(v.len - 1) : Rank[v.mem[i]] # Rank[e]
  <2>1. \A m \in Members : Rank[m] # Rank[e]
    BY <1>2, <1>3
  <2> QED BY <1>3, <2>1 DEF HashSetLookup
<1>4. CASE p # -1 /\ p \in 0..(v.len - 1) /\ Rank[v.mem[p]] = Rank[e]
  <2>1. WellFormed(v) /\ \A i, j \in 0..(v.len - 1) : Rank[v.mem[i]] = Rank[v.mem[j]] => i = j
    BY <1>1, AscendingFacts DEF BucketOK
  <2>2. p \in DOMAIN v.mem
    BY <1>4, <2>1 DEF WellFormed
  <2>3. HashSetLookup(e) = {v.mem[p]}
    BY <1>4, <2>2 DEF HashSetLookup, ReadAt
  <2>4. v.mem[p] \in Members
    <3>1. Holds(table[Hash[e]], v.mem[p]) /\ Hash[e] \in DOMAIN table
      BY <1>4 DEF Bucket, Holds, HashInRange
    <3> QED BY <3>1, MembersAre DEF IsMember
  <2>5. \A m \in Members : Rank[m] = Rank[e] => m = v.mem[p]
    <3> SUFFICES ASSUME NEW m \in Members, Rank[m] = Rank[e] PROVE m = v.mem[p]
      OBVIOUS
    <3>1. PICK i \in 0..(v.len - 1) : v.mem[i] = m
      BY <1>2
    <3> HIDE DEF v, p
    <3> QED BY <1>4, <2>1, <3>1
  <2> HIDE DEF v, p
  <2> QED BY <1>4, <2>3, <2>4, <2>5
<1> QED BY <1>3, <1>4, FoundAtFacts

\* The elements of a bucket, and of the buckets below the nth.
ElementsOf(b) == {table[b].mem[i] : i \in 0..(table[b].len - 1)}
ElementsBelow(n) == UNION {ElementsOf(b) : b \in 0..(n - 1)}

LEMMA ElementsCounted ==
    ASSUME HashInv, NEW b \in DOMAIN table
    PROVE  /\ IsFiniteSet(ElementsOf(b)) /\ Cardinality(ElementsOf(b)) = table[b].len
           /\ table[b].len \in Nat
<1> DEFINE v == table[b]
           used == 0..(v.len - 1)
           f == [i \in used |-> v.mem[i]]
<1>1. WellFormed(v) /\ Distinct(v)
  BY AscendingFacts DEF HashInv, BucketOK
<1> HIDE DEF v
<1>2. v.len \in Nat
  BY <1>1 DEF WellFormed
<1>3. IsFiniteSet(used) /\ Cardinality(used) = v.len
  <2>1. 0 \in Int /\ v.len - 1 \in Int
    BY <1>2
  <2>2. IsFiniteSet(used) /\ Cardinality(used) = IF 0 > v.len - 1 THEN 0 ELSE (v.len - 1) - 0 + 1
    BY <2>1, FS_Interval, Zenon
  <2> HIDE DEF used
  <2> QED BY <1>2, <2>2
<1>4. ElementsOf(b) = {v.mem[i] : i \in used}
  BY DEF ElementsOf, v
<1>5. f \in Surjection(used, ElementsOf(b)) /\ f \in Injection(used, ElementsOf(b))
  BY <1>1, <1>4 DEF Surjection, Injection, IsInjective, Distinct
<1> HIDE DEF f, used
<1>6. IsFiniteSet(ElementsOf(b)) /\ Cardinality(ElementsOf(b)) = Cardinality(used)
  BY <1>3, <1>5, FS_Surjection, Zenon
<1> QED BY <1>2, <1>3, <1>6 DEF v

LEMMA CountedUpTo ==
    ASSUME HashInv, NEW N \in Nat, DOMAIN table = 0..(N - 1),
           NEW upTo,
           \A n \in 0..N : upTo[n] = IF n = 0 THEN 0 ELSE upTo[n - 1] + table[n - 1].len
    PROVE  \A n \in 0..N : IsFiniteSet(ElementsBelow(n)) /\ Cardinality(ElementsBelow(n)) = upTo[n]
<1> DEFINE Good(n) == IsFiniteSet(ElementsBelow(n)) /\ Cardinality(ElementsBelow(n)) = upTo[n]
           T == {n \in Nat : n \in 0..N => Good(n)}
<1>1. Good(0)
  <2>1. ElementsBelow(0) = {}
    BY 0..(0 - 1) = {} DEF ElementsBelow
  <2>2. upTo[0] = 0
    BY 0 \in 0..N
  <2> QED BY <2>1, <2>2, FS_EmptySet
<1>2. ASSUME NEW n \in 1..N, Good(n - 1) PROVE Good(n)
  <2> DEFINE b == n - 1
             A == ElementsBelow(b)
             B == ElementsOf(b)
  <2>1. b \in DOMAIN table /\ n \in 0..N /\ n # 0
    OBVIOUS
  <2>2. ElementsBelow(n) = A \cup B
    <3>1. 0..(n - 1) = 0..(b - 1) \cup {b}
      OBVIOUS
    <3> HIDE DEF b
    <3> QED BY <3>1 DEF ElementsBelow, b
  <2>3. A \cap B = {}
    <3>1. \A c \in DOMAIN table : \A x \in ElementsOf(c) : Hash[x] = c
      BY DEF ElementsOf, HashInv, BucketOK
    <3>2. \A c \in 0..(b - 1) : c \in DOMAIN table /\ c # b
      OBVIOUS
    <3> HIDE DEF b
    <3> QED BY <2>1, <3>1, <3>2 DEF ElementsBelow
  <2>4. IsFiniteSet(B) /\ Cardinality(B) = table[b].len /\ table[b].len \in Nat
    BY <2>1, ElementsCounted
  <2>5. IsFiniteSet(A) /\ Cardinality(A) = upTo[b]
    BY <1>2
  <2> HIDE DEF A, B, b
  <2>6. IsFiniteSet(A \cup B) /\ Cardinality(A \cup B) = Cardinality(A) + Cardinality(B) - Cardinality(A \cap B)
    BY <2>4, <2>5, FS_Union
  <2>7. Cardinality(A \cap B) = 0
    BY <2>3, FS_EmptySet
  <2>8. upTo[n] = upTo[b] + table[b].len
    BY <2>1 DEF b
  <2>9. Cardinality(A) \in Nat
    BY <2>5, FS_CardinalityType
  <2> QED BY <2>2, <2>4, <2>5, <2>6, <2>7, <2>8, <2>9
<1> HIDE DEF Good
<1>3. ASSUME NEW n \in Nat, \A m \in Nat : m < n => m \in T PROVE n \in T
  <2>1. CASE n = 0
    BY <1>1, <2>1
  <2>2. CASE n # 0 /\ n \in 0..N
    <3>1. n - 1 \in Nat /\ n - 1 < n /\ n - 1 \in 0..N /\ n \in 1..N
      BY <2>2
    <3>2. n - 1 \in T
      BY <1>3, <3>1
    <3> QED BY <1>2, <3>1, <3>2
  <2>3. CASE n \notin 0..N
    BY <2>3
  <2> QED BY <2>1, <2>2, <2>3
<1> HIDE DEF T
<1>4. Nat \subseteq T
  BY <1>3, AllNumbers, Zenon
<1> QED BY <1>4 DEF T, Good

LEMMA CountRight ==
    ASSUME HashInv PROVE HashSetCount = Cardinality(Members)
<1>1. PICK N \in Nat : DOMAIN table = 0..(N - 1)
  BY DEF HashInv, Numbered
<1>2. Cardinality(DOMAIN table) = N
  <2>1. 0 \in Int /\ N - 1 \in Int
    OBVIOUS
  <2>2. Cardinality(0..(N - 1)) = IF 0 > N - 1 THEN 0 ELSE (N - 1) - 0 + 1
    BY <2>1, FS_Interval, Zenon
  <2> QED BY <1>1, <2>2
<1>3. \A b \in 0..(N - 1) : table[b].len \in Nat
  BY <1>1, ElementsCounted
<1> DEFINE upTo[n \in 0..Cardinality(DOMAIN table)] ==
              IF n = 0 THEN 0 ELSE upTo[n - 1] + table[n - 1].len
           Body(g, n) == IF n = 0 THEN 0 ELSE g[n - 1] + table[n - 1].len
           D == 0..N
           M == [n \in D |-> n]
           Step == [p \in [D -> Int] \X D |-> Body(p[1], p[2])]
<1>4. HashSetCount = upTo[N]
  BY <1>2 DEF HashSetCount
<1>5. Recursive(D, Int, M, N + 1, Step)
  <2>1. M \in [D -> Nat] /\ N + 1 \in Nat /\ \A n \in D : M[n] < N + 1
    OBVIOUS
  <2>2. ASSUME NEW g \in [D -> Int], NEW n \in D PROVE Body(g, n) \in Int
    <3>1. CASE n # 0
      <4>1. n - 1 \in D /\ n - 1 \in 0..(N - 1)
        BY <3>1
      <4>2. g[n - 1] \in Int /\ table[n - 1].len \in Int
        BY <1>3, <4>1
      <4> QED BY <3>1, <4>2
    <3>2. CASE n = 0
      BY <3>2
    <3> QED BY <3>1, <3>2
  <2>3. Step \in [[D -> Int] \X D -> Int]
    BY <2>2
  <2>4. ASSUME NEW n \in D, NEW g \in [D -> Int], NEW h \in [D -> Int],
               \A m \in D : M[m] < M[n] => g[m] = h[m]
        PROVE  Step[<<g, n>>] = Step[<<h, n>>]
    <3>1. n # 0 => n - 1 \in D /\ M[n - 1] < M[n]
      OBVIOUS
    <3>2. Body(g, n) = Body(h, n)
      BY <2>4, <3>1
    <3> QED BY <3>2
  <2> HIDE DEF D, M, Step
  <2>5. Int # {}
    BY 0 \in Int
  <2> QED BY <2>1, <2>3, <2>4, <2>5 DEF Recursive
<1>6. PICK g : g = [n \in D |-> Body(g, n)]
  <2>1. \A g \in [D -> Int], n \in D : Step[<<g, n>>] = Body(g, n)
    OBVIOUS
  <2> HIDE DEF Step, Body, M, D
  <2>2. PICK g \in [D -> Int] : \A n \in D : g[n] = Step[<<g, n>>]
    BY <1>5, RecursiveFunction
  <2>3. g = [n \in D |-> Body(g, n)]
    BY <2>1, <2>2
  <2> QED BY <2>3
<1>7. upTo = [n \in D |-> Body(upTo, n)]
  BY <1>2, <1>6
<1> HIDE DEF upTo
<1>8. \A n \in D : upTo[n] = IF n = 0 THEN 0 ELSE upTo[n - 1] + table[n - 1].len
  BY <1>7
<1>9. Cardinality(ElementsBelow(N)) = upTo[N]
  BY <1>1, <1>8, CountedUpTo
<1>10. ElementsBelow(N) = Members
  BY <1>1 DEF ElementsBelow, ElementsOf, Members
<1> QED BY <1>4, <1>9, <1>10

\* HashSetLookup finds the element equal to its key if there is one, and
\* HashSetCount counts the members, whatever the sizes.
THEOREM LookupsRight == HashSetSpec => []LookupFinds
<1>1. HashInv => LookupFinds
  BY LookupRight, CountRight DEF LookupFinds
<1> QED BY <1>1, HashInvAlways, PTL
-----------------------------------------------------------------------------
(***************************************************************************)
(* A bucket as the slots of SlotTable.                                     *)
(***************************************************************************)
LEMMA SlotsAre ==
    ASSUME NEW v, WellFormed(v)
    PROVE  LET slots == AsSlots(v).slots
           IN  /\ AsSlots(v) = [gen |-> 0, alloc |-> v.alloc, slots |-> slots]
               /\ DOMAIN slots = 1..v.len
               /\ slots = [i \in 1..v.len |-> Slot(v.mem[i - 1])]
               /\ Len(slots) = v.len
<1> DEFINE slots == AsSlots(v).slots
           Slots == {Slot(e) : e \in Elem}
<1>1. v.len \in Nat /\ \A i \in 1..v.len : v.mem[i - 1] \in Elem
  <2>1. v.len \in Nat /\ \A i \in 0..(v.len - 1) : v.mem[i] \in Elem
    BY DEF WellFormed
  <2>2. \A i \in 1..v.len : i - 1 \in 0..(v.len - 1)
    BY <2>1
  <2> QED BY <2>1, <2>2
<1>2. slots = [i \in 1..v.len |-> Slot(v.mem[i - 1])]
  BY ContentsSeq DEF AsSlots
<1>3. AsSlots(v) = [gen |-> 0, alloc |-> v.alloc, slots |-> slots]
  BY DEF AsSlots
<1> HIDE DEF slots
<1>4. slots \in [1..v.len -> Slots]
  BY <1>1, <1>2
<1>5. Len(slots) = v.len
  BY <1>1, <1>4
<1> QED BY <1>2, <1>3, <1>5 DEF slots

\* The order of SlotTable is that of the vector.
LEMMA SlotRanks ==
    \A e \in Elem : Slot(e).key = Rank[e] /\ [r \in {Rank[f] : f \in Elem} |-> r][Rank[e]] = Rank[e]
BY DEF Slot

LEMMA ReplacedIsEntered ==
    ASSUME NEW v, WellFormed(v), Ascending(v), NEW e \in Elem, NEW p \in 0..(v.len - 1),
           Rank[v.mem[p]] = Rank[e]
    PROVE  AsSlots(Replaced(v, e, p)) \in S!Entered(AsSlots(v), Slot(e))
<1> DEFINE w == Replaced(v, e, p)
           b == AsSlots(v)
           k == Slot(e).key
<1>1. /\ WellFormed(w) /\ w.len = v.len
      /\ \A i \in 0..(v.len - 1) : w.mem[i] = IF i = p THEN e ELSE v.mem[i]
  BY ReplacedElements
<1>2. w.alloc = v.alloc
  BY DEF Replaced
<1> HIDE DEF w
<1>3. /\ b = [gen |-> 0, alloc |-> v.alloc, slots |-> b.slots]
      /\ b.slots = [i \in 1..v.len |-> Slot(v.mem[i - 1])]
  BY SlotsAre
<1>4. AsSlots(w) = [gen |-> 0, alloc |-> v.alloc, slots |-> [i \in 1..v.len |-> Slot(w.mem[i - 1])]]
  BY <1>1, <1>2, SlotsAre
<1> HIDE DEF b, k
<1>5. /\ v.len \in Nat /\ p + 1 \in 1..v.len
      /\ \A i \in 1..v.len : /\ i - 1 \in 0..(v.len - 1) /\ v.mem[i - 1] \in Elem
                             /\ i - 1 = p <=> i = p + 1
  <2>1. v.len \in Nat /\ \A i \in 0..(v.len - 1) : v.mem[i] \in Elem
    BY DEF WellFormed
  <2>2. \A i \in 1..v.len : i - 1 \in 0..(v.len - 1) /\ (i - 1 = p <=> i = p + 1)
    BY <2>1
  <2> QED BY <2>1, <2>2
<1>6. S!Places(b.slots, k) = {p + 1}
  <2>1. \A i \in 1..v.len : b.slots[i].key = Rank[v.mem[i - 1]]
    BY <1>3, <1>5 DEF Slot
  <2>2. k = Rank[e]
    BY DEF k, Slot
  <2>3. \A i \in 1..v.len : b.slots[i].key = k <=> i = p + 1
    BY <1>5, <2>1, <2>2, AscendingFacts
  <2>4. DOMAIN b.slots = 1..v.len
    BY <1>3
  <2>5. S!Places(b.slots, k) = {i \in 1..v.len : b.slots[i].key = k}
    BY <2>4 DEF S!Places
  <2> QED BY <1>5, <2>3, <2>5
<1>7. S!PlaceOf(b.slots, k) = p + 1
  BY <1>6 DEF S!PlaceOf
<1>8. S!ReplaceSlot(b.slots, p + 1, Slot(e)) = [i \in 1..v.len |-> Slot(w.mem[i - 1])]
  <2>1. S!ReplaceSlot(b.slots, p + 1, Slot(e)) =
            [i \in 1..v.len |-> IF i = p + 1 THEN Slot(e) ELSE Slot(v.mem[i - 1])]
    BY <1>3, <1>5 DEF S!ReplaceSlot
  <2>2. \A i \in 1..v.len : Slot(w.mem[i - 1]) = IF i = p + 1 THEN Slot(e) ELSE Slot(v.mem[i - 1])
    BY <1>1, <1>5
  <2> QED BY <2>1, <2>2
<1>9. S!Entered(b, Slot(e)) = {[b EXCEPT !.slots = S!ReplaceSlot(b.slots, p + 1, Slot(e))]}
  BY <1>6, <1>7 DEF S!Entered, k
<1>10. [b EXCEPT !.slots = S!ReplaceSlot(b.slots, p + 1, Slot(e))] = AsSlots(w)
  <2> DEFINE new == S!ReplaceSlot(b.slots, p + 1, Slot(e))
             old == b.slots
  <2>1. b = [gen |-> 0, alloc |-> v.alloc, slots |-> old]
    BY <1>3
  <2>2. AsSlots(w) = [gen |-> 0, alloc |-> v.alloc, slots |-> new]
    BY <1>4, <1>8
  <2> HIDE DEF new, old
  <2>3. [b EXCEPT !.slots = new] = AsSlots(w)
    BY <2>1, <2>2
  <2> QED BY <2>3 DEF new
<1>11. AsSlots(w) \in S!Entered(b, Slot(e))
  BY <1>9, <1>10
<1> QED BY <1>11 DEF w, b

LEMMA InsertedIsEntered ==
    ASSUME NEW v, WellFormed(v), Ascending(v), v.inc = BucketAlloc, NEW e \in Elem,
           \A i \in 0..(v.len - 1) : Rank[v.mem[i]] # Rank[e]
    PROVE  AsSlots(Inserted(v, e, InsertionPoint(v, e))) \in S!Entered(AsSlots(v), Slot(e))
<1> DEFINE p == InsertionPoint(v, e)
           w == Inserted(v, e, p)
           b == AsSlots(v)
           k == Slot(e).key
<1>1. /\ p \in 0..v.len
      /\ \A i \in 0..(v.len - 1) : IF i < p THEN Rank[v.mem[i]] <= Rank[e]
                                   ELSE Rank[e] <= Rank[v.mem[i]]
  BY AscendingFacts, PlaceKeepsOrder
<1> HIDE DEF p
<1>2. /\ WellFormed(w) /\ w.len = v.len + 1
      /\ \A i \in 0..v.len : w.mem[i] = IF i < p THEN v.mem[i] ELSE IF i = p THEN e ELSE v.mem[i - 1]
  BY <1>1, InsertedElements
<1>3. w.alloc = IF v.alloc = v.len THEN v.alloc + BucketAlloc ELSE v.alloc
  BY DEF Inserted, Shifted, Grown, WellFormed
<1> HIDE DEF w
<1>4. /\ b = [gen |-> 0, alloc |-> v.alloc, slots |-> b.slots]
      /\ b.slots = [i \in 1..v.len |-> Slot(v.mem[i - 1])]
      /\ Len(b.slots) = v.len
  BY SlotsAre
<1>5. AsSlots(w) = [gen |-> 0, alloc |-> w.alloc,
                    slots |-> [i \in 1..(v.len + 1) |-> Slot(w.mem[i - 1])]]
  BY <1>2, SlotsAre
<1> HIDE DEF b, k
<1>6. /\ v.len \in Nat /\ p \in Nat /\ p <= v.len
      /\ \A i \in 1..v.len : /\ i - 1 \in 0..(v.len - 1) /\ v.mem[i - 1] \in Elem
                             /\ Rank[v.mem[i - 1]] \in Nat
      /\ Rank[e] \in Nat
  <2>1. v.len \in Nat /\ \A i \in 0..(v.len - 1) : v.mem[i] \in Elem
    BY DEF WellFormed
  <2>2. \A i \in 1..v.len : i - 1 \in 0..(v.len - 1)
    BY <2>1
  <2> QED BY <1>1, <2>1, <2>2, ElemAssumption
<1>7. /\ \A i \in 1..v.len : b.slots[i].key = Rank[v.mem[i - 1]]
      /\ k = Rank[e] /\ DOMAIN b.slots = 1..v.len
  BY <1>4, <1>6 DEF Slot, k
<1>8. S!Places(b.slots, k) = {}
  <2>1. S!Places(b.slots, k) = {i \in 1..v.len : b.slots[i].key = k}
    BY <1>7 DEF S!Places
  <2>2. \A i \in 1..v.len : b.slots[i].key # k
    BY <1>6, <1>7
  <2> QED BY <2>1, <2>2
<1>9. S!InsertPlace(b.slots, k) = p + 1
  <2> DEFINE R == [r \in {Rank[f] : f \in Elem} |-> r]
  <2>1. \A i \in 1..v.len : R[b.slots[i].key] = Rank[v.mem[i - 1]] /\ R[k] = Rank[e]
    BY <1>6, <1>7
  <2>2. S!InsertPlace(b.slots, k) = Cardinality({i \in 1..v.len : R[b.slots[i].key] < R[k]}) + 1
    <3>1. S!InsertPlace(b.slots, k) =
             S!Cardinality({i \in DOMAIN b.slots : R[b.slots[i].key] < R[k]}) + 1
      BY DEF S!InsertPlace
    <3>2. \A X : S!Cardinality(X) = Cardinality(X)
      BY DEF S!Cardinality, Cardinality
    <3> HIDE DEF R
    <3>3. {i \in DOMAIN b.slots : R[b.slots[i].key] < R[k]}
             = {i \in 1..v.len : R[b.slots[i].key] < R[k]}
      BY <1>7
    <3> QED BY <3>1, <3>2, <3>3
  <2> HIDE DEF R
  <2>3. \A i \in 1..v.len : R[b.slots[i].key] < R[k] <=> i \in 1..p
    <3> SUFFICES ASSUME NEW i \in 1..v.len PROVE Rank[v.mem[i - 1]] < Rank[e] <=> i - 1 < p
      BY <1>6, <2>1
    <3>1. Rank[v.mem[i - 1]] # Rank[e] /\ i - 1 \in 0..(v.len - 1)
      BY <1>6
    <3> QED BY <1>1, <1>6, <3>1
  <2>4. {i \in 1..v.len : R[b.slots[i].key] < R[k]} = 1..p
    <3>1. \A i \in 1..p : i \in 1..v.len
      BY <1>6
    <3> QED BY <2>3, <3>1
  <2>5. Cardinality(1..p) = p
    <3>1. 1 \in Int /\ p \in Int
      BY <1>6
    <3>2. Cardinality(1..p) = IF 1 > p THEN 0 ELSE p - 1 + 1
      BY <3>1, FS_Interval, Zenon
    <3> QED BY <1>6, <3>2
  <2> QED BY <2>2, <2>4, <2>5
<1> DEFINE grown == S!InsertSlot(b.slots, p + 1, Slot(e))
<1>10. grown = [i \in 1..(v.len + 1) |-> Slot(w.mem[i - 1])]
  <2>1. grown = [i \in 1..(v.len + 1) |->
                   IF i < p + 1 THEN b.slots[i] ELSE IF i = p + 1 THEN Slot(e) ELSE b.slots[i - 1]]
    BY <1>4 DEF S!InsertSlot
  <2>2. ASSUME NEW i \in 1..(v.len + 1)
        PROVE  Slot(w.mem[i - 1]) = IF i < p + 1 THEN b.slots[i]
                                    ELSE IF i = p + 1 THEN Slot(e) ELSE b.slots[i - 1]
    <3>1. i - 1 \in 0..v.len /\ (i - 1 < p <=> i < p + 1) /\ (i - 1 = p <=> i = p + 1)
      BY <1>6
    <3>2. i < p + 1 => i \in 1..v.len
      BY <1>6
    <3>3. ~(i < p + 1) /\ i # p + 1 => i - 1 \in 1..v.len /\ (i - 1) - 1 \in Int
      BY <1>6
    <3>4. CASE i < p + 1
      BY <1>2, <1>4, <3>1, <3>2, <3>4
    <3>5. CASE i = p + 1
      BY <1>2, <3>1, <3>5
    <3>6. CASE ~(i < p + 1) /\ i # p + 1
      BY <1>2, <1>4, <3>1, <3>3, <3>6
    <3> QED BY <3>4, <3>5, <3>6
  <2> HIDE DEF grown
  <2> QED BY <2>1, <2>2
<1> HIDE DEF grown
<1>11. S!Entered(b, Slot(e)) = S!BucketWith(b, Slot(e))
  BY <1>8 DEF S!Entered, k
<1>12. S!BucketWith(b, Slot(e)) =
          IF b.alloc = v.len
          THEN {[gen |-> g, alloc |-> b.alloc + BucketAlloc, slots |-> grown] : g \in {b.gen, b.gen + 1}}
          ELSE {[b EXCEPT !.slots = grown]}
  BY <1>4, <1>9 DEF S!BucketWith, S!Saturated, k, grown
<1>13. b.alloc = v.alloc /\ b.gen = 0 /\ [b EXCEPT !.slots = grown] = [gen |-> 0, alloc |-> v.alloc, slots |-> grown]
  BY <1>4
<1>14. AsSlots(w) = [gen |-> 0, alloc |-> w.alloc, slots |-> grown]
  BY <1>5, <1>10
<1>15. AsSlots(w) \in S!Entered(b, Slot(e))
  <2>1. CASE v.alloc = v.len
    BY <1>3, <1>11, <1>12, <1>13, <1>14, <2>1
  <2>2. CASE v.alloc # v.len
    BY <1>3, <1>11, <1>12, <1>13, <1>14, <2>2
  <2> QED BY <2>1, <2>2
<1> QED BY <1>15 DEF w, b, p

LEMMA NewIsEmptyBucket ==
    ASSUME NEW frees \in BOOLEAN
    PROVE  AsSlots(NewVector(BucketAlloc, frees)) = S!EmptyBucket
<1> DEFINE v == NewVector(BucketAlloc, frees)
<1>1. BucketAlloc \in Nat /\ BucketAlloc # 0
  BY HashAssumption
<1>2. WellFormed(v) /\ v.len = 0 /\ v.alloc = BucketAlloc
  BY <1>1, NewWellFormed DEF NewVector
<1> HIDE DEF v
<1>3. AsSlots(v) = [gen |-> 0, alloc |-> BucketAlloc, slots |-> [i \in 1..0 |-> Slot(v.mem[i - 1])]]
  BY <1>2, SlotsAre
<1>4. [i \in 1..0 |-> Slot(v.mem[i - 1])] = <<>>
  OBVIOUS
<1> QED BY <1>3, <1>4 DEF v, S!EmptyBucket

\* Every step of the hash set does to each bucket what SlotTable says: the
\* binary searches, the moves and the growth of the array are those of a
\* bucket there.  So what is proved of the limiter's table of semaphores, which
\* is built from SlotTable, is about buckets such as this hash set has.
THEOREM BucketsAreSlots == HashSetSpec => BucketsAreSlotTables
<1> DEFINE Done(b) == IF b \notin DOMAIN table THEN AsSlots(table'[b]) = S!EmptyBucket
                      ELSE \/ table'[b] = table[b]
                           \/ \E e \in entered' \ entered :
                                 AsSlots(table'[b]) \in S!Entered(AsSlots(table[b]), Slot(e))
           Effect == \A b \in DOMAIN table' : Done(b)
<1>1. ASSUME HashInv, HashSetNext PROVE Effect
  <2>1. CASE SetAbort
    BY <2>1 DEF SetAbort
  <2>2. ASSUME NEW n \in BucketCounts, HashSetNew(n), ~SetAbort PROVE Effect
    <3>1. DOMAIN table = {} /\ freefn \in BOOLEAN
      BY <1>1, <2>2 DEF HashSetNew, HashInv, Unused, SetTypes
    <3>2. table' = [b \in 0..(n - 1) |-> NewVector(BucketAlloc, freefn)]
      BY <2>2 DEF HashSetNew
    <3>3. \A b \in DOMAIN table' : table'[b] = NewVector(BucketAlloc, freefn)
      BY <3>2
    <3> QED BY <3>1, <3>3, NewIsEmptyBucket
  <2>3. CASE HashSetDispose
    BY <2>3 DEF HashSetDispose
  <2>4. ASSUME NEW e \in Elem, HashSetEnter(e), ~SetAbort PROVE Effect
    <3> DEFINE v == Bucket(e)
    <3>1. /\ HashInRange(e) /\ e \in entered' \ entered
          /\ ReplaceEqual(e) \/ InsertNew(e)
      BY <2>4 DEF HashSetEnter
    <3>2. BucketOK(v, Hash[e]) /\ v = table[Hash[e]] /\ Hash[e] \in DOMAIN table
      BY <1>1, <3>1, FoundAtFacts DEF Bucket, HashInRange
    <3>3. WellFormed(v) /\ Ascending(v) /\ v.inc = BucketAlloc
      BY <3>2 DEF BucketOK
    <3>4. CASE ReplaceEqual(e)
      <4>1. table' = [table EXCEPT ![Hash[e]] = Replaced(v, e, FoundAt(e))]
        BY <3>4 DEF ReplaceEqual, Bucket
      <4>2. FoundAt(e) \in 0..(v.len - 1) /\ Rank[v.mem[FoundAt(e)]] = Rank[e]
        BY <1>1, <3>1, <3>4, FoundAtFacts DEF ReplaceEqual
      <4> HIDE DEF v
      <4>3. AsSlots(Replaced(v, e, FoundAt(e))) \in S!Entered(AsSlots(v), Slot(e))
        BY <3>3, <4>2, ReplacedIsEntered
      <4> QED BY <3>1, <3>2, <4>1, <4>3
    <3>5. CASE InsertNew(e)
      <4>1. table' = [table EXCEPT ![Hash[e]] = Inserted(v, e, InsertionPoint(v, e))]
        BY <3>5 DEF InsertNew, Bucket
      <4>2. \A i \in 0..(v.len - 1) : Rank[v.mem[i]] # Rank[e]
        BY <1>1, <3>1, <3>5, FoundAtFacts DEF InsertNew
      <4> HIDE DEF v
      <4>3. AsSlots(Inserted(v, e, InsertionPoint(v, e))) \in S!Entered(AsSlots(v), Slot(e))
        BY <3>3, <4>2, InsertedIsEntered
      <4> QED BY <3>1, <3>2, <4>1, <4>3
    <3> QED BY <3>1, <3>4, <3>5
  <2> QED BY <1>1, <2>1, <2>2, <2>3, <2>4 DEF HashSetNext
<1>2. HashInv /\ [HashSetNext]_setVars => [Effect]_setVars
  BY <1>1
<1> QED BY <1>2, HashInvAlways, PTL DEF HashSetSpec, BucketsAreSlotTables
==============================================================================
