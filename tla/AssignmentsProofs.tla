-------------------------- MODULE AssignmentsProofs --------------------------
(***************************************************************************)
(* Theorems about three programs: the random sentence generator, for any   *)
(* grammars; imdb-test, which shows what is in the movie database, and     *)
(* six-degrees, which searches it for a shortest path between two players, *)
(* for any films and casts.                                                *)
(***************************************************************************)
EXTENDS Rsg, SixDegrees, SequenceTheorems, FiniteSetTheorems, WellFoundedInduction, TLAPS

-----------------------------------------------------------------------------
(* Induction, and sequences *)

LEMMA StrongInduction ==
    ASSUME NEW T, \A n \in Nat : (\A m \in Nat : m < n => m \in T) => n \in T
    PROVE  Nat \subseteq T
<1> SUFFICES ASSUME NEW n \in Nat, n \notin T PROVE FALSE
  OBVIOUS
<1> DEFINE B == {m \in Nat : m \notin T}
           R == OpToRel(<, Nat)
<1>1. IsWellFoundedOn(R, Nat)
  BY NatLessThanWellFounded, Zenon
<1>2. \A m, k \in Nat : m < k => <<m, k>> \in R
  BY DEF OpToRel
<1>3. B \subseteq Nat /\ B # {}
  OBVIOUS
<1> HIDE DEF R
<1>4. \E k \in B : \A m \in B : ~ (<<m, k>> \in R)
  <2> HIDE DEF B
  <2> QED BY <1>1, <1>3, WFMin
<1>5. PICK k \in B : \A m \in B : ~ (m < k)
  BY <1>2, <1>3, <1>4, Zenon
<1>6. \A m \in Nat : m < k => m \in T
  BY <1>5
<1> QED BY <1>5, <1>6

LEMMA Induction ==
    ASSUME NEW T, 0 \in T, \A n \in Nat : n \in T => n + 1 \in T
    PROVE  Nat \subseteq T
<1>1. ASSUME NEW n \in Nat, \A m \in Nat : m < n => m \in T PROVE n \in T
  <2>1. CASE n = 0 BY <2>1
  <2>2. CASE n # 0
    <3>1. n - 1 \in Nat /\ n - 1 < n /\ (n - 1) + 1 = n BY <2>2
    <3>2. n - 1 \in T BY <1>1, <3>1
    <3>3. (n - 1) + 1 \in T BY <3>1, <3>2
    <3> QED BY <3>1, <3>3
  <2> QED BY <2>1, <2>2
<1> QED BY <1>1, StrongInduction, Zenon

\* A sequence, of whatever it has.
IsSeq(s) == s \in Seq(ToSet(s))

LEMMA IsSeqIs ==
    ASSUME NEW S, NEW s \in Seq(S)
    PROVE  IsSeq(s)
<1>1. Len(s) \in Nat /\ s \in [1..Len(s) -> S] OBVIOUS
<1>2. \A n \in 1..Len(s) : s[n] \in ToSet(s) BY <1>1 DEF ToSet
<1>3. s \in [1..Len(s) -> ToSet(s)] BY <1>1, <1>2
<1> DEFINE T == ToSet(s)
<1> HIDE DEF T
<1>4. s \in [1..Len(s) -> T] BY <1>3 DEF T
<1>5. s \in Seq(T) BY <1>1, <1>4
<1> QED BY <1>5 DEF IsSeq, T

LEMMA SeqFacts ==
    ASSUME NEW s, IsSeq(s)
    PROVE  Len(s) \in Nat /\ DOMAIN s = 1..Len(s) /\ (s = <<>> <=> Len(s) = 0)
<1> DEFINE T == ToSet(s)
<1>1. s \in Seq(T) BY DEF IsSeq
<1> HIDE DEF T
<1> QED BY <1>1

-----------------------------------------------------------------------------
(***************************************************************************)
(* The random sentence generator                                           *)
(***************************************************************************)
\* Tokens that productions are made of.
Productions == UNION {UNION {g[k][2] : k \in DOMAIN g} : g \in GrammarFiles}
Token       == UNION {ToSet(prod) : prod \in Productions}

\* rest[n] is what the calls up to the n-th have still to visit.
Flattens(rest, calls) ==
    rest = [n \in 0..Len(calls) |-> IF n = 0 THEN <<>> ELSE calls[n] \o rest[n - 1]]

\* prods is what the last definition of n says, among the first d.
DefinedBy(n, d, prods) ==
    \E k \in 1..d : /\ grammarFile[k] [1] = n /\ grammarFile[k][2] = prods
                    /\ \A j \in (k + 1)..d : grammarFile[j][1] # n

GrammarGood ==
    /\ grammarFile \in GrammarFiles /\ definitions \in 0..Len(grammarFile)
    /\ \A n \in DOMAIN grammar : DefinedBy(n, definitions, grammar[n])
    /\ \A k \in 1..definitions : grammarFile[k][1] \in DOMAIN grammar

TextGood ==
    /\ text \in Seq(Token)
    /\ \A k \in DOMAIN text : text[k] \notin Nonterminal

VisitsGood ==
    /\ visits \in Seq(Seq(Token))
    /\ visits # <<>> => AllRead
    /\ \E rest : Flattens(rest, visits)

RsgInv == GrammarGood /\ TextGood /\ VisitsGood

-----------------------------------------------------------------------------
(* What the calls have still to visit *)

\* There is only one way to flatten the calls below the n-th.
LEMMA OneFlattening ==
    ASSUME NEW c, NEW d, Len(c) \in Nat, Len(d) \in Nat,
           NEW g, NEW h, Flattens(g, c), Flattens(h, d),
           NEW N \in Nat, N <= Len(c), N <= Len(d), \A n \in 1..N : c[n] = d[n]
    PROVE  g[N] = h[N]
<1>1. /\ \A n \in 0..Len(c) : g[n] = IF n = 0 THEN <<>> ELSE c[n] \o g[n - 1]
      /\ \A n \in 0..Len(d) : h[n] = IF n = 0 THEN <<>> ELSE d[n] \o h[n - 1]
  BY DEF Flattens
<1> DEFINE T == {n \in Nat : n <= N => g[n] = h[n]}
<1>2. ASSUME NEW n \in Nat, \A m \in Nat : m < n => m \in T PROVE n \in T
  <2> SUFFICES ASSUME n <= N PROVE g[n] = h[n]
    OBVIOUS
  <2>1. n \in 0..Len(c) /\ n \in 0..Len(d)
    OBVIOUS
  <2>2. CASE n = 0
    BY <1>1, <2>1, <2>2
  <2>3. CASE n # 0
    <3>1. n - 1 \in Nat /\ n - 1 < n /\ n - 1 <= N /\ n \in 1..N
      BY <2>3
    <3>2. g[n - 1] = h[n - 1]
      BY <1>2, <3>1
    <3> QED BY <1>1, <2>1, <2>3, <3>1, <3>2
  <2> QED BY <2>2, <2>3
<1> HIDE DEF T
<1>3. Nat \subseteq T
  BY <1>2, StrongInduction, Zenon
<1> QED BY <1>3 DEF T

LEMMA ToVisitIs ==
    ASSUME NEW rest, Flattens(rest, visits), visits \in Seq(Seq(Token))
    PROVE  ToVisit = rest[Len(visits)]
<1> DEFINE f[n \in 0..Len(visits)] == IF n = 0 THEN <<>> ELSE visits[n] \o f[n - 1]
<1>1. ToVisit = f[Len(visits)]
  BY DEF ToVisit
<1>2. rest = [n \in 0..Len(visits) |-> IF n = 0 THEN <<>> ELSE visits[n] \o rest[n - 1]]
  BY DEF Flattens
<1>3. f = [n \in 0..Len(visits) |-> IF n = 0 THEN <<>> ELSE visits[n] \o f[n - 1]]
  BY <1>2, Zenon
<1> HIDE DEF f
<1>4. Flattens(f, visits)
  BY <1>3 DEF Flattens
<1>5. Len(visits) \in Nat
  OBVIOUS
<1> QED BY <1>1, <1>4, <1>5, OneFlattening

\* What the calls below the n-th have still to visit is a sequence of tokens.
LEMMA RestIsTokens ==
    ASSUME NEW c \in Seq(Seq(Token)), NEW g, Flattens(g, c)
    PROVE  \A n \in 0..Len(c) : g[n] \in Seq(Token)
<1>1. Len(c) \in Nat /\ \A n \in 1..Len(c) : c[n] \in Seq(Token)
  OBVIOUS
<1>2. \A n \in 0..Len(c) : g[n] = IF n = 0 THEN <<>> ELSE c[n] \o g[n - 1]
  BY DEF Flattens
<1> DEFINE T == {n \in Nat : n <= Len(c) => g[n] \in Seq(Token)}
<1>3. ASSUME NEW n \in Nat, \A m \in Nat : m < n => m \in T PROVE n \in T
  <2> SUFFICES ASSUME n <= Len(c) PROVE g[n] \in Seq(Token)
    OBVIOUS
  <2>1. CASE n = 0
    <3>1. g[n] = <<>> BY <1>1, <1>2, <2>1
    <3> QED BY <3>1
  <2>2. CASE n # 0
    <3>1. n - 1 \in Nat /\ n - 1 < n /\ n \in 1..Len(c) /\ n \in 0..Len(c)
      BY <1>1, <2>2
    <3>2. g[n - 1] \in Seq(Token) /\ c[n] \in Seq(Token)
      BY <1>1, <1>3, <3>1
    <3>3. g[n] = c[n] \o g[n - 1]
      BY <1>2, <2>2, <3>1
    <3> QED BY <3>2, <3>3
  <2> QED BY <2>1, <2>2
<1> HIDE DEF T
<1>4. Nat \subseteq T
  BY <1>3, StrongInduction, Zenon
<1> QED BY <1>1, <1>4 DEF T

\* With one more call on top of N, or another one in its place.
LEMMA FlattensTop ==
    ASSUME NEW c \in Seq(Seq(Token)), NEW g, Flattens(g, c),
           NEW d \in Seq(Seq(Token)), NEW N \in Nat, N <= Len(c), Len(d) = N + 1,
           \A n \in 1..N : d[n] = c[n]
    PROVE  \E h : Flattens(h, d) /\ h[N] = g[N]
<1> DEFINE top == d[N + 1] \o g[N]
<1> HIDE DEF top
<1> DEFINE h == [n \in 0..(N + 1) |-> IF n = N + 1 THEN top ELSE g[n]]
<1>1. \A n \in 0..Len(c) : g[n] = IF n = 0 THEN <<>> ELSE c[n] \o g[n - 1]
  BY DEF Flattens
<1>2. /\ h[N + 1] = top
      /\ \A n \in 0..N : h[n] = g[n]
  OBVIOUS
<1>3. DOMAIN h = 0..(N + 1) /\ h = [n \in 0..(N + 1) |-> h[n]]
  OBVIOUS
<1> HIDE DEF h
<1>4. ASSUME NEW n \in 0..(N + 1) PROVE h[n] = IF n = 0 THEN <<>> ELSE d[n] \o h[n - 1]
  <2>1. CASE n = N + 1
    <3>1. n # 0 /\ n - 1 = N BY <2>1
    <3>2. h[n - 1] = g[N] BY <1>2, <3>1
    <3> QED BY <1>2, <2>1, <3>1, <3>2 DEF top
  <2>2. CASE n = 0
    BY <1>1, <1>2, <2>2
  <2>3. CASE n \in 1..N
    <3>1. n \in 0..Len(c) /\ n - 1 \in 0..N /\ n \in 0..N
      BY <2>3
    <3>2. h[n] = g[n] /\ h[n - 1] = g[n - 1] /\ d[n] = c[n]
      BY <1>2, <2>3, <3>1
    <3> QED BY <1>1, <2>3, <3>1, <3>2
  <2> QED BY <2>1, <2>2, <2>3
<1>5. Flattens(h, d)
  BY <1>3, <1>4 DEF Flattens
<1>6. h[N] = g[N]
  BY <1>2
<1> QED BY <1>5, <1>6

LEMMA TopFirst ==
    ASSUME NEW d, NEW h, Flattens(h, d), NEW N \in Nat, Len(d) = N + 1
    PROVE  h[N + 1] = d[N + 1] \o h[N]
<1>1. \A n \in 0..(N + 1) : h[n] = IF n = 0 THEN <<>> ELSE d[n] \o h[n - 1]
  BY DEF Flattens
<1>2. N + 1 \in 0..(N + 1) /\ N + 1 # 0 /\ (N + 1) - 1 = N
  OBVIOUS
<1> QED BY <1>1, <1>2

LEMMA FlattensFront ==
    ASSUME NEW c \in Seq(Seq(Token)), NEW g, Flattens(g, c),
           NEW d \in Seq(Seq(Token)), Len(d) <= Len(c),
           \A n \in 1..Len(d) : d[n] = c[n]
    PROVE  \E h : Flattens(h, d) /\ h[Len(d)] = g[Len(d)]
<1> DEFINE h == [n \in 0..Len(d) |-> g[n]]
<1>1. \A n \in 0..Len(c) : g[n] = IF n = 0 THEN <<>> ELSE c[n] \o g[n - 1]
  BY DEF Flattens
<1>2. \A n \in 0..Len(d) : h[n] = g[n]
  OBVIOUS
<1>3. DOMAIN h = 0..Len(d) /\ h = [n \in DOMAIN h |-> h[n]]
  OBVIOUS
<1> HIDE DEF h
<1>4. ASSUME NEW n \in 0..Len(d) PROVE h[n] = IF n = 0 THEN <<>> ELSE d[n] \o h[n - 1]
  <2>1. n \in 0..Len(c) /\ (n # 0 => n - 1 \in 0..Len(d) /\ n \in 1..Len(d))
    OBVIOUS
  <2>2. CASE n = 0 BY <1>1, <1>2, <2>1, <2>2
  <2>3. CASE n # 0 BY <1>1, <1>2, <2>1, <2>3
  <2> QED BY <2>2, <2>3
<1>5. Flattens(h, d)
  BY <1>3, <1>4 DEF Flattens
<1> QED BY <1>2, <1>5

\* All that is still to visit, from the top.
LEMMA ToVisitFacts ==
    ASSUME VisitsGood
    PROVE  /\ ToVisit \in Seq(Token)
           /\ visits = <<>> => ToVisit = <<>>
           /\ \E rest : Flattens(rest, visits) /\ ToVisit = rest[Len(visits)]
<1>1. PICK rest : Flattens(rest, visits) BY DEF VisitsGood
<1>2. visits \in Seq(Seq(Token)) BY DEF VisitsGood
<1>3. ToVisit = rest[Len(visits)] BY <1>1, <1>2, ToVisitIs
<1>4. Len(visits) \in 0..Len(visits) BY <1>2
<1>5. ToVisit \in Seq(Token) BY <1>1, <1>2, <1>3, <1>4, RestIsTokens
<1>6. visits = <<>> => rest[Len(visits)] = <<>>
  <2>1. \A n \in 0..Len(visits) : rest[n] = IF n = 0 THEN <<>> ELSE visits[n] \o rest[n - 1]
    BY <1>1 DEF Flattens
  <2>2. Len(visits) \in 0..Len(visits) /\ (visits = <<>> => Len(visits) = 0) BY <1>2
  <2> QED BY <2>1, <2>2
<1> QED BY <1>1, <1>3, <1>5, <1>6

\* The same, when calls at the bottom of the stack are as they were.
LEMMA ToVisitNext ==
    ASSUME NEW rest, Flattens(rest, visits'), visits' \in Seq(Seq(Token))
    PROVE  ToVisit' = rest[Len(visits')]
<1> DEFINE f[n \in 0..Len(visits')] == IF n = 0 THEN <<>> ELSE visits'[n] \o f[n - 1]
<1>1. ToVisit' = f[Len(visits')]
  BY DEF ToVisit
<1>2. rest = [n \in 0..Len(visits') |-> IF n = 0 THEN <<>> ELSE visits'[n] \o rest[n - 1]]
  BY DEF Flattens
<1>3. f = [n \in 0..Len(visits') |-> IF n = 0 THEN <<>> ELSE visits'[n] \o f[n - 1]]
  BY <1>2, Zenon
<1> HIDE DEF f
<1>4. Flattens(f, visits')
  BY <1>3 DEF Flattens
<1>5. Len(visits') \in Nat
  OBVIOUS
<1> QED BY <1>1, <1>4, <1>5, OneFlattening

-----------------------------------------------------------------------------
(* The grammar *)

LEMMA ProductionsAreTokens ==
    ASSUME NEW g \in GrammarFiles, NEW k \in DOMAIN g, NEW prod \in g[k][2]
    PROVE  prod \in Seq(Token)
<1>1. prod \in Seq(ToSet(prod)) BY GrammarAssumption
<1>2. prod \in Productions BY DEF Productions
<1>3. ToSet(prod) \subseteq Token BY <1>2 DEF Token
<1> QED BY <1>1, <1>3

LEMMA FileFacts ==
    ASSUME GrammarGood
    PROVE  DOMAIN grammarFile = 1..Len(grammarFile) /\ Len(grammarFile) \in Nat
<1>1. grammarFile \in Seq(ToSet(grammarFile)) BY GrammarAssumption DEF GrammarGood
<1> QED BY <1>1

LEMMA GrammarFacts ==
    ASSUME GrammarGood, AllRead
    PROVE  /\ \A n \in DOMAIN grammar : /\ grammar[n] \subseteq Seq(Token)
                                        /\ Sentences!Expansions(n) = grammar[n]
           /\ START_NON_TERM \in DOMAIN grammar
<1>1. DOMAIN grammarFile = 1..definitions /\ definitions \in Nat /\ grammarFile \in GrammarFiles
  BY FileFacts DEF GrammarGood, AllRead
<1>2. ASSUME NEW n \in DOMAIN grammar
      PROVE  grammar[n] \subseteq Seq(Token) /\ Sentences!Expansions(n) = grammar[n]
  <2>1. PICK k \in 1..definitions :
           /\ grammarFile[k][1] = n /\ grammarFile[k][2] = grammar[n]
           /\ \A j \in (k + 1)..definitions : grammarFile[j][1] # n
    BY DEF GrammarGood, DefinedBy
  <2>2. grammar[n] \subseteq Seq(Token)
    BY <1>1, <2>1, ProductionsAreTokens
  <2> DEFINE defs == {j \in DOMAIN grammarFile : grammarFile[j][1] = n}
  <2>3. /\ k \in defs
        /\ \A j \in defs : j \in Nat /\ k >= j
    BY <1>1, <2>1
  <2> HIDE DEF defs
  <2>4. Sentences!Max(defs) = k
    <3>1. Sentences!Max(defs) = CHOOSE x \in defs : \A y \in defs : x >= y
      BY DEF Sentences!Max
    <3>2. \A x \in defs : (\A y \in defs : x >= y) => x = k
      BY <2>3
    <3> QED BY <2>3, <3>1, <3>2
  <2>5. Sentences!Expansions(n) = grammarFile[k][2]
    BY <2>3, <2>4 DEF Sentences!Expansions, defs
  <2> QED BY <2>1, <2>2, <2>5
<1>3. START_NON_TERM \in DOMAIN grammar
  BY <1>1, GrammarAssumption DEF GrammarGood
<1> QED BY <1>2, <1>3

-----------------------------------------------------------------------------
(* The steps *)

\* A step that leaves the text and the calls alone.
LEMMA SameForm ==
    ASSUME VisitsGood, text' = text, visits' = visits, AllRead => AllRead'
    PROVE  ToVisit' = ToVisit /\ VisitsGood'
BY DEF VisitsGood, ToVisit

LEMMA ReadStep ==
    ASSUME RsgInv, ReadGrammar
    PROVE  RsgInv' /\ text' = text /\ ToVisit' = ToVisit /\ grammarFile' = grammarFile
<1> DEFINE d == definitions
           def == grammarFile[d + 1]
<1>1. /\ ~AllRead /\ d' = d + 1 /\ text' = text /\ visits' = visits
      /\ grammarFile' = grammarFile
      /\ grammar' = [n \in DOMAIN grammar \cup {def[1]} |->
                       IF n = def[1] THEN def[2] ELSE grammar[n]]
  BY DEF ReadGrammar, Inserted
<1>2. d \in 0..Len(grammarFile) /\ Len(grammarFile) \in Nat /\ d # Len(grammarFile)
  BY <1>1, FileFacts DEF RsgInv, GrammarGood, AllRead
<1>3. VisitsGood' /\ ToVisit' = ToVisit
  <2>1. visits = <<>> BY <1>1 DEF RsgInv, VisitsGood
  <2> QED BY <1>1, <2>1 DEF RsgInv, VisitsGood, ToVisit
<1>4. TextGood' BY <1>1 DEF RsgInv, TextGood
<1>5. ASSUME NEW n \in DOMAIN grammar' PROVE DefinedBy(n, d + 1, grammar'[n])
  <2> HIDE DEF def
  <2>1. CASE n = def[1]
    <3>1. d + 1 \in 1..(d + 1) /\ grammar'[n] = def[2] /\ (d + 1 + 1)..(d + 1) = {}
      BY <1>1, <1>2, <2>1
    <3> QED BY <2>1, <3>1 DEF DefinedBy, def
  <2>2. CASE n # def[1]
    <3>1. n \in DOMAIN grammar /\ grammar'[n] = grammar[n] BY <1>1, <2>2
    <3>2. PICK k \in 1..d : /\ grammarFile[k][1] = n /\ grammarFile[k][2] = grammar[n]
                            /\ \A j \in (k + 1)..d : grammarFile[j][1] # n
      BY <3>1 DEF RsgInv, GrammarGood, DefinedBy
    <3>3. k \in 1..(d + 1) BY <1>2
    <3>4. ASSUME NEW j \in (k + 1)..(d + 1) PROVE grammarFile[j][1] # n
      <4>1. j = d + 1 \/ j \in (k + 1)..d BY <1>2
      <4> QED BY <2>2, <3>2, <4>1 DEF def
    <3> QED BY <3>1, <3>2, <3>3, <3>4 DEF DefinedBy
  <2> QED BY <2>1, <2>2
<1>6. \A k \in 1..(d + 1) : grammarFile[k][1] \in DOMAIN grammar'
  <2> SUFFICES ASSUME NEW k \in 1..(d + 1) PROVE grammarFile[k][1] \in DOMAIN grammar'
    OBVIOUS
  <2>1. k = d + 1 \/ k \in 1..d BY <1>2
  <2>2. k \in 1..d => grammarFile[k][1] \in DOMAIN grammar BY DEF RsgInv, GrammarGood
  <2> QED BY <1>1, <2>1, <2>2
<1>7. GrammarGood'
  <2>2. d + 1 \in 0..Len(grammarFile) BY <1>2
  <2>3. grammarFile' \in GrammarFiles BY <1>1 DEF RsgInv, GrammarGood
  <2>4. \A n \in DOMAIN grammar' : DefinedBy(n, definitions, grammar[n])'
    BY <1>1, <1>5 DEF DefinedBy
  <2> QED BY <1>1, <1>6, <2>2, <2>3, <2>4 DEF GrammarGood
<1> QED BY <1>1, <1>3, <1>4, <1>7 DEF RsgInv

LEMMA SameGrammar ==
    ASSUME GrammarGood, UNCHANGED <<grammarFile, definitions, grammar>>
    PROVE  GrammarGood' /\ (AllRead' <=> AllRead)
BY DEF GrammarGood, DefinedBy, AllRead

LEMMA MakeTextStep ==
    ASSUME RsgInv, MakeText
    PROVE  /\ RsgInv'
           /\ text \o ToVisit = text
           /\ \A k \in DOMAIN text : text[k] \notin Nonterminal
           /\ text' \o ToVisit' \in Sentences!Expansions(START_NON_TERM)
           /\ grammarFile' = grammarFile
<1>1. /\ AllRead /\ visits = <<>> /\ text' = <<>>
      /\ UNCHANGED <<grammarFile, definitions, grammar>>
  BY DEF MakeText
<1>2. PICK prod \in grammar[START_NON_TERM] : visits' = <<prod>> BY DEF MakeText
<1>3. /\ START_NON_TERM \in DOMAIN grammar /\ prod \in Seq(Token)
      /\ prod \in Sentences!Expansions(START_NON_TERM)
  BY <1>1, <1>2, GrammarFacts DEF RsgInv
<1>4. GrammarGood' /\ AllRead' BY <1>1, SameGrammar DEF RsgInv
<1>5. text \in Seq(Token) /\ ToVisit = <<>> /\ \A k \in DOMAIN text : text[k] \notin Nonterminal
  BY <1>1, ToVisitFacts DEF RsgInv, TextGood
<1>6. text \o ToVisit = text BY <1>5
<1>7. visits' \in Seq(Seq(Token)) /\ Len(visits') = 1 /\ visits'[1] = prod
  BY <1>2, <1>3
<1>8. \E h : Flattens(h, visits') /\ h[1] = prod \o <<>>
  <2>1. PICK g : Flattens(g, visits) BY DEF RsgInv, VisitsGood
  <2>2. visits \in Seq(Seq(Token)) /\ Len(visits) = 0 BY <1>1 DEF RsgInv, VisitsGood
  <2>3. g[0] = <<>>
    <3>1. ToVisit = g[Len(visits)] BY <2>1, <2>2, ToVisitIs
    <3> QED BY <1>5, <2>2, <3>1
  <2> DEFINE N == 0
  <2>4. /\ N \in Nat /\ N <= Len(visits) /\ Len(visits') = N + 1
        /\ \A n \in 1..N : visits'[n] = visits[n]
        /\ g[N] = <<>> /\ visits'[N + 1] = prod /\ N + 1 = 1
    BY <1>7, <2>2, <2>3
  <2> HIDE DEF N
  <2>5. PICK h : Flattens(h, visits') /\ h[N] = g[N]
    BY <1>7, <2>1, <2>2, <2>4, FlattensTop
  <2>6. h[N + 1] = visits'[N + 1] \o h[N]
    BY <2>4, <2>5, TopFirst
  <2>7. h[1] = h[N + 1] /\ visits'[N + 1] \o h[N] = prod \o <<>>
    BY <2>4, <2>5, Zenon
  <2>8. h[1] = prod \o <<>> BY <2>6, <2>7, Zenon
  <2> QED BY <2>5, <2>8, Zenon
<1>9. PICK h : Flattens(h, visits') /\ h[1] = prod \o <<>> BY <1>8
<1>10. ToVisit' = prod
  <2>1. ToVisit' = h[Len(visits')] BY <1>7, <1>9, ToVisitNext
  <2>2. prod \o <<>> = prod BY <1>3
  <2> QED BY <1>7, <1>9, <2>1, <2>2
<1>11. text' \o ToVisit' = prod BY <1>1, <1>3, <1>10
<1>12. TextGood'
  <2>1. <<>> \in Seq(Token) /\ DOMAIN <<>> = {} OBVIOUS
  <2> QED BY <1>1, <2>1 DEF TextGood
<1>13. VisitsGood' BY <1>4, <1>7, <1>9 DEF VisitsGood
<1> QED BY <1>1, <1>3, <1>4, <1>5, <1>6, <1>11, <1>12, <1>13 DEF RsgInv

\* The innermost call before and after its next token is taken from it.
LEMMA TopFacts ==
    ASSUME VisitsGood, visits # <<>>,
           NEW N, N = Len(visits) - 1, NEW top, top = Last(visits)
    PROVE  /\ N \in Nat /\ Len(visits) = N + 1 /\ top = visits[N + 1]
           /\ visits \in Seq(Seq(Token)) /\ top \in Seq(Token)
           /\ \E g : /\ Flattens(g, visits) /\ g[N] \in Seq(Token)
                     /\ ToVisit = top \o g[N]
<1>1. visits \in Seq(Seq(Token)) BY DEF VisitsGood
<1>2. N \in Nat /\ Len(visits) = N + 1 /\ N + 1 \in 1..Len(visits) BY <1>1
<1>3. top = visits[N + 1] BY <1>2 DEF Last
<1>4. top \in Seq(Token) BY <1>1, <1>2, <1>3
<1>5. PICK g : Flattens(g, visits) /\ ToVisit = g[Len(visits)] BY ToVisitFacts
<1>6. g[N] \in Seq(Token)
  <2>1. N \in 0..Len(visits) BY <1>2
  <2> QED BY <1>1, <1>5, <2>1, RestIsTokens
<1>7. g[N + 1] = visits[N + 1] \o g[N]
  <2>1. \A n \in 0..Len(visits) : g[n] = IF n = 0 THEN <<>> ELSE visits[n] \o g[n - 1]
    BY <1>5 DEF Flattens
  <2>2. N + 1 \in 0..Len(visits) /\ N + 1 # 0 /\ (N + 1) - 1 = N BY <1>2
  <2> QED BY <2>1, <2>2
<1> QED BY <1>1, <1>2, <1>3, <1>4, <1>5, <1>6, <1>7

LEMMA ReturnStep ==
    ASSUME RsgInv, DfsReturn
    PROVE  RsgInv' /\ text' = text /\ ToVisit' = ToVisit /\ grammarFile' = grammarFile
<1>1. /\ visits # <<>> /\ Last(visits) = <<>> /\ visits' = Front(visits) /\ text' = text
      /\ UNCHANGED <<grammarFile, definitions, grammar>>
  BY DEF DfsReturn
<1>2. GrammarGood' /\ (AllRead' <=> AllRead) BY <1>1, SameGrammar DEF RsgInv
<1> DEFINE N == Len(visits) - 1
<1>3. /\ N \in Nat /\ Len(visits) = N + 1 /\ visits \in Seq(Seq(Token))
      /\ \E g : /\ Flattens(g, visits) /\ g[N] \in Seq(Token) /\ ToVisit = <<>> \o g[N]
  BY <1>1, TopFacts DEF RsgInv
<1>4. PICK g : /\ Flattens(g, visits) /\ g[N] \in Seq(Token) /\ ToVisit = <<>> \o g[N]
  BY <1>3
<1>5. /\ visits' \in Seq(Seq(Token)) /\ Len(visits') = N
      /\ Len(visits') <= Len(visits)
      /\ \A n \in 1..Len(visits') : visits'[n] = visits[n]
  BY <1>1, <1>3 DEF Front
<1>6. PICK h : Flattens(h, visits') /\ h[Len(visits')] = g[Len(visits')]
  <2> HIDE DEF N
  <2> QED BY <1>3, <1>4, <1>5, FlattensFront
<1>7. ToVisit' = h[Len(visits')] BY <1>5, <1>6, ToVisitNext
<1>8. ToVisit = g[N] BY <1>4
<1> HIDE DEF N
<1>9. ToVisit' = ToVisit BY <1>5, <1>6, <1>7, <1>8
<1>10. VisitsGood' BY <1>1, <1>2, <1>5, <1>6 DEF RsgInv, VisitsGood
<1>11. TextGood' BY <1>1 DEF RsgInv, TextGood
<1> QED BY <1>1, <1>2, <1>9, <1>10, <1>11 DEF RsgInv

LEMMA MovesToken ==
    ASSUME NEW t \in Seq(Token), NEW top \in Seq(Token), top # <<>>, NEW r \in Seq(Token)
    PROVE  Append(t, Head(top)) \o (Tail(top) \o r) = t \o (top \o r)
<1> DEFINE h == Head(top)
           b == Tail(top)
<1>1. h \in Token /\ b \in Seq(Token) /\ <<h>> \in Seq(Token) /\ b \o r \in Seq(Token)
  OBVIOUS
<1>2. top = <<h>> \o b
  OBVIOUS
<1>3. Append(t, h) = t \o <<h>>
  BY <1>1, AppendIsConcat
<1> HIDE DEF h, b
<1>4. Append(t, h) \o (b \o r) = t \o (<<h>> \o (b \o r))
  BY <1>1, <1>3, ConcatAssociative
<1>5. <<h>> \o (b \o r) = (<<h>> \o b) \o r
  BY <1>1, ConcatAssociative
<1> QED BY <1>2, <1>4, <1>5 DEF h, b

\* The calls when the innermost one has taken its next token.
LEMMA FramesFacts ==
    ASSUME NEW c \in Seq(Seq(Token)), NEW N \in Nat, Len(c) = N + 1, c[N + 1] # <<>>
    PROVE  LET f == [c EXCEPT ![Len(c)] = Tail(@)] IN
           /\ f \in Seq(Seq(Token)) /\ Len(f) = N + 1 /\ f[N + 1] = Tail(c[N + 1])
           /\ \A n \in 1..N : f[n] = c[n]
<1> DEFINE t == Tail(c[N + 1])
           f == [c EXCEPT ![N + 1] = t]
<1>1. t \in Seq(Token) BY HeadTailProperties
<1> HIDE DEF t
<1>2. /\ f \in Seq(Seq(Token)) /\ Len(f) = N + 1 /\ f[N + 1] = t
      /\ \A n \in 1..N : f[n] = c[n]
  BY <1>1
<1> QED BY <1>2 DEF t

\* A form that is replaced by t \o (e \o r) where its leftmost nonterminal x is.
LEMMA Derived ==
    ASSUME NEW t \in Seq(Token), \A k \in DOMAIN t : t[k] \notin Nonterminal,
           NEW x \in Token, x \in Nonterminal, NEW r \in Seq(Token),
           NEW e \in Seq(Token), text \o ToVisit = t \o (<<x>> \o r),
           text' \o ToVisit' = t \o (e \o r),
           e \in Sentences!Expansions(x), grammarFile' = grammarFile
    PROVE  Sentences!Derive
<1> DEFINE form == text \o ToVisit
           s == <<x>> \o r
           K == Len(t) + 1
<1>1. /\ s \in Seq(Token) /\ Len(s) = Len(r) + 1 /\ s[1] = x
      /\ \A n \in 1..Len(r) : s[n + 1] = r[n]
  OBVIOUS
<1>2. Len(t) \in Nat /\ Len(r) \in Nat
  OBVIOUS
<1>3. form = t \o s
  OBVIOUS
<1> HIDE DEF s, form
<1>4. /\ form \in Seq(Token) /\ Len(form) = Len(t) + Len(s)
      /\ \A n \in 1..Len(t) : form[n] = t[n]
      /\ form[K] = x
      /\ DOMAIN form = 1..(K + Len(r)) /\ Len(form) = K + Len(r)
      /\ \A n \in 1..Len(r) : form[K + n] = r[n]
  <2>1. /\ form \in Seq(Token) /\ Len(form) = Len(t) + Len(s)
        /\ \A n \in 1..(Len(t) + Len(s)) :
              form[n] = IF n <= Len(t) THEN t[n] ELSE s[n - Len(t)]
    BY <1>1, <1>3, ConcatProperties
  <2>2. DOMAIN form = 1..(K + Len(r)) /\ Len(form) = K + Len(r) BY <1>1, <1>2, <2>1
  <2>3. \A n \in 1..Len(t) : form[n] = t[n] BY <1>1, <1>2, <2>1
  <2>4. form[K] = x BY <1>1, <1>2, <2>1
  <2>5. \A n \in 1..Len(r) : form[K + n] = r[n]
    <3> SUFFICES ASSUME NEW n \in 1..Len(r) PROVE form[K + n] = r[n] OBVIOUS
    <3>1. K + n \in 1..(Len(t) + Len(s)) /\ ~(K + n <= Len(t)) /\ (K + n) - Len(t) = n + 1
      BY <1>1, <1>2
    <3> QED BY <1>1, <2>1, <3>1
  <2> QED BY <2>1, <2>2, <2>3, <2>4, <2>5
<1>5. K \in Sentences!Left /\ \A k \in Sentences!Left : k \in Nat /\ k >= K
  <2>1. Sentences!Left = {k \in 1..(K + Len(r)) : form[k] \in Nonterminal}
    BY <1>4 DEF Sentences!Left, form
  <2>2. \A n \in 1..Len(t) : form[n] \notin Nonterminal
    <3>1. DOMAIN t = 1..Len(t) OBVIOUS
    <3> QED BY <1>4, <3>1
  <2>3. K \in Sentences!Left BY <1>2, <1>4, <2>1
  <2>4. ASSUME NEW k \in Sentences!Left PROVE k \in Nat /\ k >= K
    <3>1. k \in 1..(K + Len(r)) /\ form[k] \in Nonterminal BY <2>1
    <3>2. ~(k \in 1..Len(t)) BY <2>2, <3>1
    <3> QED BY <1>2, <3>1, <3>2
  <2> QED BY <2>3, <2>4
<1>6. Sentences!Min(Sentences!Left) = K
  <2> DEFINE L == Sentences!Left
  <2> HIDE DEF L
  <2>1. Sentences!Min(L) = CHOOSE y \in L : \A z \in L : y <= z
    BY DEF Sentences!Min
  <2>2. K \in L /\ \A k \in L : k \in Nat /\ k >= K BY <1>5 DEF L
  <2>3. K \in Nat BY <1>2
  <2> HIDE DEF K
  <2>4. \A y \in L : (\A z \in L : y <= z) => y = K BY <2>2, <2>3
  <2>5. \A z \in L : K <= z BY <2>2, <2>3
  <2>6. Sentences!Min(L) = K BY <2>1, <2>2, <2>4, <2>5
  <2> QED BY <2>6 DEF L
<1>7. SubSeq(form, 1, K - 1) = t
  BY <1>2, <1>4
<1>8. SubSeq(form, K + 1, Len(form)) = r
  <2> DEFINE u == SubSeq(form, K + 1, Len(form))
  <2>1. /\ K + 1 \in Int /\ Len(form) \in Int /\ Len(form) = K + Len(r)
        /\ \A n \in (K + 1)..Len(form) : form[n] \in Token
    <3>1. K \in Nat /\ Len(form) \in Nat /\ Len(form) = K + Len(r) BY <1>2, <1>4
    <3>2. \A n \in 1..Len(form) : form[n] \in Token BY <1>4, ElementOfSeq
    <3> HIDE DEF K
    <3> QED BY <3>1, <3>2
  <2>2. /\ u \in Seq(Token)
        /\ Len(u) = IF K + 1 <= Len(form) THEN Len(form) - (K + 1) + 1 ELSE 0
        /\ \A n \in 1..(Len(form) - (K + 1) + 1) : u[n] = form[(K + 1) + n - 1]
    BY <2>1, SubSeqProperties
  <2>3. K \in Nat BY <1>2
  <2> HIDE DEF u, K
  <2>4. Len(u) = Len(r) /\ Len(form) - (K + 1) + 1 = Len(r)
    BY <1>2, <2>1, <2>2, <2>3
  <2>5. \A n \in 1..Len(r) : u[n] = form[K + n]
    <3> SUFFICES ASSUME NEW n \in 1..Len(r) PROVE u[n] = form[K + n] OBVIOUS
    <3>1. (K + 1) + n - 1 = K + n BY <2>3
    <3> QED BY <2>2, <2>4, <3>1
  <2>6. \A n \in 1..Len(u) : u[n] = r[n] BY <1>4, <2>4, <2>5
  <2>7. u = r BY <2>2, <2>4, <2>6, SeqEqual
  <2> QED BY <2>7 DEF u
<1>9. t \o (e \o r) = (t \o e) \o r
  BY ConcatAssociative
<1> DEFINE next == text' \o ToVisit'
<1>10. next = SubSeq(form, 1, K - 1) \o e \o SubSeq(form, K + 1, Len(form))
  BY <1>7, <1>8, <1>9
<1> HIDE DEF next, K
<1>11. Sentences!Left # {} /\ e \in Sentences!Expansions(form[K])
  BY <1>4, <1>5
<1> QED BY <1>6, <1>10, <1>11 DEF Sentences!Derive, form, next

LEMMA VisitStep ==
    ASSUME RsgInv, VisitToken
    PROVE  /\ RsgInv'
           /\ \/ text' \o ToVisit' = text \o ToVisit /\ grammarFile' = grammarFile
              \/ Sentences!Derive
<1> DEFINE N == Len(visits) - 1
           top == Last(visits)
           token == Head(top)
           frames == [visits EXCEPT ![Len(visits)] = Tail(@)]
<1>1. /\ visits # <<>> /\ top # <<>>
      /\ UNCHANGED <<grammarFile, definitions, grammar>>
      /\ \/ /\ IsTerminal(token) /\ text' = Append(text, token) /\ visits' = frames
         \/ UNCHANGED <<text, visits>>
         \/ /\ ~IsTerminal(token) /\ CheckNonTerminalValidity(token)
            /\ Dfs(frames, token) /\ text' = text
  BY DEF VisitToken
<1>2. GrammarGood' /\ (AllRead' <=> AllRead) /\ AllRead
  BY <1>1, SameGrammar DEF RsgInv, VisitsGood
<1>3. /\ N \in Nat /\ Len(visits) = N + 1 /\ top = visits[N + 1]
      /\ visits \in Seq(Seq(Token)) /\ top \in Seq(Token)
      /\ \E g : /\ Flattens(g, visits) /\ g[N] \in Seq(Token)
                /\ ToVisit = top \o g[N]
  BY <1>1, TopFacts DEF RsgInv
<1>4. PICK g : /\ Flattens(g, visits) /\ g[N] \in Seq(Token)
               /\ ToVisit = top \o g[N]
  BY <1>3
<1> DEFINE r == g[N]
           tl == Tail(top)
<1>5. /\ frames \in Seq(Seq(Token)) /\ Len(frames) = N + 1 /\ frames[N + 1] = tl
      /\ \A n \in 1..N : frames[n] = visits[n]
  <2> HIDE DEF N
  <2> QED BY <1>1, <1>3, FramesFacts
<1>6. token \in Token /\ tl \in Seq(Token) /\ text \in Seq(Token) /\ r \in Seq(Token)
  BY <1>1, <1>3, <1>4, HeadTailProperties DEF RsgInv, TextGood
<1>7. \E h : Flattens(h, frames) /\ h[N + 1] = tl \o r
  <2> HIDE DEF N, frames, tl
  <2>1. N <= Len(visits) BY <1>3
  <2>2. PICK h : Flattens(h, frames) /\ h[N] = g[N]
    BY <1>3, <1>4, <1>5, <2>1, FlattensTop
  <2>3. h[N + 1] = frames[N + 1] \o h[N] BY <1>3, <1>5, <2>2, TopFirst
  <2>4. frames[N + 1] \o h[N] = tl \o r BY <1>5, <2>2, Zenon
  <2>5. h[N + 1] = tl \o r BY <2>3, <2>4, Zenon
  <2> QED BY <2>2, <2>5, Zenon
<1>8. PICK h : Flattens(h, frames) /\ h[N + 1] = tl \o r BY <1>7
<1> HIDE DEF N, frames, tl, r, token, top
<1>9. CASE IsTerminal(token) /\ text' = Append(text, token) /\ visits' = frames
  <2>1. ToVisit' = tl \o r BY <1>5, <1>8, <1>9, ToVisitNext
  <2>2. text' \o ToVisit' = text \o ToVisit
    <3>1. Append(text, token) \o (tl \o r) = text \o (top \o r)
      <4>1. \A a, b, c \in Seq(Token) :
               b # <<>> => Append(a, Head(b)) \o (Tail(b) \o c) = a \o (b \o c)
        BY MovesToken
      <4>2. text \in Seq(Token) /\ top \in Seq(Token) /\ r \in Seq(Token) /\ top # <<>>
        BY <1>1, <1>3, <1>6
      <4>3. Append(text, Head(top)) \o (Tail(top) \o r) = text \o (top \o r)
        BY <4>1, <4>2, Zenon
      <4> QED BY <4>3, Zenon DEF tl, token
    <3>2. ToVisit = top \o r BY <1>4 DEF r
    <3>3. text' = Append(text, token) BY <1>9
    <3> QED BY <2>1, <3>1, <3>2, <3>3, Zenon
  <2>3. TextGood'
    <3>1. token \notin Nonterminal BY <1>9 DEF IsTerminal
    <3>2. \A k \in DOMAIN text : text[k] \notin Nonterminal BY DEF RsgInv, TextGood
    <3> QED BY <1>6, <1>9, <3>1, <3>2 DEF TextGood
  <2>4. VisitsGood' BY <1>2, <1>5, <1>8, <1>9 DEF VisitsGood
  <2> QED BY <1>1, <1>2, <2>2, <2>3, <2>4 DEF RsgInv
<1>10. CASE UNCHANGED <<text, visits>>
  <2>1. VisitsGood' /\ ToVisit' = ToVisit BY <1>2, <1>10, SameForm DEF RsgInv
  <2>2. TextGood' BY <1>10 DEF RsgInv, TextGood
  <2> QED BY <1>1, <1>2, <1>10, <2>1, <2>2 DEF RsgInv
<1>11. CASE /\ ~IsTerminal(token) /\ CheckNonTerminalValidity(token)
            /\ Dfs(frames, token) /\ text' = text
  <2>1. PICK prod \in grammar[token] : visits' = Append(frames, prod) BY <1>11 DEF Dfs
  <2>2. token \in Nonterminal /\ token \in DOMAIN grammar
    BY <1>11 DEF IsTerminal, CheckNonTerminalValidity
  <2>3. prod \in Seq(Token) /\ prod \in Sentences!Expansions(token)
    BY <1>2, <2>1, <2>2, GrammarFacts DEF RsgInv
  <2> DEFINE M == N + 1
  <2>4. /\ visits' \in Seq(Seq(Token)) /\ Len(visits') = M + 1 /\ visits'[M + 1] = prod
        /\ \A n \in 1..M : visits'[n] = frames[n]
        /\ M \in Nat /\ M <= Len(frames)
    BY <1>3, <1>5, <2>1, <2>3
  <2>5. h[M] = tl \o r BY <1>8
  <2> HIDE DEF M
  <2>6. PICK k : Flattens(k, visits') /\ k[M] = h[M]
    BY <1>5, <1>8, <2>4, FlattensTop
  <2>16. k[M + 1] = visits'[M + 1] \o k[M] BY <2>4, <2>6, TopFirst
  <2>7. ToVisit' = k[M + 1] BY <2>4, <2>6, ToVisitNext
  <2>8. ToVisit' = prod \o (tl \o r)
    <3>1. visits'[M + 1] \o k[M] = prod \o (tl \o r) BY <2>4, <2>5, <2>6, Zenon
    <3> QED BY <2>7, <2>16, <3>1, Zenon
  <2>9. text' \o ToVisit' = text \o (prod \o (tl \o r)) BY <1>11, <2>8
  <2>10. text \o ToVisit = text \o (<<token>> \o (tl \o r))
    <3>1. top = <<token>> \o tl BY <1>1, <1>3 DEF tl, token
    <3>2. <<token>> \in Seq(Token) BY <1>6
    <3>3. top \o r = <<token>> \o (tl \o r) BY <1>6, <3>1, <3>2, ConcatAssociative
    <3> QED BY <1>4, <3>3 DEF r
  <2>11. tl \o r \in Seq(Token) BY <1>6, ConcatProperties
  <2>12. \A n \in DOMAIN text : text[n] \notin Nonterminal BY DEF RsgInv, TextGood
  <2>13. Sentences!Derive
    BY <1>1, <1>6, <2>2, <2>3, <2>9, <2>10, <2>11, <2>12, Derived
  <2>14. TextGood' BY <1>11 DEF RsgInv, TextGood
  <2>15. VisitsGood' BY <1>2, <2>4, <2>6 DEF VisitsGood
  <2> QED BY <1>2, <2>13, <2>14, <2>15 DEF RsgInv
<1> QED BY <1>1, <1>9, <1>10, <1>11

LEMMA RsgStep ==
    RsgInv /\ [RsgNext]_rsgVars =>
        /\ RsgInv'
        /\ [Sentences!Begin \/ Sentences!Derive]_<<grammarFile, text \o ToVisit>>
<1> SUFFICES ASSUME RsgInv, [RsgNext]_rsgVars
             PROVE  /\ RsgInv'
                    /\ \/ Sentences!Begin \/ Sentences!Derive
                       \/ text' \o ToVisit' = text \o ToVisit /\ grammarFile' = grammarFile
  OBVIOUS
<1>1. CASE ReadGrammar BY <1>1, ReadStep
<1>2. CASE MakeText
  <2>1. Sentences!Left = {}
    BY <1>2, MakeTextStep DEF Sentences!Left
  <2>2. Sentences!Begin BY <1>2, <2>1, MakeTextStep DEF Sentences!Begin
  <2> QED BY <1>2, <2>2, MakeTextStep
<1>3. CASE VisitToken BY <1>3, VisitStep
<1>4. CASE DfsReturn BY <1>4, ReturnStep
<1>5. CASE UNCHANGED rsgVars
  <2>1. UNCHANGED <<grammarFile, definitions, grammar>> /\ text' = text /\ visits' = visits
    BY <1>5 DEF rsgVars
  <2>2. GrammarGood' /\ (AllRead' <=> AllRead) BY <2>1, SameGrammar DEF RsgInv
  <2>3. VisitsGood' /\ ToVisit' = ToVisit BY <2>1, <2>2, SameForm DEF RsgInv
  <2>4. TextGood' BY <2>1 DEF RsgInv, TextGood
  <2> QED BY <2>1, <2>2, <2>3, <2>4 DEF RsgInv
<1> QED BY <1>1, <1>2, <1>3, <1>4, <1>5 DEF RsgNext

LEMMA RsgInitInv == RsgInit => RsgInv /\ text \o ToVisit = <<>>
<1> SUFFICES ASSUME RsgInit PROVE RsgInv /\ text \o ToVisit = <<>> OBVIOUS
<1>1. /\ grammarFile \in GrammarFiles /\ definitions = 0 /\ grammar = <<>>
      /\ visits = <<>> /\ text = <<>>
  BY DEF RsgInit
<1>2. DOMAIN <<>> = {} /\ <<>> \in Seq(Token) /\ <<>> \in Seq(Seq(Token)) OBVIOUS
<1>3. GrammarGood
  <2>1. grammarFile \in Seq(ToSet(grammarFile)) BY <1>1, GrammarAssumption
  <2>2. Len(grammarFile) \in Nat BY <2>1
  <2> QED BY <1>1, <1>2, <2>2 DEF GrammarGood
<1>4. TextGood BY <1>1, <1>2 DEF TextGood
<1>5. VisitsGood
  <2> DEFINE rest == [n \in 0..0 |-> <<>>]
  <2>1. rest = [n \in 0..0 |-> IF n = 0 THEN <<>> ELSE visits[n] \o rest[n - 1]]
    OBVIOUS
  <2>2. Len(<<>>) = 0 OBVIOUS
  <2> HIDE DEF rest
  <2>3. Flattens(rest, visits) BY <1>1, <2>1, <2>2 DEF Flattens
  <2> QED BY <1>1, <1>2, <2>3 DEF VisitsGood
<1>6. text \o ToVisit = <<>>
  <2>1. ToVisit = <<>> BY <1>1, <1>5, ToVisitFacts
  <2> QED BY <1>1, <2>1
<1> QED BY <1>3, <1>4, <1>5, <1>6 DEF RsgInv

\* Every text that is printed is derived, leftmost nonterminal first, from the
\* start symbol by the last definitions in the file, for any grammar.
THEOREM TextsDerived == RsgSpec => DerivesText
<1>1. RsgSpec => [][Sentences!Begin \/ Sentences!Derive]_<<grammarFile, text \o ToVisit>>
  BY RsgInitInv, RsgStep, PTL DEF RsgSpec
<1>2. RsgSpec => text \o ToVisit = <<>>
  BY RsgInitInv DEF RsgSpec
<1> QED BY <1>1, <1>2 DEF DerivesText, Sentences!Derivations

-----------------------------------------------------------------------------
(***************************************************************************)
(* The movie database                                                      *)
(***************************************************************************)
(* Sets in order *)

TotalOrder(R, S) ==
    /\ \A a \in S : <<a, a>> \notin R
    /\ \A a, b \in S : a = b \/ <<a, b>> \in R \/ <<b, a>> \in R
    /\ \A a, b, c \in S : <<a, b>> \in R /\ <<b, c>> \in R => <<a, c>> \in R

Largest(m, R, S) == m \in S /\ \A a \in S : a = m \/ <<a, m>> \in R

\* A finite set in a total order has a largest element, and can be listed.
LEMMA LargestExists ==
    ASSUME NEW R, NEW S, IsFiniteSet(S), S # {}, TotalOrder(R, S)
    PROVE  \E m : Largest(m, R, S)
<1> DEFINE P(U) == IsFiniteSet(U) /\ TotalOrder(R, U) => \E m : Largest(m, R, U)
           T == {n \in Nat : \A U : Cardinality(U) = n + 1 => P(U)}
<1>1. 0 \in T
  <2> SUFFICES ASSUME NEW U, IsFiniteSet(U), Cardinality(U) = 1 PROVE \E m : Largest(m, R, U)
    OBVIOUS
  <2>1. PICK m : U = {m} BY FS_Singleton
  <2>2. Largest(m, R, U) BY <2>1 DEF Largest
  <2> QED BY <2>2
<1>2. ASSUME NEW n \in Nat, n \in T PROVE n + 1 \in T
  <2> SUFFICES ASSUME NEW U, IsFiniteSet(U), Cardinality(U) = n + 2, TotalOrder(R, U)
               PROVE  \E m : Largest(m, R, U)
    OBVIOUS
  <2>1. PICK x : x \in U
    <3>1. U # {} BY FS_EmptySet
    <3> QED BY <3>1
  <2> DEFINE V == U \ {x}
  <2>2. IsFiniteSet(V) /\ Cardinality(V) = n + 1
    <3>1. IsFiniteSet(V) /\ Cardinality(V) = Cardinality(U) - 1 BY <2>1, FS_RemoveElement
    <3> QED BY <3>1
  <2>3. TotalOrder(R, V) BY DEF TotalOrder
  <2>4. PICK m : Largest(m, R, V)
    <3> HIDE DEF V
    <3> QED BY <1>2, <2>2, <2>3
  <2>5. CASE <<x, m>> \in R
    <3>1. Largest(m, R, U) BY <2>4, <2>5 DEF Largest
    <3> QED BY <3>1
  <2>6. CASE <<m, x>> \in R
    <3>1. Largest(x, R, U) BY <2>1, <2>4, <2>6 DEF Largest, TotalOrder
    <3> QED BY <3>1
  <2> QED BY <2>1, <2>4, <2>5, <2>6 DEF Largest, TotalOrder
<1> HIDE DEF T
<1>3. Nat \subseteq T BY <1>1, <1>2, Induction
<1>4. Cardinality(S) \in Nat /\ Cardinality(S) # 0 BY FS_CardinalityType, FS_EmptySet
<1>5. Cardinality(S) - 1 \in T /\ (Cardinality(S) - 1) + 1 = Cardinality(S) BY <1>3, <1>4
<1> QED BY <1>5 DEF T

InOrder(s, n, R) == \A j, k \in 1..n : j < k => <<s[j], s[k]>> \in R

LEMMA SortedExists ==
    ASSUME NEW R, NEW S, IsFiniteSet(S), TotalOrder(R, S)
    PROVE  \E s \in [1..Cardinality(S) -> S] : InOrder(s, Cardinality(S), R)
<1> DEFINE P(U, n) == IsFiniteSet(U) /\ TotalOrder(R, U) => \E s \in [1..n -> U] : InOrder(s, n, R)
           T == {n \in Nat : \A U : Cardinality(U) = n => P(U, n)}
<1>1. 0 \in T
  <2> SUFFICES ASSUME NEW U, Cardinality(U) = 0 PROVE \E s \in [1..0 -> U] : InOrder(s, 0, R)
    OBVIOUS
  <2> DEFINE s == [k \in 1..0 |-> k]
  <2>1. 1..0 = {} OBVIOUS
  <2>2. s \in [1..0 -> U] /\ InOrder(s, 0, R) BY <2>1 DEF InOrder
  <2> QED BY <2>2
<1>2. ASSUME NEW n \in Nat, n \in T PROVE n + 1 \in T
  <2> SUFFICES ASSUME NEW U, IsFiniteSet(U), Cardinality(U) = n + 1, TotalOrder(R, U)
               PROVE  \E s \in [1..(n + 1) -> U] : InOrder(s, n + 1, R)
    OBVIOUS
  <2>1. PICK m : Largest(m, R, U)
    <3>1. U # {} BY FS_EmptySet
    <3> QED BY <3>1, LargestExists
  <2> DEFINE V == U \ {m}
  <2>2. IsFiniteSet(V) /\ Cardinality(V) = n
    <3>1. IsFiniteSet(V) /\ Cardinality(V) = Cardinality(U) - 1 BY <2>1, FS_RemoveElement DEF Largest
    <3> QED BY <3>1
  <2>3. TotalOrder(R, V) BY DEF TotalOrder
  <2>4. PICK s \in [1..n -> V] : InOrder(s, n, R)
    <3> HIDE DEF V
    <3> QED BY <1>2, <2>2, <2>3
  <2> DEFINE t == [k \in 1..(n + 1) |-> IF k = n + 1 THEN m ELSE s[k]]
  <2>5. \A k \in 1..(n + 1) : k = n + 1 \/ k \in 1..n OBVIOUS
  <2>6. m \in U /\ \A k \in 1..n : s[k] \in U /\ <<s[k], m>> \in R
    BY <2>1, <2>4 DEF Largest
  <2>7. t \in [1..(n + 1) -> U] BY <2>5, <2>6
  <2>8. t[n + 1] = m /\ \A k \in 1..n : t[k] = s[k] OBVIOUS
  <2> HIDE DEF t
  <2>9. InOrder(t, n + 1, R)
    <3> SUFFICES ASSUME NEW j \in 1..(n + 1), NEW k \in 1..(n + 1), j < k
                 PROVE  <<t[j], t[k]>> \in R
      BY DEF InOrder
    <3>1. j \in 1..n OBVIOUS
    <3>2. CASE k = n + 1 BY <2>6, <2>8, <3>1, <3>2
    <3>3. CASE k \in 1..n BY <2>4, <2>8, <3>1, <3>3 DEF InOrder
    <3> QED BY <2>5, <3>2, <3>3
  <2> QED BY <2>7, <2>9
<1> HIDE DEF T
<1>3. Nat \subseteq T BY <1>1, <1>2, Induction
<1>4. Cardinality(S) \in T BY <1>3, FS_CardinalityType
<1> QED BY <1>4 DEF T

\* s has each element of S once, in the order R.
ListsInOrder(s, S, R) ==
    /\ s \in Seq(S) /\ Len(s) = Cardinality(S) /\ Len(s) \in Nat /\ DOMAIN s = 1..Len(s)
    /\ \A k \in 1..Len(s) : s[k] \in S
    /\ \A e \in S : \E k \in 1..Len(s) : s[k] = e
    /\ \A j, k \in 1..Len(s) : j < k => <<s[j], s[k]>> \in R
    /\ \A j, k \in 1..Len(s) : s[j] = s[k] => j = k

\* What Sorted chooses lists the set.
LEMMA SortedIs ==
    ASSUME NEW R, NEW S, IsFiniteSet(S), TotalOrder(R, S)
    PROVE  ListsInOrder(Sorted(S, R), S, R)
<1> DEFINE n == Cardinality(S)
           s == Sorted(S, R)
           Good(w) == \A j, k \in DOMAIN w : j < k => <<w[j], w[k]>> \in R
<1>1. n \in Nat BY FS_CardinalityType
<1>2. \E w \in [1..n -> S] : Good(w)
  <2>1. PICK w \in [1..n -> S] : InOrder(w, n, R) BY SortedExists
  <2>2. Good(w) BY <2>1 DEF InOrder
  <2> QED BY <2>2
<1>3. s \in [1..n -> S] /\ Good(s)
  <2>1. s = CHOOSE w \in [1..n -> S] : Good(w) BY DEF Sorted
  <2> HIDE DEF s, n, Good
  <2> QED BY <1>2, <2>1
<1> HIDE DEF n, s
<1>4. s \in Seq(S) /\ Len(s) = n /\ DOMAIN s = 1..n BY <1>1, <1>3
<1>5. \A j, k \in 1..n : j < k => <<s[j], s[k]>> \in R BY <1>3
<1>6. ASSUME NEW j \in 1..n, NEW k \in 1..n, s[j] = s[k] PROVE j = k
  <2>1. <<s[j], s[j]>> \notin R /\ s[j] \in S BY <1>3 DEF TotalOrder
  <2>2. j < k \/ k < j \/ j = k OBVIOUS
  <2> QED BY <1>5, <1>6, <2>1, <2>2
<1>7. \A e \in S : \E k \in 1..n : s[k] = e
  <2>1. IsFiniteSet(1..n) /\ Cardinality(1..n) = n BY <1>1, FS_Interval
  <2>2. s \in Injection(1..n, S) BY <1>3, <1>6 DEF Injection, IsInjective
  <2>3. s \in Surjection(1..n, S) BY <2>1, <2>2, FS_Injection DEF n
  <2> QED BY <2>3 DEF Surjection
<1> QED BY <1>1, <1>3, <1>4, <1>5, <1>6, <1>7 DEF ListsInOrder, s, n

-----------------------------------------------------------------------------
(* The binary search *)

\* compare[i] says how the key compares with the i-th of n ascending elements.
Ascends(compare, n) ==
    /\ compare \in [1..n -> Int]
    /\ \A i, j \in 1..n : i < j => (compare[i] <= 0 => compare[j] < 0)

Zeros(compare, l, u) == {i \in (l + 1)..u : compare[i] = 0}
Equal(compare, l, u) == IF Zeros(compare, l, u) = {} THEN 0
                        ELSE CHOOSE i \in Zeros(compare, l, u) : TRUE

\* What the search answers for an area, from what it answers for smaller ones.
Halved(find, compare, l, u) ==
    LET mid == (l + u) \div 2
    IN  IF l >= u THEN 0
        ELSE IF compare[mid + 1] < 0 THEN find[<<l, mid>>]
        ELSE IF compare[mid + 1] > 0 THEN find[<<mid + 1, u>>]
        ELSE mid + 1

LEMMA MiddleInside ==
    ASSUME NEW l \in Nat, NEW u \in Nat, l < u
    PROVE  LET mid == (l + u) \div 2
           IN  mid \in Nat /\ l <= mid /\ mid < u /\ mid + 1 \in (l + 1)..u
OBVIOUS

LEMMA EqualHalves ==
    ASSUME NEW n \in Nat, NEW compare, Ascends(compare, n),
           NEW l \in 0..n, NEW u \in 0..n
    PROVE  LET mid == (l + u) \div 2
           IN  Equal(compare, l, u) =
               IF l >= u THEN 0
               ELSE IF compare[mid + 1] < 0 THEN Equal(compare, l, mid)
               ELSE IF compare[mid + 1] > 0 THEN Equal(compare, mid + 1, u)
               ELSE mid + 1
<1> DEFINE mid == (l + u) \div 2
<1>1. CASE l >= u
  <2>1. Zeros(compare, l, u) = {} BY <1>1 DEF Zeros
  <2> QED BY <1>1, <2>1 DEF Equal
<1>2. CASE l < u
  <2>1. mid \in Nat /\ l <= mid /\ mid < u /\ mid + 1 \in (l + 1)..u BY <1>2, MiddleInside
  <2> HIDE DEF mid
  <2>2. mid + 1 \in 1..n /\ compare[mid + 1] \in Int BY <2>1 DEF Ascends
  <2>3. CASE compare[mid + 1] < 0
    <3>1. \A i \in (mid + 1)..u : compare[i] # 0
      <4> SUFFICES ASSUME NEW i \in (mid + 1)..u PROVE compare[i] # 0
        OBVIOUS
      <4>1. i \in 1..n /\ (i = mid + 1 \/ mid + 1 < i) BY <2>1
      <4> QED BY <2>2, <2>3, <4>1 DEF Ascends
    <3>2. \A i : i \in (l + 1)..u <=> i \in (l + 1)..mid \/ i \in (mid + 1)..u BY <2>1
    <3>3. Zeros(compare, l, u) = Zeros(compare, l, mid) BY <3>1, <3>2 DEF Zeros
    <3> QED BY <1>2, <2>3, <3>3 DEF Equal, mid
  <2>4. CASE compare[mid + 1] > 0
    <3>1. \A i \in (l + 1)..(mid + 1) : compare[i] # 0
      <4> SUFFICES ASSUME NEW i \in (l + 1)..(mid + 1) PROVE compare[i] # 0
        OBVIOUS
      <4>1. i \in 1..n /\ (i = mid + 1 \/ i < mid + 1) BY <2>1
      <4> QED BY <2>2, <2>4, <4>1 DEF Ascends
    <3>2. \A i : i \in (l + 1)..u <=> i \in (l + 1)..(mid + 1) \/ i \in (mid + 2)..u BY <2>1
    <3>3. (mid + 1) + 1 = mid + 2 BY <2>1
    <3>4. Zeros(compare, l, u) = Zeros(compare, mid + 1, u) BY <3>1, <3>2, <3>3 DEF Zeros
    <3>5. ~ (compare[mid + 1] < 0) BY <2>2, <2>4
    <3> QED BY <1>2, <2>4, <3>4, <3>5 DEF Equal, mid
  <2>5. CASE compare[mid + 1] = 0
    <3>1. ASSUME NEW i \in (l + 1)..u, compare[i] = 0 PROVE i = mid + 1
      <4>1. i \in 1..n /\ (i = mid + 1 \/ i < mid + 1 \/ mid + 1 < i) BY <2>1
      <4> QED BY <2>2, <2>5, <3>1, <4>1 DEF Ascends
    <3>2. Zeros(compare, l, u) = {mid + 1} BY <2>1, <2>5, <3>1 DEF Zeros
    <3>3. Equal(compare, l, u) = mid + 1 BY <3>2 DEF Equal
    <3>4. ~ (l >= u) /\ ~ (compare[mid + 1] < 0) /\ ~ (compare[mid + 1] > 0)
      BY <1>2, <2>5
    <3> QED BY <3>3, <3>4 DEF mid
  <2> QED BY <2>2, <2>3, <2>4, <2>5
<1> QED BY <1>1, <1>2

\* What bsearch returns is where the key is.
LEMMA BsearchIs ==
    ASSUME NEW n \in Nat, NEW compare, Ascends(compare, n)
    PROVE  Bsearch(n, compare) = Equal(compare, 0, n)
<1> DEFINE X == (0..n) \X (0..n)
           find[area \in X] ==
               LET l   == area[1]
                   u   == area[2]
                   mid == (l + u) \div 2
               IN  IF l >= u THEN 0
                   ELSE IF compare[mid + 1] < 0 THEN find[<<l, mid>>]
                   ELSE IF compare[mid + 1] > 0 THEN find[<<mid + 1, u>>]
                   ELSE mid + 1
           g == [area \in X |-> Equal(compare, area[1], area[2])]
<1>1. Bsearch(n, compare) = find[<<0, n>>] BY DEF Bsearch
<1>2. \A a \in X : a[1] \in 0..n /\ a[2] \in 0..n /\ a = <<a[1], a[2]>> OBVIOUS
<1>3. \A l, u \in 0..n : <<l, u>> \in X /\ g[<<l, u>>] = Equal(compare, l, u) OBVIOUS
<1>4. ASSUME NEW a \in X PROVE g[a] = Halved(g, compare, a[1], a[2])
  <2> DEFINE l == a[1]
             u == a[2]
             mid == (l + u) \div 2
  <2>1. l \in 0..n /\ u \in 0..n /\ g[a] = Equal(compare, l, u) BY <1>2
  <2>2. CASE l >= u
    <3>1. Equal(compare, l, u) = 0 BY <2>1, <2>2, EqualHalves
    <3> QED BY <2>1, <2>2, <3>1 DEF Halved
  <2>3. CASE l < u
    <3>1. mid \in Nat /\ l <= mid /\ mid < u BY <2>1, <2>3, MiddleInside
    <3> HIDE DEF l, u, mid, g
    <3>2. mid \in 0..n /\ mid + 1 \in 0..n BY <2>1, <3>1
    <3>3. g[<<l, mid>>] = Equal(compare, l, mid) /\ g[<<mid + 1, u>>] = Equal(compare, mid + 1, u)
      BY <1>3, <2>1, <3>2
    <3>4. ~ (l >= u) BY <2>1, <2>3
    <3>5. Equal(compare, l, u) = IF compare[mid + 1] < 0 THEN Equal(compare, l, mid)
                                 ELSE IF compare[mid + 1] > 0 THEN Equal(compare, mid + 1, u)
                                 ELSE mid + 1
      BY <2>1, <3>4, EqualHalves DEF mid
    <3>6. Halved(g, compare, l, u) = IF compare[mid + 1] < 0 THEN g[<<l, mid>>]
                                     ELSE IF compare[mid + 1] > 0 THEN g[<<mid + 1, u>>]
                                     ELSE mid + 1
      BY <3>4 DEF Halved, mid
    <3>7. g[a] = Halved(g, compare, l, u) BY <2>1, <3>3, <3>5, <3>6
    <3> QED BY <3>7 DEF l, u
  <2> QED BY <2>1, <2>2, <2>3
<1>5. g = [a \in X |-> g[a]] OBVIOUS
<1> HIDE DEF g
<1>6. g = [a \in X |-> Halved(g, compare, a[1], a[2])] BY <1>4, <1>5, Zenon
<1>7. g = [area \in X |->
              LET l   == area[1]
                  u   == area[2]
                  mid == (l + u) \div 2
              IN  IF l >= u THEN 0
                  ELSE IF compare[mid + 1] < 0 THEN g[<<l, mid>>]
                  ELSE IF compare[mid + 1] > 0 THEN g[<<mid + 1, u>>]
                  ELSE mid + 1]
  BY <1>6, Zenon DEF Halved
<1>8. find = [area \in X |->
              LET l   == area[1]
                  u   == area[2]
                  mid == (l + u) \div 2
              IN  IF l >= u THEN 0
                  ELSE IF compare[mid + 1] < 0 THEN find[<<l, mid>>]
                  ELSE IF compare[mid + 1] > 0 THEN find[<<mid + 1, u>>]
                  ELSE mid + 1]
  BY <1>7
<1> HIDE DEF find
<1>9. find = [a \in X |-> Halved(find, compare, a[1], a[2])] BY <1>8, Zenon DEF Halved
<1>10. \A l, u \in 0..n : find[<<l, u>>] = Halved(find, compare, l, u)
  <2> TAKE l \in 0..n, u \in 0..n
  <2>1. <<l, u>> \in X /\ <<l, u>>[1] = l /\ <<l, u>>[2] = u BY <1>3
  <2>2. find[<<l, u>>] = Halved(find, compare, <<l, u>>[1], <<l, u>>[2]) BY <1>9, <2>1, Zenon
  <2> QED BY <2>1, <2>2
<1> HIDE DEF X
<1> DEFINE T == {k \in Nat : \A l, u \in 0..n : u - l <= k => find[<<l, u>>] = Equal(compare, l, u)}
<1>11. 0 \in T
  <2> SUFFICES ASSUME NEW l \in 0..n, NEW u \in 0..n, u - l <= 0
               PROVE  find[<<l, u>>] = Equal(compare, l, u)
    OBVIOUS
  <2>1. l >= u OBVIOUS
  <2>2. find[<<l, u>>] = 0 BY <1>10, <2>1 DEF Halved
  <2> QED BY <2>1, <2>2, EqualHalves
<1>12. ASSUME NEW k \in Nat, k \in T PROVE k + 1 \in T
  <2> SUFFICES ASSUME NEW l \in 0..n, NEW u \in 0..n, u - l <= k + 1
               PROVE  find[<<l, u>>] = Equal(compare, l, u)
    OBVIOUS
  <2>1. CASE l >= u
    <3>1. find[<<l, u>>] = 0 BY <1>10, <2>1 DEF Halved
    <3> QED BY <2>1, <3>1, EqualHalves
  <2>2. CASE l < u
    <3> DEFINE mid == (l + u) \div 2
    <3>1. mid \in Nat /\ l <= mid /\ mid < u BY <2>2, MiddleInside
    <3>2. /\ find[<<l, u>>] = IF compare[mid + 1] < 0 THEN find[<<l, mid>>]
                              ELSE IF compare[mid + 1] > 0 THEN find[<<mid + 1, u>>]
                              ELSE mid + 1
          /\ Equal(compare, l, u) = IF compare[mid + 1] < 0 THEN Equal(compare, l, mid)
                                    ELSE IF compare[mid + 1] > 0 THEN Equal(compare, mid + 1, u)
                                    ELSE mid + 1
      <4>1. ~ (l >= u) BY <2>2
      <4> QED BY <1>10, <4>1, EqualHalves DEF Halved
    <3> HIDE DEF mid
    <3>3. /\ mid \in 0..n /\ mid + 1 \in 0..n /\ mid - l <= k /\ u - (mid + 1) <= k
      BY <3>1
    <3>4. find[<<l, mid>>] = Equal(compare, l, mid) /\ find[<<mid + 1, u>>] = Equal(compare, mid + 1, u)
      BY <1>12, <3>3
    <3> QED BY <3>2, <3>4
  <2> QED BY <2>1, <2>2
<1> HIDE DEF T
<1>13. Nat \subseteq T BY <1>11, <1>12, Induction
<1>14. find[<<0, n>>] = Equal(compare, 0, n)
  <2>1. n \in T /\ 0 \in 0..n /\ n \in 0..n /\ n - 0 <= n BY <1>13
  <2> QED BY <2>1 DEF T
<1> QED BY <1>1, <1>14

\* It finds the element that is equal to the key, if there is one.
LEMMA BsearchFinds ==
    ASSUME NEW n \in Nat, NEW compare, Ascends(compare, n)
    PROVE  /\ \A k \in 1..n : compare[k] = 0 => Bsearch(n, compare) = k
           /\ (\A k \in 1..n : compare[k] # 0) => Bsearch(n, compare) = 0
<1>1. 0 + 1 = 1 OBVIOUS
<1>2. Zeros(compare, 0, n) = {k \in 1..n : compare[k] = 0} BY <1>1 DEF Zeros
<1>3. ASSUME NEW k \in 1..n, compare[k] = 0 PROVE Bsearch(n, compare) = k
  <2>1. ASSUME NEW i \in 1..n, compare[i] = 0 PROVE i = k
    <3>1. i < k \/ k < i \/ i = k OBVIOUS
    <3> QED BY <1>3, <2>1, <3>1 DEF Ascends
  <2>2. Zeros(compare, 0, n) = {k} BY <1>2, <1>3, <2>1
  <2>3. Equal(compare, 0, n) = k BY <2>2 DEF Equal
  <2> QED BY <2>3, BsearchIs
<1>4. ASSUME \A k \in 1..n : compare[k] # 0 PROVE Bsearch(n, compare) = 0
  <2>1. Zeros(compare, 0, n) = {} BY <1>2, <1>4
  <2> QED BY <2>1, BsearchIs DEF Equal
<1> QED BY <1>3, <1>4

(* The data files *)

OffsetsTo(g, m, base, sizes) ==
    g = [k \in 1..m |-> IF k = 1 THEN base ELSE g[k - 1] + sizes[k - 1]]

LEMMA OffsetsExist ==
    ASSUME NEW n \in Nat, NEW sizes, NEW base
    PROVE  \E g : OffsetsTo(g, n + 1, base, sizes)
<1> DEFINE T == {m \in Nat : \E g : OffsetsTo(g, m + 1, base, sizes)}
<1>1. 0 \in T
  <2> DEFINE g == [k \in 1..1 |-> base]
  <2>1. g = [k \in 1..(0 + 1) |-> g[k]] /\ \A k \in 1..(0 + 1) : k = 1 /\ g[k] = base OBVIOUS
  <2> HIDE DEF g
  <2>2. g = [k \in 1..(0 + 1) |-> IF k = 1 THEN base ELSE g[k - 1] + sizes[k - 1]]
    BY <2>1
  <2> QED BY <2>2 DEF OffsetsTo
<1>2. ASSUME NEW m \in Nat, m \in T PROVE m + 1 \in T
  <2>1. PICK g : OffsetsTo(g, m + 1, base, sizes) BY <1>2
  <2>2. \A k \in 1..(m + 1) : g[k] = IF k = 1 THEN base ELSE g[k - 1] + sizes[k - 1]
    BY <2>1 DEF OffsetsTo
  <2> DEFINE top == g[m + 1] + sizes[m + 1]
  <2> HIDE DEF top
  <2> DEFINE h == [k \in 1..(m + 1 + 1) |-> IF k = m + 1 + 1 THEN top ELSE g[k]]
  <2>3. /\ h[m + 1 + 1] = top
        /\ \A k \in 1..(m + 1) : h[k] = g[k]
        /\ h = [k \in 1..(m + 1 + 1) |-> h[k]]
    OBVIOUS
  <2> HIDE DEF h
  <2>4. ASSUME NEW k \in 1..(m + 1 + 1)
        PROVE  h[k] = IF k = 1 THEN base ELSE h[k - 1] + sizes[k - 1]
    <3>1. CASE k = m + 1 + 1
      <4>1. k # 1 /\ k - 1 = m + 1 /\ m + 1 \in 1..(m + 1) BY <3>1
      <4> QED BY <2>3, <3>1, <4>1 DEF top
    <3>2. CASE k \in 1..(m + 1)
      <4>1. k # 1 => k - 1 \in 1..(m + 1) BY <3>2
      <4> QED BY <2>2, <2>3, <3>2, <4>1
    <3> QED BY <3>1, <3>2
  <2>5. OffsetsTo(h, m + 1 + 1, base, sizes) BY <2>3, <2>4, Zenon DEF OffsetsTo
  <2> QED BY <2>5
<1> HIDE DEF T
<1>3. Nat \subseteq T BY <1>1, <1>2, Induction
<1> QED BY <1>3 DEF T

\* Where n records of these sizes are.
LaidOut(at, n, sizes) ==
    /\ n \in Nat /\ at \in [1..(n + 1) -> Nat] /\ at[1] = 4 + 4 * n
    /\ \A k \in 1..n : at[k + 1] = at[k] + sizes[k]

\* Each record begins where the one before it ends.
LEMMA OffsetsAre ==
    ASSUME NEW n \in Nat, NEW sizes \in [1..n -> Nat]
    PROVE  LaidOut(Offsets(sizes), n, sizes)
<1> DEFINE base == 4 + 4 * Len(sizes)
           at[k \in 1..(Len(sizes) + 1)] == IF k = 1 THEN base ELSE at[k - 1] + sizes[k - 1]
<1>1. Len(sizes) = n OBVIOUS
<1>2. Offsets(sizes) = at BY DEF Offsets
<1>3. base = 4 + 4 * n /\ base \in Nat BY <1>1
<1>4. \E g : g = [k \in 1..(Len(sizes) + 1) |-> IF k = 1 THEN base ELSE g[k - 1] + sizes[k - 1]]
  <2> HIDE DEF base, at
  <2>1. \E g : OffsetsTo(g, n + 1, base, sizes) BY OffsetsExist
  <2>2. \E g : OffsetsTo(g, Len(sizes) + 1, base, sizes) BY <1>1, <2>1
  <2> QED BY <2>2, Zenon DEF OffsetsTo
<1>5. at = [k \in 1..(Len(sizes) + 1) |-> IF k = 1 THEN base ELSE at[k - 1] + sizes[k - 1]]
  BY <1>4, Zenon
<1> HIDE DEF at, base
<1>6. at = [k \in 1..(n + 1) |-> IF k = 1 THEN base ELSE at[k - 1] + sizes[k - 1]]
  BY <1>1, <1>5
<1>7. /\ DOMAIN at = 1..(n + 1)
      /\ \A k \in 1..(n + 1) : at[k] = IF k = 1 THEN base ELSE at[k - 1] + sizes[k - 1]
  BY <1>6
<1>8. at[1] = base BY <1>7
<1>9. \A k \in 1..n : at[k + 1] = at[k] + sizes[k]
  <2> TAKE k \in 1..n
  <2>1. k + 1 \in 1..(n + 1) /\ k + 1 # 1 /\ (k + 1) - 1 = k OBVIOUS
  <2> QED BY <1>7, <2>1
<1> DEFINE T == {m \in Nat : m < n + 1 => at[m + 1] \in Nat}
<1>10. 0 \in T BY <1>3, <1>8
<1>11. ASSUME NEW m \in Nat, m \in T PROVE m + 1 \in T
  <2> SUFFICES ASSUME m + 1 < n + 1 PROVE at[m + 1 + 1] \in Nat OBVIOUS
  <2>1. m + 1 \in 1..n /\ at[m + 1] \in Nat BY <1>11
  <2>2. sizes[m + 1] \in Nat BY <2>1
  <2> QED BY <1>9, <2>1, <2>2
<1> HIDE DEF T
<1>12. Nat \subseteq T BY <1>10, <1>11, Induction
<1>13. \A k \in 1..(n + 1) : at[k] \in Nat
  <2> TAKE k \in 1..(n + 1)
  <2>1. k - 1 \in Nat /\ k - 1 < n + 1 /\ (k - 1) + 1 = k OBVIOUS
  <2>2. k - 1 \in T BY <1>12, <2>1
  <2> QED BY <2>1, <2>2 DEF T
<1>14. at \in [1..(n + 1) -> Nat] BY <1>6, <1>7, <1>13
<1> QED BY <1>2, <1>3, <1>8, <1>9, <1>14 DEF LaidOut

LEMMA OffsetsAscend ==
    ASSUME NEW n, NEW at, NEW sizes, LaidOut(at, n, sizes), \A k \in 1..n : sizes[k] \in Nat,
           NEW j \in 1..(n + 1), NEW k \in 1..(n + 1), j <= k
    PROVE  at[j] <= at[k]
<1>1. /\ n \in Nat /\ \A i \in 1..(n + 1) : at[i] \in Nat
      /\ \A i \in 1..n : at[i + 1] = at[i] + sizes[i]
  BY DEF LaidOut
<1> DEFINE T == {m \in Nat : j + m <= n + 1 => at[j] <= at[j + m]}
<1>2. 0 \in T BY <1>1
<1>3. ASSUME NEW m \in Nat, m \in T PROVE m + 1 \in T
  <2> SUFFICES ASSUME j + (m + 1) <= n + 1 PROVE at[j] <= at[j + (m + 1)] OBVIOUS
  <2>1. j + m \in 1..n /\ j + m \in 1..(n + 1) /\ at[j] <= at[j + m] BY <1>1, <1>3
  <2>2. j + (m + 1) = (j + m) + 1 BY <1>1
  <2>3. at[(j + m) + 1] = at[j + m] + sizes[j + m] /\ sizes[j + m] \in Nat BY <1>1, <2>1
  <2> QED BY <1>1, <2>1, <2>2, <2>3
<1> HIDE DEF T
<1>4. Nat \subseteq T BY <1>2, <1>3, Induction
<1>5. k - j \in T /\ j + (k - j) = k BY <1>1, <1>4
<1> QED BY <1>5 DEF T

LEMMA Rounding ==
    ASSUME NEW used \in Nat
    PROVE  /\ Up(used, 2) \in Nat /\ used <= Up(used, 2)
           /\ ListAt(used) \in Nat /\ Up(used, 2) < ListAt(used)
BY DEF Up, ListAt

\* Where getMovieOffsets and getPlayers look for the count and for the list.
LEMMA Skipped ==
    ASSUME NEW used \in Nat
    PROVE  /\ ((used + 1) \div 2) * 2 = Up(used, 2)
           /\ ((Up(used, 2) + 2 + 2) \div 4) * 4 = ListAt(used)
<1>1. Up(used, 2) = ((used + 1) \div 2) * 2 BY DEF Up
<1> DEFINE k == (used + 1) \div 2
<1>2. k \in Nat /\ Up(used, 2) = k * 2 BY <1>1
<1> HIDE DEF k
<1>3. ListAt(used) = ((k * 2 + 2 + 3) \div 4) * 4 BY <1>2 DEF ListAt, Up
<1>4. (k * 2 + 2 + 3) \div 4 = (k * 2 + 2 + 2) \div 4 BY <1>2
<1> QED BY <1>1, <1>2, <1>3, <1>4

GoodRecord(r) ==
    /\ r.used \in Nat \ {0} /\ IsSeq(r.entries)

RecordSize(r) == Size(r.used, Len(r.entries))

LEMMA RecordFacts ==
    ASSUME NEW r, GoodRecord(r)
    PROVE  /\ DOMAIN r.entries = 1..Len(r.entries) /\ Len(r.entries) \in Nat
           /\ RecordSize(r) \in Nat \ {0}
           /\ \A d \in PlacesIn(r) : d \in Nat /\ d < RecordSize(r)
           /\ ValueIn(r, 0) = r.name
           /\ r.used # 1 => ValueIn(r, r.used - 1) = r.year
           /\ ValueIn(r, Up(r.used, 2)) = Len(r.entries)
           /\ \A i \in 1..Len(r.entries) : ValueIn(r, ListAt(r.used) + 4 * (i - 1)) = r.entries[i]
<1> DEFINE used == r.used
           e == r.entries
           u == Up(used, 2)
           l == ListAt(used)
<1>1. used \in Nat \ {0} /\ IsSeq(e) BY DEF GoodRecord
<1> HIDE DEF e
<1>2. DOMAIN e = 1..Len(e) /\ Len(e) \in Nat BY <1>1 DEF IsSeq
<1>3. u \in Nat /\ used <= u /\ l \in Nat /\ u < l BY <1>1, Rounding
<1> HIDE DEF used, u, l
<1>4. RecordSize(r) = l + 4 * Len(e) BY DEF RecordSize, Size, l, used, e
<1>5. PlacesIn(r) = {0, used - 1, u} \cup {l + 4 * (i - 1) : i \in DOMAIN e}
  BY DEF PlacesIn, l, used, e, u
<1>6. \A d : ValueIn(r, d) = IF d = 0 THEN r.name
                             ELSE IF d = used - 1 THEN r.year
                             ELSE IF d = u THEN Len(e)
                             ELSE e[(d - l) \div 4 + 1]
  BY Zenon DEF ValueIn, l, used, e, u
<1>7. ASSUME NEW d \in PlacesIn(r) PROVE d \in Nat /\ d < l + 4 * Len(e)
  <2>1. d = 0 \/ d = used - 1 \/ d = u \/ \E i \in 1..Len(e) : d = l + 4 * (i - 1)
    BY <1>2, <1>5
  <2>2. ASSUME NEW i \in 1..Len(e), d = l + 4 * (i - 1) PROVE d \in Nat /\ d < l + 4 * Len(e)
    BY <1>2, <1>3, <2>2
  <2>3. d = 0 \/ d = used - 1 \/ d = u => d \in Nat /\ d < l + 4 * Len(e)
    BY <1>1, <1>2, <1>3
  <2> QED BY <2>1, <2>2, <2>3
<1>8. ASSUME NEW i \in 1..Len(e) PROVE ValueIn(r, l + 4 * (i - 1)) = e[i]
  <2> DEFINE d == l + 4 * (i - 1)
  <2>1. d # 0 /\ d # used - 1 /\ d # u BY <1>1, <1>2, <1>3
  <2>2. (d - l) \div 4 + 1 = i BY <1>2, <1>3
  <2> HIDE DEF d
  <2>3. ValueIn(r, d) = e[(d - l) \div 4 + 1] BY <1>6, <2>1
  <2> QED BY <2>2, <2>3 DEF d
<1>9. ValueIn(r, 0) = r.name BY <1>6
<1>10. used # 1 => ValueIn(r, used - 1) = r.year
  <2>1. used # 1 => used - 1 # 0 BY <1>1
  <2> QED BY <1>6, <2>1
<1>11. ValueIn(r, u) = Len(e)
  <2>1. u # 0 /\ u # used - 1 BY <1>1, <1>3
  <2> QED BY <1>6, <2>1
<1>12. RecordSize(r) \in Nat \ {0} BY <1>2, <1>3, <1>4
<1> QED BY <1>2, <1>4, <1>7, <1>8, <1>9, <1>10, <1>11, <1>12 DEF used, u, l, e

\* A file of n records.
GoodFile(at, n, records) ==
    /\ records \in [1..n -> {records[k] : k \in 1..n}]
    /\ \A k \in 1..n : GoodRecord(records[k])
    /\ LaidOut(at, n, [k \in 1..n |-> RecordSize(records[k])])

\* What is read at each place of each record is what was put there.
LEMMA FileReads ==
    ASSUME NEW n \in Nat, NEW at, NEW records, GoodFile(at, n, records)
    PROVE  LET file == FileOf(at, records)
           IN  /\ Read(file, 0) = n
               /\ \A k \in 1..n : Read(file, 4 * k) = at[k]
               /\ \A k \in 1..n : \A d \in PlacesIn(records[k]) :
                     Read(file, at[k] + d) = ValueIn(records[k], d)
<1> DEFINE recordAt(a) == CHOOSE k \in 1..n : at[k] <= a /\ a < at[k + 1]
           places == {4 * k : k \in 0..n} \cup
                     UNION {{at[k] + d : d \in PlacesIn(records[k])} : k \in 1..n}
           value(a) == IF a = 0 THEN n
                       ELSE IF a < at[1] THEN at[a \div 4]
                       ELSE ValueIn(records[recordAt(a)], a - at[recordAt(a)])
           size == [k \in 1..n |-> RecordSize(records[k])]
           file == FileOf(at, records)
<1>1. Len(records) = n BY DEF GoodFile
<1>2. file = [a \in places |-> value(a)] BY <1>1 DEF FileOf
<1> HIDE DEF file
<1>3. \A a \in places : Read(file, a) = value(a)
  <2> HIDE DEF places, value
  <2> QED BY <1>2 DEF Read
<1>4. \A k \in 1..n : GoodRecord(records[k]) BY DEF GoodFile
<1>5. LaidOut(at, n, size) BY DEF GoodFile
<1>6. \A k \in 1..n : size[k] \in Nat \ {0} /\ size[k] = RecordSize(records[k])
  BY <1>4, RecordFacts
<1> HIDE DEF size
<1>7. /\ \A k \in 1..(n + 1) : at[k] \in Nat
      /\ at[1] = 4 + 4 * n
      /\ \A k \in 1..n : at[k + 1] = at[k] + size[k]
  BY <1>5 DEF LaidOut
<1>8. \A j, k \in 1..(n + 1) : j <= k => at[j] <= at[k]
  BY <1>5, <1>6, OffsetsAscend
<1>9. Read(file, 0) = n
  <2>1. 0 = 4 * 0 /\ 0 \in 0..n OBVIOUS
  <2>2. 0 \in places BY <2>1
  <2> QED BY <1>3, <2>2
<1>10. ASSUME NEW k \in 1..n PROVE Read(file, 4 * k) = at[k]
  <2>1. 4 * k # 0 /\ 4 * k < at[1] /\ (4 * k) \div 4 = k BY <1>7
  <2>2. 4 * k \in places
    <3>1. k \in 0..n OBVIOUS
    <3> QED BY <3>1
  <2>3. value(4 * k) = at[k] BY <2>1
  <2> HIDE DEF places, value
  <2> QED BY <1>3, <2>2, <2>3
<1>11. ASSUME NEW k \in 1..n, NEW d \in PlacesIn(records[k])
       PROVE  Read(file, at[k] + d) = ValueIn(records[k], d)
  <2>1. d \in Nat /\ d < size[k] BY <1>4, <1>6, RecordFacts
  <2> DEFINE a == at[k] + d
  <2>2. k \in 1..(n + 1) /\ k + 1 \in 1..(n + 1) /\ 1 \in 1..(n + 1) /\ at[k] \in Nat BY <1>7
  <2>3. at[k] <= a /\ a < at[k + 1] /\ a \in Nat /\ a - at[k] = d
    BY <1>6, <1>7, <2>1, <2>2
  <2>4. at[1] <= at[k] /\ at[1] > 0 /\ at[1] \in Nat BY <1>7, <1>8, <2>2
  <2>5. a \in places OBVIOUS
  <2> HIDE DEF a
  <2>6. ASSUME NEW j \in 1..n, at[j] <= a, a < at[j + 1] PROVE j = k
    <3>1. j \in 1..(n + 1) /\ j + 1 \in 1..(n + 1) /\ at[j] \in Nat /\ at[j + 1] \in Nat
      BY <1>7
    <3>2. at[k + 1] \in Nat BY <1>7, <2>2
    <3>3. CASE j < k
      <4>1. at[j + 1] <= at[k] BY <1>8, <2>2, <3>1, <3>3
      <4> QED BY <2>2, <2>3, <2>6, <3>1, <4>1
    <3>4. CASE k < j
      <4>1. at[k + 1] <= at[j] BY <1>8, <2>2, <3>1, <3>4
      <4> QED BY <2>2, <2>3, <2>6, <3>1, <3>2, <4>1
    <3> QED BY <3>3, <3>4
  <2>7. recordAt(a) = k
    <3>1. \E j \in 1..n : at[j] <= a /\ a < at[j + 1] BY <2>3
    <3>2. recordAt(a) \in 1..n /\ at[recordAt(a)] <= a /\ a < at[recordAt(a) + 1]
      BY <3>1
    <3> HIDE DEF recordAt
    <3> QED BY <2>6, <3>2
  <2> HIDE DEF recordAt
  <2>8. a # 0 /\ ~ (a < at[1]) BY <2>2, <2>3, <2>4
  <2>9. value(a) = ValueIn(records[k], d) BY <2>3, <2>7, <2>8
  <2> HIDE DEF places, value
  <2>10. Read(file, a) = ValueIn(records[k], d) BY <1>3, <2>5, <2>9
  <2> QED BY <2>10 DEF a
<1> QED BY <1>9, <1>10, <1>11 DEF file

\* The orders of films (film::operator<) and of players are total.
LEMMA Orders ==
    /\ \A S \in SUBSET Film : IsFiniteSet(S) /\ TotalOrder(FilmOrder, S)
    /\ \A S \in SUBSET Player : IsFiniteSet(S) /\ TotalOrder(PlayerOrder, S)
<1>1. \A f \in Film : f[1] \in Nat /\ f[2] \in Nat /\ f = <<f[1], f[2]>>
  BY NamesAssumption
<1>2. \A f, g : <<f, g>> \in FilmOrder <=> f \in Film /\ g \in Film /\ FilmLess(f, g)
  BY DEF FilmOrder
<1>3. \A f, g : <<f, g>> \in PlayerOrder <=> f \in Player /\ g \in Player /\ f < g
  BY DEF PlayerOrder
<1>4. \A p \in Player : p \in Nat BY NamesAssumption
<1>5. ASSUME NEW S \in SUBSET Film PROVE TotalOrder(FilmOrder, S)
  <2>1. \A f \in S : f \in Film OBVIOUS
  <2>2. \A f \in S : ~ FilmLess(f, f) BY <1>1, <2>1 DEF FilmLess
  <2>3. ASSUME NEW f \in S, NEW g \in S PROVE f = g \/ FilmLess(f, g) \/ FilmLess(g, f)
    <3>1. f[1] = g[1] /\ f[2] = g[2] => f = g BY <1>1, <2>1, Zenon
    <3> QED BY <1>1, <2>1, <3>1 DEF FilmLess
  <2>4. \A f, g, h \in S : FilmLess(f, g) /\ FilmLess(g, h) => FilmLess(f, h)
    BY <1>1, <2>1 DEF FilmLess
  <2> QED BY <1>2, <2>1, <2>2, <2>3, <2>4 DEF TotalOrder
<1>6. ASSUME NEW S \in SUBSET Player PROVE TotalOrder(PlayerOrder, S)
  BY <1>3, <1>4 DEF TotalOrder
<1>7. /\ \A S \in SUBSET Film : IsFiniteSet(S)
      /\ \A S \in SUBSET Player : IsFiniteSet(S)
  BY NamesAssumption, FS_Subset
<1> QED BY <1>5, <1>6, <1>7

CreditSet(c, p) == {f \in Film : p \in c[f]}
FilmSet(c)      == {f \in Film : c[f] # {}}
PlayerSet(c)    == UNION {c[f] : f \in Film}

GoodCast(c) == c \in [Film -> SUBSET Player]

LEMMA SetsInOrder ==
    ASSUME NEW c, GoodCast(c)
    PROVE  /\ ListsInOrder(Films(c), FilmSet(c), FilmOrder)
           /\ ListsInOrder(Players(c), PlayerSet(c), PlayerOrder)
           /\ \A p : ListsInOrder(CreditsIn(c, p), CreditSet(c, p), FilmOrder)
           /\ \A f \in Film : ListsInOrder(CastIn(c, f), c[f], PlayerOrder)
<1>1. FilmSet(c) \in SUBSET Film /\ \A p : CreditSet(c, p) \in SUBSET Film
  BY DEF FilmSet, CreditSet
<1>2. PlayerSet(c) \in SUBSET Player /\ \A f \in Film : c[f] \in SUBSET Player
  BY DEF PlayerSet, GoodCast
<1>3. ListsInOrder(Films(c), FilmSet(c), FilmOrder)
  <2>1. Films(c) = Sorted(FilmSet(c), FilmOrder) BY DEF Films, FilmSet
  <2> QED BY <1>1, <2>1, Orders, SortedIs
<1>4. ListsInOrder(Players(c), PlayerSet(c), PlayerOrder)
  <2>1. Players(c) = Sorted(PlayerSet(c), PlayerOrder) BY DEF Players, PlayerSet
  <2> QED BY <1>2, <2>1, Orders, SortedIs
<1>5. ASSUME NEW p PROVE ListsInOrder(CreditsIn(c, p), CreditSet(c, p), FilmOrder)
  <2>1. CreditsIn(c, p) = Sorted(CreditSet(c, p), FilmOrder) BY DEF CreditsIn, CreditSet
  <2> QED BY <1>1, <2>1, Orders, SortedIs
<1>6. ASSUME NEW f \in Film PROVE ListsInOrder(CastIn(c, f), c[f], PlayerOrder)
  <2>1. CastIn(c, f) = Sorted(c[f], PlayerOrder) BY DEF CastIn
  <2> QED BY <1>2, <2>1, Orders, SortedIs
<1> QED BY <1>3, <1>4, <1>5, <1>6

LEMMA PlaceIs ==
    ASSUME NEW s, NEW S, NEW R, ListsInOrder(s, S, R), NEW e \in S
    PROVE  Place(s, e) \in 1..Len(s) /\ s[Place(s, e)] = e
BY DEF ListsInOrder, Place

LEMMA ListIsSeq ==
    ASSUME NEW s, NEW S, NEW R, ListsInOrder(s, S, R)
    PROVE  IsSeq(s) /\ ToSet(s) = S
<1>1. s \in Seq(S) BY DEF ListsInOrder
<1>2. IsSeq(s) BY <1>1, IsSeqIs
<1>3. ToSet(s) = S BY DEF ListsInOrder, ToSet
<1> QED BY <1>2, <1>3

\* A list of offsets is a sequence of as many.
LEMMA EntriesAreSeq ==
    ASSUME NEW n \in Nat, NEW e, e = [i \in 1..n |-> e[i]]
    PROVE  IsSeq(e) /\ Len(e) = n
<1> DEFINE S == {e[i] : i \in 1..n}
<1>1. \A i \in 1..n : e[i] \in S OBVIOUS
<1> HIDE DEF S
<1>2. e \in Seq(S) /\ Len(e) = n BY <1>1
<1> QED BY <1>2, IsSeqIs

-----------------------------------------------------------------------------
\* The offsets in the records, and the records.
MineAt(c, p) ==
    [i \in DOMAIN CreditsIn(c, p) |-> FilmOffsets(c)[Place(Films(c), CreditsIn(c, p)[i])]]
MembersAt(c, f) ==
    [i \in DOMAIN CastIn(c, f) |-> PlayerOffsets(c)[Place(Players(c), CastIn(c, f)[i])]]
PlayerRecord(c, p) == [used |-> UsedByPlayer(p), name |-> p, year |-> 0,
                       entries |-> MineAt(c, p)]
FilmRecord(c, f)   == [used |-> UsedByFilm(f), name |-> f[1], year |-> f[2] - 1900,
                       entries |-> MembersAt(c, f)]
PlayerRecords(c) == [k \in DOMAIN Players(c) |-> PlayerRecord(c, Players(c)[k])]
FilmRecords(c)   == [k \in DOMAIN Films(c) |-> FilmRecord(c, Films(c)[k])]

LEMMA FilesAre ==
    ASSUME NEW c
    PROVE  /\ WriteActorFile(c) = FileOf(PlayerOffsets(c), PlayerRecords(c))
           /\ WriteMovieFile(c) = FileOf(FilmOffsets(c), FilmRecords(c))
<1>1. WriteActorFile(c) = FileOf(PlayerOffsets(c), PlayerRecords(c))
  BY Zenon DEF WriteActorFile, PlayerRecords, PlayerRecord, MineAt
<1>2. WriteMovieFile(c) = FileOf(FilmOffsets(c), FilmRecords(c))
  BY Zenon DEF WriteMovieFile, FilmRecords, FilmRecord, MembersAt
<1> QED BY <1>1, <1>2

LEMMA PlayerRecordsGood ==
    ASSUME NEW c, GoodCast(c)
    PROVE  /\ \A p \in Player : /\ GoodRecord(PlayerRecord(c, p))
                                /\ RecordSize(PlayerRecord(c, p)) =
                                     Size(UsedByPlayer(p), Cardinality(CreditSet(c, p)))
           /\ GoodFile(PlayerOffsets(c), Len(Players(c)), PlayerRecords(c))
<1> DEFINE players == Players(c)
           n == Len(players)
           at == PlayerOffsets(c)
           records == PlayerRecords(c)
<1>1. /\ n \in Nat /\ DOMAIN players = 1..n /\ \A k \in 1..n : players[k] \in PlayerSet(c)
  BY SetsInOrder DEF ListsInOrder
<1>2. PlayerSet(c) \subseteq Player BY DEF PlayerSet, GoodCast
<1>3. ASSUME NEW p \in Player
      PROVE  /\ GoodRecord(PlayerRecord(c, p))
             /\ RecordSize(PlayerRecord(c, p)) = Size(UsedByPlayer(p), Cardinality(CreditSet(c, p)))
  <2>1. UsedByPlayer(p) \in Nat \ {0} BY NamesAssumption DEF UsedByPlayer
  <2> DEFINE mine == CreditsIn(c, p)
             e == MineAt(c, p)
             r == PlayerRecord(c, p)
  <2>2. /\ DOMAIN mine = 1..Len(mine) /\ Len(mine) \in Nat
        /\ Len(mine) = Cardinality(CreditSet(c, p))
    BY SetsInOrder DEF ListsInOrder
  <2>3. e = [i \in 1..Len(mine) |-> e[i]] BY <2>2 DEF MineAt
  <2>4. r.used = UsedByPlayer(p) /\ r.entries = e BY DEF PlayerRecord
  <2> HIDE DEF e, mine, r
  <2>5. IsSeq(e) /\ Len(e) = Len(mine) BY <2>2, <2>3, EntriesAreSeq
  <2>6. GoodRecord(r) BY <2>1, <2>4, <2>5 DEF GoodRecord
  <2>7. RecordSize(r) = Size(UsedByPlayer(p), Cardinality(CreditSet(c, p)))
    BY <2>2, <2>4, <2>5 DEF RecordSize
  <2> QED BY <2>6, <2>7 DEF r
<1> DEFINE sizes == [k \in DOMAIN players |->
                       Size(UsedByPlayer(players[k]), Cardinality(CreditSet(c, players[k])))]
<1>4. at = Offsets(sizes) BY Zenon DEF PlayerOffsets, CreditSet
<1>5. /\ records = [k \in 1..n |-> PlayerRecord(c, players[k])]
      /\ sizes = [k \in 1..n |->
                    Size(UsedByPlayer(players[k]), Cardinality(CreditSet(c, players[k])))]
  BY <1>1, Zenon DEF PlayerRecords
<1> HIDE DEF at, n, players, records, sizes
<1>6. /\ DOMAIN records = 1..n /\ records = [k \in 1..n |-> records[k]]
      /\ \A k \in 1..n : records[k] = PlayerRecord(c, players[k]) /\ players[k] \in Player
      /\ \A k \in 1..n : sizes[k] = Size(UsedByPlayer(players[k]),
                                         Cardinality(CreditSet(c, players[k])))
  BY <1>1, <1>2, <1>5
<1>7. \A k \in 1..n : GoodRecord(records[k]) /\ sizes[k] = RecordSize(records[k])
  BY <1>3, <1>6
<1>8. sizes \in [1..n -> Nat]
  <2>1. \A k \in 1..n : RecordSize(records[k]) \in Nat BY <1>7, RecordFacts
  <2>2. sizes = [k \in 1..n |-> sizes[k]] BY <1>5
  <2> QED BY <1>7, <2>1, <2>2
<1>9. sizes = [k \in 1..n |-> RecordSize(records[k])] BY <1>7, <1>8
<1>10. LaidOut(at, n, sizes) BY <1>1, <1>4, <1>8, OffsetsAre
<1>11. records \in [1..n -> {records[k] : k \in 1..n}] BY <1>6
<1>12. GoodFile(at, n, records) BY <1>7, <1>9, <1>10, <1>11 DEF GoodFile
<1> QED BY <1>3, <1>12 DEF at, n, players, records

LEMMA FilmRecordsGood ==
    ASSUME NEW c, GoodCast(c)
    PROVE  /\ \A f \in Film : /\ GoodRecord(FilmRecord(c, f))
                              /\ RecordSize(FilmRecord(c, f)) = Size(UsedByFilm(f), Cardinality(c[f]))
           /\ GoodFile(FilmOffsets(c), Len(Films(c)), FilmRecords(c))
<1> DEFINE films == Films(c)
           n == Len(films)
           at == FilmOffsets(c)
           records == FilmRecords(c)
<1>1. /\ n \in Nat /\ DOMAIN films = 1..n /\ \A k \in 1..n : films[k] \in FilmSet(c)
  BY SetsInOrder DEF ListsInOrder
<1>2. FilmSet(c) \subseteq Film BY DEF FilmSet
<1>3. ASSUME NEW f \in Film
      PROVE  /\ GoodRecord(FilmRecord(c, f))
             /\ RecordSize(FilmRecord(c, f)) = Size(UsedByFilm(f), Cardinality(c[f]))
  <2>1. UsedByFilm(f) \in Nat \ {0} BY NamesAssumption DEF UsedByFilm
  <2> DEFINE mine == CastIn(c, f)
             e == MembersAt(c, f)
             r == FilmRecord(c, f)
  <2>2. /\ DOMAIN mine = 1..Len(mine) /\ Len(mine) \in Nat
        /\ Len(mine) = Cardinality(c[f])
    BY SetsInOrder DEF ListsInOrder
  <2>3. e = [i \in 1..Len(mine) |-> e[i]] BY <2>2 DEF MembersAt
  <2>4. r.used = UsedByFilm(f) /\ r.entries = e BY DEF FilmRecord
  <2> HIDE DEF e, mine, r
  <2>5. IsSeq(e) /\ Len(e) = Len(mine) BY <2>2, <2>3, EntriesAreSeq
  <2>6. GoodRecord(r) BY <2>1, <2>4, <2>5 DEF GoodRecord
  <2>7. RecordSize(r) = Size(UsedByFilm(f), Cardinality(c[f]))
    BY <2>2, <2>4, <2>5 DEF RecordSize
  <2> QED BY <2>6, <2>7 DEF r
<1> DEFINE sizes == [k \in DOMAIN films |-> Size(UsedByFilm(films[k]), Cardinality(c[films[k]]))]
<1>4. at = Offsets(sizes) BY Zenon DEF FilmOffsets
<1>5. /\ records = [k \in 1..n |-> FilmRecord(c, films[k])]
      /\ sizes = [k \in 1..n |-> Size(UsedByFilm(films[k]), Cardinality(c[films[k]]))]
  BY <1>1, Zenon DEF FilmRecords
<1> HIDE DEF at, n, films, records, sizes
<1>6. /\ DOMAIN records = 1..n /\ records = [k \in 1..n |-> records[k]]
      /\ \A k \in 1..n : records[k] = FilmRecord(c, films[k]) /\ films[k] \in Film
      /\ \A k \in 1..n : sizes[k] = Size(UsedByFilm(films[k]), Cardinality(c[films[k]]))
  BY <1>1, <1>2, <1>5
<1>7. \A k \in 1..n : GoodRecord(records[k]) /\ sizes[k] = RecordSize(records[k])
  BY <1>3, <1>6
<1>8. sizes \in [1..n -> Nat]
  <2>1. \A k \in 1..n : RecordSize(records[k]) \in Nat BY <1>7, RecordFacts
  <2>2. sizes = [k \in 1..n |-> sizes[k]] BY <1>5
  <2> QED BY <1>7, <2>1, <2>2
<1>9. sizes = [k \in 1..n |-> RecordSize(records[k])] BY <1>7, <1>8
<1>10. LaidOut(at, n, sizes) BY <1>1, <1>4, <1>8, OffsetsAre
<1>11. records \in [1..n -> {records[k] : k \in 1..n}] BY <1>6
<1>12. GoodFile(at, n, records) BY <1>7, <1>9, <1>10, <1>11 DEF GoodFile
<1> QED BY <1>3, <1>12 DEF at, n, films, records

FilesGood ==
    /\ GoodCast(cast)
    /\ actorFile = WriteActorFile(cast) /\ movieFile = WriteMovieFile(cast)

LEMMA RecordsHave ==
    ASSUME NEW c, NEW e, NEW r
    PROVE  /\ r = PlayerRecord(c, e) =>
                 r.used = UsedByPlayer(e) /\ r.name = e /\ r.entries = MineAt(c, e)
           /\ r = FilmRecord(c, e) =>
                 /\ r.used = UsedByFilm(e) /\ r.name = e[1] /\ r.entries = MembersAt(c, e)
                 /\ r.year = e[2] - 1900
BY DEF PlayerRecord, FilmRecord

LEMMA YearByte ==
    ASSUME NEW y \in 1772..2027
    PROVE  1900 + ((y - 1900 + 128) % 256) - 128 = y
<1>1. y - 1900 + 128 \in 0..255 OBVIOUS
<1>2. \A x \in 0..255 : x % 256 = x OBVIOUS
<1> QED BY <1>1, <1>2

\* What is in the file of players.
LEMMA ActorFileSays ==
    ASSUME FilesGood
    PROVE  LET players == Players(cast)
               n == Len(players)
               at == PlayerOffsets(cast)
           IN  /\ Read(actorFile, 0) = n
               /\ \A k \in 1..n :
                     LET used == UsedByPlayer(players[k])
                         mine == MineAt(cast, players[k])
                     IN  /\ Read(actorFile, 4 * k) = at[k]
                         /\ at[k] \in Nat
                         /\ Read(actorFile, at[k]) = players[k]
                         /\ Read(actorFile, at[k] + Up(used, 2)) = Len(mine)
                         /\ \A i \in 1..Len(mine) :
                               Read(actorFile, at[k] + (ListAt(used) + 4 * (i - 1))) = mine[i]
<1> DEFINE players == Players(cast)
           n == Len(players)
           at == PlayerOffsets(cast)
           records == PlayerRecords(cast)
<1>1. n \in Nat /\ DOMAIN players = 1..n /\ \A k \in 1..n : players[k] \in Player
  <2>1. PlayerSet(cast) \subseteq Player BY DEF PlayerSet, GoodCast, FilesGood
  <2> QED BY <2>1, SetsInOrder DEF ListsInOrder, FilesGood
<1>2. GoodFile(at, n, records) BY PlayerRecordsGood DEF FilesGood
<1>3. actorFile = FileOf(at, records) BY FilesAre DEF FilesGood
<1>4. \A k \in 1..n : /\ records[k] = PlayerRecord(cast, players[k])
                      /\ GoodRecord(PlayerRecord(cast, players[k]))
  BY <1>1, PlayerRecordsGood DEF PlayerRecords, FilesGood
<1>5. \A k \in 1..n : at[k] \in Nat
  <2>1. at \in [1..(n + 1) -> Nat] BY <1>2 DEF GoodFile, LaidOut
  <2> HIDE DEF at, n
  <2> QED BY <1>1, <2>1
<1> HIDE DEF at, n, players, records
<1>6. /\ Read(actorFile, 0) = n
      /\ \A k \in 1..n : Read(actorFile, 4 * k) = at[k]
      /\ \A k \in 1..n : \A d \in PlacesIn(records[k]) :
            Read(actorFile, at[k] + d) = ValueIn(records[k], d)
  BY <1>1, <1>2, <1>3, FileReads
<1>7. ASSUME NEW k \in 1..n
      PROVE  LET used == UsedByPlayer(players[k])
                 mine == MineAt(cast, players[k])
             IN  /\ Read(actorFile, at[k]) = players[k]
                 /\ Read(actorFile, at[k] + Up(used, 2)) = Len(mine)
                 /\ \A i \in 1..Len(mine) :
                       Read(actorFile, at[k] + (ListAt(used) + 4 * (i - 1))) = mine[i]
  <2> DEFINE r == records[k]
             used == UsedByPlayer(players[k])
             mine == MineAt(cast, players[k])
  <2>1. r.used = used /\ r.name = players[k] /\ r.entries = mine /\ GoodRecord(r)
    BY <1>4, RecordsHave
  <2>2. \A d \in PlacesIn(r) : Read(actorFile, at[k] + d) = ValueIn(r, d) BY <1>6
  <2> HIDE DEF r, used, mine
  <2>3. DOMAIN mine = 1..Len(mine) BY <2>1, RecordFacts
  <2>4. /\ 0 \in PlacesIn(r) /\ Up(used, 2) \in PlacesIn(r)
        /\ \A i \in 1..Len(mine) : ListAt(used) + 4 * (i - 1) \in PlacesIn(r)
    BY <2>1, <2>3 DEF PlacesIn
  <2>5. /\ ValueIn(r, 0) = r.name
        /\ ValueIn(r, Up(r.used, 2)) = Len(r.entries)
        /\ \A i \in 1..Len(r.entries) : ValueIn(r, ListAt(r.used) + 4 * (i - 1)) = r.entries[i]
    BY <2>1, RecordFacts
  <2>6. at[k] + 0 = at[k] BY <1>5
  <2> QED BY <2>1, <2>2, <2>4, <2>5, <2>6 DEF used, mine
<1> QED BY <1>5, <1>6, <1>7 DEF at, n, players

\* What is in the file of films.
LEMMA MovieFileSays ==
    ASSUME FilesGood
    PROVE  LET films == Films(cast)
               n == Len(films)
               at == FilmOffsets(cast)
           IN  /\ Read(movieFile, 0) = n
               /\ \A k \in 1..n :
                     LET used == UsedByFilm(films[k])
                         members == MembersAt(cast, films[k])
                     IN  /\ Read(movieFile, 4 * k) = at[k]
                         /\ at[k] \in Nat
                         /\ Read(movieFile, at[k]) = films[k][1]
                         /\ Read(movieFile, at[k] + (used - 1)) = films[k][2] - 1900
                         /\ Read(movieFile, at[k] + Up(used, 2)) = Len(members)
                         /\ \A i \in 1..Len(members) :
                               Read(movieFile, at[k] + (ListAt(used) + 4 * (i - 1))) = members[i]
<1> DEFINE films == Films(cast)
           n == Len(films)
           at == FilmOffsets(cast)
           records == FilmRecords(cast)
<1>1. n \in Nat /\ DOMAIN films = 1..n /\ \A k \in 1..n : films[k] \in Film
  <2>1. FilmSet(cast) \subseteq Film BY DEF FilmSet
  <2> QED BY <2>1, SetsInOrder DEF ListsInOrder, FilesGood
<1>2. GoodFile(at, n, records) BY FilmRecordsGood DEF FilesGood
<1>3. movieFile = FileOf(at, records) BY FilesAre DEF FilesGood
<1>4. \A k \in 1..n : /\ records[k] = FilmRecord(cast, films[k])
                      /\ GoodRecord(FilmRecord(cast, films[k]))
  BY <1>1, FilmRecordsGood DEF FilmRecords, FilesGood
<1>5. \A k \in 1..n : at[k] \in Nat
  <2>1. at \in [1..(n + 1) -> Nat] BY <1>2 DEF GoodFile, LaidOut
  <2> HIDE DEF at, n
  <2> QED BY <1>1, <2>1
<1> HIDE DEF at, n, films, records
<1>6. /\ Read(movieFile, 0) = n
      /\ \A k \in 1..n : Read(movieFile, 4 * k) = at[k]
      /\ \A k \in 1..n : \A d \in PlacesIn(records[k]) :
            Read(movieFile, at[k] + d) = ValueIn(records[k], d)
  BY <1>1, <1>2, <1>3, FileReads
<1>7. ASSUME NEW k \in 1..n
      PROVE  LET used == UsedByFilm(films[k])
                 members == MembersAt(cast, films[k])
             IN  /\ Read(movieFile, at[k]) = films[k][1]
                 /\ Read(movieFile, at[k] + (used - 1)) = films[k][2] - 1900
                 /\ Read(movieFile, at[k] + Up(used, 2)) = Len(members)
                 /\ \A i \in 1..Len(members) :
                       Read(movieFile, at[k] + (ListAt(used) + 4 * (i - 1))) = members[i]
  <2> DEFINE r == records[k]
             used == UsedByFilm(films[k])
             members == MembersAt(cast, films[k])
  <2>1. /\ r.used = used /\ r.name = films[k][1] /\ r.entries = members
        /\ r.year = films[k][2] - 1900 /\ GoodRecord(r)
    BY <1>4, RecordsHave
  <2>2. \A d \in PlacesIn(r) : Read(movieFile, at[k] + d) = ValueIn(r, d) BY <1>6
  <2>3. used # 1
    <3>1. films[k][1] \in DOMAIN NameLength BY <1>1, NamesAssumption
    <3> QED BY <3>1, NamesAssumption DEF UsedByFilm
  <2> HIDE DEF r, used, members
  <2>4. DOMAIN members = 1..Len(members) BY <2>1, RecordFacts
  <2>5. /\ 0 \in PlacesIn(r) /\ Up(used, 2) \in PlacesIn(r) /\ used - 1 \in PlacesIn(r)
        /\ \A i \in 1..Len(members) : ListAt(used) + 4 * (i - 1) \in PlacesIn(r)
    BY <2>1, <2>4 DEF PlacesIn
  <2>6. /\ ValueIn(r, 0) = r.name
        /\ ValueIn(r, r.used - 1) = r.year
        /\ ValueIn(r, Up(r.used, 2)) = Len(r.entries)
        /\ \A i \in 1..Len(r.entries) : ValueIn(r, ListAt(r.used) + 4 * (i - 1)) = r.entries[i]
    BY <2>1, <2>3, RecordFacts
  <2>7. at[k] + 0 = at[k] BY <1>5
  <2>8. Read(movieFile, at[k]) = films[k][1] BY <2>1, <2>2, <2>5, <2>6, <2>7
  <2>9. Read(movieFile, at[k] + (used - 1)) = films[k][2] - 1900 BY <2>1, <2>2, <2>5, <2>6
  <2>10. Read(movieFile, at[k] + Up(used, 2)) = Len(members) BY <2>1, <2>2, <2>5, <2>6
  <2>11. \A i \in 1..Len(members) :
           Read(movieFile, at[k] + (ListAt(used) + 4 * (i - 1))) = members[i]
    BY <2>1, <2>2, <2>5, <2>6
  <2> QED BY <2>8, <2>9, <2>10, <2>11 DEF used, members
<1> QED BY <1>5, <1>6, <1>7 DEF at, n, films

-----------------------------------------------------------------------------
(* What the class reads *)

\* readFilm reads the title and the year of the record.
LEMMA FilmIsRead ==
    ASSUME FilesGood, NEW k \in 1..Len(Films(cast))
    PROVE  ReadFilm(FilmOffsets(cast)[k]) = Films(cast)[k]
<1> DEFINE f == Films(cast)[k]
           at == FilmOffsets(cast)[k]
<1>1. f \in Film
  <2>1. f \in FilmSet(cast) BY SetsInOrder DEF ListsInOrder, FilesGood
  <2> QED BY <2>1 DEF FilmSet
<1>2. /\ at \in Nat /\ Read(movieFile, at) = f[1]
      /\ Read(movieFile, at + (UsedByFilm(f) - 1)) = f[2] - 1900
  BY MovieFileSays
<1> HIDE DEF f, at
<1>3. /\ f[1] \in DOMAIN NameLength /\ NameLength[f[1]] \in Nat
      /\ f[2] \in 1772..2027 /\ f = <<f[1], f[2]>>
  BY <1>1, NamesAssumption
<1>4. LengthOf(f[1]) = NameLength[f[1]] BY <1>3 DEF LengthOf
<1>5. at + LengthOf(f[1]) + 1 = at + (UsedByFilm(f) - 1)
  BY <1>2, <1>3, <1>4 DEF UsedByFilm
<1>6. 1900 + ((f[2] - 1900 + 128) % 256) - 128 = f[2]
  <2> DEFINE y == f[2]
  <2>1. y \in 1772..2027 BY <1>3
  <2> HIDE DEF y
  <2>2. 1900 + ((y - 1900 + 128) % 256) - 128 = y BY <2>1, YearByte
  <2> QED BY <2>2 DEF y
<1>7. ReadFilm(at) = <<f[1], f[2]>>
  <2>1. Read(movieFile, at + LengthOf(f[1]) + 1) = f[2] - 1900 BY <1>2, <1>5
  <2> QED BY <1>2, <1>6, <2>1 DEF ReadFilm
<1> QED BY <1>3, <1>7 DEF f, at

\* The sequence of what is in the list of a record.
LEMMA EntriesAre ==
    ASSUME NEW file, NEW n \in Nat, NEW at \in Nat, NEW skip \in Nat, NEW e,
           e = [i \in 1..n |-> e[i]],
           \A i \in 1..n : Read(file, at + (skip + 4 * (i - 1))) = e[i]
    PROVE  Entries(file, at + skip, n) = e
<1>1. \A i \in 1..n : (at + skip) + 4 * (i - 1) = at + (skip + 4 * (i - 1)) OBVIOUS
<1>2. \A i \in 1..n : Read(file, (at + skip) + 4 * (i - 1)) = e[i] BY <1>1
<1> QED BY <1>2 DEF Entries

\* getMovieOffsets reads the offsets in the record.
LEMMA OffsetsAreRead ==
    ASSUME FilesGood, NEW k \in 1..Len(Players(cast))
    PROVE  GetMovieOffsets(PlayerOffsets(cast)[k]) = MineAt(cast, Players(cast)[k])
<1> DEFINE p == Players(cast)[k]
           at == PlayerOffsets(cast)[k]
           used == UsedByPlayer(p)
           mine == MineAt(cast, p)
           padded == ((LengthOf(Read(actorFile, at)) + 2) \div 2) * 2
<1>1. p \in Player
  <2>1. PlayerSet(cast) \subseteq Player BY DEF PlayerSet, GoodCast, FilesGood
  <2>2. p \in PlayerSet(cast) BY SetsInOrder DEF ListsInOrder, FilesGood
  <2> QED BY <2>1, <2>2
<1>2. /\ at \in Nat /\ Read(actorFile, at) = p
      /\ Read(actorFile, at + Up(used, 2)) = Len(mine)
      /\ \A i \in 1..Len(mine) : Read(actorFile, at + (ListAt(used) + 4 * (i - 1))) = mine[i]
  BY ActorFileSays
<1>3. Len(mine) \in Nat /\ mine = [i \in 1..Len(mine) |-> mine[i]]
  <2>1. DOMAIN CreditsIn(cast, p) = 1..Len(CreditsIn(cast, p)) /\ Len(CreditsIn(cast, p)) \in Nat
    BY SetsInOrder DEF ListsInOrder, FilesGood
  <2>2. mine = [i \in 1..Len(CreditsIn(cast, p)) |-> mine[i]] BY <2>1 DEF MineAt
  <2> HIDE DEF mine, p
  <2>3. Len(mine) = Len(CreditsIn(cast, p)) BY <2>1, <2>2, EntriesAreSeq
  <2> QED BY <2>1, <2>2, <2>3
<1>4. LengthOf(p) = NameLength[p] /\ NameLength[p] \in Nat
  BY <1>1, NamesAssumption DEF LengthOf
<1> HIDE DEF p, at, mine
<1>5. used \in Nat /\ LengthOf(Read(actorFile, at)) + 2 = used + 1
  BY <1>2, <1>4 DEF UsedByPlayer
<1>6. padded = Up(used, 2) BY <1>5, Skipped
<1>7. ((padded + 2 + 2) \div 4) * 4 = ListAt(used) /\ ListAt(used) \in Nat
  BY <1>5, <1>6, Skipped, Rounding
<1>8. Read(actorFile, at + padded) = Len(mine) BY <1>2, <1>6
<1> HIDE DEF used
<1>9. GetMovieOffsets(at) = Entries(actorFile, at + ((padded + 2 + 2) \div 4) * 4,
                                    Read(actorFile, at + padded))
  BY DEF GetMovieOffsets
<1> HIDE DEF padded
<1>10. Entries(actorFile, at + ListAt(used), Len(mine)) = mine BY <1>2, <1>3, <1>7, EntriesAre
<1> QED BY <1>7, <1>8, <1>9, <1>10 DEF p, at, mine

\* getPlayers reads the names of all who are in the record.
LEMMA PlayersAreRead ==
    ASSUME FilesGood, NEW k \in 1..Len(Films(cast))
    PROVE  GetPlayers(FilmOffsets(cast)[k], <<>>) = CastIn(cast, Films(cast)[k])
<1> DEFINE f == Films(cast)[k]
           them == CastIn(cast, f)
           at == FilmOffsets(cast)[k]
           used == UsedByFilm(f)
           members == MembersAt(cast, f)
           offset == ((used + 1) \div 2) * 2
           actors == Entries(movieFile, at + ((offset + 2 + 2) \div 4) * 4,
                             Read(movieFile, at + offset))
<1>1. f \in Film
  <2>1. f \in FilmSet(cast) BY SetsInOrder DEF ListsInOrder, FilesGood
  <2> QED BY <2>1 DEF FilmSet
<1>2. /\ at \in Nat /\ Read(movieFile, at) = f[1]
      /\ Read(movieFile, at + Up(used, 2)) = Len(members)
      /\ \A i \in 1..Len(members) : Read(movieFile, at + (ListAt(used) + 4 * (i - 1))) = members[i]
  BY MovieFileSays
<1>3. DOMAIN them = 1..Len(them) /\ Len(them) \in Nat /\ \A i \in 1..Len(them) : them[i] \in cast[f]
  BY <1>1, SetsInOrder DEF ListsInOrder, FilesGood
<1>4. members = [i \in 1..Len(them) |-> members[i]]
      /\ \A i \in 1..Len(them) : members[i] = PlayerOffsets(cast)[Place(Players(cast), them[i])]
  BY <1>3 DEF MembersAt
<1>5. them \in Seq(Player)
  <2>1. them \in Seq(cast[f]) BY <1>1, SetsInOrder DEF ListsInOrder, FilesGood
  <2>2. cast[f] \subseteq Player BY <1>1 DEF GoodCast, FilesGood
  <2> HIDE DEF them, f
  <2> QED BY <2>1, <2>2
<1>6. \A i \in 1..Len(them) : Read(actorFile, members[i]) = them[i]
  <2> TAKE i \in 1..Len(them)
  <2> DEFINE j == Place(Players(cast), them[i])
  <2>1. them[i] \in PlayerSet(cast) BY <1>1, <1>3 DEF PlayerSet
  <2>2. j \in 1..Len(Players(cast)) /\ Players(cast)[j] = them[i]
    BY <2>1, SetsInOrder, PlaceIs DEF FilesGood
  <2>3. members[i] = PlayerOffsets(cast)[j] BY <1>4
  <2> HIDE DEF j, members, them
  <2>4. Read(actorFile, PlayerOffsets(cast)[j]) = Players(cast)[j] BY <2>2, ActorFileSays
  <2> QED BY <2>2, <2>3, <2>4
<1>7. used = LengthOf(Read(movieFile, at)) + 2 /\ used \in Nat
  BY <1>1, <1>2, NamesAssumption DEF LengthOf, UsedByFilm
<1>8. GetPlayers(at, <<>>) = <<>> \o [i \in DOMAIN actors |-> Read(actorFile, actors[i])]
  BY <1>7, Zenon DEF GetPlayers
<1> HIDE DEF f, them, at, used, members
<1>9. Len(members) = Len(them) BY <1>3, <1>4, EntriesAreSeq
<1>10. actors = members
  <2>1. offset = Up(used, 2) BY <1>7, Skipped
  <2>2. ((offset + 2 + 2) \div 4) * 4 = ListAt(used) /\ ListAt(used) \in Nat
    BY <1>7, <2>1, Skipped, Rounding
  <2>3. Read(movieFile, at + offset) = Len(members) BY <1>2, <2>1
  <2> HIDE DEF offset
  <2>4. Entries(movieFile, at + ListAt(used), Len(members)) = members
    BY <1>2, <1>3, <1>4, <1>9, <2>2, EntriesAre
  <2> QED BY <2>2, <2>3, <2>4
<1> HIDE DEF actors
<1>11. [i \in DOMAIN actors |-> Read(actorFile, actors[i])] = them
  <2>1. DOMAIN actors = 1..Len(them) BY <1>4, <1>10
  <2>2. them = [i \in 1..Len(them) |-> them[i]] BY <1>3, <1>5
  <2>3. [i \in DOMAIN actors |-> Read(actorFile, actors[i])] = [i \in 1..Len(them) |-> them[i]]
    BY <1>6, <1>10, <2>1
  <2> QED BY <2>2, <2>3
<1>12. <<>> \o them = them BY <1>5
<1> QED BY <1>8, <1>11, <1>12 DEF f, them, at

\* The comparators see keys that ascend.
LEMMA PlayersAscend ==
    ASSUME FilesGood, NEW p \in Nat
    PROVE  LET n == Read(actorFile, 0)
               compare == [i \in 1..n |-> CompareActors(p, Read(actorFile, 4 * i))]
           IN  /\ n = Len(Players(cast)) /\ n \in Nat
               /\ Ascends(compare, n)
               /\ \A i \in 1..n : compare[i] = 0 <=> Players(cast)[i] = p
<1> DEFINE players == Players(cast)
           n == Read(actorFile, 0)
           compare == [i \in 1..n |-> CompareActors(p, Read(actorFile, 4 * i))]
<1>1. /\ n = Len(players) /\ n \in Nat
      /\ \A i \in 1..n : /\ CompareActors(p, Read(actorFile, 4 * i)) = p - players[i]
                         /\ players[i] \in Nat
      /\ \A i, j \in 1..n : i < j => players[i] < players[j]
  <2>1. n = Len(players) BY ActorFileSays
  <2>2. ListsInOrder(players, PlayerSet(cast), PlayerOrder) BY SetsInOrder DEF FilesGood
  <2>3. PlayerSet(cast) \subseteq Player BY DEF PlayerSet, GoodCast, FilesGood
  <2>4. Player \subseteq Nat BY NamesAssumption
  <2> HIDE DEF n
  <2>5. n \in Nat /\ \A i \in 1..n : players[i] \in Nat
    BY <2>1, <2>2, <2>3, <2>4 DEF ListsInOrder
  <2>6. \A i, j \in 1..n : i < j => players[i] < players[j]
    BY <2>1, <2>2 DEF ListsInOrder, PlayerOrder
  <2>7. ASSUME NEW i \in 1..n PROVE CompareActors(p, Read(actorFile, 4 * i)) = p - players[i]
    BY <2>1, ActorFileSays DEF CompareActors
  <2> QED BY <2>1, <2>5, <2>6, <2>7
<1> HIDE DEF n
<1>2. \A i \in 1..n : compare[i] = p - players[i] BY <1>1
<1>3. compare = [i \in 1..n |-> compare[i]] OBVIOUS
<1> HIDE DEF compare, players
<1>4. compare \in [1..n -> Int]
  <2>1. \A i \in 1..n : compare[i] \in Int BY <1>1, <1>2
  <2> QED BY <1>3, <2>1
<1>5. Ascends(compare, n) BY <1>1, <1>2, <1>4 DEF Ascends
<1>6. \A i \in 1..n : compare[i] = 0 <=> players[i] = p BY <1>1, <1>2
<1> QED BY <1>1, <1>5, <1>6 DEF n, compare, players

LEMMA FilmsAscend ==
    ASSUME FilesGood, NEW f \in Film
    PROVE  LET n == Read(movieFile, 0)
               compare == [i \in 1..n |-> CompareMovies(f, Read(movieFile, 4 * i))]
           IN  /\ n = Len(Films(cast)) /\ n \in Nat
               /\ Ascends(compare, n)
               /\ \A i \in 1..n : compare[i] = 0 <=> Films(cast)[i] = f
<1> DEFINE films == Films(cast)
           n == Read(movieFile, 0)
           compare == [i \in 1..n |-> CompareMovies(f, Read(movieFile, 4 * i))]
           order(g) == IF g = f THEN 0 ELSE IF FilmLess(f, g) THEN -1 ELSE 1
<1>1. n = Len(films) BY MovieFileSays
<1>2. ListsInOrder(films, FilmSet(cast), FilmOrder) BY SetsInOrder DEF FilesGood
<1>3. n \in Nat /\ \A i \in 1..n : films[i] \in Film BY <1>1, <1>2 DEF ListsInOrder, FilmSet
<1>4. \A i, j \in 1..n : i < j => FilmLess(films[i], films[j])
  BY <1>1, <1>2 DEF ListsInOrder, FilmOrder
<1>5. ASSUME NEW i \in 1..n PROVE CompareMovies(f, Read(movieFile, 4 * i)) = order(films[i])
  <2>1. i \in 1..Len(Films(cast)) BY <1>1
  <2>2. Read(movieFile, 4 * i) = FilmOffsets(cast)[i] BY <2>1, MovieFileSays
  <2>3. ReadFilm(Read(movieFile, 4 * i)) = films[i] BY <2>1, <2>2, FilmIsRead
  <2> QED BY <2>3 DEF CompareMovies
<1> HIDE DEF n
<1>6. \A i \in 1..n : compare[i] = order(films[i]) BY <1>5
<1>7. compare = [i \in 1..n |-> compare[i]] OBVIOUS
<1>8. \A g : order(g) \in Int OBVIOUS
<1>9. TotalOrder(FilmOrder, Film) BY Orders
<1>10. \A g, h \in Film : /\ <<g, h>> \in FilmOrder <=> FilmLess(g, h)
  BY DEF FilmOrder
<1>11. ASSUME NEW g \in Film, NEW h \in Film, FilmLess(g, h), order(g) <= 0 PROVE order(h) < 0
  <2>1. g = f \/ FilmLess(f, g) BY <1>11
  <2>2. FilmLess(f, h) BY <1>9, <1>10, <1>11, <2>1 DEF TotalOrder
  <2>3. h # f BY <1>9, <1>10, <2>2 DEF TotalOrder
  <2> QED BY <2>2, <2>3
<1>12. \A g : order(g) = 0 <=> g = f OBVIOUS
<1> HIDE DEF compare, films, order
<1>13. compare \in [1..n -> Int]
  <2>1. \A i \in 1..n : compare[i] \in Int BY <1>6, <1>8
  <2> QED BY <1>7, <2>1
<1>14. Ascends(compare, n)
  <2>1. ASSUME NEW i \in 1..n, NEW j \in 1..n, i < j, compare[i] <= 0 PROVE compare[j] < 0
    BY <1>3, <1>4, <1>6, <1>11, <2>1
  <2> QED BY <1>13, <2>1 DEF Ascends
<1>15. \A i \in 1..n : compare[i] = 0 <=> films[i] = f BY <1>6, <1>12
<1> QED BY <1>1, <1>3, <1>14, <1>15 DEF n, compare, films

\* What getCredits and getCast return.
LEMMA CreditsAre ==
    ASSUME FilesGood, NEW p \in Player
    PROVE  LET credits == GetCredits(p, <<>>)
           IN  /\ credits.found <=> CreditSet(cast, p) # {}
               /\ credits.films = CreditsIn(cast, p)
<1> DEFINE players == Players(cast)
           n == Read(actorFile, 0)
           compare == [i \in 1..n |-> CompareActors(p, Read(actorFile, 4 * i))]
           k == Bsearch(n, compare)
           mine == CreditsIn(cast, p)
<1>1. p \in Nat BY NamesAssumption
<1>2. /\ n = Len(players) /\ n \in Nat /\ Ascends(compare, n)
      /\ \A i \in 1..n : compare[i] = 0 <=> players[i] = p
  BY <1>1, PlayersAscend
<1>3. GetCredits(p, <<>>) =
        IF k = 0 THEN [found |-> FALSE, films |-> <<>>]
        ELSE [found |-> TRUE,
              films |-> PickMovieTitles(GetMovieOffsets(Read(actorFile, 4 * k)), <<>>)]
  BY Zenon DEF GetCredits
<1>4. p \in PlayerSet(cast) <=> CreditSet(cast, p) # {}
  BY DEF PlayerSet, CreditSet, GoodCast, FilesGood
<1>5. ListsInOrder(players, PlayerSet(cast), PlayerOrder) BY SetsInOrder DEF FilesGood
<1>6. ListsInOrder(mine, CreditSet(cast, p), FilmOrder) BY SetsInOrder DEF FilesGood
<1> HIDE DEF n, compare, players
<1>7. CASE p \in PlayerSet(cast)
  <2>1. PICK i \in 1..n : players[i] = p BY <1>2, <1>5, <1>7 DEF ListsInOrder
  <2>2. k = i BY <1>2, <2>1, BsearchFinds
  <2>3. i # 0 /\ i \in 1..Len(Players(cast)) BY <1>2 DEF players
  <2>4. Read(actorFile, 4 * i) = PlayerOffsets(cast)[i] BY <2>3, ActorFileSays
  <2> DEFINE offsets == GetMovieOffsets(Read(actorFile, 4 * i))
  <2>5. offsets = MineAt(cast, p) BY <2>1, <2>3, <2>4, OffsetsAreRead DEF players
  <2> HIDE DEF offsets
  <2>6. /\ DOMAIN mine = 1..Len(mine) /\ Len(mine) \in Nat
        /\ \A j \in 1..Len(mine) : mine[j] \in CreditSet(cast, p)
    BY <1>6 DEF ListsInOrder
  <2>7. DOMAIN offsets = 1..Len(mine) BY <2>5, <2>6 DEF MineAt
  <2>8. ASSUME NEW j \in 1..Len(mine) PROVE ReadFilm(offsets[j]) = mine[j]
    <3> DEFINE l == Place(Films(cast), mine[j])
    <3>1. mine[j] \in FilmSet(cast) BY <2>6 DEF CreditSet, FilmSet
    <3>2. l \in 1..Len(Films(cast)) /\ Films(cast)[l] = mine[j]
      BY <3>1, SetsInOrder, PlaceIs DEF FilesGood
    <3>3. offsets[j] = FilmOffsets(cast)[l] BY <2>5, <2>6 DEF MineAt
    <3> QED BY <3>2, <3>3, FilmIsRead
  <2>9. mine \in Seq(CreditSet(cast, p)) BY <1>6 DEF ListsInOrder
  <2> HIDE DEF mine, k
  <2>10. [j \in DOMAIN offsets |-> ReadFilm(offsets[j])] = mine
    <3>1. mine = [j \in 1..Len(mine) |-> mine[j]] BY <2>6, <2>9
    <3> QED BY <2>7, <2>8, <3>1
  <2>11. <<>> \o mine = mine BY <2>9
  <2>12. PickMovieTitles(offsets, <<>>) = mine BY <2>10, <2>11 DEF PickMovieTitles
  <2>13. GetCredits(p, <<>>) = [found |-> TRUE, films |-> mine]
    BY <1>3, <2>2, <2>3, <2>12 DEF offsets
  <2> QED BY <1>4, <1>7, <2>13 DEF mine
<1>8. CASE p \notin PlayerSet(cast)
  <2>1. \A i \in 1..n : players[i] # p BY <1>2, <1>5, <1>8 DEF ListsInOrder
  <2>2. k = 0 BY <1>2, <2>1, BsearchFinds
  <2>3. CreditSet(cast, p) = {} BY <1>4, <1>8
  <2>4. mine = <<>>
    <3>1. Len(mine) \in Nat /\ \A j \in 1..Len(mine) : mine[j] \in {} BY <1>6, <2>3 DEF ListsInOrder
    <3>2. mine \in Seq(CreditSet(cast, p)) BY <1>6 DEF ListsInOrder
    <3> HIDE DEF mine
    <3>3. Len(mine) = 0
      <4>1. 1 \in 1..Len(mine) => FALSE BY <3>1
      <4> QED BY <3>1, <4>1
    <3> QED BY <3>2, <3>3
  <2> HIDE DEF mine, k
  <2>5. GetCredits(p, <<>>) = [found |-> FALSE, films |-> <<>>] BY <1>3, <2>2
  <2> QED BY <2>3, <2>4, <2>5 DEF mine
<1> QED BY <1>7, <1>8

LEMMA CastIs ==
    ASSUME FilesGood, NEW f \in Film
    PROVE  GetCast(f, <<>>).players = CastIn(cast, f)
<1> DEFINE films == Films(cast)
           n == Read(movieFile, 0)
           compare == [i \in 1..n |-> CompareMovies(f, Read(movieFile, 4 * i))]
           k == Bsearch(n, compare)
           them == CastIn(cast, f)
<1>1. /\ n = Len(films) /\ n \in Nat /\ Ascends(compare, n)
      /\ \A i \in 1..n : compare[i] = 0 <=> films[i] = f
  BY FilmsAscend
<1>2. GetCast(f, <<>>) =
        IF k = 0 THEN [found |-> FALSE, players |-> <<>>]
        ELSE [found |-> TRUE, players |-> GetPlayers(Read(movieFile, 4 * k), <<>>)]
  BY Zenon DEF GetCast
<1>3. ListsInOrder(films, FilmSet(cast), FilmOrder) BY SetsInOrder DEF FilesGood
<1>4. ListsInOrder(them, cast[f], PlayerOrder) BY SetsInOrder DEF FilesGood
<1> HIDE DEF n, compare, films
<1>5. CASE f \in FilmSet(cast)
  <2>1. PICK i \in 1..n : films[i] = f BY <1>1, <1>3, <1>5 DEF ListsInOrder
  <2>2. k = i BY <1>1, <2>1, BsearchFinds
  <2>3. i # 0 /\ i \in 1..Len(Films(cast)) BY <1>1 DEF films
  <2>4. Read(movieFile, 4 * i) = FilmOffsets(cast)[i] BY <2>3, MovieFileSays
  <2>5. GetPlayers(Read(movieFile, 4 * i), <<>>) = them
    BY <2>1, <2>3, <2>4, PlayersAreRead DEF films
  <2> HIDE DEF them, k
  <2>6. GetCast(f, <<>>) = [found |-> TRUE, players |-> them] BY <1>2, <2>2, <2>3, <2>5
  <2> QED BY <2>6 DEF them
<1>6. CASE f \notin FilmSet(cast)
  <2>1. \A i \in 1..n : films[i] # f BY <1>1, <1>3, <1>6 DEF ListsInOrder
  <2>2. k = 0 BY <1>1, <2>1, BsearchFinds
  <2>3. cast[f] = {} BY <1>6 DEF FilmSet
  <2>4. them = <<>>
    <3>1. Len(them) \in Nat /\ \A j \in 1..Len(them) : them[j] \in {} BY <1>4, <2>3 DEF ListsInOrder
    <3>2. them \in Seq(cast[f]) BY <1>4 DEF ListsInOrder
    <3> HIDE DEF them
    <3>3. Len(them) = 0
      <4>1. 1 \in 1..Len(them) => FALSE BY <3>1
      <4> QED BY <3>1, <4>1
    <3> QED BY <3>2, <3>3
  <2> HIDE DEF them, k
  <2>5. GetCast(f, <<>>) = [found |-> FALSE, players |-> <<>>] BY <1>2, <2>2
  <2> QED BY <2>4, <2>5 DEF them
<1> QED BY <1>5, <1>6

LEMMA FilesReadRight ==
    ASSUME FilesGood
    PROVE  ReadsRight
<1>1. ASSUME NEW p \in Player
      PROVE  LET credits == GetCredits(p, <<>>)
                 mine == {f \in Film : p \in cast[f]}
             IN  /\ credits.found <=> mine # {}
                 /\ credits.films \in Seq(Film) /\ ToSet(credits.films) = mine
  <2> DEFINE credits == GetCredits(p, <<>>)
             mine == CreditSet(cast, p)
  <2>1. credits.found <=> mine # {} BY CreditsAre
  <2>2. credits.films = CreditsIn(cast, p) BY CreditsAre
  <2>3. ListsInOrder(CreditsIn(cast, p), mine, FilmOrder) BY SetsInOrder DEF FilesGood
  <2>4. CreditsIn(cast, p) \in Seq(mine) BY <2>3 DEF ListsInOrder
  <2>5. ToSet(CreditsIn(cast, p)) = mine BY <2>3, ListIsSeq
  <2>6. mine \subseteq Film BY DEF CreditSet
  <2> HIDE DEF credits, mine
  <2>7. CreditsIn(cast, p) \in Seq(Film) BY <2>4, <2>6
  <2> QED BY <2>1, <2>2, <2>5, <2>7 DEF credits, mine, CreditSet
<1>2. ASSUME NEW f \in Film
      PROVE  LET players == GetCast(f, <<>>).players
             IN  players \in Seq(Player) /\ ToSet(players) = cast[f]
  <2>1. GetCast(f, <<>>).players = CastIn(cast, f) BY CastIs
  <2>2. ListsInOrder(CastIn(cast, f), cast[f], PlayerOrder) BY SetsInOrder DEF FilesGood
  <2>3. CastIn(cast, f) \in Seq(cast[f]) BY <2>2 DEF ListsInOrder
  <2>4. ToSet(CastIn(cast, f)) = cast[f] BY <2>2, ListIsSeq
  <2>5. cast[f] \subseteq Player BY DEF GoodCast, FilesGood
  <2>6. CastIn(cast, f) \in Seq(Player) BY <2>3, <2>5
  <2> QED BY <2>1, <2>4, <2>6
<1> QED BY <1>1, <1>2 DEF ReadsRight

LEMMA Extremes ==
    ASSUME NEW a \in Int, NEW b \in Int
    PROVE  /\ Min({a, b}) = IF a <= b THEN a ELSE b
           /\ Max({a, b}) = IF a >= b THEN a ELSE b
<1>1. Min({a, b}) \in {a, b} /\ \A y \in {a, b} : Min({a, b}) <= y
  <2>1. \E x \in {a, b} : \A y \in {a, b} : x <= y
    <3>1. a <= b \/ b <= a OBVIOUS
    <3> QED BY <3>1
  <2> QED BY <2>1 DEF Min
<1>2. Max({a, b}) \in {a, b} /\ \A y \in {a, b} : Max({a, b}) >= y
  <2>1. \E x \in {a, b} : \A y \in {a, b} : x >= y
    <3>1. a >= b \/ b >= a OBVIOUS
    <3> QED BY <3>1
  <2> QED BY <2>1 DEF Max
<1> QED BY <1>1, <1>2

\* The first and the last entries are printed.
LEMMA PrintedEnds ==
    ASSUME NEW n \in Nat
    PROVE  /\ Printed(n) \subseteq 1..n
           /\ \A k \in 1..n : k <= NumToPrint \/ k > n - NumToPrint => k \in Printed(n)
<1> DEFINE first == Min({n, NumToPrint})
           last == Max({first, n - NumToPrint})
<1>1. NumToPrint \in Nat BY NamesAssumption
<1>2. first = IF n <= NumToPrint THEN n ELSE NumToPrint BY <1>1, Extremes
<1> HIDE DEF first
<1>3. first \in Nat /\ first <= n BY <1>1, <1>2
<1>4. last = IF first >= n - NumToPrint THEN first ELSE n - NumToPrint
  <2> DEFINE rest == n - NumToPrint
  <2>1. rest \in Int BY <1>1
  <2> HIDE DEF rest
  <2>2. first \in Int BY <1>3
  <2>3. Max({first, rest}) = IF first >= rest THEN first ELSE rest BY <2>1, <2>2, Extremes, Zenon
  <2> QED BY <2>3 DEF rest
<1>5. Printed(n) = (1..first) \cup ((last + 1)..n) BY DEF Printed, first
<1> HIDE DEF last
<1> QED BY <1>1, <1>2, <1>3, <1>4, <1>5

Together(c, p, other)    == {f \in Film : {p, other} \subseteq c[f]}
CostarSet(c, p)      == {other \in Player \ {p} : Together(c, p, other) # {}}
ShowsEnough(some, all) ==
    /\ some \subseteq ToSet(all)
    /\ \A n \in DOMAIN all : n <= NumToPrint \/ n > Len(all) - NumToPrint => all[n] \in some
ShownExact(c, s) ==
    LET costars == Sorted(CostarSet(c, s.player), PlayerOrder)
    IN  /\ s.costars = [other \in ToSet(costars) |-> Together(c, s.player, other)]
        /\ ShowsEnough(s.names, costars)
        /\ ShowsEnough(s.films, CreditsIn(c, s.player))

LEMMA PrintedShows ==
    ASSUME NEW s, NEW S, NEW R, ListsInOrder(s, S, R)
    PROVE  ShowsEnough({s[n] : n \in Printed(Len(s))}, s)
<1>1. DOMAIN s = 1..Len(s) /\ Len(s) \in Nat BY DEF ListsInOrder
<1>2. /\ Printed(Len(s)) \subseteq 1..Len(s)
      /\ \A k \in 1..Len(s) : k <= NumToPrint \/ k > Len(s) - NumToPrint => k \in Printed(Len(s))
  BY <1>1, PrintedEnds
<1>3. {s[n] : n \in Printed(Len(s))} \subseteq ToSet(s) BY <1>1, <1>2 DEF ToSet
<1> QED BY <1>1, <1>2, <1>3 DEF ShowsEnough

LEMMA NoneSorted ==
    ASSUME NEW R, NEW s, ListsInOrder(s, {}, R)
    PROVE  s = <<>> /\ ToSet(s) = {} /\ DOMAIN s = {}
<1>1. Len(s) \in Nat /\ \A j \in 1..Len(s) : s[j] \in {} BY DEF ListsInOrder
<1>2. Len(s) = 0
  <2>1. 1 \in 1..Len(s) => FALSE BY <1>1
  <2> QED BY <1>1, <2>1
<1>3. s \in Seq({}) BY DEF ListsInOrder
<1>4. s = <<>> BY <1>2, <1>3
<1>5. DOMAIN s = {} BY <1>4
<1>6. ToSet(s) = {} BY <1>5 DEF ToSet
<1> QED BY <1>4, <1>5, <1>6

LEMMA NobodyShown ==
    ASSUME NEW c, GoodCast(c), NEW p, CreditSet(c, p) = {}
    PROVE  ShownExact(c, Nothing(p))
<1> DEFINE s == Nothing(p)
<1>1. s.player = p /\ s.costars = <<>> /\ s.names = {} /\ s.films = {} BY DEF Nothing
<1> HIDE DEF s
<1>2. \A other : Together(c, p, other) = {} BY DEF Together, CreditSet
<1>3. CostarSet(c, p) = {} BY <1>2 DEF CostarSet
<1> DEFINE costars == Sorted(CostarSet(c, p), PlayerOrder)
<1>4. ListsInOrder(costars, {}, PlayerOrder)
  <2>1. {} \in SUBSET Player OBVIOUS
  <2> QED BY <1>3, <2>1, Orders, SortedIs
<1>5. ListsInOrder(CreditsIn(c, p), {}, FilmOrder) BY SetsInOrder
<1> HIDE DEF costars
<1>6. ToSet(costars) = {} /\ DOMAIN costars = {} BY <1>4, NoneSorted
<1>7. DOMAIN CreditsIn(c, p) = {} BY <1>5, NoneSorted
<1>8. ShowsEnough({}, costars) /\ ShowsEnough({}, CreditsIn(c, p))
  BY <1>6, <1>7, Zenon DEF ShowsEnough
<1>9. <<>> = [other \in ToSet(costars) |-> Together(c, p, other)]
  <2>1. <<>> = [other \in {} |-> Together(c, p, other)] OBVIOUS
  <2> QED BY <1>6, <2>1
<1> QED BY <1>1, <1>8, <1>9 DEF ShownExact, costars, s

\* What listAllMoviesAndCostars shows.
LEMMA CostarsShown ==
    ASSUME FilesGood, NEW p \in Player
    PROVE  ShownExact(cast, ListAllMoviesAndCostars(p))
<1> DEFINE credits == GetCredits(p, <<>>)
           mine == CreditsIn(cast, p)
           costars == ListCostars(p, mine)
           order == Sorted(DOMAIN costars, PlayerOrder)
           s == [player |-> p, films |-> ListMovies(mine),
                 names |-> {order[n] : n \in Printed(Len(order))}, costars |-> costars]
<1>1. credits.found <=> CreditSet(cast, p) # {} BY CreditsAre
<1>2. credits.films = mine BY CreditsAre
<1>3. ListsInOrder(mine, CreditSet(cast, p), FilmOrder) BY SetsInOrder DEF FilesGood
<1>4. ToSet(mine) = CreditSet(cast, p) BY <1>3, ListIsSeq
<1>5. GoodCast(cast) BY DEF FilesGood
<1>6. CASE CreditSet(cast, p) = {}
  <2>1. ListAllMoviesAndCostars(p) = Nothing(p) BY <1>1, <1>6 DEF ListAllMoviesAndCostars
  <2> QED BY <1>5, <1>6, <2>1, NobodyShown
<1>7. CASE CreditSet(cast, p) # {}
  <2>1. mine # <<>>
    <3>1. ToSet(<<>>) = {} BY DEF ToSet
    <3> QED BY <1>4, <1>7, <3>1
  <2>2. ListAllMoviesAndCostars(p) = s
    <3>1. ListAllMoviesAndCostars(p) =
            IF ~credits.found \/ credits.films = <<>> THEN Nothing(p)
            ELSE LET them == ListCostars(p, credits.films)
                     inOrder == Sorted(DOMAIN them, PlayerOrder)
                 IN  [player |-> p, films |-> ListMovies(credits.films),
                      names |-> {inOrder[n] : n \in Printed(Len(inOrder))}, costars |-> them]
      BY Zenon DEF ListAllMoviesAndCostars
    <3> HIDE DEF credits, mine
    <3>2. ListAllMoviesAndCostars(p) =
            IF FALSE THEN Nothing(p)
            ELSE LET them == ListCostars(p, mine)
                     inOrder == Sorted(DOMAIN them, PlayerOrder)
                 IN  [player |-> p, films |-> ListMovies(mine),
                      names |-> {inOrder[n] : n \in Printed(Len(inOrder))}, costars |-> them]
      BY <1>1, <1>2, <1>7, <2>1, <3>1, Zenon
    <3> QED BY <3>2, Zenon
  <2> DEFINE inFilm(f) == ToSet(GetCast(f, <<>>).players) \ {p}
  <2>3. costars = [other \in UNION {inFilm(f) : f \in ToSet(mine)} |->
                     {f \in ToSet(mine) : other \in inFilm(f)}]
    BY Zenon DEF ListCostars
  <2>4. ASSUME NEW f \in Film PROVE inFilm(f) = cast[f] \ {p}
    <3>1. GetCast(f, <<>>).players = CastIn(cast, f) BY CastIs
    <3>2. ToSet(CastIn(cast, f)) = cast[f] BY <1>5, SetsInOrder, ListIsSeq
    <3> QED BY <3>1, <3>2
  <2>5. ToSet(mine) = {f \in Film : p \in cast[f]} BY <1>4 DEF CreditSet
  <2> HIDE DEF inFilm, mine, costars
  <2>6. UNION {inFilm(f) : f \in ToSet(mine)} = CostarSet(cast, p)
    <3>1. \A other : other \in UNION {inFilm(f) : f \in ToSet(mine)} <=>
                 \E f \in Film : p \in cast[f] /\ other \in cast[f] \ {p}
      BY <2>4, <2>5
    <3>2. \A other : other \in CostarSet(cast, p) <=>
             other \in Player \ {p} /\ \E f \in Film : p \in cast[f] /\ other \in cast[f]
      BY DEF CostarSet, Together
    <3>3. \A f \in Film : cast[f] \subseteq Player BY <1>5 DEF GoodCast
    <3> QED BY <3>1, <3>2, <3>3
  <2>7. \A other \in CostarSet(cast, p) :
           {f \in ToSet(mine) : other \in inFilm(f)} = Together(cast, p, other)
    BY <2>4, <2>5 DEF CostarSet, Together
  <2>8. costars = [other \in CostarSet(cast, p) |-> Together(cast, p, other)]
    BY <2>3, <2>6, <2>7
  <2>9. DOMAIN costars = CostarSet(cast, p) BY <2>8
  <2>10. ListsInOrder(order, CostarSet(cast, p), PlayerOrder)
    <3>1. CostarSet(cast, p) \in SUBSET Player BY DEF CostarSet
    <3> QED BY <2>9, <3>1, Orders, SortedIs
  <2>11. order = Sorted(CostarSet(cast, p), PlayerOrder) BY <2>9
  <2> HIDE DEF order
  <2>12. ToSet(order) = CostarSet(cast, p) BY <2>10, ListIsSeq
  <2>13. ShowsEnough({order[n] : n \in Printed(Len(order))}, order) BY <2>10, PrintedShows
  <2>14. ShowsEnough(ListMovies(mine), mine) BY <1>3, PrintedShows DEF ListMovies
  <2>15. s.player = p /\ s.costars = costars /\ s.films = ListMovies(mine)
         /\ s.names = {order[n] : n \in Printed(Len(order))}
    OBVIOUS
  <2> HIDE DEF s
  <2>16. ShownExact(cast, s)
    BY <2>8, <2>11, <2>12, <2>13, <2>14, <2>15 DEF ShownExact, mine
  <2> QED BY <2>2, <2>16
<1> QED BY <1>6, <1>7

\* The inductive invariant.
DbInv == FilesGood /\ ShownExact(cast, shown)

-----------------------------------------------------------------------------
LEMMA DbInitInv == DbInit => DbInv
<1> SUFFICES ASSUME DbInit PROVE DbInv
  OBVIOUS
<1>1. FilesGood BY NamesAssumption DEF FilesGood, GoodCast, DbInit, Opened
<1>2. CreditSet(cast, 0) = {}
  <2>1. \A f \in Film : 0 \notin cast[f] BY <1>1, NamesAssumption DEF FilesGood, GoodCast
  <2> QED BY <2>1 DEF CreditSet
<1>3. ShownExact(cast, shown) BY <1>1, <1>2, NobodyShown DEF FilesGood, DbInit, Opened
<1> QED BY <1>1, <1>3 DEF DbInv

LEMMA DbStep == DbInv /\ [\E player \in Player : QueryForActors(player)]_dbVars => DbInv'
<1> SUFFICES ASSUME DbInv, [\E player \in Player : QueryForActors(player)]_dbVars PROVE DbInv'
  OBVIOUS
<1>1. ASSUME NEW p \in Player, QueryForActors(p) PROVE DbInv'
  <2>1. ShownExact(cast, ListAllMoviesAndCostars(p)) BY CostarsShown DEF DbInv
  <2>2. shown' = ListAllMoviesAndCostars(p) /\ UNCHANGED <<cast, actorFile, movieFile>>
    BY <1>1 DEF QueryForActors
  <2>3. ShownExact(cast', shown') BY <2>1, <2>2
  <2> QED BY <2>2, <2>3 DEF DbInv, FilesGood
<1>2. CASE UNCHANGED dbVars BY <1>2 DEF dbVars, DbInv, FilesGood
<1> QED BY <1>1, <1>2

LEMMA DbInvExact == DbInv => CostarsExact
<1> SUFFICES ASSUME DbInv PROVE CostarsExact
  OBVIOUS
<1>1. ReadsRight BY FilesReadRight DEF DbInv
<1>2. ShownExact(cast, shown) BY DEF DbInv
<1> QED BY <1>1, <1>2, Zenon DEF ShownExact, CostarsExact, Together, CostarSet, ShowsEnough

\* What getCredits and getCast read from the data files is what these were
\* written from, and imdb-test shows exactly the costars, with the films shared.
THEOREM CostarsShownExactly == DbSpec => []CostarsExact
BY DbInitInv, DbStep, DbInvExact, PTL DEF DbSpec

-----------------------------------------------------------------------------
(***************************************************************************)
(* Six degrees.  The inductive invariant:                                  *)
(***************************************************************************)
PlayerAt(s, links, k) == IF k = 0 THEN s ELSE links[k][2]

\* When c says who plays in each film: the film of each link has the players
\* at both of its ends.
Leads(c, s, links) ==
    \A k \in 1..Len(links) :
        {PlayerAt(s, links, k - 1), PlayerAt(s, links, k)} \subseteq c[links[k][1]]

\* A shortest path from s to its last player.
PathGood(c, p, s) ==
    /\ p = [start |-> s, links |-> p.links] /\ IsSeq(p.links)
    /\ Leads(c, s, p.links)
    /\ GetLastPlayer(p) \in Within(c, s, Len(p.links))
    /\ \A m \in Nat : m < Len(p.links) => GetLastPlayer(p) \notin Within(c, s, m)

Ends(paths) == {GetLastPlayer(paths[n]) : n \in 1..Len(paths)}

\* Shortest paths to different players, of L or L + 1 films, the short ones first.
PathsGood(c, paths, s, L) ==
    /\ IsSeq(paths)
    /\ \A n \in 1..Len(paths) : PathGood(c, paths[n], s) /\ GetLength(paths[n]) \in {L, L + 1}
    /\ \A m, n \in 1..Len(paths) : m < n =>
          /\ GetLength(paths[m]) <= GetLength(paths[n])
          /\ GetLastPlayer(paths[m]) # GetLastPlayer(paths[n])

\* Everybody next to a is among the actors, and a is not who is looked for.
Expanded(c, a, actors, t) ==
    a # t /\ \A f \in Film : a \in c[f] => c[f] \subseteq actors

\* The state of a search for t while the paths that go on from x are added:
\* whoever was seen is at the end of a path that waits, is x, or has had all
\* neighbours seen.
SearchGood(c, S, s, t, x, L) ==
    /\ S = [q |-> S.q, actors |-> S.actors, movies |-> S.movies]
    /\ PathsGood(c, S.q, s, L)
    /\ Ends(S.q) \subseteq S.actors
    /\ \A a \in S.actors : a \in Ends(S.q) \/ a = x \/ Expanded(c, a, S.actors, t)
    /\ Within(c, s, L) \subseteq S.actors

CastsSeen(c, movies, actors) == \A f \in movies : c[f] \subseteq actors

\* Between two turns of the loop.
QueueGood(c, paths, actors, movies, s, t) ==
    /\ PathsGood(c, paths, s, GetLength(paths[1]))
    /\ Ends(paths) \subseteq actors
    /\ \A a \in actors : a \in Ends(paths) \/ Expanded(c, a, actors, t)
    /\ CastsSeen(c, movies, actors)
    /\ s \in actors

AnswerGood(c, ans) ==
    LET s == ans.for[1]
        t == ans.for[2]
        n == Len(ans.links)
    IN  IF ~ans.found THEN t \notin Within(c, s, HOW_FAR - 1)
        ELSE /\ PlayerAt(s, ans.links, n) = t
             /\ Leads(c, s, ans.links)
             /\ t \notin Within(c, s, n - 1)

SixInv ==
    /\ cast \in Casts
    /\ asked \in Seq(Player) /\ Len(asked) <= 2
    /\ q # <<>> => /\ Len(asked) = 2 /\ asked[1] # asked[2]
                   /\ QueueGood(cast, q, seenActors, seenMovies, asked[1], asked[2])
    /\ answer # NoAnswer => AnswerGood(cast, answer)

-----------------------------------------------------------------------------
(* Sequences, and induction *)

LEMMA AppendFacts ==
    ASSUME NEW s, IsSeq(s), NEW e
    PROVE  LET t == Append(s, e) IN
           /\ IsSeq(t) /\ Len(t) = Len(s) + 1 /\ t # <<>>
           /\ \A n \in 1..Len(s) : t[n] = s[n]
           /\ t[Len(s) + 1] = e /\ Last(t) = e
<1> DEFINE T == ToSet(s) \cup {e}
<1>1. s \in Seq(ToSet(s)) /\ ToSet(s) \subseteq T BY DEF IsSeq
<1>2. s \in Seq(T) /\ e \in T
  <2> DEFINE U == ToSet(s)
  <2>1. s \in Seq(U) /\ U \subseteq T BY <1>1
  <2> HIDE DEF U, T
  <2>2. s \in Seq(T) BY <2>1
  <2> QED BY <2>2 DEF T
<1> HIDE DEF T
<1>3. Append(s, e) \in Seq(T) BY <1>2
<1>4. Append(s, e)[Len(s) + 1] = e /\ Len(Append(s, e)) = Len(s) + 1 BY <1>2
<1>5. Last(Append(s, e)) = e BY <1>4 DEF Last
<1>6. IsSeq(Append(s, e)) BY <1>3, IsSeqIs
<1> QED BY <1>2, <1>4, <1>5, <1>6

LEMMA TailFacts ==
    ASSUME NEW s, IsSeq(s), s # <<>>
    PROVE  /\ IsSeq(Tail(s)) /\ Len(Tail(s)) = Len(s) - 1 /\ Head(s) = s[1]
           /\ Len(s) \in Nat \ {0}
           /\ \A n \in 1..(Len(s) - 1) : Tail(s)[n] = s[n + 1]
<1> DEFINE S == ToSet(s)
<1>1. s \in Seq(S) BY DEF IsSeq
<1> HIDE DEF S
<1>2. Tail(s) \in Seq(S) BY <1>1
<1>3. /\ Len(Tail(s)) = Len(s) - 1 /\ Head(s) = s[1]
      /\ Len(s) \in Nat \ {0}
      /\ \A n \in 1..(Len(s) - 1) : Tail(s)[n] = s[n + 1]
  BY <1>1
<1>4. IsSeq(Tail(s)) BY <1>2, IsSeqIs
<1> QED BY <1>3, <1>4

-----------------------------------------------------------------------------
(* Players within n films *)

Reaches(g, c, p, n) ==
    g = [k \in 0..n |-> IF k = 0 THEN {p} ELSE Neighbours(c, g[k - 1]) \cup g[k - 1]]

LEMMA ReachExists ==
    ASSUME NEW c, NEW p, NEW n \in Nat
    PROVE  \E g : Reaches(g, c, p, n)
<1> DEFINE T == {k \in Nat : \E g : Reaches(g, c, p, k)}
<1>1. 0 \in T
  <2> DEFINE g == [k \in 0..0 |-> {p}]
  <2>1. g = [k \in 0..0 |-> IF k = 0 THEN {p} ELSE Neighbours(c, g[k - 1]) \cup g[k - 1]]
    OBVIOUS
  <2> HIDE DEF g
  <2>2. Reaches(g, c, p, 0) BY <2>1 DEF Reaches
  <2> QED BY <2>2
<1>2. ASSUME NEW k \in Nat, k \in T PROVE k + 1 \in T
  <2>1. PICK g : Reaches(g, c, p, k) BY <1>2
  <2>2. \A j \in 0..k : g[j] = IF j = 0 THEN {p} ELSE Neighbours(c, g[j - 1]) \cup g[j - 1]
    BY <2>1 DEF Reaches
  <2> DEFINE new == Neighbours(c, g[k]) \cup g[k]
             h == [j \in 0..(k + 1) |-> IF j = k + 1 THEN new ELSE g[j]]
  <2> HIDE DEF new
  <2>3. /\ h[k + 1] = new /\ \A j \in 0..k : h[j] = g[j]
        /\ h = [j \in 0..(k + 1) |-> h[j]]
    <3>1. k + 1 \in 0..(k + 1) /\ \A j \in 0..k : j \in 0..(k + 1) /\ j # k + 1 OBVIOUS
    <3> QED BY <3>1
  <2> HIDE DEF h
  <2>4. ASSUME NEW j \in 0..(k + 1)
        PROVE  h[j] = IF j = 0 THEN {p} ELSE Neighbours(c, h[j - 1]) \cup h[j - 1]
    <3>1. CASE j = k + 1
      <4>1. j # 0 /\ j - 1 = k /\ k \in 0..k BY <3>1
      <4>2. h[j - 1] = g[k] /\ h[j] = new BY <2>3, <3>1, <4>1
      <4> QED BY <4>1, <4>2 DEF new
    <3>2. CASE j = 0
      <4>1. 0 \in 0..k OBVIOUS
      <4> QED BY <2>2, <2>3, <3>2, <4>1
    <3>3. CASE j \in 1..k
      <4>1. j \in 0..k /\ j - 1 \in 0..k /\ j # 0 BY <3>3
      <4>2. h[j] = g[j] /\ h[j - 1] = g[j - 1] BY <2>3, <4>1
      <4>3. g[j] = Neighbours(c, g[j - 1]) \cup g[j - 1] BY <2>2, <4>1
      <4> QED BY <4>1, <4>2, <4>3
    <3> QED BY <3>1, <3>2, <3>3
  <2>5. Reaches(h, c, p, k + 1)
    BY <2>3, <2>4, Zenon DEF Reaches
  <2> QED BY <2>5
<1> HIDE DEF T
<1>3. Nat \subseteq T BY <1>1, <1>2, Induction
<1> QED BY <1>3 DEF T

LEMMA OneReach ==
    ASSUME NEW c, NEW p, NEW n \in Nat, NEW m \in Nat, NEW g, NEW h,
           Reaches(g, c, p, n), Reaches(h, c, p, m)
    PROVE  \A k \in Nat : k <= n /\ k <= m => g[k] = h[k]
<1>1. /\ \A k \in 0..n : g[k] = IF k = 0 THEN {p} ELSE Neighbours(c, g[k - 1]) \cup g[k - 1]
      /\ \A k \in 0..m : h[k] = IF k = 0 THEN {p} ELSE Neighbours(c, h[k - 1]) \cup h[k - 1]
  BY Zenon DEF Reaches
<1> DEFINE T == {k \in Nat : k <= n /\ k <= m => g[k] = h[k]}
<1>2. 0 \in T
  <2>1. 0 \in 0..n /\ 0 \in 0..m OBVIOUS
  <2>2. g[0] = {p} /\ h[0] = {p} BY <1>1, <2>1
  <2> QED BY <2>2
<1>3. ASSUME NEW k \in Nat, k \in T PROVE k + 1 \in T
  <2> SUFFICES ASSUME k + 1 <= n, k + 1 <= m PROVE g[k + 1] = h[k + 1]
    OBVIOUS
  <2>1. /\ k + 1 \in 0..n /\ k + 1 \in 0..m /\ k + 1 # 0 /\ (k + 1) - 1 = k
        /\ k <= n /\ k <= m
    OBVIOUS
  <2>2. g[k] = h[k] BY <1>3, <2>1
  <2>3. /\ g[k + 1] = Neighbours(c, g[k]) \cup g[k]
        /\ h[k + 1] = Neighbours(c, h[k]) \cup h[k]
    BY <1>1, <2>1
  <2> QED BY <2>2, <2>3
<1> HIDE DEF T
<1>4. Nat \subseteq T BY <1>2, <1>3, Induction
<1> QED BY <1>4 DEF T

LEMMA WithinIs ==
    ASSUME NEW c, NEW p, NEW n \in Nat, NEW g, Reaches(g, c, p, n)
    PROVE  Within(c, p, n) = g[n]
<1> DEFINE reach[k \in 0..n] ==
              IF k = 0 THEN {p} ELSE Neighbours(c, reach[k - 1]) \cup reach[k - 1]
<1>1. Within(c, p, n) = reach[n]
  BY DEF Within
<1>2. g = [k \in 0..n |->
             IF k = 0 THEN {p} ELSE Neighbours(c, g[k - 1]) \cup g[k - 1]]
  BY DEF Reaches
<1>3. reach = [k \in 0..n |->
             IF k = 0 THEN {p} ELSE Neighbours(c, reach[k - 1]) \cup reach[k - 1]]
  BY <1>2
<1> HIDE DEF reach
<1>4. Reaches(reach, c, p, n)
  BY <1>3 DEF Reaches
<1>5. n <= n OBVIOUS
<1> QED BY <1>1, <1>4, <1>5, OneReach

LEMMA WithinFacts ==
    ASSUME NEW c, NEW p
    PROVE  /\ Within(c, p, 0) = {p}
           /\ \A n \in Nat : Within(c, p, n + 1) = Neighbours(c, Within(c, p, n)) \cup Within(c, p, n)
<1>1. Within(c, p, 0) = {p}
  <2>1. PICK g : Reaches(g, c, p, 0) BY ReachExists
  <2>2. g[0] = {p} BY <2>1 DEF Reaches
  <2> QED BY <2>1, <2>2, WithinIs
<1>2. ASSUME NEW n \in Nat
      PROVE  Within(c, p, n + 1) = Neighbours(c, Within(c, p, n)) \cup Within(c, p, n)
  <2>1. PICK g : Reaches(g, c, p, n + 1) BY ReachExists
  <2>2. PICK h : Reaches(h, c, p, n) BY ReachExists
  <2>3. g[n] = h[n]
    <3>1. n <= n + 1 /\ n <= n /\ n + 1 \in Nat OBVIOUS
    <3> QED BY <2>1, <2>2, <3>1, OneReach
  <2>4. g[n + 1] = Neighbours(c, g[n]) \cup g[n]
    <3>1. n + 1 \in 0..(n + 1) /\ n + 1 # 0 /\ (n + 1) - 1 = n OBVIOUS
    <3>2. \A k \in 0..(n + 1) : g[k] = IF k = 0 THEN {p} ELSE Neighbours(c, g[k - 1]) \cup g[k - 1]
      BY <2>1 DEF Reaches
    <3> QED BY <3>1, <3>2
  <2>5. Within(c, p, n) = h[n] BY <2>2, WithinIs
  <2>6. Within(c, p, n + 1) = g[n + 1] BY <2>1, WithinIs
  <2> QED BY <2>3, <2>4, <2>5, <2>6
<1> QED BY <1>1, <1>2

\* Who shares a film with one within n films is within n + 1.
LEMMA WithinGrows ==
    ASSUME NEW c, NEW p, NEW n \in Nat
    PROVE  /\ Within(c, p, n) \subseteq Within(c, p, n + 1)
           /\ \A x \in Within(c, p, n), f \in Film : \A y \in c[f] :
                 x \in c[f] => y \in Within(c, p, n + 1)
           /\ \A y \in Within(c, p, n + 1) :
                 \/ y \in Within(c, p, n)
                 \/ \E x \in Within(c, p, n), f \in Film : x \in c[f] /\ y \in c[f]
<1> DEFINE W == Within(c, p, n)
<1>1. Within(c, p, n + 1) = Neighbours(c, W) \cup W BY WithinFacts
<1>2. \A y : y \in Neighbours(c, W) <=> \E x \in W, f \in Film : x \in c[f] /\ y \in c[f]
  BY Zenon DEF Neighbours
<1> HIDE DEF W
<1> QED BY <1>1, <1>2 DEF W

LEMMA WithinMonotone ==
    ASSUME NEW c, NEW p, NEW n \in Nat
    PROVE  \A m \in Nat : m <= n => Within(c, p, m) \subseteq Within(c, p, n)
<1> DEFINE T == {k \in Nat : \A m \in Nat : m <= k => Within(c, p, m) \subseteq Within(c, p, k)}
<1>1. 0 \in T
  <2>1. \A m \in Nat : m <= 0 => m = 0 OBVIOUS
  <2> QED BY <2>1
<1>2. ASSUME NEW k \in Nat, k \in T PROVE k + 1 \in T
  <2>1. Within(c, p, k) \subseteq Within(c, p, k + 1) BY WithinGrows
  <2>2. ASSUME NEW m \in Nat, m <= k + 1 PROVE Within(c, p, m) \subseteq Within(c, p, k + 1)
    <3>1. CASE m = k + 1 BY <3>1
    <3>2. CASE m <= k
      <4>1. Within(c, p, m) \subseteq Within(c, p, k) BY <1>2, <3>2
      <4> QED BY <2>1, <4>1
    <3> QED BY <2>2, <3>1, <3>2
  <2> QED BY <2>2
<1> HIDE DEF T
<1>3. Nat \subseteq T BY <1>1, <1>2, Induction
<1> QED BY <1>3 DEF T

Closed(c, A, B, t) == \A a \in A : a \in B \/ Expanded(c, a, A, t)
Far(c, s, B, N)    == \A a \in B : \A m \in Nat : m < N => a \notin Within(c, s, m)

\* Everybody within N films of s has been seen, if the neighbours of whoever
\* was seen have been, save for players who are N films away or more.
LEMMA SeenWithin ==
    ASSUME NEW c, NEW s, NEW t, NEW A, NEW B, NEW N \in Nat, s \in A,
           Closed(c, A, B, t), Far(c, s, B, N)
    PROVE  Within(c, s, N) \subseteq A
<1> DEFINE T == {k \in Nat : k <= N => Within(c, s, k) \subseteq A}
<1>1. 0 \in T BY WithinFacts
<1>2. ASSUME NEW k \in Nat, k \in T PROVE k + 1 \in T
  <2> SUFFICES ASSUME k + 1 <= N, NEW y \in Within(c, s, k + 1) PROVE y \in A
    OBVIOUS
  <2>1. Within(c, s, k) \subseteq A /\ k < N BY <1>2
  <2>2. CASE y \in Within(c, s, k) BY <2>1, <2>2
  <2>3. ASSUME NEW z \in Within(c, s, k), NEW f \in Film, z \in c[f], y \in c[f]
        PROVE  y \in A
    <3>1. z \in A /\ z \notin B BY <2>1 DEF Far
    <3>2. Expanded(c, z, A, t) BY <3>1 DEF Closed
    <3> QED BY <2>3, <3>2 DEF Expanded
  <2> QED BY <2>2, <2>3, WithinGrows
<1> HIDE DEF T
<1>3. Nat \subseteq T BY <1>1, <1>2, Induction
<1> QED BY <1>3 DEF T

-----------------------------------------------------------------------------
(* Paths and the queue of paths *)

LEMMA LastIs ==
    ASSUME NEW c, NEW s, NEW p, PathGood(c, p, s)
    PROVE  /\ GetLastPlayer(p) = PlayerAt(s, p.links, Len(p.links))
           /\ Len(p.links) \in Nat
<1>1. p.start = s /\ IsSeq(p.links) BY DEF PathGood
<1>2. Len(p.links) \in Nat /\ (p.links = <<>> <=> Len(p.links) = 0) BY <1>1, SeqFacts
<1> QED BY <1>1, <1>2 DEF GetLastPlayer, PlayerAt, Last

\* A path to a player not within the path's length of s goes on by one link.
LEMMA NewPathGood ==
    ASSUME NEW c, NEW s, NEW p, PathGood(c, p, s), NEW f \in Film, NEW y,
           GetLastPlayer(p) \in c[f], y \in c[f],
           y \notin Within(c, s, GetLength(p))
    PROVE  LET new == AddConnection(p, f, y) IN
           /\ PathGood(c, new, s) /\ GetLength(new) = GetLength(p) + 1
           /\ GetLastPlayer(new) = y
<1> DEFINE new == AddConnection(p, f, y)
           links == p.links
           more == Append(links, <<f, y>>)
           n == Len(p.links)
<1>1. p = [start |-> s, links |-> links] /\ IsSeq(links) /\ Leads(c, s, links)
      /\ GetLastPlayer(p) \in Within(c, s, n)
  BY DEF PathGood
<1>2. GetLastPlayer(p) = PlayerAt(s, links, n) /\ n \in Nat BY LastIs
<1>3. new = [start |-> s, links |-> more]
  <2>1. new = [p EXCEPT !.links = Append(p.links, <<f, y>>)] BY DEF AddConnection
  <2>2. ASSUME NEW l, NEW m, p = [start |-> s, links |-> l]
        PROVE  [p EXCEPT !.links = m] = [start |-> s, links |-> m]
    BY <2>2
  <2> HIDE DEF new
  <2> QED BY <1>1, <2>1, <2>2
<1>4. /\ IsSeq(more) /\ Len(more) = n + 1 /\ more # <<>>
      /\ \A k \in 1..n : more[k] = links[k]
      /\ more[n + 1] = <<f, y>> /\ Last(more) = <<f, y>>
  BY <1>1, AppendFacts
<1> HIDE DEF more, links, new
<1>5. new.links = more BY <1>3
<1>6. GetLastPlayer(new) = y
  <2>1. <<f, y>>[2] = y OBVIOUS
  <2> QED BY <1>4, <1>5, <2>1 DEF GetLastPlayer
<1>7. GetLength(p) = n /\ GetLength(new) = n + 1 BY <1>4, <1>5 DEF GetLength
<1>8. \A k \in 0..n : PlayerAt(s, more, k) = PlayerAt(s, links, k) BY <1>4 DEF PlayerAt
<1>9. PlayerAt(s, more, n + 1) = y BY <1>2, <1>4 DEF PlayerAt
<1> HIDE DEF n
<1>10. Leads(c, s, more)
  <2> SUFFICES ASSUME NEW k \in 1..(n + 1)
               PROVE  {PlayerAt(s, more, k - 1), PlayerAt(s, more, k)} \subseteq c[more[k][1]]
    BY <1>4 DEF Leads
  <2>1. CASE k = n + 1
    <3>1. k - 1 = n /\ n \in 0..n BY <1>2, <2>1
    <3>2. PlayerAt(s, more, k - 1) = GetLastPlayer(p) BY <1>2, <1>8, <3>1
    <3>3. more[k][1] = f BY <1>4, <2>1
    <3> QED BY <1>9, <2>1, <3>2, <3>3
  <2>2. CASE k \in 1..n
    <3>1. k - 1 \in 0..n /\ k \in 0..n BY <1>2, <2>2
    <3>2. {PlayerAt(s, links, k - 1), PlayerAt(s, links, k)} \subseteq c[links[k][1]]
      BY <1>1, <2>2 DEF Leads, n, links
    <3> QED BY <1>4, <1>8, <2>2, <3>1, <3>2
  <2> QED BY <1>2, <2>1, <2>2
<1>11. y \in Within(c, s, n + 1) BY <1>1, <1>2, WithinGrows
<1>12. ASSUME NEW m \in Nat, m < n + 1 PROVE y \notin Within(c, s, m)
  <2>1. m <= n BY <1>2, <1>12
  <2>2. Within(c, s, m) \subseteq Within(c, s, n) BY <1>2, <2>1, WithinMonotone
  <2> QED BY <1>7, <2>2
<1>13. PathGood(c, new, s) BY <1>3, <1>4, <1>5, <1>6, <1>10, <1>11, <1>12 DEF PathGood
<1> QED BY <1>6, <1>7, <1>13 DEF new

LEMMA PushedGood ==
    ASSUME NEW c, NEW s, NEW L \in Nat, NEW Q, PathsGood(c, Q, s, L), NEW p,
           PathGood(c, p, s), GetLength(p) = L + 1, GetLastPlayer(p) \notin Ends(Q)
    PROVE  /\ PathsGood(c, Append(Q, p), s, L)
           /\ Ends(Append(Q, p)) = Ends(Q) \cup {GetLastPlayer(p)}
<1> DEFINE R == Append(Q, p)
           n == Len(Q)
<1>1. /\ IsSeq(Q)
      /\ \A k \in 1..n : PathGood(c, Q[k], s) /\ GetLength(Q[k]) \in {L, L + 1}
      /\ \A i, k \in 1..n : i < k =>
            /\ GetLength(Q[i]) <= GetLength(Q[k])
            /\ GetLastPlayer(Q[i]) # GetLastPlayer(Q[k])
  BY DEF PathsGood
<1>2. n \in Nat BY <1>1, SeqFacts
<1>3. /\ IsSeq(R) /\ Len(R) = n + 1 /\ \A k \in 1..n : R[k] = Q[k]
      /\ R[n + 1] = p
  BY <1>1, AppendFacts
<1>4. \A k \in 1..n : GetLastPlayer(Q[k]) # GetLastPlayer(p) BY DEF Ends
<1>5. Ends(Q) = {GetLastPlayer(Q[k]) : k \in 1..n} BY DEF Ends
<1>6. Ends(R) = {GetLastPlayer(R[k]) : k \in 1..(n + 1)} BY <1>3 DEF Ends
<1> HIDE DEF R, n
<1>7. Ends(R) = Ends(Q) \cup {GetLastPlayer(p)}
  <2>1. 1..(n + 1) = 1..n \cup {n + 1} BY <1>2
  <2> QED BY <1>3, <1>5, <1>6, <2>1
<1>8. \A k \in 1..(n + 1) : k \in 1..n \/ k = n + 1 BY <1>2
<1>9. \A k \in 1..(n + 1) : PathGood(c, R[k], s) /\ GetLength(R[k]) \in {L, L + 1}
  BY <1>1, <1>3, <1>8
<1>10. ASSUME NEW i \in 1..(n + 1), NEW k \in 1..(n + 1), i < k
       PROVE  /\ GetLength(R[i]) <= GetLength(R[k])
              /\ GetLastPlayer(R[i]) # GetLastPlayer(R[k])
  <2>1. i \in 1..n BY <1>2, <1>10
  <2>2. CASE k \in 1..n BY <1>1, <1>3, <1>10, <2>1, <2>2
  <2>3. CASE k = n + 1
    <3>1. GetLength(R[i]) \in {L, L + 1} /\ GetLength(R[k]) = L + 1 BY <1>3, <1>9, <2>3
    <3>2. GetLength(R[i]) <= GetLength(R[k]) BY <3>1
    <3> QED BY <1>3, <1>4, <2>1, <2>3, <3>2
  <2> QED BY <1>8, <2>2, <2>3
<1>11. PathsGood(c, R, s, L) BY <1>3, <1>9, <1>10 DEF PathsGood
<1> QED BY <1>7, <1>11 DEF R

LEMMA PoppedGood ==
    ASSUME NEW c, NEW s, NEW L, NEW Q, PathsGood(c, Q, s, L), Q # <<>>
    PROVE  /\ PathsGood(c, Tail(Q), s, L)
           /\ Ends(Q) = Ends(Tail(Q)) \cup {GetLastPlayer(Head(Q))}
<1> DEFINE R == Tail(Q)
           n == Len(Q)
<1>1. /\ IsSeq(Q)
      /\ \A k \in 1..n : PathGood(c, Q[k], s) /\ GetLength(Q[k]) \in {L, L + 1}
      /\ \A i, k \in 1..n : i < k =>
            /\ GetLength(Q[i]) <= GetLength(Q[k])
            /\ GetLastPlayer(Q[i]) # GetLastPlayer(Q[k])
  BY DEF PathsGood
<1>2. /\ IsSeq(R) /\ Len(R) = n - 1 /\ Head(Q) = Q[1] /\ n \in Nat \ {0}
      /\ \A k \in 1..(n - 1) : R[k] = Q[k + 1]
  BY <1>1, TailFacts
<1>3. Ends(Q) = {GetLastPlayer(Q[k]) : k \in 1..n} BY DEF Ends
<1>4. Ends(R) = {GetLastPlayer(R[k]) : k \in 1..(n - 1)} BY <1>2 DEF Ends
<1> HIDE DEF R, n
<1>5. \A k \in 1..(n - 1) : k + 1 \in 1..n BY <1>2
<1>6. \A k \in 1..n : k = 1 \/ (k - 1 \in 1..(n - 1) /\ (k - 1) + 1 = k) BY <1>2
<1>7. Ends(Q) = Ends(R) \cup {GetLastPlayer(Q[1])}
  <2>1. ASSUME NEW e \in Ends(Q) PROVE e \in Ends(R) \/ e = GetLastPlayer(Q[1])
    <3>1. PICK k \in 1..n : e = GetLastPlayer(Q[k]) BY <1>3
    <3> QED BY <1>2, <1>4, <1>6, <3>1
  <2>2. Ends(R) \subseteq Ends(Q) BY <1>2, <1>3, <1>4, <1>5
  <2>3. 1 \in 1..n BY <1>2
  <2>4. GetLastPlayer(Q[1]) \in Ends(Q) BY <1>3, <2>3
  <2> QED BY <2>1, <2>2, <2>4
<1>8. \A k \in 1..(n - 1) : PathGood(c, R[k], s) /\ GetLength(R[k]) \in {L, L + 1}
  BY <1>1, <1>2, <1>5
<1>9. ASSUME NEW i \in 1..(n - 1), NEW k \in 1..(n - 1), i < k
      PROVE  /\ GetLength(R[i]) <= GetLength(R[k])
             /\ GetLastPlayer(R[i]) # GetLastPlayer(R[k])
  <2>1. i + 1 \in 1..n /\ k + 1 \in 1..n /\ i + 1 < k + 1 BY <1>5, <1>9
  <2> QED BY <1>1, <1>2, <2>1
<1>10. PathsGood(c, R, s, L) BY <1>2, <1>8, <1>9 DEF PathsGood
<1> QED BY <1>2, <1>7, <1>10 DEF R

-----------------------------------------------------------------------------
(* Adding the players of the films of the last player x of a path *)

GoesOn(c, p, s, x, L) ==
    L \in Nat /\ PathGood(c, p, s) /\ GetLength(p) = L /\ GetLastPlayer(p) = x

LEMMA AddPlayerGood ==
    ASSUME NEW c, NEW s, NEW t, NEW x, NEW L, NEW S, SearchGood(c, S, s, t, x, L),
           NEW p, GoesOn(c, p, s, x, L), NEW f \in Film, x \in c[f], NEW y \in c[f]
    PROVE  LET N == AddPlayer(S, p, f, y) IN
           /\ SearchGood(c, N, s, t, x, L)
           /\ N.actors = S.actors \cup {y} /\ N.movies = S.movies
<1> DEFINE N == AddPlayer(S, p, f, y)
           new == AddConnection(p, f, y)
<1>1. CASE y \in S.actors
  <2>1. N = S BY <1>1 DEF AddPlayer
  <2> QED BY <1>1, <2>1
<1>2. CASE y \notin S.actors
  <2> DEFINE Q == S.q
             A == S.actors
             M == S.movies
  <2>1. S = [q |-> Q, actors |-> A, movies |-> M] BY DEF SearchGood
  <2>2. N = [q |-> Append(Q, new), actors |-> A \cup {y}, movies |-> M]
    <3>1. N = Push([S EXCEPT !.actors = @ \cup {y}], new) BY <1>2 DEF AddPlayer
    <3> HIDE DEF Q, A, M, new, N
    <3>2. [S EXCEPT !.actors = @ \cup {y}] = [q |-> Q, actors |-> A \cup {y}, movies |-> M]
      BY <2>1
    <3>3. N = [[q |-> Q, actors |-> A \cup {y}, movies |-> M] EXCEPT !.q = Append(Q, new)]
      BY <3>1, <3>2 DEF Push
    <3> QED BY <3>3
  <2>3. /\ PathsGood(c, Q, s, L) /\ Ends(Q) \subseteq A
        /\ \A a \in A : a \in Ends(Q) \/ a = x \/ Expanded(c, a, A, t)
        /\ Within(c, s, L) \subseteq A
    BY DEF SearchGood
  <2>4. PathGood(c, new, s) /\ GetLength(new) = L + 1 /\ GetLastPlayer(new) = y
    <3>1. /\ PathGood(c, p, s) /\ GetLength(p) = L /\ GetLastPlayer(p) = x
          /\ y \notin Within(c, s, L)
      BY <1>2, <2>3 DEF GoesOn
    <3> HIDE DEF new, A, Q, N
    <3> QED BY <3>1, NewPathGood DEF new
  <2>5. L \in Nat BY DEF GoesOn
  <2> HIDE DEF Q, new, N
  <2>6. y \notin Ends(Q) BY <1>2, <2>3
  <2>7. /\ PathsGood(c, Append(Q, new), s, L)
        /\ Ends(Append(Q, new)) = Ends(Q) \cup {y}
    BY <2>3, <2>4, <2>5, <2>6, PushedGood
  <2> HIDE DEF A, M
  <2>8. \A a \in A \cup {y} : a \in Ends(Append(Q, new)) \/ a = x \/ Expanded(c, a, A \cup {y}, t)
    BY <2>3, <2>7 DEF Expanded
  <2>9. Ends(Append(Q, new)) \subseteq A \cup {y} BY <2>3, <2>7
  <2>10. N.q = Append(Q, new) /\ N.actors = A \cup {y} /\ N.movies = M BY <2>2
  <2>11. SearchGood(c, N, s, t, x, L)
    BY <2>2, <2>3, <2>7, <2>8, <2>9, <2>10 DEF SearchGood
  <2> QED BY <2>10, <2>11 DEF N, A, M
<1> QED BY <1>1, <1>2

\* after[n] is the search when n of the players of a film have been added.
CastAdded(after, S, p, f, players, N) ==
    after = [n \in 0..N |->
               IF n = 0 THEN [S EXCEPT !.movies = @ \cup {f}]
               ELSE AddPlayer(after[n - 1], p, f, players[n])]

LEMMA CastAddedExists ==
    ASSUME NEW S, NEW p, NEW f, NEW players, NEW N \in Nat
    PROVE  \E after : CastAdded(after, S, p, f, players, N)
<1> DEFINE T == {k \in Nat : \E g : CastAdded(g, S, p, f, players, k)}
           first == [S EXCEPT !.movies = @ \cup {f}]
<1>1. 0 \in T
  <2> HIDE DEF first
  <2> DEFINE g == [k \in 0..0 |-> first]
  <2>1. g = [k \in 0..0 |-> IF k = 0 THEN first ELSE AddPlayer(g[k - 1], p, f, players[k])]
    OBVIOUS
  <2> HIDE DEF g
  <2>2. CastAdded(g, S, p, f, players, 0) BY <2>1, Zenon DEF CastAdded, first
  <2> QED BY <2>2
<1>2. ASSUME NEW k \in Nat, k \in T PROVE k + 1 \in T
  <2>1. PICK g : CastAdded(g, S, p, f, players, k) BY <1>2
  <2>2. \A j \in 0..k : g[j] = IF j = 0 THEN first ELSE AddPlayer(g[j - 1], p, f, players[j])
    BY <2>1, Zenon DEF CastAdded
  <2> HIDE DEF first
  <2> DEFINE new == AddPlayer(g[k], p, f, players[k + 1])
             h == [j \in 0..(k + 1) |-> IF j = k + 1 THEN new ELSE g[j]]
  <2> HIDE DEF new
  <2>3. /\ h[k + 1] = new /\ \A j \in 0..k : h[j] = g[j]
        /\ h = [j \in 0..(k + 1) |-> h[j]]
    <3>1. k + 1 \in 0..(k + 1) /\ \A j \in 0..k : j \in 0..(k + 1) /\ j # k + 1 OBVIOUS
    <3> QED BY <3>1
  <2> HIDE DEF h
  <2>4. ASSUME NEW j \in 0..(k + 1)
        PROVE  h[j] = IF j = 0 THEN first ELSE AddPlayer(h[j - 1], p, f, players[j])
    <3>1. CASE j = k + 1
      <4>1. j # 0 /\ j - 1 = k /\ k \in 0..k BY <3>1
      <4>2. h[j - 1] = g[k] /\ h[j] = new BY <2>3, <3>1, <4>1
      <4>3. new = AddPlayer(h[j - 1], p, f, players[j]) BY <3>1, <4>2 DEF new
      <4> QED BY <4>1, <4>2, <4>3
    <3>2. CASE j = 0
      <4>1. 0 \in 0..k OBVIOUS
      <4> QED BY <2>2, <2>3, <3>2, <4>1
    <3>3. CASE j \in 1..k
      <4>1. j \in 0..k /\ j - 1 \in 0..k /\ j # 0 BY <3>3
      <4>2. h[j] = g[j] /\ h[j - 1] = g[j - 1] BY <2>3, <4>1
      <4>3. g[j] = AddPlayer(g[j - 1], p, f, players[j]) BY <2>2, <4>1
      <4> QED BY <4>1, <4>2, <4>3
    <3> QED BY <3>1, <3>2, <3>3
  <2>5. CastAdded(h, S, p, f, players, k + 1)
    BY <2>3, <2>4, Zenon DEF CastAdded, first
  <2> QED BY <2>5
<1> HIDE DEF T
<1>3. Nat \subseteq T BY <1>1, <1>2, Induction
<1> QED BY <1>3 DEF T

LEMMA AddCastGood ==
    ASSUME NEW c, NEW s, NEW t, NEW x, NEW L, NEW S, SearchGood(c, S, s, t, x, L),
           NEW p, GoesOn(c, p, s, x, L), NEW f \in Film, x \in c[f],
           CastsSeen(c, S.movies, S.actors),
           IsSeq(GetCast(f, <<>>).players), ToSet(GetCast(f, <<>>).players) = c[f]
    PROVE  LET N == AddCast(S, p, f) IN
           /\ SearchGood(c, N, s, t, x, L)
           /\ CastsSeen(c, N.movies, N.actors)
           /\ S.actors \subseteq N.actors /\ N.movies = S.movies \cup {f}
<1> DEFINE N == AddCast(S, p, f)
           players == GetCast(f, <<>>).players
           n == Len(players)
           after[k \in 0..n] == IF k = 0 THEN [S EXCEPT !.movies = @ \cup {f}]
                                ELSE AddPlayer(after[k - 1], p, f, players[k])
<1>1. CASE f \in S.movies
  <2>1. N = S BY <1>1 DEF AddCast
  <2> QED BY <1>1, <2>1
<1>2. CASE f \notin S.movies
  <2>1. N = after[n] BY <1>2 DEF AddCast
  <2>2. /\ n \in Nat
        /\ \A k \in 1..n : players[k] \in c[f]
        /\ \A y \in c[f] : \E k \in 1..n : y = players[k]
    <3> HIDE DEF players
    <3>1. n \in Nat /\ DOMAIN players = 1..n BY SeqFacts DEF players
    <3>2. ToSet(players) = c[f] BY DEF players
    <3> QED BY <3>1, <3>2 DEF ToSet
  <2> HIDE DEF players, n, N
  <2>3. PICK g : CastAdded(g, S, p, f, players, n)
    BY <2>2, CastAddedExists
  <2>4. g = [k \in 0..n |-> IF k = 0 THEN [S EXCEPT !.movies = @ \cup {f}]
                            ELSE AddPlayer(g[k - 1], p, f, players[k])]
    BY <2>3, Zenon DEF CastAdded
  <2>5. after = [k \in 0..n |-> IF k = 0 THEN [S EXCEPT !.movies = @ \cup {f}]
                            ELSE AddPlayer(after[k - 1], p, f, players[k])]
    BY <2>4
  <2> HIDE DEF after
  <2>6. \A k \in 0..n : after[k] = IF k = 0 THEN [S EXCEPT !.movies = @ \cup {f}]
                                   ELSE AddPlayer(after[k - 1], p, f, players[k])
    BY <2>5, Zenon
  <2> DEFINE first == [q |-> S.q, actors |-> S.actors, movies |-> S.movies \cup {f}]
  <2>7. after[0] = first
    <3>1. 0 \in 0..n BY <2>2
    <3>2. after[0] = [S EXCEPT !.movies = @ \cup {f}] BY <2>6, <3>1, Zenon
    <3> DEFINE Q == S.q
               A == S.actors
               M == S.movies
    <3>3. S = [q |-> Q, actors |-> A, movies |-> M] BY DEF SearchGood
    <3> HIDE DEF Q, A, M
    <3>4. ASSUME NEW m PROVE [S EXCEPT !.movies = m] = [q |-> Q, actors |-> A, movies |-> m]
      BY <3>3
    <3>5. after[0] = [S EXCEPT !.movies = S.movies \cup {f}] BY <3>2
    <3> QED BY <3>4, <3>5 DEF Q, A, M
  <2>8. SearchGood(c, first, s, t, x, L)
    <3>1. first.q = S.q /\ first.actors = S.actors /\ first.movies = S.movies \cup {f}
      OBVIOUS
    <3>2. first = [q |-> first.q, actors |-> first.actors, movies |-> first.movies]
      BY <3>1
    <3> HIDE DEF first
    <3> QED BY <3>1, <3>2 DEF SearchGood
  <2> DEFINE T == {k \in Nat : k <= n =>
                     /\ SearchGood(c, after[k], s, t, x, L)
                     /\ S.actors \subseteq after[k].actors
                     /\ \A j \in 1..k : players[j] \in after[k].actors
                     /\ after[k].movies = S.movies \cup {f}}
  <2>9. 0 \in T
    <3>1. first.actors = S.actors /\ first.movies = S.movies \cup {f} OBVIOUS
    <3> HIDE DEF first
    <3> QED BY <2>7, <2>8, <3>1
  <2>10. ASSUME NEW k \in Nat, k \in T PROVE k + 1 \in T
    <3> SUFFICES ASSUME k + 1 <= n
                 PROVE  /\ SearchGood(c, after[k + 1], s, t, x, L)
                        /\ S.actors \subseteq after[k + 1].actors
                        /\ \A j \in 1..(k + 1) : players[j] \in after[k + 1].actors
                        /\ after[k + 1].movies = S.movies \cup {f}
      OBVIOUS
    <3> DEFINE B == after[k]
    <3>1. /\ SearchGood(c, B, s, t, x, L)
          /\ S.actors \subseteq B.actors
          /\ \A j \in 1..k : players[j] \in B.actors
          /\ B.movies = S.movies \cup {f}
      BY <2>2, <2>10
    <3>2. k + 1 \in 0..n /\ k + 1 # 0 /\ (k + 1) - 1 = k /\ k + 1 \in 1..n BY <2>2
    <3>3. after[k + 1] = AddPlayer(B, p, f, players[k + 1]) BY <2>6, <3>2
    <3>4. players[k + 1] \in c[f] BY <2>2, <3>2
    <3> DEFINE C == after[k + 1]
    <3> HIDE DEF B, C, T
    <3>5. /\ SearchGood(c, C, s, t, x, L)
          /\ C.actors = B.actors \cup {players[k + 1]} /\ C.movies = B.movies
      <4>1. C = AddPlayer(B, p, f, players[k + 1]) BY <3>3 DEF C
      <4> QED BY <3>1, <3>4, <4>1, AddPlayerGood
    <3>6. \A j \in 1..(k + 1) : j \in 1..k \/ j = k + 1 OBVIOUS
    <3> QED BY <3>1, <3>5, <3>6 DEF C
  <2> HIDE DEF T
  <2>11. Nat \subseteq T BY <2>9, <2>10, Induction
  <2>12. /\ SearchGood(c, N, s, t, x, L)
         /\ S.actors \subseteq N.actors
         /\ \A j \in 1..n : players[j] \in N.actors
         /\ N.movies = S.movies \cup {f}
    <3>1. n \in T /\ n <= n BY <2>2, <2>11
    <3> QED BY <2>1, <3>1 DEF T
  <2>13. ASSUME NEW y \in c[f] PROVE y \in N.actors
    <3>1. PICK k \in 1..n : y = players[k] BY <2>2
    <3> QED BY <2>12, <3>1
  <2>14. ASSUME NEW h \in S.movies \cup {f} PROVE c[h] \subseteq N.actors
    <3>1. CASE h = f
      <4>1. c[f] \subseteq N.actors BY <2>13
      <4> QED BY <3>1, <4>1
    <3>2. CASE h \in S.movies
      <4>1. c[h] \subseteq S.actors BY <3>2 DEF CastsSeen
      <4> QED BY <2>12, <4>1
    <3> QED BY <3>1, <3>2
  <2>15. CastsSeen(c, N.movies, N.actors) BY <2>12, <2>14 DEF CastsSeen
  <2> QED BY <2>12, <2>15 DEF N
<1> QED BY <1>1, <1>2

\* after[n] is the search when n of the films of a player have been gone through.
CastsAdded(after, S, p, films, N) ==
    after = [n \in 0..N |-> IF n = 0 THEN S ELSE AddCast(after[n - 1], p, films[n])]

LEMMA CastsAddedExists ==
    ASSUME NEW S, NEW p, NEW films, NEW N \in Nat
    PROVE  \E after : CastsAdded(after, S, p, films, N)
<1> DEFINE T == {k \in Nat : \E g : CastsAdded(g, S, p, films, k)}
<1>1. 0 \in T
  <2> DEFINE g == [k \in 0..0 |-> S]
  <2>1. g = [k \in 0..0 |-> IF k = 0 THEN S ELSE AddCast(g[k - 1], p, films[k])]
    OBVIOUS
  <2> HIDE DEF g
  <2>2. CastsAdded(g, S, p, films, 0) BY <2>1, Zenon DEF CastsAdded
  <2> QED BY <2>2
<1>2. ASSUME NEW k \in Nat, k \in T PROVE k + 1 \in T
  <2>1. PICK g : CastsAdded(g, S, p, films, k) BY <1>2
  <2>2. \A j \in 0..k : g[j] = IF j = 0 THEN S ELSE AddCast(g[j - 1], p, films[j])
    BY <2>1, Zenon DEF CastsAdded
  <2> DEFINE new == AddCast(g[k], p, films[k + 1])
             h == [j \in 0..(k + 1) |-> IF j = k + 1 THEN new ELSE g[j]]
  <2> HIDE DEF new
  <2>3. /\ h[k + 1] = new /\ \A j \in 0..k : h[j] = g[j]
        /\ h = [j \in 0..(k + 1) |-> h[j]]
    <3>1. k + 1 \in 0..(k + 1) /\ \A j \in 0..k : j \in 0..(k + 1) /\ j # k + 1 OBVIOUS
    <3> QED BY <3>1
  <2> HIDE DEF h
  <2>4. ASSUME NEW j \in 0..(k + 1)
        PROVE  h[j] = IF j = 0 THEN S ELSE AddCast(h[j - 1], p, films[j])
    <3>1. CASE j = k + 1
      <4>1. j # 0 /\ j - 1 = k /\ k \in 0..k BY <3>1
      <4>2. h[j - 1] = g[k] /\ h[j] = new BY <2>3, <3>1, <4>1
      <4>3. new = AddCast(h[j - 1], p, films[j]) BY <3>1, <4>2 DEF new
      <4> QED BY <4>1, <4>2, <4>3
    <3>2. CASE j = 0
      <4>1. 0 \in 0..k OBVIOUS
      <4> QED BY <2>2, <2>3, <3>2, <4>1
    <3>3. CASE j \in 1..k
      <4>1. j \in 0..k /\ j - 1 \in 0..k /\ j # 0 BY <3>3
      <4>2. h[j] = g[j] /\ h[j - 1] = g[j - 1] BY <2>3, <4>1
      <4>3. g[j] = AddCast(g[j - 1], p, films[j]) BY <2>2, <4>1
      <4> QED BY <4>1, <4>2, <4>3
    <3> QED BY <3>1, <3>2, <3>3
  <2>5. CastsAdded(h, S, p, films, k + 1)
    BY <2>3, <2>4, Zenon DEF CastsAdded
  <2> QED BY <2>5
<1> HIDE DEF T
<1>3. Nat \subseteq T BY <1>1, <1>2, Induction
<1> QED BY <1>3 DEF T

\* When the films of x have been gone through, all neighbours of x were seen.
LEMMA AddCastsGood ==
    ASSUME NEW s, NEW t, NEW x \in Player, NEW L, NEW S,
           SearchGood(cast, S, s, t, x, L), CastsSeen(cast, S.movies, S.actors),
           NEW p, GoesOn(cast, p, s, x, L), ReadsRight
    PROVE  LET N == AddCasts(S, p, GetCredits(x, <<>>).films) IN
           /\ SearchGood(cast, N, s, t, x, L)
           /\ CastsSeen(cast, N.movies, N.actors)
           /\ S.actors \subseteq N.actors
           /\ \A f \in Film : x \in cast[f] => cast[f] \subseteq N.actors
<1> DEFINE films == GetCredits(x, <<>>).films
           N == AddCasts(S, p, films)
           n == Len(films)
           after[k \in 0..n] == IF k = 0 THEN S ELSE AddCast(after[k - 1], p, films[k])
<1>1. N = after[n] BY DEF AddCasts
<1>2. films \in Seq(Film) /\ ToSet(films) = {f \in Film : x \in cast[f]}
  BY Zenon DEF ReadsRight
<1>3. \A f \in Film : /\ IsSeq(GetCast(f, <<>>).players)
                      /\ ToSet(GetCast(f, <<>>).players) = cast[f]
  <2> TAKE f \in Film
  <2>1. /\ GetCast(f, <<>>).players \in Seq(Player)
        /\ ToSet(GetCast(f, <<>>).players) = cast[f]
    BY Zenon DEF ReadsRight
  <2> QED BY <2>1, IsSeqIs
<1> HIDE DEF films, N
<1>4. /\ n \in Nat
      /\ \A k \in 1..n : films[k] \in Film /\ x \in cast[films[k]]
      /\ \A f \in Film : x \in cast[f] => \E k \in 1..n : f = films[k]
  <2>1. n \in Nat /\ DOMAIN films = 1..n BY <1>2
  <2>2. \A k \in 1..n : films[k] \in ToSet(films) BY <2>1 DEF ToSet
  <2>3. \A f \in ToSet(films) : \E k \in 1..n : f = films[k] BY <2>1 DEF ToSet
  <2> QED BY <1>2, <2>1, <2>2, <2>3
<1> HIDE DEF n
<1>5. PICK g : CastsAdded(g, S, p, films, n) BY <1>4, CastsAddedExists
<1>6. g = [k \in 0..n |-> IF k = 0 THEN S ELSE AddCast(g[k - 1], p, films[k])]
  BY <1>5, Zenon DEF CastsAdded
<1>7. after = [k \in 0..n |-> IF k = 0 THEN S ELSE AddCast(after[k - 1], p, films[k])]
  BY <1>6
<1> HIDE DEF after
<1>8. \A k \in 0..n : after[k] = IF k = 0 THEN S ELSE AddCast(after[k - 1], p, films[k])
  BY <1>7, Zenon
<1> DEFINE Fine(k) == /\ SearchGood(cast, after[k], s, t, x, L)
                      /\ CastsSeen(cast, after[k].movies, after[k].actors)
                      /\ S.actors \subseteq after[k].actors
                      /\ \A j \in 1..k : films[j] \in after[k].movies
           T == {k \in Nat : k <= n => Fine(k)}
<1>9. 0 \in T
  <2>1. 0 \in 0..n BY <1>4
  <2>2. after[0] = S BY <1>8, <2>1
  <2> QED BY <2>2
<1>10. ASSUME NEW k \in Nat, k \in T PROVE k + 1 \in T
  <2> SUFFICES ASSUME k + 1 <= n PROVE Fine(k + 1)
    OBVIOUS
  <2>1. k + 1 \in 0..n /\ k + 1 # 0 /\ (k + 1) - 1 = k /\ k + 1 \in 1..n /\ k <= n BY <1>4
  <2> DEFINE B == after[k]
             C == after[k + 1]
             f == films[k + 1]
  <2>2. Fine(k) BY <1>10, <2>1
  <2>3. C = AddCast(B, p, f) BY <1>8, <2>1
  <2>4. f \in Film /\ x \in cast[f] BY <1>4, <2>1
  <2>5. /\ SearchGood(cast, B, s, t, x, L) /\ CastsSeen(cast, B.movies, B.actors)
        /\ S.actors \subseteq B.actors /\ \A j \in 1..k : films[j] \in B.movies
    BY <2>2
  <2> HIDE DEF B, C, f, T
  <2>6. /\ SearchGood(cast, C, s, t, x, L) /\ CastsSeen(cast, C.movies, C.actors)
        /\ B.actors \subseteq C.actors /\ C.movies = B.movies \cup {f}
    BY <1>3, <2>3, <2>4, <2>5, AddCastGood
  <2>7. \A j \in 1..(k + 1) : films[j] \in C.movies
    <3>1. \A j \in 1..(k + 1) : j \in 1..k \/ j = k + 1 OBVIOUS
    <3> QED BY <2>5, <2>6, <3>1 DEF f
  <2> QED BY <2>5, <2>6, <2>7 DEF C
<1> HIDE DEF T
<1>11. Nat \subseteq T BY <1>9, <1>10, Induction
<1>12. /\ SearchGood(cast, N, s, t, x, L) /\ CastsSeen(cast, N.movies, N.actors)
       /\ S.actors \subseteq N.actors /\ \A j \in 1..n : films[j] \in N.movies
  <2>1. n \in T /\ n <= n BY <1>4, <1>11
  <2> QED BY <1>1, <2>1 DEF T
<1>13. ASSUME NEW f \in Film, x \in cast[f] PROVE cast[f] \subseteq N.actors
  <2>1. PICK k \in 1..n : f = films[k] BY <1>4, <1>13
  <2> QED BY <1>12, <2>1 DEF CastsSeen
<1> QED BY <1>12, <1>13 DEF N, films

-----------------------------------------------------------------------------
(* The steps *)

LEMMA WithinPlayers ==
    ASSUME NEW c \in [Film -> SUBSET Player], NEW s \in Player, NEW n \in Nat
    PROVE  Within(c, s, n) \subseteq Player
<1> DEFINE T == {k \in Nat : Within(c, s, k) \subseteq Player}
<1>1. 0 \in T BY WithinFacts
<1>2. ASSUME NEW k \in Nat, k \in T PROVE k + 1 \in T
  <2> SUFFICES ASSUME NEW y \in Within(c, s, k + 1) PROVE y \in Player
    OBVIOUS
  <2>1. CASE y \in Within(c, s, k) BY <1>2, <2>1
  <2>2. ASSUME NEW z \in Within(c, s, k), NEW f \in Film, z \in c[f], y \in c[f]
        PROVE  y \in Player
    BY <2>2
  <2> QED BY <2>1, <2>2, WithinGrows
<1> HIDE DEF T
<1>3. Nat \subseteq T BY <1>1, <1>2, Induction
<1> QED BY <1>3 DEF T

\* Paths of at least L films lead to players who are not nearer than that.
LEMMA EndsFar ==
    ASSUME NEW c, NEW s, NEW L \in Nat, NEW Q, PathsGood(c, Q, s, L)
    PROVE  \A a \in Ends(Q) : \A m \in Nat : m < L => a \notin Within(c, s, m)
<1> SUFFICES ASSUME NEW k \in 1..Len(Q), NEW m \in Nat, m < L
             PROVE  GetLastPlayer(Q[k]) \notin Within(c, s, m)
  BY DEF Ends
<1> DEFINE p == Q[k]
<1>1. PathGood(c, p, s) /\ GetLength(p) \in {L, L + 1} BY DEF PathsGood
<1> HIDE DEF p
<1>2. m < Len(p.links) BY <1>1 DEF GetLength
<1>3. GetLastPlayer(p) \notin Within(c, s, m) BY <1>1, <1>2 DEF PathGood
<1> QED BY <1>3 DEF p

\* The paths are as long as the first or longer by one.
LEMMA FirstIsShortest ==
    ASSUME NEW c, NEW s, NEW L \in Nat, NEW Q, PathsGood(c, Q, s, L), Q # <<>>
    PROVE  /\ GetLength(Q[1]) \in Nat /\ GetLength(Q[1]) \in {L, L + 1}
           /\ PathsGood(c, Q, s, GetLength(Q[1]))
           /\ PathGood(c, Q[1], s) /\ Head(Q) = Q[1]
<1> DEFINE K == GetLength(Q[1])
           n == Len(Q)
<1>1. /\ IsSeq(Q)
      /\ \A k \in 1..n : PathGood(c, Q[k], s) /\ GetLength(Q[k]) \in {L, L + 1}
      /\ \A i, k \in 1..n : i < k =>
            /\ GetLength(Q[i]) <= GetLength(Q[k])
            /\ GetLastPlayer(Q[i]) # GetLastPlayer(Q[k])
  BY DEF PathsGood
<1>2. n \in Nat \ {0} /\ Head(Q) = Q[1] BY <1>1, TailFacts
<1> HIDE DEF n
<1>3. 1 \in 1..n BY <1>2
<1>4. K \in {L, L + 1} /\ PathGood(c, Q[1], s) BY <1>1, <1>3
<1>5. ASSUME NEW k \in 1..n PROVE GetLength(Q[k]) \in {K, K + 1}
  <2>1. CASE k = 1 BY <2>1
  <2>2. CASE k # 1
    <3>1. 1 < k BY <1>2, <2>2
    <3>2. K <= GetLength(Q[k]) /\ GetLength(Q[k]) \in {L, L + 1} BY <1>1, <1>3, <3>1
    <3> HIDE DEF K
    <3> QED BY <1>4, <3>2
  <2> QED BY <2>1, <2>2
<1> HIDE DEF K
<1>6. PathsGood(c, Q, s, K) BY <1>1, <1>5 DEF PathsGood, n
<1> QED BY <1>2, <1>4, <1>6 DEF K

LEMMA PromptStep ==
    ASSUME SixInv, NEW response \in Player, PromptForActor(response)
    PROVE  SixInv'
<1>1. cast' \in Casts /\ q' = <<>> /\ answer' = NoAnswer
  BY DEF SixInv, PromptForActor, Searching, dbVars
<1>2. asked' \in Seq(Player) /\ Len(asked') <= 2
  <2>1. asked \in Seq(Player) /\ Len(asked) < 2
        /\ (asked' = Append(asked, response) \/ asked' = asked)
    BY Zenon DEF SixInv, PromptForActor
  <2> QED BY <2>1
<1> QED BY <1>1, <1>2 DEF SixInv

LEMMA StartStep ==
    ASSUME SixInv, Start
    PROVE  SixInv'
<1>1. /\ cast \in Casts /\ asked \in Seq(Player) /\ Len(asked) = 2 /\ q = <<>>
      /\ cast' = cast /\ answer' = answer
      /\ answer # NoAnswer => AnswerGood(cast, answer)
  BY DEF SixInv, Start, Searching, dbVars
<1>2. CASE asked[1] = asked[2]
  <2>1. asked' = <<>> /\ q' = <<>> BY <1>1, <1>2 DEF Start
  <2>2. <<>> \in Seq(Player) /\ Len(<<>>) <= 2 OBVIOUS
  <2> QED BY <1>1, <2>1, <2>2 DEF SixInv
<1>3. CASE asked[1] # asked[2]
  <2> DEFINE s == asked[1]
             t == asked[2]
             p == PathFrom(s)
  <2>1. /\ asked' = asked /\ q' = <<p>> /\ seenActors' = {s} /\ seenMovies' = {}
    BY <1>3 DEF Start
  <2>2. p = [start |-> s, links |-> <<>>] BY DEF PathFrom
  <2> HIDE DEF p, s, t
  <2>3. p.links = <<>> /\ p.start = s BY <2>2
  <2>4. GetLength(p) = 0 /\ GetLastPlayer(p) = s BY <2>3 DEF GetLength, GetLastPlayer
  <2>5. PathGood(cast, p, s)
    <3>1. IsSeq(<<>>)
      <4>1. <<>> \in Seq({}) OBVIOUS
      <4> QED BY <4>1, IsSeqIs
    <3>2. Leads(cast, s, <<>>) BY DEF Leads
    <3>3. s \in Within(cast, s, 0) BY WithinFacts
    <3>4. Len(<<>>) = 0 /\ \A m \in Nat : ~ (m < 0) OBVIOUS
    <3> QED BY <2>2, <2>3, <2>4, <3>1, <3>2, <3>3, <3>4 DEF PathGood
  <2>6. IsSeq(<<p>>)
    <3>1. <<p>> \in Seq({p}) OBVIOUS
    <3> QED BY <3>1, IsSeqIs
  <2>7. Len(<<p>>) = 1 /\ <<p>>[1] = p OBVIOUS
  <2>8. \A n \in 1..1 : n = 1 OBVIOUS
  <2>9. PathsGood(cast, <<p>>, s, GetLength(<<p>>[1]))
    BY <2>4, <2>5, <2>6, <2>7, <2>8 DEF PathsGood
  <2>10. Ends(<<p>>) = {s}
    <3>1. Ends(<<p>>) = {GetLastPlayer(<<p>>[n]) : n \in 1..1} BY <2>7 DEF Ends
    <3> QED BY <2>4, <2>7, <3>1
  <2>11. QueueGood(cast, <<p>>, {s}, {}, s, t)
    BY <2>9, <2>10 DEF QueueGood, CastsSeen
  <2> QED BY <1>1, <1>3, <2>1, <2>11 DEF SixInv, s, t
<1> QED BY <1>2, <1>3

\* While there is a search, its source, target, first path and what is known
\* of its length.
LEMMA SearchFacts ==
    ASSUME SixInv, q # <<>>
    PROVE  LET s == asked[1]
               t == asked[2]
               p == Head(q)
               L == GetLength(p)
           IN  /\ s \in Player /\ s # t /\ Len(asked) = 2 /\ s \in seenActors
               /\ L \in Nat /\ PathsGood(cast, q, s, L) /\ PathGood(cast, p, s)
               /\ Ends(q) \subseteq seenActors
               /\ \A a \in seenActors : a \in Ends(q) \/ Expanded(cast, a, seenActors, t)
               /\ CastsSeen(cast, seenMovies, seenActors)
               /\ Within(cast, s, L) \subseteq seenActors
<1> DEFINE s == asked[1]
           t == asked[2]
           p == Head(q)
           L == GetLength(p)
<1>1. /\ asked \in Seq(Player) /\ Len(asked) = 2 /\ s # t
      /\ QueueGood(cast, q, seenActors, seenMovies, s, t)
  BY DEF SixInv
<1>2. s \in Player BY <1>1
<1> HIDE DEF s, t
<1>3. PathsGood(cast, q, s, GetLength(q[1])) BY <1>1 DEF QueueGood
<1>4. p = q[1] /\ PathGood(cast, p, s)
  <2>1. IsSeq(q) /\ \A n \in 1..Len(q) : PathGood(cast, q[n], s) BY <1>3 DEF PathsGood
  <2>2. Len(q) \in Nat \ {0} /\ Head(q) = q[1] BY <2>1, TailFacts
  <2>3. 1 \in 1..Len(q) BY <2>2
  <2> QED BY <2>1, <2>2, <2>3
<1>5. L = GetLength(q[1]) /\ L \in Nat BY <1>4, LastIs DEF GetLength
<1> HIDE DEF p, L
<1>6. PathsGood(cast, q, s, L) BY <1>3, <1>5
<1>7. /\ Ends(q) \subseteq seenActors /\ CastsSeen(cast, seenMovies, seenActors)
      /\ \A a \in seenActors : a \in Ends(q) \/ Expanded(cast, a, seenActors, t)
      /\ s \in seenActors
  BY <1>1 DEF QueueGood
<1>8. \A a \in Ends(q) : \A m \in Nat : m < L => a \notin Within(cast, s, m)
  BY <1>5, <1>6, EndsFar
<1>9. Within(cast, s, L) \subseteq seenActors
  <2>1. Closed(cast, seenActors, Ends(q), t) BY <1>7 DEF Closed
  <2>2. Far(cast, s, Ends(q), L) BY <1>8 DEF Far
  <2> QED BY <1>5, <1>7, <2>1, <2>2, SeenWithin
<1> QED BY <1>1, <1>2, <1>4, <1>5, <1>6, <1>7, <1>9 DEF s, t, p, L

\* generateShortestPath returns.
LEMMA DoneStep ==
    ASSUME SixInv, NEW found, NEW links, asked' = <<>>, q' = <<>>, cast' = cast,
           answer' = [for |-> asked, found |-> found, links |-> links],
           AnswerGood(cast, [for |-> asked, found |-> found, links |-> links])
    PROVE  SixInv'
<1>1. <<>> \in Seq(Player) /\ Len(<<>>) <= 2 OBVIOUS
<1> DEFINE ans == [for |-> asked, found |-> found, links |-> links]
<1>2. AnswerGood(cast, ans) /\ answer' = ans OBVIOUS
<1> HIDE DEF ans
<1>3. AnswerGood(cast', answer') BY <1>2
<1> QED BY <1>1, <1>3 DEF SixInv

LEMMA TooFarStep ==
    ASSUME SixInv, q # <<>>, LongEnough(Head(q)), NEW links
    PROVE  AnswerGood(cast, [for |-> asked, found |-> FALSE, links |-> links])
<1> DEFINE s == asked[1]
           t == asked[2]
           L == GetLength(Head(q))
           ans == [for |-> asked, found |-> FALSE, links |-> links]
<1>1. /\ L \in Nat /\ PathsGood(cast, q, s, L)
      /\ \A a \in seenActors : a \in Ends(q) \/ Expanded(cast, a, seenActors, t)
      /\ Within(cast, s, L) \subseteq seenActors
  BY SearchFacts
<1>2. L = HOW_FAR BY DEF LongEnough
<1> HIDE DEF L, s, t
<1>3. L - 1 \in Nat /\ L - 1 < L /\ L - 1 <= L BY <1>2, HowFarAssumption
<1>4. ASSUME t \in Within(cast, s, L - 1) PROVE FALSE
  <2>1. t \in seenActors BY <1>1, <1>3, <1>4, WithinMonotone
  <2>2. t \in Ends(q) BY <1>1, <2>1 DEF Expanded
  <2> QED BY <1>1, <1>3, <1>4, <2>2, EndsFar
<1>5. ans.for = asked /\ ~ ans.found OBVIOUS
<1> HIDE DEF ans
<1>6. AnswerGood(cast, ans) BY <1>2, <1>4, <1>5 DEF AnswerGood, s, t
<1> QED BY <1>6 DEF ans

LEMMA FoundStep ==
    ASSUME SixInv, q # <<>>, GetLastPlayer(Head(q)) = asked[2]
    PROVE  AnswerGood(cast, [for |-> asked, found |-> TRUE, links |-> Head(q).links])
<1> DEFINE s == asked[1]
           t == asked[2]
           p == Head(q)
           links == p.links
           ans == [for |-> asked, found |-> TRUE, links |-> links]
<1>1. s # t /\ PathGood(cast, p, s) BY SearchFacts
<1>2. GetLastPlayer(p) = t OBVIOUS
<1> HIDE DEF p, s, t
<1>3. PlayerAt(s, links, Len(links)) = t /\ Len(links) \in Nat BY <1>1, <1>2, LastIs
<1>4. Leads(cast, s, links) /\ \A m \in Nat : m < Len(links) => t \notin Within(cast, s, m)
  BY <1>1, <1>2 DEF PathGood
<1>5. Len(links) # 0 BY <1>1, <1>3 DEF PlayerAt
<1>6. Len(links) - 1 \in Nat /\ Len(links) - 1 < Len(links) BY <1>3, <1>5
<1>7. t \notin Within(cast, s, Len(links) - 1) BY <1>4, <1>6
<1>8. ans.for = asked /\ ans.found /\ ans.links = links OBVIOUS
<1> HIDE DEF ans, links
<1>9. AnswerGood(cast, ans) BY <1>3, <1>4, <1>7, <1>8 DEF AnswerGood, s, t
<1> QED BY <1>9 DEF ans, links, p

\* The rest of a turn of the loop.
LEMMA ExpandStep ==
    ASSUME SixInv, q # <<>>, ReadsRight, GetLastPlayer(Head(q)) # asked[2]
    PROVE  LET p == Head(q)
               N == AddCasts([q |-> Tail(q), actors |-> seenActors, movies |-> seenMovies], p,
                             GetCredits(GetLastPlayer(p), <<>>).films)
           IN  /\ N.q = <<>> => \A links : AnswerGood(cast, [for |-> asked, found |-> FALSE, links |-> links])
               /\ N.q # <<>> => QueueGood(cast, N.q, N.actors, N.movies, asked[1], asked[2])
<1> DEFINE s == asked[1]
           t == asked[2]
           p == Head(q)
           L == GetLength(p)
           x == GetLastPlayer(p)
           S == [q |-> Tail(q), actors |-> seenActors, movies |-> seenMovies]
           N == AddCasts(S, p, GetCredits(x, <<>>).films)
<1>1. /\ s \in Player /\ s \in seenActors
      /\ L \in Nat /\ PathsGood(cast, q, s, L) /\ PathGood(cast, p, s)
      /\ Ends(q) \subseteq seenActors
      /\ \A a \in seenActors : a \in Ends(q) \/ Expanded(cast, a, seenActors, t)
      /\ CastsSeen(cast, seenMovies, seenActors)
      /\ Within(cast, s, L) \subseteq seenActors
  BY SearchFacts
<1>2. x # t OBVIOUS
<1>3. GoesOn(cast, p, s, x, L) BY <1>1 DEF GoesOn
<1>4. PathsGood(cast, Tail(q), s, L) /\ Ends(q) = Ends(Tail(q)) \cup {x}
  BY <1>1, PoppedGood
<1>5. S.q = Tail(q) /\ S.actors = seenActors /\ S.movies = seenMovies
      /\ S = [q |-> S.q, actors |-> S.actors, movies |-> S.movies]
  OBVIOUS
<1>6. x \in Player
  <2>1. x \in Within(cast, s, L) BY <1>1 DEF PathGood, GetLength
  <2>2. cast \in [Film -> SUBSET Player] BY NamesAssumption DEF SixInv
  <2> HIDE DEF x, s, L
  <2> QED BY <1>1, <2>1, <2>2, WithinPlayers
<1> HIDE DEF s, t, p, L, x, S, N
<1>7. SearchGood(cast, S, s, t, x, L) BY <1>1, <1>4, <1>5 DEF SearchGood
<1>8. CastsSeen(cast, S.movies, S.actors) BY <1>1, <1>5
<1>9. /\ SearchGood(cast, N, s, t, x, L)
      /\ CastsSeen(cast, N.movies, N.actors)
      /\ S.actors \subseteq N.actors
      /\ \A f \in Film : x \in cast[f] => cast[f] \subseteq N.actors
  <2>1. N = AddCasts(S, p, GetCredits(x, <<>>).films) BY DEF N
  <2> QED BY <1>3, <1>6, <1>7, <1>8, <2>1, AddCastsGood
<1>10. Expanded(cast, x, N.actors, t) BY <1>2, <1>9 DEF Expanded
<1>11. /\ PathsGood(cast, N.q, s, L) /\ Ends(N.q) \subseteq N.actors
       /\ \A a \in N.actors : a \in Ends(N.q) \/ Expanded(cast, a, N.actors, t)
  BY <1>9, <1>10 DEF SearchGood
<1>12. s \in N.actors BY <1>1, <1>5, <1>9
<1>13. ASSUME N.q = <<>>, NEW links
       PROVE  AnswerGood(cast, [for |-> asked, found |-> FALSE, links |-> links])
  <2>1. Ends(N.q) = {} BY <1>13 DEF Ends
  <2>2. HOW_FAR - 1 \in Nat BY HowFarAssumption
  <2>3. Far(cast, s, {}, HOW_FAR - 1) BY DEF Far
  <2>4. Closed(cast, N.actors, {}, t) BY <1>11, <2>1 DEF Closed
  <2>5. Within(cast, s, HOW_FAR - 1) \subseteq N.actors BY <1>12, <2>2, <2>3, <2>4, SeenWithin
  <2>6. t \notin N.actors BY <2>4 DEF Closed, Expanded
  <2> DEFINE ans == [for |-> asked, found |-> FALSE, links |-> links]
  <2>7. ans.for = asked /\ ~ ans.found OBVIOUS
  <2> HIDE DEF ans
  <2>8. AnswerGood(cast, ans) BY <2>5, <2>6, <2>7 DEF AnswerGood, s, t
  <2> QED BY <2>8 DEF ans
<1>14. ASSUME N.q # <<>> PROVE QueueGood(cast, N.q, N.actors, N.movies, s, t)
  <2>1. PathsGood(cast, N.q, s, GetLength(N.q[1])) BY <1>1, <1>11, <1>14, FirstIsShortest
  <2> QED BY <1>9, <1>11, <1>12, <2>1 DEF QueueGood
<1> QED BY <1>13, <1>14 DEF s, t, p, x, S, N

LEMMA SearchStep ==
    ASSUME SixInv, ReadsRight, GenerateShortestPath
    PROVE  SixInv'
<1> DEFINE p == Head(q)
           N == AddCasts([q |-> Tail(q), actors |-> seenActors, movies |-> seenMovies], p,
                         GetCredits(GetLastPlayer(p), <<>>).films)
           done(found, links) ==
               /\ answer' = [for |-> asked, found |-> found, links |-> links]
               /\ asked' = <<>> /\ q' = <<>>
<1>1. q # <<>> /\ cast' = cast BY DEF GenerateShortestPath, Searching, dbVars
<1>2. \/ LongEnough(p) /\ done(FALSE, <<>>)
      \/ GetLastPlayer(p) = asked[2] /\ done(TRUE, p.links)
      \/ GetLastPlayer(p) # asked[2] /\ N.q = <<>> /\ done(FALSE, <<>>)
      \/ /\ GetLastPlayer(p) # asked[2] /\ N.q # <<>>
         /\ q' = N.q /\ seenActors' = N.actors /\ seenMovies' = N.movies
         /\ asked' = asked /\ answer' = answer
  <2> HIDE DEF N
  <2> QED BY DEF GenerateShortestPath, N
<1>3. CASE LongEnough(p) /\ done(FALSE, <<>>) BY <1>1, <1>3, TooFarStep, DoneStep
<1>4. CASE GetLastPlayer(p) = asked[2] /\ done(TRUE, p.links)
  BY <1>1, <1>4, FoundStep, DoneStep
<1>5. CASE GetLastPlayer(p) # asked[2] /\ N.q = <<>> /\ done(FALSE, <<>>)
  <2>1. AnswerGood(cast, [for |-> asked, found |-> FALSE, links |-> <<>>])
    BY <1>1, <1>5, ExpandStep
  <2> QED BY <1>1, <1>5, <2>1, DoneStep
<1>6. CASE /\ GetLastPlayer(p) # asked[2] /\ N.q # <<>>
           /\ q' = N.q /\ seenActors' = N.actors /\ seenMovies' = N.movies
           /\ asked' = asked /\ answer' = answer
  <2>1. QueueGood(cast, N.q, N.actors, N.movies, asked[1], asked[2])
    BY <1>1, <1>6, ExpandStep
  <2>2. asked[1] # asked[2] /\ Len(asked) = 2 BY <1>1, SearchFacts
  <2> HIDE DEF N
  <2>3. QueueGood(cast', q', seenActors', seenMovies', asked'[1], asked'[2])
    BY <1>1, <1>6, <2>1
  <2> QED BY <1>1, <1>6, <2>2, <2>3 DEF SixInv
<1> QED BY <1>2, <1>3, <1>4, <1>5, <1>6

LEMMA SixStep ==
    ASSUME SixInv, ReadsRight, [SixNext]_sixVars
    PROVE  SixInv'
<1>1. ASSUME NEW response \in Player, PromptForActor(response) PROVE SixInv'
  BY <1>1, PromptStep
<1>2. CASE Start BY <1>2, StartStep
<1>3. CASE GenerateShortestPath BY <1>3, SearchStep
<1>4. CASE UNCHANGED sixVars
  BY <1>4 DEF SixInv, sixVars, dbVars
<1> QED BY <1>1, <1>2, <1>3, <1>4 DEF SixNext

LEMMA SixInitInv == SixInit => SixInv
<1>1. <<>> \in Seq(Player) /\ Len(<<>>) <= 2 OBVIOUS
<1> QED BY <1>1 DEF SixInit, SixInv, DbInit, Asking

LEMMA FilesKept == SixSpec => []ReadsRight
<1>1. SixInit => FilesGood
  BY NamesAssumption DEF SixInit, FilesGood, GoodCast, DbInit, Opened
<1>2. ASSUME FilesGood, [SixNext]_sixVars PROVE FilesGood'
  <2>1. UNCHANGED dbVars
    BY <1>2 DEF SixNext, PromptForActor, Start, GenerateShortestPath, sixVars
  <2> QED BY <1>2, <2>1 DEF FilesGood, dbVars
<1>3. FilesGood => ReadsRight BY FilesReadRight
<1> QED BY <1>1, <1>2, <1>3, PTL DEF SixSpec

LEMMA SixInvKept == SixSpec => []SixInv
<1>1. SixInv /\ ReadsRight /\ [SixNext]_sixVars => SixInv' BY SixStep
<1> QED BY <1>1, SixInitInv, FilesKept, PTL DEF SixSpec

LEMMA QueueGoodByLength ==
    ASSUME SixInv
    PROVE  QueueByLength
<1>1. CASE q = <<>>
  <2>1. DOMAIN q = {} BY <1>1
  <2> QED BY <2>1 DEF QueueByLength
<1>2. CASE q # <<>>
  <2> DEFINE L == GetLength(Head(q))
  <2>1. PICK s : L \in Nat /\ PathsGood(cast, q, s, L) BY <1>2, SearchFacts
  <2> HIDE DEF L
  <2>2. /\ IsSeq(q)
        /\ \A n \in 1..Len(q) : GetLength(q[n]) \in {L, L + 1}
        /\ \A m, n \in 1..Len(q) : m < n =>
              /\ GetLength(q[m]) <= GetLength(q[n])
              /\ GetLastPlayer(q[m]) # GetLastPlayer(q[n])
    BY <2>1 DEF PathsGood
  <2>3. DOMAIN q = 1..Len(q) BY <2>2, SeqFacts
  <2>4. ASSUME NEW m \in DOMAIN q, NEW n \in DOMAIN q, m < n
        PROVE  /\ GetLength(q[n]) - GetLength(q[m]) \in {0, 1}
               /\ GetLastPlayer(q[m]) # GetLastPlayer(q[n])
    <3>1. /\ GetLength(q[m]) \in {L, L + 1} /\ GetLength(q[n]) \in {L, L + 1}
          /\ GetLength(q[m]) <= GetLength(q[n])
          /\ GetLastPlayer(q[m]) # GetLastPlayer(q[n])
      BY <2>2, <2>3, <2>4
    <3>2. GetLength(q[n]) - GetLength(q[m]) \in {0, 1} BY <2>1, <3>1
    <3> QED BY <3>1, <3>2
  <2> QED BY <2>4 DEF QueueByLength
<1> QED BY <1>1, <1>2

LEMMA AnswerFound ==
    ASSUME SixInv
    PROVE  ShortestPathFound
<1>1. answer # NoAnswer => AnswerGood(cast, answer) BY DEF SixInv
<1> QED BY <1>1 DEF AnswerGood, ShortestPathFound, Leads, PlayerAt

-----------------------------------------------------------------------------
\* The paths that generateShortestPath has queued are in the order of their
\* lengths, whatever the films and casts are.
THEOREM PathsQueueByLength == SixSpec => []QueueByLength
<1>1. SixInv => QueueByLength BY QueueGoodByLength
<1> QED BY <1>1, SixInvKept, PTL

\* The path that six-degrees prints is a shortest one, and when it says that
\* there is none, there is none of fewer than HOW_FAR films, whatever the films
\* and casts are.
THEOREM ShortestPathsFound == SixSpec => []ShortestPathFound
<1>1. SixInv => ShortestPathFound BY AnswerFound
<1> QED BY <1>1, SixInvKept, PTL
=============================================================================
