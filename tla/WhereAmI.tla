------------------------------ MODULE WhereAmI ------------------------------
(***************************************************************************)
(* where-am-i.scm: every way of pairing the measured distances with the    *)
(* stars is rated, and the guesses are sorted by their ratings.  The       *)
(* geometry (intersection-points, clumped-points, average-point) is        *)
(* abstracted to a rating of each guess.                                   *)
(***************************************************************************)
EXTENDS Integers, Sequences, SequencesExt, FiniteSetsExt

CONSTANTS Star, Distance, Ratings,
          MaxGuess            \* bound: distances measured

ASSUME StarsAssumption == IsFiniteSet(Star) /\ Ratings \subseteq Int /\ MaxGuess \in Nat \ {0}

VARIABLES distances, stars, rating, ranked

whereVars == <<distances, stars, rating, ranked>>

WhereInit == distances = <<>> /\ stars = <<>> /\ rating = <<>> /\ ranked = <<>>

\* The elements of ls that are in S, in their order.
Kept(ls, S) ==
    LET kept[n \in 0..Len(ls)] ==
            IF n = 0 THEN <<>>
            ELSE IF ls[n] \in S THEN Append(kept[n - 1], ls[n]) ELSE kept[n - 1]
    IN  kept[Len(ls)]

\* remove: all elements that are equal? to elem.
Without(elem, ls) == Kept(ls, ToSet(ls) \ {elem})

Guess == Seq(Distance \X Star)

AllGuesses[call \in Seq(Distance) \X Seq(Star)] ==
    LET ds == call[1]
        ss == call[2]
    IN  IF ds = <<>> \/ ss = <<>> THEN << <<>> >>
        ELSE LET guesses[k \in 0..Len(ss)] ==
                     IF k = 0 THEN <<>>
                     ELSE LET pairs == AllGuesses[<<Tail(ds), Without(ss[k], ss)>>]
                          IN  guesses[k - 1] \o
                                [n \in 1..Len(pairs) |-> << <<Head(ds), ss[k]>> >> \o pairs[n]]
             IN  guesses[Len(ss)]

\* The comparison that quicksort is given: (< (car guess1) (car guess2)).
Before(g, h) == g[1] < h[1]

\* Mutant: an element that is equal to the pivot is lost.
PartitionStrict(pivot, ls) ==
    << Kept(ls, {e \in ToSet(ls) : Before(e, pivot)}), Kept(ls, {e \in ToSet(ls) : Before(pivot, e)}) >>

Partition(pivot, ls) ==
    << Kept(ls, {e \in ToSet(ls) : Before(e, pivot)}), Kept(ls, {e \in ToSet(ls) : ~Before(e, pivot)}) >>

Quicksort[ls \in Seq(Ratings \X Guess)] ==
    IF Len(ls) <= 1 THEN ls
    ELSE LET split == Partition(Head(ls), Tail(ls))
         IN  Quicksort[split[1]] \o <<Head(ls)>> \o Quicksort[split[2]]

\* where-am-i; `rate' says how well the points of a guess clump.
RankGuesses(ds, ss, rate) ==
    LET guesses == AllGuesses[<<ds, ss>>]
    IN  /\ distances' = ds /\ stars' = ss /\ rating' = rate
        /\ ranked' = Quicksort[[n \in 1..Len(guesses) |-> <<rate[guesses[n]], guesses[n]>>]]

\* The guesses there are: each distance with a star of its own, as long as
\* there are stars left.
Pairings(ds, S) ==
    LET shorter == IF Len(ds) <= Cardinality(S) THEN Len(ds) ELSE Cardinality(S)
    IN  {[k \in 1..shorter |-> <<ds[k], at[k]>>] :
            at \in {f \in [1..shorter -> S] : \A j, k \in 1..shorter : f[j] = f[k] => j = k}}

\* One call, with no star twice.
WhereNext ==
    /\ stars = <<>>
    /\ \E ss \in SetToSeqs(Star), ds \in UNION {[1..n -> Distance] : n \in 1..MaxGuess} :
          \E rate \in [Pairings(ds, ToSet(ss)) -> Ratings] : RankGuesses(ds, ss, rate)

WhereSpec == WhereInit /\ [][WhereNext]_whereVars

-----------------------------------------------------------------------------
(***************************************************************************)
(* The answer of where-am-i has every guess once, with its rating; guesses *)
(* that rate the same are all there.  The lowest rating, the tightest      *)
(* clump, comes first: where-am-i hands quicksort the comparison <, and    *)
(* what it holds to be less goes to the front.  This is NOT what the       *)
(* comment of quicksort says (where-am-i.scm:151-152, "sort lists of       *)
(* numbers from high to low"): the property follows the callers, which     *)
(* need the best guess, and the closest points, in front.                  *)
(***************************************************************************)
GuessesRanked ==
    stars # <<>> =>
        /\ {ranked[n][2] : n \in DOMAIN ranked} = Pairings(distances, ToSet(stars))
        /\ Len(ranked) = Cardinality(Pairings(distances, ToSet(stars)))
        /\ \A n \in DOMAIN ranked : ranked[n][1] = rating[ranked[n][2]]
        /\ \A m, n \in DOMAIN ranked : m < n => ranked[m][1] <= ranked[n][1]
=============================================================================
