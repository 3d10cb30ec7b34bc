-------------------------------- MODULE Align --------------------------------
(***************************************************************************)
(* align.py: the recursive alignment of two strands, with a cache.  The    *)
(* results are dictionaries, which are passed by reference: a memory m     *)
(* has them in m.heap, m.cache says at which place the result of a pair of *)
(* strands is, and m.at is the place of the result just returned.          *)
(***************************************************************************)
EXTENDS Integers, Sequences

CONSTANTS Bases, MaxLength,
          Space           \* what a base is aligned with that matches none

ASSUME SpaceAssumption == Space \notin Bases /\ MaxLength \in Nat \ {0}

VARIABLES strands, alignment

alignVars == <<strands, alignment>>

NoAlignment == [score |-> 0, strand1 |-> <<>>, strand2 |-> <<>>]

AlignInit == strands = <<<<>>, <<>>>> /\ alignment = NoAlignment

Aligned == Seq(Bases \cup {Space})
Results == [score : Int, strand1 : Aligned, strand2 : Aligned]
CacheEntries == [key : Seq(Bases) \X Seq(Bases), at : Nat]

\* The dictionaries there are, and where; none is returned at first.
Memory ==
    {m \in [heap : Seq(Results), cache : SUBSET CacheEntries, at : Nat] :
        /\ m.at <= Len(m.heap)
        /\ \A c \in m.cache : c.at \in 1..Len(m.heap)}
NoMemory == [heap |-> <<>>, cache |-> {}, at |-> 0]

Spaces(n) == [k \in 1..n |-> Space]
Result(m) == m.heap[m.at]
Returning(m, result) == [m EXCEPT !.heap = Append(@, result), !.at = Len(m.heap) + 1]

\* Mutant: the penalty for a space is forgotten on the second strand.
ExtendedFree(m, gain, a, b) ==
    LET old == Result(m)
        new == [score   |-> old.score + IF b = Space THEN 0 ELSE gain,
                strand1 |-> <<a>> \o old.strand1,
                strand2 |-> <<b>> \o old.strand2]
    IN  [m EXCEPT !.heap = [@ EXCEPT ![m.at] = new]]

\* The dictionary just returned is changed in place.
Extended(m, gain, a, b) ==
    LET old == Result(m)
        new == [score   |-> old.score + gain,
                strand1 |-> <<a>> \o old.strand1,
                strand2 |-> <<b>> \o old.strand2]
    IN  [m EXCEPT !.heap = [@ EXCEPT ![m.at] = new]]

\* `best', a place, or the result just returned if its score is higher.
Better(m, best) == IF Result(m).score > m.heap[best].score THEN m.at ELSE best

\* `find' is findOptimalAlignment.
FindOptimalAlignmentCached(find, s, t, m) ==
    IF \E c \in m.cache : c.key = <<s, t>>
    THEN [m EXCEPT !.at = (CHOOSE c \in m.cache : c.key = <<s, t>>).at]
    ELSE LET found == find[<<s, t, m>>]
         IN  [found EXCEPT !.cache = @ \cup {[key |-> <<s, t>>, at |-> found.at]}]

FindOptimalAlignment[call \in Seq(Bases) \X Seq(Bases) \X Memory] ==
    LET s == call[1]
        t == call[2]
        m == call[3]
    IN  IF s = <<>>
        THEN Returning(m, [score |-> -2 * Len(t), strand1 |-> Spaces(Len(t)), strand2 |-> t])
        ELSE IF t = <<>>
        THEN Returning(m, [score |-> -2 * Len(s), strand1 |-> s, strand2 |-> Spaces(Len(s))])
        ELSE LET Cached(u, v, n) == FindOptimalAlignmentCached(FindOptimalAlignment, u, v, n)
                 with == Cached(Tail(s), Tail(t), m)
             IN  IF Head(s) = Head(t)
                 THEN Extended(Returning(with, Result(with)), 1, Head(s), Head(t))
                 ELSE LET m1 == Extended(with, -1, Head(s), Head(t))
                          m2 == Extended(Cached(s, Tail(t), m1), -2, Space, Head(t))
                          best == Better(m2, m1.at)
                          m3 == Extended(Cached(Tail(s), t, m2), -2, Head(s), Space)
                      IN  [m3 EXCEPT !.at = Better(m3, best)]

Strands == UNION {[1..n -> Bases] : n \in 1..MaxLength}

\* The first turn of the loop of main, with two strands that
\* generateRandomDNAStrand may return; the next has a new cache.
FindAndPrint(s, t) ==
    /\ alignment = NoAlignment
    /\ strands' = <<s, t>>
    /\ alignment' = Result(FindOptimalAlignment[<<s, t, NoMemory>>])

AlignSpec == AlignInit /\ [][\E s, t \in Strands : FindAndPrint(s, t)]_alignVars

-----------------------------------------------------------------------------
\* What two aligned bases are worth, and two aligned strands in all.
Worth(a, b) == IF Space \in {a, b} THEN -2 ELSE IF a = b THEN 1 ELSE -1
Score(a, b) ==
    LET sum[k \in 0..Len(a)] == IF k = 0 THEN 0 ELSE sum[k - 1] + Worth(a[k], b[k])
    IN  sum[Len(a)]

Scored(result) ==
    /\ Len(result.strand1) = Len(result.strand2)
    /\ result.score = Score(result.strand1, result.strand2)

\* The strands printed are equally long, and the score printed is theirs: one
\* for a match, minus one for a mismatch, minus two for a space.  The same
\* dictionaries are changed again and again, but always score and strands
\* together (findOptimalAlignment).
ScoreOfAlignment == Scored(alignment)

\* The best score of all alignments of s and t.
Optimum(s, t) ==
    LET best[i \in 0..Len(s), j \in 0..Len(t)] ==
            IF i = 0 THEN -2 * j ELSE IF j = 0 THEN -2 * i
            ELSE LET with == best[i - 1, j - 1] + IF s[i] = t[j] THEN 1 ELSE -1
                     without == {best[i - 1, j] - 2, best[i, j - 1] - 2}
                 IN  CHOOSE v \in without \cup {with} : \A u \in without \cup {with} : v >= u
    IN  best[Len(s), Len(t)]

\* "Computes the score of the optimal alignment of two DNA strands."
\* (align.py:19)
OptimalScore == alignment.score = Optimum(strands[1], strands[2])
=============================================================================
