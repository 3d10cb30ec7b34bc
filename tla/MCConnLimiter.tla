--------------------------- MODULE MCConnLimiter ---------------------------
(***************************************************************************)
(* Values for small instances of ConnLimiter: the names of servers a and b *)
(* hash to one bucket, that of c to its own.                               *)
(***************************************************************************)
EXTENDS ConnLimiter, TLC

CONSTANTS a, b, c

MCHash == [s \in Servers |-> IF s = c THEN 2 ELSE 1]
MCRank == [s \in Servers |-> IF s = a THEN 1 ELSE IF s = b THEN 2 ELSE 3]

\* No definition tells the threads apart.
MCSymmetry == Permutations(Threads)
=============================================================================
