---------------------------- MODULE MCContainers ----------------------------
(***************************************************************************)
(* A vector and a hash set for TLC, each with a client of its own.  They   *)
(* share nothing, so a behaviour uses the one or the other.                *)
(***************************************************************************)
EXTENDS VectorClient, HashSet, TLC

CONSTANTS e1, e2, e3, e4, e5

\* e2 and e3 compare equal; e4 hashes to a bucket only a table of two has.
MCRank == e1 :> 2 @@ e2 :> 1 @@ e3 :> 1 @@ e4 :> 0 @@ e5 :> 3
MCHash == e1 :> 0 @@ e2 :> 0 @@ e3 :> 0 @@ e4 :> 1 @@ e5 :> 0
MCInitialAllocs == {-1, 0, 1}
MCBucketCounts == {0, 1, 2}

allVars == <<vecVars, setVars>>

\* Whether there is a free function is chosen once for both.
MCInit == VectorInit /\ HashSetInit /\ freefn = vec.frees

MCNext == \/ setStatus = "raw" /\ VectorNext /\ UNCHANGED setVars
          \/ status = "raw" /\ HashSetNext /\ UNCHANGED vecVars

MCSpec == MCInit /\ [][MCNext]_allVars
=============================================================================
