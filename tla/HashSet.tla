------------------------------- MODULE HashSet -------------------------------
(***************************************************************************)
(* assn-3-vector-hashset/hashset.c: an array of vectors, the buckets,      *)
(* each kept sorted, and a client that enters new elements.  The client's  *)
(* hash function may return a number that is not a bucket's.               *)
(***************************************************************************)
EXTENDS Vector

CONSTANTS Hash,          \* Hash[e]: what hashfn returns for e
          BucketAlloc,   \* HEURISTIC_VEC_SIZE
          BucketCounts   \* the numBuckets arguments a client tries

\* Elements that compare equal have the same hash: the client sees to it.
ASSUME HashAssumption ==
    /\ Hash \in [Elem -> Int]
    /\ \A e, f \in Elem : Rank[e] = Rank[f] => Hash[e] = Hash[f]
    /\ BucketAlloc \in Nat \ {0}
    /\ BucketCounts \subseteq Int

VARIABLES table,      \* the buckets, from 0 on
          freefn,     \* whether the client gives a freefn
          setStatus,  \* "raw", "live", "disposed", or "aborted" by an assertion
          entered,    \* the elements the client has entered
          released    \* released[e]: how often freefn has been called on e

setVars == <<table, freefn, setStatus, entered, released>>

HashSetInit ==
    /\ table = [b \in {} |-> NewVector(BucketAlloc, FALSE)]
    /\ freefn \in BOOLEAN
    /\ setStatus = "raw"
    /\ entered = {}
    /\ released = [e \in Elem |-> 0]

SetAbort == setStatus' = "aborted" /\ UNCHANGED <<table, freefn, entered, released>>

HashSetNew(numBuckets) ==
    /\ setStatus \in {"raw", "disposed"}
    /\ \/ /\ numBuckets > 0
          /\ table' = [b \in 0..(numBuckets - 1) |-> NewVector(BucketAlloc, freefn)]
          /\ setStatus' = "live"
          /\ UNCHANGED <<freefn, entered, released>>
       \/ numBuckets <= 0 /\ SetAbort

\* The buckets and positions at which e is.
PlacesOf(e) == UNION {{<<b, i>> : i \in {j \in 0..(table[b].len - 1) : table[b].mem[j] = e}} :
                          b \in DOMAIN table}

HashSetDispose ==
    /\ setStatus = "live"
    /\ setStatus' = "disposed"
    /\ table' = [b \in {} |-> NewVector(BucketAlloc, FALSE)]
    /\ released' = IF freefn
                    THEN [e \in Elem |-> released[e] + Cardinality(PlacesOf(e))]
                    ELSE released
    /\ UNCHANGED <<freefn, entered>>

\* assertElem
HashInRange(e) == Hash[e] \in DOMAIN table

Bucket(e) == table[Hash[e]]

\* Mutant: an equal element is not looked for.
FoundNowhere(e) == -1

\* VectorSearch in the bucket.
FoundAt(e) == VectorSearch(Bucket(e), e, 0, TRUE)

\* Mutant: the new element is freed instead of the one it replaces.
ReplaceEqualFreesNew(e) ==
    /\ FoundAt(e) # -1
    /\ table' = [table EXCEPT ![Hash[e]] = Replaced(@, e, FoundAt(e))]
    /\ released' = Freed(released, table'[Hash[e]], {FoundAt(e)})

ReplaceEqual(e) ==
    /\ FoundAt(e) # -1
    /\ released' = Freed(released, Bucket(e), {FoundAt(e)})
    /\ table' = [table EXCEPT ![Hash[e]] = Replaced(@, e, FoundAt(e))]

\* Mutant: the element is appended and the bucket is not sorted again.
InsertNewAtEnd(e) ==
    /\ FoundAt(e) = -1
    /\ table' = [table EXCEPT ![Hash[e]] = Inserted(@, e, @.len)]
    /\ UNCHANGED released

\* VectorInsertSorted
InsertNew(e) ==
    /\ FoundAt(e) = -1
    /\ InsertionPoint(Bucket(e), e) \in 0..Bucket(e).len
    /\ table' = [table EXCEPT ![Hash[e]] = Inserted(@, e, InsertionPoint(@, e))]
    /\ UNCHANGED released

\* An insertion may abort for want of memory, as in VectorInsert.
EnterAborts(e) ==
    \/ ~HashInRange(e)
    \/ /\ HashInRange(e)
       /\ FoundAt(e) = -1
       /\ \/ InsertionPoint(Bucket(e), e) \notin 0..Bucket(e).len
          \/ Bucket(e).alloc = Bucket(e).len

HashSetEnter(e) ==
    /\ setStatus = "live"
    /\ e \notin entered
    /\ \/ /\ HashInRange(e)
          /\ ReplaceEqual(e) \/ InsertNew(e)
          /\ entered' = entered \cup {e}
          /\ UNCHANGED <<freefn, setStatus>>
       \/ EnterAborts(e) /\ SetAbort

HashSetNext ==
    \/ \E n \in BucketCounts : HashSetNew(n)
    \/ HashSetDispose
    \/ \E e \in Elem : HashSetEnter(e)

HashSetSpec == HashSetInit /\ [][HashSetNext]_setVars

-----------------------------------------------------------------------------
\* HashSetLookup, of an element whose hash is in range.
HashSetLookup(e) == IF FoundAt(e) = -1 THEN {} ELSE {ReadAt(Bucket(e).mem, FoundAt(e))}

\* The elements HashSetMap visits.
Members == UNION {{table[b].mem[i] : i \in 0..(table[b].len - 1)} : b \in DOMAIN table}

HashSetCount ==
    LET upTo[n \in 0..Cardinality(DOMAIN table)] ==
            IF n = 0 THEN 0 ELSE upTo[n - 1] + table[n - 1].len
    IN  upTo[Cardinality(DOMAIN table)]

\* The buckets are well-formed vectors of the kind initVectors made.
HashSetTypeOK ==
    /\ setStatus \in {"raw", "live", "disposed", "aborted"}
    /\ freefn \in BOOLEAN
    /\ entered \subseteq Elem
    /\ released \in [Elem -> Nat]
    /\ \A b \in DOMAIN table :
          /\ WellFormed(table[b])
          /\ table[b].frees = freefn
          /\ table[b].inc = BucketAlloc

\* "this function must leave vector sorted!", HashSetEnter's comment says:
\* strictly, as no two elements of a bucket compare equal; and every element
\* is in the bucket its hash names.
BucketsInOrder ==
    \A b \in DOMAIN table :
        /\ \A i, j \in 0..(table[b].len - 1) :
              i < j => Rank[table[b].mem[i]] < Rank[table[b].mem[j]]
        /\ \A i \in 0..(table[b].len - 1) : Hash[table[b].mem[i]] = b

\* An element that was entered is in the set, once; or it has left it and
\* freefn, if there is one, has been called on it once.
SetOwnership ==
    \A e \in Elem :
        /\ Cardinality(PlacesOf(e)) <= 1
        /\ e \in Members => e \in entered
        /\ released[e] = IF e \in entered /\ e \notin Members /\ freefn THEN 1 ELSE 0

\* HashSetLookup finds the element that is equal to the key, and nothing
\* only if there is none; HashSetCount counts what HashSetMap visits.
LookupFinds ==
    /\ \A e \in Elem : HashInRange(e) =>
          HashSetLookup(e) = {m \in Members : Rank[m] = Rank[e]}
    /\ HashSetCount = Cardinality(Members)

\* The hash set is a set in which an element replaces its equal.
K == INSTANCE KeyedSet WITH members <- Members
ImplementsKeyedSet == K!Spec

\* A bucket as the model of the aggregator's hash sets sees it: what an
\* element's rank is to the vector is the slot's key.
Slot(e) == [key |-> Rank[e], elem |-> e]
AsSlots(v) == [gen |-> 0, alloc |-> v.alloc,
               slots |-> [i \in 1..v.len |-> Slot(Contents(v)[i])]]
S == INSTANCE SlotTable WITH Rank <- [r \in {Rank[e] : e \in Elem} |-> r]

\* What HashSetEnter does to a bucket, searching, replacing, moving and
\* growing its array, is one of the outcomes SlotTable's Entered gives; a
\* new bucket is SlotTable's EmptyBucket.
BucketsAreSlotTables ==
    [][\A b \in DOMAIN table' :
          IF b \notin DOMAIN table THEN AsSlots(table'[b]) = S!EmptyBucket
          ELSE \/ table'[b] = table[b]
               \/ \E e \in entered' \ entered :
                     AsSlots(table'[b]) \in S!Entered(AsSlots(table[b]), Slot(e))]_setVars
=============================================================================
