----------------------------- MODULE SlotTable -----------------------------
(***************************************************************************)
(* A bucket of the hash set of assn-3-vector-hashset: a vector whose       *)
(* elements HashSetEnter keeps sorted.  An element is a slot, a record     *)
(* with a field `key' that says all the compare function looks at.         *)
(* `gen' tells apart the arrays that realloc gave the vector one after the *)
(* other, `alloc' is its allocLen.                                         *)
(***************************************************************************)
EXTENDS Integers, Sequences, FiniteSets

CONSTANTS Rank,         \* Rank[k]: the place of key k in the compare order
          BucketAlloc   \* HEURISTIC_VEC_SIZE: slots a bucket grows by

ASSUME AllocAssumption == BucketAlloc \in Nat \ {0}

EmptyBucket == [gen |-> 0, alloc |-> BucketAlloc, slots |-> <<>>]

Places(slots, k) == {i \in DOMAIN slots : slots[i].key = k}

\* The index VectorSearch returns for a key that is present.
PlaceOf(slots, k) == CHOOSE i \in Places(slots, k) : TRUE

\* The order and the uniqueness bsearch relies on.
Sorted(slots) == \A i, j \in DOMAIN slots :
    i < j => Rank[slots[i].key] < Rank[slots[j].key]

ReplaceSlot(slots, i, e) == [slots EXCEPT ![i] = e]

InsertSlot(slots, i, e) ==
    [j \in 1..(Len(slots) + 1) |->
        IF j < i THEN slots[j] ELSE IF j = i THEN e ELSE slots[j - 1]]

\* Mutant: the element is appended and the bucket is not sorted again.
InsertPlaceAtEnd(slots, k) == Len(slots) + 1

InsertPlace(slots, k) ==
    Cardinality({i \in DOMAIN slots : Rank[slots[i].key] < Rank[k]}) + 1

Saturated(b) == b.alloc = Len(b.slots)

\* VectorInsertSorted; realloc may extend the array where it is or move it.
BucketWith(b, e) ==
    LET grown == InsertSlot(b.slots, InsertPlace(b.slots, e.key), e)
    IN  IF Saturated(b)
        THEN {[gen |-> g, alloc |-> b.alloc + BucketAlloc, slots |-> grown] :
                  g \in {b.gen, b.gen + 1}}
        ELSE {[b EXCEPT !.slots = grown]}

\* Mutant: the element is inserted without a search for an equal one.
EnteredAgain(b, e) == BucketWith(b, e)

\* HashSetEnter: an equal element is replaced where it is (its resources
\* are freed), another is inserted at its place in the order.
Entered(b, e) ==
    IF Places(b.slots, e.key) # {}
    THEN {[b EXCEPT !.slots = ReplaceSlot(b.slots, PlaceOf(b.slots, e.key), e)]}
    ELSE BucketWith(b, e)
=============================================================================
