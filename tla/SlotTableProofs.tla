-------------------------- MODULE SlotTableProofs --------------------------
(***************************************************************************)
(* Lemmas about the operators of SlotTable.                                *)
(***************************************************************************)
EXTENDS SlotTable, FiniteSetTheorems, TLAPS

\* The compare order gives k and the keys of these slots a rank.
Ranked(slots, k) == /\ Rank[k] \in Nat
                    /\ \A i \in DOMAIN slots : Rank[slots[i].key] \in Nat

-----------------------------------------------------------------------------
(* The first n positive numbers are n.                                      *)
LEMMA FirstNumbers ==
  ASSUME NEW n \in Nat
  PROVE  IsFiniteSet(1..n) /\ Cardinality(1..n) = n
<1>1. Cardinality(1..n) = IF 1 > n THEN 0 ELSE n - 1 + 1
  BY 1 \in Int, n \in Int, FS_Interval
<1>2. IsFiniteSet(1..n)
  BY 1 \in Int, n \in Int, FS_Interval
<1> QED BY <1>1, <1>2

(* The place of a new slot is at most one past the last.                    *)
LEMMA InsertPlaceInRange ==
  ASSUME NEW S, NEW slots \in Seq(S), NEW k
  PROVE  InsertPlace(slots, k) \in 1..(Len(slots) + 1)
<1> DEFINE Below == {i \in DOMAIN slots : Rank[slots[i].key] < Rank[k]}
<1>1. /\ Len(slots) \in Nat
      /\ DOMAIN slots = 1..Len(slots)
      /\ IsFiniteSet(1..Len(slots))
      /\ Cardinality(1..Len(slots)) = Len(slots)
  BY FirstNumbers
<1>2. /\ IsFiniteSet(Below)
      /\ Cardinality(Below) <= Len(slots)
  BY <1>1, FS_Subset, Below \subseteq 1..Len(slots)
<1>3. Cardinality(Below) \in Nat
  BY <1>2, FS_CardinalityType
<1> QED
  BY <1>2, <1>3 DEF InsertPlace

(* Inserting makes a sequence of slots of a sequence of slots.              *)
LEMMA InsertSlotType ==
  ASSUME NEW S, NEW slots \in Seq(S), NEW e \in S,
         NEW i \in 1..(Len(slots) + 1)
  PROVE  /\ InsertSlot(slots, i, e) \in Seq(S)
         /\ Len(InsertSlot(slots, i, e)) = Len(slots) + 1
         /\ DOMAIN InsertSlot(slots, i, e) = 1..(Len(slots) + 1)
         /\ InsertSlot(slots, i, e)[i] = e
         /\ \A j \in DOMAIN slots : \E k \in 1..(Len(slots) + 1) :
                InsertSlot(slots, i, e)[k] = slots[j]
         /\ \A k \in 1..(Len(slots) + 1) :
                \/ InsertSlot(slots, i, e)[k] = e
                \/ \E j \in DOMAIN slots : InsertSlot(slots, i, e)[k] = slots[j]
<1>1. \A j \in 1..(Len(slots) + 1) : j < i => j \in DOMAIN slots
  OBVIOUS
<1>2. \A j \in 1..(Len(slots) + 1) : i < j => j - 1 \in DOMAIN slots
  OBVIOUS
<1>3. InsertSlot(slots, i, e) \in [1..(Len(slots) + 1) -> S]
  BY <1>1, <1>2 DEF InsertSlot
<1>4. ASSUME NEW j \in DOMAIN slots
      PROVE  \E k \in 1..(Len(slots) + 1) : InsertSlot(slots, i, e)[k] = slots[j]
  <2>1. CASE j < i
    BY <2>1 DEF InsertSlot
  <2>2. CASE i <= j
    <3>1. j + 1 \in 1..(Len(slots) + 1) /\ (j + 1) - 1 = j
      OBVIOUS
    <3>2. InsertSlot(slots, i, e)[j + 1] = slots[j]
      BY <2>2, <3>1 DEF InsertSlot
    <3> QED BY <3>1, <3>2
  <2> QED BY <2>1, <2>2
<1>5. \A k \in 1..(Len(slots) + 1) :
          \/ InsertSlot(slots, i, e)[k] = e
          \/ \E j \in DOMAIN slots : InsertSlot(slots, i, e)[k] = slots[j]
  BY <1>1, <1>2 DEF InsertSlot
<1> QED BY <1>3, <1>4, <1>5 DEF InsertSlot

(* In a sorted bucket, the slots before the place of a new slot are those   *)
(* that the order puts before it: the insertion point of VectorInsertSorted.*)
LEMMA InsertPlaceSplits ==
  ASSUME NEW S, NEW slots \in Seq(S), NEW k, Ranked(slots, k), Sorted(slots)
  PROVE  \A j \in DOMAIN slots :
             Rank[slots[j].key] < Rank[k] <=> j < InsertPlace(slots, k)
<1> DEFINE R(i) == Rank[slots[i].key]
           Below == {i \in DOMAIN slots : R(i) < Rank[k]}
<1>1. DOMAIN slots = 1..Len(slots) /\ Len(slots) \in Nat
  OBVIOUS
<1>2. Rank[k] \in Nat /\ \A i \in DOMAIN slots : R(i) \in Nat
  BY DEF Ranked
<1>3. IsFiniteSet(Below) /\ Cardinality(Below) \in Nat
  <2>1. IsFiniteSet(1..Len(slots))
    BY <1>1, FirstNumbers
  <2>2. Below \subseteq 1..Len(slots)
    BY <1>1
  <2> QED BY <2>1, <2>2, FS_Subset, FS_CardinalityType
<1>4. InsertPlace(slots, k) = Cardinality(Below) + 1
  BY DEF InsertPlace
<1>5. ASSUME NEW j \in Below PROVE j <= Cardinality(Below)
  <2>1. j \in Nat
    BY <1>1
  <2>2. ASSUME NEW i \in 1..j PROVE i \in Below
    <3>1. i \in 1..Len(slots) /\ j \in 1..Len(slots) /\ R(j) < Rank[k]
      BY <1>1
    <3>2. i < j => R(i) < R(j)
      BY <3>1, <1>1 DEF Sorted
    <3>3. R(i) \in Nat /\ R(j) \in Nat /\ Rank[k] \in Nat
      BY <1>1, <1>2, <3>1
    <3>4. R(i) < Rank[k]
      <4> HIDE DEF R
      <4> QED BY <3>1, <3>2, <3>3
    <3> QED BY <1>1, <3>1, <3>4
  <2>3. Cardinality(1..j) = j
    BY <2>1, FirstNumbers
  <2>4. 1..j \subseteq Below
    BY <2>2
  <2> HIDE DEF Below
  <2> QED BY <1>3, <2>3, <2>4, FS_Subset
<1>6. ASSUME NEW j \in DOMAIN slots, j \notin Below PROVE Cardinality(Below) <= j - 1
  <2>1. j - 1 \in Nat
    BY <1>1
  <2>2. ASSUME NEW i \in Below PROVE i \in 1..(j - 1)
    <3>1. i \in 1..Len(slots) /\ R(i) < Rank[k] /\ ~(R(j) < Rank[k])
      BY <1>1, <1>6
    <3>2. j < i => R(j) < R(i)
      BY <3>1, <1>1 DEF Sorted
    <3>3. R(i) \in Nat /\ R(j) \in Nat /\ Rank[k] \in Nat
      BY <1>1, <1>2, <3>1
    <3> HIDE DEF R
    <3> QED BY <1>1, <1>6, <3>1, <3>2, <3>3
  <2>3. IsFiniteSet(1..(j - 1)) /\ Cardinality(1..(j - 1)) = j - 1
    BY <2>1, FirstNumbers
  <2>4. Below \subseteq 1..(j - 1)
    BY <2>2
  <2> HIDE DEF Below
  <2> QED BY <2>3, <2>4, FS_Subset
<1>7. \A j \in DOMAIN slots : R(j) < Rank[k] <=> j \in Below
  OBVIOUS
<1> HIDE DEF R, Below
<1>8. \A j \in DOMAIN slots : j \in Below <=> j < Cardinality(Below) + 1
  BY <1>1, <1>3, <1>5, <1>6
<1> QED BY <1>4, <1>7, <1>8 DEF R

(* Inserting a server that is absent there leaves a sorted bucket.          *)
LEMMA InsertKeepsOrder ==
  ASSUME NEW S, NEW slots \in Seq(S), NEW e \in S,
         Ranked(slots, e.key), Sorted(slots),
         \A i \in DOMAIN slots : Rank[slots[i].key] # Rank[e.key]
  PROVE  Sorted(InsertSlot(slots, InsertPlace(slots, e.key), e))
<1> DEFINE p == InsertPlace(slots, e.key)
           new == InsertSlot(slots, p, e)
<1>1. p \in 1..(Len(slots) + 1)
  BY InsertPlaceInRange
<1>2. \A j \in DOMAIN slots : Rank[slots[j].key] < Rank[e.key] <=> j < p
  BY InsertPlaceSplits
<1>3. /\ Rank[e.key] \in Nat
      /\ \A j \in DOMAIN slots : Rank[slots[j].key] \in Nat
      /\ \A j \in DOMAIN slots : Rank[slots[j].key] # Rank[e.key]
  BY DEF Ranked
<1>4. /\ DOMAIN slots = 1..Len(slots)
      /\ Len(slots) \in Nat
  OBVIOUS
<1>5. /\ DOMAIN new = 1..(Len(slots) + 1)
      /\ \A j \in DOMAIN new :
            new[j] = IF j < p THEN slots[j] ELSE IF j = p THEN e ELSE slots[j - 1]
  BY <1>4 DEF InsertSlot
<1> HIDE DEF p, new
<1>6. SUFFICES ASSUME NEW i \in DOMAIN new, NEW j \in DOMAIN new, i < j
               PROVE  Rank[new[i].key] < Rank[new[j].key]
  BY DEF new, p, Sorted
<1>7. CASE j < p
  <2>1. /\ new[i] = slots[i] /\ i \in DOMAIN slots
        /\ new[j] = slots[j] /\ j \in DOMAIN slots
    BY <1>1, <1>4, <1>5, <1>6, <1>7
  <2> QED BY <1>6, <2>1 DEF Sorted
<1>8. CASE j = p
  <2>1. new[j] = e /\ new[i] = slots[i] /\ i \in DOMAIN slots /\ i < p
    BY <1>1, <1>4, <1>5, <1>6, <1>8
  <2> QED BY <1>2, <2>1
<1>9. CASE p < j /\ i = p
  <2>1. new[i] = e /\ new[j] = slots[j - 1] /\ j - 1 \in DOMAIN slots /\ ~(j - 1 < p)
    BY <1>1, <1>4, <1>5, <1>6, <1>9
  <2> QED BY <1>2, <1>3, <2>1
<1>10. CASE p < j /\ i < p
  <2>1. /\ new[i] = slots[i] /\ i \in DOMAIN slots
        /\ new[j] = slots[j - 1] /\ j - 1 \in DOMAIN slots
        /\ i < j - 1 \/ i = j - 1
        /\ ~(j - 1 < p)
    BY <1>1, <1>4, <1>5, <1>6, <1>10
  <2> QED BY <1>10, <2>1 DEF Sorted
<1>11. CASE p < j /\ p < i
  <2>1. /\ new[i] = slots[i - 1] /\ i - 1 \in DOMAIN slots
        /\ new[j] = slots[j - 1] /\ j - 1 \in DOMAIN slots
        /\ i - 1 < j - 1
    BY <1>1, <1>4, <1>5, <1>6, <1>11
  <2> QED BY <2>1 DEF Sorted
<1> QED BY <1>1, <1>4, <1>5, <1>6, <1>7, <1>8, <1>9, <1>10, <1>11

-----------------------------------------------------------------------------
BucketOf(S) == [gen : Nat, alloc : Nat, slots : Seq(S)]

(* The place of a key that is there is one of its places.                   *)
LEMMA PlaceOfPresent ==
  ASSUME NEW S, NEW slots \in Seq(S), NEW k, Places(slots, k) # {}
  PROVE  /\ PlaceOf(slots, k) \in DOMAIN slots
         /\ PlaceOf(slots, k) \in Nat \ {0}
         /\ slots[PlaceOf(slots, k)].key = k
<1>1. PlaceOf(slots, k) \in Places(slots, k)
  BY DEF PlaceOf
<1> QED BY <1>1 DEF Places

(* HashSetEnter leaves a bucket that holds the element and, but for the one *)
(* it replaced, what was there: at most one slot more.                      *)
LEMMA EnteredBucket ==
  ASSUME NEW S, NEW b \in BucketOf(S), NEW e \in S, NEW c \in Entered(b, e)
  PROVE  /\ c \in BucketOf(S)
         /\ Len(c.slots) <= Len(b.slots) + 1
         /\ c.alloc >= b.alloc
         /\ \E k \in DOMAIN c.slots : c.slots[k] = e
         /\ \A k \in DOMAIN c.slots : \/ c.slots[k] = e
                                      \/ \E j \in DOMAIN b.slots : c.slots[k] = b.slots[j]
<1> DEFINE old == b.slots
<1>1. old \in Seq(S) /\ b.alloc \in Nat /\ b.gen \in Nat /\ BucketAlloc \in Nat
  BY AllocAssumption DEF BucketOf
<1>2. CASE Places(old, e.key) # {}
  <2> DEFINE p == PlaceOf(old, e.key)
             new == ReplaceSlot(old, p, e)
  <2>1. p \in DOMAIN old
    BY <1>1, <1>2, PlaceOfPresent
  <2>2. c = [b EXCEPT !.slots = new]
    BY <1>2 DEF Entered
  <2>3. /\ new \in Seq(S) /\ DOMAIN new = DOMAIN old /\ Len(new) = Len(old)
        /\ new[p] = e
        /\ \A k \in DOMAIN old : k # p => new[k] = old[k]
    BY <1>1, <2>1 DEF ReplaceSlot
  <2> HIDE DEF p, new
  <2>4. c \in BucketOf(S) /\ c.slots = new /\ c.alloc = b.alloc
    BY <2>2, <2>3 DEF BucketOf
  <2> QED BY <1>1, <2>1, <2>3, <2>4
<1>3. CASE ~(Places(old, e.key) # {})
  <2> DEFINE p == InsertPlace(old, e.key)
             new == InsertSlot(old, p, e)
  <2>1. p \in 1..(Len(old) + 1)
    BY <1>1, InsertPlaceInRange
  <2>2. /\ new \in Seq(S) /\ Len(new) = Len(old) + 1
        /\ DOMAIN new = 1..(Len(old) + 1)
        /\ new[p] = e
        /\ \A k \in 1..(Len(old) + 1) : \/ new[k] = e
                                        \/ \E j \in DOMAIN old : new[k] = old[j]
    <3> HIDE DEF p
    <3> QED BY <1>1, <2>1, InsertSlotType
  <2>3. c \in BucketWith(b, e)
    BY <1>3 DEF Entered
  <2>4. c \in BucketOf(S) /\ c.slots = new /\ c.alloc >= b.alloc
    <3> HIDE DEF p
    <3>1. new = InsertSlot(b.slots, InsertPlace(b.slots, e.key), e)
      BY DEF p
    <3> HIDE DEF new
    <3> QED BY <1>1, <2>2, <2>3, <3>1 DEF BucketWith, BucketOf
  <2> HIDE DEF p, new
  <2> QED BY <1>1, <2>1, <2>2, <2>4
<1> QED BY <1>2, <1>3
=============================================================================
