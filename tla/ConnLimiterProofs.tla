------------------------- MODULE ConnLimiterProofs -------------------------
(***************************************************************************)
(* Proofs about ConnLimiter, for any threads, servers, hash function and   *)
(* limits.                                                                 *)
(***************************************************************************)
EXTENDS ConnLimiter, SlotTableProofs

USE ThreadsAssumption, LimitsAssumption, HashAssumption, AllocAssumption

-----------------------------------------------------------------------------
(* The address of a server that is present is a pointer to its entry.       *)
LEMMA AddressOfPresent ==
  ASSUME TypeOK, NEW s \in Servers, Present(s)
  PROVE  /\ AddressOf(s) \in Pointer
         /\ PointsTo(AddressOf(s), s)
         /\ AddressOf(s).bucket = Hash[s]
         /\ AddressOf(s).pos \in DOMAIN Slots(s)
<1>1. PICK i \in PlacesOf(s) : i = CHOOSE j \in PlacesOf(s) : TRUE
  BY DEF Present
<1>2. /\ i \in DOMAIN Slots(s)
      /\ Slots(s)[i].key = s
  BY DEF PlacesOf, Places
<1>3. Hash[s] \in Buckets /\ table[Hash[s]] \in Bucket
  BY DEF TypeOK
<1>4. Slots(s) \in Seq(Slot)
  BY <1>3 DEF Slots, Bucket
<1>5. i \in Nat \ {0}
  BY <1>2, <1>4
<1>6. AddressOf(s) = [bucket |-> Hash[s], gen |-> table[Hash[s]].gen, pos |-> i]
  BY <1>1 DEF AddressOf, PlaceOf, PlacesOf
<1> QED
  BY <1>2, <1>3, <1>5, <1>6 DEF Pointer, Bucket, PointsTo, Allocated, Slots


(* The order gives each slot a rank, and that of s to no other server.      *)
LEMMA SlotRank ==
  ASSUME NEW slots \in Seq(Slot), NEW s \in Servers
  PROVE  /\ Rank[s] \in Nat
         /\ \A i \in DOMAIN slots : /\ Rank[slots[i].key] \in Nat
                                    /\ slots[i].key # s =>
                                          Rank[slots[i].key] # Rank[s]
<1>1. Rank[s] \in Nat /\ \A r \in Servers : Rank[r] \in Nat /\ (r # s => Rank[r] # Rank[s])
  BY RankAssumption
<1>2. ASSUME NEW i \in DOMAIN slots PROVE slots[i].key \in Servers
  <2>1. slots[i] \in Slot
    OBVIOUS
  <2> QED BY <2>1 DEF Slot
<1> QED BY <1>1, <1>2

(* TSHashSetEnter of a server that is present makes a new semaphore in the  *)
(* slot of the old one, and moves nothing.                                  *)
LEMMA EnterReplaces ==
  ASSUME TypeOK, NEW s \in Servers, HashSetEnter(s), Present(s)
  PROVE  /\ table' \in [Buckets -> Bucket]
         /\ table'[Hash[s]].slots[AddressOf(s).pos] = NewSlot(s)
         /\ \A b \in Buckets :
               /\ b # Hash[s] => table'[b] = table[b]
               /\ table'[b].gen = table[b].gen
               /\ table'[b].alloc = table[b].alloc
               /\ DOMAIN table'[b].slots = DOMAIN table[b].slots
               /\ \A j \in DOMAIN table[b].slots :
                     table'[b].slots[j].key = table[b].slots[j].key
<1> DEFINE h == Hash[s]
           old == table[h].slots
           i == AddressOf(s).pos
           new == ReplaceSlot(old, i, NewSlot(s))
<1>1. /\ h \in Buckets
      /\ table[h] \in Bucket
      /\ old \in Seq(Slot)
  BY DEF TypeOK, Bucket
<1>2. NewSlot(s) \in Slot
  BY DEF NewSlot, Slot
<1>3. i \in DOMAIN old /\ old[i].key = s
  BY AddressOfPresent DEF PointsTo, Slots
<1>4. /\ new \in Seq(Slot)
      /\ DOMAIN new = DOMAIN old
      /\ new[i] = NewSlot(s)
      /\ \A j \in DOMAIN old : new[j].key = old[j].key
  BY <1>1, <1>2, <1>3 DEF ReplaceSlot, NewSlot
<1>5. table' = [table EXCEPT ![h] = [table[h] EXCEPT !.slots = new]]
  BY DEF HashSetEnter, Entered, AddressOf, Present, PlacesOf, Slots, NewSlot
<1> HIDE DEF new
<1>6. /\ table' \in [Buckets -> Bucket]
      /\ table'[h].slots = new
      /\ table'[h].gen = table[h].gen
      /\ table'[h].alloc = table[h].alloc
      /\ \A b \in Buckets \ {h} : table'[b] = table[b]
  BY <1>1, <1>4, <1>5 DEF Bucket, TypeOK
<1> QED BY <1>3, <1>4, <1>6

(* TSHashSetEnter of a server that is absent inserts a slot for it, and     *)
(* gives the bucket a new array only if the old one is full.                *)
LEMMA EnterInserts ==
  ASSUME TypeOK, NEW s \in Servers, HashSetEnter(s), ~Present(s)
  PROVE  LET old == table[Hash[s]].slots
             new == table'[Hash[s]].slots
         IN  /\ table' \in [Buckets -> Bucket]
             /\ \A b \in Buckets \ {Hash[s]} : table'[b] = table[b]
             /\ table'[Hash[s]].alloc >= table[Hash[s]].alloc
             /\ ~Saturated(table[Hash[s]]) => table'[Hash[s]].gen = table[Hash[s]].gen
             /\ Len(new) = Len(old) + 1
             /\ \E i \in DOMAIN new : new[i] = NewSlot(s)
             /\ \A j \in DOMAIN old : \E k \in DOMAIN new : new[k] = old[j]
             /\ \A k \in DOMAIN new : \/ new[k] = NewSlot(s)
                                      \/ \E j \in DOMAIN old : new[k] = old[j]
<1> DEFINE h == Hash[s]
           old == table[h].slots
           i == InsertPlace(old, s)
           new == InsertSlot(old, i, NewSlot(s))
<1>1. /\ h \in Buckets
      /\ table[h] \in Bucket
      /\ old \in Seq(Slot)
  BY DEF TypeOK, Bucket
<1>2. NewSlot(s) \in Slot /\ NewSlot(s).key = s
  BY DEF NewSlot, Slot
<1>3. i \in 1..(Len(old) + 1)
  BY <1>1, InsertPlaceInRange
<1>4. /\ new \in Seq(Slot)
      /\ Len(new) = Len(old) + 1
      /\ DOMAIN new = 1..(Len(old) + 1)
      /\ new[i] = NewSlot(s)
      /\ \A j \in DOMAIN old : \E k \in 1..(Len(old) + 1) : new[k] = old[j]
      /\ \A k \in 1..(Len(old) + 1) : \/ new[k] = NewSlot(s)
                                      \/ \E j \in DOMAIN old : new[k] = old[j]
  <2> HIDE DEF old, i
  <2> QED BY <1>1, <1>2, <1>3, InsertSlotType
<1>5. PICK b \in BucketWith(table[h], NewSlot(s)) : table' = [table EXCEPT ![h] = b]
  BY DEF HashSetEnter, Entered, Present, PlacesOf, Slots, NewSlot
<1>6. /\ b \in Bucket
      /\ b.slots = new
      /\ b.alloc >= table[h].alloc
      /\ ~Saturated(table[h]) => b.gen = table[h].gen
  <2>1. new = InsertSlot(old, InsertPlace(old, NewSlot(s).key), NewSlot(s))
    BY <1>2
  <2>2. new \in Seq(Slot)
    BY <1>4
  <2> HIDE DEF new
  <2>3. CASE Saturated(table[h])
    BY <1>1, <1>5, <2>1, <2>2, <2>3 DEF BucketWith, Bucket
  <2>4. CASE ~Saturated(table[h])
    BY <1>1, <1>5, <2>1, <2>2, <2>4 DEF BucketWith, Bucket
  <2> QED BY <2>3, <2>4
<1>7. /\ table' \in [Buckets -> Bucket]
      /\ table'[h] = b
      /\ \A c \in Buckets \ {h} : table'[c] = table[c]
  BY <1>1, <1>5, <1>6 DEF TypeOK
<1> HIDE DEF i, new
<1> QED BY <1>3, <1>4, <1>6, <1>7

(* TSHashSetEnter leaves a table of buckets in which s is present, and      *)
(* every server that was.                                                   *)
LEMMA EnterEffect ==
  ASSUME TypeOK, NEW s \in Servers, HashSetEnter(s)
  PROVE  /\ table' \in [Buckets -> Bucket]
         /\ \A b \in Buckets \ {Hash[s]} : table'[b] = table[b]
         /\ Present(s)'
         /\ \A r \in Servers : Present(r) => Present(r)'
         /\ \A r \in Servers \ {s} : Present(r)' => Present(r)
         /\ EntriesAtHome => EntriesAtHome'
<1>1. CASE Present(s)
  <2>1. /\ table' \in [Buckets -> Bucket]
        /\ \A b \in Buckets :
               /\ b # Hash[s] => table'[b] = table[b]
               /\ table'[b].alloc = table[b].alloc
               /\ DOMAIN table'[b].slots = DOMAIN table[b].slots
               /\ \A j \in DOMAIN table[b].slots :
                     table'[b].slots[j].key = table[b].slots[j].key
    BY <1>1, EnterReplaces
  <2>2. ASSUME NEW r \in Servers PROVE PlacesOf(r)' = PlacesOf(r)
    <3>1. Hash[r] \in Buckets
      OBVIOUS
    <3> QED BY <2>1, <3>1 DEF PlacesOf, Places, Slots
  <2> QED BY <1>1, <2>1, <2>2 DEF Present, EntriesAtHome
<1>2. CASE ~Present(s)
  <2> DEFINE h == Hash[s]
             old == table[h].slots
             new == table'[h].slots
  <2>1. /\ table' \in [Buckets -> Bucket]
        /\ \A b \in Buckets \ {h} : table'[b] = table[b]
        /\ table'[h].alloc >= table[h].alloc
        /\ \E i \in DOMAIN new : new[i] = NewSlot(s)
        /\ \A j \in DOMAIN old : \E k \in DOMAIN new : new[k] = old[j]
        /\ \A k \in DOMAIN new : \/ new[k] = NewSlot(s)
                                 \/ \E j \in DOMAIN old : new[k] = old[j]
    BY <1>2, EnterInserts
  <2>2. NewSlot(s).key = s /\ h \in Buckets /\ \A r \in Servers : Hash[r] \in Buckets
    BY DEF NewSlot
  <2>3. Present(s)'
    BY <2>1, <2>2 DEF Present, PlacesOf, Places, Slots
  <2>4. ASSUME NEW r \in Servers, Present(r) PROVE Present(r)'
    <3>1. CASE Hash[r] = h
      BY <2>1, <2>4, <3>1 DEF Present, PlacesOf, Places, Slots
    <3>2. CASE Hash[r] # h
      BY <2>1, <2>2, <2>4, <3>2 DEF Present, PlacesOf, Places, Slots
    <3> QED BY <3>1, <3>2
  <2>5. ASSUME NEW r \in Servers \ {s}, Present(r)' PROVE Present(r)
    <3>1. CASE Hash[r] = h
      BY <2>1, <2>2, <2>5, <3>1 DEF Present, PlacesOf, Places, Slots
    <3>2. CASE Hash[r] # h
      BY <2>1, <2>2, <2>5, <3>2 DEF Present, PlacesOf, Places, Slots
    <3> QED BY <3>1, <3>2
  <2>6. ASSUME EntriesAtHome PROVE EntriesAtHome'
    <3> SUFFICES ASSUME NEW b \in Buckets
                 PROVE  /\ table'[b].alloc >= BucketAlloc
                        /\ \A i \in DOMAIN table'[b].slots :
                               Hash[table'[b].slots[i].key] = b
      BY DEF EntriesAtHome
    <3>1. CASE b = h
      <4>1. /\ table[h].alloc >= BucketAlloc
            /\ \A j \in DOMAIN old : Hash[old[j].key] = h
        BY <2>2, <2>6 DEF EntriesAtHome
      <4>2. table[h].alloc \in Nat /\ table'[h].alloc \in Nat
        BY <2>1, <2>2 DEF TypeOK, Bucket
      <4> QED BY <2>1, <2>2, <3>1, <4>1, <4>2
    <3>2. CASE b # h
      BY <2>1, <2>6, <3>2 DEF EntriesAtHome
    <3> QED BY <3>1, <3>2
  <2> QED BY <2>1, <2>3, <2>4, <2>5, <2>6
<1> QED BY <1>1, <1>2

(* A sem_wait or sem_post through an allocated pointer changes the value of *)
(* the semaphore in the slot it points to and nothing else.                 *)
LEMMA SemUpdate ==
  ASSUME TypeOK, NEW p \in Pointer, Allocated(p), NEW n \in Nat,
         table' = [table EXCEPT ![p.bucket].slots[p.pos].sem = n]
  PROVE  /\ table' \in [Buckets -> Bucket]
         /\ \A b \in Buckets :
               /\ table'[b].gen = table[b].gen
               /\ table'[b].alloc = table[b].alloc
               /\ DOMAIN table'[b].slots = DOMAIN table[b].slots
               /\ \A i \in DOMAIN table[b].slots :
                     table'[b].slots[i] =
                        IF b = p.bucket /\ i = p.pos
                        THEN [key |-> table[b].slots[i].key, sem |-> n]
                        ELSE table[b].slots[i]
<1> DEFINE h == p.bucket
           i == p.pos
           old == table[h].slots
           new == [old EXCEPT ![i] = [old[i] EXCEPT !.sem = n]]
<1>1. /\ h \in Buckets
      /\ table[h] \in Bucket
      /\ old \in Seq(Slot)
      /\ i \in DOMAIN old
      /\ old[i] \in Slot
  BY DEF TypeOK, Bucket, Pointer, Allocated
<1>2. [old[i] EXCEPT !.sem = n] = [key |-> old[i].key, sem |-> n]
  BY <1>1 DEF Slot
<1>3. [old[i] EXCEPT !.sem = n] \in Slot
  BY <1>1 DEF Slot
<1>4. new \in Seq(Slot) /\ DOMAIN new = DOMAIN old
  BY <1>1, <1>3
<1>5. table' = [table EXCEPT ![h] = [table[h] EXCEPT !.slots = new]]
  OBVIOUS
<1>6. /\ table'[h] \in Bucket
      /\ table'[h].slots = new
      /\ table'[h].gen = table[h].gen
      /\ table'[h].alloc = table[h].alloc
  <2>1. table'[h] = [table[h] EXCEPT !.slots = new]
    BY <1>1, <1>5 DEF TypeOK
  <2> HIDE DEF new
  <2> QED BY <1>1, <1>4, <2>1 DEF Bucket
<1>7. \A b \in Buckets \ {h} : table'[b] = table[b]
  BY <1>5 DEF TypeOK
<1>8. table' \in [Buckets -> Bucket]
  BY <1>5, <1>6, <1>7 DEF TypeOK
<1>9. \A j \in DOMAIN old :
         new[j] = IF j = i THEN [key |-> old[j].key, sem |-> n] ELSE old[j]
  BY <1>1, <1>2
<1> QED BY <1>1, <1>4, <1>6, <1>7, <1>8, <1>9

(* The slot p points to holds the new value afterwards.                     *)
LEMMA SemUpdated ==
  ASSUME TypeOK, NEW p \in Pointer, Allocated(p), NEW n \in Nat,
         table' = [table EXCEPT ![p.bucket].slots[p.pos].sem = n]
  PROVE  table'[p.bucket].slots[p.pos].sem = n
<1> DEFINE old == table[p.bucket].slots
<1>1. /\ p.bucket \in Buckets
      /\ table[p.bucket] \in Bucket
      /\ old \in Seq(Slot)
      /\ p.pos \in DOMAIN old
      /\ old[p.pos] \in Slot
  BY DEF TypeOK, Bucket, Pointer, Allocated
<1>2. table'[p.bucket]
        = [table[p.bucket] EXCEPT !.slots =
              [old EXCEPT ![p.pos] = [old[p.pos] EXCEPT !.sem = n]]]
  BY <1>1 DEF TypeOK
<1>3. table'[p.bucket].slots = [old EXCEPT ![p.pos] = [old[p.pos] EXCEPT !.sem = n]]
  BY <1>1, <1>2 DEF Bucket
<1>4. table'[p.bucket].slots[p.pos] = [old[p.pos] EXCEPT !.sem = n]
  BY <1>1, <1>3
<1> QED BY <1>1, <1>4 DEF Slot

(* The value of a semaphore is a natural number.                            *)
LEMMA SemIsNat ==
  ASSUME TypeOK, NEW p \in Pointer, Allocated(p)
  PROVE  SemAt(p) \in Nat
<1>1. table[p.bucket].slots \in Seq(Slot)
  BY DEF TypeOK, Bucket, Pointer
<1>2. table[p.bucket].slots[p.pos] \in Slot
  BY <1>1 DEF Allocated
<1> QED BY <1>2 DEF SemAt, Slot

(* So a sem_wait or sem_post keeps every entry where it is.                 *)
LEMMA SemUpdateKeeps ==
  ASSUME TypeOK, NEW p \in Pointer, NEW n \in Nat,
         table' = IF Allocated(p)
                  THEN [table EXCEPT ![p.bucket].slots[p.pos].sem = n]
                  ELSE table
  PROVE  /\ table' \in [Buckets -> Bucket]
         /\ \A s \in Servers : /\ Present(s)' <=> Present(s)
                               /\ Len(Slots(s))' = Len(Slots(s))
                               /\ \A q \in Pointer : PointsTo(q, s)' <=> PointsTo(q, s)
         /\ EntriesAtHome => EntriesAtHome'
<1>1. CASE ~Allocated(p)
  BY <1>1 DEF TypeOK, Present, PlacesOf, Places, Slots, PointsTo, Allocated, EntriesAtHome
<1>2. CASE Allocated(p)
  <2>1. /\ table' \in [Buckets -> Bucket]
        /\ \A b \in Buckets :
              /\ table'[b].gen = table[b].gen
              /\ table'[b].alloc = table[b].alloc
              /\ DOMAIN table'[b].slots = DOMAIN table[b].slots
              /\ \A i \in DOMAIN table[b].slots :
                    table'[b].slots[i].key = table[b].slots[i].key
    <3>1. table' = [table EXCEPT ![p.bucket].slots[p.pos].sem = n]
      BY <1>2
    <3>2. /\ table' \in [Buckets -> Bucket]
          /\ \A b \in Buckets :
                /\ table'[b].gen = table[b].gen
                /\ table'[b].alloc = table[b].alloc
                /\ DOMAIN table'[b].slots = DOMAIN table[b].slots
                /\ \A i \in DOMAIN table[b].slots :
                      table'[b].slots[i] =
                         IF b = p.bucket /\ i = p.pos
                         THEN [key |-> table[b].slots[i].key, sem |-> n]
                         ELSE table[b].slots[i]
      BY <1>2, <3>1, SemUpdate
    <3>3. \A b \in Buckets : \A i \in DOMAIN table[b].slots :
              table'[b].slots[i].key = table[b].slots[i].key
      BY <3>2
    <3> QED BY <3>2, <3>3
  <2>2. ASSUME NEW s \in Servers
        PROVE  /\ Present(s)' <=> Present(s)
               /\ \A q \in Pointer : PointsTo(q, s)' <=> PointsTo(q, s)
    BY <2>1 DEF Present, PlacesOf, Places, Slots, PointsTo, Allocated, Pointer
  <2>3. ASSUME NEW s \in Servers
        PROVE  Len(Slots(s))' = Len(Slots(s))
    <3>1. /\ Slots(s) \in Seq(Slot)
          /\ Slots(s)' \in Seq(Slot)
          /\ DOMAIN Slots(s)' = DOMAIN Slots(s)
      BY <2>1 DEF Slots, TypeOK, Bucket
    <3> QED BY <3>1
  <2> QED BY <2>1, <2>2, <2>3 DEF EntriesAtHome
<1> QED BY <1>1, <1>2

(* What an action that leaves the table alone keeps.                        *)
LEMMA SameTable ==
  ASSUME UNCHANGED table
  PROVE  /\ \A s \in Servers : /\ Present(s)' <=> Present(s)
                               /\ Slots(s)' = Slots(s)
                               /\ \A q \in Pointer : PointsTo(q, s)' <=> PointsTo(q, s)
         /\ EntriesAtHome => EntriesAtHome'
         /\ OneSlot => OneSlot'
  BY DEF Present, PlacesOf, Places, Slots, PointsTo, Allocated, EntriesAtHome, OneSlot

(* In a bucket that no other server shares, an absent server finds no slot. *)
LEMMA AloneAbsent ==
  ASSUME TypeOK, EntriesAtHome, NEW s \in Servers, Alone(s), ~Present(s)
  PROVE  /\ Slots(s) = <<>>
         /\ ~Saturated(table[Hash[s]])
<1>1. /\ Slots(s) \in Seq(Slot)
      /\ Hash[s] \in Buckets
      /\ table[Hash[s]].alloc \in Nat
  BY DEF TypeOK, Bucket, Slots
<1>2. ASSUME NEW i \in DOMAIN Slots(s) PROVE FALSE
  <2>1. Slots(s)[i] \in Slot
    BY <1>1, <1>2
  <2>2. Slots(s)[i].key \in Servers
    BY <2>1 DEF Slot
  <2>3. Hash[Slots(s)[i].key] = Hash[s]
    BY <1>1, <1>2 DEF EntriesAtHome, Slots
  <2> QED BY <1>2, <2>2, <2>3 DEF Alone, Present, PlacesOf, Places
<1>3. Slots(s) = <<>> /\ Len(Slots(s)) = 0
  <2>1. Len(Slots(s)) \in Nat /\ DOMAIN Slots(s) = 1..Len(Slots(s))
    BY <1>1
  <2>2. Len(Slots(s)) = 0
    BY <1>2, <2>1
  <2> QED BY <1>1, <2>2
<1>4. table[Hash[s]].alloc >= BucketAlloc
  BY <1>1 DEF EntriesAtHome
<1> QED BY <1>1, <1>3, <1>4 DEF Saturated, Slots

-----------------------------------------------------------------------------
(* The factory starts with an empty table and every thread outside it.      *)
LEMMA TableInvInit == Init => TableInv
<1> SUFFICES ASSUME Init PROVE TableInv
  OBVIOUS
<1>1. table \in [Buckets -> Bucket]
  BY DEF Init, EmptyBucket, Bucket
<1>2. TypeOK
  BY <1>1 DEF Init, TypeOK, PCs
<1>3. \A s \in Servers : Slots(s) = <<>> /\ ~Present(s)
  BY DEF Init, Slots, Present, PlacesOf, Places, EmptyBucket
<1>4. EntriesAtHome
  BY DEF Init, EntriesAtHome, EmptyBucket
<1> QED
  BY <1>2, <1>3, <1>4 DEF Init, TableInv, TargetKnown, AssertionsHold, Registered,
     EntriesCounted, OneSlot, PointersLocated

(* A step that changes neither the table nor a pointer, and moves one       *)
(* thread to a place that asks for nothing new.                             *)
LEMMA QuietStep ==
  ASSUME TableInv, NEW t \in Threads, NEW label \in PCs,
         pc' = [pc EXCEPT ![t] = label],
         UNCHANGED <<table, target, scs, entered>>,
         live' \in BOOLEAN, totSem' \in Nat,
         pc[t] # "idle",
         label \in {"lookup", "enter", "postTotal", "lookupPost"},
         label \in {"postTotal", "lookupPost"} => pc[t] \in {"open", "postTotal"}
  PROVE  TableInv'
<1>1. TypeOK'
  BY DEF TableInv, TypeOK
<1>2. /\ \A s \in Servers : /\ Present(s)' <=> Present(s)
                            /\ \A q \in Pointer : PointsTo(q, s)' <=> PointsTo(q, s)
      /\ EntriesAtHome'
      /\ OneSlot'
  BY SameTable DEF TableInv
<1>3. TargetKnown' /\ AssertionsHold'
  BY DEF TableInv, TypeOK, TargetKnown, AssertionsHold
<1>4. Registered' /\ EntriesCounted'
  BY <1>2 DEF TableInv, TypeOK, TargetKnown, Registered, EntriesCounted
<1>5. PointersLocated'
  BY <1>2 DEF TableInv, TypeOK, TargetKnown, PointersLocated
<1> QED BY <1>1, <1>2, <1>3, <1>4, <1>5 DEF TableInv

(* A lookup of a server that is present takes the address of its entry.     *)
LEMMA LookupStep ==
  ASSUME TableInv, NEW t \in Threads, NEW label \in {"waitServer", "postServer"},
         pc[t] \in {"lookup", "relookup", "lookupPost"},
         Present(target[t]),
         pc' = [pc EXCEPT ![t] = label],
         scs' = [scs EXCEPT ![t] = AddressOf(target[t])],
         UNCHANGED <<live, totSem, table, target, entered>>
  PROVE  TableInv'
<1> DEFINE s == target[t]
<1>1. s \in Servers
  BY DEF TableInv, TargetKnown
<1>2. /\ AddressOf(s) \in Pointer
      /\ PointsTo(AddressOf(s), s)
      /\ AddressOf(s).bucket = Hash[s]
  BY <1>1, AddressOfPresent DEF TableInv
<1>3. TypeOK'
  BY <1>2 DEF TableInv, TypeOK, PCs
<1>4. /\ \A r \in Servers : /\ Present(r)' <=> Present(r)
                            /\ \A q \in Pointer : PointsTo(q, r)' <=> PointsTo(q, r)
      /\ EntriesAtHome'
      /\ OneSlot'
  BY SameTable DEF TableInv
<1>5. TargetKnown' /\ AssertionsHold'
  BY DEF TableInv, TypeOK, TargetKnown, AssertionsHold
<1>6. Registered' /\ EntriesCounted'
  BY <1>4 DEF TableInv, TypeOK, TargetKnown, Registered, EntriesCounted
<1>7. PointersLocated'
  <2> SUFFICES ASSUME NEW u \in Threads, pc'[u] \in {"waitServer", "postServer"}
               PROVE  (/\ scs[u] \in Pointer
                       /\ scs[u].bucket = Hash[target[u]]
                       /\ Alone(target[u]) => PointsTo(scs[u], target[u]))'
    BY DEF PointersLocated
  <2>1. CASE u = t
    <3>1. scs'[u] = AddressOf(s) /\ target'[u] = s
      BY <2>1 DEF TableInv, TypeOK
    <3> QED BY <1>2, <3>1 DEF PointsTo, Allocated
  <2>2. CASE u # t
    <3>1. /\ pc[u] \in {"waitServer", "postServer"}
          /\ scs'[u] = scs[u]
      BY <2>2 DEF TableInv, TypeOK
    <3> QED BY <3>1 DEF TableInv, PointersLocated, PointsTo, Allocated, Alone
  <2> QED BY <2>1, <2>2
<1> QED BY <1>3, <1>4, <1>5, <1>6, <1>7 DEF TableInv

(* A sem_wait or sem_post of a server's semaphore, after which the thread   *)
(* holds no pointer.                                                        *)
LEMMA SemStep ==
  ASSUME TableInv, NEW t \in Threads, NEW label \in {"open", "idle"},
         NEW n \in Nat,
         \/ /\ pc[t] = "waitServer" /\ label = "open"
            /\ target' = target
         \/ /\ pc[t] = "postServer" /\ label = "idle"
            /\ target' = [target EXCEPT ![t] = NoServer],
         table' = IF Allocated(scs[t])
                  THEN [table EXCEPT ![scs[t].bucket].slots[scs[t].pos].sem = n]
                  ELSE table,
         pc' = [pc EXCEPT ![t] = label],
         scs' = [scs EXCEPT ![t] = NoPointer],
         UNCHANGED <<live, totSem, entered>>
  PROVE  TableInv'
<1>1. scs[t] \in Pointer
  BY DEF TableInv, PointersLocated
<1>2. /\ table' \in [Buckets -> Bucket]
      /\ \A s \in Servers : /\ Present(s)' <=> Present(s)
                            /\ Len(Slots(s))' = Len(Slots(s))
                            /\ \A q \in Pointer : PointsTo(q, s)' <=> PointsTo(q, s)
      /\ EntriesAtHome'
  BY <1>1, SemUpdateKeeps DEF TableInv
<1>3. TypeOK'
  BY <1>2 DEF TableInv, TypeOK, PCs
<1>4. OneSlot' /\ EntriesCounted'
  BY <1>2 DEF TableInv, OneSlot, EntriesCounted, Alone
<1>5. TargetKnown' /\ AssertionsHold'
  BY DEF TableInv, TypeOK, TargetKnown, AssertionsHold
<1>6. ASSUME NEW u \in Threads, u # t
      PROVE  /\ pc'[u] = pc[u]
             /\ scs'[u] = scs[u]
             /\ target'[u] = target[u]
  BY <1>6 DEF TableInv, TypeOK
<1>7. pc'[t] = label
  BY DEF TableInv, TypeOK
<1>8. Registered'
  <2> SUFFICES ASSUME NEW u \in Threads,
                      pc'[u] \in {"relookup", "waitServer", "open", "postTotal",
                                  "lookupPost", "postServer"}
               PROVE  Present(target[u])'
    BY DEF Registered
  <2>1. target'[u] = target[u] /\ Present(target[u]) /\ target[u] \in Servers
    BY <1>6, <1>7 DEF TableInv, Registered, TargetKnown
  <2>2. \A s \in Servers : s = target[u] => Present(s)'
    BY <1>2, <2>1
  <2> QED BY <2>1, <2>2 DEF Present, PlacesOf, Places, Slots
<1>9. PointersLocated'
  <2> SUFFICES ASSUME NEW u \in Threads, pc'[u] \in {"waitServer", "postServer"}
               PROVE  (/\ scs[u] \in Pointer
                       /\ scs[u].bucket = Hash[target[u]]
                       /\ Alone(target[u]) => PointsTo(scs[u], target[u]))'
    BY DEF PointersLocated
  <2>1. /\ pc[u] = pc'[u]
        /\ scs'[u] = scs[u]
        /\ target'[u] = target[u]
        /\ target[u] \in Servers
    BY <1>6, <1>7 DEF TableInv, TargetKnown
  <2>2. /\ scs[u] \in Pointer
        /\ scs[u].bucket = Hash[target[u]]
        /\ Alone(target[u]) => PointsTo(scs[u], target[u])
    BY <2>1 DEF TableInv, PointersLocated
  <2>3. PICK s \in Servers, q \in Pointer : s = target[u] /\ q = scs[u]
    BY <2>1, <2>2
  <2>4. Alone(s) => PointsTo(q, s)'
    BY <1>2, <2>2, <2>3
  <2>5. (scs[u])' = q /\ (target[u])' = s
    BY <2>1, <2>3
  <2> QED BY <2>2, <2>3, <2>4, <2>5 DEF PointsTo, Allocated, Alone
<1> QED BY <1>2, <1>3, <1>4, <1>5, <1>8, <1>9 DEF TableInv

(* TSHashSetEnter, called by a thread that missed its server.               *)
LEMMA EnterStep ==
  ASSUME TableInv, NEW t \in Threads, Enter(t)
  PROVE  TableInv'
<1>0. PICK s \in Servers : s = target[t]
  BY DEF TableInv, TargetKnown, Enter, At
<1>1. /\ pc[t] = "enter"
      /\ HashSetEnter(s)
      /\ entered' = [entered EXCEPT ![s] = @ + 1]
      /\ pc' = [pc EXCEPT ![t] = "relookup"]
      /\ UNCHANGED <<live, totSem, target, scs>>
  BY <1>0 DEF Enter, At, Goto
<1>2. s \in Servers /\ Hash[s] \in Buckets
  OBVIOUS
<1>3. /\ table' \in [Buckets -> Bucket]
      /\ \A b \in Buckets \ {Hash[s]} : table'[b] = table[b]
      /\ Present(s)'
      /\ \A r \in Servers : Present(r) => Present(r)'
      /\ \A r \in Servers \ {s} : Present(r)' => Present(r)
      /\ EntriesAtHome'
  BY <1>1, <1>2, EnterEffect DEF TableInv
<1>4. TypeOK'
  BY <1>1, <1>2, <1>3 DEF TableInv, TypeOK, PCs
<1>5. TargetKnown' /\ AssertionsHold'
  BY <1>1 DEF TableInv, TypeOK, TargetKnown, AssertionsHold
<1>6. EntriesCounted'
  BY <1>1, <1>2, <1>3 DEF TableInv, TypeOK, EntriesCounted
<1>7. Registered'
  <2> SUFFICES ASSUME NEW u \in Threads,
                      pc'[u] \in {"relookup", "waitServer", "open", "postTotal",
                                  "lookupPost", "postServer"}
               PROVE  Present(target[u])'
    BY DEF Registered
  <2>1. PICK r \in Servers : r = target[u] /\ r = target'[u]
    BY <1>1 DEF TableInv, TypeOK, TargetKnown
  <2>2. r = s \/ Present(r)
    BY <1>0, <1>1, <2>1 DEF TableInv, TypeOK, Registered
  <2>3. Present(r)'
    BY <1>3, <2>2
  <2> QED BY <2>1, <2>3 DEF Present, PlacesOf, Places, Slots
<1>8. OneSlot'
  <2> SUFFICES ASSUME NEW r \in Servers, Alone(r) PROVE Len(Slots(r))' <= 1
    BY DEF OneSlot, Alone
  <2>1. CASE r # s
    <3>1. Slots(r)' = Slots(r)
      BY <1>2, <1>3, <2>1 DEF Alone, Slots
    <3> QED BY <3>1 DEF TableInv, OneSlot
  <2>2. CASE r = s /\ Present(s)
    <3>1. DOMAIN Slots(s)' = DOMAIN Slots(s)
      BY <1>1, <1>2, <2>2, EnterReplaces DEF TableInv, Slots
    <3>2. Slots(s) \in Seq(Slot) /\ Slots(s)' \in Seq(Slot)
      BY <1>2, <1>3 DEF TableInv, TypeOK, Bucket, Slots
    <3>3. Len(Slots(s))' = Len(Slots(s))
      BY <3>1, <3>2
    <3> QED BY <2>2, <3>3 DEF TableInv, OneSlot
  <2>3. CASE r = s /\ ~Present(s)
    <3>1. Slots(s) = <<>>
      BY <1>2, <2>3, AloneAbsent DEF TableInv
    <3>2. Len(Slots(s))' = Len(Slots(s)) + 1
      BY <1>1, <1>2, <2>3, EnterInserts DEF TableInv, Slots
    <3> QED BY <2>3, <3>1, <3>2
  <2> QED BY <2>1, <2>2, <2>3
<1>9. PointersLocated'
  <2> SUFFICES ASSUME NEW u \in Threads, pc'[u] \in {"waitServer", "postServer"}
               PROVE  (/\ scs[u] \in Pointer
                       /\ scs[u].bucket = Hash[target[u]]
                       /\ Alone(target[u]) => PointsTo(scs[u], target[u]))'
    BY DEF PointersLocated
  <2>1. /\ pc[u] \in {"waitServer", "postServer"}
        /\ scs'[u] = scs[u]
        /\ target'[u] = target[u]
        /\ target[u] \in Servers
    BY <1>1 DEF TableInv, TypeOK, TargetKnown
  <2>2. /\ scs[u] \in Pointer
        /\ scs[u].bucket = Hash[target[u]]
        /\ Alone(target[u]) => PointsTo(scs[u], target[u])
    BY <2>1 DEF TableInv, PointersLocated
  <2>3. ASSUME Alone(target[u])
        PROVE  /\ table'[scs[u].bucket].gen = table[scs[u].bucket].gen
               /\ DOMAIN table'[scs[u].bucket].slots = DOMAIN table[scs[u].bucket].slots
               /\ table'[scs[u].bucket].slots[scs[u].pos].key = target[u]
    <3>1. /\ PointsTo(scs[u], target[u])
          /\ scs[u].pos \in DOMAIN table[scs[u].bucket].slots
      BY <2>2, <2>3 DEF PointsTo, Allocated
    <3>2. CASE target[u] # s
      <4>1. Hash[s] # scs[u].bucket /\ scs[u].bucket \in Buckets
        BY <1>2, <2>1, <2>2, <2>3, <3>2 DEF Alone
      <4>2. table'[scs[u].bucket] = table[scs[u].bucket]
        BY <1>3, <4>1
      <4> QED BY <3>1, <4>2 DEF PointsTo
    <3>3. CASE target[u] = s
      <4>1. Present(s)
        BY <2>1, <3>3 DEF TableInv, Registered
      <4>2. /\ table'[Hash[s]].gen = table[Hash[s]].gen
            /\ DOMAIN table'[Hash[s]].slots = DOMAIN table[Hash[s]].slots
            /\ \A j \in DOMAIN table[Hash[s]].slots :
                  table'[Hash[s]].slots[j].key = table[Hash[s]].slots[j].key
        BY <1>1, <1>2, <4>1, EnterReplaces DEF TableInv
      <4> QED BY <2>2, <3>1, <3>3, <4>2 DEF PointsTo
    <3> QED BY <3>2, <3>3
  <2> QED BY <2>1, <2>2, <2>3 DEF PointsTo, Allocated, Alone
<1> QED BY <1>3, <1>4, <1>5, <1>6, <1>7, <1>8, <1>9 DEF TableInv

(* A call of LimitedURLConnectionNew gives the thread a target.             *)
LEMMA CallNewStep ==
  ASSUME TableInv, NEW t \in Threads, NEW s \in Servers, CallNew(t, s)
  PROVE  TableInv'
<1>1. /\ pc' = [pc EXCEPT ![t] = "waitTotal"]
      /\ target' = [target EXCEPT ![t] = s]
      /\ UNCHANGED <<live, totSem, table, scs, entered>>
  BY DEF CallNew, Goto
<1>2. TypeOK'
  BY <1>1 DEF TableInv, TypeOK, PCs
<1>3. EntriesAtHome' /\ OneSlot' /\ EntriesCounted'
  BY <1>1, SameTable DEF TableInv, EntriesCounted
<1>4. TargetKnown' /\ AssertionsHold'
  BY <1>1 DEF TableInv, TypeOK, TargetKnown, AssertionsHold
<1>5. Registered'
  BY <1>1 DEF TableInv, TypeOK, Registered, Present, PlacesOf, Places, Slots
<1>6. PointersLocated'
  BY <1>1 DEF TableInv, TypeOK, PointersLocated, PointsTo, Allocated, Alone
<1> QED BY <1>2, <1>3, <1>4, <1>5, <1>6 DEF TableInv

(* Every step of every thread, and the dispose, keep the invariant.         *)
LEMMA TableInvStep == TableInv /\ [Next]_vars => TableInv'
<1> SUFFICES ASSUME TableInv, [Next]_vars PROVE TableInv'
  OBVIOUS
<1>1. ASSUME NEW t \in Threads, NEW s \in Servers, CallNew(t, s) PROVE TableInv'
  BY <1>1, CallNewStep
<1>2. ASSUME NEW t \in Threads, WaitTotal(t) PROVE TableInv'
  <2>1. totSem' \in Nat /\ live' \in BOOLEAN
    BY <1>2 DEF WaitTotal, TableInv, TypeOK
  <2> QED BY <1>2, <2>1, QuietStep DEF WaitTotal, At, Goto, PCs
<1>3. ASSUME NEW t \in Threads, LookupFound(t) PROVE TableInv'
  BY <1>3, LookupStep DEF LookupFound, At, Goto
<1>4. ASSUME NEW t \in Threads, LookupMissed(t) PROVE TableInv'
  <2>1. totSem' \in Nat /\ live' \in BOOLEAN
    BY <1>4 DEF LookupMissed, TableInv, TypeOK
  <2> QED BY <1>4, <2>1, QuietStep DEF LookupMissed, At, Goto, PCs
<1>5. ASSUME NEW t \in Threads, Enter(t) PROVE TableInv'
  BY <1>5, EnterStep
<1>6. ASSUME NEW t \in Threads, Relookup(t) PROVE TableInv'
  <2>1. Present(target[t])
    BY <1>6 DEF Relookup, At, TableInv, Registered
  <2> QED BY <1>6, <2>1, LookupStep DEF Relookup, LookupOrAbort, At, Goto
<1>7. ASSUME NEW t \in Threads, WaitServer(t) PROVE TableInv'
  <2>1. PICK n \in Nat : Allocated(scs[t]) => n = SemAt(scs[t]) - 1
    <3>1. CASE Allocated(scs[t])
      <4>1. scs[t] \in Pointer
        BY <1>7 DEF WaitServer, At, TableInv, PointersLocated
      <4>2. SemAt(scs[t]) \in Nat /\ SemAt(scs[t]) > 0
        BY <1>7, <3>1, <4>1, SemIsNat DEF TableInv, WaitServer
      <4> QED BY <4>2
    <3>2. CASE ~Allocated(scs[t])
      BY <3>2
    <3> QED BY <3>1, <3>2
  <2>2. table' = IF Allocated(scs[t])
                 THEN [table EXCEPT ![scs[t].bucket].slots[scs[t].pos].sem = n]
                 ELSE table
    BY <1>7, <2>1 DEF WaitServer, SemAt
  <2>3. /\ pc[t] = "waitServer"
        /\ pc' = [pc EXCEPT ![t] = "open"]
        /\ scs' = [scs EXCEPT ![t] = NoPointer]
        /\ UNCHANGED <<live, totSem, target, entered>>
    BY <1>7 DEF WaitServer, At, Goto
  <2> QED BY <2>2, <2>3, SemStep
<1>8. ASSUME NEW t \in Threads, CallDispose(t) PROVE TableInv'
  <2>1. totSem' \in Nat /\ live' \in BOOLEAN
    BY <1>8 DEF CallDispose, TableInv, TypeOK
  <2> QED BY <1>8, <2>1, QuietStep DEF CallDispose, At, Goto, PCs
<1>9. ASSUME NEW t \in Threads, PostTotal(t) PROVE TableInv'
  <2>1. totSem' \in Nat /\ live' \in BOOLEAN
    BY <1>9 DEF PostTotal, TableInv, TypeOK
  <2> QED BY <1>9, <2>1, QuietStep DEF PostTotal, At, Goto, PCs
<1>10. ASSUME NEW t \in Threads, LookupPost(t) PROVE TableInv'
  <2>1. Present(target[t])
    BY <1>10 DEF LookupPost, At, TableInv, Registered
  <2> QED BY <1>10, <2>1, LookupStep DEF LookupPost, LookupOrAbort, At, Goto
<1>11. ASSUME NEW t \in Threads, PostServer(t) PROVE TableInv'
  <2>1. PICK n \in Nat : Allocated(scs[t]) => n = SemAt(scs[t]) + 1
    <3>1. CASE Allocated(scs[t])
      <4>1. scs[t] \in Pointer
        BY <1>11 DEF PostServer, At, TableInv, PointersLocated
      <4>2. SemAt(scs[t]) \in Nat
        BY <1>11, <3>1, <4>1, SemIsNat DEF TableInv
      <4> QED BY <4>2
    <3>2. CASE ~Allocated(scs[t])
      BY <3>2
    <3> QED BY <3>1, <3>2
  <2>2. table' = IF Allocated(scs[t])
                 THEN [table EXCEPT ![scs[t].bucket].slots[scs[t].pos].sem = n]
                 ELSE table
    BY <1>11, <2>1 DEF PostServer, SemAt
  <2>3. /\ pc[t] = "postServer"
        /\ pc' = [pc EXCEPT ![t] = "idle"]
        /\ scs' = [scs EXCEPT ![t] = NoPointer]
        /\ target' = [target EXCEPT ![t] = NoServer]
        /\ UNCHANGED <<live, totSem, entered>>
    BY <1>11 DEF PostServer, At, Goto
  <2> QED BY <2>2, <2>3, SemStep
<1>12. CASE DisposeWhenUnused
  <2>1. live' \in BOOLEAN /\ UNCHANGED <<totSem, table, pc, target, scs, entered>>
    BY <1>12 DEF DisposeWhenUnused, FactoryDispose
  <2>2. TypeOK' /\ TargetKnown' /\ AssertionsHold'
    BY <2>1 DEF TableInv, TypeOK, TargetKnown, AssertionsHold
  <2>3. Registered' /\ EntriesCounted'
    BY <2>1 DEF TableInv, Registered, EntriesCounted, Present, PlacesOf, Places, Slots
  <2>4. EntriesAtHome' /\ OneSlot'
    BY <2>1, SameTable DEF TableInv
  <2>5. PointersLocated'
    BY <2>1 DEF TableInv, PointersLocated, PointsTo, Allocated, Alone
  <2> QED BY <2>2, <2>3, <2>4, <2>5 DEF TableInv
<1>13. CASE UNCHANGED vars
  BY <1>13 DEF vars, TableInv, TypeOK, TargetKnown,
     AssertionsHold, Registered, EntriesCounted, EntriesAtHome, OneSlot,
     PointersLocated, Present, PlacesOf, Places, Slots, PointsTo, Allocated, Alone
<1> QED
  BY <1>1, <1>2, <1>3, <1>4, <1>5, <1>6, <1>7, <1>8, <1>9, <1>10, <1>11, <1>12, <1>13
  DEF Next, InFactory

(* The variables keep their types, the assertions of ConcurrConnUtilsWait   *)
(* and ConcurrConnUtilsPost never fail, and in a bucket of one server no    *)
(* pointer goes stale, whatever the threads and the hash function.          *)
THEOREM TableSafe == Spec => []TableInv
BY TableInvInit, TableInvStep, PTL DEF Spec

(* In particular the variables keep their types.                            *)
THEOREM LimiterTypes == Spec => []TypeOK
<1>1. TableInv => TypeOK
  BY DEF TableInv
<1> QED BY <1>1, TableSafe, PTL

-----------------------------------------------------------------------------
(* What a step that leaves every server in its slot keeps.                  *)
LEMMA SameServersSorted ==
  ASSUME BucketsSorted,
         \A b \in Buckets :
            /\ DOMAIN table'[b].slots = DOMAIN table[b].slots
            /\ \A i \in DOMAIN table[b].slots :
                  table'[b].slots[i].key = table[b].slots[i].key
  PROVE  BucketsSorted'
BY DEF BucketsSorted, Sorted

(* TSHashSetEnter keeps the order, whether it replaces or inserts.          *)
LEMMA EnterSorted ==
  ASSUME TypeOK, BucketsSorted, NEW s \in Servers, HashSetEnter(s)
  PROVE  BucketsSorted'
<1>1. CASE Present(s)
  BY <1>1, EnterReplaces, SameServersSorted
<1>2. CASE ~Present(s)
  <2> DEFINE h == Hash[s]
             old == table[h].slots
             new == InsertSlot(old, InsertPlace(old, s), NewSlot(s))
  <2>1. h \in Buckets /\ table[h] \in Bucket /\ old \in Seq(Slot)
    BY DEF TypeOK, Bucket
  <2>2. NewSlot(s) \in Slot /\ NewSlot(s).key = s
    BY DEF NewSlot, Slot
  <2>3. \A i \in DOMAIN old : old[i].key # s
    BY <1>2 DEF Present, PlacesOf, Places, Slots
  <2>4. Sorted(old)
    BY <2>1 DEF BucketsSorted
  <2>5. Ranked(old, s) /\ \A i \in DOMAIN old : Rank[old[i].key] # Rank[s]
    BY <2>1, <2>3, SlotRank DEF Ranked
  <2>6. Sorted(new)
    BY <2>1, <2>2, <2>4, <2>5, InsertKeepsOrder
  <2>7. PICK b \in BucketWith(table[h], NewSlot(s)) : table' = [table EXCEPT ![h] = b]
    BY <1>2 DEF HashSetEnter, Entered, Present, PlacesOf, Places, Slots, NewSlot
  <2> HIDE DEF new
  <2>8. b.slots = new
    BY <2>1, <2>2, <2>7 DEF BucketWith, Bucket, new
  <2>9. /\ table'[h].slots = new
        /\ \A c \in Buckets \ {h} : table'[c] = table[c]
    BY <2>1, <2>7, <2>8 DEF TypeOK
  <2> QED BY <2>6, <2>9 DEF BucketsSorted
<1> QED BY <1>1, <1>2

(* A sem_wait or sem_post of a server's semaphore moves no slot.            *)
LEMMA SemSorted ==
  ASSUME TypeOK, BucketsSorted, NEW p \in Pointer, NEW n \in Nat,
         table' = IF Allocated(p)
                  THEN [table EXCEPT ![p.bucket].slots[p.pos].sem = n]
                  ELSE table
  PROVE  BucketsSorted'
<1>1. CASE Allocated(p)
  <2>1. table' = [table EXCEPT ![p.bucket].slots[p.pos].sem = n]
    BY <1>1
  <2>2. /\ table' \in [Buckets -> Bucket]
        /\ \A b \in Buckets :
           /\ table'[b].gen = table[b].gen
           /\ table'[b].alloc = table[b].alloc
           /\ DOMAIN table'[b].slots = DOMAIN table[b].slots
           /\ \A i \in DOMAIN table[b].slots :
                 table'[b].slots[i] =
                    IF b = p.bucket /\ i = p.pos
                    THEN [key |-> table[b].slots[i].key, sem |-> n]
                    ELSE table[b].slots[i]
    BY <1>1, <2>1, SemUpdate
  <2>3. \A b \in Buckets : \A i \in DOMAIN table[b].slots :
           table'[b].slots[i].key = table[b].slots[i].key
    BY <2>2
  <2> QED BY <2>2, <2>3, SameServersSorted
<1>2. CASE ~Allocated(p)
  BY <1>2 DEF BucketsSorted
<1> QED BY <1>1, <1>2

(* Every step keeps the order of the buckets.                               *)
LEMMA SortedStep ==
  ASSUME TableInv, BucketsSorted, [Next]_vars
  PROVE  BucketsSorted'
<1> USE DEF TableInv
<1>1. ASSUME UNCHANGED table PROVE BucketsSorted'
  BY <1>1 DEF BucketsSorted
<1>2. ASSUME NEW t \in Threads, Enter(t) PROVE BucketsSorted'
  <2>1. target[t] \in Servers /\ HashSetEnter(target[t])
    BY <1>2 DEF Enter, At, TargetKnown
  <2> QED BY <2>1, EnterSorted
<1>3. ASSUME NEW t \in Threads, WaitServer(t) PROVE BucketsSorted'
  <2>1. scs[t] \in Pointer
    BY <1>3 DEF WaitServer, At, PointersLocated
  <2>2. PICK n \in Nat : Allocated(scs[t]) => n = SemAt(scs[t]) - 1
    <3>1. CASE Allocated(scs[t])
      <4>1. SemAt(scs[t]) \in Nat
        BY <2>1, <3>1, SemIsNat
      <4>2. SemAt(scs[t]) > 0
        BY <1>3, <3>1 DEF WaitServer
      <4> QED BY <4>1, <4>2
    <3>2. CASE ~Allocated(scs[t])
      BY <3>2
    <3> QED BY <3>1, <3>2
  <2>3. table' = IF Allocated(scs[t])
                 THEN [table EXCEPT ![scs[t].bucket].slots[scs[t].pos].sem = n]
                 ELSE table
    BY <1>3, <2>2 DEF WaitServer, SemAt
  <2> QED BY <2>1, <2>3, SemSorted
<1>4. ASSUME NEW t \in Threads, PostServer(t) PROVE BucketsSorted'
  <2>1. scs[t] \in Pointer
    BY <1>4 DEF PostServer, At, PointersLocated
  <2>2. PICK n \in Nat : Allocated(scs[t]) => n = SemAt(scs[t]) + 1
    BY <1>4, <2>1, SemIsNat DEF PostServer
  <2>3. table' = IF Allocated(scs[t])
                 THEN [table EXCEPT ![scs[t].bucket].slots[scs[t].pos].sem = n]
                 ELSE table
    BY <1>4, <2>2 DEF PostServer, SemAt
  <2> QED BY <2>1, <2>3, SemSorted
<1> QED
  BY <1>1, <1>2, <1>3, <1>4 DEF Next, InFactory, CallNew, WaitTotal, LookupFound,
     LookupMissed, Relookup, CallDispose, PostTotal, LookupPost, DisposeWhenUnused,
     FactoryDispose, vars

(* Every bucket is strictly sorted, so that no server has two slots and     *)
(* bsearch finds what was entered, for any number of threads that race to   *)
(* enter servers into it.                                                   *)
THEOREM SortedBuckets == Spec => []BucketsSorted
<1>1. Init => BucketsSorted
  BY DEF Init, BucketsSorted, Sorted, EmptyBucket
<1>2. TableInv /\ BucketsSorted /\ [Next]_vars => BucketsSorted'
  BY SortedStep
<1> QED BY <1>1, <1>2, TableSafe, PTL DEF Spec

-----------------------------------------------------------------------------
(* The holders of total permits can be counted.                              *)
LEMMA TotalHoldersFinite ==
  /\ IsFiniteSet(TotalHolders)
  /\ Cardinality(TotalHolders) \in Nat
<1>1. TotalHolders \in SUBSET Threads
  BY DEF TotalHolders
<1>2. IsFiniteSet(TotalHolders)
  BY <1>1, FS_Subset
<1> QED BY <1>2, FS_CardinalityType

(* At first no thread holds a permit.                                       *)
LEMMA TotalPermitsInit == Init => TotalPermitsConserved
<1> SUFFICES ASSUME Init PROVE TotalPermitsConserved
  OBVIOUS
<1>1. TotalHolders = {}
  BY DEF Init, TotalHolders
<1> QED BY <1>1, FS_EmptySet DEF Init, TotalPermitsConserved

(* sem_wait and sem_post move a permit between totConnSem and a thread; no  *)
(* other step takes or gives one.                                           *)
LEMMA TotalPermitsStep ==
  TableInv /\ TotalPermitsConserved /\ [Next]_vars => TotalPermitsConserved'
<1> SUFFICES ASSUME TableInv, TotalPermitsConserved, [Next]_vars
             PROVE  TotalPermitsConserved'
  OBVIOUS
<1>0. IsFiniteSet(TotalHolders) /\ Cardinality(TotalHolders) \in Nat
  BY TotalHoldersFinite
<1>a. TypeOK
  BY DEF TableInv
<1>1. ASSUME NEW t \in Threads, WaitTotal(t) PROVE TotalPermitsConserved'
  <2>1. TotalHolders' = TotalHolders \cup {t} /\ t \notin TotalHolders
    BY <1>a, <1>1 DEF WaitTotal, At, Goto, TotalHolders, TypeOK
  <2>2. Cardinality(TotalHolders') = Cardinality(TotalHolders) + 1
    BY <1>0, <2>1, FS_AddElement
  <2>3. totSem' = totSem - 1 /\ totSem \in Nat
    BY <1>a, <1>1 DEF WaitTotal, TypeOK
  <2> QED BY <1>0, <2>2, <2>3 DEF TotalPermitsConserved
<1>2. ASSUME NEW t \in Threads, PostTotal(t) PROVE TotalPermitsConserved'
  <2>1. TotalHolders' = TotalHolders \ {t} /\ t \in TotalHolders
    BY <1>a, <1>2 DEF PostTotal, At, Goto, TotalHolders, TypeOK
  <2>2. Cardinality(TotalHolders') = Cardinality(TotalHolders) - 1
    BY <1>0, <2>1, FS_RemoveElement
  <2>3. totSem' = totSem + 1 /\ totSem \in Nat
    BY <1>a, <1>2 DEF PostTotal, TypeOK
  <2> QED BY <1>0, <2>2, <2>3 DEF TotalPermitsConserved
<1>3. ASSUME TotalHolders' = TotalHolders, totSem' = totSem
      PROVE  TotalPermitsConserved'
  BY <1>3 DEF TotalPermitsConserved
<1>4. ASSUME NEW t \in Threads, NEW s \in Servers, CallNew(t, s)
      PROVE  TotalPermitsConserved'
  BY <1>a, <1>3, <1>4 DEF CallNew, At, Goto, TotalHolders, TypeOK
<1>5. ASSUME NEW t \in Threads, LookupFound(t) PROVE TotalPermitsConserved'
  BY <1>a, <1>3, <1>5 DEF LookupFound, At, Goto, TotalHolders, TypeOK
<1>6. ASSUME NEW t \in Threads, LookupMissed(t) PROVE TotalPermitsConserved'
  BY <1>a, <1>3, <1>6 DEF LookupMissed, At, Goto, TotalHolders, TypeOK
<1>7. ASSUME NEW t \in Threads, Enter(t) PROVE TotalPermitsConserved'
  BY <1>a, <1>3, <1>7 DEF Enter, At, Goto, TotalHolders, TypeOK
<1>8. ASSUME NEW t \in Threads, WaitServer(t) PROVE TotalPermitsConserved'
  BY <1>a, <1>3, <1>8 DEF WaitServer, At, Goto, TotalHolders, TypeOK
<1>9. ASSUME NEW t \in Threads, CallDispose(t) PROVE TotalPermitsConserved'
  BY <1>a, <1>3, <1>9 DEF CallDispose, At, Goto, TotalHolders, TypeOK
<1>10. ASSUME NEW t \in Threads, PostServer(t) PROVE TotalPermitsConserved'
  BY <1>a, <1>3, <1>10 DEF PostServer, At, Goto, TotalHolders, TypeOK
<1>11. ASSUME NEW t \in Threads, Relookup(t) PROVE TotalPermitsConserved'
  <2>1. Present(target[t])
    BY <1>11 DEF Relookup, At, TableInv, Registered
  <2> QED BY <1>a, <1>3, <1>11, <2>1
          DEF Relookup, LookupOrAbort, At, Goto, TotalHolders, TypeOK
<1>12. ASSUME NEW t \in Threads, LookupPost(t) PROVE TotalPermitsConserved'
  <2>1. Present(target[t])
    BY <1>12 DEF LookupPost, At, TableInv, Registered
  <2> QED BY <1>a, <1>3, <1>12, <2>1
          DEF LookupPost, LookupOrAbort, At, Goto, TotalHolders, TypeOK
<1>13. CASE DisposeWhenUnused
  BY <1>3, <1>13 DEF DisposeWhenUnused, FactoryDispose, TotalHolders
<1>14. CASE UNCHANGED vars
  BY <1>3, <1>14 DEF vars, TotalHolders
<1> QED
  BY <1>1, <1>2, <1>4, <1>5, <1>6, <1>7, <1>8, <1>9, <1>10, <1>11, <1>12, <1>13, <1>14
  DEF Next, InFactory

(* The permits of totConnSem and those the threads hold always make         *)
(* maxTotalConns, for any number of threads, any hash function, and         *)
(* whatever races happen in the hash set.                                   *)
THEOREM TotalPermits == Spec => []TotalPermitsConserved
<1>1. Init => TableInv /\ TotalPermitsConserved
  BY TableInvInit, TotalPermitsInit
<1>2. TableInv /\ TotalPermitsConserved /\ [Next]_vars
        => (TableInv /\ TotalPermitsConserved)'
  BY TableInvStep, TotalPermitsStep
<1> QED BY <1>1, <1>2, PTL DEF Spec

-----------------------------------------------------------------------------
(* The pool of connections: the instance counts as this module does.        *)
LEMMA PoolCardinality == \A S : Pool!Cardinality(S) = Cardinality(S)
BY DEF Pool!Cardinality, Cardinality

(* Every step of the factory is a step of the pool, or none.                *)
LEMMA PoolStep ==
  ASSUME TableInv, TotalPermitsConserved, [Next]_vars
  PROVE  [Pool!Next]_connBar
<1>a. TypeOK
  BY DEF TableInv
<1>1. ASSUME NEW t \in Threads, WaitServer(t)
      PROVE  \E s \in Servers : Pool!Open(t, s)
  <2>0. PICK s \in Servers : s = target[t]
    BY <1>1 DEF WaitServer, At, TableInv, TargetKnown
  <2>1. /\ pc[t] = "waitServer"
        /\ pc' = [pc EXCEPT ![t] = "open"]
        /\ target' = target
    BY <1>1 DEF WaitServer, At, Goto
  <2>2. connBar[t] = NoServer
    BY <2>1 DEF connBar
  <2>3. connBar' = [connBar EXCEPT ![t] = s]
    BY <1>a, <2>0, <2>1 DEF connBar, TypeOK
  <2>4. /\ Pool!Connected \subseteq TotalHolders \ {t}
        /\ Pool!OpenTo(s) \subseteq TotalHolders \ {t}
        /\ t \in TotalHolders
    BY <2>1, NoServerAssumption DEF Pool!Connected, Pool!OpenTo, connBar, TotalHolders
  <2>5. /\ IsFiniteSet(TotalHolders \ {t})
        /\ Cardinality(TotalHolders \ {t}) = Cardinality(TotalHolders) - 1
        /\ Cardinality(TotalHolders) \in Nat
    BY <2>4, TotalHoldersFinite, FS_RemoveElement
  <2>6. Cardinality(TotalHolders) <= MaxTotalConns
    BY <1>a, <2>5 DEF TotalPermitsConserved, TypeOK
  <2>7. /\ Cardinality(Pool!Connected) <= Cardinality(TotalHolders \ {t})
        /\ Cardinality(Pool!OpenTo(s)) <= Cardinality(TotalHolders \ {t})
        /\ Cardinality(Pool!Connected) \in Nat
        /\ Cardinality(Pool!OpenTo(s)) \in Nat
    BY <2>4, <2>5, FS_Subset, FS_CardinalityType
  <2>8. /\ Cardinality(Pool!Connected) < MaxTotalConns
        /\ Cardinality(Pool!OpenTo(s)) < MaxTotalConns
    BY <2>5, <2>6, <2>7
  <2>9. Pool!Open(t, s)
    BY <2>2, <2>3, <2>8, PoolCardinality DEF Pool!Open
  <2> QED BY <2>9
<1>2. ASSUME NEW t \in Threads, CallDispose(t) PROVE Pool!Close(t)
  <2>1. /\ pc[t] = "open"
        /\ pc' = [pc EXCEPT ![t] = "postTotal"]
        /\ target' = target
        /\ target[t] \in Servers
    BY <1>2 DEF CallDispose, At, Goto, TableInv, TargetKnown
  <2>2. connBar[t] = target[t]
    BY <2>1 DEF connBar
  <2>3. connBar' = [connBar EXCEPT ![t] = NoServer]
    BY <1>a, <2>1 DEF connBar, TypeOK
  <2> QED BY <2>1, <2>2, <2>3 DEF Pool!Close
<1>3. ASSUME NEW t \in Threads,
             NEW label \in PCs \ {"open"},
             pc[t] # "open",
             pc' = [pc EXCEPT ![t] = label],
             \A u \in Threads \ {t} : target'[u] = target[u]
      PROVE  UNCHANGED connBar
  BY <1>a, <1>3 DEF connBar, TypeOK
<1>4. ASSUME NEW t \in Threads, NEW s \in Servers, CallNew(t, s)
      PROVE  UNCHANGED connBar
  BY <1>a, <1>3, <1>4 DEF CallNew, At, Goto, TypeOK, PCs
<1>5. ASSUME NEW t \in Threads,
             \/ WaitTotal(t) \/ LookupFound(t) \/ LookupMissed(t) \/ Enter(t)
             \/ Relookup(t) \/ PostTotal(t) \/ LookupPost(t)
      PROVE  UNCHANGED connBar
  <2>1. pc[t] # "open" /\ target' = target
    BY <1>5 DEF WaitTotal, LookupFound, LookupMissed, Enter, Relookup, PostTotal,
       LookupPost, At
  <2>2. \E label \in PCs \ {"open"} : pc' = [pc EXCEPT ![t] = label]
    BY <1>5 DEF WaitTotal, LookupFound, LookupMissed, Enter, Relookup, PostTotal,
       LookupPost, LookupOrAbort, Goto, PCs
  <2> QED BY <1>3, <2>1, <2>2
<1>6. ASSUME NEW t \in Threads, PostServer(t) PROVE UNCHANGED connBar
  BY <1>a, <1>3, <1>6 DEF PostServer, At, Goto, TypeOK, PCs
<1>7. CASE DisposeWhenUnused
  BY <1>7 DEF DisposeWhenUnused, FactoryDispose, connBar
<1>8. CASE UNCHANGED vars
  BY <1>8 DEF vars, connBar
<1> QED
  BY <1>1, <1>2, <1>4, <1>5, <1>6, <1>7, <1>8 DEF Next, InFactory, Pool!Next

(* The factory implements the abstract pool: never more than maxTotalConns  *)
(* connections are open, whichever threads race for which servers.          *)
THEOREM ImplementsPool == Spec => PoolSpec
<1>1. Init => Pool!Init
  BY DEF Init, Pool!Init, connBar
<1>2. Init => TableInv /\ TotalPermitsConserved
  BY TableInvInit, TotalPermitsInit
<1>3. TableInv /\ TotalPermitsConserved /\ [Next]_vars
        => (TableInv /\ TotalPermitsConserved)'
  BY TableInvStep, TotalPermitsStep
<1>4. TableInv /\ TotalPermitsConserved /\ [Next]_vars => [Pool!Next]_connBar
  BY PoolStep
<1> QED BY <1>1, <1>2, <1>3, <1>4, PTL DEF Spec, PoolSpec, Pool!Spec

-----------------------------------------------------------------------------
(* So can the holders of the permits of one server.                         *)
LEMMA ServerHoldersFinite ==
  ASSUME NEW s
  PROVE  /\ IsFiniteSet(ServerHolders(s))
         /\ Cardinality(ServerHolders(s)) \in Nat
<1>1. ServerHolders(s) \in SUBSET Threads
  BY DEF ServerHolders
<1>2. IsFiniteSet(ServerHolders(s))
  BY <1>1, FS_Subset
<1> QED BY <1>2, FS_CardinalityType

(* What ServerPermits says of one server.                                   *)
PermitsInv(s) ==
  Present(s) => /\ PermitsOf(s) <= MaxServerConns * entered[s]
                /\ entered[s] = 1 => PermitsOf(s) = MaxServerConns

(* A server whose bucket is its own has its entry in the first slot.        *)
LEMMA FirstSlot ==
  ASSUME TableInv, NEW s \in Servers, Alone(s), Present(s)
  PROVE  /\ Hash[s] \in Buckets
         /\ DOMAIN table[Hash[s]].slots = {1}
         /\ table[Hash[s]].slots[1] \in Slot
         /\ Slots(s) = table[Hash[s]].slots
<1>1. Slots(s) \in Seq(Slot) /\ Hash[s] \in Buckets
  BY DEF TableInv, TypeOK, Bucket, Slots
<1>2. Len(Slots(s)) <= 1
  BY DEF TableInv, OneSlot
<1>3. PICK i \in DOMAIN Slots(s) : TRUE
  BY DEF Present, PlacesOf, Places
<1>4. Len(Slots(s)) = 1 /\ DOMAIN Slots(s) = {1}
  <2>1. Len(Slots(s)) \in Nat /\ DOMAIN Slots(s) = 1..Len(Slots(s))
    BY <1>1
  <2>2. Len(Slots(s)) = 1
    BY <1>2, <1>3, <2>1
  <2> QED BY <2>1, <2>2
<1>5. Slots(s)[1] \in Slot
  <2>1. Slots(s) \in [DOMAIN Slots(s) -> Slot]
    BY <1>1
  <2> QED BY <1>4, <2>1
<1> QED BY <1>1, <1>4, <1>5 DEF Slots

(* A step that touches neither the entry of s nor the threads that hold a   *)
(* permit of s.                                                             *)
LEMMA PermitsUntouched ==
  ASSUME NEW s \in Servers, PermitsInv(s),
         Slots(s)' = Slots(s),
         ServerHolders(s)' = ServerHolders(s),
         entered'[s] = entered[s]
  PROVE  PermitsInv(s)'
BY DEF PermitsInv, PermitsOf, Present, PlacesOf, Places, Slots

(* TSHashSetEnter of s makes MaxServerConns new permits.                    *)
LEMMA PermitsEnter ==
  ASSUME TableInv, NEW s \in Servers, Alone(s), PermitsInv(s),
         NEW t \in Threads, target[t] = s, Enter(t)
  PROVE  PermitsInv(s)'
<1> DEFINE n == Cardinality(ServerHolders(s))
<1>1. /\ HashSetEnter(s)
      /\ entered' = [entered EXCEPT ![s] = @ + 1]
      /\ pc[t] = "enter"
      /\ pc' = [pc EXCEPT ![t] = "relookup"]
      /\ target' = target
  BY DEF Enter, At, Goto
<1>2. entered[s] \in Nat /\ entered'[s] = entered[s] + 1
  BY <1>1 DEF TableInv, TypeOK
<1>3. ServerHolders(s)' = ServerHolders(s)
  BY <1>1 DEF ServerHolders, TableInv, TypeOK
<1>4. n \in Nat
  BY ServerHoldersFinite
<1>5. CASE Present(s)
  <2>1. /\ DOMAIN table[Hash[s]].slots = {1}
        /\ table[Hash[s]].slots[1].sem \in Nat
    BY <1>5, FirstSlot DEF Slot
  <2>2. AddressOf(s).pos = 1
    BY <1>5, <2>1, AddressOfPresent DEF TableInv, Slots
  <2>3. table'[Hash[s]].slots[1] = NewSlot(s)
    BY <1>1, <1>5, <2>2, EnterReplaces DEF TableInv
  <2>4. PermitsOf(s)' = MaxServerConns + n
    BY <1>3, <2>3 DEF PermitsOf, Slots, NewSlot
  <2>5. n <= MaxServerConns * entered[s] /\ entered[s] > 0
    <3>1. PermitsOf(s) = table[Hash[s]].slots[1].sem + n
      BY DEF PermitsOf, Slots
    <3>2. PermitsOf(s) <= MaxServerConns * entered[s]
      BY <1>5 DEF PermitsInv
    <3>3. entered[s] > 0
      BY <1>5 DEF TableInv, EntriesCounted
    <3>4. MaxServerConns * entered[s] \in Nat
      BY <1>2
    <3> HIDE DEF n
    <3> QED BY <1>4, <2>1, <3>1, <3>2, <3>3, <3>4
  <2>6. MaxServerConns * (entered[s] + 1) = MaxServerConns * entered[s] + MaxServerConns
        /\ MaxServerConns * entered[s] \in Nat
    BY <1>2
  <2>7. PermitsOf(s)' <= MaxServerConns * entered'[s]
    <3> HIDE DEF n
    <3> QED BY <1>2, <1>4, <2>4, <2>5, <2>6
  <2>8. entered'[s] # 1
    BY <1>2, <2>5
  <2> QED BY <2>7, <2>8 DEF PermitsInv
<1>6. CASE ~Present(s)
  <2>1. Slots(s) = <<>>
    BY <1>6, AloneAbsent DEF TableInv
  <2>2. /\ table'[Hash[s]].slots \in Seq(Slot)
        /\ Len(table'[Hash[s]].slots) = 1
        /\ \E i \in DOMAIN table'[Hash[s]].slots : table'[Hash[s]].slots[i] = NewSlot(s)
    <3>1. /\ table' \in [Buckets -> Bucket]
          /\ Len(table'[Hash[s]].slots) = Len(table[Hash[s]].slots) + 1
          /\ \E i \in DOMAIN table'[Hash[s]].slots : table'[Hash[s]].slots[i] = NewSlot(s)
      BY <1>1, <1>6, EnterInserts DEF TableInv
    <3>2. Len(table[Hash[s]].slots) = 0
      BY <2>1 DEF Slots
    <3> QED BY <3>1, <3>2 DEF Bucket
  <2>3. table'[Hash[s]].slots[1] = NewSlot(s)
    BY <2>2
  <2>4. ServerHolders(s) = {}
    BY <1>6 DEF ServerHolders, TableInv, Registered
  <2>5. n = 0
    BY <2>4, FS_EmptySet
  <2>6. PermitsOf(s)' = MaxServerConns + n
    BY <1>3, <2>3 DEF PermitsOf, Slots, NewSlot
  <2>7. entered[s] = 0
    BY <1>2, <1>6 DEF TableInv, EntriesCounted
  <2> QED BY <1>2, <2>5, <2>6, <2>7 DEF PermitsInv
<1> QED BY <1>5, <1>6

(* A sem_wait or sem_post through the pointer of a thread whose target is s *)
(* reaches the semaphore of s.                                              *)
LEMMA OwnSemaphore ==
  ASSUME TableInv, NEW s \in Servers, Alone(s),
         NEW t \in Threads, target[t] = s, pc[t] \in {"waitServer", "postServer"}
  PROVE  /\ Present(s)
         /\ scs[t] \in Pointer
         /\ Allocated(scs[t])
         /\ scs[t].bucket = Hash[s]
         /\ scs[t].pos = 1
<1>1. Present(s)
  BY DEF TableInv, Registered
<1>2. /\ scs[t] \in Pointer
      /\ scs[t].bucket = Hash[s]
      /\ PointsTo(scs[t], s)
  BY DEF TableInv, PointersLocated
<1>3. Allocated(scs[t]) /\ scs[t].pos \in DOMAIN table[Hash[s]].slots
  BY <1>2 DEF PointsTo, Allocated
<1>4. scs[t].pos = 1
  BY <1>1, <1>3, FirstSlot
<1> QED BY <1>1, <1>2, <1>3, <1>4

(* ... and if its target is another server, it does not.                    *)
LEMMA OtherSemaphore ==
  ASSUME TableInv, NEW s \in Servers, Alone(s),
         NEW t \in Threads, target[t] # s, pc[t] \in {"waitServer", "postServer"},
         NEW n \in Nat,
         table' = IF Allocated(scs[t])
                  THEN [table EXCEPT ![scs[t].bucket].slots[scs[t].pos].sem = n]
                  ELSE table
  PROVE  Slots(s)' = Slots(s)
<1>1. target[t] \in Servers /\ scs[t].bucket = Hash[target[t]]
  BY DEF TableInv, TargetKnown, PointersLocated
<1>2. scs[t].bucket # Hash[s] /\ Hash[s] \in Buckets
  BY <1>1 DEF Alone
<1> QED BY <1>2 DEF Slots, TableInv, TypeOK

(* Every step keeps the account of the permits of s.                        *)
LEMMA PermitsStep ==
  ASSUME TableInv, [Next]_vars, NEW s \in Servers, Alone(s), PermitsInv(s)
  PROVE  PermitsInv(s)'
<1> DEFINE H == ServerHolders(s)
<1>a. TypeOK /\ TargetKnown
  BY DEF TableInv
<1>b. IsFiniteSet(H) /\ Cardinality(H) \in Nat
  BY ServerHoldersFinite
<1>1. ASSUME NEW t \in Threads, Enter(t) PROVE PermitsInv(s)'
  <2>1. CASE target[t] = s
    BY <1>1, <2>1, PermitsEnter
  <2>2. CASE target[t] # s
    <3>1. /\ HashSetEnter(target[t])
          /\ entered' = [entered EXCEPT ![target[t]] = @ + 1]
          /\ pc[t] = "enter"
          /\ pc' = [pc EXCEPT ![t] = "relookup"]
          /\ target' = target
      BY <1>1 DEF Enter, At, Goto
    <3>2. PICK r \in Servers : r = target[t]
      BY <1>a, <3>1 DEF TargetKnown
    <3>3. Hash[r] # Hash[s] /\ Hash[s] \in Buckets
      BY <2>2, <3>2 DEF Alone
    <3>4. table'[Hash[s]] = table[Hash[s]]
      BY <1>a, <3>1, <3>2, <3>3, EnterEffect
    <3>5. Slots(s)' = Slots(s)
      BY <3>4 DEF Slots
    <3>6. entered'[s] = entered[s]
      BY <1>a, <2>2, <3>1 DEF TypeOK
    <3>7. H' = H
      BY <1>a, <3>1 DEF ServerHolders, TypeOK
    <3> QED BY <3>5, <3>6, <3>7, PermitsUntouched
  <2> QED BY <2>1, <2>2
<1>2. ASSUME NEW t \in Threads, WaitServer(t) PROVE PermitsInv(s)'
  <2>0. /\ pc[t] = "waitServer"
        /\ Allocated(scs[t]) => SemAt(scs[t]) > 0
        /\ table' = IF Allocated(scs[t])
                    THEN [table EXCEPT ![scs[t].bucket].slots[scs[t].pos].sem = @ - 1]
                    ELSE table
        /\ pc' = [pc EXCEPT ![t] = "open"]
        /\ UNCHANGED <<target, entered>>
    BY <1>2 DEF WaitServer, At, Goto
  <2>1. CASE target[t] = s
    <3>1. /\ Present(s)
          /\ scs[t] \in Pointer
          /\ Allocated(scs[t])
          /\ scs[t].bucket = Hash[s]
          /\ scs[t].pos = 1
      BY <2>0, <2>1, OwnSemaphore
    <3>2. /\ Hash[s] \in Buckets
          /\ DOMAIN table[Hash[s]].slots = {1}
          /\ table[Hash[s]].slots[1] \in Slot
      BY <3>1, FirstSlot
    <3>3. PICK n \in Nat : n = table[Hash[s]].slots[1].sem - 1
      BY <2>0, <3>1, <3>2 DEF SemAt, Slot
    <3>4. table' = [table EXCEPT ![scs[t].bucket].slots[scs[t].pos].sem = n]
      BY <2>0, <3>1, <3>3
    <3>5. table'[Hash[s]].slots[1].sem = n
      BY <1>a, <3>1, <3>4, SemUpdated
    <3>6. H' = H \cup {t} /\ t \notin H
      BY <1>a, <2>0, <2>1 DEF ServerHolders, TypeOK
    <3>7. Cardinality(H') = Cardinality(H) + 1
      BY <1>b, <3>6, FS_AddElement
    <3>8. PermitsOf(s)' = PermitsOf(s)
      <4>1. table[Hash[s]].slots[1].sem \in Nat
        BY <3>2 DEF Slot
      <4>2. /\ PermitsOf(s) = table[Hash[s]].slots[1].sem + Cardinality(H)
            /\ PermitsOf(s)' = table'[Hash[s]].slots[1].sem + Cardinality(H')
        BY DEF PermitsOf, Slots
      <4> HIDE DEF H
      <4> QED BY <1>b, <3>3, <3>5, <3>7, <4>1, <4>2
    <3> QED BY <2>0, <3>1, <3>8 DEF PermitsInv
  <2>2. CASE target[t] # s
    <3>1. PICK n \in Nat : Allocated(scs[t]) => n = SemAt(scs[t]) - 1
      <4>1. Allocated(scs[t]) => SemAt(scs[t]) \in Nat
        BY <1>a, <2>0, SemIsNat DEF TableInv, PointersLocated
      <4> QED BY <2>0, <4>1
    <3>2. table' = IF Allocated(scs[t])
                   THEN [table EXCEPT ![scs[t].bucket].slots[scs[t].pos].sem = n]
                   ELSE table
      BY <2>0, <3>1 DEF SemAt
    <3>3. Slots(s)' = Slots(s)
      BY <2>0, <2>2, <3>2, OtherSemaphore
    <3>4. H' = H
      BY <1>a, <2>0, <2>2 DEF ServerHolders, TypeOK
    <3> QED BY <2>0, <3>3, <3>4, PermitsUntouched
  <2> QED BY <2>1, <2>2
<1>3. ASSUME NEW t \in Threads, PostServer(t) PROVE PermitsInv(s)'
  <2>0. /\ pc[t] = "postServer"
        /\ table' = IF Allocated(scs[t])
                    THEN [table EXCEPT ![scs[t].bucket].slots[scs[t].pos].sem = @ + 1]
                    ELSE table
        /\ pc' = [pc EXCEPT ![t] = "idle"]
        /\ target' = [target EXCEPT ![t] = NoServer]
        /\ UNCHANGED entered
    BY <1>3 DEF PostServer, At, Goto
  <2>1. CASE target[t] = s
    <3>1. /\ Present(s)
          /\ scs[t] \in Pointer
          /\ Allocated(scs[t])
          /\ scs[t].bucket = Hash[s]
          /\ scs[t].pos = 1
      BY <2>0, <2>1, OwnSemaphore
    <3>2. /\ Hash[s] \in Buckets
          /\ DOMAIN table[Hash[s]].slots = {1}
          /\ table[Hash[s]].slots[1] \in Slot
      BY <3>1, FirstSlot
    <3>3. PICK n \in Nat : n = table[Hash[s]].slots[1].sem + 1
      BY <3>2 DEF Slot
    <3>4. table' = [table EXCEPT ![scs[t].bucket].slots[scs[t].pos].sem = n]
      BY <2>0, <3>1, <3>3
    <3>5. table'[Hash[s]].slots[1].sem = n
      BY <1>a, <3>1, <3>4, SemUpdated
    <3>6. H' = H \ {t} /\ t \in H
      BY <1>a, <2>0, <2>1, NoServerAssumption DEF ServerHolders, TypeOK
    <3>7. Cardinality(H') = Cardinality(H) - 1
      BY <1>b, <3>6, FS_RemoveElement
    <3>8. PermitsOf(s)' = PermitsOf(s)
      <4>1. table[Hash[s]].slots[1].sem \in Nat
        BY <3>2 DEF Slot
      <4>2. /\ PermitsOf(s) = table[Hash[s]].slots[1].sem + Cardinality(H)
            /\ PermitsOf(s)' = table'[Hash[s]].slots[1].sem + Cardinality(H')
        BY DEF PermitsOf, Slots
      <4> HIDE DEF H
      <4> QED BY <1>b, <3>3, <3>5, <3>7, <4>1, <4>2
    <3> QED BY <2>0, <3>1, <3>8 DEF PermitsInv
  <2>2. CASE target[t] # s
    <3>1. PICK n \in Nat : Allocated(scs[t]) => n = SemAt(scs[t]) + 1
      <4>1. Allocated(scs[t]) => SemAt(scs[t]) \in Nat
        BY <1>a, <2>0, SemIsNat DEF TableInv, PointersLocated
      <4> QED BY <4>1
    <3>2. table' = IF Allocated(scs[t])
                   THEN [table EXCEPT ![scs[t].bucket].slots[scs[t].pos].sem = n]
                   ELSE table
      BY <2>0, <3>1 DEF SemAt
    <3>3. Slots(s)' = Slots(s)
      BY <2>0, <2>2, <3>2, OtherSemaphore
    <3>4. H' = H
      BY <1>a, <2>0, <2>2, NoServerAssumption DEF ServerHolders, TypeOK
    <3> QED BY <2>0, <3>3, <3>4, PermitsUntouched
  <2> QED BY <2>1, <2>2
<1>4. ASSUME NEW t \in Threads, NEW r \in Servers, CallNew(t, r) PROVE PermitsInv(s)'
  <2>1. Slots(s)' = Slots(s) /\ H' = H /\ entered' = entered
    BY <1>a, <1>4 DEF CallNew, At, Goto, ServerHolders, Slots, TypeOK
  <2> QED BY <2>1, PermitsUntouched
<1>5. ASSUME NEW t \in Threads,
             \/ WaitTotal(t) \/ LookupFound(t) \/ LookupMissed(t) \/ Relookup(t)
      PROVE  PermitsInv(s)'
  <2>1. /\ pc[t] \in {"waitTotal", "lookup", "relookup"}
        /\ \E label \in {"lookup", "enter", "waitServer", "aborted"} :
               pc' = [pc EXCEPT ![t] = label]
        /\ UNCHANGED <<table, target, entered>>
    BY <1>5 DEF WaitTotal, LookupFound, LookupMissed, Relookup, LookupOrAbort, At, Goto
  <2>2. Slots(s)' = Slots(s) /\ H' = H /\ entered' = entered
    BY <1>a, <2>1 DEF ServerHolders, Slots, TypeOK
  <2> QED BY <2>2, PermitsUntouched
<1>6. ASSUME NEW t \in Threads, CallDispose(t) \/ PostTotal(t) \/ LookupPost(t)
      PROVE  PermitsInv(s)'
  <2>1. /\ pc[t] \in {"open", "postTotal", "lookupPost"}
        /\ \E label \in {"postTotal", "lookupPost", "postServer"} :
               pc' = [pc EXCEPT ![t] = label]
        /\ UNCHANGED <<table, target, entered>>
    BY <1>6 DEF CallDispose, PostTotal, LookupPost, LookupOrAbort, At, Goto,
       TableInv, Registered
  <2>2. Slots(s)' = Slots(s) /\ H' = H /\ entered' = entered
    BY <1>a, <2>1 DEF ServerHolders, Slots, TypeOK
  <2> QED BY <2>2, PermitsUntouched
<1>7. CASE DisposeWhenUnused \/ UNCHANGED vars
  <2>1. Slots(s)' = Slots(s) /\ H' = H /\ entered' = entered
    BY <1>7 DEF DisposeWhenUnused, FactoryDispose, vars, ServerHolders, Slots
  <2> QED BY <2>1, PermitsUntouched
<1> QED
  BY <1>1, <1>2, <1>3, <1>4, <1>5, <1>6, <1>7 DEF Next, InFactory

(* A server whose name shares its bucket with no other never has more than  *)
(* MaxServerConns permits for each time it was entered; entered once, it    *)
(* has exactly MaxServerConns.                                              *)
THEOREM ServerAccount == Spec => []ServerPermits
<1>1. Init => TableInv /\ ServerPermits
  <2>1. Init => \A s \in Servers : ~Present(s)
    BY DEF Init, Slots, Present, PlacesOf, Places, EmptyBucket
  <2> QED BY <2>1, TableInvInit DEF ServerPermits
<1>2. TableInv /\ ServerPermits /\ [Next]_vars => (TableInv /\ ServerPermits)'
  <2> SUFFICES ASSUME TableInv, ServerPermits, [Next]_vars PROVE ServerPermits'
    BY TableInvStep
  <2>1. ASSUME NEW s \in Servers, Alone(s) PROVE PermitsInv(s)'
    <3>1. PermitsInv(s)
      BY <2>1 DEF ServerPermits, PermitsInv
    <3> QED BY <2>1, <3>1, PermitsStep
  <2> QED BY <2>1 DEF ServerPermits, PermitsInv, Alone
<1> QED BY <1>1, <1>2, PTL DEF Spec

(* The limit that follows for the connections: never more than              *)
(* MaxServerConns are open to a server that has a bucket of its own and     *)
(* that no two threads entered.                                             *)
THEOREM ServerLimitKept ==
  Spec => [](\A s \in Servers : Alone(s) /\ entered[s] <= 1
                => Cardinality(OpenTo(s)) <= MaxServerConns)
<1>1. TableInv /\ ServerPermits =>
        \A s \in Servers : Alone(s) /\ entered[s] <= 1
            => Cardinality(OpenTo(s)) <= MaxServerConns
  <2> SUFFICES ASSUME TableInv, ServerPermits, NEW s \in Servers, Alone(s),
                      entered[s] <= 1
               PROVE  Cardinality(OpenTo(s)) <= MaxServerConns
    OBVIOUS
  <2>1. /\ OpenTo(s) \in SUBSET ServerHolders(s)
        /\ IsFiniteSet(ServerHolders(s))
        /\ Cardinality(ServerHolders(s)) \in Nat
    BY ServerHoldersFinite DEF OpenTo, ServerHolders
  <2>2. Cardinality(OpenTo(s)) <= Cardinality(ServerHolders(s))
        /\ Cardinality(OpenTo(s)) \in Nat
    BY <2>1, FS_Subset, FS_CardinalityType
  <2>3. CASE Present(s)
    <3>1. table[Hash[s]].slots[1].sem \in Nat
      BY <2>3, FirstSlot DEF Slot
    <3>2. entered[s] = 1
      BY <2>3 DEF TableInv, TypeOK, EntriesCounted
    <3>3. table[Hash[s]].slots[1].sem + Cardinality(ServerHolders(s)) = MaxServerConns
      BY <2>3, <3>2 DEF ServerPermits, PermitsOf, Slots
    <3> QED BY <2>1, <2>2, <3>1, <3>3
  <2>4. CASE ~Present(s)
    <3>1. OpenTo(s) = {}
      BY <2>4 DEF OpenTo, TableInv, Registered
    <3> QED BY <3>1, FS_EmptySet
  <2> QED BY <2>3, <2>4
<1> QED BY <1>1, TableSafe, ServerAccount, PTL
=============================================================================
