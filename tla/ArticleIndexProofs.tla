------------------------- MODULE ArticleIndexProofs -------------------------
(***************************************************************************)
(* Proofs about ArticleIndex, for any articles, documents, words and hash  *)
(* function.                                                               *)
(***************************************************************************)
EXTENDS ArticleIndex, SlotTableProofs, FunctionTheorems, SequenceTheorems,
        WellFoundedInduction

-----------------------------------------------------------------------------
(***************************************************************************)
(* The inductive invariant.                                                *)
(***************************************************************************)
\* Places of AddWordToIndices, and of them those with a pointer.
InAddWord   == {"enter", "relookup", "find", "attach", "count", "nth", "load", "store"}
UsesEntry   == {"find", "attach", "count", "nth"}
UsesElement == {"load", "store"}

\* A thread in ScanArticle has an id, in AddWordToIndices a word, and with
\* it the pointers it goes on with; its own article was appended.
CursorOf(t) ==
    /\ pc[t] \in {"scan"} \cup InAddWord => articleID[t] \in Nat
    /\ pc[t] \in InAddWord => token[t] \in DOMAIN Text[doc[t]]
    /\ pc[t] \in UsesEntry => entry[t] \in SlotPointer
    /\ pc[t] \in UsesElement => elem[t] \in ElemPointer
    /\ pc[t] = "length" => Len(seen) > 0
    /\ articleID[t] # NoArticle => articleID[t] < Len(seen)

CursorSet == \A t \in Articles : CursorOf(t)

\* Every slot came with a vector of its own.
SlotsCounted == \A b \in Buckets : Len(table[b].slots) <= vectors

Known(elems) == \A i \in DOMAIN elems : elems[i].article < Len(seen)

ElementsKnown ==
    \A b \in Buckets : \A i \in DOMAIN table[b].slots : Known(table[b].slots[i].vec.elems)

IndexInv == /\ TypeOK
            /\ CursorSet
            /\ SlotsCounted
            /\ ElementsKnown

-----------------------------------------------------------------------------
(* A set of natural numbers has a least one.                                *)
LEMMA LeastNumber ==
  ASSUME NEW T, T \subseteq Nat, T # {}
  PROVE  \E n \in T : \A m \in T : n <= m
<1> DEFINE R == OpToRel(<, Nat)
<1>1. IsWellFoundedOn(R, Nat)
  BY NatLessThanWellFounded, Zenon
<1>2. \A m, n \in Nat : m < n => <<m, n>> \in R
  BY DEF OpToRel
<1> HIDE DEF R
<1>3. \E n \in T : \A m \in T : ~ (<<m, n>> \in R)
  BY <1>1, WFMin
<1>4. PICK n \in T : \A m \in T : ~ (m < n)
  BY <1>2, <1>3, Zenon
<1> QED BY <1>4

(* A bucket of word indices is a bucket of slots.                           *)
LEMMA BucketIsBucketOf == Bucket = BucketOf(Slot)
BY DEF Bucket, BucketOf

(* The documents have words, and a thread in AddWordToIndices has one.      *)
LEMMA WordKnown ==
  ASSUME TypeOK, NEW t \in Articles
  PROVE  /\ Text[doc[t]] \in Seq(Words)
         /\ token[t] \in DOMAIN Text[doc[t]] =>
               Word(t) \in Words /\ Hash[Word(t)] \in Buckets
<1>1. doc[t] \in Docs
  BY DEF TypeOK
<1>2. Text[doc[t]] \in Seq(Words)
  BY <1>1, DocAssumption
<1> QED BY <1>2, WordAssumption DEF Word

(* What a step of thread t leaves to the others.                            *)
LEMMA OthersKeep ==
  ASSUME IndexInv, NEW t \in Articles, Len(seen') >= Len(seen), TypeOK',
         \A u \in Articles \ {t} :
            /\ pc'[u] = pc[u] /\ doc'[u] = doc[u] /\ articleID'[u] = articleID[u]
            /\ token'[u] = token[u] /\ entry'[u] = entry[u] /\ elem'[u] = elem[u],
         CursorOf(t)'
  PROVE  CursorSet'
<1> SUFFICES ASSUME NEW u \in Articles PROVE CursorOf(u)'
  BY DEF CursorSet
<1>1. CASE u = t
  BY <1>1
<1>2. CASE u # t
  <2>1. CursorOf(u)
    BY DEF IndexInv, CursorSet
  <2>2. Len(seen) \in Nat /\ Len(seen') \in Nat
    BY DEF IndexInv, TypeOK
  <2>3. articleID[u] \in Nat \cup {NoArticle}
    BY DEF IndexInv, TypeOK
  <2> QED BY <1>2, <2>1, <2>2, <2>3, NoArticleAssumption DEF CursorOf
<1> QED BY <1>1, <1>2

LEMMA SameTable ==
  ASSUME IndexInv, UNCHANGED <<table, vectors>>, Len(seen') >= Len(seen), TypeOK'
  PROVE  SlotsCounted' /\ ElementsKnown'
<1>1. Len(seen) \in Nat /\ Len(seen') \in Nat
  BY DEF IndexInv, TypeOK
<1>2. ASSUME NEW b \in Buckets, NEW i \in DOMAIN table[b].slots,
             NEW j \in DOMAIN table[b].slots[i].vec.elems
      PROVE  table[b].slots[i].vec.elems[j].article < Len(seen')
  <2>1. table[b] \in Bucket
    BY DEF IndexInv, TypeOK
  <2>2. table[b].slots[i] \in Slot
    BY <2>1 DEF Bucket
  <2>3. table[b].slots[i].vec.elems[j] \in Relevant
    BY <2>2 DEF Slot, Vector
  <2>4. table[b].slots[i].vec.elems[j].article < Len(seen)
    BY DEF IndexInv, ElementsKnown, Known
  <2> QED BY <1>1, <2>3, <2>4 DEF Relevant
<1> QED BY <1>2 DEF IndexInv, SlotsCounted, ElementsKnown, Known

-----------------------------------------------------------------------------
(* The index starts empty.                                                  *)
LEMMA IndexInit == Init => IndexInv
<1> SUFFICES ASSUME Init PROVE IndexInv
  OBVIOUS
<1>1. table \in [Buckets -> Bucket] /\ seen = <<>> /\ vectors = 0
  BY AllocAssumption DEF Init, EmptyBucket, Bucket
<1>2. TypeOK
  BY <1>1, DocAssumption, BoundAssumption DEF Init, TypeOK, PCs
<1>3. SlotsCounted /\ ElementsKnown
  BY DEF Init, EmptyBucket, SlotsCounted, ElementsKnown
<1>4. CursorSet
  BY DEF Init, CursorSet, CursorOf, InAddWord, UsesEntry, UsesElement
<1> QED BY <1>2, <1>3, <1>4 DEF IndexInv

(* ParseArticle up to the scan.                                             *)
LEMMA ParseKeeps ==
  ASSUME IndexInv, NEW t \in Articles, Parse(t) \/ EndOfText(t) \/ SkipStopWord(t)
  PROVE  IndexInv'
<1> USE DEF At, Goto, database, cursor
<1>1. ASSUME NEW label \in {"connect", "append", "search", "done"},
             pc' = [pc EXCEPT ![t] = label],
             doc' \in [Articles -> Docs], hops' \in 0..MaxRedirects,
             \A u \in Articles \ {t} : doc'[u] = doc[u],
             UNCHANGED <<database, articleID, token, cursor, listed, failure>>
      PROVE  IndexInv'
  <2>1. TypeOK'
    BY <1>1 DEF IndexInv, TypeOK, PCs
  <2>2. CursorOf(t)'
    BY <1>1 DEF IndexInv, TypeOK, CursorSet, CursorOf, InAddWord, UsesEntry, UsesElement
  <2>3. Len(seen') >= Len(seen)
    BY <1>1 DEF IndexInv, TypeOK
  <2>4. CursorSet'
    BY <1>1, <2>1, <2>2, <2>3, OthersKeep DEF IndexInv, TypeOK
  <2> QED BY <1>1, <2>1, <2>3, <2>4, SameTable DEF IndexInv
<1>2. CASE Ignore(t) \/ SearchMissed(t) \/ AnswerOK(t) \/ AnswerOther(t) \/ EndOfText(t)
  BY <1>1, <1>2 DEF Ignore, SearchMissed, AnswerOK, AnswerOther, EndOfText, IndexInv, TypeOK
<1>3. CASE AnswerRedirect(t)
  <2>1. PICK d \in RedirectsTo[doc[t]] : doc' = [doc EXCEPT ![t] = d]
    BY <1>3 DEF AnswerRedirect
  <2>2. doc[t] \in Docs
    BY DEF IndexInv, TypeOK
  <2>3. d \in Docs
    BY <2>1, <2>2, DocAssumption
  <2>4. doc' \in [Articles -> Docs] /\ \A u \in Articles \ {t} : doc'[u] = doc[u]
    BY <2>1, <2>3 DEF IndexInv, TypeOK
  <2>5. hops' \in 0..MaxRedirects
    BY <1>3, BoundAssumption DEF AnswerRedirect, IndexInv, TypeOK
  <2> QED BY <1>1, <1>3, <2>4, <2>5 DEF AnswerRedirect
<1>4. CASE AppendSeen(t)
  <2>1. Article(t) \in [title : {Item[u].title : u \in Articles}, doc : Docs]
    BY DEF Article, IndexInv, TypeOK
  <2>2. /\ seen' \in Seq([title : {Item[u].title : u \in Articles}, doc : Docs])
        /\ Len(seen') = Len(seen) + 1 /\ Len(seen) \in Nat
    BY <1>4, <2>1 DEF AppendSeen, IndexInv, TypeOK
  <2>3. TypeOK'
    BY <1>4, <2>2 DEF AppendSeen, IndexInv, TypeOK, PCs
  <2>4. CursorOf(t)'
    <3>1. CursorOf(t) /\ articleID[t] \in Nat \cup {NoArticle}
      BY DEF IndexInv, TypeOK, CursorSet
    <3> QED BY <1>4, <2>2, <3>1, NoArticleAssumption
            DEF AppendSeen, IndexInv, TypeOK, CursorOf, InAddWord, UsesEntry, UsesElement
  <2>5. Len(seen') >= Len(seen)
    BY <2>2
  <2>6. CursorSet'
    BY <1>4, <2>3, <2>4, <2>5, OthersKeep DEF AppendSeen, IndexInv, TypeOK
  <2> QED BY <1>4, <2>3, <2>5, <2>6, SameTable DEF AppendSeen, IndexInv
<1>5. CASE LengthSeen(t)
  <2>1. Len(seen) \in Nat /\ Len(seen) > 0 /\ Len(seen) - 1 \in Nat
    BY <1>5 DEF LengthSeen, IndexInv, TypeOK, CursorSet, CursorOf
  <2>2. seen' = seen /\ Len(seen') >= Len(seen)
    BY <1>5, <2>1 DEF LengthSeen
  <2>3. /\ articleID' \in [Articles -> Nat \cup {NoArticle}]
        /\ articleID'[t] = Len(seen) - 1
        /\ \A u \in Articles \ {t} : articleID'[u] = articleID[u]
    BY <1>5, <2>1 DEF LengthSeen, IndexInv, TypeOK
  <2>4. TypeOK'
    BY <1>5, <2>3 DEF LengthSeen, IndexInv, TypeOK, PCs
  <2>5. CursorOf(t)'
    BY <1>5, <2>1, <2>2, <2>3
    DEF LengthSeen, IndexInv, TypeOK, CursorOf, InAddWord, UsesEntry, UsesElement
  <2>6. CursorSet'
    BY <1>5, <2>2, <2>3, <2>4, <2>5, OthersKeep DEF LengthSeen, IndexInv, TypeOK
  <2> QED BY <1>5, <2>2, <2>4, <2>6, SameTable DEF LengthSeen, IndexInv
<1>6. CASE SkipStopWord(t)
  <2>1. TypeOK' /\ Len(seen') >= Len(seen)
    BY <1>6 DEF SkipStopWord, Scanning, IndexInv, TypeOK
  <2>2. CursorOf(t)'
    BY <1>6 DEF SkipStopWord, Scanning, IndexInv, TypeOK, CursorSet, CursorOf, InAddWord,
       UsesEntry, UsesElement
  <2>3. CursorSet'
    BY <1>6, <2>1, <2>2, OthersKeep DEF SkipStopWord, Scanning, IndexInv, TypeOK
  <2> QED BY <1>6, <2>1, <2>3, SameTable DEF SkipStopWord, IndexInv
<1> QED BY <1>2, <1>3, <1>4, <1>5, <1>6 DEF Parse

-----------------------------------------------------------------------------
(* The address of a word that is present is a pointer to its slot.          *)
LEMMA AddressOfPresent ==
  ASSUME TypeOK, NEW w \in Words, Present(w)
  PROVE  /\ Hash[w] \in Buckets
         /\ AddressOf(w) \in SlotPointer
         /\ AddressOf(w).bucket = Hash[w]
         /\ AddressOf(w).pos = PlaceOf(table[Hash[w]].slots, w)
         /\ Allocated(AddressOf(w))
         /\ table[Hash[w]].slots[AddressOf(w).pos].key = w
<1>1. Hash[w] \in Buckets /\ table[Hash[w]] \in Bucket
  BY WordAssumption DEF TypeOK
<1>2. table[Hash[w]].slots \in Seq(Slot) /\ table[Hash[w]].gen \in Nat
  BY <1>1 DEF Bucket
<1>3. /\ PlaceOf(table[Hash[w]].slots, w) \in DOMAIN table[Hash[w]].slots
      /\ PlaceOf(table[Hash[w]].slots, w) \in Nat \ {0}
      /\ table[Hash[w]].slots[PlaceOf(table[Hash[w]].slots, w)].key = w
  BY <1>2, PlaceOfPresent DEF Present
<1> QED BY <1>1, <1>2, <1>3 DEF AddressOf, SlotPointer, Allocated

(* The vector in a slot is a vector of elements that are known.             *)
LEMMA VectorInSlot ==
  ASSUME TypeOK, NEW b \in Buckets, NEW i \in DOMAIN table[b].slots
  PROVE  /\ table[b].slots[i] \in Slot
         /\ table[b].slots[i].vec \in Vector
         /\ table[b].slots[i].vec.elems \in Seq(Relevant)
<1>1. table[b] \in Bucket
  BY DEF TypeOK
<1>2. table[b].slots[i] \in Slot
  BY <1>1 DEF Bucket
<1> QED BY <1>2 DEF Slot, Vector

WithVector(b, i, v) == [table EXCEPT ![b].slots[i].vec = v]

(* A step that writes into the vector of one slot leaves the rest.          *)
LEMMA VectorWritten ==
  ASSUME TypeOK, NEW b \in Buckets, NEW i \in DOMAIN table[b].slots, NEW v \in Vector,
         table' = WithVector(b, i, v)
  PROVE  /\ table' \in [Buckets -> Bucket]
         /\ table'[b].slots[i].vec = v
         /\ \A c \in Buckets :
               /\ table'[c].gen = table[c].gen
               /\ Len(table'[c].slots) = Len(table[c].slots)
               /\ DOMAIN table'[c].slots = DOMAIN table[c].slots
               /\ \A j \in DOMAIN table[c].slots :
                     /\ table'[c].slots[j].key = table[c].slots[j].key
                     /\ ~(c = b /\ j = i) => table'[c].slots[j] = table[c].slots[j]
<1> DEFINE old == table[b].slots
           slot == [old[i] EXCEPT !.vec = v]
           new == [old EXCEPT ![i] = slot]
<1>1. table[b] \in Bucket /\ old \in Seq(Slot) /\ old[i] \in Slot
  BY DEF TypeOK, Bucket
<1>2. slot \in Slot /\ slot.vec = v /\ slot.key = old[i].key
  BY <1>1 DEF Slot
<1> HIDE DEF slot
<1>3. /\ new \in Seq(Slot) /\ Len(new) = Len(old) /\ DOMAIN new = DOMAIN old
      /\ new[i] = slot
      /\ \A j \in DOMAIN old : j # i => new[j] = old[j]
  BY <1>1, <1>2
<1>4. table' = [table EXCEPT ![b] = [table[b] EXCEPT !.slots = new]]
  BY DEF slot, WithVector
<1> HIDE DEF new
<1>5. /\ table'[b] = [table[b] EXCEPT !.slots = new]
      /\ \A c \in Buckets : c # b => table'[c] = table[c]
  BY <1>1, <1>4 DEF TypeOK
<1>6. /\ table'[b] \in Bucket /\ table'[b].slots = new
      /\ table'[b].gen = table[b].gen
  BY <1>1, <1>3, <1>5 DEF Bucket
<1>7. table' \in [Buckets -> Bucket]
  BY <1>4, <1>5, <1>6 DEF TypeOK
<1>8. ASSUME NEW c \in Buckets
      PROVE  /\ table'[c].gen = table[c].gen
             /\ Len(table'[c].slots) = Len(table[c].slots)
             /\ DOMAIN table'[c].slots = DOMAIN table[c].slots
             /\ \A j \in DOMAIN table[c].slots :
                   /\ table'[c].slots[j].key = table[c].slots[j].key
                   /\ ~(c = b /\ j = i) => table'[c].slots[j] = table[c].slots[j]
  <2>1. CASE c = b
    BY <1>2, <1>3, <1>6, <2>1
  <2>2. CASE c # b
    BY <1>5, <2>2
  <2> QED BY <2>1, <2>2
<1>9. table'[b].slots[i].vec = v
  BY <1>2, <1>3, <1>6
<1> QED BY <1>7, <1>8, <1>9

(* So the index keeps its slots, and its elements are known if those        *)
(* written are.                                                             *)
LEMMA VectorWrittenKeeps ==
  ASSUME IndexInv, NEW b \in Buckets, NEW i \in DOMAIN table[b].slots, NEW v \in Vector,
         table' = WithVector(b, i, v),
         UNCHANGED <<seen, vectors>>,
         \A j \in DOMAIN v.elems : v.elems[j].article < Len(seen)
  PROVE  table' \in [Buckets -> Bucket] /\ SlotsCounted' /\ ElementsKnown'
<1>1. /\ table' \in [Buckets -> Bucket]
      /\ table'[b].slots[i].vec = v
      /\ \A c \in Buckets :
            /\ Len(table'[c].slots) = Len(table[c].slots)
            /\ DOMAIN table'[c].slots = DOMAIN table[c].slots
            /\ \A j \in DOMAIN table[c].slots :
                  ~(c = b /\ j = i) => table'[c].slots[j] = table[c].slots[j]
  <2>1. TypeOK
    BY DEF IndexInv
  <2> QED BY <2>1, VectorWritten
<1>2. SlotsCounted'
  BY <1>1 DEF IndexInv, SlotsCounted
<1>3. ASSUME NEW c \in Buckets, NEW j \in DOMAIN table[c].slots
      PROVE  \A k \in DOMAIN table'[c].slots[j].vec.elems :
                table'[c].slots[j].vec.elems[k].article < Len(seen)
  BY <1>1 DEF IndexInv, ElementsKnown, Known
<1>4. ElementsKnown'
  BY <1>1, <1>3 DEF ElementsKnown, Known
<1> QED BY <1>1, <1>2, <1>4

(* VectorAppend, wherever realloc leaves the array.                         *)
LEMMA AppendedVector ==
  ASSUME NEW v \in Vector, NEW id \in Nat, NEW x \in Appended(v, id)
  PROVE  /\ x \in Vector
         /\ \A j \in DOMAIN x.elems : \/ x.elems[j].article = id
                                      \/ j \in DOMAIN v.elems /\ x.elems[j] = v.elems[j]
<1> DEFINE new == [article |-> id, freq |-> 0]
           longer == Append(v.elems, new)
<1>1. new \in Relevant /\ v.elems \in Seq(Relevant) /\ new.article = id
  BY DEF Relevant, Vector
<1>2. longer \in Seq(Relevant)
  BY <1>1
<1>3. \A j \in DOMAIN longer : \/ longer[j] = new
                               \/ j \in DOMAIN v.elems /\ longer[j] = v.elems[j]
  <2> HIDE DEF new
  <2> QED BY <1>1
<1>4. x \in Vector /\ x.elems = longer
  <2>1. longer = Append(v.elems, [article |-> id, freq |-> 0])
    OBVIOUS
  <2> HIDE DEF longer, new
  <2>2. CASE v.alloc = Len(v.elems)
    <3>1. PICK g \in {v.gen, v.gen + 1} :
              x = [v EXCEPT !.gen = g, !.alloc = v.alloc + VectorAlloc, !.elems = longer]
      BY <2>1, <2>2 DEF Appended
    <3>2. g \in Nat /\ v.alloc + VectorAlloc \in Nat
      BY BoundAssumption DEF Vector
    <3> QED BY <1>2, <3>1, <3>2 DEF Vector
  <2>3. CASE v.alloc # Len(v.elems)
    BY <1>2, <2>1, <2>3 DEF Appended, Vector
  <2> QED BY <2>2, <2>3
<1> HIDE DEF new, longer
<1> QED BY <1>1, <1>3, <1>4

-----------------------------------------------------------------------------
(* AddWordToIndices.                                                        *)
LEMMA LookupKeeps ==
  ASSUME IndexInv, NEW t \in Articles, LookupFound(t) \/ LookupMissed(t) \/ Relookup(t)
  PROVE  IndexInv'
<1> USE DEF At, Goto, database, cursor
<1>1. /\ Len(seen) \in Nat /\ Len(seen') >= Len(seen)
      /\ token[t] \in DOMAIN Text[doc[t]]
      /\ Word(t) \in Words /\ Hash[Word(t)] \in Buckets
  <2>1. token[t] \in DOMAIN Text[doc[t]] /\ seen' = seen
    BY DEF LookupFound, LookupMissed, Relookup, Indexing, Scanning, IndexInv, CursorSet,
       CursorOf, InAddWord
  <2> QED BY <2>1, WordKnown DEF IndexInv, TypeOK
<1>2. Present(Word(t)) => AddressOf(Word(t)) \in SlotPointer
  BY <1>1, AddressOfPresent DEF IndexInv
<1>3. TypeOK'
  BY <1>2, Zenon DEF LookupFound, LookupMissed, Relookup, Indexing, Scanning, IndexInv, TypeOK, PCs
<1>4. CursorOf(t)'
  BY <1>1, <1>2 DEF LookupFound, LookupMissed, Relookup, Indexing, Scanning, IndexInv, TypeOK,
     CursorSet, CursorOf, InAddWord, UsesEntry, UsesElement
<1>5. CursorSet'
  BY <1>1, <1>3, <1>4, OthersKeep
  DEF LookupFound, LookupMissed, Relookup, Indexing, Scanning, IndexInv, TypeOK
<1> QED BY <1>1, <1>3, <1>5, SameTable DEF LookupFound, LookupMissed, Relookup, IndexInv

LEMMA EnterKeeps ==
  ASSUME IndexInv, NEW t \in Articles, Enter(t) PROVE IndexInv'
<1> USE DEF At, Goto, database, cursor
<1> DEFINE w == Word(t)
           h == Hash[w]
           e == NewSlot(w)
<1>1. /\ token[t] \in DOMAIN Text[doc[t]] /\ w \in Words /\ h \in Buckets
      /\ table[h] \in BucketOf(Slot) /\ vectors \in Nat
  <2>1. token[t] \in DOMAIN Text[doc[t]]
    BY DEF Enter, IndexInv, CursorSet, CursorOf, InAddWord
  <2> QED BY <2>1, WordKnown, BucketIsBucketOf DEF IndexInv, TypeOK
<1>2. e \in Slot /\ e.vec.elems = <<>>
  BY <1>1, BoundAssumption DEF NewSlot, Slot, Vector
<1>3. PICK c \in Entered(table[h], e) : table' = [table EXCEPT ![h] = c]
  BY DEF Enter
<1>4. /\ c \in Bucket
      /\ Len(c.slots) <= Len(table[h].slots) + 1
      /\ \A k \in DOMAIN c.slots : \/ c.slots[k] = e
                                   \/ \E j \in DOMAIN table[h].slots : c.slots[k] = table[h].slots[j]
  <2> HIDE DEF h, e
  <2> QED BY <1>1, <1>2, <1>3, EnteredBucket, BucketIsBucketOf
<1> HIDE DEF w, h, e
<1>5. /\ table' \in [Buckets -> Bucket]
      /\ table'[h] = c
      /\ \A b \in Buckets : b # h => table'[b] = table[b]
  BY <1>1, <1>3, <1>4 DEF IndexInv, TypeOK
<1>6. vectors' = vectors + 1 /\ seen' = seen
  BY DEF Enter
<1>7. SlotsCounted'
  <2>1. ASSUME NEW b \in Buckets PROVE Len(table'[b].slots) <= vectors + 1
    <3>1. /\ Len(table[b].slots) \in Nat /\ Len(c.slots) \in Nat
          /\ Len(table[b].slots) <= vectors
      BY <1>4 DEF IndexInv, TypeOK, SlotsCounted, Bucket
    <3> QED BY <1>1, <1>4, <1>5, <3>1
  <2> QED BY <1>6, <2>1 DEF SlotsCounted
<1>8. ElementsKnown'
  <2>1. ASSUME NEW b \in Buckets, NEW i \in DOMAIN table'[b].slots
        PROVE  \A k \in DOMAIN table'[b].slots[i].vec.elems :
                  table'[b].slots[i].vec.elems[k].article < Len(seen)
    <3>1. CASE b = h
      BY <1>1, <1>2, <1>4, <1>5, <3>1 DEF IndexInv, ElementsKnown, Known
    <3>2. CASE b # h
      BY <1>5, <3>2 DEF IndexInv, ElementsKnown, Known
    <3> QED BY <3>1, <3>2
  <2> QED BY <1>6, <2>1 DEF ElementsKnown, Known
<1>9. TypeOK'
  BY <1>1, <1>5, <1>6 DEF Enter, IndexInv, TypeOK, PCs
<1>10. CursorOf(t)'
  BY <1>1 DEF Enter, IndexInv, TypeOK, CursorSet, CursorOf, InAddWord, UsesEntry, UsesElement
<1>11. Len(seen') >= Len(seen)
  BY <1>6 DEF IndexInv, TypeOK
<1>12. CursorSet'
  BY <1>9, <1>10, <1>11, OthersKeep DEF Enter, IndexInv, TypeOK
<1> QED BY <1>7, <1>8, <1>9, <1>12 DEF IndexInv

(* A thread that uses the vector of its entry points to a slot.             *)
LEMMA EntryInTable ==
  ASSUME IndexInv, NEW t \in Articles, pc[t] \in UsesEntry, Allocated(entry[t])
  PROVE  /\ entry[t] \in SlotPointer
         /\ entry[t].bucket \in Buckets
         /\ entry[t].pos \in DOMAIN table[entry[t].bucket].slots
         /\ VectorAt(entry[t]) \in Vector
         /\ ElemsAt(entry[t]) \in Seq(Relevant)
         /\ articleID[t] \in Nat /\ articleID[t] < Len(seen)
         /\ token[t] \in DOMAIN Text[doc[t]]
<1>1. /\ entry[t] \in SlotPointer /\ articleID[t] \in Nat
      /\ token[t] \in DOMAIN Text[doc[t]] /\ articleID[t] < Len(seen)
  BY NoArticleAssumption DEF IndexInv, CursorSet, CursorOf, InAddWord, UsesEntry
<1>2. entry[t].bucket \in Buckets /\ entry[t].pos \in DOMAIN table[entry[t].bucket].slots
  BY <1>1 DEF SlotPointer, Allocated
<1> QED BY <1>1, <1>2, VectorInSlot DEF VectorAt, ElemsAt, IndexInv

LEMMA FindKeeps ==
  ASSUME IndexInv, NEW t \in Articles,
         FindOld(t) \/ FindNew(t) \/ Count(t) \/ Nth(t) \/ UseDangling(t)
  PROVE  IndexInv'
<1> USE DEF At, Goto, UsesVector, database, cursor
<1>1. CASE UseDangling(t)
  <2>1. TypeOK' /\ Len(seen') >= Len(seen)
    BY <1>1 DEF UseDangling, IndexInv, TypeOK
  <2>2. CursorOf(t)'
    BY <1>1 DEF UseDangling, IndexInv, CursorSet, CursorOf
  <2>3. CursorSet'
    BY <1>1, <2>1, <2>2, OthersKeep DEF UseDangling
  <2> QED BY <1>1, <2>1, <2>3, SameTable DEF UseDangling, IndexInv
<1>2. CASE FindOld(t) \/ FindNew(t) \/ Count(t) \/ Nth(t)
  <2>1. /\ pc[t] \in UsesEntry /\ Allocated(entry[t])
        /\ UNCHANGED <<seen, table, vectors, doc, articleID, token, entry, freq, hops, listed>>
    BY <1>2 DEF FindOld, FindNew, Count, Nth, UsesEntry
  <2>2. /\ entry[t] \in SlotPointer
        /\ VectorAt(entry[t]) \in Vector
        /\ ElemsAt(entry[t]) \in Seq(Relevant)
        /\ articleID[t] \in Nat /\ articleID[t] < Len(seen)
        /\ token[t] \in DOMAIN Text[doc[t]]
    BY <2>1, EntryInTable
  <2>3. /\ place' \in [Articles -> Nat]
        /\ elem' \in [Articles -> ElemPointer \cup {NoPointer}]
        /\ pc' \in [Articles -> PCs]
        /\ failure' \in {"none", "assert", "undefined"}
        /\ \A u \in Articles \ {t} : pc'[u] = pc[u] /\ elem'[u] = elem[u]
        /\ pc'[t] \in InAddWord
        /\ pc'[t] \in UsesElement => elem'[t] \in ElemPointer
    <3>1. CASE FindOld(t)
      <4>1. PlacesOf(articleID[t], entry[t]) \subseteq Nat \ {0}
        BY <2>2 DEF PlacesOf
      <4>2. PICK n \in Nat \ {0} : place' = [place EXCEPT ![t] = n - 1]
        BY <3>1, <4>1, LeastNumber DEF FindOld
      <4>3. n - 1 \in Nat
        BY <4>2
      <4> QED BY <3>1, <4>2, <4>3
              DEF FindOld, IndexInv, TypeOK, PCs, InAddWord, UsesElement
    <3>2. CASE FindNew(t)
      BY <3>2 DEF FindNew, IndexInv, TypeOK, PCs, InAddWord, UsesElement
    <3>3. CASE Count(t)
      <4>1. ElemsAt(entry[t]) # <<>> => Len(ElemsAt(entry[t])) - 1 \in Nat
        BY <2>2
      <4> QED BY <3>3, <4>1 DEF Count, IndexInv, TypeOK, PCs, InAddWord, UsesElement
    <3>4. CASE Nth(t)
      <4> DEFINE p == [id  |-> VectorAt(entry[t]).id, gen |-> VectorAt(entry[t]).gen,
                       pos |-> place[t] + 1]
      <4>1. place[t] \in Nat
        BY DEF IndexInv, TypeOK
      <4>2. p \in ElemPointer
        BY <2>2, <4>1 DEF Vector, ElemPointer
      <4>3. \/ elem' = [elem EXCEPT ![t] = p] /\ pc' = [pc EXCEPT ![t] = "load"]
               /\ UNCHANGED <<place, failure>>
            \/ UNCHANGED <<elem, pc, place>> /\ failure' = "assert" /\ pc[t] = "nth"
        BY <3>4 DEF Nth
      <4> HIDE DEF p
      <4> QED BY <4>2, <4>3 DEF IndexInv, TypeOK, PCs, InAddWord, UsesElement
    <3> QED BY <1>2, <3>1, <3>2, <3>3, <3>4
  <2>4. TypeOK'
    BY <2>1, <2>3 DEF IndexInv, TypeOK
  <2>5. CursorOf(t)'
    BY <2>1, <2>2, <2>3 DEF CursorOf, InAddWord
  <2>6. Len(seen') >= Len(seen)
    BY <2>1 DEF IndexInv, TypeOK
  <2>7. CursorSet'
    BY <2>1, <2>3, <2>4, <2>5, <2>6, OthersKeep
  <2> QED BY <2>1, <2>4, <2>6, <2>7, SameTable DEF IndexInv
<1> QED BY <1>1, <1>2

LEMMA AttachKeeps ==
  ASSUME IndexInv, NEW t \in Articles, Attach(t) PROVE IndexInv'
<1> USE DEF At, Goto, UsesVector, database, cursor
<1> DEFINE b == entry[t].bucket
           i == entry[t].pos
           id == articleID[t]
<1>1. pc[t] \in UsesEntry /\ Allocated(entry[t])
  BY DEF Attach, UsesEntry
<1>2. /\ b \in Buckets /\ i \in DOMAIN table[b].slots
      /\ VectorAt(entry[t]) \in Vector
      /\ id \in Nat /\ id < Len(seen)
      /\ token[t] \in DOMAIN Text[doc[t]]
      /\ entry[t] \in SlotPointer
  BY <1>1, EntryInTable
<1>3. PICK v \in Appended(VectorAt(entry[t]), id) :
          table' = [table EXCEPT ![entry[t].bucket].slots[entry[t].pos].vec = v]
  BY Zenon DEF Attach
<1>4. table' = WithVector(b, i, v)
  BY <1>3 DEF WithVector
<1>5. /\ v \in Vector
      /\ \A j \in DOMAIN v.elems :
            \/ v.elems[j].article = id
            \/ /\ j \in DOMAIN VectorAt(entry[t]).elems
               /\ v.elems[j] = VectorAt(entry[t]).elems[j]
  BY <1>2, <1>3, AppendedVector
<1>6. \A j \in DOMAIN v.elems : v.elems[j].article < Len(seen)
  BY <1>2, <1>5, Zenon DEF IndexInv, ElementsKnown, Known, VectorAt
<1>7. /\ UNCHANGED <<seen, vectors, doc, articleID, token, entry, place, elem, freq, hops,
                     listed, failure>>
      /\ pc' = [pc EXCEPT ![t] = "count"]
  BY DEF Attach
<1> HIDE DEF b, i
<1>8. table' \in [Buckets -> Bucket] /\ SlotsCounted' /\ ElementsKnown'
  BY <1>2, <1>4, <1>5, <1>6, <1>7, VectorWrittenKeeps
<1>9. TypeOK'
  BY <1>7, <1>8 DEF IndexInv, TypeOK, PCs
<1>10. CursorOf(t)'
  BY <1>2, <1>7 DEF IndexInv, TypeOK, CursorOf, InAddWord, UsesEntry, UsesElement
<1>11. Len(seen') >= Len(seen)
  BY <1>7 DEF IndexInv, TypeOK
<1>12. CursorSet'
  BY <1>7, <1>9, <1>10, <1>11, OthersKeep DEF IndexInv, TypeOK
<1> QED BY <1>8, <1>9, <1>12 DEF IndexInv

(* The array an element pointer goes into, if it is still there.            *)
LEMMA HomeInTable ==
  ASSUME TypeOK, NEW p \in ElemPointer, NEW h \in Homes(p)
  PROVE  /\ h.bucket \in Buckets
         /\ h.pos \in DOMAIN table[h.bucket].slots
         /\ VectorAt(h) = table[h.bucket].slots[h.pos].vec
         /\ VectorAt(h) \in Vector
         /\ p.pos \in DOMAIN VectorAt(h).elems
         /\ VectorAt(h).elems[p.pos] \in Relevant
<1>1. h.bucket \in Buckets /\ h.pos \in DOMAIN table[h.bucket].slots
  BY DEF Homes
<1>2. VectorAt(h) = table[h.bucket].slots[h.pos].vec /\ VectorAt(h) \in Vector
  BY <1>1, VectorInSlot DEF VectorAt
<1>3. p.pos \in DOMAIN VectorAt(h).elems
  BY DEF Homes
<1> QED BY <1>1, <1>2, <1>3 DEF Vector

LEMMA LoadKeeps ==
  ASSUME IndexInv, NEW t \in Articles, Load(t) PROVE IndexInv'
<1> USE DEF At, Goto, database, cursor
<1>1. elem[t] \in ElemPointer
  BY DEF Load, IndexInv, CursorSet, CursorOf, UsesElement
<1>2. PICK n \in Nat : freq' = [freq EXCEPT ![t] = n]
  <2>1. CASE Homes(elem[t]) = {}
    BY <2>1 DEF Load
  <2>2. CASE Homes(elem[t]) # {}
    <3>1. PICK h \in Homes(elem[t]) : freq' = [freq EXCEPT ![t] = ElemsAt(h)[elem[t].pos].freq]
      BY <2>2 DEF Load
    <3>2. ElemsAt(h)[elem[t].pos].freq \in Nat
      BY <1>1, <3>1, HomeInTable DEF ElemsAt, Relevant, IndexInv
    <3> QED BY <3>1, <3>2
  <2> QED BY <2>1, <2>2
<1>3. TypeOK' /\ Len(seen') >= Len(seen)
  BY <1>2 DEF Load, IndexInv, TypeOK, PCs
<1>4. CursorOf(t)'
  BY DEF Load, IndexInv, TypeOK, CursorSet, CursorOf, InAddWord, UsesEntry, UsesElement
<1>5. CursorSet'
  BY <1>3, <1>4, OthersKeep, Zenon DEF Load, IndexInv, TypeOK
<1> QED BY <1>3, <1>5, SameTable DEF Load, IndexInv

LEMMA StoreKeeps ==
  ASSUME IndexInv, NEW t \in Articles, Store(t) PROVE IndexInv'
<1> USE DEF At, Goto, database, cursor
<1>1. /\ elem[t] \in ElemPointer /\ freq[t] + 1 \in Nat /\ articleID[t] \in Nat
      /\ token[t] + 1 \in Nat \ {0}
  <2>1. elem[t] \in ElemPointer /\ articleID[t] \in Nat
    BY Zenon DEF Store, IndexInv, CursorSet, CursorOf, UsesElement, InAddWord
  <2>2. freq[t] \in Nat /\ token[t] \in Nat \ {0}
    BY DEF IndexInv, TypeOK
  <2> QED BY <2>1, <2>2
<1>2. UNCHANGED <<seen, vectors>>
  BY Zenon DEF Store
<1>3. Len(seen) \in Nat /\ Len(seen') >= Len(seen)
  BY <1>2 DEF IndexInv, TypeOK
<1>4. table' \in [Buckets -> Bucket] /\ SlotsCounted' /\ ElementsKnown'
  <2>1. CASE Homes(elem[t]) = {}
    BY <1>2, <2>1 DEF Store, IndexInv, TypeOK, SlotsCounted, ElementsKnown, Known
  <2>2. CASE Homes(elem[t]) # {}
    <3> DEFINE k == elem[t].pos
               n == freq[t] + 1
    <3>1. PICK h \in Homes(elem[t]) :
             table' = [table EXCEPT ![h.bucket].slots[h.pos].vec.elems[elem[t].pos].freq
                                        = freq[t] + 1]
      BY <2>2, Zenon DEF Store
    <3> DEFINE b == h.bucket
               i == h.pos
               old == VectorAt(h).elems
               more == [old[k] EXCEPT !.freq = n]
               new == [old EXCEPT ![k] = more]
               v == [VectorAt(h) EXCEPT !.elems = new]
    <3>2. /\ b \in Buckets /\ i \in DOMAIN table[b].slots
          /\ VectorAt(h) \in Vector /\ VectorAt(h) = table[b].slots[i].vec
          /\ k \in DOMAIN old /\ old[k] \in Relevant
      BY <1>1, HomeInTable DEF IndexInv
    <3>3. table' = WithVector(b, i, v)
      BY <3>1, Zenon DEF WithVector, VectorAt
    <3>4. more \in Relevant /\ more.article = old[k].article
      BY <1>1, <3>2, Zenon DEF Relevant
    <3> HIDE DEF more
    <3>5. /\ new \in Seq(Relevant)
          /\ DOMAIN new = DOMAIN old
          /\ \A j \in DOMAIN old : new[j].article = old[j].article
      <4>1. old \in Seq(Relevant)
        BY <3>2 DEF Vector
      <4> HIDE DEF old
      <4> QED BY <3>2, <3>4, <4>1
    <3>6. v \in Vector /\ v.elems = new
      <4> HIDE DEF new
      <4> QED BY <3>2, <3>5, Zenon DEF Vector
    <3>7. \A j \in DOMAIN v.elems : v.elems[j].article < Len(seen)
      <4>1. \A j \in DOMAIN old : old[j].article < Len(seen)
        BY <3>2 DEF IndexInv, ElementsKnown, Known
      <4> HIDE DEF old, new
      <4> QED BY <3>5, <3>6, <4>1
    <3> HIDE DEF b, i, v
    <3> QED BY <1>2, <3>2, <3>3, <3>6, <3>7, VectorWrittenKeeps
  <2> QED BY <2>1, <2>2
<1>5. TypeOK'
  BY <1>1, <1>2, <1>4, Zenon DEF Store, IndexInv, TypeOK, PCs
<1>6. CursorOf(t)'
  BY <1>1, <1>2, Zenon DEF Store, IndexInv, TypeOK, CursorSet, CursorOf, InAddWord, UsesEntry,
     UsesElement
<1>7. CursorSet'
  BY <1>3, <1>5, <1>6, OthersKeep, Zenon DEF Store, IndexInv, TypeOK
<1> QED BY <1>4, <1>5, <1>7 DEF IndexInv

-----------------------------------------------------------------------------
(* Sorting loses no element and makes up none.                              *)
LEMMA RearrangedFacts ==
  ASSUME NEW S, NEW s \in Seq(S), NEW r \in Rearranged(s)
  PROVE  /\ r \in Seq(S) /\ Len(r) = Len(s) /\ DOMAIN r = DOMAIN s
         /\ \A i \in DOMAIN s : \E j \in DOMAIN s : r[i] = s[j]
         /\ \A j \in DOMAIN s : \E i \in DOMAIN s : r[i] = s[j]
<1>1. PICK f \in [DOMAIN s -> DOMAIN s] :
         /\ \A i, j \in DOMAIN s : f[i] = f[j] => i = j
         /\ r = [i \in DOMAIN s |-> s[f[i]]]
  BY DEF Rearranged
<1>2. DOMAIN s = 1..Len(s) /\ Len(s) \in Nat
  OBVIOUS
<1>3. r \in Seq(S) /\ Len(r) = Len(s) /\ DOMAIN r = DOMAIN s
  <2>1. r \in [1..Len(s) -> S]
    BY <1>1, <1>2
  <2> QED BY <1>2, <2>1
<1>4. \A j \in DOMAIN s : \E i \in DOMAIN s : f[i] = j
  <2>1. f \in Injection(DOMAIN s, DOMAIN s)
    BY <1>1 DEF Injection, IsInjective
  <2>2. IsFiniteSet(DOMAIN s)
    BY <1>2, FirstNumbers
  <2>3. f \in Surjection(DOMAIN s, DOMAIN s)
    BY <2>1, <2>2, FS_Injection
  <2> QED BY <2>3 DEF Surjection
<1> QED BY <1>1, <1>3, <1>4

LEMMA SortKeepsEntries ==
  ASSUME NEW S, NEW s \in Seq(S), NEW r \in Rearranged(s)
  PROVE  /\ \A x : HowOften(r, x) = HowOften(s, x)
         /\ SameEntries(r, s)
<1>1. PICK f \in [DOMAIN s -> DOMAIN s] :
         /\ \A i, j \in DOMAIN s : f[i] = f[j] => i = j
         /\ r = [i \in DOMAIN s |-> s[f[i]]]
  BY DEF Rearranged
<1>2. IsFiniteSet(DOMAIN s)
  <2>1. DOMAIN s = 1..Len(s) /\ Len(s) \in Nat
    OBVIOUS
  <2> QED BY <2>1, FirstNumbers
<1>3. \A j \in DOMAIN s : \E i \in DOMAIN s : f[i] = j
  <2>1. f \in Injection(DOMAIN s, DOMAIN s)
    BY <1>1 DEF Injection, IsInjective
  <2>2. f \in Surjection(DOMAIN s, DOMAIN s)
    BY <1>2, <2>1, FS_Injection
  <2> QED BY <2>2 DEF Surjection
<1>4. ASSUME NEW x PROVE HowOften(r, x) = HowOften(s, x)
  <2> DEFINE A == {i \in DOMAIN r : r[i] = x}
             B == {i \in DOMAIN s : s[i] = x}
             g == [i \in A |-> f[i]]
  <2>1. /\ A \subseteq DOMAIN s /\ \A i \in A : f[i] \in B
        /\ \A j \in B : \E i \in A : f[i] = j
    BY <1>1, <1>3
  <2>2. g \in Bijection(A, B)
    BY <1>1, <2>1 DEF Bijection, Injection, Surjection, IsInjective
  <2>3. IsFiniteSet(A)
    BY <1>2, <2>1, FS_Subset
  <2> HIDE DEF A, B, g
  <2>4. Cardinality(B) = Cardinality(A)
    BY <2>2, <2>3, FS_Bijection DEF ExistsBijection
  <2> QED BY <2>4 DEF HowOften, A, B
<1>5. Len(r) = Len(s)
  BY RearrangedFacts
<1> QED BY <1>4, <1>5 DEF SameEntries

(* The head of a sorted sequence is the most relevant part of it, and so of *)
(* the sequence it is a rearrangement of.                                   *)
LEMMA HeadMostRelevant ==
  ASSUME NEW s \in Seq(Relevant), NEW r \in ByFrequency(s)
  PROVE  /\ SelectFirst(r, MaxListed) \in Seq(Relevant)
         /\ MostRelevant(SelectFirst(r, MaxListed), s)
<1> DEFINE n == IF Len(r) > MaxListed THEN MaxListed ELSE Len(r)
           top == SelectFirst(r, MaxListed)
<1>1. r \in Rearranged(s) /\ \A k, j \in DOMAIN r : k < j => r[k].freq >= r[j].freq
  BY DEF ByFrequency
<1>2. /\ r \in Seq(Relevant) /\ Len(r) = Len(s) /\ DOMAIN r = DOMAIN s
      /\ \A j \in DOMAIN s : \E i \in DOMAIN s : r[i] = s[j]
      /\ \A x : HowOften(r, x) = HowOften(s, x)
  BY <1>1, RearrangedFacts, SortKeepsEntries, Zenon
<1>3. /\ n \in 0..Len(r) /\ top \in Seq(Relevant) /\ DOMAIN top = 1..n /\ Len(top) = n
      /\ \A k \in 1..n : top[k] = r[k]
  <2>1. Len(r) \in Nat /\ MaxListed \in Nat
    BY <1>2, BoundAssumption
  <2>2. n \in 0..Len(r) /\ top = SubSeq(r, 1, n)
    BY <2>1 DEF SelectFirst
  <2> HIDE DEF n, top
  <2>3. n \in Nat /\ Len(r) \in Nat /\ \A k \in 1..n : k \in 1..Len(r)
    BY <2>1, <2>2
  <2>4. SubSeq(r, 1, n) = [k \in 1..n |-> r[k]]
    BY <1>2, <2>3
  <2>5. \A k \in 1..n : r[k] \in Relevant
    BY <1>2, <2>3
  <2> QED BY <2>2, <2>3, <2>4, <2>5
<1>4. Len(top) = IF Len(s) > MaxListed THEN MaxListed ELSE Len(s)
  BY <1>2, <1>3
<1> HIDE DEF n, top
<1>5. /\ DOMAIN r = 1..Len(r) /\ Len(r) \in Nat /\ n \in Nat /\ n <= Len(r)
      /\ \A k \in DOMAIN r : r[k].freq \in Nat
  <2>1. \A k \in DOMAIN r : r[k] \in Relevant
    BY <1>2
  <2>2. r \in Seq(Relevant) /\ n \in 0..Len(r)
    BY <1>2, <1>3
  <2> QED BY <2>1, <2>2 DEF Relevant
<1>6. \A k, j \in DOMAIN top : k < j => top[k].freq >= top[j].freq
  BY <1>1, <1>3, <1>5
<1>7. ASSUME NEW x
      PROVE  /\ HowOften(top, x) <= HowOften(s, x)
             /\ HowOften(top, x) < HowOften(s, x) =>
                   \E k \in DOMAIN r : r[k] = x /\ ~(k <= n)
  <2> DEFINE A == {k \in DOMAIN top : top[k] = x}
             B == {k \in DOMAIN r : r[k] = x}
  <2>1. A \subseteq B /\ A = {k \in B : k <= n}
    BY <1>3, <1>5
  <2>2. IsFiniteSet(B)
    <3>1. IsFiniteSet(DOMAIN r)
      BY <1>5, FirstNumbers
    <3> QED BY <3>1, FS_Subset
  <2> HIDE DEF A, B
  <2>3. /\ IsFiniteSet(A) /\ Cardinality(A) <= Cardinality(B)
        /\ Cardinality(A) \in Nat /\ Cardinality(B) \in Nat
    BY <2>1, <2>2, FS_Subset, FS_CardinalityType
  <2>4. HowOften(top, x) = Cardinality(A) /\ HowOften(s, x) = Cardinality(B)
    <3>1. HowOften(r, x) = HowOften(s, x)
      BY <1>2
    <3> QED BY <3>1 DEF HowOften, A, B
  <2>5. ASSUME Cardinality(A) < Cardinality(B) PROVE \E k \in B : ~(k <= n)
    <3>1. A # B
      BY <2>3, <2>5
    <3> QED BY <2>1, <3>1
  <2> QED BY <2>3, <2>4, <2>5 DEF B
<1>8. ASSUME NEW j \in DOMAIN s, HowOften(top, s[j]) < HowOften(s, s[j]), NEW i \in DOMAIN top
      PROVE  s[j].freq <= top[i].freq
  <2>1. PICK k \in DOMAIN r : r[k] = s[j] /\ ~(k <= n)
    BY <1>7, <1>8
  <2>2. i \in DOMAIN r /\ i < k /\ top[i] = r[i]
    BY <1>3, <1>5, <2>1
  <2> QED BY <1>1, <1>5, <2>1, <2>2
<1>9. MostRelevant(top, s)
  BY <1>4, <1>6, <1>7, <1>8 DEF MostRelevant
<1> QED BY <1>3, <1>9 DEF top

(* A query finds its word's elements as a thread left them, sorts them where*)
(* they are, and lists the first.                                           *)
LEMMA QuerySorts ==
  ASSUME IndexInv, NEW w \in Words, Query(w)
  PROVE  /\ Present(w) /\ Hash[w] \in Buckets
         /\ AddressOf(w).bucket = Hash[w]
         /\ AddressOf(w).pos \in DOMAIN table[Hash[w]].slots
         /\ table[Hash[w]].slots[AddressOf(w).pos].key = w
         /\ table[Hash[w]].slots[AddressOf(w).pos].vec \in Vector
         /\ ElemsAt(AddressOf(w)) = table[Hash[w]].slots[AddressOf(w).pos].vec.elems
         /\ ElemsAt(AddressOf(w)) \in Seq(Relevant)
         /\ \E r \in ByFrequency(ElemsAt(AddressOf(w))), v \in Vector :
               /\ table' = WithVector(Hash[w], AddressOf(w).pos, v)
               /\ v.elems = r
               /\ v.id = table[Hash[w]].slots[AddressOf(w).pos].vec.id
               /\ listed' = [word |-> w, top |-> SelectFirst(r, MaxListed)]
<1> DEFINE i == AddressOf(w).pos
           old == table[Hash[w]].slots[i].vec
<1>1. /\ Present(w) /\ Hash[w] \in Buckets /\ AddressOf(w).bucket = Hash[w]
      /\ i \in DOMAIN table[Hash[w]].slots /\ table[Hash[w]].slots[i].key = w
  BY AddressOfPresent DEF IndexInv, Allocated, Query
<1>2. old \in Vector /\ ElemsAt(AddressOf(w)) = old.elems /\ old.elems \in Seq(Relevant)
  BY <1>1, VectorInSlot DEF IndexInv, ElemsAt, VectorAt
<1>3. PICK r \in ByFrequency(ElemsAt(AddressOf(w))) :
         /\ table' = [table EXCEPT ![Hash[w]].slots[AddressOf(w).pos].vec.elems = r]
         /\ listed' = [word |-> w, top |-> SelectFirst(r, MaxListed)]
  BY Zenon DEF Query
<1> DEFINE v == [old EXCEPT !.elems = r]
<1>4. table' = WithVector(Hash[w], i, v)
  BY <1>3 DEF WithVector
<1> HIDE DEF old
<1>5. r \in Seq(Relevant)
  <2>1. r \in Rearranged(old.elems)
    BY <1>2, <1>3 DEF ByFrequency
  <2> QED BY <1>2, <2>1, RearrangedFacts
<1>6. v \in Vector /\ v.elems = r /\ v.id = old.id
  BY <1>2, <1>5 DEF Vector
<1> HIDE DEF v
<1> QED BY <1>1, <1>2, <1>3, <1>4, <1>6, Zenon DEF old

LEMMA QueryKeeps ==
  ASSUME IndexInv, NEW w \in Words, Query(w)
  PROVE  IndexInv'
<1> DEFINE h == Hash[w]
           i == AddressOf(w).pos
           old == ElemsAt(AddressOf(w))
<1>1. /\ h \in Buckets /\ i \in DOMAIN table[h].slots
      /\ old = table[h].slots[i].vec.elems /\ old \in Seq(Relevant)
  BY QuerySorts
<1>2. PICK r \in ByFrequency(old), v \in Vector :
         /\ table' = WithVector(h, i, v)
         /\ v.elems = r
         /\ v.id = table[h].slots[i].vec.id
         /\ listed' = [word |-> w, top |-> SelectFirst(r, MaxListed)]
  BY QuerySorts, Zenon
<1>3. /\ UNCHANGED <<seen, vectors, pc, doc, articleID, token, cursor, hops, failure>>
  BY DEF Query
<1>4. \A k \in DOMAIN v.elems : v.elems[k].article < Len(seen)
  <2>1. \A k \in DOMAIN old : old[k].article < Len(seen)
    BY <1>1 DEF IndexInv, ElementsKnown, Known
  <2>2. old \in Seq(Relevant) /\ r \in Rearranged(old)
    BY <1>1, <1>2 DEF ByFrequency
  <2> HIDE DEF old
  <2>3. DOMAIN r = DOMAIN old /\ \A k \in DOMAIN old : \E j \in DOMAIN old : r[k] = old[j]
    BY <2>2, RearrangedFacts
  <2> QED BY <1>2, <2>1, <2>3
<1>5. SelectFirst(r, MaxListed) \in Seq(Relevant)
  BY <1>1, <1>2, HeadMostRelevant
<1> HIDE DEF h, i, old
<1>6. table' \in [Buckets -> Bucket] /\ SlotsCounted' /\ ElementsKnown'
  BY <1>1, <1>2, <1>3, <1>4, VectorWrittenKeeps
<1>7. listed' \in [word : Words, top : Seq(Relevant)] \cup {NoList}
  BY <1>2, <1>5
<1>8. TypeOK'
  BY <1>3, <1>6, <1>7 DEF IndexInv, TypeOK, cursor
<1>9. CursorSet'
  BY <1>3 DEF IndexInv, CursorSet, CursorOf, cursor
<1> QED BY <1>6, <1>8, <1>9 DEF IndexInv

-----------------------------------------------------------------------------
LEMMA IndexStep == IndexInv /\ [Next]_vars => IndexInv'
<1> SUFFICES ASSUME IndexInv, [Next]_vars PROVE IndexInv'
  OBVIOUS
<1>1. ASSUME NEW t \in Articles, Parse(t) \/ EndOfText(t) \/ SkipStopWord(t) PROVE IndexInv'
  BY <1>1, ParseKeeps
<1>2. ASSUME NEW t \in Articles, AddWord(t) PROVE IndexInv'
  BY <1>2, LookupKeeps, EnterKeeps, FindKeeps, AttachKeeps, LoadKeeps, StoreKeeps DEF AddWord
<1>3. ASSUME NEW w \in Words, Query(w) PROVE IndexInv'
  BY <1>3, QueryKeeps
<1>4. CASE UNCHANGED vars
  BY <1>4 DEF vars, IndexInv, TypeOK, CursorSet, CursorOf, SlotsCounted, ElementsKnown, Known
<1> QED BY <1>1, <1>2, <1>3, <1>4 DEF Next

LEMMA IndexInvAlways == Spec => []IndexInv
BY IndexInit, IndexStep, PTL DEF Spec

(* The variables keep their types, through every race of the threads.       *)
THEOREM IndexTypes == Spec => []TypeOK
<1>1. IndexInv => TypeOK
  BY DEF IndexInv
<1> QED BY <1>1, IndexInvAlways, PTL

(* Every article id in the indices, and every id a thread is about to put   *)
(* there, is the index of a previously seen article.                        *)
THEOREM IDsStayInRange == Spec => []IDsInRange
<1>1. ASSUME IndexInv PROVE IDsInRange
  <2>1. ASSUME NEW h \in Slots, NEW j \in DOMAIN ElemsAt(h)
        PROVE  ElemsAt(h)[j].article < Len(seen)
    <3>1. h.bucket \in Buckets /\ h.pos \in DOMAIN table[h.bucket].slots
      BY DEF Slots
    <3> QED BY <1>1, <3>1 DEF IndexInv, ElementsKnown, Known, ElemsAt, VectorAt
  <2> QED BY <1>1, <2>1 DEF IndexInv, CursorSet, CursorOf, IDsInRange
<1> QED BY <1>1, IndexInvAlways, PTL

(* A query's list is the most relevant part of the vector it found, and all *)
(* vectors keep their entries.                                              *)
LEMMA QueryAnswers ==
  ASSUME IndexInv, NEW w \in Words, Query(w)
  PROVE  /\ MostRelevant(listed'.top, ElemsFor(listed'.word))
         /\ \A u \in Words : SameEntries(ElemsFor(u)', ElemsFor(u))
<1> DEFINE h == Hash[w]
           i == AddressOf(w).pos
           old == ElemsAt(AddressOf(w))
<1>1. /\ Present(w) /\ h \in Buckets
      /\ AddressOf(w).bucket = h
      /\ i \in DOMAIN table[h].slots /\ table[h].slots[i].key = w
      /\ old = table[h].slots[i].vec.elems /\ old \in Seq(Relevant)
  BY QuerySorts
<1>2. PICK r \in ByFrequency(old), v \in Vector :
         /\ table' = WithVector(h, i, v)
         /\ v.elems = r
         /\ v.id = table[h].slots[i].vec.id
         /\ listed' = [word |-> w, top |-> SelectFirst(r, MaxListed)]
  BY QuerySorts, Zenon
<1>3. MostRelevant(listed'.top, ElemsFor(listed'.word))
  <2>1. MostRelevant(SelectFirst(r, MaxListed), old)
    BY <1>1, <1>2, HeadMostRelevant
  <2>2. ElemsFor(w) = old
    BY <1>1 DEF ElemsFor
  <2>3. listed'.word = w /\ listed'.top = SelectFirst(r, MaxListed)
    BY <1>2
  <2> QED BY <2>1, <2>2, <2>3
<1>4. /\ table'[h].slots[i].vec = v
      /\ \A c \in Buckets :
            /\ table'[c].gen = table[c].gen
            /\ DOMAIN table'[c].slots = DOMAIN table[c].slots
            /\ \A j \in DOMAIN table[c].slots :
                  /\ table'[c].slots[j].key = table[c].slots[j].key
                  /\ ~(c = h /\ j = i) => table'[c].slots[j] = table[c].slots[j]
  BY <1>1, <1>2, VectorWritten DEF IndexInv
<1> HIDE DEF h, i, old
<1>5. ASSUME NEW u \in Words PROVE SameEntries(ElemsFor(u)', ElemsFor(u))
  <2>1. Hash[u] \in Buckets
    BY WordAssumption
  <2>2. Places(table'[Hash[u]].slots, u) = Places(table[Hash[u]].slots, u)
    BY <1>4, <2>1 DEF Places
  <2>3. (Present(u)' <=> Present(u)) /\ AddressOf(u)' = AddressOf(u)
    BY <1>4, <2>1, <2>2 DEF Present, AddressOf, PlaceOf
  <2>4. CASE ~Present(u)
    <3>1. ElemsFor(u)' = <<>> /\ ElemsFor(u) = <<>>
      BY <2>3, <2>4 DEF ElemsFor
    <3> QED BY <3>1 DEF SameEntries
  <2>5. CASE Present(u) /\ u = w
    <3>1. ElemsFor(u) = old
      BY <2>5 DEF ElemsFor, old
    <3>2. ElemsFor(u)' = r
      BY <1>1, <1>2, <1>4, <2>3, <2>5 DEF ElemsFor, ElemsAt, VectorAt, i
    <3>3. r \in Rearranged(old)
      BY <1>2 DEF ByFrequency
    <3> QED BY <1>1, <3>1, <3>2, <3>3, SortKeepsEntries
  <2>6. CASE Present(u) /\ u # w
    <3> DEFINE k == AddressOf(u).pos
    <3>1. /\ AddressOf(u).bucket = Hash[u] /\ k \in DOMAIN table[Hash[u]].slots
          /\ table[Hash[u]].slots[k].key = u
      BY <2>6, AddressOfPresent DEF IndexInv, Allocated
    <3>2. ~(Hash[u] = h /\ k = i)
      BY <1>1, <2>6, <3>1
    <3>3. table'[Hash[u]].slots[k] = table[Hash[u]].slots[k]
      BY <1>4, <2>1, <3>1, <3>2
    <3>4. ElemsFor(u) = table[Hash[u]].slots[k].vec.elems
      BY <2>6, <3>1 DEF ElemsFor, ElemsAt, VectorAt
    <3>5. ElemsFor(u)' = ElemsFor(u)
      BY <2>3, <2>6, <3>1, <3>3, <3>4 DEF ElemsFor, ElemsAt, VectorAt
    <3> QED BY <3>5 DEF SameEntries
  <2> QED BY <2>4, <2>5, <2>6
<1> QED BY <1>3, <1>5

(* What a query lists are the most relevant of its word's articles, as many *)
(* as it may list; and no query takes an entry or a count from any word, so *)
(* that every later query finds what the threads have left.                 *)
THEOREM TopArticlesListed == Spec => TopListed
<1> DEFINE Listing == AllDone => /\ MostRelevant(listed'.top, ElemsFor(listed'.word))
                                 /\ \A w \in Words : SameEntries(ElemsFor(w)', ElemsFor(w))
<1>1. ASSUME IndexInv, Next, AllDone
      PROVE  /\ MostRelevant(listed'.top, ElemsFor(listed'.word))
             /\ \A w \in Words : SameEntries(ElemsFor(w)', ElemsFor(w))
  <2>1. ASSUME NEW t \in Articles, Parse(t) \/ EndOfText(t) \/ SkipStopWord(t) \/ AddWord(t)
        PROVE  pc[t] # "done"
    BY <2>1, Zenon DEF Parse, EndOfText, SkipStopWord, Scanning, Indexing, AddWord, At,
       UsesVector, Ignore, SearchMissed,
       AnswerOK, AnswerRedirect, AnswerOther, AppendSeen, LengthSeen, LookupFound,
       LookupMissed, Enter, Relookup, FindOld, FindNew, Attach, Count, Nth, UseDangling,
       Load, Store
  <2>2. PICK w \in Words : Query(w)
    BY <1>1, <2>1 DEF Next, AllDone
  <2> QED BY <1>1, <2>2, QueryAnswers
<1>2. IndexInv /\ [Next]_vars => [Listing]_vars
  BY <1>1
<1> QED BY <1>2, IndexInvAlways, PTL DEF Spec, TopListed

-----------------------------------------------------------------------------
(***************************************************************************)
(* Where vectors and slots are, and that the threads' pointers lead there. *)
(***************************************************************************)
\* What a thread has not begun; and no stop word gets into the index.
BeforeScan(t) ==
    /\ pc[t] \in {"search", "connect", "append", "length"} =>
          articleID[t] = NoArticle /\ token[t] = 1
    /\ pc[t] \in InAddWord => Word(t) \notin StopWords

VectorID(b, i) == table[b].slots[i].vec.id

\* No vector is in two slots.
OwnVectors ==
    /\ \A b \in Buckets : \A i \in DOMAIN table[b].slots : VectorID(b, i) < vectors
    /\ \A b, c \in Buckets : \A i \in DOMAIN table[b].slots : \A j \in DOMAIN table[c].slots :
          VectorID(b, i) = VectorID(c, j) => b = c /\ i = j

SlotsAtHome ==
    \A b \in Buckets : /\ Sorted(table[b].slots)
                       /\ \A i \in DOMAIN table[b].slots : Hash[table[b].slots[i].key] = b

\* The pointers of a thread are of its word's bucket, as far as they are good.
PointersAtHome(t) ==
    /\ pc[t] \in UsesEntry => entry[t].bucket = Hash[Word(t)]
    /\ pc[t] \in UsesElement =>
          /\ elem[t].id < vectors
          /\ \A b \in Buckets : \A i \in DOMAIN table[b].slots :
                VectorID(b, i) = elem[t].id => b = Hash[Word(t)]

HomeInv == /\ \A t \in Articles : BeforeScan(t) /\ PointersAtHome(t)
           /\ OwnVectors
           /\ SlotsAtHome

\* What no step of another thread changes.
Still(u) ==
    /\ pc'[u] = pc[u] /\ doc'[u] = doc[u] /\ articleID'[u] = articleID[u]
    /\ token'[u] = token[u] /\ entry'[u] = entry[u] /\ place'[u] = place[u]
    /\ elem'[u] = elem[u] /\ freq'[u] = freq[u]

StepOf(t) == Parse(t) \/ EndOfText(t) \/ SkipStopWord(t) \/ AddWord(t)

\* A step of one thread changes nothing that is of another.
LEMMA OthersStill ==
  ASSUME TypeOK, NEW t \in Articles, StepOf(t), NEW u \in Articles, u # t
  PROVE  Still(u)
<1> USE DEF Still, Goto, cursor, database
<1>1. CASE Parse(t) \/ EndOfText(t) \/ SkipStopWord(t)
  <2>1. CASE AnswerRedirect(t)
    <3>1. PICK d \in RedirectsTo[doc[t]] : doc' = [doc EXCEPT ![t] = d]
      BY <2>1 DEF AnswerRedirect
    <3> QED BY <2>1, <3>1 DEF AnswerRedirect, TypeOK
  <2>2. CASE ~ AnswerRedirect(t)
    BY <1>1, <2>2 DEF Parse, EndOfText, SkipStopWord, Ignore, SearchMissed, AnswerOK, AnswerOther,
       AppendSeen, LengthSeen, TypeOK
  <2> QED BY <2>1, <2>2
<1>2. CASE LookupFound(t) \/ LookupMissed(t) \/ Enter(t) \/ Relookup(t)
  BY <1>2 DEF LookupFound, LookupMissed, Enter, Relookup, TypeOK
<1>3. CASE FindOld(t) \/ FindNew(t) \/ Attach(t) \/ Count(t)
  BY <1>3 DEF FindOld, FindNew, Attach, Count, TypeOK
<1>4. CASE Nth(t) \/ UseDangling(t) \/ Load(t) \/ Store(t)
  BY <1>4, Zenon DEF Nth, UseDangling, Load, Store, TypeOK
<1> QED BY <1>1, <1>2, <1>3, <1>4 DEF StepOf, AddWord

\* Steps that at most write into vectors.
SameSlots ==
    /\ vectors' = vectors
    /\ \A b \in Buckets :
          /\ table'[b].gen = table[b].gen
          /\ DOMAIN table'[b].slots = DOMAIN table[b].slots
          /\ \A i \in DOMAIN table[b].slots :
                /\ table'[b].slots[i].key = table[b].slots[i].key
                /\ table'[b].slots[i].vec.id = table[b].slots[i].vec.id

\* Steps that only write vectors keep vectors and slots where they were.
LEMMA SameSlotsHome ==
  ASSUME IndexInv, HomeInv, SameSlots
  PROVE  OwnVectors' /\ SlotsAtHome'
<1>1. OwnVectors'
  BY DEF HomeInv, OwnVectors, VectorID, SameSlots
<1>2. SlotsAtHome'
  BY DEF HomeInv, SlotsAtHome, Sorted, SameSlots
<1> QED BY <1>1, <1>2

\* A pointer to an element is good as long as no other slot gets its vector.
LEMMA PointersStill ==
  ASSUME IndexInv, HomeInv, NEW u \in Articles, Still(u), vectors' \in Nat, vectors' >= vectors,
         \A b \in Buckets : \A i \in DOMAIN table'[b].slots :
            \/ \E j \in DOMAIN table[b].slots : VectorID(b, i)' = VectorID(b, j)
            \/ VectorID(b, i)' = vectors
  PROVE  BeforeScan(u)' /\ PointersAtHome(u)'
<1>1. BeforeScan(u) /\ PointersAtHome(u) /\ vectors \in Nat /\ Word(u)' = Word(u)
  BY DEF HomeInv, Still, Word, IndexInv, TypeOK
<1>2. pc[u] \in UsesElement => elem[u].id \in Nat
  BY DEF IndexInv, CursorSet, CursorOf, ElemPointer
<1>3. BeforeScan(u)'
  BY <1>1 DEF Still, BeforeScan
<1>4. ASSUME pc[u] \in UsesElement, NEW b \in Buckets, NEW i \in DOMAIN table'[b].slots,
             VectorID(b, i)' = elem[u].id
      PROVE  b = Hash[Word(u)]
  BY <1>1, <1>2, <1>4 DEF PointersAtHome
<1>5. PointersAtHome(u)'
  BY <1>1, <1>2, <1>4 DEF PointersAtHome, Still
<1> QED BY <1>3, <1>5

-----------------------------------------------------------------------------
(* What the three steps that write into vectors write.                      *)
LEMMA AttachWrites ==
  ASSUME IndexInv, NEW t \in Articles, Attach(t)
  PROVE  /\ entry[t].bucket \in Buckets
         /\ entry[t].pos \in DOMAIN table[entry[t].bucket].slots
         /\ VectorAt(entry[t]) = table[entry[t].bucket].slots[entry[t].pos].vec
         /\ articleID[t] \in Nat
         /\ \E v \in Vector :
               /\ table' = WithVector(entry[t].bucket, entry[t].pos, v)
               /\ v.id = VectorAt(entry[t]).id
               /\ v.elems = Append(VectorAt(entry[t]).elems, [article |-> articleID[t], freq |-> 0])
<1>1. pc[t] \in UsesEntry /\ Allocated(entry[t])
  BY DEF Attach, UsesEntry, UsesVector, At
<1>2. /\ entry[t].bucket \in Buckets
      /\ entry[t].pos \in DOMAIN table[entry[t].bucket].slots
      /\ VectorAt(entry[t]) \in Vector /\ articleID[t] \in Nat
  BY <1>1, EntryInTable
<1>3. PICK v \in Appended(VectorAt(entry[t]), articleID[t]) :
          table' = [table EXCEPT ![entry[t].bucket].slots[entry[t].pos].vec = v]
  BY Zenon DEF Attach
<1>4. v \in Vector
  BY <1>2, <1>3, AppendedVector
<1> DEFINE old == VectorAt(entry[t])
           longer == Append(old.elems, [article |-> articleID[t], freq |-> 0])
<1>5. v.id = old.id /\ v.elems = longer
  <2>1. old \in Vector
    BY <1>2
  <2>2. CASE old.alloc = Len(old.elems)
    <3>1. PICK g \in {old.gen, old.gen + 1} :
              v = [old EXCEPT !.gen = g, !.alloc = old.alloc + VectorAlloc, !.elems = longer]
      BY <1>3, <2>2 DEF Appended
    <3> HIDE DEF old, longer
    <3> QED BY <2>1, <3>1 DEF Vector
  <2>3. CASE old.alloc # Len(old.elems)
    <3>1. v = [old EXCEPT !.elems = longer]
      BY <1>3, <2>3 DEF Appended
    <3> HIDE DEF old, longer
    <3> QED BY <2>1, <3>1 DEF Vector
  <2> QED BY <2>2, <2>3
<1>6. table' = WithVector(entry[t].bucket, entry[t].pos, v)
  BY <1>3 DEF WithVector
<1> QED BY <1>2, <1>4, <1>5, <1>6, Zenon DEF VectorAt

\* The increment writes one frequency, in the vector the pointer leads to.
LEMMA StoreWrites ==
  ASSUME IndexInv, NEW t \in Articles, Store(t), Homes(elem[t]) # {}
  PROVE  \E h \in Homes(elem[t]), v \in Vector :
            /\ h.bucket \in Buckets
            /\ h.pos \in DOMAIN table[h.bucket].slots
            /\ VectorAt(h) = table[h.bucket].slots[h.pos].vec
            /\ table' = WithVector(h.bucket, h.pos, v)
            /\ v.id = VectorAt(h).id /\ v.id = elem[t].id
            /\ v.gen = VectorAt(h).gen
            /\ elem[t].pos \in DOMAIN VectorAt(h).elems
            /\ v.elems = [VectorAt(h).elems EXCEPT ![elem[t].pos].freq = freq[t] + 1]
<1>1. elem[t] \in ElemPointer /\ freq[t] + 1 \in Nat
  <2>1. elem[t] \in ElemPointer
    BY Zenon DEF Store, At, IndexInv, CursorSet, CursorOf, UsesElement
  <2>2. freq[t] \in Nat
    BY DEF IndexInv, TypeOK
  <2> QED BY <2>1, <2>2
<1>2. PICK h \in Homes(elem[t]) :
         table' = [table EXCEPT ![h.bucket].slots[h.pos].vec.elems[elem[t].pos].freq
                                    = freq[t] + 1]
  BY Zenon DEF Store
<1> DEFINE k == elem[t].pos
           old == VectorAt(h).elems
           more == [old[k] EXCEPT !.freq = freq[t] + 1]
           new == [old EXCEPT ![k] = more]
           v == [VectorAt(h) EXCEPT !.elems = new]
<1>3. /\ h.bucket \in Buckets /\ h.pos \in DOMAIN table[h.bucket].slots
      /\ VectorAt(h) \in Vector /\ VectorAt(h) = table[h.bucket].slots[h.pos].vec
      /\ k \in DOMAIN old /\ old[k] \in Relevant
  BY <1>1, HomeInTable DEF IndexInv
<1>4. table' = WithVector(h.bucket, h.pos, v)
  BY <1>2, Zenon DEF WithVector, VectorAt
<1>5. more \in Relevant
  BY <1>1, <1>3, Zenon DEF Relevant
<1>6. new \in Seq(Relevant)
  <2>1. old \in Seq(Relevant)
    BY <1>3 DEF Vector
  <2> HIDE DEF more, old
  <2> QED BY <1>3, <1>5, <2>1
<1>7. v \in Vector /\ v.elems = new /\ v.id = VectorAt(h).id /\ v.gen = VectorAt(h).gen
  <2> HIDE DEF new
  <2> QED BY <1>3, <1>6, Zenon DEF Vector
<1>8. VectorAt(h).id = elem[t].id
  BY DEF Homes
<1> HIDE DEF v
<1> QED BY <1>3, <1>4, <1>7, <1>8, Zenon

\* A query rearranges the vector of its word's slot.
LEMMA QueryWrites ==
  ASSUME IndexInv, NEW w \in Words, Query(w)
  PROVE  /\ Hash[w] \in Buckets
         /\ AddressOf(w).bucket = Hash[w]
         /\ AddressOf(w).pos \in DOMAIN table[Hash[w]].slots
         /\ ElemsAt(AddressOf(w)) = table[Hash[w]].slots[AddressOf(w).pos].vec.elems
         /\ \E r \in Rearranged(ElemsAt(AddressOf(w))), v \in Vector :
               /\ table' = WithVector(Hash[w], AddressOf(w).pos, v)
               /\ v.elems = r
               /\ v.id = table[Hash[w]].slots[AddressOf(w).pos].vec.id
BY QuerySorts, Zenon DEF ByFrequency

\* Writing one vector, its id kept, leaves the slots as they were.
LEMMA VectorWrittenSameSlots ==
  ASSUME TypeOK, NEW b \in Buckets, NEW i \in DOMAIN table[b].slots, NEW v \in Vector,
         v.id = table[b].slots[i].vec.id,
         table' = WithVector(b, i, v), vectors' = vectors
  PROVE  SameSlots
<1>1. /\ table'[b].slots[i].vec = v
      /\ \A c \in Buckets :
            /\ table'[c].gen = table[c].gen
            /\ DOMAIN table'[c].slots = DOMAIN table[c].slots
            /\ \A j \in DOMAIN table[c].slots :
                  /\ table'[c].slots[j].key = table[c].slots[j].key
                  /\ ~(c = b /\ j = i) => table'[c].slots[j] = table[c].slots[j]
  BY VectorWritten
<1> QED BY <1>1 DEF SameSlots

\* No other step of a thread touches the indices.
LEMMA TableStill ==
  ASSUME NEW t \in Articles, StepOf(t), ~Enter(t), ~Attach(t), ~Store(t)
  PROVE  UNCHANGED <<table, vectors>>
<1> USE DEF database
<1>1. CASE Parse(t) \/ EndOfText(t) \/ SkipStopWord(t)
  BY <1>1 DEF Parse, EndOfText, SkipStopWord, Ignore, SearchMissed, AnswerOK,
     AnswerRedirect, AnswerOther, AppendSeen, LengthSeen
<1>2. CASE AddWord(t)
  BY <1>2 DEF AddWord, LookupFound, LookupMissed, Relookup, FindOld, FindNew, Count, Nth,
     UseDangling, Load
<1> QED BY <1>1, <1>2 DEF StepOf

\* All but Enter leave the slots as they were.
LEMMA StepsSameSlots ==
  ASSUME IndexInv, \/ \E t \in Articles : StepOf(t) /\ ~Enter(t)
                   \/ \E w \in Words : Query(w)
  PROVE  SameSlots
<1>1. ASSUME NEW t \in Articles, StepOf(t), ~Enter(t), ~Attach(t), ~Store(t)
      PROVE  UNCHANGED <<table, vectors>>
  BY <1>1, TableStill
<1>2. UNCHANGED <<table, vectors>> => SameSlots
  BY DEF SameSlots
<1>3. ASSUME NEW t \in Articles, Attach(t) PROVE SameSlots
  BY <1>3, AttachWrites, VectorWrittenSameSlots, Zenon DEF IndexInv, Attach
<1>4. ASSUME NEW t \in Articles, Store(t) PROVE SameSlots
  <2>1. vectors' = vectors
    BY <1>4, Zenon DEF Store
  <2>2. CASE Homes(elem[t]) = {}
    BY <1>2, <1>4, <2>1, <2>2 DEF Store
  <2>3. CASE Homes(elem[t]) # {}
    <3>1. PICK h \in Homes(elem[t]), v \in Vector :
             /\ h.bucket \in Buckets
             /\ h.pos \in DOMAIN table[h.bucket].slots
             /\ table' = WithVector(h.bucket, h.pos, v)
             /\ v.id = table[h.bucket].slots[h.pos].vec.id
      <4>1. PICK h \in Homes(elem[t]), v \in Vector :
               /\ h.bucket \in Buckets
               /\ h.pos \in DOMAIN table[h.bucket].slots
               /\ VectorAt(h) = table[h.bucket].slots[h.pos].vec
               /\ table' = WithVector(h.bucket, h.pos, v)
               /\ v.id = VectorAt(h).id /\ v.id = elem[t].id
               /\ v.gen = VectorAt(h).gen
               /\ elem[t].pos \in DOMAIN VectorAt(h).elems
               /\ v.elems = [VectorAt(h).elems EXCEPT ![elem[t].pos].freq = freq[t] + 1]
        BY <1>4, <2>3, StoreWrites
      <4> QED BY <4>1, Zenon
    <3> QED BY <2>1, <3>1, VectorWrittenSameSlots DEF IndexInv
  <2> QED BY <2>2, <2>3
<1>5. ASSUME NEW w \in Words, Query(w) PROVE SameSlots
  <2>1. vectors' = vectors
    BY <1>5, Zenon DEF Query
  <2> QED BY <1>5, <2>1, QueryWrites, VectorWrittenSameSlots DEF IndexInv
<1> QED BY <1>1, <1>2, <1>3, <1>4, <1>5

-----------------------------------------------------------------------------
(* Where HashSetEnter puts an element, and where the others come from.      *)
Origin(i, p, d) == IF i < p THEN i ELSE i - d

EnteredAt(old, new, e, p, d) ==
    /\ p \in DOMAIN new /\ new[p] = e
    /\ d = (IF Places(old, e.key) # {} THEN 0 ELSE 1)
    /\ \A i \in DOMAIN new : i # p => /\ Origin(i, p, d) \in DOMAIN old
                                      /\ new[i] = old[Origin(i, p, d)]
    /\ \A j \in DOMAIN old : old[j].key # e.key =>
          \E i \in DOMAIN new : i # p /\ Origin(i, p, d) = j

\* HashSetEnter keeps the order, and every other slot with its contents.
LEMMA EnteredWhere ==
  ASSUME NEW S, NEW b \in BucketOf(S), NEW e \in S, NEW c \in Entered(b, e),
         Sorted(b.slots), Ranked(b.slots, e.key),
         \A i \in DOMAIN b.slots : Rank[b.slots[i].key] = Rank[e.key] => b.slots[i].key = e.key
  PROVE  /\ Sorted(c.slots)
         /\ \E p \in Nat, d \in {0, 1} : EnteredAt(b.slots, c.slots, e, p, d)
<1> DEFINE old == b.slots
<1>1. old \in Seq(S) /\ Len(old) \in Nat
  BY DEF BucketOf
<1>2. CASE Places(old, e.key) # {}
  <2> DEFINE p == PlaceOf(old, e.key)
             new == ReplaceSlot(old, p, e)
  <2>1. p \in DOMAIN old /\ old[p].key = e.key
    BY <1>1, <1>2, PlaceOfPresent
  <2>2. c = [b EXCEPT !.slots = new]
    BY <1>2 DEF Entered
  <2>3. /\ DOMAIN new = DOMAIN old
        /\ new[p] = e
        /\ \A k \in DOMAIN old : k # p => new[k] = old[k]
    BY <1>1, <2>1 DEF ReplaceSlot
  <2> HIDE DEF p, new
  <2>4. c.slots = new
    BY <2>2 DEF BucketOf
  <2>5. Sorted(new)
    BY <2>1, <2>3 DEF Sorted
  <2>6. EnteredAt(old, new, e, p, 0)
    BY <1>1, <1>2, <2>1, <2>3 DEF EnteredAt, Origin
  <2> QED BY <1>1, <2>1, <2>4, <2>5, <2>6
<1>3. CASE Places(old, e.key) = {}
  <2> DEFINE p == InsertPlace(old, e.key)
             new == InsertSlot(old, p, e)
  <2>1. p \in 1..(Len(old) + 1)
    BY <1>1, InsertPlaceInRange
  <2>2. \A i \in DOMAIN old : Rank[old[i].key] # Rank[e.key]
    BY <1>3 DEF Places
  <2>3. Sorted(new)
    BY <1>1, <2>2, InsertKeepsOrder
  <2>4. c \in BucketWith(b, e)
    BY <1>3 DEF Entered
  <2>5. c.slots = new
    <3> HIDE DEF p
    <3>1. new = InsertSlot(b.slots, InsertPlace(b.slots, e.key), e)
      BY DEF p
    <3> HIDE DEF new
    <3> QED BY <3>1, <2>4 DEF BucketWith, BucketOf
  <2> HIDE DEF p
  <2>6. EnteredAt(old, new, e, p, 1)
    <3>1. DOMAIN new = 1..(Len(old) + 1) /\ DOMAIN old = 1..Len(old) /\ new[p] = e
      BY <1>1, <2>1 DEF InsertSlot
    <3>2. \A i \in DOMAIN new : i # p => /\ Origin(i, p, 1) \in DOMAIN old
                                         /\ new[i] = old[Origin(i, p, 1)]
      BY <1>1, <2>1 DEF InsertSlot, Origin
    <3>3. ASSUME NEW j \in DOMAIN old PROVE \E i \in DOMAIN new : i # p /\ Origin(i, p, 1) = j
      <4>1. CASE j < p
        BY <1>1, <2>1, <3>1, <4>1 DEF Origin
      <4>2. CASE ~(j < p)
        <5>1. j + 1 \in DOMAIN new /\ j + 1 # p /\ Origin(j + 1, p, 1) = j
          BY <1>1, <2>1, <3>1, <4>2 DEF Origin
        <5> QED BY <5>1
      <4> QED BY <4>1, <4>2
    <3> HIDE DEF new
    <3> QED BY <1>3, <2>1, <3>1, <3>2, <3>3 DEF EnteredAt
  <2> HIDE DEF new
  <2> QED BY <2>1, <2>3, <2>5, <2>6
<1> QED BY <1>2, <1>3

\* Enter changes the bucket of the thread's word, as HashSetEnter does.
LEMMA EnterWrites ==
  ASSUME IndexInv, HomeInv, NEW t \in Articles, Enter(t)
  PROVE  /\ Word(t) \in Words /\ Hash[Word(t)] \in Buckets
         /\ \A b \in Buckets : b # Hash[Word(t)] => table'[b] = table[b]
         /\ Sorted(table'[Hash[Word(t)]].slots)
         /\ \E p \in Nat, d \in {0, 1} :
               EnteredAt(table[Hash[Word(t)]].slots, table'[Hash[Word(t)]].slots,
                         NewSlot(Word(t)), p, d)
<1> DEFINE w == Word(t)
           h == Hash[w]
           e == NewSlot(w)
<1>1. /\ w \in Words /\ h \in Buckets
      /\ table[h] \in BucketOf(Slot) /\ vectors \in Nat
  <2>1. token[t] \in DOMAIN Text[doc[t]]
    BY DEF Enter, At, IndexInv, CursorSet, CursorOf, InAddWord
  <2> QED BY <2>1, WordKnown, BucketIsBucketOf DEF IndexInv, TypeOK
<1>2. e \in Slot /\ e.key = w
  BY <1>1, BoundAssumption DEF NewSlot, Slot, Vector
<1>3. PICK c \in Entered(table[h], e) : table' = [table EXCEPT ![h] = c]
  BY DEF Enter
<1> HIDE DEF w, h, e
<1>4. table'[h] = c /\ \A b \in Buckets : b # h => table'[b] = table[b]
  BY <1>1, <1>3 DEF IndexInv, TypeOK
<1>5. Sorted(table[h].slots)
  BY <1>1 DEF HomeInv, SlotsAtHome
<1>6. \A i \in DOMAIN table[h].slots : table[h].slots[i].key \in Words
  <2>1. table[h].slots \in Seq(Slot)
    BY <1>1 DEF BucketOf
  <2>2. \A i \in DOMAIN table[h].slots : table[h].slots[i] \in Slot
    BY <2>1
  <2> QED BY <2>2 DEF Slot
<1>7. Ranked(table[h].slots, e.key)
  BY <1>1, <1>2, <1>6, WordAssumption DEF Ranked
<1>8. \A i \in DOMAIN table[h].slots :
         Rank[table[h].slots[i].key] = Rank[e.key] => table[h].slots[i].key = e.key
  BY <1>1, <1>2, <1>6, WordAssumption
<1>9. /\ Sorted(c.slots)
      /\ \E p \in Nat, d \in {0, 1} : EnteredAt(table[h].slots, c.slots, e, p, d)
  BY <1>1, <1>2, <1>3, <1>5, <1>7, <1>8, EnteredWhere
<1>10. /\ Sorted(table'[h].slots)
       /\ \E p \in Nat, d \in {0, 1} : EnteredAt(table[h].slots, table'[h].slots, e, p, d)
  BY <1>4, <1>9
<1> USE DEF w, h, e
<1> QED BY <1>1, <1>4, <1>10

\* The new slot is in its word's bucket, with a vector of its own.
LEMMA EnterHome ==
  ASSUME IndexInv, HomeInv, NEW t \in Articles, Enter(t)
  PROVE  /\ OwnVectors' /\ SlotsAtHome'
         /\ \A b \in Buckets : \A i \in DOMAIN table'[b].slots :
               \/ \E j \in DOMAIN table[b].slots : VectorID(b, i)' = VectorID(b, j)
               \/ VectorID(b, i)' = vectors
<1> DEFINE w == Word(t)
           h == Hash[w]
           e == NewSlot(w)
           old == table[h].slots
           new == table'[h].slots
<1>1. /\ w \in Words /\ h \in Buckets
      /\ \A b \in Buckets : b # h => table'[b] = table[b]
      /\ Sorted(new)
      /\ \E p \in Nat, d \in {0, 1} : EnteredAt(old, new, e, p, d)
  BY EnterWrites
<1>2. PICK p \in Nat, d \in {0, 1} : EnteredAt(old, new, e, p, d)
  BY <1>1
<1>3. /\ vectors' = vectors + 1 /\ vectors \in Nat
      /\ e.vec.id = vectors /\ e.key = w
  BY DEF Enter, IndexInv, TypeOK, NewSlot
<1>4. DOMAIN old \subseteq Nat /\ DOMAIN new \subseteq Nat
  <2>1. table[h].slots \in Seq(Slot)
    BY <1>1 DEF IndexInv, TypeOK, Bucket
  <2>2. table'[h].slots \in Seq(Slot)
    BY <1>1, EnterKeeps DEF IndexInv, TypeOK, Bucket
  <2> QED BY <2>1, <2>2
<1>5. \A i \in DOMAIN new : i # p => Origin(i, p, d) \in DOMAIN old /\ new[i] = old[Origin(i, p, d)]
  BY <1>2 DEF EnteredAt
<1>6. new[p] = e
  BY <1>2 DEF EnteredAt
<1>7. \A i, j \in DOMAIN new : i # p /\ j # p /\ Origin(i, p, d) = Origin(j, p, d) => i = j
  <2> SUFFICES ASSUME NEW i \in DOMAIN new, NEW j \in DOMAIN new, i # p, j # p,
                      Origin(i, p, d) = Origin(j, p, d)
               PROVE  i = j
    OBVIOUS
  <2>1. i \in Nat /\ j \in Nat /\ p \in Nat /\ d \in {0, 1}
    BY <1>4
  <2> HIDE DEF new
  <2> QED BY <2>1 DEF Origin
<1>8. ASSUME NEW b \in Buckets, NEW i \in DOMAIN table'[b].slots
      PROVE  \/ /\ ~(b = h /\ i = p)
                /\ \E j \in DOMAIN table[b].slots : /\ table'[b].slots[i] = table[b].slots[j]
                                                    /\ j = (IF b = h THEN Origin(i, p, d) ELSE i)
             \/ b = h /\ i = p /\ table'[b].slots[i] = e
  BY <1>1, <1>5, <1>6
<1> HIDE DEF w, h, e, old, new
<1>9. \A b \in Buckets : \A i \in DOMAIN table[b].slots : VectorID(b, i) < vectors /\ VectorID(b, i) \in Nat
  BY VectorInSlot DEF HomeInv, OwnVectors, IndexInv, VectorID, Vector
<1>10. \A b \in Buckets : \A i \in DOMAIN table'[b].slots : VectorID(b, i)' < vectors'
  BY <1>3, <1>8, <1>9 DEF VectorID
<1>11. ASSUME NEW b \in Buckets, NEW c \in Buckets,
              NEW i \in DOMAIN table'[b].slots, NEW j \in DOMAIN table'[c].slots,
              VectorID(b, i)' = VectorID(c, j)'
       PROVE  b = c /\ i = j
  <2>1. CASE b = h /\ i = p
    <3>1. VectorID(c, j)' = vectors
      BY <1>3, <1>6, <1>11, <2>1 DEF VectorID, new
    <3>2. c = h /\ j = p
      BY <1>8, <1>9, <3>1 DEF VectorID
    <3> QED BY <2>1, <3>2
  <2>2. CASE c = h /\ j = p
    <3>1. VectorID(b, i)' = vectors
      BY <1>3, <1>6, <1>11, <2>2 DEF VectorID, new
    <3>2. b = h /\ i = p
      BY <1>8, <1>9, <3>1 DEF VectorID
    <3> QED BY <2>2, <3>2
  <2>3. CASE ~(b = h /\ i = p) /\ ~(c = h /\ j = p)
    <3>1. PICK k \in DOMAIN table[b].slots :
             /\ table'[b].slots[i] = table[b].slots[k]
             /\ k = (IF b = h THEN Origin(i, p, d) ELSE i)
      BY <1>8, <2>3
    <3>2. PICK l \in DOMAIN table[c].slots :
             /\ table'[c].slots[j] = table[c].slots[l]
             /\ l = (IF c = h THEN Origin(j, p, d) ELSE j)
      BY <1>8, <2>3
    <3>3. b = c /\ k = l
      BY <1>11, <3>1, <3>2 DEF HomeInv, OwnVectors, VectorID
    <3>4. i = j
      BY <1>7, <2>3, <3>1, <3>2, <3>3 DEF new
    <3> QED BY <3>3, <3>4
  <2> QED BY <2>1, <2>2, <2>3
<1>12. OwnVectors'
  BY <1>10, <1>11 DEF OwnVectors
<1>13. SlotsAtHome'
  <2>1. ASSUME NEW b \in Buckets PROVE Sorted(table'[b].slots)
    BY <1>1 DEF HomeInv, SlotsAtHome, new
  <2>2. ASSUME NEW b \in Buckets, NEW i \in DOMAIN table'[b].slots
        PROVE  Hash[table'[b].slots[i].key] = b
    BY <1>3, <1>8 DEF HomeInv, SlotsAtHome, h
  <2> QED BY <2>1, <2>2 DEF SlotsAtHome
<1> QED BY <1>3, <1>8, <1>12, <1>13 DEF VectorID

\* At first there is no slot and no pointer.
LEMMA HomeInit == Init => HomeInv
<1> SUFFICES ASSUME Init PROVE HomeInv
  OBVIOUS
<1>1. \A b \in Buckets : DOMAIN table[b].slots = {}
  BY DEF Init, EmptyBucket
<1>2. OwnVectors /\ SlotsAtHome
  BY <1>1 DEF OwnVectors, SlotsAtHome, Sorted
<1>3. \A t \in Articles : BeforeScan(t) /\ PointersAtHome(t)
  BY DEF Init, BeforeScan, PointersAtHome, InAddWord, UsesEntry, UsesElement
<1> QED BY <1>2, <1>3 DEF HomeInv

\* A thread's own steps.
LEMMA OwnStepHome ==
  ASSUME IndexInv, HomeInv, NEW t \in Articles, StepOf(t)
  PROVE  BeforeScan(t)' /\ PointersAtHome(t)'
<1> USE DEF At, Goto, UsesVector, cursor, database
<1>1. BeforeScan(t) /\ PointersAtHome(t)
  BY DEF HomeInv
<1>2. CASE Parse(t) \/ EndOfText(t) \/ SkipStopWord(t)
  <2>1. /\ pc'[t] \in {"connect", "append", "search", "length"} =>
              articleID'[t] = NoArticle /\ token'[t] = 1
        /\ pc'[t] \in {"connect", "append", "search", "length", "scan", "done"}
    BY <1>1, <1>2 DEF Parse, EndOfText, SkipStopWord, Ignore, SearchMissed, AnswerOK,
       AnswerRedirect, AnswerOther, AppendSeen, LengthSeen, Scanning, BeforeScan, IndexInv, TypeOK
  <2> QED BY <2>1 DEF BeforeScan, PointersAtHome, InAddWord, UsesEntry, UsesElement
<1>3. CASE LookupFound(t) \/ LookupMissed(t) \/ Relookup(t)
  <2>1. /\ Word(t)' = Word(t) /\ Word(t) \notin StopWords
        /\ Present(Word(t)) => AddressOf(Word(t)).bucket = Hash[Word(t)]
    BY <1>1, <1>3 DEF LookupFound, LookupMissed, Relookup, Indexing, Word, BeforeScan, InAddWord,
       AddressOf
  <2>2. \/ pc'[t] = "enter"
        \/ pc'[t] = "find" /\ entry'[t].bucket = Hash[Word(t)]
        \/ pc'[t] = "relookup"
    BY <1>3, <2>1 DEF LookupFound, LookupMissed, Relookup, Indexing, Scanning, IndexInv, TypeOK
  <2> QED BY <2>1, <2>2 DEF BeforeScan, PointersAtHome, InAddWord, UsesEntry, UsesElement
<1>4. CASE Enter(t)
  <2>1. pc'[t] = "relookup" /\ Word(t)' = Word(t) /\ pc[t] = "enter"
    BY <1>4 DEF Enter, IndexInv, TypeOK, Word
  <2> QED BY <1>1, <2>1 DEF BeforeScan, PointersAtHome, InAddWord, UsesEntry, UsesElement
<1>5. CASE FindOld(t) \/ FindNew(t) \/ Attach(t) \/ Count(t) \/ UseDangling(t)
  <2>1. /\ pc[t] \in UsesEntry /\ pc'[t] \in UsesEntry
        /\ Word(t)' = Word(t) /\ entry'[t] = entry[t]
    BY <1>5 DEF FindOld, FindNew, Attach, Count, UseDangling, IndexInv, TypeOK, UsesEntry, Word
  <2> QED BY <1>1, <2>1 DEF BeforeScan, PointersAtHome, InAddWord, UsesEntry, UsesElement
<1>6. CASE Nth(t)
  <2>1. /\ pc[t] = "nth" /\ Allocated(entry[t]) /\ UNCHANGED <<table, vectors>>
        /\ Word(t)' = Word(t) /\ entry'[t] = entry[t]
        /\ \/ pc'[t] = "nth"
           \/ pc'[t] = "load" /\ elem'[t].id = VectorAt(entry[t]).id
    BY <1>6 DEF Nth, IndexInv, TypeOK, Word
  <2>2. /\ entry[t].bucket \in Buckets
        /\ entry[t].pos \in DOMAIN table[entry[t].bucket].slots
        /\ entry[t].bucket = Hash[Word(t)]
        /\ VectorAt(entry[t]).id = VectorID(entry[t].bucket, entry[t].pos)
    BY <1>1, <2>1, EntryInTable DEF PointersAtHome, UsesEntry, VectorAt, VectorID
  <2>3. /\ VectorAt(entry[t]).id < vectors
        /\ \A b \in Buckets : \A i \in DOMAIN table[b].slots :
              VectorID(b, i) = VectorAt(entry[t]).id => b = Hash[Word(t)]
    BY <2>2 DEF HomeInv, OwnVectors
  <2>4. CASE pc'[t] = "nth"
    BY <1>1, <2>1, <2>4 DEF BeforeScan, PointersAtHome, InAddWord, UsesEntry, UsesElement
  <2>5. CASE pc'[t] = "load" /\ elem'[t].id = VectorAt(entry[t]).id
    <3>1. BeforeScan(t)'
      BY <1>1, <2>1, <2>5 DEF BeforeScan, InAddWord
    <3>2. PointersAtHome(t)'
      BY <2>1, <2>3, <2>5 DEF PointersAtHome, UsesEntry, UsesElement, VectorID
    <3> QED BY <3>1, <3>2
  <2> QED BY <2>1, <2>4, <2>5
<1>7. CASE Load(t)
  <2>1. /\ pc[t] = "load" /\ pc'[t] = "store" /\ UNCHANGED <<table, vectors>>
        /\ Word(t)' = Word(t) /\ elem'[t] = elem[t]
    BY <1>7 DEF Load, IndexInv, TypeOK, Word
  <2> QED BY <1>1, <2>1 DEF BeforeScan, PointersAtHome, InAddWord, UsesEntry, UsesElement, VectorID
<1>8. CASE Store(t)
  <2>1. pc'[t] = "scan"
    BY <1>8, Zenon DEF Store, IndexInv, TypeOK
  <2> QED BY <2>1 DEF BeforeScan, PointersAtHome, InAddWord, UsesEntry, UsesElement
<1> QED BY <1>2, <1>3, <1>4, <1>5, <1>6, <1>7, <1>8 DEF StepOf, AddWord

\* Every step keeps vectors, slots and pointers at home.
LEMMA HomeStep ==
  ASSUME IndexInv, HomeInv, [Next]_vars PROVE HomeInv'
<1>1. ASSUME NEW t \in Articles, StepOf(t) PROVE HomeInv'
  <2>1. /\ OwnVectors' /\ SlotsAtHome'
        /\ vectors' \in Nat /\ vectors' >= vectors
        /\ \A b \in Buckets : \A i \in DOMAIN table'[b].slots :
              \/ \E j \in DOMAIN table[b].slots : VectorID(b, i)' = VectorID(b, j)
              \/ VectorID(b, i)' = vectors
    <3>1. CASE Enter(t)
      <4>1. vectors' = vectors + 1 /\ vectors \in Nat
        BY <3>1 DEF Enter, IndexInv, TypeOK
      <4> QED BY <3>1, <4>1, EnterHome
    <3>2. CASE ~Enter(t)
      <4>1. SameSlots /\ vectors \in Nat
        BY <1>1, <3>2, StepsSameSlots DEF IndexInv, TypeOK
      <4>2. OwnVectors' /\ SlotsAtHome'
        BY <4>1, SameSlotsHome
      <4> QED BY <4>1, <4>2 DEF SameSlots, VectorID
    <3> QED BY <3>1, <3>2
  <2>2. ASSUME NEW u \in Articles, u # t PROVE BeforeScan(u)' /\ PointersAtHome(u)'
    <3>1. Still(u)
      BY <1>1, <2>2, OthersStill DEF IndexInv
    <3> QED BY <2>1, <3>1, PointersStill
  <2>3. BeforeScan(t)' /\ PointersAtHome(t)'
    BY <1>1, OwnStepHome
  <2> QED BY <2>1, <2>2, <2>3 DEF HomeInv
<1>2. ASSUME NEW w \in Words, Query(w) PROVE HomeInv'
  <2>1. SameSlots /\ vectors \in Nat
    BY <1>2, StepsSameSlots DEF IndexInv, TypeOK
  <2>2. OwnVectors' /\ SlotsAtHome'
    BY <2>1, SameSlotsHome
  <2>3. ASSUME NEW u \in Articles PROVE BeforeScan(u)' /\ PointersAtHome(u)'
    <3>1. Still(u)
      BY <1>2 DEF Query, Still, cursor
    <3> QED BY <2>1, <3>1, PointersStill DEF SameSlots, VectorID
  <2> QED BY <2>2, <2>3 DEF HomeInv
<1>3. CASE UNCHANGED vars
  BY <1>3 DEF vars, HomeInv, OwnVectors, SlotsAtHome, BeforeScan, PointersAtHome, VectorID, Word
<1> QED BY <1>1, <1>2, <1>3 DEF Next, StepOf

-----------------------------------------------------------------------------
(***************************************************************************)
(* No word is counted that was not read.                                   *)
(***************************************************************************)
\* The unit of counting: the nth increment of an element of a vector.
Increment == [id : Nat, pos : Nat \ {0}, nth : Nat \ {0}]

\* Increments that an element has, and those that a thread has loaded and will
\* have stored with its own, whatever became of the element meanwhile.
InElement(x, v) == /\ v.id = x.id
                   /\ x.pos \in DOMAIN v.elems
                   /\ x.nth <= v.elems[x.pos].freq
InIndex(x) == \E b \in Buckets : \E i \in DOMAIN table[b].slots : InElement(x, table[b].slots[i].vec)
Pending(x) == \E t \in Articles : /\ pc[t] = "store"
                                  /\ elem[t].id = x.id /\ elem[t].pos = x.pos
                                  /\ x.nth <= freq[t]

Increments == {x \in Increment : InIndex(x) \/ Pending(x)}
WordsAdded == UNION {{t} \X Added(t, Words) : t \in Articles}

\* Each was made for a word of its own.
CountsCovered == ExistsInjection(Increments, WordsAdded)

\* An injection extended by one pair, to a value it did not have.
LEMMA InjectionGrows ==
  ASSUME NEW S, NEW T, NEW S2, NEW T2, NEW x, NEW y,
         ExistsInjection(S, T), S2 \subseteq S \cup {x}, T \subseteq T2, y \in T2 \ T
  PROVE  ExistsInjection(S2, T2)
<1>1. PICK F \in Injection(S, T) : TRUE
  BY DEF ExistsInjection
<1>2. F \in [S -> T] /\ \A a, b \in S : F[a] = F[b] => a = b
  BY <1>1 DEF Injection, IsInjective
<1> DEFINE G == [a \in S2 |-> IF a \in S THEN F[a] ELSE y]
<1>3. G \in [S2 -> T2]
  BY <1>2
<1>4. \A a, b \in S2 : G[a] = G[b] => a = b
  BY <1>2
<1> HIDE DEF G
<1>5. G \in Injection(S2, T2)
  BY <1>3, <1>4 DEF Injection, IsInjective
<1> QED BY <1>5 DEF ExistsInjection

\* An injection from fewer to more.
LEMMA InjectionKept ==
  ASSUME NEW S, NEW T, NEW S2, NEW T2, ExistsInjection(S, T), S2 \subseteq S, T \subseteq T2
  PROVE  ExistsInjection(S2, T2)
<1>1. PICK F \in Injection(S, T) : TRUE
  BY DEF ExistsInjection
<1>2. F \in [S -> T] /\ \A a, b \in S : F[a] = F[b] => a = b
  BY <1>1 DEF Injection, IsInjective
<1> DEFINE G == [a \in S2 |-> F[a]]
<1>3. G \in [S2 -> T2] /\ \A a, b \in S2 : G[a] = G[b] => a = b
  BY <1>2
<1> HIDE DEF G
<1>4. G \in Injection(S2, T2)
  BY <1>3 DEF Injection, IsInjective
<1> QED BY <1>4 DEF ExistsInjection

-----------------------------------------------------------------------------
\* A thread that adds a word does not take back another.
LEMMA AddedGrows ==
  ASSUME IndexInv, HomeInv, NEW t \in Articles, StepOf(t), NEW u \in Articles, NEW W
  PROVE  /\ Added(u, W) \subseteq Added(u, W)'
         /\ u # t => Added(u, W)' = Added(u, W)
<1>1. CASE u # t
  BY <1>1, OthersStill DEF IndexInv, Still, Added
<1>2. CASE u = t
  <2>1. CASE articleID[t] = NoArticle
    BY <1>2, <2>1 DEF Added
  <2>2. CASE articleID[t] # NoArticle
    <3>1. pc[t] \notin {"search", "connect", "append", "length"}
      BY <2>2 DEF HomeInv, BeforeScan
    <3>2. /\ articleID'[t] = articleID[t] /\ doc'[t] = doc[t]
          /\ token'[t] \in {token[t], token[t] + 1} /\ token[t] \in Nat
      BY <3>1, Zenon DEF StepOf, Parse, AddWord, EndOfText, SkipStopWord, Ignore, SearchMissed,
         AnswerOK,
         AnswerRedirect, AnswerOther, AppendSeen, LengthSeen, LookupFound, LookupMissed, Enter,
         Relookup, FindOld, FindNew, Attach, Count, Nth, UseDangling, Load, Store, At, Goto,
         UsesVector, Indexing, Scanning, cursor, IndexInv, TypeOK
    <3> QED BY <1>2, <3>2 DEF Added
  <2> QED BY <2>1, <2>2
<1> QED BY <1>1, <1>2

\* No word added is taken back.
LEMMA WordsAddedGrows ==
  ASSUME IndexInv, HomeInv, NEW t \in Articles, StepOf(t)
  PROVE  WordsAdded \subseteq WordsAdded'
BY AddedGrows DEF WordsAdded

\* When the increment is stored, the word has been added.
LEMMA StoreAdds ==
  ASSUME IndexInv, HomeInv, NEW t \in Articles, Store(t)
  PROVE  /\ Added(t, Words)' = Added(t, Words) \cup {token[t]}
         /\ <<t, token[t]>> \in WordsAdded' \ WordsAdded
<1>1. /\ articleID'[t] = articleID[t] /\ doc'[t] = doc[t]
      /\ token'[t] = token[t] + 1 /\ token[t] \in Nat \ {0}
      /\ token[t] \in DOMAIN Text[doc[t]] /\ articleID[t] # NoArticle
      /\ Word(t) \in Words \ StopWords
  <2>1. /\ articleID[t] \in Nat /\ token[t] \in DOMAIN Text[doc[t]]
        /\ Word(t) \notin StopWords
    BY Zenon DEF Store, At, IndexInv, HomeInv, CursorSet, CursorOf, BeforeScan, InAddWord
  <2> QED BY <2>1, WordKnown, NoArticleAssumption, Zenon DEF Store, IndexInv, TypeOK
<1>2. Added(t, Words)' = Added(t, Words) \cup {token[t]}
  BY <1>1 DEF Added, Word
<1>3. token[t] \notin Added(t, Words)
  BY <1>1 DEF Added
<1> QED BY <1>2, <1>3 DEF WordsAdded

-----------------------------------------------------------------------------
\* Increments come only from a store, or from what is in the index already.
LEMMA PendingKept ==
  ASSUME IndexInv, HomeInv, NEW t \in Articles, StepOf(t), NEW x \in Increment, Pending(x)'
  PROVE  Pending(x) \/ InIndex(x)
<1>1. PICK u \in Articles : /\ pc'[u] = "store"
                            /\ elem'[u].id = x.id /\ elem'[u].pos = x.pos
                            /\ x.nth <= freq'[u]
  BY DEF Pending
<1>2. CASE u # t
  BY <1>1, <1>2, OthersStill DEF IndexInv, Still, Pending
<1>3. CASE u = t
  <2>1. Load(t)
    BY <1>1, <1>3, Zenon DEF StepOf, Parse, AddWord, EndOfText, SkipStopWord, Ignore,
       SearchMissed, AnswerOK,
       AnswerRedirect, AnswerOther, AppendSeen, LengthSeen, LookupFound, LookupMissed, Enter,
       Relookup, FindOld, FindNew, Attach, Count, Nth, UseDangling, Store, At, Goto,
       UsesVector, Indexing, Scanning, cursor, IndexInv, TypeOK
  <2>2. elem[t] \in ElemPointer /\ elem' = elem
    BY <2>1 DEF Load, At, IndexInv, CursorSet, CursorOf, UsesElement
  <2>3. CASE Homes(elem[t]) = {}
    <3>1. freq'[t] = 0
      BY <2>1, <2>3 DEF Load, IndexInv, TypeOK
    <3> QED BY <1>1, <1>3, <3>1 DEF Increment
  <2>4. CASE Homes(elem[t]) # {}
    <3>1. PICK h \in Homes(elem[t]) : freq'[t] = ElemsAt(h)[elem[t].pos].freq
      BY <2>1, <2>4, Zenon DEF Load, IndexInv, TypeOK
    <3>2. /\ h.bucket \in Buckets
          /\ h.pos \in DOMAIN table[h.bucket].slots
          /\ VectorAt(h) = table[h.bucket].slots[h.pos].vec
          /\ elem[t].pos \in DOMAIN VectorAt(h).elems
          /\ VectorAt(h).id = elem[t].id
      BY <2>2, HomeInTable DEF IndexInv, Homes
    <3>3. InElement(x, VectorAt(h))
      BY <1>1, <1>3, <2>2, <3>1, <3>2, Zenon DEF InElement, ElemsAt
    <3> QED BY <3>2, <3>3 DEF InIndex
  <2> QED BY <2>3, <2>4
<1> QED BY <1>2, <1>3

\* Increments after one vector was written: as before, or in that vector.
LEMMA WrittenInIndex ==
  ASSUME TypeOK, NEW b \in Buckets, NEW i \in DOMAIN table[b].slots, NEW v \in Vector,
         table' = WithVector(b, i, v), NEW x \in Increment, InIndex(x)'
  PROVE  InIndex(x) \/ InElement(x, v)
<1>1. /\ table'[b].slots[i].vec = v
      /\ \A c \in Buckets :
            /\ DOMAIN table'[c].slots = DOMAIN table[c].slots
            /\ \A j \in DOMAIN table[c].slots :
                  ~(c = b /\ j = i) => table'[c].slots[j] = table[c].slots[j]
  BY VectorWritten
<1>2. PICK c \in Buckets : \E j \in DOMAIN table'[c].slots : InElement(x, table'[c].slots[j].vec)
  BY Zenon DEF InIndex, InElement
<1>3. PICK j \in DOMAIN table[c].slots : InElement(x, table'[c].slots[j].vec)
  BY <1>1, <1>2
<1>4. CASE c = b /\ j = i
  BY <1>1, <1>3, <1>4
<1>5. CASE ~(c = b /\ j = i)
  <2>1. InElement(x, table[c].slots[j].vec)
    BY <1>1, <1>3, <1>5
  <2> QED BY <2>1 DEF InIndex
<1> QED BY <1>4, <1>5

\* The new vector is empty, and no other is new.
LEMMA EnterInIndex ==
  ASSUME IndexInv, HomeInv, NEW t \in Articles, Enter(t), NEW x \in Increment, InIndex(x)'
  PROVE  InIndex(x)
<1> DEFINE h == Hash[Word(t)]
           e == NewSlot(Word(t))
           old == table[h].slots
           new == table'[h].slots
<1>1. /\ h \in Buckets
      /\ \A b \in Buckets : b # h => table'[b] = table[b]
      /\ \E p \in Nat, d \in {0, 1} : EnteredAt(old, new, e, p, d)
  BY EnterWrites
<1>2. PICK c \in Buckets : \E j \in DOMAIN table'[c].slots : InElement(x, table'[c].slots[j].vec)
  BY Zenon DEF InIndex, InElement
<1>3. PICK j \in DOMAIN table'[c].slots : InElement(x, table'[c].slots[j].vec)
  BY <1>2
<1>4. CASE c # h
  BY <1>1, <1>3, <1>4 DEF InIndex
<1>5. CASE c = h
  <2>1. new[j] = e \/ \E k \in DOMAIN old : new[j] = old[k]
    <3>1. PICK p \in Nat, d \in {0, 1} : EnteredAt(old, new, e, p, d)
      BY <1>1
    <3> HIDE DEF old, new, e
    <3>2. j \in DOMAIN new
      BY <1>3, <1>5 DEF new
    <3> QED BY <3>1, <3>2 DEF EnteredAt
  <2>2. new[j] # e
    <3>1. e.vec.elems = <<>>
      BY DEF NewSlot
    <3> QED BY <1>3, <1>5, <3>1 DEF InElement
  <2> QED BY <1>1, <1>3, <1>5, <2>1, <2>2 DEF InIndex
<1> QED BY <1>4, <1>5

\* The new element has the frequency 0.
LEMMA AttachInIndex ==
  ASSUME IndexInv, NEW t \in Articles, Attach(t), NEW x \in Increment, InIndex(x)'
  PROVE  InIndex(x)
<1> DEFINE b == entry[t].bucket
           i == entry[t].pos
           old == VectorAt(entry[t])
           new == [article |-> articleID[t], freq |-> 0]
<1>1. /\ b \in Buckets /\ i \in DOMAIN table[b].slots
      /\ old = table[b].slots[i].vec
      /\ \E v \in Vector : /\ table' = WithVector(b, i, v) /\ v.id = old.id
                           /\ v.elems = Append(old.elems, new)
  BY AttachWrites
<1>2. PICK v \in Vector : /\ table' = WithVector(b, i, v) /\ v.id = old.id
                          /\ v.elems = Append(old.elems, new)
  BY <1>1, Zenon
<1>3. InIndex(x) \/ InElement(x, v)
  <2> HIDE DEF b, i
  <2> QED BY <1>1, <1>2, WrittenInIndex DEF IndexInv
<1>4. InElement(x, v) => InElement(x, old)
  <2>1. old.elems \in Seq(Relevant) /\ new.freq = 0
    BY <1>1, VectorInSlot, Zenon DEF IndexInv
  <2>2. x.nth \in Nat \ {0}
    BY DEF Increment
  <2>3. \A k \in DOMAIN v.elems : v.elems[k] = new \/ (k \in DOMAIN old.elems /\ v.elems[k] = old.elems[k])
    <3> HIDE DEF old, new
    <3> QED BY <1>2, <2>1
  <2> HIDE DEF old, new
  <2> QED BY <1>2, <2>1, <2>2, <2>3 DEF InElement
<1> QED BY <1>1, <1>3, <1>4, Zenon DEF InIndex

\* The increment makes at most one of what was not pending before.
LEMMA StoreInIndex ==
  ASSUME IndexInv, NEW t \in Articles, Store(t), NEW x \in Increment, InIndex(x)'
  PROVE  \/ InIndex(x) \/ Pending(x)
         \/ x = [id |-> elem[t].id, pos |-> elem[t].pos, nth |-> freq[t] + 1]
<1>1. CASE Homes(elem[t]) = {}
  BY <1>1, Zenon DEF Store, InIndex, InElement
<1>2. CASE Homes(elem[t]) # {}
  <2>1. PICK h \in Homes(elem[t]), v \in Vector :
            /\ h.bucket \in Buckets
            /\ h.pos \in DOMAIN table[h.bucket].slots
            /\ VectorAt(h) = table[h.bucket].slots[h.pos].vec
            /\ table' = WithVector(h.bucket, h.pos, v)
            /\ v.id = VectorAt(h).id /\ v.id = elem[t].id
            /\ v.gen = VectorAt(h).gen
            /\ elem[t].pos \in DOMAIN VectorAt(h).elems
            /\ v.elems = [VectorAt(h).elems EXCEPT ![elem[t].pos].freq = freq[t] + 1]
    BY <1>2, StoreWrites, Zenon
  <2> DEFINE old == VectorAt(h)
             k == elem[t].pos
  <2>2. InIndex(x) \/ InElement(x, v)
    BY <2>1, WrittenInIndex, Zenon DEF IndexInv
  <2>3. CASE InElement(x, v)
    <3>1. /\ old.elems \in Seq(Relevant) /\ freq[t] \in Nat /\ x.nth \in Nat
          /\ old.elems[k] \in Relevant
      <4>1. old.elems \in Seq(Relevant)
        BY <2>1, VectorInSlot, Zenon DEF IndexInv
      <4>2. freq[t] \in Nat
        BY DEF IndexInv, TypeOK
      <4>3. k \in DOMAIN old.elems
        BY <2>1, Zenon
      <4>4. x.nth \in Nat
        BY DEF Increment
      <4> HIDE DEF old, k
      <4> QED BY <4>1, <4>2, <4>3, <4>4
    <3> HIDE DEF old, k
    <3>2. /\ DOMAIN v.elems = DOMAIN old.elems
          /\ v.elems[k].freq = freq[t] + 1
          /\ \A j \in DOMAIN old.elems : j # k => v.elems[j] = old.elems[j]
      BY <2>1, <3>1, Zenon DEF old, k, Relevant
    <3>3. CASE x.pos # k
      <4>1. InElement(x, old)
        BY <2>1, <2>3, <3>2, <3>3, Zenon DEF InElement, old
      <4> QED BY <2>1, <4>1, Zenon DEF InIndex, old
    <3>4. CASE x.pos = k /\ x.nth <= freq[t]
      <4>1. pc[t] = "store" /\ elem[t].id = x.id
        BY <2>1, <2>3, Zenon DEF Store, At, InElement
      <4> QED BY <3>4, <4>1 DEF Pending, k
    <3>5. CASE x.pos = k /\ ~(x.nth <= freq[t])
      <4>1. x.nth = freq[t] + 1
        BY <2>3, <3>1, <3>2, <3>5 DEF InElement
      <4>2. x.id = elem[t].id
        BY <2>1, <2>3, Zenon DEF InElement
      <4> QED BY <3>5, <4>1, <4>2 DEF Increment, k
    <3> QED BY <3>3, <3>4, <3>5
  <2> QED BY <2>2, <2>3
<1> QED BY <1>1, <1>2

\* A query only permutes the elements of one vector, and nobody is pending.
LEMMA QueryPermutes ==
  ASSUME IndexInv, HomeInv, NEW w \in Words, Query(w)
  PROVE  ExistsInjection(Increments', Increments)
<1> DEFINE b == Hash[w]
           i == AddressOf(w).pos
           old == table[b].slots[i].vec
<1>1. /\ b \in Buckets /\ i \in DOMAIN table[b].slots
      /\ ElemsAt(AddressOf(w)) = old.elems
      /\ \E r \in Rearranged(old.elems), v \in Vector :
            /\ table' = WithVector(b, i, v)
            /\ v.elems = r
            /\ v.id = old.id
  BY QueryWrites
<1>2. PICK r \in Rearranged(old.elems), v \in Vector :
         table' = WithVector(b, i, v) /\ v.elems = r /\ v.id = old.id
  BY <1>1, Zenon
<1>3. PICK f \in [DOMAIN old.elems -> DOMAIN old.elems] :
         /\ \A j, k \in DOMAIN old.elems : f[j] = f[k] => j = k
         /\ r = [j \in DOMAIN old.elems |-> old.elems[f[j]]]
  BY <1>2, Zenon DEF Rearranged
<1>4. old \in Vector /\ DOMAIN old.elems \subseteq Nat \ {0}
  <2>1. old \in Vector /\ old.elems \in Seq(Relevant)
    BY <1>1, VectorInSlot, Zenon DEF IndexInv
  <2> HIDE DEF old
  <2> QED BY <2>1
<1> HIDE DEF old, b, i
<1>5. \A x : ~Pending(x)'
  BY DEF Query, AllDone, Pending
<1>6. /\ table'[b].slots[i].vec = v
      /\ \A c \in Buckets :
            /\ DOMAIN table'[c].slots = DOMAIN table[c].slots
            /\ \A j \in DOMAIN table[c].slots :
                  ~(c = b /\ j = i) => table'[c].slots[j] = table[c].slots[j]
  BY <1>1, <1>2, VectorWritten DEF IndexInv
<1> DEFINE move(x) == [id |-> x.id, pos |-> f[x.pos], nth |-> x.nth]
           G == [x \in Increments' |-> IF x.id = old.id THEN move(x) ELSE x]
<1>7. ASSUME NEW x \in Increments'
      PROVE  /\ x \in Increment
             /\ x.id # old.id => x \in Increments
             /\ x.id = old.id => x.pos \in DOMAIN old.elems /\ move(x) \in Increments
  <2>1. x \in Increment /\ InIndex(x)'
    BY <1>5 DEF Increments
  <2>2. PICK c \in Buckets : \E j \in DOMAIN table'[c].slots : InElement(x, table'[c].slots[j].vec)
    BY <2>1, Zenon DEF InIndex, InElement
  <2>3. PICK j \in DOMAIN table[c].slots : InElement(x, table'[c].slots[j].vec)
    BY <1>6, <2>2
  <2>4. CASE ~(c = b /\ j = i)
    <3>1. InElement(x, table[c].slots[j].vec) /\ VectorID(c, j) = x.id
      BY <1>6, <2>3, <2>4 DEF InElement, VectorID
    <3>2. x.id # old.id
      BY <1>1, <2>4, <3>1 DEF HomeInv, OwnVectors, VectorID, old
    <3> QED BY <2>1, <3>1, <3>2 DEF Increments, InIndex
  <2>5. CASE c = b /\ j = i
    <3>1. InElement(x, v)
      BY <1>6, <2>3, <2>5
    <3>2. x.id = old.id /\ x.pos \in DOMAIN old.elems /\ x.nth <= old.elems[f[x.pos]].freq
      BY <1>2, <1>3, <3>1 DEF InElement
    <3>3. f[x.pos] \in DOMAIN old.elems
      BY <1>3, <3>2
    <3>4. move(x) \in Increment
      BY <1>4, <2>1, <3>3 DEF Increment
    <3>5. InElement(move(x), old)
      BY <3>2, <3>3 DEF InElement
    <3>6. InIndex(move(x))
      BY <1>1, <3>5 DEF InIndex, old
    <3> QED BY <2>1, <3>2, <3>4, <3>6 DEF Increments
  <2> QED BY <2>4, <2>5
<1>8. G \in [Increments' -> Increments]
  BY <1>7
<1>9. ASSUME NEW x \in Increments', NEW y \in Increments', G[x] = G[y] PROVE x = y
  <2>1. /\ x \in Increment /\ y \in Increment
        /\ x.id = old.id => x.pos \in DOMAIN old.elems
        /\ y.id = old.id => y.pos \in DOMAIN old.elems
    BY <1>7
  <2>2. x.id = y.id /\ x.nth = y.nth
    <3>1. G[x].id = x.id /\ G[y].id = y.id /\ G[x].nth = x.nth /\ G[y].nth = y.nth
      OBVIOUS
    <3> QED BY <1>9, <3>1
  <2>3. x.pos = y.pos
    <3>1. CASE x.id = old.id
      <4>1. G[x].pos = f[x.pos] /\ G[y].pos = f[y.pos]
        BY <2>2, <3>1
      <4>2. f[x.pos] = f[y.pos]
        BY <1>9, <4>1
      <4> QED BY <1>3, <2>1, <2>2, <3>1, <4>2
    <3>2. CASE x.id # old.id
      BY <1>9, <2>2, <3>2
    <3> QED BY <3>1, <3>2
  <2> QED BY <2>1, <2>2, <2>3 DEF Increment
<1> HIDE DEF G
<1>10. G \in Injection(Increments', Increments)
  BY <1>8, <1>9 DEF Injection, IsInjective
<1> QED BY <1>10 DEF ExistsInjection

\* At first there is nothing to count.
LEMMA CoveredInit == Init => CountsCovered
<1> SUFFICES ASSUME Init PROVE CountsCovered
  OBVIOUS
<1>1. Increments = {}
  <2>1. \A x : ~InIndex(x) /\ ~Pending(x)
    BY DEF Init, EmptyBucket, InIndex, Pending
  <2> QED BY <2>1 DEF Increments
<1>2. <<>> \in [Increments -> WordsAdded] /\ DOMAIN <<>> = {}
  BY <1>1
<1>3. <<>> \in Injection(Increments, WordsAdded)
  BY <1>2 DEF Injection, IsInjective
<1> QED BY <1>3 DEF CountsCovered, ExistsInjection

\* Every increment that a step makes comes with a word that it adds.
LEMMA CoveredStep ==
  ASSUME IndexInv, HomeInv, CountsCovered, [Next]_vars PROVE CountsCovered'
<1>1. ASSUME NEW t \in Articles, StepOf(t), ~Store(t) PROVE CountsCovered'
  <2>1. ASSUME NEW x \in Increment, InIndex(x)' PROVE InIndex(x)
    <3>1. CASE Enter(t)
      BY <2>1, <3>1, EnterInIndex
    <3>2. CASE Attach(t)
      BY <2>1, <3>2, AttachInIndex
    <3>3. CASE ~Enter(t) /\ ~Attach(t)
      <4>1. table' = table
        BY <1>1, <3>3, TableStill
      <4> QED BY <2>1, <4>1, Zenon DEF InIndex, InElement
    <3> QED BY <3>1, <3>2, <3>3
  <2>2. Increments' \subseteq Increments
    BY <1>1, <2>1, PendingKept DEF Increments
  <2>3. WordsAdded \subseteq WordsAdded'
    BY <1>1, WordsAddedGrows
  <2> QED BY <2>2, <2>3, InjectionKept DEF CountsCovered
<1>2. ASSUME NEW t \in Articles, Store(t) PROVE CountsCovered'
  <2> DEFINE x == [id |-> elem[t].id, pos |-> elem[t].pos, nth |-> freq[t] + 1]
  <2>1. StepOf(t)
    BY <1>2 DEF StepOf, AddWord
  <2>2. Increments' \subseteq Increments \cup {x}
    BY <1>2, <2>1, PendingKept, StoreInIndex DEF Increments
  <2>3. WordsAdded \subseteq WordsAdded' /\ <<t, token[t]>> \in WordsAdded' \ WordsAdded
    BY <1>2, <2>1, WordsAddedGrows, StoreAdds
  <2> HIDE DEF x
  <2> QED BY <2>2, <2>3, InjectionGrows DEF CountsCovered
<1>3. ASSUME NEW w \in Words, Query(w) PROVE CountsCovered'
  <2>1. WordsAdded' = WordsAdded
    BY <1>3 DEF Query, WordsAdded, Added
  <2>2. ExistsInjection(Increments', Increments)
    BY <1>3, QueryPermutes
  <2> QED BY <2>1, <2>2, Fun_ExistsInjTransitive DEF CountsCovered
<1>4. CASE UNCHANGED vars
  <2>1. Increments' = Increments /\ WordsAdded' = WordsAdded
    BY <1>4 DEF vars, Increments, WordsAdded, Added, InIndex, Pending, InElement
  <2> QED BY <2>1 DEF CountsCovered
<1> QED BY <1>1, <1>2, <1>3, <1>4 DEF Next, StepOf

\* Vectors, slots and pointers stay at home in every behaviour.
LEMMA HomeInvAlways == Spec => []HomeInv
<1>1. IndexInv /\ HomeInv /\ [Next]_vars => HomeInv'
  BY HomeStep
<1> QED BY <1>1, HomeInit, IndexInvAlways, PTL DEF Spec

\* Finitely many threads have added finitely many words.
LEMMA WordsAddedFinite ==
  ASSUME IndexInv PROVE IsFiniteSet(WordsAdded)
<1> DEFINE mine(t) == {t} \X Added(t, Words)
           family == {mine(t) : t \in Articles}
<1>1. ASSUME NEW t \in Articles PROVE IsFiniteSet(mine(t))
  <2>1. token[t] \in Nat \ {0} /\ token[t] - 1 \in Nat
    BY DEF IndexInv, TypeOK
  <2>2. IsFiniteSet(1..(token[t] - 1))
    BY <2>1, FirstNumbers
  <2>3. Added(t, Words) \subseteq 1..(token[t] - 1)
    BY DEF Added
  <2>4. IsFiniteSet(Added(t, Words))
    BY <2>2, <2>3, FS_Subset
  <2> DEFINE F == [i \in Added(t, Words) |-> <<t, i>>]
  <2>5. F \in Surjection(Added(t, Words), mine(t))
    <3>1. F \in [Added(t, Words) -> mine(t)]
      OBVIOUS
    <3>2. \A z \in mine(t) : \E i \in Added(t, Words) : F[i] = z
      OBVIOUS
    <3> HIDE DEF F, mine
    <3> QED BY <3>1, <3>2 DEF Surjection
  <2> HIDE DEF F, mine
  <2> QED BY <2>4, <2>5, FS_Surjection
<1>2. IsFiniteSet(family)
  <2> DEFINE F == [t \in Articles |-> mine(t)]
  <2>1. F \in Surjection(Articles, family)
    <3> HIDE DEF mine
    <3> QED BY DEF Surjection
  <2> QED BY <2>1, ArticlesAssumption, FS_Surjection
<1>3. \A T \in family : IsFiniteSet(T)
  BY <1>1
<1>4. WordsAdded = UNION family
  BY DEF WordsAdded
<1> HIDE DEF family
<1> QED BY <1>2, <1>3, <1>4, FS_UNION

\* What FrequenciesBounded counts are increments, no two the same.
LEMMA CountedIncrements ==
  ASSUME IndexInv, HomeInv PROVE ExistsInjection(Counted, Increments)
<1> DEFINE G == [z \in Counted |-> [id |-> VectorAt(z[1][1]).id, pos |-> z[1][2], nth |-> z[2]]]
<1>1. ASSUME NEW z \in Counted
      PROVE  /\ z = <<z[1], z[2]>> /\ z[1] = <<z[1][1], z[1][2]>>
             /\ z[1][1] \in Slots /\ z[1][2] \in Nat \ {0} /\ z[2] \in Nat \ {0}
             /\ VectorAt(z[1][1]).id \in Nat
             /\ G[z] \in Increments
  <2>1. PICK c \in Counts : z \in {c} \X (1..ElemsAt(c[1])[c[2]].freq)
    BY DEF Counted
  <2>2. /\ z = <<c, z[2]>> /\ z[1] = c /\ z[2] \in 1..ElemsAt(c[1])[c[2]].freq
    BY <2>1
  <2>3. /\ c = <<c[1], c[2]>> /\ c[1] \in Slots /\ c[2] \in 1..Cardinality(Articles)
        /\ c[2] \in DOMAIN ElemsAt(c[1])
    BY DEF Counts
  <2>4. /\ c[1].bucket \in Buckets /\ c[1].pos \in DOMAIN table[c[1].bucket].slots
        /\ VectorAt(c[1]) = table[c[1].bucket].slots[c[1].pos].vec
    BY <2>3 DEF Slots, VectorAt
  <2>5. VectorAt(c[1]) \in Vector /\ ElemsAt(c[1]) \in Seq(Relevant)
    BY <2>4, VectorInSlot DEF IndexInv, ElemsAt
  <2>6. VectorAt(c[1]).id \in Nat /\ ElemsAt(c[1])[c[2]].freq \in Nat /\ c[2] \in Nat \ {0}
    <3>1. ElemsAt(c[1])[c[2]] \in Relevant
      BY <2>3, <2>5
    <3> QED BY <2>3, <2>5, <3>1 DEF Vector, Relevant
  <2>7. z[2] \in Nat \ {0}
    BY <2>2, <2>6
  <2> DEFINE x == [id |-> VectorAt(c[1]).id, pos |-> c[2], nth |-> z[2]]
  <2>8. x \in Increment
    BY <2>6, <2>7 DEF Increment
  <2>9. InElement(x, VectorAt(c[1]))
    BY <2>2, <2>3, <2>6, <2>7 DEF InElement, ElemsAt
  <2>10. x \in Increments
    <3> HIDE DEF x
    <3> QED BY <2>4, <2>8, <2>9 DEF Increments, InIndex
  <2>11. G[z] = x
    BY <2>2
  <2> HIDE DEF G, x
  <2> QED BY <2>2, <2>3, <2>6, <2>7, <2>10, <2>11
<1>2. ASSUME NEW y \in Counted, NEW z \in Counted, G[y] = G[z] PROVE y = z
  <2>1. /\ VectorAt(y[1][1]).id = VectorAt(z[1][1]).id
        /\ y[1][2] = z[1][2] /\ y[2] = z[2]
    BY <1>2
  <2> HIDE DEF G
  <2>2. y[1][1] \in Slots /\ z[1][1] \in Slots
    BY <1>1
  <2>3. y[1][1].bucket = z[1][1].bucket /\ y[1][1].pos = z[1][1].pos
    <3>1. /\ y[1][1].bucket \in Buckets /\ y[1][1].pos \in DOMAIN table[y[1][1].bucket].slots
          /\ z[1][1].bucket \in Buckets /\ z[1][1].pos \in DOMAIN table[z[1][1].bucket].slots
      BY <2>2 DEF Slots
    <3>2. VectorID(y[1][1].bucket, y[1][1].pos) = VectorID(z[1][1].bucket, z[1][1].pos)
      BY <2>1 DEF VectorAt, VectorID
    <3>3. OwnVectors
      BY DEF HomeInv
    <3> QED BY <3>1, <3>2, <3>3 DEF OwnVectors
  <2>4. y[1][1] = z[1][1]
    BY <2>2, <2>3 DEF Slots
  <2>5. y[1] = z[1]
    BY <1>1, <2>1, <2>4
  <2> QED BY <1>1, <2>1, <2>5
<1>3. G \in [Counted -> Increments]
  BY <1>1
<1> HIDE DEF G
<1>4. G \in Injection(Counted, Increments)
  BY <1>2, <1>3 DEF Injection, IsInjective
<1> QED BY <1>4 DEF ExistsInjection

(* The frequencies in all the indices together are at most the words that   *)
(* the threads have added, whatever increments are lost, written to another *)
(* word's vector or through a dangling pointer.                             *)
THEOREM NothingCountedUnread == Spec => []FrequenciesBounded
<1>1. IndexInv /\ HomeInv /\ CountsCovered /\ [Next]_vars => CountsCovered'
  BY CoveredStep
<1>2. ASSUME IndexInv, HomeInv, CountsCovered PROVE FrequenciesBounded
  <2>1. ExistsInjection(Counted, WordsAdded)
    BY <1>2, CountedIncrements, Fun_ExistsInjTransitive DEF CountsCovered
  <2>2. PICK F \in Injection(Counted, WordsAdded) : TRUE
    BY <2>1 DEF ExistsInjection
  <2>3. Cardinality(Counted) <= Cardinality(WordsAdded)
    BY <1>2, <2>2, WordsAddedFinite, FS_Injection
  <2> QED BY <2>3 DEF FrequenciesBounded, WordsAdded
<1> QED BY <1>1, <1>2, CoveredInit, IndexInvAlways, HomeInvAlways, PTL DEF Spec

-----------------------------------------------------------------------------
(***************************************************************************)
(* A word that only one thread reads is counted exactly.                   *)
(***************************************************************************)
\* How often t has added w, whether it is adding w, and what there is of w.
Tally(t, w)  == Cardinality(Added(t, {w}))
Adding(t, w) == pc[t] \in InAddWord /\ Word(t) = w
HasEntry(t, w) ==
    Tally(t, w) # 0 \/ (Adding(t, w) /\ pc[t] # "enter")
HasElement(t, w) ==
    Tally(t, w) # 0 \/ (Adding(t, w) /\ pc[t] \in {"count", "nth", "load", "store"})

PlacesIn(w)  == Places(table[Hash[w]].slots, w)
VectorsOf(w) == {table[Hash[w]].slots[i].vec : i \in PlacesIn(w)}

SoleElems(t, w) ==
    IF HasElement(t, w) THEN <<[article |-> articleID[t], freq |-> Tally(t, w)]>> ELSE <<>>

SoleVector(t, w) == /\ VectorsOf(w) # {} <=> HasEntry(t, w)
                    /\ \A v \in VectorsOf(w) : v.elems = SoleElems(t, w)

EntryOf(p, w)   == /\ p.bucket = Hash[w] /\ p.gen = table[Hash[w]].gen
                   /\ p.pos \in PlacesIn(w)
ElementOf(p, w) == p.pos = 1 /\ \E v \in VectorsOf(w) : v.id = p.id /\ v.gen = p.gen

SoleCursor(t, w) ==
    /\ pc[t] \in {"enter", "relookup", "attach", "count"} => Tally(t, w) = 0
    /\ pc[t] \in UsesEntry => EntryOf(entry[t], w)
    /\ pc[t] = "nth" => place[t] = 0
    /\ pc[t] \in UsesElement => ElementOf(elem[t], w)
    /\ pc[t] = "store" => freq[t] = Tally(t, w)

SoleOf(t, w) == SoleVector(t, w) /\ (Adding(t, w) => SoleCursor(t, w))

SoleInv == \A t \in Articles, w \in Words : Sole(t, w) => SoleOf(t, w)

-----------------------------------------------------------------------------
\* The keys of a bucket differ.
LEMMA OnePlace ==
  ASSUME IndexInv, HomeInv, NEW w \in Words, NEW i \in PlacesIn(w), NEW j \in PlacesIn(w)
  PROVE  i = j
<1> DEFINE slots == table[Hash[w]].slots
<1>1. Hash[w] \in Buckets /\ Rank[w] \in Nat
  BY WordAssumption
<1>2. slots \in Seq(Slot)
  BY <1>1 DEF IndexInv, TypeOK, Bucket
<1>3. Sorted(slots)
  BY <1>1 DEF HomeInv, SlotsAtHome
<1>4. i \in DOMAIN slots /\ j \in DOMAIN slots /\ slots[i].key = w /\ slots[j].key = w
  BY DEF PlacesIn, Places
<1> HIDE DEF slots
<1>5. i \in Nat /\ j \in Nat
  BY <1>2, <1>4
<1> QED BY <1>1, <1>3, <1>4, <1>5 DEF Sorted

\* An article that has an id keeps it, and its document.
LEMMA IDStays ==
  ASSUME IndexInv, HomeInv, NEW t \in Articles, StepOf(t), NEW u \in Articles,
         articleID[u] # NoArticle
  PROVE  articleID'[u] = articleID[u] /\ doc'[u] = doc[u]
<1>1. CASE u # t
  BY <1>1, OthersStill DEF IndexInv, Still
<1>2. CASE u = t
  <2>1. pc[t] \notin {"search", "connect", "append", "length"}
    BY <1>2 DEF HomeInv, BeforeScan
  <2> QED BY <1>2, <2>1, Zenon DEF StepOf, Parse, AddWord, EndOfText, SkipStopWord, Ignore,
     SearchMissed,
       AnswerOK, AnswerRedirect, AnswerOther, AppendSeen, LengthSeen, LookupFound, LookupMissed,
       Enter, Relookup, FindOld, FindNew, Attach, Count, Nth, UseDangling, Load, Store, At, Goto,
       UsesVector, Indexing, Scanning, cursor
<1> QED BY <1>1, <1>2

\* No thread gives up its claim on a bucket: who is alone was alone.
LEMMA SoleBefore ==
  ASSUME IndexInv, HomeInv, NEW s \in Articles, StepOf(s), NEW t \in Articles, NEW w,
         Sole(t, w)'
  PROVE  Sole(t, w)
<1> SUFFICES ASSUME NEW u \in Articles \ {t}, articleID[u] # NoArticle,
                    NEW i \in DOMAIN Text[doc[u]]
             PROVE  Hash[Text[doc[u]][i]] # Hash[w]
  BY DEF Sole
<1>1. articleID'[u] # NoArticle /\ doc'[u] = doc[u]
  BY IDStays
<1> QED BY <1>1 DEF Sole

\* A thread writes only into the bucket of its word.
LEMMA BucketWritten ==
  ASSUME IndexInv, HomeInv, NEW t \in Articles, StepOf(t), NEW b \in Buckets,
         table'[b] # table[b]
  PROVE  pc[t] \in InAddWord /\ b = Hash[Word(t)]
<1>1. PointersAtHome(t)
  BY DEF HomeInv
<1>2. Enter(t) \/ Attach(t) \/ Store(t)
  BY TableStill
<1>3. CASE Enter(t)
  <2>1. b = Hash[Word(t)]
    BY <1>3, EnterWrites
  <2> QED BY <1>3, <2>1 DEF Enter, At, InAddWord
<1>4. CASE Attach(t)
  <2>1. pc[t] = "attach"
    BY <1>4 DEF Attach, UsesVector, At
  <2>2. entry[t].bucket = Hash[Word(t)]
    BY <1>1, <2>1 DEF PointersAtHome, UsesEntry
  <2>3. PICK v \in Vector : table' = WithVector(entry[t].bucket, entry[t].pos, v)
    BY <1>4, AttachWrites
  <2>4. b = entry[t].bucket
    BY <2>3 DEF WithVector, IndexInv, TypeOK
  <2> QED BY <2>1, <2>2, <2>4 DEF InAddWord
<1>5. CASE Store(t)
  <2>1. pc[t] = "store"
    BY <1>5, Zenon DEF Store, At
  <2>2. Homes(elem[t]) # {}
    BY <1>5, Zenon DEF Store
  <2>3. PICK h \in Homes(elem[t]), v \in Vector :
            /\ h.bucket \in Buckets
            /\ h.pos \in DOMAIN table[h.bucket].slots
            /\ VectorAt(h) = table[h.bucket].slots[h.pos].vec
            /\ table' = WithVector(h.bucket, h.pos, v)
            /\ v.id = VectorAt(h).id /\ v.id = elem[t].id
            /\ v.gen = VectorAt(h).gen
            /\ elem[t].pos \in DOMAIN VectorAt(h).elems
            /\ v.elems = [VectorAt(h).elems EXCEPT ![elem[t].pos].freq = freq[t] + 1]
    BY <1>5, <2>2, StoreWrites, Zenon
  <2>4. h.bucket = Hash[Word(t)]
    BY <1>1, <2>1, <2>3, Zenon DEF PointersAtHome, UsesElement, VectorID
  <2>5. b = h.bucket
    BY <2>3, Zenon DEF WithVector, IndexInv, TypeOK
  <2> QED BY <2>1, <2>4, <2>5 DEF InAddWord
<1> QED BY <1>2, <1>3, <1>4, <1>5

\* A step that changes neither the vector nor the tally.
LEMMA SoleKept ==
  ASSUME NEW t \in Articles, NEW w \in Words, SoleVector(t, w),
         VectorsOf(w)' = VectorsOf(w),
         Tally(t, w)' = Tally(t, w),
         HasEntry(t, w)' <=> HasEntry(t, w),
         HasElement(t, w)' <=> HasElement(t, w),
         HasElement(t, w) => articleID'[t] = articleID[t]
  PROVE  SoleVector(t, w)'
<1>1. SoleElems(t, w)' = SoleElems(t, w)
  BY DEF SoleElems
<1> QED BY <1>1 DEF SoleVector

\* What another thread does leaves the words of t's own buckets alone.
LEMMA OthersSole ==
  ASSUME IndexInv, HomeInv, SoleInv, NEW s \in Articles, StepOf(s),
         NEW t \in Articles, t # s, NEW w \in Words, Sole(t, w)'
  PROVE  SoleOf(t, w)'
<1>1. SoleOf(t, w)
  BY SoleBefore DEF SoleInv
<1>2. Still(t)
  BY OthersStill DEF IndexInv
<1>3. Hash[w] \in Buckets
  BY WordAssumption
<1>4. table'[Hash[w]] = table[Hash[w]]
  <2> SUFFICES ASSUME table'[Hash[w]] # table[Hash[w]] PROVE FALSE
    OBVIOUS
  <2>1. pc[s] \in InAddWord /\ Hash[w] = Hash[Word(s)]
    BY <1>3, BucketWritten
  <2>2. articleID[s] # NoArticle /\ token[s] \in DOMAIN Text[doc[s]]
    BY <2>1, NoArticleAssumption DEF IndexInv, CursorSet, CursorOf
  <2>3. articleID'[s] # NoArticle /\ doc'[s] = doc[s]
    BY <2>2, IDStays
  <2> QED BY <2>1, <2>2, <2>3 DEF Sole, Word
<1>5. VectorsOf(w)' = VectorsOf(w) /\ PlacesIn(w)' = PlacesIn(w)
  BY <1>4 DEF VectorsOf, PlacesIn
<1>6. /\ Tally(t, w)' = Tally(t, w) /\ (Adding(t, w)' <=> Adding(t, w))
      /\ articleID'[t] = articleID[t]
  BY <1>2 DEF Still, Tally, Added, Adding, Word
<1>7. HasEntry(t, w)' <=> HasEntry(t, w)
  BY <1>2, <1>6 DEF HasEntry, Still
<1>8. HasElement(t, w)' <=> HasElement(t, w)
  BY <1>2, <1>6 DEF HasElement, Still
<1>9. SoleVector(t, w)'
  BY <1>1, <1>5, <1>6, <1>7, <1>8, SoleKept DEF SoleOf
<1>10. ASSUME Adding(t, w)' PROVE SoleCursor(t, w)'
  <2>1. SoleCursor(t, w)
    BY <1>1, <1>6, <1>10 DEF SoleOf
  <2> QED BY <1>2, <1>4, <1>5, <1>6, <2>1 DEF SoleCursor, Still, EntryOf, ElementOf
<1> QED BY <1>9, <1>10 DEF SoleOf

\* Tallies are natural numbers.
LEMMA TallyFacts ==
  ASSUME IndexInv, NEW t \in Articles, NEW w
  PROVE  /\ IsFiniteSet(Added(t, {w})) /\ Tally(t, w) \in Nat
         /\ Tally(t, w) = 0 <=> Added(t, {w}) = {}
<1>1. token[t] - 1 \in Nat
  BY DEF IndexInv, TypeOK
<1>2. Added(t, {w}) \subseteq 1..(token[t] - 1)
  BY DEF Added
<1>3. IsFiniteSet(Added(t, {w}))
  BY <1>1, <1>2, FirstNumbers, FS_Subset
<1> QED BY <1>3, FS_CardinalityType, FS_EmptySet DEF Tally

\* Writing the vector of one slot, as the vectors of a word see it.
LEMMA WrittenVectors ==
  ASSUME IndexInv, HomeInv, NEW b \in Buckets, NEW i \in DOMAIN table[b].slots, NEW v \in Vector,
         table' = WithVector(b, i, v), NEW w \in Words
  PROVE  /\ PlacesIn(w)' = PlacesIn(w) /\ table'[Hash[w]].gen = table[Hash[w]].gen
         /\ ~(b = Hash[w] /\ i \in PlacesIn(w)) => VectorsOf(w)' = VectorsOf(w)
         /\ b = Hash[w] /\ i \in PlacesIn(w) => /\ VectorsOf(w)' = {v}
                                                /\ VectorsOf(w) = {table[b].slots[i].vec}
<1>1. /\ table'[b].slots[i].vec = v
      /\ \A c \in Buckets :
            /\ table'[c].gen = table[c].gen
            /\ DOMAIN table'[c].slots = DOMAIN table[c].slots
            /\ \A j \in DOMAIN table[c].slots :
                  /\ table'[c].slots[j].key = table[c].slots[j].key
                  /\ ~(c = b /\ j = i) => table'[c].slots[j] = table[c].slots[j]
  BY VectorWritten DEF IndexInv
<1>2. Hash[w] \in Buckets
  BY WordAssumption
<1>3. PlacesIn(w)' = PlacesIn(w) /\ table'[Hash[w]].gen = table[Hash[w]].gen
  BY <1>1, <1>2 DEF PlacesIn, Places
<1>4. PlacesIn(w) \subseteq DOMAIN table[Hash[w]].slots
  BY DEF PlacesIn, Places
<1>5. ~(b = Hash[w] /\ i \in PlacesIn(w)) => VectorsOf(w)' = VectorsOf(w)
  BY <1>1, <1>2, <1>3, <1>4 DEF VectorsOf
<1>6. ASSUME b = Hash[w], i \in PlacesIn(w)
      PROVE  VectorsOf(w)' = {v} /\ VectorsOf(w) = {table[b].slots[i].vec}
  <2>1. PlacesIn(w) = {i}
    BY <1>6, OnePlace
  <2> QED BY <1>1, <1>3, <1>6, <2>1 DEF VectorsOf
<1> QED BY <1>3, <1>5, <1>6

\* Entering a word leaves the vectors of the others what they were.
LEMMA EnterVectors ==
  ASSUME IndexInv, HomeInv, NEW t \in Articles, Enter(t), NEW w \in Words, w # Word(t)
  PROVE  VectorsOf(w)' = VectorsOf(w)
<1> DEFINE h == Hash[Word(t)]
           e == NewSlot(Word(t))
           old == table[h].slots
           new == table'[h].slots
<1>1. /\ h \in Buckets
      /\ \A b \in Buckets : b # h => table'[b] = table[b]
      /\ \E p \in Nat, d \in {0, 1} : EnteredAt(old, new, e, p, d)
  BY EnterWrites
<1>2. CASE Hash[w] # h
  <2>1. table'[Hash[w]] = table[Hash[w]]
    BY <1>1, <1>2, WordAssumption
  <2> QED BY <2>1 DEF VectorsOf, PlacesIn
<1>3. CASE Hash[w] = h
  <2>1. PICK p \in Nat, d \in {0, 1} : EnteredAt(old, new, e, p, d)
    BY <1>1
  <2>2. e.key # w
    BY DEF NewSlot
  <2>3. VectorsOf(w) = {old[i].vec : i \in {j \in DOMAIN old : old[j].key = w}}
    BY <1>3 DEF VectorsOf, PlacesIn, Places
  <2>4. VectorsOf(w)' = {new[i].vec : i \in {j \in DOMAIN new : new[j].key = w}}
    BY <1>3 DEF VectorsOf, PlacesIn, Places
  <2> HIDE DEF old, new, e, h
  <2>5. ASSUME NEW i \in DOMAIN new, new[i].key = w
        PROVE  \E j \in DOMAIN old : old[j].key = w /\ old[j].vec = new[i].vec
    BY <2>1, <2>2, <2>5 DEF EnteredAt
  <2>6. ASSUME NEW j \in DOMAIN old, old[j].key = w
        PROVE  \E i \in DOMAIN new : new[i].key = w /\ old[j].vec = new[i].vec
    BY <2>1, <2>2, <2>6 DEF EnteredAt
  <2> QED BY <2>3, <2>4, <2>5, <2>6
<1> QED BY <1>2, <1>3

\* Where the element a thread counts in is, if nobody else is about.
LEMMA TheHome ==
  ASSUME IndexInv, HomeInv, NEW t \in Articles, pc[t] \in UsesElement, NEW w \in Words,
         SoleOf(t, w), Adding(t, w)
  PROVE  /\ Homes(elem[t]) # {}
         /\ \A h \in Homes(elem[t]) : h.bucket = Hash[w] /\ h.pos \in PlacesIn(w)
         /\ elem[t].pos = 1
         /\ \A v \in VectorsOf(w) :
               v.elems = <<[article |-> articleID[t], freq |-> Tally(t, w)]>>
<1>1. Hash[w] \in Buckets
  BY WordAssumption
<1>2. ElementOf(elem[t], w) /\ SoleVector(t, w)
  BY DEF SoleOf, SoleCursor
<1>3. HasElement(t, w)
  BY DEF HasElement, UsesElement
<1>4. \A v \in VectorsOf(w) : v.elems = <<[article |-> articleID[t], freq |-> Tally(t, w)]>>
  BY <1>2, <1>3 DEF SoleVector, SoleElems
<1>5. elem[t].pos = 1
  BY <1>2 DEF ElementOf
<1>6. PICK i \in PlacesIn(w) : /\ table[Hash[w]].slots[i].vec.id = elem[t].id
                               /\ table[Hash[w]].slots[i].vec.gen = elem[t].gen
  BY <1>2 DEF ElementOf, VectorsOf
<1>7. i \in DOMAIN table[Hash[w]].slots /\ i \in 1..vectors
  <2>1. i \in DOMAIN table[Hash[w]].slots
    BY DEF PlacesIn, Places
  <2>2. table[Hash[w]].slots \in Seq(Slot) /\ Len(table[Hash[w]].slots) <= vectors /\ vectors \in Nat
    BY <1>1 DEF IndexInv, TypeOK, Bucket, SlotsCounted
  <2> QED BY <2>1, <2>2
<1>8. Homes(elem[t]) # {}
  <2> DEFINE h == [bucket |-> Hash[w], pos |-> i]
  <2>1. VectorAt(h) = table[Hash[w]].slots[i].vec
    BY DEF VectorAt
  <2>2. 1 \in DOMAIN VectorAt(h).elems
    BY <1>4, <2>1 DEF VectorsOf
  <2>3. h \in Homes(elem[t])
    BY <1>1, <1>5, <1>6, <1>7, <2>1, <2>2 DEF Homes
  <2> QED BY <2>3
<1>9. ASSUME NEW h \in Homes(elem[t]) PROVE h.bucket = Hash[w] /\ h.pos \in PlacesIn(w)
  <2>1. /\ h.bucket \in Buckets /\ h.pos \in DOMAIN table[h.bucket].slots
        /\ VectorID(h.bucket, h.pos) = elem[t].id
    BY DEF Homes, VectorAt, VectorID
  <2>2. VectorID(Hash[w], i) = elem[t].id
    BY <1>6 DEF VectorID
  <2>3. OwnVectors
    BY DEF HomeInv
  <2>4. h.bucket = Hash[w] /\ h.pos = i
    BY <1>1, <1>7, <2>1, <2>2, <2>3 DEF OwnVectors
  <2> QED BY <2>4
<1> QED BY <1>4, <1>5, <1>8, <1>9

\* t leaves the vectors of other words alone, also those of the bucket.
LEMMA OtherWords ==
  ASSUME IndexInv, HomeInv, SoleInv, NEW t \in Articles, StepOf(t),
         NEW w \in Words, Sole(t, w), ~Adding(t, w)
  PROVE  VectorsOf(w)' = VectorsOf(w)
<1>1. Hash[w] \in Buckets
  BY WordAssumption
<1>2. CASE table'[Hash[w]] = table[Hash[w]]
  BY <1>2 DEF VectorsOf, PlacesIn
<1>3. CASE table'[Hash[w]] # table[Hash[w]]
  <2>1. pc[t] \in InAddWord /\ Hash[w] = Hash[Word(t)]
    BY <1>1, <1>3, BucketWritten
  <2>2. Word(t) # w
    BY <2>1 DEF Adding
  <2>3. Word(t) \in Words
    BY <2>1, WordKnown DEF IndexInv, CursorSet, CursorOf
  <2>4. Adding(t, Word(t)) /\ SoleOf(t, Word(t)) /\ SoleCursor(t, Word(t))
    BY <2>1, <2>3 DEF SoleInv, Sole, Adding, SoleOf
  <2>5. PlacesIn(Word(t)) \cap PlacesIn(w) = {}
    BY <2>1, <2>2 DEF PlacesIn, Places
  <2>6. Enter(t) \/ Attach(t) \/ Store(t)
    BY <1>3, TableStill
  <2>7. CASE Enter(t)
    BY <2>2, <2>7, EnterVectors
  <2>8. CASE Attach(t)
    <3>1. PICK v \in Vector : table' = WithVector(entry[t].bucket, entry[t].pos, v)
      BY <2>8, AttachWrites
    <3>2. entry[t].bucket \in Buckets /\ entry[t].pos \in DOMAIN table[entry[t].bucket].slots
      BY <2>8, AttachWrites
    <3>3. entry[t].pos \in PlacesIn(Word(t))
      BY <2>4, <2>8 DEF SoleCursor, EntryOf, Attach, UsesVector, At, UsesEntry
    <3>4. entry[t].pos \notin PlacesIn(w)
      BY <2>5, <3>3
    <3> QED BY <3>1, <3>2, <3>4, WrittenVectors
  <2>9. CASE Store(t)
    <3>1. pc[t] \in UsesElement
      BY <2>9, Zenon DEF Store, At, UsesElement
    <3>2. Homes(elem[t]) # {}
      BY <2>3, <2>4, <3>1, TheHome
    <3>3. PICK h \in Homes(elem[t]), v \in Vector :
              /\ h.bucket \in Buckets
              /\ h.pos \in DOMAIN table[h.bucket].slots
              /\ VectorAt(h) = table[h.bucket].slots[h.pos].vec
              /\ table' = WithVector(h.bucket, h.pos, v)
              /\ v.id = VectorAt(h).id /\ v.id = elem[t].id
              /\ v.gen = VectorAt(h).gen
              /\ elem[t].pos \in DOMAIN VectorAt(h).elems
              /\ v.elems = [VectorAt(h).elems EXCEPT ![elem[t].pos].freq = freq[t] + 1]
      BY <2>9, <3>2, StoreWrites
    <3>4. h.pos \in PlacesIn(Word(t))
      BY <2>3, <2>4, <3>1, TheHome
    <3>5. h.pos \notin PlacesIn(w)
      BY <2>5, <3>4
    <3> QED BY <3>3, <3>5, WrittenVectors, Zenon
  <2> QED BY <2>6, <2>7, <2>8, <2>9
<1> QED BY <1>2, <1>3

\* What t does when w is not the word it adds.
LEMMA QuietStep ==
  ASSUME IndexInv, HomeInv, SoleInv, NEW t \in Articles, StepOf(t),
         NEW w \in Words, Sole(t, w), ~Adding(t, w), ~Adding(t, w)'
  PROVE  SoleOf(t, w)'
<1>1. SoleVector(t, w)
  BY DEF SoleInv, SoleOf
<1>2. VectorsOf(w)' = VectorsOf(w)
  BY OtherWords
<1>3. /\ Added(t, {w})' = Added(t, {w})
      /\ articleID[t] # NoArticle => articleID'[t] = articleID[t]
  <2>1. CASE articleID[t] = NoArticle
    <3>1. articleID'[t] = NoArticle \/ (token'[t] = 1 /\ token[t] \in Nat)
      BY <2>1, NoArticleAssumption, Zenon DEF StepOf, Parse, AddWord, EndOfText, SkipStopWord,
         Ignore, SearchMissed,
         AnswerOK, AnswerRedirect, AnswerOther, AppendSeen, LengthSeen, LookupFound, LookupMissed,
         Enter, Relookup, FindOld, FindNew, Attach, Count, Nth, UseDangling, Load, Store, At, Goto,
         UsesVector, Indexing, Scanning, cursor, IndexInv, HomeInv, BeforeScan, TypeOK,
         CursorSet, CursorOf, InAddWord
    <3> QED BY <2>1, <3>1 DEF Added
  <2>2. CASE articleID[t] # NoArticle
    <3>1. articleID'[t] = articleID[t] /\ doc'[t] = doc[t] /\ token[t] \in Nat \ {0}
      BY <2>2, IDStays DEF IndexInv, TypeOK
    <3>2. \/ token'[t] = token[t]
          \/ token'[t] = token[t] + 1 /\ (Word(t) \in StopWords \/ pc[t] \in InAddWord)
      BY <2>2, Zenon DEF StepOf, Parse, AddWord, EndOfText, SkipStopWord, Ignore, SearchMissed,
         AnswerOK, AnswerRedirect, AnswerOther, AppendSeen, LengthSeen, LookupFound, LookupMissed,
         Enter, Relookup, FindOld, FindNew, Attach, Count, Nth, UseDangling, Load, Store, At, Goto,
         UsesVector, Indexing, Scanning, cursor, IndexInv, HomeInv, BeforeScan, TypeOK, InAddWord
    <3>3. CASE token'[t] = token[t]
      BY <3>1, <3>3 DEF Added
    <3>4. CASE token'[t] = token[t] + 1
      <4>1. Text[doc[t]][token[t]] \notin {w} \ StopWords
        BY <3>2, <3>1, <3>4 DEF Adding, Word
      <4>2. \A i \in 1..((token[t] + 1) - 1) : i \in 1..(token[t] - 1) \/ i = token[t]
        BY <3>1
      <4>3. 1..(token[t] - 1) \subseteq 1..((token[t] + 1) - 1)
        BY <3>1
      <4> QED BY <2>2, <3>1, <3>4, <4>1, <4>2, <4>3 DEF Added
    <3> QED BY <3>2, <3>3, <3>4
  <2> QED BY <2>1, <2>2
<1>4. Tally(t, w)' = Tally(t, w)
  BY <1>3 DEF Tally
<1>5. HasElement(t, w) => articleID'[t] = articleID[t]
  <2>1. articleID[t] = NoArticle => Tally(t, w) = 0
    BY TallyFacts DEF Added
  <2> QED BY <1>3, <2>1 DEF HasElement
<1>6. SoleVector(t, w)'
  BY <1>1, <1>2, <1>4, <1>5, SoleKept DEF HasEntry, HasElement
<1> QED BY <1>6 DEF SoleOf

\* A word is present when it has a vector.
LEMMA PresentVectors ==
  ASSUME NEW w PROVE Present(w) <=> VectorsOf(w) # {}
BY DEF Present, VectorsOf, PlacesIn

\* The lookup finds the slot of the word.
LEMMA PresentEntry ==
  ASSUME IndexInv, NEW w \in Words, Present(w) PROVE EntryOf(AddressOf(w), w)
<1>1. /\ AddressOf(w).bucket = Hash[w] /\ Allocated(AddressOf(w))
      /\ table[Hash[w]].slots[AddressOf(w).pos].key = w
  BY AddressOfPresent DEF IndexInv
<1> QED BY <1>1 DEF EntryOf, Allocated, PlacesIn, Places

\* The slot a thread has a pointer to, if nobody else is about.
LEMMA TheEntry ==
  ASSUME IndexInv, HomeInv, NEW t \in Articles, pc[t] \in UsesEntry, NEW w \in Words,
         SoleOf(t, w), Adding(t, w)
  PROVE  /\ entry[t].pos \in PlacesIn(w) /\ entry[t].bucket = Hash[w]
         /\ Hash[w] \in Buckets /\ entry[t].pos \in DOMAIN table[Hash[w]].slots
         /\ Allocated(entry[t])
         /\ VectorAt(entry[t]) \in VectorsOf(w)
         /\ ElemsAt(entry[t]) = SoleElems(t, w)
<1>1. EntryOf(entry[t], w) /\ SoleVector(t, w)
  BY DEF SoleOf, SoleCursor
<1>2. entry[t].pos \in PlacesIn(w) /\ entry[t].bucket = Hash[w] /\ Allocated(entry[t])
  BY <1>1 DEF EntryOf, Allocated, PlacesIn, Places
<1>3. VectorAt(entry[t]) \in VectorsOf(w)
  BY <1>2 DEF VectorAt, VectorsOf
<1>4. ElemsAt(entry[t]) = SoleElems(t, w)
  BY <1>1, <1>3 DEF SoleVector, ElemsAt
<1> QED BY <1>2, <1>3, <1>4, WordAssumption DEF PlacesIn, Places

\* The steps of a thread that adds w: the two lookups,
LEMMA OwnLookup ==
  ASSUME IndexInv, HomeInv, SoleInv, NEW t \in Articles,
         LookupFound(t) \/ LookupMissed(t) \/ Relookup(t),
         NEW w \in Words, Sole(t, w), Word(t) = w
  PROVE  SoleOf(t, w)'
<1> USE DEF At, Goto, database, cursor
<1>1. SoleOf(t, w) /\ SoleVector(t, w) /\ Tally(t, w) \in Nat
  BY TallyFacts DEF SoleInv, SoleOf
<1>2. /\ doc' = doc /\ articleID' = articleID /\ token' = token
      /\ table' = table /\ place' = place /\ elem' = elem /\ freq' = freq
  BY DEF LookupFound, LookupMissed, Relookup
<1>3. /\ Tally(t, w)' = Tally(t, w) /\ VectorsOf(w)' = VectorsOf(w)
      /\ Word(t)' = w /\ PlacesIn(w)' = PlacesIn(w)
      /\ SoleElems(t, w)' = IF HasElement(t, w)'
             THEN <<[article |-> articleID[t], freq |-> Tally(t, w)]>> ELSE <<>>
  BY <1>2 DEF Tally, Added, VectorsOf, PlacesIn, Word, SoleElems
<1>4. CASE LookupFound(t)
  <2>1. /\ pc[t] = "scan" /\ pc'[t] = "find" /\ Present(w) /\ entry'[t] = AddressOf(w)
    BY <1>4 DEF LookupFound, Indexing, Scanning, IndexInv, TypeOK
  <2>2. VectorsOf(w) # {} /\ EntryOf(AddressOf(w), w)
    BY <2>1, PresentVectors, PresentEntry
  <2>3. HasEntry(t, w)' /\ HasEntry(t, w)
    BY <1>1, <1>3, <2>1, <2>2 DEF HasEntry, Adding, InAddWord, SoleVector
  <2>4. HasElement(t, w)' <=> HasElement(t, w)
    BY <1>3, <2>1 DEF HasElement, Adding, InAddWord
  <2>5. SoleVector(t, w)'
    BY <1>1, <1>2, <1>3, <2>3, <2>4, SoleKept
  <2>6. SoleCursor(t, w)'
    BY <1>2, <1>3, <2>1, <2>2 DEF SoleCursor, UsesEntry, UsesElement, EntryOf
  <2> QED BY <2>5, <2>6 DEF SoleOf
<1>5. CASE LookupMissed(t)
  <2>1. /\ pc[t] = "scan" /\ pc'[t] = "enter" /\ ~Present(w)
    BY <1>5 DEF LookupMissed, Indexing, Scanning, IndexInv, TypeOK
  <2>2. Tally(t, w) = 0
    BY <1>1, <2>1, PresentVectors DEF SoleVector, HasEntry
  <2>3. (HasEntry(t, w)' <=> HasEntry(t, w)) /\ (HasElement(t, w)' <=> HasElement(t, w))
    BY <1>3, <2>1 DEF HasEntry, HasElement, Adding, InAddWord
  <2>4. SoleVector(t, w)'
    BY <1>1, <1>2, <1>3, <2>3, SoleKept
  <2>5. SoleCursor(t, w)'
    BY <1>3, <2>1, <2>2 DEF SoleCursor, UsesEntry, UsesElement
  <2> QED BY <2>4, <2>5 DEF SoleOf
<1>6. CASE Relookup(t)
  <2>1. pc[t] = "relookup" /\ Adding(t, w)
    BY <1>6 DEF Relookup, Adding, InAddWord
  <2>2. Present(w) /\ EntryOf(AddressOf(w), w)
    BY <1>1, <2>1, PresentVectors, PresentEntry DEF SoleVector, HasEntry
  <2>3. pc'[t] = "find" /\ entry'[t] = AddressOf(w)
    BY <1>6, <2>2 DEF Relookup, IndexInv, TypeOK
  <2>4. (HasEntry(t, w)' <=> HasEntry(t, w)) /\ (HasElement(t, w)' <=> HasElement(t, w))
    BY <1>3, <2>1, <2>3 DEF HasEntry, HasElement, Adding, InAddWord
  <2>5. SoleVector(t, w)'
    BY <1>1, <1>2, <1>3, <2>4, SoleKept
  <2>6. SoleCursor(t, w)'
    BY <1>2, <1>3, <2>2, <2>3 DEF SoleCursor, UsesEntry, UsesElement, EntryOf
  <2> QED BY <2>5, <2>6 DEF SoleOf
<1> QED BY <1>4, <1>5, <1>6

\* the slot that it enters,
LEMMA OwnEnter ==
  ASSUME IndexInv, HomeInv, SoleInv, NEW t \in Articles, Enter(t),
         NEW w \in Words, Sole(t, w), Word(t) = w
  PROVE  SoleOf(t, w)'
<1> DEFINE e == NewSlot(w)
           old == table[Hash[w]].slots
           new == table'[Hash[w]].slots
<1>1. /\ pc[t] = "enter" /\ Adding(t, w) /\ SoleOf(t, w) /\ SoleCursor(t, w) /\ SoleVector(t, w)
  BY DEF Enter, At, Adding, InAddWord, SoleInv, SoleOf
<1>2. Tally(t, w) = 0 /\ VectorsOf(w) = {}
  BY <1>1 DEF SoleCursor, SoleVector, HasEntry
<1>3. /\ pc'[t] = "relookup" /\ Word(t)' = w /\ Tally(t, w)' = Tally(t, w)
  BY DEF Enter, Goto, IndexInv, TypeOK, Word, Tally, Added
<1>4. PICK p \in Nat, d \in {0, 1} : EnteredAt(old, new, e, p, d)
  BY EnterWrites
<1>5. e.key = w /\ e.vec.elems = <<>>
  BY DEF NewSlot
<1>6. Places(old, w) = {}
  BY <1>2 DEF VectorsOf, PlacesIn
<1>7. Places(new, w) = {p}
  <2> HIDE DEF old, new, e
  <2>1. p \in DOMAIN new /\ new[p] = e
    BY <1>4 DEF EnteredAt
  <2>2. ASSUME NEW i \in DOMAIN new, i # p PROVE new[i].key # w
    BY <1>4, <1>6, <2>2 DEF EnteredAt, Places
  <2> QED BY <1>5, <2>1, <2>2 DEF Places
<1>8. VectorsOf(w)' = {e.vec}
  BY <1>4, <1>7 DEF VectorsOf, PlacesIn, EnteredAt
<1>9. HasEntry(t, w)' /\ ~HasElement(t, w)'
  BY <1>2, <1>3 DEF HasEntry, HasElement, Adding, InAddWord
<1>10. SoleVector(t, w)'
  <2> HIDE DEF e
  <2> QED BY <1>5, <1>8, <1>9 DEF SoleVector, SoleElems
<1>11. SoleCursor(t, w)'
  BY <1>2, <1>3 DEF SoleCursor, UsesEntry, UsesElement
<1> QED BY <1>10, <1>11 DEF SoleOf

\* the element that it appends,
LEMMA OwnAttach ==
  ASSUME IndexInv, HomeInv, SoleInv, NEW t \in Articles, Attach(t),
         NEW w \in Words, Sole(t, w), Word(t) = w
  PROVE  SoleOf(t, w)'
<1>1. /\ pc[t] = "attach" /\ pc[t] \in UsesEntry /\ Adding(t, w) /\ SoleOf(t, w)
      /\ SoleCursor(t, w) /\ SoleVector(t, w)
  BY DEF Attach, At, UsesVector, UsesEntry, Adding, InAddWord, SoleInv, SoleOf
<1>2. Tally(t, w) = 0 /\ ~HasElement(t, w)
  BY <1>1 DEF SoleCursor, HasElement
<1>3. /\ pc'[t] = "count" /\ Word(t)' = w /\ Tally(t, w)' = Tally(t, w)
      /\ entry' = entry /\ articleID' = articleID
  BY DEF Attach, Goto, cursor, IndexInv, TypeOK, Word, Tally, Added
<1>4. /\ entry[t].pos \in PlacesIn(w) /\ entry[t].bucket = Hash[w]
      /\ Hash[w] \in Buckets /\ entry[t].pos \in DOMAIN table[Hash[w]].slots
      /\ Allocated(entry[t])
      /\ ElemsAt(entry[t]) = <<>>
  BY <1>1, <1>2, TheEntry DEF SoleElems
<1>5. PICK v \in Vector :
         /\ table' = WithVector(entry[t].bucket, entry[t].pos, v)
         /\ v.id = VectorAt(entry[t]).id
         /\ v.elems = Append(VectorAt(entry[t]).elems, [article |-> articleID[t], freq |-> 0])
  BY AttachWrites
<1>6. v.elems = <<[article |-> articleID[t], freq |-> 0]>>
  BY <1>4, <1>5 DEF ElemsAt
<1>7. /\ PlacesIn(w)' = PlacesIn(w) /\ table'[Hash[w]].gen = table[Hash[w]].gen
      /\ VectorsOf(w)' = {v}
  BY <1>4, <1>5, WrittenVectors
<1>8. HasEntry(t, w)' /\ HasElement(t, w)'
  BY <1>3 DEF HasEntry, HasElement, Adding, InAddWord
<1>9. SoleVector(t, w)'
  BY <1>2, <1>3, <1>6, <1>7, <1>8 DEF SoleVector, SoleElems
<1>10. SoleCursor(t, w)'
  BY <1>1, <1>2, <1>3, <1>7 DEF SoleCursor, UsesEntry, UsesElement, EntryOf
<1> QED BY <1>9, <1>10 DEF SoleOf

\* the search, the length and TSVectorNth,
LEMMA OwnFind ==
  ASSUME IndexInv, HomeInv, SoleInv, NEW t \in Articles,
         \/ FindOld(t) \/ FindNew(t) \/ Count(t)
         \/ Nth(t) \/ UseDangling(t),
         NEW w \in Words, Sole(t, w), Word(t) = w
  PROVE  SoleOf(t, w)'
<1> USE DEF At, Goto, UsesVector, database, cursor
<1>1. /\ pc[t] \in UsesEntry /\ Adding(t, w) /\ SoleOf(t, w)
      /\ SoleCursor(t, w) /\ SoleVector(t, w)
  BY DEF FindOld, FindNew, Count, Nth, UseDangling, UsesEntry, Adding, InAddWord, SoleInv, SoleOf
<1>2. /\ doc' = doc /\ articleID' = articleID /\ token' = token
      /\ table' = table /\ entry' = entry /\ freq' = freq
  BY DEF FindOld, FindNew, Count, Nth, UseDangling
<1>3. /\ Tally(t, w)' = Tally(t, w) /\ VectorsOf(w)' = VectorsOf(w)
      /\ Word(t)' = w /\ PlacesIn(w)' = PlacesIn(w)
  BY <1>2 DEF Tally, Added, VectorsOf, PlacesIn, Word
<1>4. /\ Allocated(entry[t]) /\ VectorAt(entry[t]) \in VectorsOf(w)
      /\ ElemsAt(entry[t]) = SoleElems(t, w)
  BY <1>1, TheEntry
<1>5. EntryOf(entry[t], w)
  BY <1>1 DEF SoleCursor
<1>6. CASE FindOld(t)
  <2>1. pc[t] = "find" /\ pc'[t] = "nth" /\ PlacesOf(articleID[t], entry[t]) # {}
    BY <1>6 DEF FindOld, IndexInv, TypeOK
  <2>2. HasElement(t, w) /\ PlacesOf(articleID[t], entry[t]) = {1}
    <3>1. HasElement(t, w)
      BY <1>4, <2>1 DEF SoleElems, PlacesOf
    <3>2. ElemsAt(entry[t]) = <<[article |-> articleID[t], freq |-> Tally(t, w)]>>
      BY <1>4, <3>1 DEF SoleElems
    <3> QED BY <3>1, <3>2 DEF PlacesOf
  <2>3. place'[t] = 0
    <3>1. place'[t] = (CHOOSE i \in {1} : \A j \in {1} : i <= j) - 1
      BY <1>6, <2>2 DEF FindOld, IndexInv, TypeOK
    <3>2. (CHOOSE i \in {1} : \A j \in {1} : i <= j) = 1
      OBVIOUS
    <3> QED BY <3>1, <3>2
  <2>4. (HasEntry(t, w)' <=> HasEntry(t, w)) /\ (HasElement(t, w)' <=> HasElement(t, w))
    BY <1>3, <2>1, <2>2 DEF HasEntry, HasElement, Adding, InAddWord
  <2>5. SoleVector(t, w)'
    BY <1>1, <1>2, <1>3, <2>4, SoleKept
  <2>6. SoleCursor(t, w)'
    BY <1>2, <1>3, <1>5, <2>1, <2>3 DEF SoleCursor, UsesEntry, UsesElement, EntryOf
  <2> QED BY <2>5, <2>6 DEF SoleOf
<1>7. CASE FindNew(t)
  <2>1. pc[t] = "find" /\ pc'[t] = "attach" /\ PlacesOf(articleID[t], entry[t]) = {}
    BY <1>7 DEF FindNew, IndexInv, TypeOK
  <2>2. ~HasElement(t, w)
    <3> SUFFICES ASSUME HasElement(t, w) PROVE FALSE
      OBVIOUS
    <3>1. ElemsAt(entry[t]) = <<[article |-> articleID[t], freq |-> Tally(t, w)]>>
      BY <1>4 DEF SoleElems
    <3>2. 1 \in PlacesOf(articleID[t], entry[t])
      BY <3>1 DEF PlacesOf
    <3> QED BY <2>1, <3>2
  <2>3. Tally(t, w) = 0
    BY <2>2 DEF HasElement
  <2>4. (HasEntry(t, w)' <=> HasEntry(t, w)) /\ (HasElement(t, w)' <=> HasElement(t, w))
    BY <1>3, <2>1 DEF HasEntry, HasElement, Adding, InAddWord
  <2>5. SoleVector(t, w)'
    BY <1>1, <1>2, <1>3, <2>4, SoleKept
  <2>6. SoleCursor(t, w)'
    BY <1>2, <1>3, <1>5, <2>1, <2>3 DEF SoleCursor, UsesEntry, UsesElement, EntryOf
  <2> QED BY <2>5, <2>6 DEF SoleOf
<1>8. CASE Count(t) \/ Nth(t)
  <2>1. pc[t] \in {"count", "nth"} /\ HasElement(t, w)
    BY <1>1, <1>8 DEF Count, Nth, HasElement
  <2>2. ElemsAt(entry[t]) = <<[article |-> articleID[t], freq |-> Tally(t, w)]>>
    BY <1>4, <2>1 DEF SoleElems
  <2>3. ElemsAt(entry[t]) # <<>> /\ Len(ElemsAt(entry[t])) = 1
    BY <2>2
  <2>4. \/ pc[t] = "count" /\ pc'[t] = "nth" /\ place'[t] = 0
        \/ /\ pc[t] = "nth" /\ pc'[t] = "load"
           /\ elem'[t] = [id |-> VectorAt(entry[t]).id, gen |-> VectorAt(entry[t]).gen, pos |-> 1]
    <3>1. CASE Count(t)
      BY <1>8, <2>3, <3>1 DEF Count, IndexInv, TypeOK
    <3>2. CASE Nth(t)
      <4>1. place[t] = 0
        BY <1>1, <3>2 DEF Nth, SoleCursor
      <4> QED BY <2>3, <3>2, <4>1 DEF Nth, IndexInv, TypeOK
    <3> QED BY <1>8, <3>1, <3>2
  <2>5. (HasEntry(t, w)' <=> HasEntry(t, w)) /\ (HasElement(t, w)' <=> HasElement(t, w))
    BY <1>3, <2>4 DEF HasEntry, HasElement, Adding, InAddWord
  <2>6. SoleVector(t, w)'
    BY <1>1, <1>2, <1>3, <2>5, SoleKept
  <2>7. SoleCursor(t, w)'
    BY <1>2, <1>3, <1>4, <1>5, <2>4 DEF SoleCursor, UsesEntry, UsesElement, EntryOf, ElementOf
  <2> QED BY <2>6, <2>7 DEF SoleOf
<1>9. CASE UseDangling(t)
  BY <1>4, <1>9 DEF UseDangling
<1> QED BY <1>6, <1>7, <1>8, <1>9

\* the load of the frequency
LEMMA OwnLoad ==
  ASSUME IndexInv, HomeInv, SoleInv, NEW t \in Articles, Load(t),
         NEW w \in Words, Sole(t, w), Word(t) = w
  PROVE  SoleOf(t, w)'
<1>1. /\ pc[t] = "load" /\ pc[t] \in UsesElement /\ Adding(t, w) /\ SoleOf(t, w)
      /\ SoleCursor(t, w) /\ SoleVector(t, w)
  BY DEF Load, At, UsesElement, Adding, InAddWord, SoleInv, SoleOf
<1>2. /\ doc' = doc /\ articleID' = articleID /\ token' = token
      /\ table' = table /\ elem' = elem /\ pc'[t] = "store"
  BY DEF Load, Goto, database, IndexInv, TypeOK
<1>3. /\ Tally(t, w)' = Tally(t, w) /\ VectorsOf(w)' = VectorsOf(w)
      /\ Word(t)' = w
  BY <1>2 DEF Tally, Added, VectorsOf, PlacesIn, Word
<1>4. freq'[t] = Tally(t, w)
  <2>1. /\ Homes(elem[t]) # {} /\ elem[t].pos = 1
        /\ \A h \in Homes(elem[t]) : h.bucket = Hash[w] /\ h.pos \in PlacesIn(w)
        /\ \A v \in VectorsOf(w) : v.elems = <<[article |-> articleID[t], freq |-> Tally(t, w)]>>
    BY <1>1, TheHome
  <2>2. PICK h \in Homes(elem[t]) : freq'[t] = ElemsAt(h)[elem[t].pos].freq
    BY <2>1 DEF Load, IndexInv, TypeOK
  <2>3. VectorAt(h) \in VectorsOf(w)
    BY <2>1 DEF VectorAt, VectorsOf
  <2>4. ElemsAt(h) = <<[article |-> articleID[t], freq |-> Tally(t, w)]>>
    BY <2>1, <2>3 DEF ElemsAt
  <2> QED BY <2>1, <2>2, <2>4
<1>5. (HasEntry(t, w)' <=> HasEntry(t, w)) /\ (HasElement(t, w)' <=> HasElement(t, w))
  BY <1>1, <1>2, <1>3 DEF HasEntry, HasElement, Adding, InAddWord
<1>6. SoleVector(t, w)'
  BY <1>1, <1>2, <1>3, <1>5, SoleKept
<1>7. SoleCursor(t, w)'
  BY <1>1, <1>2, <1>3, <1>4 DEF SoleCursor, UsesEntry, UsesElement, ElementOf
<1> QED BY <1>6, <1>7 DEF SoleOf

\* and the store of the next.
LEMMA OwnStore ==
  ASSUME IndexInv, HomeInv, SoleInv, NEW t \in Articles, Store(t),
         NEW w \in Words, Sole(t, w), Word(t) = w
  PROVE  SoleOf(t, w)'
<1>1. /\ pc[t] = "store" /\ pc[t] \in UsesElement /\ Adding(t, w) /\ SoleOf(t, w)
      /\ SoleCursor(t, w) /\ SoleVector(t, w)
  BY Zenon DEF Store, At, UsesElement, Adding, InAddWord, SoleInv, SoleOf
<1>2. /\ doc' = doc /\ articleID' = articleID /\ pc'[t] = "scan"
      /\ token'[t] = token[t] + 1 /\ token[t] \in Nat \ {0}
  BY Zenon DEF Store, Goto, IndexInv, TypeOK
<1>3. /\ Homes(elem[t]) # {} /\ elem[t].pos = 1
      /\ \A h \in Homes(elem[t]) : h.bucket = Hash[w] /\ h.pos \in PlacesIn(w)
      /\ \A v \in VectorsOf(w) : v.elems = <<[article |-> articleID[t], freq |-> Tally(t, w)]>>
  BY <1>1, TheHome
<1>4. freq[t] = Tally(t, w) /\ Tally(t, w) \in Nat
  BY <1>1, TallyFacts DEF SoleCursor
<1>5. PICK h \in Homes(elem[t]), v \in Vector :
            /\ h.bucket \in Buckets
            /\ h.pos \in DOMAIN table[h.bucket].slots
            /\ VectorAt(h) = table[h.bucket].slots[h.pos].vec
            /\ table' = WithVector(h.bucket, h.pos, v)
            /\ v.id = VectorAt(h).id /\ v.id = elem[t].id
            /\ v.gen = VectorAt(h).gen
            /\ elem[t].pos \in DOMAIN VectorAt(h).elems
            /\ v.elems = [VectorAt(h).elems EXCEPT ![elem[t].pos].freq = freq[t] + 1]
  BY <1>3, StoreWrites
<1>6. VectorAt(h).elems = <<[article |-> articleID[t], freq |-> Tally(t, w)]>>
  <2>1. VectorAt(h) \in VectorsOf(w)
    BY <1>3 DEF VectorAt, VectorsOf
  <2> QED BY <1>3, <2>1
<1>7. v.elems = <<[article |-> articleID[t], freq |-> Tally(t, w) + 1]>>
  <2> DEFINE id == articleID[t]
             n == Tally(t, w)
             one == [article |-> id, freq |-> n]
  <2>1. v.elems = [<<one>> EXCEPT ![1].freq = n + 1]
    BY <1>3, <1>4, <1>5, <1>6, Zenon
  <2> HIDE DEF id, n
  <2>2. [one EXCEPT !.freq = n + 1] = [article |-> id, freq |-> n + 1]
    OBVIOUS
  <2> HIDE DEF one
  <2>3. [<<one>> EXCEPT ![1].freq = n + 1] = <<[one EXCEPT !.freq = n + 1]>>
    OBVIOUS
  <2> QED BY <2>1, <2>2, <2>3 DEF id, n
<1>8. VectorsOf(w)' = {v}
  <2>1. h.bucket = Hash[w] /\ h.pos \in PlacesIn(w)
    BY <1>3
  <2>2. /\ h.bucket \in Buckets /\ h.pos \in DOMAIN table[h.bucket].slots
        /\ table' = WithVector(h.bucket, h.pos, v)
    BY <1>5, Zenon
  <2> QED BY <2>1, <2>2, WrittenVectors
<1>9. Tally(t, w)' = Tally(t, w) + 1
  <2>1. articleID[t] # NoArticle /\ w \notin StopWords
    BY <1>1, NoArticleAssumption DEF Adding, IndexInv, CursorSet, CursorOf, HomeInv, BeforeScan,
       InAddWord
  <2>2. Added(t, {w})' = Added(t, {w}) \cup {token[t]} /\ token[t] \notin Added(t, {w})
    <3>1. 1..((token[t] + 1) - 1) = (1..(token[t] - 1)) \cup {token[t]}
      BY <1>2
    <3>2. Text[doc[t]][token[t]] = w
      BY DEF Word
    <3>3. token[t] \notin 1..(token[t] - 1)
      BY <1>2
    <3>4. Added(t, {w})' = {i \in 1..((token[t] + 1) - 1) : Text[doc[t]][i] \in {w} \ StopWords}
      BY <1>2, <2>1 DEF Added
    <3>5. Added(t, {w}) = {i \in 1..(token[t] - 1) : Text[doc[t]][i] \in {w} \ StopWords}
      BY <2>1 DEF Added
    <3> QED BY <2>1, <3>1, <3>2, <3>3, <3>4, <3>5
  <2>3. IsFiniteSet(Added(t, {w}))
    BY TallyFacts
  <2>4. Cardinality(Added(t, {w}) \cup {token[t]}) = Cardinality(Added(t, {w})) + 1
    BY <2>2, <2>3, FS_AddElement
  <2> QED BY <2>2, <2>4 DEF Tally
<1>10. HasEntry(t, w)' /\ HasElement(t, w)' /\ ~Adding(t, w)'
  BY <1>2, <1>4, <1>9 DEF HasEntry, HasElement, Adding, InAddWord
<1>11. SoleVector(t, w)'
  BY <1>2, <1>7, <1>8, <1>9, <1>10 DEF SoleVector, SoleElems
<1> QED BY <1>10, <1>11 DEF SoleOf

\* All steps of the thread that is alone.
LEMMA OwnSole ==
  ASSUME IndexInv, HomeInv, SoleInv, NEW t \in Articles, StepOf(t),
         NEW w \in Words, Sole(t, w)
  PROVE  SoleOf(t, w)'
<1>1. CASE ~Adding(t, w) /\ ~Adding(t, w)'
  BY <1>1, QuietStep
<1>2. CASE Adding(t, w) \/ Adding(t, w)'
  <2>1. AddWord(t) /\ Word(t) = w
    <3>1. CASE Parse(t) \/ EndOfText(t) \/ SkipStopWord(t)
      <4>1. pc[t] \notin InAddWord /\ pc'[t] \notin InAddWord
        BY <3>1 DEF Parse, EndOfText, SkipStopWord, Ignore, SearchMissed, AnswerOK,
           AnswerRedirect, AnswerOther, AppendSeen, LengthSeen, At, Goto, Scanning,
           InAddWord, IndexInv, TypeOK
      <4> QED BY <1>2, <4>1 DEF Adding
    <3>2. CASE Store(t)
      <4>1. pc'[t] \notin InAddWord
        BY <3>2, Zenon DEF Store, Goto, InAddWord, IndexInv, TypeOK
      <4> QED BY <1>2, <3>2, <4>1 DEF Adding, AddWord
    <3>3. CASE AddWord(t) /\ ~Store(t)
      <4>1. Word(t)' = Word(t)
        BY <3>3, Zenon DEF AddWord, LookupFound, LookupMissed, Enter, Relookup, FindOld, FindNew,
           Attach,
           Count, Nth, UseDangling, Load, Word, cursor
      <4> QED BY <1>2, <3>3, <4>1 DEF Adding
    <3> QED BY <3>1, <3>2, <3>3 DEF StepOf
  <2> QED BY <2>1, OwnLookup, OwnEnter, OwnAttach, OwnFind, OwnLoad, OwnStore DEF AddWord
<1> QED BY <1>1, <1>2

\* To sort one element or none changes nothing.
LEMMA QuerySole ==
  ASSUME IndexInv, HomeInv, SoleInv, NEW q \in Words, Query(q),
         NEW t \in Articles, NEW w \in Words, Sole(t, w)
  PROVE  SoleOf(t, w)'
<1> DEFINE i == AddressOf(q).pos
           old == table[Hash[q]].slots[i].vec
<1>1. /\ Hash[q] \in Buckets /\ i \in DOMAIN table[Hash[q]].slots
      /\ ElemsAt(AddressOf(q)) = old.elems
      /\ \E r \in Rearranged(old.elems), v \in Vector :
            table' = WithVector(Hash[q], i, v) /\ v.elems = r
  BY QueryWrites
<1>2. PICK r \in Rearranged(old.elems), v \in Vector :
         table' = WithVector(Hash[q], i, v) /\ v.elems = r
  BY <1>1
<1>3. /\ \A u \in Articles : pc[u] = "done"
      /\ UNCHANGED <<pc, doc, articleID, token>>
  BY DEF Query, AllDone
<1>4. SoleVector(t, w)
  BY DEF SoleInv, SoleOf
<1> HIDE DEF i, old
<1>5. /\ Tally(t, w)' = Tally(t, w) /\ ~Adding(t, w) /\ ~Adding(t, w)'
      /\ (HasEntry(t, w)' <=> HasEntry(t, w)) /\ SoleElems(t, w)' = SoleElems(t, w)
  BY <1>3 DEF Tally, Added, Adding, Word, HasEntry, HasElement, SoleElems, InAddWord
<1>6. CASE ~(Hash[q] = Hash[w] /\ i \in PlacesIn(w))
  <2>1. VectorsOf(w)' = VectorsOf(w)
    BY <1>1, <1>2, <1>6, WrittenVectors
  <2> QED BY <1>4, <1>5, <2>1 DEF SoleOf, SoleVector
<1>7. CASE Hash[q] = Hash[w] /\ i \in PlacesIn(w)
  <2>1. VectorsOf(w)' = {v} /\ VectorsOf(w) = {old}
    BY <1>1, <1>2, <1>7, WrittenVectors DEF old
  <2>2. old.elems = SoleElems(t, w)
    BY <1>4, <2>1 DEF SoleVector
  <2>3. v.elems = old.elems
    <3> DEFINE s == old.elems
    <3>1. DOMAIN s = {} \/ DOMAIN s = {1}
      BY <2>2 DEF SoleElems
    <3>2. s \in Seq(Relevant)
      BY <1>1, VectorInSlot DEF IndexInv, old
    <3>3. r \in Rearranged(s)
      BY <1>2
    <3>4. /\ r \in Seq(Relevant) /\ DOMAIN r = DOMAIN s /\ Len(r) = Len(s)
          /\ \A j \in DOMAIN s : \E k \in DOMAIN s : r[j] = s[k]
      BY <3>2, <3>3, RearrangedFacts
    <3> HIDE DEF s
    <3>5. \A j \in DOMAIN s : r[j] = s[j]
      BY <3>1, <3>4
    <3>6. r = s
      BY <3>2, <3>4, <3>5
    <3> QED BY <1>2, <3>6 DEF s
  <2> QED BY <1>4, <1>5, <2>1, <2>3 DEF SoleOf, SoleVector
<1> QED BY <1>6, <1>7

\* At first nothing was added, and nothing is there.
LEMMA SoleInit == Init => SoleInv
<1> SUFFICES ASSUME Init, NEW t \in Articles, NEW w \in Words PROVE SoleOf(t, w)
  BY DEF SoleInv
<1>1. Hash[w] \in Buckets
  BY WordAssumption
<1>2. VectorsOf(w) = {}
  BY <1>1 DEF Init, EmptyBucket, VectorsOf, PlacesIn, Places
<1>3. Added(t, {w}) = {} /\ ~Adding(t, w)
  BY DEF Init, Added, Adding, InAddWord
<1>4. Tally(t, w) = 0
  BY <1>3, FS_EmptySet DEF Tally
<1> QED BY <1>2, <1>3, <1>4 DEF SoleOf, SoleVector, HasEntry

\* Every step, of whichever thread.
LEMMA SoleStep ==
  ASSUME IndexInv, HomeInv, SoleInv, [Next]_vars PROVE SoleInv'
<1> SUFFICES ASSUME NEW t \in Articles, NEW w \in Words, Sole(t, w)' PROVE SoleOf(t, w)'
  BY DEF SoleInv
<1>1. ASSUME NEW s \in Articles, StepOf(s) PROVE SoleOf(t, w)'
  <2>1. Sole(t, w)
    BY <1>1, SoleBefore
  <2> QED BY <1>1, <2>1, OwnSole, OthersSole
<1>2. ASSUME NEW q \in Words, Query(q) PROVE SoleOf(t, w)'
  <2>1. Sole(t, w)
    BY <1>2 DEF Query, Sole
  <2> QED BY <1>2, <2>1, QuerySole
<1>3. CASE UNCHANGED vars
  <2>1. Sole(t, w) /\ SoleOf(t, w)
    BY <1>3 DEF vars, Sole, SoleInv
  <2>2. /\ Tally(t, w)' = Tally(t, w) /\ (Adding(t, w)' <=> Adding(t, w))
        /\ PlacesIn(w)' = PlacesIn(w) /\ VectorsOf(w)' = VectorsOf(w)
    BY <1>3 DEF vars, Tally, Added, Adding, Word, PlacesIn, VectorsOf
  <2>3. /\ HasEntry(t, w)' <=> HasEntry(t, w)
        /\ HasElement(t, w)' <=> HasElement(t, w)
    BY <1>3, <2>2 DEF vars, HasEntry, HasElement
  <2>4. SoleElems(t, w)' = SoleElems(t, w)
    BY <1>3, <2>2, <2>3 DEF vars, SoleElems
  <2>5. SoleCursor(t, w)' <=> SoleCursor(t, w)
    BY <1>3, <2>2 DEF vars, SoleCursor, EntryOf, ElementOf
  <2> QED BY <2>1, <2>2, <2>3, <2>4, <2>5 DEF SoleOf, SoleVector
<1> QED BY <1>1, <1>2, <1>3 DEF Next, StepOf

(* A word whose bucket no other thread uses has been counted for an article *)
(* exactly as often as its thread has read it: the two lookups, the search, *)
(* the append and the increment lose or double nothing when nobody comes in *)
(* between, even while other words of the thread move the slots about.      *)
THEOREM SoleWordsCounted == Spec => []SoleCountsExact
<1>1. IndexInv /\ HomeInv /\ SoleInv /\ [Next]_vars => SoleInv'
  BY SoleStep
<1>2. ASSUME IndexInv, HomeInv, SoleInv PROVE SoleCountsExact
  <2> SUFFICES ASSUME NEW t \in Articles, At(t, "scan") \/ At(t, "done"),
                      NEW w \in Words, Sole(t, w)
               PROVE  CountOf(w, articleID[t]) = Tally(t, w)
    BY DEF SoleCountsExact, Tally
  <2>1. SoleVector(t, w) /\ Tally(t, w) \in Nat
    BY <1>2, TallyFacts DEF SoleInv, SoleOf
  <2>2. (HasEntry(t, w) <=> Tally(t, w) # 0) /\ (HasElement(t, w) <=> Tally(t, w) # 0)
    BY DEF HasEntry, HasElement, Adding, InAddWord, At
  <2>3. CASE Tally(t, w) = 0
    <3>1. ~Present(w)
      BY <2>1, <2>2, <2>3, PresentVectors DEF SoleVector
    <3> QED BY <2>3, <3>1 DEF CountOf
  <2>4. CASE Tally(t, w) # 0
    <3>1. Present(w) /\ EntryOf(AddressOf(w), w)
      BY <1>2, <2>1, <2>2, <2>4, PresentVectors, PresentEntry DEF SoleVector
    <3>2. VectorAt(AddressOf(w)) \in VectorsOf(w)
      BY <3>1 DEF EntryOf, VectorAt, VectorsOf
    <3>3. ElemsAt(AddressOf(w)) = <<[article |-> articleID[t], freq |-> Tally(t, w)]>>
      BY <2>1, <2>2, <2>4, <3>2 DEF SoleVector, SoleElems, ElemsAt
    <3>4. PlacesOf(articleID[t], AddressOf(w)) = {1}
      BY <3>3 DEF PlacesOf
    <3>5. CountOf(w, articleID[t]) = ElemsAt(AddressOf(w))[1].freq
      BY <3>1, <3>4 DEF CountOf
    <3> QED BY <3>3, <3>5
  <2> QED BY <2>3, <2>4
<1> QED BY <1>1, <1>2, SoleInit, IndexInvAlways, HomeInvAlways, PTL DEF Spec
=============================================================================
