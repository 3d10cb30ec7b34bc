---------------------------- MODULE ArticleIndex ----------------------------
(***************************************************************************)
(* The database of assn-6-rss-news-search: the vector of previously seen   *)
(* articles and the hash set of word indices, as ParseArticle, ScanArticle *)
(* and AddWordToIndices fill them from many threads, and as the query loop *)
(* reads them when the threads are gone.  (When a thread runs and what it  *)
(* waits for is Crawler's business.)                                       *)
(*                                                                         *)
(* Each operation of a ts_vector or ts_hashset is atomic, under the mutex  *)
(* of that container; nothing protects a sequence of them, nor what is     *)
(* done through the pointers they return.  An rssIndexEntry* is the        *)
(* address of a slot of the hash set.  An rssRelevantArticleEntry* is the  *)
(* address of an element in the array of one vector: it moves with that    *)
(* array, not with the slot, and dangles when the array is reallocated or  *)
(* the vector is disposed of.                                              *)
(***************************************************************************)
EXTENDS SlotTable

CONSTANTS
    Articles,      \* the article threads
    Item,          \* Item[t]: the [title, doc] that the feed gave thread t
    Docs,          \* documents, i.e. full URLs that differ (strcasecmp)
    ServerOf,      \* ServerOf[d]: the server of document d
    RedirectsTo,   \* RedirectsTo[d]: where d's server redirects clients to
    Text,          \* Text[d]: the well-formed words of document d, in order
    Words,         \* words, distinct up to case
    StopWords,     \* those LoadStopWords read
    Buckets,       \* buckets of db->indices
    Hash,          \* Hash[w]: the bucket StringHash sends word w to
    VectorAlloc,   \* DEFAULT_ALLOC_SIZE: elements a vector grows by
    MaxListed,     \* the articles ListTopArticles lists (10)
    MaxRedirects,  \* bound on the redirects of a behaviour
    NoArticle,     \* articleID before it is assigned
    NoPointer,     \* an uninitialized pointer
    NoList         \* before the first query

ASSUME ArticlesAssumption == IsFiniteSet(Articles)
ASSUME DocAssumption  == /\ \A t \in Articles : Item[t].doc \in Docs
                         /\ Text \in [Docs -> Seq(Words)]
                         /\ RedirectsTo \in [Docs -> SUBSET Docs]
ASSUME WordAssumption == /\ StopWords \subseteq Words
                         /\ Hash \in [Words -> Buckets]
                         /\ Rank \in [Words -> Nat]
                         /\ \A v, w \in Words : Rank[v] = Rank[w] => v = w
ASSUME BoundAssumption == /\ VectorAlloc \in Nat \ {0}
                          /\ MaxListed \in Nat /\ MaxRedirects \in Nat
ASSUME NoArticleAssumption == NoArticle \notin Nat

VARIABLES
    seen,       \* db->previouslySeenArticles
    table,      \* table[b]: bucket b of db->indices
    vectors,    \* relevantArticles vectors made so far; the next has this id
    pc,         \* pc[t]: where t is in ParseArticle and below
    doc,        \* doc[t]: the document t parses, after redirects
    articleID,  \* articleID[t]: of ParseArticle
    token,      \* token[t]: next word of Text[doc[t]] (ScanArticle)
    entry,      \* entry[t]: existingIndexEntry
    place,      \* place[t]: existingArticleIndex
    elem,       \* elem[t]: existingArticleEntry
    freq,       \* freq[t]: the value freq++ has loaded
    hops,       \* redirects so far
    listed,     \* what the last query listed, and for which word
    failure     \* "none", or how the program ended

vars == <<seen, table, vectors, pc, doc, articleID, token, entry, place, elem,
          freq, hops, listed, failure>>
database == <<seen, table, vectors>>
cursor   == <<entry, place, elem, freq>>

PCs == {"search", "connect", "append", "length", "scan", "enter", "relookup",
        "find", "attach", "count", "nth", "load", "store", "done"}

\* struct rssRelevantArticleEntry, a ts_vector of them, struct rssIndexEntry.
Relevant == [article : Nat, freq : Nat]
Vector   == [id : Nat, gen : Nat, alloc : Nat, elems : Seq(Relevant)]
Slot     == [key : Words, vec : Vector]
Bucket   == [gen : Nat, alloc : Nat, slots : Seq(Slot)]

SlotPointer == [bucket : Buckets, gen : Nat, pos : Nat \ {0}]
ElemPointer == [id : Nat, gen : Nat, pos : Nat \ {0}]

TypeOK ==
    /\ seen \in Seq([title : {Item[t].title : t \in Articles}, doc : Docs])
    /\ table \in [Buckets -> Bucket]
    /\ vectors \in Nat
    /\ pc \in [Articles -> PCs]
    /\ doc \in [Articles -> Docs]
    /\ articleID \in [Articles -> Nat \cup {NoArticle}]
    /\ token \in [Articles -> Nat \ {0}]
    /\ entry \in [Articles -> SlotPointer \cup {NoPointer}]
    /\ place \in [Articles -> Nat]
    /\ elem \in [Articles -> ElemPointer \cup {NoPointer}]
    /\ freq \in [Articles -> Nat]
    /\ hops \in 0..MaxRedirects
    /\ listed \in [word : Words, top : Seq(Relevant)] \cup {NoList}
    /\ failure \in {"none", "assert", "undefined"}

Init ==
    /\ seen = <<>>
    /\ table = [b \in Buckets |-> EmptyBucket]
    /\ vectors = 0
    /\ pc = [t \in Articles |-> "search"]
    /\ doc = [t \in Articles |-> Item[t].doc]
    /\ articleID = [t \in Articles |-> NoArticle]
    /\ token = [t \in Articles |-> 1]
    /\ entry = [t \in Articles |-> NoPointer]
    /\ place = [t \in Articles |-> 0]
    /\ elem = [t \in Articles |-> NoPointer]
    /\ freq = [t \in Articles |-> 0]
    /\ hops = 0
    /\ listed = NoList
    /\ failure = "none"

At(t, label)   == failure = "none" /\ pc[t] = label
Goto(t, label) == pc' = [pc EXCEPT ![t] = label]

-----------------------------------------------------------------------------
(***************************************************************************)
(* ParseArticle.                                                           *)
(***************************************************************************)
Article(t) == [title |-> Item[t].title, doc |-> doc[t]]

\* NewsArticleCompare yields 0.
Same(x, y) == \/ x.title = y.title /\ ServerOf[x.doc] = ServerOf[y.doc]
              \/ x.doc = y.doc

SeenBefore(t) == \E i \in DOMAIN seen : Same(Article(t), seen[i])

Ignore(t) ==
    /\ At(t, "search")
    /\ SeenBefore(t)
    /\ Goto(t, "done")
    /\ UNCHANGED <<database, doc, articleID, token, cursor, hops, listed, failure>>

SearchMissed(t) ==
    /\ At(t, "search")
    /\ ~SeenBefore(t)
    /\ Goto(t, "connect")
    /\ UNCHANGED <<database, doc, articleID, token, cursor, hops, listed, failure>>

\* The response codes: 200; 301 and 302; 0 and all others.
AnswerOK(t) ==
    /\ At(t, "connect")
    /\ Goto(t, "append")
    /\ UNCHANGED <<database, doc, articleID, token, cursor, hops, listed, failure>>

AnswerRedirect(t) ==
    /\ At(t, "connect")
    /\ hops < MaxRedirects
    /\ \E d \in RedirectsTo[doc[t]] : doc' = [doc EXCEPT ![t] = d]
    /\ hops' = hops + 1
    /\ Goto(t, "search")
    /\ UNCHANGED <<database, articleID, token, cursor, listed, failure>>

AnswerOther(t) ==
    /\ At(t, "connect")
    /\ Goto(t, "done")
    /\ UNCHANGED <<database, doc, articleID, token, cursor, hops, listed, failure>>

\* TSVectorAppend(&db->previouslySeenArticles, &newsArticle)
AppendSeen(t) ==
    /\ At(t, "append")
    /\ seen' = Append(seen, Article(t))
    /\ Goto(t, "length")
    /\ UNCHANGED <<table, vectors, doc, articleID, token, cursor, hops, listed, failure>>

\* Mutant: the id is the length, not the last index.
LengthNotIndex(t) ==
    /\ At(t, "length")
    /\ articleID' = [articleID EXCEPT ![t] = Len(seen)]
    /\ Goto(t, "scan")
    /\ UNCHANGED <<database, doc, token, cursor, hops, listed, failure>>

\* articleID = TSVectorLength(&db->previouslySeenArticles) - 1
LengthSeen(t) ==
    /\ At(t, "length")
    /\ articleID' = [articleID EXCEPT ![t] = Len(seen) - 1]
    /\ Goto(t, "scan")
    /\ UNCHANGED <<database, doc, token, cursor, hops, listed, failure>>

-----------------------------------------------------------------------------
(***************************************************************************)
(* ScanArticle, one word after the other.                                  *)
(***************************************************************************)
Word(t) == Text[doc[t]][token[t]]

Scanning(t) == At(t, "scan") /\ token[t] \in DOMAIN Text[doc[t]]
Indexing(t) == Scanning(t) /\ Word(t) \notin StopWords

EndOfText(t) ==
    /\ At(t, "scan")
    /\ token[t] > Len(Text[doc[t]])
    /\ Goto(t, "done")
    /\ UNCHANGED <<database, doc, articleID, token, cursor, hops, listed, failure>>

SkipStopWord(t) ==
    /\ Scanning(t)
    /\ Word(t) \in StopWords
    /\ token' = [token EXCEPT ![t] = @ + 1]
    /\ UNCHANGED <<database, pc, doc, articleID, cursor, hops, listed, failure>>

-----------------------------------------------------------------------------
(***************************************************************************)
(* AddWordToIndices: the entry of the word.                                *)
(***************************************************************************)
Present(w) == Places(table[Hash[w]].slots, w) # {}

AddressOf(w) == [bucket |-> Hash[w], gen |-> table[Hash[w]].gen,
                 pos |-> PlaceOf(table[Hash[w]].slots, w)]

LookupFound(t) ==
    /\ Indexing(t)
    /\ Present(Word(t))
    /\ entry' = [entry EXCEPT ![t] = AddressOf(Word(t))]
    /\ Goto(t, "find")
    /\ UNCHANGED <<database, doc, articleID, token, place, elem, freq, hops, listed, failure>>

LookupMissed(t) ==
    /\ Indexing(t)
    /\ ~Present(Word(t))
    /\ Goto(t, "enter")
    /\ UNCHANGED <<database, doc, articleID, token, cursor, hops, listed, failure>>

\* TSVectorNew of the word's vector; TSHashSetEnter, which frees the vector
\* of an entry that another thread made meanwhile.
NewSlot(w) == [key |-> w, vec |-> [id |-> vectors, gen |-> 0,
                                   alloc |-> VectorAlloc, elems |-> <<>>]]

Enter(t) ==
    /\ At(t, "enter")
    /\ \E b \in Entered(table[Hash[Word(t)]], NewSlot(Word(t))) :
           table' = [table EXCEPT ![Hash[Word(t)]] = b]
    /\ vectors' = vectors + 1
    /\ Goto(t, "relookup")
    /\ UNCHANGED <<seen, doc, articleID, token, cursor, hops, listed, failure>>

\* The second lookup, and assert(existingIndexEntry != NULL).
Relookup(t) ==
    /\ At(t, "relookup")
    /\ IF Present(Word(t))
       THEN /\ entry' = [entry EXCEPT ![t] = AddressOf(Word(t))]
            /\ Goto(t, "find")
            /\ UNCHANGED failure
       ELSE failure' = "assert" /\ UNCHANGED <<pc, entry>>
    /\ UNCHANGED <<database, doc, articleID, token, place, elem, freq, hops, listed>>

-----------------------------------------------------------------------------
(***************************************************************************)
(* AddWordToIndices: the article in the vector of the entry.               *)
(***************************************************************************)
\* The bucket entry[t] points into still lies there.
Allocated(p) == /\ p.gen = table[p.bucket].gen
                /\ p.pos \in DOMAIN table[p.bucket].slots

VectorAt(p) == table[p.bucket].slots[p.pos].vec

\* Thread t calls an operation of existingIndexEntry->relevantArticles.
UsesVector(t, label) == At(t, label) /\ Allocated(entry[t])

ElemsAt(p)      == VectorAt(p).elems
PlacesOf(id, p) == {i \in DOMAIN ElemsAt(p) : ElemsAt(p)[i].article = id}

\* TSVectorSearch with ArticleIndexCompare, from the front.
FindOld(t) ==
    /\ UsesVector(t, "find")
    /\ PlacesOf(articleID[t], entry[t]) # {}
    /\ place' = [place EXCEPT ![t] =
                    (CHOOSE i \in PlacesOf(articleID[t], entry[t]) :
                        \A j \in PlacesOf(articleID[t], entry[t]) : i <= j) - 1]
    /\ Goto(t, "nth")
    /\ UNCHANGED <<database, doc, articleID, token, entry, elem, freq, hops, listed, failure>>

FindNew(t) ==
    /\ UsesVector(t, "find")
    /\ PlacesOf(articleID[t], entry[t]) = {}
    /\ Goto(t, "attach")
    /\ UNCHANGED <<database, doc, articleID, token, cursor, hops, listed, failure>>

\* Mutant: an element is appended whose frequency counts its word already.
AppendedOnce(v, id) ==
    {[v EXCEPT !.elems = Append(@, [article |-> id, freq |-> 1])]}

\* VectorAppend of { articleIndex, 0 }; realloc may move the array.
Appended(v, id) ==
    LET longer == Append(v.elems, [article |-> id, freq |-> 0])
    IN  IF v.alloc = Len(v.elems)
        THEN {[v EXCEPT !.gen = g, !.alloc = @ + VectorAlloc, !.elems = longer] :
                  g \in {v.gen, v.gen + 1}}
        ELSE {[v EXCEPT !.elems = longer]}

Attach(t) ==
    /\ UsesVector(t, "attach")
    /\ \E v \in Appended(VectorAt(entry[t]), articleID[t]) :
           table' = [table EXCEPT ![entry[t].bucket].slots[entry[t].pos].vec = v]
    /\ Goto(t, "count")
    /\ UNCHANGED <<seen, vectors, doc, articleID, token, cursor, hops, listed, failure>>

\* Mutant: no assertion stops a thread that found the vector empty.
CountUnchecked(t) ==
    /\ UsesVector(t, "count")
    /\ place' = [place EXCEPT ![t] = Len(ElemsAt(entry[t])) - 1]
    /\ Goto(t, "nth")
    /\ UNCHANGED <<database, doc, articleID, token, entry, elem, freq, hops, listed, failure>>

\* existingArticleIndex = TSVectorLength(...) - 1; of an empty vector it is
\* -1, and the assertion of the next call fails as it does here.
Count(t) ==
    /\ UsesVector(t, "count")
    /\ IF ElemsAt(entry[t]) # <<>>
       THEN /\ place' = [place EXCEPT ![t] = Len(ElemsAt(entry[t])) - 1]
            /\ Goto(t, "nth")
            /\ UNCHANGED failure
       ELSE failure' = "assert" /\ UNCHANGED <<pc, place>>
    /\ UNCHANGED <<database, doc, articleID, token, entry, elem, freq, hops, listed>>

\* TSVectorNth, and assertPosInBounds in it.
Nth(t) ==
    /\ UsesVector(t, "nth")
    /\ IF place[t] < Len(ElemsAt(entry[t]))
       THEN /\ elem' = [elem EXCEPT ![t] = [id  |-> VectorAt(entry[t]).id,
                                            gen |-> VectorAt(entry[t]).gen,
                                            pos |-> place[t] + 1]]
            /\ Goto(t, "load")
            /\ UNCHANGED failure
       ELSE failure' = "assert" /\ UNCHANGED <<pc, elem>>
    /\ UNCHANGED <<database, doc, articleID, token, entry, place, freq, hops, listed>>

\* An operation through a slot pointer into an array that realloc has freed
\* is undefined: here the program ends.
UseDangling(t) ==
    /\ failure = "none"
    /\ pc[t] \in {"find", "attach", "count", "nth"}
    /\ ~Allocated(entry[t])
    /\ failure' = "undefined"
    /\ UNCHANGED <<database, pc, doc, articleID, token, cursor, hops, listed>>

-----------------------------------------------------------------------------
(***************************************************************************)
(* existingArticleEntry->freq++ outside every lock: a load and a store,    *)
(* through a pointer into a vector that may have been freed or moved since.*)
(***************************************************************************)
\* The slots whose vector holds the array p points into: one or none.
Homes(p) == {h \in [bucket : Buckets, pos : 1..vectors] :
                /\ h.pos \in DOMAIN table[h.bucket].slots
                /\ VectorAt(h).id = p.id
                /\ VectorAt(h).gen = p.gen
                /\ p.pos \in DOMAIN VectorAt(h).elems}

\* From an array given back to the heap, any value is loaded, and the store
\* is lost.
Load(t) ==
    /\ At(t, "load")
    /\ freq' = [freq EXCEPT ![t] =
                   IF Homes(elem[t]) = {} THEN 0
                   ELSE LET h == CHOOSE h \in Homes(elem[t]) : TRUE
                        IN  ElemsAt(h)[elem[t].pos].freq]
    /\ Goto(t, "store")
    /\ UNCHANGED <<database, doc, articleID, token, entry, place, elem, hops, listed, failure>>

Store(t) ==
    /\ At(t, "store")
    /\ table' = IF Homes(elem[t]) = {} THEN table
                ELSE LET h == CHOOSE h \in Homes(elem[t]) : TRUE
                     IN  [table EXCEPT
                            ![h.bucket].slots[h.pos].vec.elems[elem[t].pos].freq = freq[t] + 1]
    /\ token' = [token EXCEPT ![t] = @ + 1]
    /\ Goto(t, "scan")
    /\ entry' = [entry EXCEPT ![t] = NoPointer]
    /\ place' = [place EXCEPT ![t] = 0]
    /\ elem' = [elem EXCEPT ![t] = NoPointer]
    /\ freq' = [freq EXCEPT ![t] = 0]
    /\ UNCHANGED <<seen, vectors, doc, articleID, hops, listed, failure>>

-----------------------------------------------------------------------------
(***************************************************************************)
(* QueryIndices, when BuildIndices has joined every thread: ProcessResponse*)
(* for a word that is no stop word and has an entry.  ListTopArticles      *)
(* sorts the word's vector in place (qsort is not stable) and lists its    *)
(* first elements.                                                         *)
(***************************************************************************)
AllDone == failure = "none" /\ \A t \in Articles : pc[t] = "done"

Rearranged(s) == {[i \in DOMAIN s |-> s[f[i]]] :
                     f \in {g \in [DOMAIN s -> DOMAIN s] :
                               \A i, j \in DOMAIN s : g[i] = g[j] => i = j}}

\* What TSVectorSort with ArticleFrequencyCompare may leave.
ByFrequency(s) ==
    {r \in Rearranged(s) : \A i, j \in DOMAIN r : i < j => r[i].freq >= r[j].freq}

SelectFirst(s, n) == SubSeq(s, 1, IF Len(s) > n THEN n ELSE Len(s))

\* Mutant: the vector itself is cut to the articles that are listed.
QueryCuts(w) ==
    /\ AllDone
    /\ w \notin StopWords /\ Present(w)
    /\ \E r \in ByFrequency(ElemsAt(AddressOf(w))) :
         /\ table' = [table EXCEPT ![Hash[w]].slots[AddressOf(w).pos].vec.elems =
                                      SelectFirst(r, MaxListed)]
         /\ listed' = [word |-> w, top |-> SelectFirst(r, MaxListed)]
    /\ UNCHANGED <<seen, vectors, pc, doc, articleID, token, cursor, hops, failure>>

Query(w) ==
    /\ AllDone
    /\ w \notin StopWords /\ Present(w)
    /\ \E r \in ByFrequency(ElemsAt(AddressOf(w))) :
         /\ table' = [table EXCEPT ![Hash[w]].slots[AddressOf(w).pos].vec.elems = r]
         /\ listed' = [word |-> w, top |-> SelectFirst(r, MaxListed)]
    /\ UNCHANGED <<seen, vectors, pc, doc, articleID, token, cursor, hops, failure>>

-----------------------------------------------------------------------------
Parse(t) == \/ Ignore(t) \/ SearchMissed(t)
            \/ AnswerOK(t) \/ AnswerRedirect(t) \/ AnswerOther(t)
            \/ AppendSeen(t) \/ LengthSeen(t)

AddWord(t) == \/ LookupFound(t) \/ LookupMissed(t) \/ Enter(t) \/ Relookup(t)
              \/ FindOld(t) \/ FindNew(t) \/ Attach(t) \/ Count(t) \/ Nth(t)
              \/ UseDangling(t)
              \/ Load(t) \/ Store(t)

Next == \/ \E t \in Articles :
              Parse(t) \/ EndOfText(t) \/ SkipStopWord(t) \/ AddWord(t)
        \/ \E w \in Words : Query(w)

Spec == Init /\ [][Next]_vars

-----------------------------------------------------------------------------
Slots == {h \in [bucket : Buckets, pos : 1..vectors] :
             h.pos \in DOMAIN table[h.bucket].slots}

(***************************************************************************)
(* Whatever threads race, an article id in the indices is the index of a   *)
(* previously seen article, so that the TSVectorNth with which a query     *)
(* fetches its title stays in bounds; and so is the id a thread will use.  *)
(***************************************************************************)
IDsInRange ==
    /\ \A h \in Slots : \A i \in DOMAIN ElemsAt(h) : ElemsAt(h)[i].article < Len(seen)
    /\ \A t \in Articles : articleID[t] # NoArticle => articleID[t] < Len(seen)

(***************************************************************************)
(* No word is counted that no thread has read: the frequencies in all the  *)
(* indices together are at most the words the threads have added, even     *)
(* where a race hands a count to a wrong word or article.  (Up to what an  *)
(* increment through a dangling pointer writes elsewhere in the heap.)     *)
(***************************************************************************)
\* Which of the words in W thread t has added to the indices.
Added(t, W) ==
    IF articleID[t] = NoArticle THEN {}
    ELSE {i \in 1..(token[t] - 1) : Text[doc[t]][i] \in W \ StopWords}

Counts  == {c \in Slots \X (1..Cardinality(Articles)) : c[2] \in DOMAIN ElemsAt(c[1])}
Counted == UNION {{c} \X (1..ElemsAt(c[1])[c[2]].freq) : c \in Counts}

FrequenciesBounded ==
    Cardinality(Counted) <= Cardinality(UNION {{t} \X Added(t, Words) : t \in Articles})

(***************************************************************************)
(* The counts of a thread that no race touches are exact: as long as no    *)
(* other thread scans a document with a word in the same bucket, a word    *)
(* has been counted for the article once for each time it was read.        *)
(***************************************************************************)
Sole(t, w) ==
    \A u \in Articles \ {t} : articleID[u] # NoArticle =>
        \A i \in DOMAIN Text[doc[u]] : Hash[Text[doc[u]][i]] # Hash[w]

CountOf(w, id) ==
    IF ~Present(w) \/ PlacesOf(id, AddressOf(w)) = {} THEN 0
    ELSE ElemsAt(AddressOf(w))[CHOOSE i \in PlacesOf(id, AddressOf(w)) : TRUE].freq

SoleCountsExact ==
    \A t \in Articles : At(t, "scan") \/ At(t, "done") =>
        \A w \in Words : articleID[t] # NoArticle /\ Sole(t, w) =>
            CountOf(w, articleID[t]) = Cardinality(Added(t, {w}))

(***************************************************************************)
(* "The top ten articles (or all of them, if there are ten or less of      *)
(* them) for the specified word": a query lists so many, in descending     *)
(* order, none of them twice, and none it leaves out has the word more     *)
(* often than one it lists; all this measured against the word's vector as *)
(* it was before the query.  And the vectors of all words, the one that is *)
(* sorted in place included, keep every entry with its count, so that no   *)
(* query loses what a later one should find.                               *)
(***************************************************************************)
ElemsFor(w) == IF Present(w) THEN ElemsAt(AddressOf(w)) ELSE <<>>

HowOften(s, x) == Cardinality({i \in DOMAIN s : s[i] = x})

MostRelevant(top, elems) ==
    /\ Len(top) = IF Len(elems) > MaxListed THEN MaxListed ELSE Len(elems)
    /\ \A i, j \in DOMAIN top : i < j => top[i].freq >= top[j].freq
    /\ \A i \in DOMAIN top : HowOften(top, top[i]) <= HowOften(elems, top[i])
    /\ \A j \in DOMAIN elems :
          HowOften(top, elems[j]) < HowOften(elems, elems[j]) =>
              \A i \in DOMAIN top : elems[j].freq <= top[i].freq

SameEntries(r, s) ==
    /\ Len(r) = Len(s)
    /\ \A i \in DOMAIN s : HowOften(r, s[i]) = HowOften(s, s[i])

TopListed ==
    [][AllDone => /\ MostRelevant(listed'.top, ElemsFor(listed'.word))
                  /\ \A w \in Words : SameEntries(ElemsFor(w)', ElemsFor(w))]_vars

-----------------------------------------------------------------------------
(***************************************************************************)
(* "articleID: the index of the relevant article within the ts_vector of   *)
(* previously parsed articles."                                            *)
(***************************************************************************)
IDNamesArticle ==
    \A t \in Articles : articleID[t] # NoArticle => seen[articleID[t] + 1] = Article(t)

\* The assertions of AddWordToIndices and of the vectors it uses never fail.
AssertionsHold == failure # "assert"

(***************************************************************************)
(* "Store the content in the ts_hashset of indices": when the queries      *)
(* begin, the words that were read have all been counted.                  *)
(***************************************************************************)
AllCounted ==
    AllDone => Cardinality(Counted) =
                   Cardinality(UNION {{t} \X Added(t, Words) : t \in Articles})
=============================================================================
