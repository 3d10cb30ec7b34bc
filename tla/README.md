# A TLA+ model of the CS107 assignments

The repository holds eight programming assignments. One of them, the
multithreaded RSS aggregator of `src/assn-6-rss-news-search`, is a concurrent
system: threads start threads, share containers and compete for connections.
It stands on the vector and hash set of `src/assn-3-vector-hashset`. These two
are the core of this project. The other assignments are sequential programs of
a few hundred lines each. All that have behaviour are modelled too, down to
their data structures where these are what can go wrong.

## 1. Inventory

### The aggregator (assignment 6)

| component | state | operations | who calls it |
|---|---|---|---|
| limited connection factory: `limitedurlconnectionfactory.c` over `concurr-conn-utils.c` | `totConnSem`, a counting semaphore; `serverConnSems`, a thread-safe hash set from server name to counting semaphore | `...FactoryNew`, `LimitedURLConnectionNew` (wait for both semaphores, entering the server's when it is missing, then connect), `LimitedURLConnectionDispose` (disconnect, post both), `...FactoryDispose` | feed and article threads; `BuildIndices` makes and disposes of it |
| `threadutils.c` | a vector of (thread id, argument, free function) | `ThreadUtilsStartThread`, `ThreadUtilsJoin`, `ThreadUtilsDispose` | `BuildIndices` for the feeds, `PullAllNewsItems` for the articles of one feed |
| crawl: `BuildIndices`, `ProcessFeed`, `PullAllNewsItems`, `ParseArticle` in `rss-news-search.c` | where each thread is; its URL | start a thread for each feed and each item, follow redirects, join | `main` |
| article database, in `rss-news-search.c` | `previouslySeenArticles` (a vector), `indices` (a hash set from word to the vector of (article, frequency)), `stopWords` | `ParseArticle` (search, append), `AddWordToIndices`, `QueryIndices` | article threads; then `main` |
| expat callbacks in `rss-news-search.c` | title, URL and active field of the current item | `ProcessStartTag`, `ProcessEndTag`, `ProcessTextData` | the XML parser, in a feed thread |
| `tsvector.c`, `tshashset.c` | a mutex around a vector or hash set | the operations of these, each under the mutex | everything above |

`main` loads the stop words, calls `BuildIndices`, and answers queries when
that has returned. `BuildIndices` starts a thread for each feed and joins them
all; `ProcessFeed` connects through the factory and, **while that connection is
open**, starts a thread for each item of the feed and joins all of those.

What is hard here:

* The containers lock inside each operation only. A lookup, a test and an
  insertion are three steps, and the *pointer* a lookup returns is the address
  of a slot: an insertion into the same bucket moves other elements into it
  (`memmove`) or frees the array it lies in (`realloc`).
* Entering an equal element *replaces* the old one and frees what it owned - a
  semaphore threads may be waiting on, or a vector threads are filling.
* Two limits are waited for one after the other, the first held during the
  second wait; and feeds hold connections while they join threads that need
  one.
* `freq++` runs outside every lock.
* Thread creation can fail; what is appended then holds an id nobody set.

What makes each part correct: the limits on connections are kept (factory);
the factory outlives its users, arguments are freed once and after use, and
`BuildIndices` returns (crawl); an article's id names that article, and the
counts are those of the words read (database).

### Vector and hash set (assignment 3)

A vector is an array with a length and an allocation that grows by a fixed
increment; a hash set is an array of vectors kept sorted by `HashSetEnter`.
Elements are owned: replacing, deleting and disposing free them. Correctness:
the abstract sequence and the abstract keyed set, order and uniqueness of each
bucket, the allocation never less than the length, each element freed once.

### The other assignments

| program | state | operations | what makes it correct |
|---|---|---|---|
| `assn-4-rss-news-search-expat`, the aggregator before threads | stack of calls, `indexedArticles`, the hash sets of stop words and indices, and the item being parsed | `GetStopWords`, `BuildIndices`, `ProcessFeed`, `PullAllNewsItems` and its three callbacks, `ParseArticle`, `ScanArticle`, `indexWord`, `ProcessResponse` | each article once; counts as read; recursion that ends |
| `assn-2-six-degrees`: `imdb.cc`, `six-degrees.cc`, `imdb-test.cc` | two files mapped into memory, read only; the queue of paths, players and films seen | `getCredits`, `getCast`, `generateShortestPath`, `promptForActor`, `listAllMoviesAndCostars` | what is in the files is shown; the shortest path, or none up to `HOW_FAR` |
| `assn-1-rsg` | the grammar, a map; the text so far; nested calls of `dfs` | `readGrammar`, `dfs`, `makeText` | the text is a derivation of the start symbol; an undefined nonterminal stops the program |
| `assn-8-align` | the cache and the dictionaries in it | `findOptimalAlignment`, `findOptimalAlignmentCached` | the optimal score, and an alignment that has it |
| `assn-7-where-am-i` | none between calls | `all-guesses`, `remove`, `partition`, `quicksort`, `where-am-i`, and the geometry | every pairing once, in the order of the ratings |
| `assn-5-raw-memory`, `assn-4-rss-news-search-data`, `exams` | | | answers, data and documents without behaviour |

What is hard in these: callbacks that collect an item over many calls, with
buffers that only one kind of tag clears; a recursion through redirects whose
end is a search meant for something else; records whose padding is computed
from the lengths of strings; a search that stops early on the strength of the
order of its queue; a definition that replaces another after it was used; a
cache whose entries are changed in place. The containers of the threaded
aggregator, `tsvector.c` and `tshashset.c`, have a recursive mutex each, and
their map function calls the client with the mutex locked.

## 2. The modules

```
ConnPool          what the factory promises: at most so many connections open
SlotTable         one bucket of a hash set: search, sorted insertion, growth
  ConnLimiter     the factory (EXTENDS SlotTable; implements ConnPool)
    Crawler       the threads (INSTANCE ConnLimiter for their connections)
  ArticleIndex    the database (EXTENDS SlotTable)
Vector            the operations of vector.c on one vector
  VectorClient    any client of a vector (EXTENDS Vector; implements List)
  HashSet         buckets and their client (EXTENDS Vector; implements KeyedSet,
                  its buckets behave as SlotTable says)
TSContainers      the vector and the hash set behind their mutexes
FeedParser        the expat callbacks of both aggregators
  SequentialAggregator    assignment 4 (EXTENDS FeedParser)
MovieDatabase     class imdb over its two files, and imdb-test
  SixDegrees      the search (EXTENDS MovieDatabase)
Derivation        leftmost derivations in a grammar
Rsg               the random sentence generator (implements Derivation)
Align             alignment with a shared cache
WhereAmI          the guesses and their order
SlotTableProofs   lemmas about buckets
ConnLimiterProofs, ArticleIndexProofs
                  theorems about the module each is named for
CrawlerProofs     theorems about Crawler and TSContainers
AggregatorProofs  theorems about FeedParser and SequentialAggregator
ContainersProofs  theorems about VectorClient and HashSet
AssignmentsProofs theorems about Rsg, MovieDatabase and SixDegrees
RecursionProofs   theorems about Align and WhereAmI
MCConnLimiter, MCCrawler, MCArticleIndex, MCContainers, MCAssignments
                  small instances for TLC
```

**SlotTable** is the bucket both hash sets share: `Entered` is `HashSetEnter`,
`InsertPlace` the place `bsearch1` finds, `BucketWith` is `VectorInsertSorted`
with `resizeIfSaturated`. A bucket is its slots, its allocation and a number
`gen` that tells apart the arrays `realloc` handed out; `realloc` may leave the
array where it is or move it, and both are behaviours.

**ConnLimiter.** A thread's `pc` is where it is in `LimitedURLConnectionNew` or
`...Dispose`; an action is one semaphore operation or one hash set operation.
`scs[t]` is the pointer of the last lookup: bucket, array and position, not
server. `sem_wait` through a pointer into a freed array is undefined: here it
returns or blocks, and the table keeps what it holds. `entered` is a history
variable. `ConnPool` is the abstract specification: `connBar` says that a
thread at `open` is connected to its target. A connection is assumed to
report, when it is disposed of, the server it was made for (`fullUrl` of the
external library).

**Crawler.** `task` is where a thread is in the functions of
`rss-news-search.c` and `threadutils.c`; inside the factory it takes
ConnLimiter's steps. What a server answers (a document, a redirect, anything
else) is chosen by the environment. The items of a feed are a constant, in the
order of their end tags. `pthread_join` with an id nobody set returns an
error or ends the program (`crashed`).

**ArticleIndex.** A document is the sequence of well-formed words the tokenizer
makes of it. An action is one operation of a thread-safe container; `freq++` is
two, `Load` and `Store`. The pointer `entry[t]` is a slot, `elem[t]` an element
of one array of one vector. An assertion that fails ends the program
(`failure`), and so does an operation through a slot pointer into a freed
array. An increment through an element pointer into a freed array loads
anything and is lost. Queries start when every thread is done. Feeds and the
connection limits are left to Crawler: an article thread here is one that
Crawler may have at "born".

**Vector, VectorClient, HashSet.** `Vector` has the operations of `vector.c` as
operators: a vector is its array (`mem`, with what was left in the places not
in use), `len`, `alloc` and `inc`, and insertion is growth, a move of the tail
and a write, in the code's order. `VectorClient` calls them in any order with
positions that may be out of bounds; a failed assertion, or a `realloc` that
fails, ends the program. Each element it hands over is a new one that owns
something, so that `freed` can count what `freeFn` does to it; a client that
inserts the same element twice, or passes the address of an element inside the
vector, breaks the vector's rules and is left out. `qsort` may leave equal
elements in any order. `ImplementsList` is two things: what the client sees
(`Seen`) changes as `List` allows, and each call changes it as that very call
asks (`CallsTakeEffect`), or not at all when an assertion ends the program. `HashSet` is the array of buckets; `HashSetEnter` uses
`Bsearch`, `Replaced`, `InsertionPoint` and `Inserted` of Vector on the bucket
the client's hash function names, or aborts. `HashSetLookup`, `HashSetCount`,
`VectorSearch` and the maps change nothing and appear in the properties.
`BucketsAreSlotTables` ties this detailed model to SlotTable, which the modules
of the aggregator use: what `HashSetEnter` does to a bucket is always one of
the outcomes of `Entered`.

**TSContainers.** A thread's `call` goes from `locking` over `working` to
`unlocking`: the wrapper locks, reads the container, and writes what the
operation makes of it when the work ends. Between the two only the mutex keeps
others out. The operations are those of `List` and `KeyedSet`, which
VectorClient and HashSet are shown to implement. `log` is a history variable:
`Linearizable` replays it, operation by operation, on an empty container. ConnLimiter and ArticleIndex take each of these calls
for one step, which is what `Linearizable` allows. `MapCallsBack` is a client's
function that uses the set it is mapped over. `TSVectorNth` and
`TSHashSetLookup` return addresses that are used when the mutex is unlocked
again; what comes of that is in ConnLimiter and ArticleIndex.

**FeedParser.** An action is one callback: `ProcessStartTag`, `ProcessEndTag`,
`ProcessTextData`. `keeps` says which program it is: in assignment 6 an unknown
start tag leaves the active field alone, in assignment 4 it does not. The two
also differ in the buffers before the first item (`NewItem`). `read` is the
history of the callbacks, `parent` the start tag of the element that each event
lies in: the document, of which `ItemsAsWritten` says what belongs to an item.
`open` is expat's stack of open elements (`Reported`); what it reports is well
nested. Descriptions, copied by assignment 4 and read by nobody, are among the
other elements.

**SequentialAggregator.** One thread; `ParseArticle` runs inside the callback
for the end of an item, and both it and `ProcessFeed` call themselves for a
redirect. So the state is a stack, `calls`: the call on top has an `at` (where
it is), those below wait with their connections open. `SearchArticle` is
`ParseArticle` up to the connection: the search, and the append that comes
before anything is fetched. `IndexWord` is `indexWord`; hash sets are functions
and vectors sequences here, as KeyedSet and List allow. `ProcessResponse`
sorts the word's vector in place; `qsort` may leave equal counts in any order.
`tally` is a history variable. What is well-formed, tokenizing and the text of
the answers is data.

**MovieDatabase, SixDegrees.** The files are functions from byte offsets to
what is stored there. They are not in the repository: `WriteActorFile` and
`WriteMovieFile` write them from a relation between films and players (`cast`)
in the layout that the comments of `imdb.cc` describe, with a padding
arithmetic of their own, and `GetMovieOffsets`, `ReadFilm`, `GetPlayers` read
them with the code's.
`Bsearch` is `bsearch`, with the code's two comparisons. SixDegrees has a step
for each prompt and one for each turn of the search loop, in which
`AddCast` goes through the cast of each film.

**Rsg, Derivation.** A call of `dfs` is the tokens of its production that it
has still to visit; `visits` is the stack of calls. What was written, followed
by the tokens of all calls from the innermost to the outermost, is the
sentential form (`form <- text \o ToVisit`), and every step of Rsg is a leftmost
derivation step, a new start, or a stutter. `Derivation` takes the last
definition of a nonterminal in the file.

**Align.** The dictionaries lie in a heap and the cache maps strands to places
in it, because the aliasing is the matter: `Extended` changes a result in place,
as the program does, whoever else has a reference to it. The calls are made in
the program's order, with the memory handed from one to the next. The recursion
is a recursive function of the strands and the memory (`FindOptimalAlignment`);
`FindOptimalAlignmentCached` gets it as a parameter.

**WhereAmI.** `AllGuesses`, `Without`, `Partition`, `Quicksort` are the
functions of the program on lists; what `partition` and `remove` have in common
is `Kept`, the elements of a list that pass a test, in their order. `Pairings`,
which the answer is compared with, says what there is without any list. How well
the points of a guess clump is a rating that the instance chooses for each
guess. `Before` is the comparison that `where-am-i` gives `quicksort`, so that
`GuessesRanked` asks for ascending ratings.

Here a comment and the code disagree. `quicksort` is documented to "sort lists
of numbers from high to low" (`where-am-i.scm:151-152`); it puts what its
comparison holds to be less in front (line 164), both its callers give it `<`
(lines 247 and 297), and the lists it returns go from low to high. The callers
need it so: `clumped-points` keeps the first half of the points, the closest
ones, and the first guess is the best. The comment is wrong, not the program, and
`GuessesRanked`, with its theorem, states the order that the callers rely on.

Below the grain of the modules: a mutex that lies *inside* a slot which another
thread moves; a semaphore that is destroyed while threads sleep on it; memory
that is freed and handed out again as something else. Where undefined
behaviour of these kinds is possible a module says what it takes it for, and
the properties that hold are about what the program does without it or in spite
of it.

## 3. The runs

| run | what it shows |
|---|---|
| `limiter` | `TypeOK`; `TotalPermitsConserved`; `ServerPermits`; `BucketsSorted`; `TableInv`, the inductive invariant of the proofs; `PoolSpec`, the refinement of ConnPool. All hold. |
| `limiter_race` | `ServerLimit`, that at most `maxServerConns` connections are open to a server, is violated: two threads miss the server, both enter it, and the second entry replaces the first with a full semaphore. |
| `limiter_pointers` | `PointersCurrent`, that a pointer still leads to what was looked up when it is used, is violated. |
| `crawler` | `FactoryOutlivesThreads`, `ArgumentsFreedOnce`, `UsesLimiter` (every behaviour of the crawl is one of ConnLimiter: its assumptions about its callers hold), `Terminates`. All hold, with more connections than feeds. |
| `crawler_deadlock` | `Terminates` is violated with as many feeds as connections. |
| `index` | `IDsInRange`, `FrequenciesBounded`, `SoleCountsExact`, `TopListed` (a query's list against the vector before the query, and every word's entries before against after it). All hold. |
| `index_ids` | `IDNamesArticle` is violated: append and length are two operations. |
| `index_asserts` | `AssertionsHold` is violated: a word entered twice leaves another thread with an empty vector, and `VectorNth` asserts. |
| `index_counts` | `AllCounted` is violated: words that were read are not counted. |
| `containers` | `VectorTypeOK`, `VectorOwnership`, `InsertionKeepsOrder` (the place `bsearch1` finds), `SearchFinds`, `HashSetTypeOK`, `BucketsInOrder`, `SetOwnership`, `LookupFinds`; `ImplementsList`, the refinement of List, call by call; `ImplementsKeyedSet`, that of KeyedSet; `BucketsAreSlotTables`. All hold. |
| `assignments` | `ItemsAsWritten`; `NoDuplicateArticles`, `IndexExact`, `RedirectsLeaveServers`, `ArticlesReturn`; `Linearizable`, `CallsReturn`; `CostarsExact`; `ShortestPathFound`, `QueueByLength`; `DerivesText`, the refinement of Derivation; `ScoreOfAlignment`; `GuessesRanked` (lowest rating first, against the comment of `quicksort`, see above). All hold. |
| `align_optimal` | `OptimalScore`, that the alignment printed has the optimal score, is violated: results in the cache are changed in place, and CA with AA gets -3 instead of 0. |

Every property of a passing run has a mutant in `PROJECT.json`: the operator
named there (marked `Mutant:` in the module) is the code with a plausible bug,
and the property fails with it.

**Bounds.** `limiter`: three threads are what the races need (two that race and
one that is in the way); of three servers two share a bucket, and a bucket grows
at every insertion (`BucketAlloc = 1`), so that slots are moved, replaced and
reallocated; two connections in all and one per server, so that both limits
are reached. The threads are interchangeable and `MCSymmetry` says so; no run
with symmetry has a liveness property. No counter needs a bound: a semaphore
never exceeds what was put in. `crawler`: two feeds with one item each are two
generations of threads, competing for one server and then for another; one
redirect in a behaviour (`MaxRedirects`), unlimited in the code. `index`: two
article threads, documents of three words with one in common and two in one
bucket, vectors and buckets that grow by one, a stop word, and a redirect that
can give both threads the same document; a query lists one article
(`MaxListed`, ten in the code) of at most two. `containers`: five elements, two
of which compare equal, each handed over at most once; the searches then meet
every length up to five and both sides of every middle; allocations of one and
two (`DefaultAlloc` stands for 16, `BucketAlloc` for 4), so that arrays grow
two to five times; one and two buckets, the first too few for one of the
hashes; positions from -1 to one past the end. The vector and the hash set
share nothing, and a behaviour uses one of them.

`assignments` is eight programs that share nothing, one in each behaviour
(`program`); they are in one run because each is small. *Parser*: all
well-nested feeds of seven callbacks with two pieces of text, for both
programs; an item with a title in two pieces and a link in one would take nine,
but either alone fits, and so do both with text in one of them, or a field with
another element or another item before it. *Aggregator*: two feeds with six
items, four articles on two servers, among them one with the title of another
on its server, one listed twice, one item without a link, and redirects between
articles, within a server and in circles over both; `MaxFeedCalls` =
2 bounds the chains of feeds, which the code does not, and `MaxCalls` = 6 is
never reached, which is what `RedirectsLeaveServers` is about. *Containers*:
two threads and three calls with all operations: two that overlap and one that
sees what they left. *Movies*: four players, three films of which two have one
title, casts of no, two and three players; the lengths of the names and titles
have all residues modulo four, so that every padding occurs; `HOW_FAR` is 3 (6
in the code), so that a path over all three films is just too long;
`NumToPrint` is 1 (10 in the code), so that lists are shorter, longer and just
as long as what is printed. *Rsg*: a recursive grammar with an empty
production, and one that defines a nonterminal twice and uses one that it does
not define; three texts of at most seven tokens (`MaxTokens`). *Align*: all
strands of up to three of three bases; the strands of `main` are longer, and
each suffix of theirs is one that a call meets. *Where am I*: three stars, one
to four distances (`MaxGuess`), so that distances run out, or stars do, or both;
equal distances and equal ratings included.

**Deadlock.** All runs say `CHECK_DEADLOCK FALSE`, because the modelled system
stops: the factory is disposed of, queries begin, the program aborts. That
nobody is left waiting is the property `Terminates`.

**Fairness.** Weak fairness for each thread: the POSIX scheduler runs a thread
that can run, and a server answers or the library gives up with code 0.
Nothing is assumed about the order in which semaphores wake threads; behaviours
without redirects are finite, so nobody can be passed over forever.
`Terminates` leaves out behaviours that destroy a semaphore in use (a server
entered twice) or join an id that was never set.

In `assignments`, weak fairness of the sequential aggregator, a program that
runs (`ArticlesReturn`: a server answers, whatever it answers), and of each
thread inside a container call (`CallsReturn`: the holder of a mutex is
scheduled, and the work of a container ends). A thread need not call anything,
and a failed assertion, which ends the program, ends the claim. No fairness is
used for the other programs, whose properties are safety.

**Redirects.** `ArticlesReturn` holds although nothing in `ParseArticle` looks
for circles: the search for duplicates takes an article on the same server with
the same title for the same article, and a redirect keeps the title, so no
server occurs twice in a chain. The other side of this is that an article which
has moved within its server is taken for a duplicate of itself and never
indexed, although the comment there says "just pretend we have the redirected
URL all along" (`rss-news-search.c:764` of assignment 4). `ProcessFeed` has no
such search, and a circle of feeds never ends; `MaxFeedCalls` cuts it off.

**The length of a path.** `generateShortestPath` tests the length of a path before
its last player. A path of exactly `HOW_FAR` films is in the queue and never
returned; `ShortestPathFound` states what holds: a path of fewer films is found.

**The deadlock.** With `MAX_TOT_CONNS` 36 and `MAX_SER_CONNS` 8 it takes 36
feeds, or 8 feeds of a server that also has the articles. The feeds file in
the repository lists fewer; the program takes any file.

## 4. The proofs

Every theorem holds for all values of the constants that satisfy the named
assumptions of its module and of those below it: sets of threads, servers, feeds
and documents of any size, any hash function and order, any limits and initial
allocations. `TypeOK`, `Next` and the like are those of the module in question.

### ConnLimiterProofs: the connection factory

* `TableSafe`: `Spec => []TableInv`, and `LimiterTypes`, the part about types.
  `TableInv` is inductive: types; a thread in the factory has a target
  (`TargetKnown`); the assertions of Wait and Post hold because a thread past
  its lookup has its server in the table (`Registered`) and nothing ever leaves
  it; entries lie in the bucket of their server (`EntriesAtHome`); a bucket of
  one server has one slot (`OneSlot`), hence its array is never reallocated, and
  a pointer into it stays current (`PointersLocated`).
* `SortedBuckets`: `Spec => []BucketsSorted`, from lemma `InsertKeepsOrder` of
  `SlotTableProofs`: inserting at the place the binary search finds splits the
  slots into those before and those after.
* `TotalPermits`: `Spec => []TotalPermitsConserved`, inductive as it stands.
  With it `ImplementsPool`: `Spec => PoolSpec`. A step of WaitServer opens a
  connection; the thread already holds a total permit, so the other holders,
  among them all with an open connection, are fewer than the limit.
* `ServerAccount`: `Spec => []ServerPermits`, on top of `TableInv`: for a server
  alone in its bucket every wait and post reaches its own semaphore.
  `ServerLimitKept` follows: the per-server limit can be broken only through the
  two findings, a server entered twice or a shared bucket.

### CrawlerProofs: the threads that use it

* `CrawlUsesLimiter`: `Spec => UsesLimiter`, every behaviour of the crawl is one
  of ConnLimiter for the threads of the crawl. So the theorems above are about
  this program, and not about callers that happen to behave: a thread asks for
  one connection at a time, disposes of what it was given, and none is in the
  factory when `BuildIndices` disposes of it. `CrawlTableSafe` carries `TableInv`
  over, `CrawlTypes` says that the variables of both keep their types.
* `FactoryOutlives`: `Spec => []FactoryOutlivesThreads`.
* `ArgumentsOnce`: `Spec => []ArgumentsFreedOnce`.

All of them rest on one invariant, `CrawlInv`. The properties speak of what a
parent does after its loop of `pthread_join`; none is inductive, because nothing
in them says what the loop has achieved. `ForkedInOrder` does: the children a
parent has started are a prefix of its vector, those it has joined are a prefix
of these, and they are at their end. `ParentPhase` adds that a parent past the
loop has joined all it started, and that a feed which has to read its items
(again, after a redirect) has started none; `FreedByParent` that an argument is
freed exactly if its parent is past the loop; `PlaceAgrees` that a thread is
inside the factory exactly when its place in the crawl says so; `FactoryPhase`
that the factory lives as long as main needs it.

### ArticleIndexProofs: the database

* `IndexTypes`: `Spec => []TypeOK`. With pointers that may dangle and `freq++`
  through them this is not obvious: what a stale pointer reads or writes still
  has the type it takes it for, or the program ends.
* `IDsStayInRange`: `Spec => []IDsInRange`. `IndexInv` ties what a thread holds
  to the database (`CursorSet`: a thread past its append has an id below the
  length of the articles, one in `AddWordToIndices` has a word and the pointers
  that its next step uses) and the entries in the index to the articles
  (`ElementsKnown`); lengths only grow.
* `TopArticlesListed`: `Spec => TopListed`, an action property. A sort is a
  permutation, under which every entry occurs as often as before
  (`SortKeepsEntries`), without inversions, so that what comes after the first
  elements is not larger (`HeadMostRelevant`); and a query for one word leaves
  the slots of the others alone (`QueryAnswers`).
* `NothingCountedUnread`: `Spec => []FrequenciesBounded`. It needs to know where
  things are, `HomeInv`: no vector is in two slots, each bucket is in order and has
  the words that hash to it, and the pointers of a thread lead into the bucket of
  its word or nowhere. On it stands `CountsCovered`: there is an injection from the
  increments (the nth of an element, stored in the index, or at most what a thread
  has loaded and will store) into the words added. `Load` makes an increment of the
  index pending and adds none; `Store` adds at most one, and one word; to replace a
  slot or to lose an increment only takes some away; a query permutes the elements
  of one vector. The bound on the frequencies is then one of cardinalities, for
  which the threads have to be finitely many (`ArticlesAssumption`).
* `SoleWordsCounted`: `Spec => []SoleCountsExact`. `SoleInv` follows a thread that
  has a bucket to itself through AddWordToIndices. There is a vector of the word
  from `Enter` on, it has one element from `Attach` on, its frequency is what the
  thread has added, and from the lookup to the store the thread's pointers are good
  (`SoleCursor`). Another thread writes only into the bucket of its own word
  (`BucketWritten`), and a thread that was not alone before does not become so
  (`SoleBefore`).

### ContainersProofs: the vector and the hash set

* `AllocationSuffices` and `ElementsFreedOnce`: `VectorSpec => []VectorTypeOK`
  and `VectorSpec => []VectorOwnership`. The invariant is their conjunction with
  "a raw vector is empty". One lemma for each operation says, place by place,
  what it leaves in the array (`InsertedElements`, `DeletedElements`, ...), a
  second what it does to the set of elements held (`InsertedHolds`, ...), and
  `FreedOnce` that `freeFn` meets each position once.
* `VectorImplementsList`: `VectorSpec => ImplementsList`. Each operation on the
  array is the list operation one position on (`InsertIsListInsert`, ...): a
  sort by the permutation shifted by one. So each call that returns does to the
  list what it was called for (`InsertTakesEffect`, `DeleteTakesEffect`, ...,
  together `CallsDo`), and every step of the vector is a step of the list.
  That `VectorInsertSorted` keeps a sorted list sorted needs the place
  `bsearch1` finds (`InsertedSorted`).
* `InsertionPointRight` and `SearchesRight`: the position that `bsearch1` names
  keeps a sorted vector sorted, and `VectorSearch`, linear or binary, finds what
  is there and says so when nothing is. Both are inductions over the area still
  to be searched. The library's induction theorems are of no use to the provers
  here (they take an operator as a parameter), so the section "Induction and
  recursion" proves what is needed from the theorem that a set with a
  well-founded order has a least element: a set of numbers that has each number
  of which it has all smaller ones has all (`AllNumbers`), and a recursive
  function on areas satisfies its equation (`RecursiveFunction`).
* `BucketsWellFormed`, `BucketsSorted`, `SetElementsFreedOnce`:
  `HashSetSpec => []HashSetTypeOK`, `[]BucketsInOrder` and `[]SetOwnership`. The
  invariant, `HashInv`, says of each bucket that it is a well-formed vector, in
  strictly ascending order, with elements of its hash only. It needs all three at once: the
  order is what makes the search find an equal element, without which an element
  would be inserted next to its equal, and the order lost; and what the search
  misses, nobody frees.
* `HashSetIsKeyedSet`: `HashSetSpec => ImplementsKeyedSet`. Entering replaces the
  equal element or adds a new one.
* `LookupsRight`: `HashSetSpec => []LookupFinds`. The count of a hash set is a
  sum over its buckets; that it is the number of members is an induction over the
  buckets, which are disjoint because elements lie in the bucket of their hash.
* `BucketsAreSlots`: `HashSetSpec => BucketsAreSlotTables`. What `HashSetEnter`
  does to the array of a bucket is one of the outcomes of `Entered`. So the lemmas
  of `SlotTableProofs`, on which the theorems about the factory rest, are about
  buckets like those of `hashset.c`.

### CrawlerProofs: the mutexes of the containers

* `OperationsLinearizable`: `TSSpec => []Linearizable`. The invariant, `TSInv`:
  a thread that works or has to unlock is the holder of the mutex (so is one that
  aborted), hence there is one; what it read is what the container still has
  (`Calls`); and the log, replayed, leads to what the container has
  (`LogReplays`). The replay is a recursive function of the log. That an
  operation appended to the log leaves the replay of the others alone is an
  induction over its length, by the least number at which two replays differ.

### AggregatorProofs: assignment 4

* `IndexedOnce` and `ChainsLeaveServers`: `AggSpec => []NoDuplicateArticles` and
  `AggSpec => []RedirectsLeaveServers`, for redirects of any length. The
  invariant, `AggInv`, adds what the second needs about the stack (`CallsGood`):
  the calls of `ParseArticle` are on top of all others, have one title, and each
  that is past its search is among the indexed articles. So a call that passes
  the search differs from all below it in its server, because it does not in its
  title. One lemma for each thing a step does to the stack (`ReturnGood`,
  `MoveGood`, `CallGood`), and `SearchKeepsInv` for the step that indexes.
* `IndexedExactly`: `AggSpec => []IndexExact`. `IndexInv` says that the stop words
  are known before anything is read (`StopWordsFirst`; with them read later, what
  is indexed before would stay) and that each vector has an article at most once,
  with the count of `tally` (`IndexGood`). `CountedFacts` is the step of
  `indexWord`, `SortedGood` that the sort of a query is a bijection of the
  positions and loses nothing.
* `ItemsReachParseArticle`: `FeedSpec => []ItemsAsWritten`, for feeds of any
  length and depth. The invariant, `FeedInv`: the open elements lie in one another
  and everything read since an open element started lies in it (`DocumentGood`);
  and for every open element that is so far a plain item (`Collects`), the buffers
  spell the text of its titles and links, and the active field is the innermost
  open element if that is a title or a link, and no field otherwise. The last part
  is what makes the two programs equal here: assignment 6 leaves the active field
  alone at an unknown start tag, and it is right because a plain item has no
  unknown element inside a title. `StartCollects`, `TextCollects` and
  `EndCollects` are the three callbacks. The theorem is about the parser by itself
  (`FeedSpec`); that the aggregator's documents are fed to it one after the other
  is only checked.

### AssignmentsProofs: rsg, imdb-test and six-degrees

* `TextsDerived`: `RsgSpec => DerivesText`, every text that rsg prints is the last
  step of a leftmost derivation in the grammar as it was read. The refinement
  mapping concatenates what was written and what the calls of `dfs` have still to
  visit, the innermost first; that sequence is a recursive function of the calls
  (`ToVisit`). The invariant, `RsgInv`: each production is what the last definition
  of its nonterminal says (`GrammarGood`), what was written is terminals
  (`TextGood`), and nobody visits anything before the grammar is read
  (`VisitsGood`). A call that writes a terminal or returns changes nothing of
  the concatenation (`MovesToken`, `ReturnStep`); one that picks a production
  replaces the leftmost nonterminal by it (`Derived`).
* `CostarsShownExactly`: `DbSpec => []CostarsExact`, for any finite sets of players
  and films and any casts: the class imdb returns what its files were written from
  (`ReadsRight`), and imdb-test shows just the costars. The argument goes through
  the files. `SortedIs`: the keys of a finite set in a total order can be listed
  in that order, each once, so the files are well defined. `OffsetsAre` and
  `FileReads`: each record begins where the one before it ends, so no place in
  one record is a place in another, and what is read at a place is what
  was put there (`ActorFileSays`, `MovieFileSays`). `Skipped`: the divisions by two and
  four of `getMovieOffsets` and `getPlayers` find the padded places of the count and
  of the list for every length of a name; and `YearByte`: a signed byte gives back
  each year from 1772 to 2027. `BsearchFinds`: a binary search among ascending
  keys meets the one that is equal, if there is one. Together they are
  `CreditsAre` and `CastIs`, what `getCredits` and `getCast` return, and
  `FilesReadRight`. What is assumed of the constants (`NamesAssumption`): players
  and films are finite, the years fit in the byte, and every name has a length.
* `PathsQueueByLength` and `ShortestPathsFound`: `QueueByLength` and
  `ShortestPathFound` hold always, for any films, casts and `HOW_FAR`, since
  `ReadsRight` does in every state of six-degrees (`FilesKept`). The invariant
  (`QueueGood`): the paths in the queue are shortest paths to different players,
  all of whom have been seen, in the order of their lengths, which are L or L + 1;
  and whoever was seen is at the end of a path in the queue or is not the target
  and has only neighbours that were seen (`Expanded`). It is the last part that
  makes an answer "none" right: so everybody within L films of the source was seen
  (`SeenWithin`), and a target among them would be at the end of a path, which is
  longer. Within a turn of the loop the player whose films are gone through is
  an exception (`SearchGood`); the loops over films and casts are recursive
  functions, and `AddCastGood` and `AddCastsGood` are inductions over them.

### RecursionProofs: alignment and guesses

Both programs are recursive, and what they compute is proved by induction over
the size of their arguments. A recursive function in TLA+ is a CHOOSE: it has
the value its definition says if there is such a function at all. That is
proved once, for any function `F` that says what a call returns and which
depends on calls of smaller size only (`OnSmaller`): `RecursionExists`. Up to
each size there is a solution (`SolutionsExist`), two of them agree where both
are (`OneSolution`), and all together they are a function. The relation `P`
of arguments and values is what may be assumed of the smaller calls, and has
to be shown of the call; so existence and correctness are one induction.

* `ScoresOfAlignments`: `AlignSpec => []ScoreOfAlignment`, for any bases and
  strands of any length. It is the property that holds in spite of the shared
  dictionaries; the score is not optimal because of them (`align_optimal`).
  What a call does to memory is `Leads`: it returns a dictionary that there is,
  takes none away, and if in every dictionary the score was that of its strands
  (`Good`), then this is so afterwards, in those of the cache too. It has to be
  about all of them: the result that a call extends may be one the cache has for
  other strands. `ReturningLeads`, `ExtendedLeads`, `CachedLeads` and `AtLeads`
  are the steps, `StepsLead` is a call with its three recursive calls, each
  with the memory the one before left. `ScoreInFront`: a base more on both
  strands changes the score by what the pair is worth.
* `GuessesAreRanked`: `WhereSpec => []GuessesRanked`, for any finite set of
  stars, any number of distances and any ratings. `PairingsFirst`: a
  pairing is the first distance with some star, and a pairing of the other
  distances with the other stars. So `GuessingIsRight`: a call of `all-guesses`
  has every pairing, and has it once if no star is there twice, because the parts
  that are joined differ in their first star (`PartsApart`). `SortIsRight`:
  `partition` loses and doubles nothing and keeps both sides shorter than the
  list (`PartitionFacts`, `ShorterParts`), so `quicksort` ends with a list of the
  same length and elements in ascending order, equal ones included.

### Lemmas

The cardinality of the first n numbers, the place of an insertion and what
inserting does to a sequence of slots are lemmas of `SlotTableProofs`, used for
the factory, the database and the hash set.

### What stays with TLC

Liveness (`Terminates`, `ArticlesReturn`, `CallsReturn`), which the provers do not
do under fairness. That the aggregator's documents are fed to the parser one
after the other. The properties that the code violates, of course.

## 5. The plan

1. ConnPool, SlotTable, ConnLimiter, their runs and proofs - done.
2. Crawler - modelled, checked and proved, except for `Terminates`.
3. ArticleIndex - modelled, checked and proved.
4. Vector and HashSet, List and KeyedSet - modelled, checked and proved.
5. TSContainers - modelled, checked and proved, except for `CallsReturn`.
6. FeedParser and SequentialAggregator - modelled, checked and proved, except for
   `ArticlesReturn`.
7. MovieDatabase, SixDegrees, Rsg and Derivation - modelled, checked and proved.
8. Align and WhereAmI - modelled, checked and proved.

### Not modelled

* The libraries: streamtokenizer, url, urlconnection, expat, and the classes of
  assignments 1 and 2 that are not in the repository (`production.h`,
  `definition.h`, `path.h`, `imdb-utils.h`). They appear as what the code gets
  from them.
* `TSVectorNew`, `TSVectorDispose`, `TSHashSetNew`, `TSHashSetDispose`, which
  are for one thread by contract, and `TSVectorMap`, which has an empty body.
* `LoadStopWords` of assignment 6, which fills a set before any thread exists:
  in ArticleIndex the stop words are a constant. (`GetStopWords` of assignment 4
  is an action.)
* The lengths of buffers and what `strncat` does at their ends; the text that
  is printed: `printText` of rsg with its blanks and line ends, the answers to
  queries, the layout of lists.
* The geometry of where-am-i (`intersection-points`, `clumped-points`,
  `average-point`), on real numbers. With a single distance, `clumped-points`
  has half of a short list, and `average-point` may divide by a length of zero
  (`where-am-i.scm:261`); an abstract rating does not have this.
* Files that cannot be opened, and grammars, feeds and data files that are not
  in their format: the programs assert, stop, or read on. In particular
  nothing in rsg checks that `<start>` is defined; GrammarAssumption says
  that it is.
* A caller that reuses a vector: `imdb.h` says that `getCast` clears it when
  the film is not there, and `imdb.cc` never clears it and appends to what is in
  it (`GetCast` has what the code does). Every caller comes with an empty one.
* The year of a film is one signed byte: `ReadFilm` has the wrap-around, and
  `NamesAssumption` says that the years of the films fit. The counts in the files
  are shorts and the offsets ints: files that need more are not in the format.
* The answers of assignment 5, data and exams: no behaviour.
