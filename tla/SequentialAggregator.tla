------------------------ MODULE SequentialAggregator ------------------------
(***************************************************************************)
(* The aggregator of assn-4-rss-news-search-expat, which has one thread.   *)
(* ProcessFeed and ParseArticle call themselves when a server redirects    *)
(* them, and ParseArticle runs inside the callback for the end of an item, *)
(* so what the program is doing is a stack of calls; a call below the top  *)
(* keeps its connection.  A URL is the sequence of pieces of text that the *)
(* parser collected.                                                       *)
(***************************************************************************)
EXTENDS FeedParser

CONSTANTS FeedsFile,    \* the URLs in the feeds file
          Document,     \* Document[u]: the events in the feed at u
          Articles,     \* URLs at which there may be an article
          ServerOf,     \* ServerOf[u], for an article
          Answers,      \* Answers[u]: <<"ok">>, <<"no">> or <<"moved", v>>
          Text,         \* Text[u]: the tokens of the article at u
          Words,        \* well-formed words, stop words among them
          StopWordsFile,\* the lines of the file of stop words
          MaxFeedCalls, \* bound on nested calls of ProcessFeed, which follow
                        \* redirects in a circle for ever
          MaxCalls      \* bound on all nested calls, which none reaches

ASSUME FeedsAssumption == FeedsFile \in Seq(DOMAIN Answers)
ASSUME ArticleAssumption == /\ Articles \subseteq DOMAIN Answers
                            /\ Articles \subseteq DOMAIN ServerOf
                            /\ Articles \subseteq DOMAIN Text

VARIABLES stop,      \* the set of stop words
          nextFeed,  \* the next line of the feeds file; 0 before it is opened
          calls,     \* the calls in progress, the innermost last
          indexed,   \* indexedArticles: <<url, title>>
          idx,       \* idx[w]: the word's vector of [url, cnt]; no entry, no w
          tally      \* history: how often each word was read in each article

aggVars == <<feedVars, stop, nextFeed, calls, indexed, idx, tally>>

Call(fn, url, title) == [fn |-> fn, url |-> url, title |-> title, at |-> "begin", pos |-> 0]

Unstarted ==
    /\ stop = {}
    /\ nextFeed = 0
    /\ calls = <<>>
    /\ indexed = <<>>
    /\ idx = <<>>
    /\ tally = [wu \in Words \X Articles |-> 0]

AggInit == FeedInit /\ ~keeps /\ Unstarted

Top == Last(calls)
In(fn, at) == calls # <<>> /\ Top.fn = fn /\ Top.at = at
MovedTo(at) == [calls EXCEPT ![Len(calls)].at = at]
Returned == Front(calls)

\* What the server of u may answer; nobody answers for a URL that is none.
AnswersFor(u) == IF u \in DOMAIN Answers THEN Answers[u] ELSE {<<"no">>}

\* GetStopWords, the first thing main does.
GetStopWords ==
    /\ nextFeed = 0
    /\ stop' = ToSet(StopWordsFile)
    /\ nextFeed' = 1
    /\ UNCHANGED <<feedVars, calls, indexed, idx, tally>>

\* BuildIndices: the feeds one after the other.
BuildIndices ==
    /\ calls = <<>> /\ nextFeed \in DOMAIN FeedsFile
    /\ nextFeed' = nextFeed + 1
    /\ calls' = <<Call("ProcessFeed", FeedsFile[nextFeed], <<>>)>>
    /\ UNCHANGED <<feedVars, stop, indexed, idx, tally>>

\* ProcessFeed with the answer a.
ProcessFeed(a) ==
    /\ In("ProcessFeed", "begin")
    /\ \/ /\ a = <<"no">>
          /\ calls' = Returned
          /\ UNCHANGED feedVars
       \/ /\ a = <<"ok">>
          /\ calls' = MovedTo("reading")
          /\ PullAllNewsItems
       \/ /\ a[1] = "moved" /\ Len(calls) < MaxFeedCalls
          /\ calls' = Append(MovedTo("waiting"), Call("ProcessFeed", a[2], <<>>))
          /\ UNCHANGED feedVars
    /\ UNCHANGED <<stop, nextFeed, indexed, idx, tally>>

\* XML_Parse reports the next event; the end of an item calls ParseArticle.
Parse ==
    /\ In("ProcessFeed", "reading") /\ Len(read) < Len(Document[Top.url])
    /\ LET e == Document[Top.url][Len(read) + 1]
       IN  /\ Callback(e)
           /\ calls' = IF e = Event("end", "item")
                       THEN Append(calls, Call("ParseArticle", item.link, item.title))
                       ELSE calls
    /\ UNCHANGED <<stop, nextFeed, indexed, idx, tally>>

FeedRead ==
    /\ In("ProcessFeed", "reading") /\ Len(read) = Len(Document[Top.url])
    /\ calls' = Returned
    /\ UNCHANGED <<feedVars, stop, nextFeed, indexed, idx, tally>>

Server(url) == IF url \in Articles THEN ServerOf[url] ELSE "none"

\* ArticleCompare
SameArticle(a, b) == \/ a[1] = b[1]
                     \/ a[2] = b[2] /\ Server(a[1]) = Server(b[1])

\* Mutants: the search passes over the first article, goes by the URL, looks at
\* the last article only.
SeenAfterFirst(article) ==
    \E n \in DOMAIN indexed \ {1} : SameArticle(indexed[n], article)
SeenURL(article)  == \E n \in DOMAIN indexed : indexed[n][1] = article[1]
SeenLast(article) == indexed # <<>> /\ SameArticle(Last(indexed), article)

\* VectorSearch in indexedArticles
Seen(article) == \E n \in DOMAIN indexed : SameArticle(indexed[n], article)

\* ParseArticle up to the connection: a duplicate is blocked, any other
\* article counts as indexed from here on, whatever its server answers.
SearchArticle ==
    /\ In("ParseArticle", "begin")
    /\ IF Seen(<<Top.url, Top.title>>)
       THEN calls' = Returned /\ UNCHANGED indexed
       ELSE /\ calls' = MovedTo("connecting")
            /\ indexed' = Append(indexed, <<Top.url, Top.title>>)
    /\ UNCHANGED <<feedVars, stop, nextFeed, idx, tally>>

\* ... and with the answer a.
ParseArticle(a) ==
    /\ In("ParseArticle", "connecting")
    /\ calls' = CASE a = <<"no">> -> Returned
                  [] a = <<"ok">> -> MovedTo("scanning")
                  [] OTHER -> Append(MovedTo("waiting"), Call("ParseArticle", a[2], Top.title))
    /\ a[1] = "moved" => Len(calls) < MaxCalls
    /\ UNCHANGED <<feedVars, stop, nextFeed, indexed, idx, tally>>

\* URLConnectionDispose, when the call for the redirect has returned.
Return ==
    /\ calls # <<>> /\ Top.at = "waiting"
    /\ calls' = Returned
    /\ UNCHANGED <<feedVars, stop, nextFeed, indexed, idx, tally>>

\* indexWord: words worth it get an entry, the entry's vector gets the article
\* with a count of 1, or its count goes up.
WorthIndexing(w) == w \in Words \ stop

\* An article in the vector of a word.
WCNT(url) == [url |-> url, cnt |-> 0]
WCNTCompare(a, b) == a.url = b.url
WCNTCompareFreq(a, b) == b.cnt - a.cnt

\* Mutant: an article that is new to the word starts at zero.
CountedFromZero(vector, url) ==
    LET at == {n \in DOMAIN vector : WCNTCompare(vector[n], WCNT(url))}
    IN  IF at = {} THEN Append(vector, WCNT(url))
        ELSE [vector EXCEPT ![Min(at)].cnt = @ + 1]

Counted(vector, url) ==
    LET at == {n \in DOMAIN vector : WCNTCompare(vector[n], WCNT(url))}
    IN  IF at = {} THEN Append(vector, [WCNT(url) EXCEPT !.cnt = 1])
        ELSE [vector EXCEPT ![Min(at)].cnt = @ + 1]

IndexWord(w, url) ==
    IF ~WorthIndexing(w) THEN idx
    ELSE [v \in DOMAIN idx \cup {w} |->
            IF v # w THEN idx[v]
            ELSE Counted(IF w \in DOMAIN idx THEN idx[w] ELSE <<>>, url)]

\* One turn of the loop in ScanArticle.
ScanArticle ==
    /\ In("ParseArticle", "scanning")
    /\ LET u == Top.url
           w == Text[u][Top.pos + 1]
       IN  IF Top.pos = Len(Text[u])
           THEN calls' = Returned /\ UNCHANGED <<idx, tally>>
           ELSE /\ calls' = [calls EXCEPT ![Len(calls)].pos = @ + 1]
                /\ idx' = IndexWord(w, u)
                /\ tally' = IF w \in Words THEN [tally EXCEPT ![<<w, u>>] = @ + 1] ELSE tally
    /\ UNCHANGED <<feedVars, stop, nextFeed, indexed>>

\* QueryIndices, when all feeds have been processed.
Querying == calls = <<>> /\ nextFeed > Len(FeedsFile)

\* ProcessResponse for a word in the index: VectorSort with WCNTCompareFreq,
\* which may leave equal counts in any order.
ProcessResponse(w) ==
    /\ Querying /\ w \in DOMAIN idx
    /\ \E p \in Bijection(DOMAIN idx[w], DOMAIN idx[w]) :
          LET sorted == [n \in DOMAIN idx[w] |-> idx[w][p[n]]]
          IN  /\ \A m, n \in DOMAIN sorted : m < n => WCNTCompareFreq(sorted[m], sorted[n]) <= 0
              /\ idx' = [idx EXCEPT ![w] = sorted]
    /\ UNCHANGED <<feedVars, stop, nextFeed, calls, indexed, tally>>

AggNext == \/ GetStopWords
           \/ BuildIndices
           \/ \E a \in IF calls = <<>> THEN {} ELSE AnswersFor(Top.url) :
                 ProcessFeed(a) \/ ParseArticle(a)
           \/ Parse
           \/ FeedRead
           \/ SearchArticle
           \/ ScanArticle
           \/ Return
           \/ \E w \in Words : ProcessResponse(w)

AggSpec == AggInit /\ [][AggNext]_aggVars /\ WF_aggVars(AggNext)

-----------------------------------------------------------------------------
Reading == {n \in DOMAIN calls : calls[n].fn = "ParseArticle"}

\* No article is indexed twice: no two have one URL, or one title and one
\* server, however the feeds repeat and redirect to one another
\* (ParseArticle, ArticleCompare).
NoDuplicateArticles ==
    \A m, n \in DOMAIN indexed : m < n =>
        /\ indexed[m][1] # indexed[n][1]
        /\ indexed[m][2] = indexed[n][2] => Server(indexed[m][1]) # Server(indexed[n][1])

\* The index is exactly the words read: every word worth it, each article that
\* has it once, with the number of times it was read there, and nothing else;
\* sorting for a query changes none of it (indexWord, ProcessResponse).
IndexExact ==
    /\ \A w \in DOMAIN idx : w \in Words \ ToSet(StopWordsFile) /\ idx[w] # <<>>
    /\ \A w \in Words \ ToSet(StopWordsFile), u \in Articles :
          LET vector == IF w \in DOMAIN idx THEN idx[w] ELSE <<>>
              at == {n \in DOMAIN vector : vector[n].url = u}
          IN  IF tally[<<w, u>>] = 0 THEN at = {}
              ELSE Cardinality(at) = 1 /\ \A n \in at : vector[n].cnt = tally[<<w, u>>]

\* The search that blocks duplicates also ends every chain of redirects of an
\* article: no two of its URLs are on one server.  So an article that moved
\* within its server is never indexed (ParseArticle, called for the new URL).
RedirectsLeaveServers ==
    \A m, n \in Reading :
        m < n /\ calls[n].at # "begin" => Server(calls[m].url) # Server(calls[n].url)

\* ParseArticle returns, whatever the servers answer, redirects in a circle
\* included.
ArticlesReturn == Reading # {} ~> Reading = {}
=============================================================================
