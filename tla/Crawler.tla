------------------------------ MODULE Crawler ------------------------------
(***************************************************************************)
(* The threads of assn-6-rss-news-search: BuildIndices starts a thread for *)
(* each feed, ProcessFeed starts a thread for each news item of its feed   *)
(* while its own connection is open, and each parent joins its children    *)
(* before it goes on.  All of them connect through one ConnLimiter, whose  *)
(* steps are taken here with the callers' own.                             *)
(*                                                                         *)
(* What a thread reads from a connection is the environment's choice: a    *)
(* feed has the items ChildrenOf gives it, and a server answers 200, a     *)
(* redirect (at most MaxRedirects in a behaviour here, without limit in    *)
(* the code), or anything else.                                            *)
(***************************************************************************)
EXTENDS Integers, Sequences, FiniteSets

CONSTANTS
    Main,            \* the main thread
    Feeds,           \* the feed threads
    Articles,        \* the article threads
    ChildrenOf,      \* ChildrenOf[p]: the threads p starts, in order
    FirstServer,     \* FirstServer[w]: server of the URL w is started with
    RedirectsTo,     \* RedirectsTo[s]: servers that s redirects clients to
    MaxRedirects,    \* bound on the redirects of a behaviour
    \* and the constants of the limiter:
    Servers, Buckets, Hash, Rank, MaxTotalConns, MaxServerConns, BucketAlloc,
    NoServer, NoPointer

Workers == Feeds \cup Articles
Parents == {Main} \cup Feeds

ASSUME WorkersAssumption ==
    /\ IsFiniteSet(Workers)
    /\ Main \notin Workers
    /\ Feeds \cap Articles = {}
ASSUME ChildrenAssumption ==
    /\ ChildrenOf[Main] \in Seq(Feeds)
    /\ \A f \in Feeds : ChildrenOf[f] \in Seq(Articles)
    /\ \A p, q \in Parents :
          \A i \in DOMAIN ChildrenOf[p], j \in DOMAIN ChildrenOf[q] :
              ChildrenOf[p][i] = ChildrenOf[q][j] => p = q /\ i = j
ASSUME ServerAssumption   == FirstServer \in [Workers -> Servers]
ASSUME RedirectAssumption == /\ RedirectsTo \in [Servers -> SUBSET Servers]
                             /\ MaxRedirects \in Nat
\* What ConnLimiter assumes of its constants.
ASSUME LimiterAssumption  == /\ MaxTotalConns \in Nat /\ MaxServerConns \in Nat
                             /\ Hash \in [Servers -> Buckets]
                             /\ Rank \in [Servers -> Nat]
                             /\ \A r, s \in Servers : Rank[r] = Rank[s] => r = s
                             /\ BucketAlloc \in Nat \ {0}
                             /\ NoServer \notin Servers

VARIABLES
    live, totSem, table, pc, target, scs, entered,   \* of the limiter
    task,      \* task[x]: where thread x is in the functions modelled here
    started,   \* started[p]: length of the vector of p's threads object
    joined,    \* joined[p]: how many of them p has joined
    url,       \* url[w]: server of the URL w is to fetch
    hops,      \* redirects so far
    again,     \* again[w]: redirectUrl # NULL
    freed,     \* freed[w]: how often the argument of w was freed
    crashed    \* undefined behaviour ended the program

limiterVars == <<live, totSem, table, pc, target, scs, entered>>
crawlVars   == <<task, started, joined, url, hops, again, freed, crashed>>
vars        == <<limiterVars, crawlVars>>

L == INSTANCE ConnLimiter WITH Threads <- Workers

Tasks == {"unborn", "failed", "born", "connecting", "starting", "joining",
          "close", "closing", "disposeFactory", "freeFeeds", "query", "done"}

TypeOK ==
    /\ L!TypeOK
    /\ task \in [Workers \cup {Main} -> Tasks]
    /\ started \in [Parents -> Nat]
    /\ joined \in [Parents -> Nat]
    /\ url \in [Workers -> Servers]
    /\ hops \in 0..MaxRedirects
    /\ again \in [Workers -> BOOLEAN]
    /\ freed \in [Workers -> Nat]
    /\ crashed \in BOOLEAN

\* BuildIndices has created the thread object and the factory.
Init ==
    /\ L!Init
    /\ task = [x \in Workers \cup {Main} |-> IF x = Main THEN "starting" ELSE "unborn"]
    /\ started = [p \in Parents |-> 0]
    /\ joined = [p \in Parents |-> 0]
    /\ url = FirstServer
    /\ hops = 0
    /\ again = [w \in Workers |-> FALSE]
    /\ freed = [w \in Workers |-> 0]
    /\ crashed = FALSE

At(x, label)   == ~crashed /\ task[x] = label
Goto(x, label) == task' = [task EXCEPT ![x] = label]

-----------------------------------------------------------------------------
(***************************************************************************)
(* threadutils.c, for the threads object of parent p.                      *)
(***************************************************************************)
\* pthread_create can fail: that is printed, and the thread is appended all
\* the same, with a thread id nobody has initialized.
StartThread(p) ==
    /\ At(p, "starting")
    /\ started[p] < Len(ChildrenOf[p])
    /\ \E outcome \in {"born", "failed"} :
           Goto(ChildrenOf[p][started[p] + 1], outcome)
    /\ started' = [started EXCEPT ![p] = @ + 1]
    /\ UNCHANGED <<limiterVars, joined, url, hops, again, freed, crashed>>

\* Mutant: BuildIndices does not join its threads.
StopStartingUnjoined(p) ==
    /\ At(p, "starting")
    /\ started[p] = Len(ChildrenOf[p])
    /\ Goto(p, IF p = Main THEN "disposeFactory" ELSE "joining")
    /\ UNCHANGED <<limiterVars, started, joined, url, hops, again, freed, crashed>>

\* No more feeds in the file, or items in the feed: ThreadUtilsJoin.
StopStarting(p) ==
    /\ At(p, "starting")
    /\ started[p] = Len(ChildrenOf[p])
    /\ Goto(p, "joining")
    /\ UNCHANGED <<limiterVars, started, joined, url, hops, again, freed, crashed>>

Joinable(p) == At(p, "joining") /\ joined[p] < started[p]

JoinNext(p) == joined' = [joined EXCEPT ![p] = @ + 1]

\* Mutant: the thread is detached, so that its join returns at once.
JoinThreadDetached(p) ==
    /\ Joinable(p)
    /\ task[ChildrenOf[p][joined[p] + 1]] # "failed"
    /\ JoinNext(p)
    /\ UNCHANGED <<limiterVars, task, started, url, hops, again, freed, crashed>>

\* pthread_join of a thread that was created waits for its end.
JoinThread(p) ==
    /\ Joinable(p)
    /\ task[ChildrenOf[p][joined[p] + 1]] = "done"
    /\ JoinNext(p)
    /\ UNCHANGED <<limiterVars, task, started, url, hops, again, freed, crashed>>

\* With an uninitialized id it is undefined: an error is returned and
\* printed, or the program ends.
JoinGarbage(p) ==
    /\ Joinable(p)
    /\ task[ChildrenOf[p][joined[p] + 1]] = "failed"
    /\ \/ JoinNext(p) /\ UNCHANGED crashed
       \/ crashed' = TRUE /\ UNCHANGED joined
    /\ UNCHANGED <<limiterVars, task, started, url, hops, again, freed>>

\* VectorDispose of the threads frees the argument of each.
Disposed(p) ==
    [w \in Workers |->
        freed[w] + Cardinality({i \in 1..started[p] : ChildrenOf[p][i] = w})]

-----------------------------------------------------------------------------
(***************************************************************************)
(* BuildIndices after its loop: the factory goes before the arguments.     *)
(***************************************************************************)
MainJoined ==
    /\ At(Main, "joining")
    /\ joined[Main] = started[Main]
    /\ Goto(Main, "disposeFactory")
    /\ UNCHANGED <<limiterVars, started, joined, url, hops, again, freed, crashed>>

DisposeFactory ==
    /\ At(Main, "disposeFactory")
    /\ L!FactoryDispose
    /\ Goto(Main, "freeFeeds")
    /\ UNCHANGED <<started, joined, url, hops, again, freed, crashed>>

FreeFeeds ==
    /\ At(Main, "freeFeeds")
    /\ freed' = Disposed(Main)
    /\ Goto(Main, "query")
    /\ UNCHANGED <<limiterVars, started, joined, url, hops, again, crashed>>

-----------------------------------------------------------------------------
(***************************************************************************)
(* ProcessFeed and ParseArticle.                                           *)
(***************************************************************************)
\* ParseArticle of an article that was seen returns before it connects; which
\* articles were seen is not this module's concern.
IgnoreSeen(a) ==
    /\ At(a, "born")
    /\ Goto(a, "done")
    /\ UNCHANGED <<limiterVars, started, joined, url, hops, again, freed, crashed>>

Connect(w) ==
    /\ At(w, "born")
    /\ L!CallNew(w, url[w])
    /\ Goto(w, "connecting")
    /\ again' = [again EXCEPT ![w] = FALSE]
    /\ UNCHANGED <<started, joined, url, hops, freed, crashed>>

\* 200: a feed's items are pulled with its connection open; an article is
\* scanned.
AnswerOK(w) ==
    /\ At(w, "connecting") /\ pc[w] = "open"
    /\ Goto(w, IF w \in Feeds THEN "starting" ELSE "close")
    /\ UNCHANGED <<limiterVars, started, joined, url, hops, again, freed, crashed>>

\* 301, 302: the new URL is kept until this connection is disposed of.
AnswerRedirect(w) ==
    /\ At(w, "connecting") /\ pc[w] = "open"
    /\ hops < MaxRedirects
    /\ \E s \in RedirectsTo[url[w]] : url' = [url EXCEPT ![w] = s]
    /\ hops' = hops + 1
    /\ again' = [again EXCEPT ![w] = TRUE]
    /\ Goto(w, "close")
    /\ UNCHANGED <<limiterVars, started, joined, freed, crashed>>

\* 0 and every other code.
AnswerOther(w) ==
    /\ At(w, "connecting") /\ pc[w] = "open"
    /\ Goto(w, "close")
    /\ UNCHANGED <<limiterVars, started, joined, url, hops, again, freed, crashed>>

\* Mutant: PullAllNewsItems disposes of its threads without joining them.
FeedUnjoined(f) ==
    /\ At(f, "joining")
    /\ freed' = Disposed(f)
    /\ Goto(f, "close")
    /\ UNCHANGED <<limiterVars, started, joined, url, hops, again, crashed>>

\* The end of PullAllNewsItems: the articles' arguments are freed.
FeedJoined(f) ==
    /\ At(f, "joining")
    /\ joined[f] = started[f]
    /\ freed' = Disposed(f)
    /\ Goto(f, "close")
    /\ UNCHANGED <<limiterVars, started, joined, url, hops, again, crashed>>

Close(w) ==
    /\ At(w, "close")
    /\ L!CallDispose(w)
    /\ Goto(w, "closing")
    /\ UNCHANGED <<started, joined, url, hops, again, freed, crashed>>

\* LimitedURLConnectionDispose has returned: the redirect, or the end.
Closed(w) ==
    /\ At(w, "closing") /\ pc[w] = "idle"
    /\ Goto(w, IF again[w] THEN "born" ELSE "done")
    /\ UNCHANGED <<limiterVars, started, joined, url, hops, again, freed, crashed>>

InLimiter(w) == ~crashed /\ L!InFactory(w) /\ UNCHANGED crawlVars

-----------------------------------------------------------------------------
ParentStep(p) == \/ StartThread(p)
                 \/ StopStarting(p)
                 \/ JoinThread(p)
                 \/ JoinGarbage(p)

WorkerStep(w) == \/ Connect(w)
                 \/ AnswerOK(w)
                 \/ AnswerRedirect(w)
                 \/ AnswerOther(w)
                 \/ Close(w)
                 \/ Closed(w)
                 \/ InLimiter(w)

MainStep    == ParentStep(Main) \/ MainJoined \/ DisposeFactory \/ FreeFeeds
FeedStep(f) == ParentStep(f) \/ FeedJoined(f) \/ WorkerStep(f)
ArticleStep(a) == IgnoreSeen(a) \/ WorkerStep(a)

Next == \/ MainStep
        \/ \E f \in Feeds : FeedStep(f)
        \/ \E a \in Articles : ArticleStep(a)

\* Every thread that can take a step takes one in the end.
Fairness == /\ WF_vars(MainStep)
            /\ \A f \in Feeds : WF_vars(FeedStep(f))
            /\ \A a \in Articles : WF_vars(ArticleStep(a))

Spec     == Init /\ [][Next]_vars
FairSpec == Spec /\ Fairness

-----------------------------------------------------------------------------
Ended == {"unborn", "failed", "done"}

(***************************************************************************)
(* "Join the threads before luf is disposed": the factory, which lives on  *)
(* BuildIndices' stack, and the database the queries read are left to the  *)
(* main thread only when every thread is at its end, however feeds and     *)
(* articles interleave, redirect, or fail to start.                        *)
(***************************************************************************)
NoThreadLeft == \A w \in Workers : task[w] \in Ended /\ pc[w] = "idle"

FactoryOutlivesThreads ==
    ~live \/ task[Main] \in {"disposeFactory", "freeFeeds", "query"} => NoThreadLeft

(***************************************************************************)
(* The argument of a thread is freed after the thread is done with it, and *)
(* never twice; when the queries begin every argument has been freed.      *)
(***************************************************************************)
ArgumentsFreedOnce ==
    /\ \A w \in Workers : freed[w] <= (IF task[w] \in Ended THEN 1 ELSE 0)
    /\ task[Main] = "query" =>
          \A w \in Workers : freed[w] = (IF task[w] = "unborn" THEN 0 ELSE 1)

(***************************************************************************)
(* The threads use the factory as ConnLimiter assumes: one connection at a *)
(* time, disposed of once, and no call after the factory is disposed of.   *)
(***************************************************************************)
UsesLimiter == L!Spec

(***************************************************************************)
(* BuildIndices reads each of the feeds and returns: the queries begin.    *)
(* (Unless pthread_join is given garbage; a server entered twice is left   *)
(* out because it destroys a semaphore threads may wait on.)               *)
(***************************************************************************)
Terminates ==
    [](~crashed /\ \A s \in Servers : entered[s] <= 1) => <>(task[Main] = "query")
=============================================================================
