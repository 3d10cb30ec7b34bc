--------------------------- MODULE CrawlerProofs ---------------------------
(***************************************************************************)
(* Proofs about Crawler, for any feeds, items, redirects and limits, and   *)
(* about the thread-safe containers its threads share, for any threads,    *)
(* elements, positions, relation Same and number of calls.                 *)
(***************************************************************************)
EXTENDS Crawler, TSContainers, TLAPS, FiniteSetTheorems, WellFoundedInduction

-----------------------------------------------------------------------------
(***************************************************************************)
(* The inductive invariant.                                                *)
(***************************************************************************)
Child(p, i) == ChildrenOf[p][i]

Orphan(w) == \A p \in Parents : \A i \in DOMAIN ChildrenOf[p] : Child(p, i) # w

\* What the crawl reads of the limiter has its type too.
CrawlTypeOK ==
    /\ live \in BOOLEAN
    /\ pc \in [Workers -> L!PCs]
    /\ task \in [Workers \cup {Main} -> Tasks]
    /\ started \in [Parents -> Nat]
    /\ joined \in [Parents -> Nat]
    /\ url \in [Workers -> Servers]
    /\ hops \in 0..MaxRedirects
    /\ again \in [Workers -> BOOLEAN]
    /\ freed \in [Workers -> Nat]
    /\ crashed \in BOOLEAN

\* Each thread runs the function it was started with.
OwnFunction ==
    /\ task[Main] \in {"starting", "joining", "disposeFactory", "freeFeeds", "query"}
    /\ \A f \in Feeds : task[f] \notin {"disposeFactory", "freeFeeds", "query"}
    /\ \A a \in Articles : task[a] \notin {"starting", "joining", "disposeFactory",
                                           "freeFeeds", "query"}

Connecting == {"waitTotal", "lookup", "enter", "relookup", "waitServer", "open", "aborted"}
Disposing  == {"postTotal", "lookupPost", "postServer", "idle", "aborted"}

\* Where a thread is inside the factory follows from where it is outside.
PlaceAgrees ==
    \A w \in Workers :
        /\ task[w] \in {"unborn", "failed", "born", "done"} => pc[w] = "idle"
        /\ task[w] = "connecting" => pc[w] \in Connecting
        /\ task[w] \in {"starting", "joining", "close"} => pc[w] = "open"
        /\ task[w] = "closing" => pc[w] \in Disposing

\* The threads are started and joined in the order of the vector.
ForkedInOrder ==
    /\ \A p \in Parents : /\ started[p] <= Len(ChildrenOf[p])
                          /\ joined[p] <= started[p]
                          /\ \A i \in DOMAIN ChildrenOf[p] :
                                /\ task[Child(p, i)] = "unborn" <=> i > started[p]
                                /\ i <= joined[p] => task[Child(p, i)] \in Ended
    /\ \A w \in Workers : Orphan(w) => task[w] = "unborn"

\* A parent that is past its join has joined them all, and a feed that has
\* yet to read its items has started none.
ParentPhase ==
    /\ task[Main] \in {"disposeFactory", "freeFeeds", "query"} => joined[Main] = started[Main]
    /\ \A f \in Feeds :
          /\ task[f] \in {"unborn", "failed", "born", "connecting"} => started[f] = 0
          /\ task[f] \in {"close", "closing", "done"} => joined[f] = started[f]
          /\ again[f] => started[f] = 0
    /\ \A w \in Workers : task[w] \in {"connecting", "starting", "joining"} => ~again[w]

\* The arguments p owns have been given back.
HasFreed(p) == task[p] \in {"close", "closing", "done", "query"}

FreedByParent ==
    /\ \A p \in Parents : \A i \in DOMAIN ChildrenOf[p] :
          freed[Child(p, i)] = (IF HasFreed(p) /\ i <= started[p] THEN 1 ELSE 0)
    /\ \A w \in Workers : Orphan(w) => freed[w] = 0

FactoryPhase == live <=> task[Main] \in {"starting", "joining", "disposeFactory"}

CrawlInv == /\ CrawlTypeOK
            /\ OwnFunction
            /\ PlaceAgrees
            /\ ForkedInOrder
            /\ ParentPhase
            /\ FreedByParent
            /\ FactoryPhase

-----------------------------------------------------------------------------
(* Main and the feeds start feeds and articles, and each thread once.       *)
LEMMA ChildFacts ==
  /\ Main \in Parents /\ Main \notin Workers
  /\ Feeds \subseteq Parents /\ Feeds \subseteq Workers /\ Articles \subseteq Workers
  /\ Feeds \cap Articles = {} /\ Main \notin Feeds
  /\ \A p \in Parents :
        /\ Len(ChildrenOf[p]) \in Nat
        /\ DOMAIN ChildrenOf[p] = 1..Len(ChildrenOf[p])
        /\ \A i \in DOMAIN ChildrenOf[p] :
              /\ Child(p, i) \in Workers
              /\ p = Main => Child(p, i) \in Feeds
              /\ p \in Feeds => Child(p, i) \in Articles
  /\ \A p, q \in Parents : \A i \in DOMAIN ChildrenOf[p], j \in DOMAIN ChildrenOf[q] :
        Child(p, i) = Child(q, j) => p = q /\ i = j
<1>1. ASSUME NEW p \in Parents
      PROVE  /\ Len(ChildrenOf[p]) \in Nat
             /\ DOMAIN ChildrenOf[p] = 1..Len(ChildrenOf[p])
             /\ \A i \in DOMAIN ChildrenOf[p] :
                   /\ Child(p, i) \in Workers
                   /\ p = Main => Child(p, i) \in Feeds
                   /\ p \in Feeds => Child(p, i) \in Articles
  <2>1. CASE p = Main
    BY <2>1, ChildrenAssumption, WorkersAssumption DEF Child, Workers
  <2>2. CASE p \in Feeds
    BY <2>2, ChildrenAssumption, WorkersAssumption DEF Child, Workers
  <2> QED BY <1>1, <2>1, <2>2 DEF Parents
<1> QED BY <1>1, ChildrenAssumption, WorkersAssumption DEF Parents, Workers, Child

(* VectorDispose frees the argument of each thread that was started, once.  *)
LEMMA DisposedCounts ==
  ASSUME CrawlTypeOK, NEW p \in Parents, started[p] <= Len(ChildrenOf[p])
  PROVE  /\ Disposed(p) \in [Workers -> Nat]
         /\ \A i \in DOMAIN ChildrenOf[p] :
               Disposed(p)[Child(p, i)]
                  = freed[Child(p, i)] + (IF i <= started[p] THEN 1 ELSE 0)
         /\ \A w \in Workers : (\A i \in DOMAIN ChildrenOf[p] : Child(p, i) # w)
                                  => Disposed(p)[w] = freed[w]
<1> DEFINE Of(w) == {i \in 1..started[p] : ChildrenOf[p][i] = w}
<1>1. started[p] \in Nat /\ DOMAIN ChildrenOf[p] = 1..Len(ChildrenOf[p])
      /\ Len(ChildrenOf[p]) \in Nat
  BY ChildFacts DEF CrawlTypeOK
<1>2. ASSUME NEW w \in Workers PROVE Cardinality(Of(w)) \in Nat
  <2>1. IsFiniteSet(1..started[p])
    BY <1>1, FS_Interval
  <2>2. IsFiniteSet(Of(w))
    BY <2>1, FS_Subset
  <2> QED BY <2>2, FS_CardinalityType
<1>3. Disposed(p) = [w \in Workers |-> freed[w] + Cardinality(Of(w))]
  BY DEF Disposed
<1>4. ASSUME NEW i \in DOMAIN ChildrenOf[p]
      PROVE  Cardinality(Of(Child(p, i))) = IF i <= started[p] THEN 1 ELSE 0
  <2>1. CASE i <= started[p]
    <3>1. Of(Child(p, i)) = {i}
      BY <1>1, <2>1, ChildFacts DEF Child
    <3> QED BY <2>1, <3>1, FS_Singleton
  <2>2. CASE ~(i <= started[p])
    <3>1. Of(Child(p, i)) = {}
      BY <1>1, <2>2, ChildFacts DEF Child
    <3> QED BY <2>2, <3>1, FS_EmptySet
  <2> QED BY <2>1, <2>2
<1>5. ASSUME NEW w \in Workers, \A i \in DOMAIN ChildrenOf[p] : Child(p, i) # w
      PROVE  Cardinality(Of(w)) = 0
  <2>1. Of(w) = {}
    BY <1>1, <1>5 DEF Child
  <2> QED BY <2>1, FS_EmptySet
<1> HIDE DEF Of
<1>6. freed \in [Workers -> Nat] /\ \A i \in DOMAIN ChildrenOf[p] : Child(p, i) \in Workers
  BY ChildFacts DEF CrawlTypeOK
<1> QED BY <1>2, <1>3, <1>4, <1>5, <1>6

(* A step inside the factory moves the thread that takes it, and nobody     *)
(* else, along the calls.                                                   *)
LEMMA LimiterMoves ==
  ASSUME NEW w \in Workers, L!InFactory(w), pc \in [Workers -> L!PCs]
  PROVE  /\ live' = live
         /\ pc' \in [Workers -> L!PCs]
         /\ \A v \in Workers \ {w} : pc'[v] = pc[v]
         /\ \/ pc[w] \in Connecting \ {"open", "aborted"} /\ pc'[w] \in Connecting
            \/ pc[w] \in Disposing \ {"idle", "aborted"} /\ pc'[w] \in Disposing
<1>1. PICK label \in L!PCs :
         /\ pc' = [pc EXCEPT ![w] = label]
         /\ live' = live
         /\ \/ pc[w] \in Connecting \ {"open", "aborted"} /\ label \in Connecting
            \/ pc[w] \in Disposing \ {"idle", "aborted"} /\ label \in Disposing
  BY DEF L!InFactory, L!WaitTotal, L!LookupFound, L!LookupMissed, L!Enter, L!Relookup,
     L!WaitServer, L!PostTotal, L!LookupPost, L!PostServer, L!LookupOrAbort, L!Goto,
     L!At, L!PCs, Connecting, Disposing
<1> QED BY <1>1

(* BuildIndices starts with every thread unborn.                            *)
LEMMA CrawlInit == Init => CrawlInv
<1> SUFFICES ASSUME Init PROVE CrawlInv
  OBVIOUS
<1>1. CrawlTypeOK
  <2>1. /\ pc \in [Workers -> L!PCs]
        /\ task \in [Workers \cup {Main} -> Tasks]
        /\ started \in [Parents -> Nat] /\ joined \in [Parents -> Nat]
        /\ freed \in [Workers -> Nat]
    BY DEF Init, L!Init, Tasks, L!PCs
  <2>2. live \in BOOLEAN /\ crashed \in BOOLEAN /\ again \in [Workers -> BOOLEAN]
    BY DEF Init, L!Init
  <2>3. url \in [Workers -> Servers] /\ hops \in 0..MaxRedirects
    BY ServerAssumption, RedirectAssumption DEF Init
  <2> QED BY <2>1, <2>2, <2>3 DEF CrawlTypeOK
<1>2. task[Main] = "starting" /\ \A w \in Workers : task[w] = "unborn" /\ pc[w] = "idle"
  BY ChildFacts DEF Init, L!Init
<1>3. OwnFunction /\ PlaceAgrees /\ FactoryPhase
  BY <1>2, ChildFacts DEF Init, L!Init, OwnFunction, PlaceAgrees, FactoryPhase
<1>4. ForkedInOrder
  BY <1>2, ChildFacts DEF Init, ForkedInOrder, Ended
<1>5. ParentPhase
  BY <1>2, ChildFacts DEF Init, ParentPhase
<1>6. FreedByParent
  BY <1>2, ChildFacts DEF Init, FreedByParent, HasFreed
<1> QED BY <1>1, <1>3, <1>4, <1>5, <1>6 DEF CrawlInv

-----------------------------------------------------------------------------
(* A thread that has begun and goes on disturbs neither the order in which  *)
(* the threads are started and joined nor the arguments of the others.      *)
LEMMA WorkerGoesOn ==
  ASSUME CrawlInv, NEW w \in Workers, NEW label \in Tasks,
         task[w] \notin Ended, label \notin {"unborn", "failed"},
         label \notin {"disposeFactory", "freeFeeds", "query"},
         label \in {"starting", "joining"} => w \in Feeds,
         task' = [task EXCEPT ![w] = label],
         UNCHANGED <<live, started, joined>>
  PROVE  /\ task' \in [Workers \cup {Main} -> Tasks]
         /\ OwnFunction'
         /\ ForkedInOrder'
         /\ FactoryPhase'
         /\ task'[w] = label
         /\ \A x \in Workers \cup {Main} : x # w => task'[x] = task[x]
<1>1. /\ task' \in [Workers \cup {Main} -> Tasks]
      /\ task'[w] = label
      /\ \A x \in Workers \cup {Main} : x # w => task'[x] = task[x]
  BY DEF CrawlInv, CrawlTypeOK
<1>2. w # Main /\ Parents \subseteq Workers \cup {Main}
  BY ChildFacts DEF Parents
<1>3. OwnFunction' /\ FactoryPhase'
  BY <1>1, <1>2, ChildFacts DEF CrawlInv, OwnFunction, FactoryPhase
<1>4. ForkedInOrder'
  <2>1. ASSUME NEW p \in Parents, NEW i \in DOMAIN ChildrenOf[p]
        PROVE  /\ task'[Child(p, i)] = "unborn" <=> i > started[p]
               /\ i <= joined[p] => task'[Child(p, i)] \in Ended
    BY <1>1, ChildFacts DEF CrawlInv, ForkedInOrder, Ended
  <2>2. ASSUME NEW v \in Workers, Orphan(v) PROVE task'[v] = "unborn"
    BY <1>1, <2>2 DEF CrawlInv, ForkedInOrder, Ended
  <2> QED BY <2>1, <2>2 DEF CrawlInv, ForkedInOrder
<1> QED BY <1>1, <1>3, <1>4

(* What a thread frees that goes on without freeing anything.               *)
LEMMA FreesNothing ==
  ASSUME CrawlInv, NEW w \in Workers,
         \A x \in Workers \cup {Main} : x # w => task'[x] = task[x],
         w \in Feeds => started[w] = 0 \/ (HasFreed(w)' <=> HasFreed(w)),
         UNCHANGED <<started, freed>>
  PROVE  FreedByParent'
<1>1. ASSUME NEW p \in Parents, NEW i \in DOMAIN ChildrenOf[p]
      PROVE  freed[Child(p, i)] = (IF HasFreed(p)' /\ i <= started[p] THEN 1 ELSE 0)
  <2>1. freed[Child(p, i)] = (IF HasFreed(p) /\ i <= started[p] THEN 1 ELSE 0)
    BY DEF CrawlInv, FreedByParent
  <2>2. CASE p = w
    <3>1. w \in Feeds /\ i \in 1..Len(ChildrenOf[p])
      BY <2>2, ChildFacts DEF Parents
    <3>2. CASE started[w] = 0
      BY <2>1, <2>2, <3>1, <3>2, ChildFacts
    <3>3. CASE HasFreed(w)' <=> HasFreed(w)
      BY <2>1, <2>2, <3>3
    <3> QED BY <3>1, <3>2, <3>3
  <2>3. CASE p # w
    <3>1. p \in Workers \cup {Main}
      BY ChildFacts DEF Parents
    <3> QED BY <2>1, <2>3, <3>1 DEF HasFreed
  <2> QED BY <2>2, <2>3
<1> QED BY <1>1 DEF CrawlInv, FreedByParent

(* Connect, the answers, Close and Closed.                                  *)
LEMMA ConnectKeeps ==
  ASSUME CrawlInv, NEW w \in Workers, Connect(w) PROVE CrawlInv'
<1>1. /\ task[w] = "born" /\ pc[w] = "idle"
      /\ task' = [task EXCEPT ![w] = "connecting"]
      /\ pc' = [pc EXCEPT ![w] = "waitTotal"]
      /\ again' = [again EXCEPT ![w] = FALSE]
      /\ UNCHANGED <<live, started, joined, url, hops, freed, crashed>>
  BY DEF Connect, At, Goto, L!CallNew, L!At, L!Goto
<1>2. /\ task' \in [Workers \cup {Main} -> Tasks]
      /\ OwnFunction' /\ ForkedInOrder' /\ FactoryPhase'
      /\ task'[w] = "connecting"
      /\ \A x \in Workers \cup {Main} : x # w => task'[x] = task[x]
  BY <1>1, WorkerGoesOn DEF Tasks, Ended
<1>3. CrawlTypeOK'
  BY <1>1, <1>2 DEF CrawlInv, CrawlTypeOK, L!PCs
<1>4. PlaceAgrees'
  BY <1>1, <1>2 DEF CrawlInv, CrawlTypeOK, PlaceAgrees, Connecting
<1>5. w \in Feeds => started[w] = 0
  BY <1>1 DEF CrawlInv, ParentPhase
<1>6. ParentPhase'
  BY <1>1, <1>2, <1>5, ChildFacts DEF CrawlInv, CrawlTypeOK, ParentPhase
<1>7. FreedByParent'
  BY <1>1, <1>2, <1>5, FreesNothing
<1> QED BY <1>2, <1>3, <1>4, <1>6, <1>7 DEF CrawlInv

LEMMA AnswerKeeps ==
  ASSUME CrawlInv, NEW w \in Workers, AnswerOK(w) \/ AnswerRedirect(w) \/ AnswerOther(w)
  PROVE  CrawlInv'
<1>1. /\ task[w] = "connecting" /\ pc[w] = "open" /\ again[w] = FALSE
      /\ w \in Feeds => started[w] = 0
  BY DEF AnswerOK, AnswerRedirect, AnswerOther, At, CrawlInv, CrawlTypeOK, ParentPhase
<1>2. PICK label \in {"starting", "close"} :
         /\ task' = [task EXCEPT ![w] = label]
         /\ label = "starting" => w \in Feeds /\ UNCHANGED again
         /\ \E a \in BOOLEAN : again' = [again EXCEPT ![w] = a]
         /\ url' \in [Workers -> Servers] /\ hops' \in 0..MaxRedirects
         /\ UNCHANGED <<live, pc, started, joined, freed, crashed>>
  <2>1. again = [again EXCEPT ![w] = FALSE]
    BY <1>1 DEF CrawlInv, CrawlTypeOK
  <2>2. CASE AnswerOK(w)
    BY <2>1, <2>2 DEF AnswerOK, Goto, limiterVars, CrawlInv, CrawlTypeOK
  <2>3. CASE AnswerRedirect(w)
    <3>1. hops' \in 0..MaxRedirects
      BY <2>3, RedirectAssumption DEF AnswerRedirect, CrawlInv, CrawlTypeOK
    <3>2. url[w] \in Servers
      BY DEF CrawlInv, CrawlTypeOK
    <3>3. url' \in [Workers -> Servers]
      BY <2>3, <3>2, RedirectAssumption DEF AnswerRedirect, CrawlInv, CrawlTypeOK
    <3> QED BY <2>3, <3>1, <3>3 DEF AnswerRedirect, Goto, limiterVars
  <2>4. CASE AnswerOther(w)
    BY <2>1, <2>4 DEF AnswerOther, Goto, limiterVars, CrawlInv, CrawlTypeOK
  <2> QED BY <2>2, <2>3, <2>4
<1>3. /\ task' \in [Workers \cup {Main} -> Tasks]
      /\ OwnFunction' /\ ForkedInOrder' /\ FactoryPhase'
      /\ task'[w] = label
      /\ \A x \in Workers \cup {Main} : x # w => task'[x] = task[x]
  BY <1>1, <1>2, WorkerGoesOn DEF Tasks, Ended
<1>4. CrawlTypeOK'
  BY <1>2, <1>3 DEF CrawlInv, CrawlTypeOK
<1>5. PlaceAgrees'
  BY <1>1, <1>2, <1>3 DEF CrawlInv, PlaceAgrees
<1>6. ParentPhase'
  <2>1. w \in Feeds => joined[w] = started[w]
    BY <1>1, ChildFacts DEF CrawlInv, CrawlTypeOK, ForkedInOrder
  <2> QED BY <1>1, <1>2, <1>3, <2>1, ChildFacts DEF CrawlInv, CrawlTypeOK, ParentPhase
<1>7. FreedByParent'
  BY <1>1, <1>2, <1>3, FreesNothing
<1> QED BY <1>3, <1>4, <1>5, <1>6, <1>7 DEF CrawlInv

LEMMA CloseKeeps ==
  ASSUME CrawlInv, NEW w \in Workers, Close(w) PROVE CrawlInv'
<1>1. /\ task[w] = "close"
      /\ task' = [task EXCEPT ![w] = "closing"]
      /\ pc' = [pc EXCEPT ![w] = "postTotal"]
      /\ UNCHANGED <<live, started, joined, url, hops, again, freed, crashed>>
  BY DEF Close, At, Goto, L!CallDispose, L!Goto
<1>2. /\ task' \in [Workers \cup {Main} -> Tasks]
      /\ OwnFunction' /\ ForkedInOrder' /\ FactoryPhase'
      /\ task'[w] = "closing"
      /\ \A x \in Workers \cup {Main} : x # w => task'[x] = task[x]
  BY <1>1, WorkerGoesOn DEF Tasks, Ended
<1>3. CrawlTypeOK'
  BY <1>1, <1>2 DEF CrawlInv, CrawlTypeOK, L!PCs
<1>4. PlaceAgrees'
  BY <1>1, <1>2 DEF CrawlInv, CrawlTypeOK, PlaceAgrees, Disposing
<1>5. ParentPhase'
  BY <1>1, <1>2, ChildFacts DEF CrawlInv, ParentPhase
<1>6. FreedByParent'
  BY <1>1, <1>2, FreesNothing DEF HasFreed
<1> QED BY <1>2, <1>3, <1>4, <1>5, <1>6 DEF CrawlInv

LEMMA ClosedKeeps ==
  ASSUME CrawlInv, NEW w \in Workers, Closed(w) PROVE CrawlInv'
<1>1. /\ task[w] = "closing" /\ pc[w] = "idle"
      /\ task' = [task EXCEPT ![w] = IF again[w] THEN "born" ELSE "done"]
      /\ UNCHANGED <<live, pc, started, joined, url, hops, again, freed, crashed>>
  BY DEF Closed, At, Goto, limiterVars
<1> DEFINE label == IF again[w] THEN "born" ELSE "done"
<1>2. /\ task' \in [Workers \cup {Main} -> Tasks]
      /\ OwnFunction' /\ ForkedInOrder' /\ FactoryPhase'
      /\ task'[w] = label
      /\ \A x \in Workers \cup {Main} : x # w => task'[x] = task[x]
  <2>1. label \in {"born", "done"} /\ task' = [task EXCEPT ![w] = label]
    BY <1>1
  <2> HIDE DEF label
  <2> QED BY <1>1, <2>1, WorkerGoesOn DEF Tasks, Ended
<1>3. again[w] \in BOOLEAN
  BY DEF CrawlInv, CrawlTypeOK
<1>4. CrawlTypeOK' /\ PlaceAgrees'
  BY <1>1, <1>2 DEF CrawlInv, CrawlTypeOK, PlaceAgrees
<1>5. w \in Feeds => joined[w] = started[w] /\ (again[w] => started[w] = 0)
  BY <1>1 DEF CrawlInv, ParentPhase
<1>6. ParentPhase'
  BY <1>1, <1>2, <1>5, ChildFacts DEF CrawlInv, ParentPhase
<1>7. FreedByParent'
  BY <1>1, <1>2, <1>5, FreesNothing DEF HasFreed
<1> QED BY <1>2, <1>4, <1>6, <1>7 DEF CrawlInv

(* An article that was seen ends before it connects.                        *)
LEMMA IgnoreSeenKeeps ==
  ASSUME CrawlInv, NEW a \in Articles, IgnoreSeen(a) PROVE CrawlInv'
<1>1. /\ task[a] = "born" /\ a \in Workers /\ a \notin Feeds
      /\ task' = [task EXCEPT ![a] = "done"]
      /\ UNCHANGED <<live, pc, started, joined, url, hops, again, freed, crashed>>
  BY ChildFacts DEF IgnoreSeen, At, Goto, limiterVars
<1>2. /\ task' \in [Workers \cup {Main} -> Tasks]
      /\ OwnFunction' /\ ForkedInOrder' /\ FactoryPhase'
      /\ task'[a] = "done"
      /\ \A x \in Workers \cup {Main} : x # a => task'[x] = task[x]
  BY <1>1, WorkerGoesOn DEF Tasks, Ended
<1>3. CrawlTypeOK' /\ PlaceAgrees'
  BY <1>1, <1>2 DEF CrawlInv, CrawlTypeOK, PlaceAgrees
<1>4. ParentPhase'
  BY <1>1, <1>2, ChildFacts DEF CrawlInv, ParentPhase
<1>5. FreedByParent'
  BY <1>1, <1>2, FreesNothing
<1> QED BY <1>2, <1>3, <1>4, <1>5 DEF CrawlInv

(* A step inside the factory.                                               *)
LEMMA InLimiterKeeps ==
  ASSUME CrawlInv, NEW w \in Workers, InLimiter(w) PROVE CrawlInv'
<1>1. /\ UNCHANGED crawlVars
      /\ live' = live
      /\ pc' \in [Workers -> L!PCs]
      /\ \A v \in Workers \ {w} : pc'[v] = pc[v]
      /\ \/ pc[w] \in Connecting \ {"open", "aborted"} /\ pc'[w] \in Connecting
         \/ pc[w] \in Disposing \ {"idle", "aborted"} /\ pc'[w] \in Disposing
  BY LimiterMoves DEF InLimiter, CrawlInv, CrawlTypeOK
<1>2. CrawlTypeOK' /\ OwnFunction' /\ FactoryPhase'
  BY <1>1 DEF CrawlInv, CrawlTypeOK, OwnFunction, FactoryPhase, crawlVars
<1>3. PlaceAgrees'
  BY <1>1 DEF CrawlInv, CrawlTypeOK, PlaceAgrees, crawlVars, Tasks, Connecting, Disposing
<1>4. ForkedInOrder' /\ ParentPhase' /\ FreedByParent'
  BY <1>1 DEF CrawlInv, ForkedInOrder, ParentPhase, FreedByParent, HasFreed, crawlVars
<1> QED BY <1>2, <1>3, <1>4 DEF CrawlInv

-----------------------------------------------------------------------------
(* The steps of threadutils.c.                                              *)
LEMMA StartThreadKeeps ==
  ASSUME CrawlInv, NEW p \in Parents, StartThread(p) PROVE CrawlInv'
<1> DEFINE n == started[p] + 1
           c == Child(p, n)
<1>1. /\ task[p] = "starting" /\ started[p] < Len(ChildrenOf[p])
      /\ started' = [started EXCEPT ![p] = n]
      /\ UNCHANGED <<live, pc, joined, url, hops, again, freed, crashed>>
  BY DEF StartThread, At, limiterVars
<1>2. PICK outcome \in {"born", "failed"} : task' = [task EXCEPT ![c] = outcome]
  BY DEF StartThread, Goto, Child
<1>3. /\ started[p] \in Nat /\ n \in DOMAIN ChildrenOf[p]
      /\ c \in Workers /\ task[c] = "unborn"
  BY <1>1, ChildFacts DEF CrawlInv, CrawlTypeOK, ForkedInOrder
<1> HIDE DEF c
<1>4. /\ task' \in [Workers \cup {Main} -> Tasks]
      /\ task'[c] \in {"born", "failed"}
      /\ \A x \in Workers \cup {Main} : x # c => task'[x] = task[x]
      /\ started' \in [Parents -> Nat] /\ started'[p] = n
      /\ \A q \in Parents : q # p => started'[q] = started[q]
  BY <1>1, <1>2, <1>3 DEF CrawlInv, CrawlTypeOK, Tasks
<1>5. p # c /\ c # Main /\ Parents \subseteq Workers \cup {Main}
  BY <1>1, <1>3, ChildFacts DEF Parents
<1>6. CrawlTypeOK'
  BY <1>1, <1>4 DEF CrawlInv, CrawlTypeOK
<1>7. OwnFunction' /\ FactoryPhase'
  BY <1>1, <1>4, <1>5, ChildFacts DEF CrawlInv, OwnFunction, FactoryPhase
<1>8. PlaceAgrees'
  BY <1>1, <1>3, <1>4 DEF CrawlInv, PlaceAgrees
<1>9. ForkedInOrder'
  <2>1. ASSUME NEW q \in Parents, NEW i \in DOMAIN ChildrenOf[q]
        PROVE  /\ task'[Child(q, i)] = "unborn" <=> i > started'[q]
               /\ i <= joined[q] => task'[Child(q, i)] \in Ended
    <3>1. /\ task[Child(q, i)] = "unborn" <=> i > started[q]
          /\ i <= joined[q] => task[Child(q, i)] \in Ended
          /\ joined[q] <= started[q] /\ joined[q] \in Nat /\ started[q] \in Nat
          /\ Child(q, i) \in Workers /\ i \in Nat
      BY ChildFacts DEF CrawlInv, CrawlTypeOK, ForkedInOrder
    <3>2. CASE q = p /\ i = n
      BY <1>1, <1>3, <1>4, <3>1, <3>2 DEF c
    <3>3. CASE ~(q = p /\ i = n)
      <4>1. Child(q, i) # c
        BY <1>3, <3>3, ChildFacts DEF c
      <4> QED BY <1>3, <1>4, <3>1, <3>3, <4>1
    <3> QED BY <3>2, <3>3
  <2>2. ASSUME NEW w \in Workers, Orphan(w) PROVE task'[w] = "unborn"
    BY <1>3, <1>4, <2>2 DEF CrawlInv, ForkedInOrder, Orphan, c
  <2>3. ASSUME NEW q \in Parents
        PROVE  started'[q] <= Len(ChildrenOf[q]) /\ joined[q] <= started'[q]
    BY <1>1, <1>3, <1>4, ChildFacts DEF CrawlInv, CrawlTypeOK, ForkedInOrder
  <2> QED BY <1>1, <2>1, <2>2, <2>3 DEF ForkedInOrder
<1>10. ParentPhase'
  BY <1>1, <1>3, <1>4, <1>5, ChildFacts DEF CrawlInv, CrawlTypeOK, ParentPhase
<1>11. FreedByParent'
  <2>1. ASSUME NEW q \in Parents, NEW i \in DOMAIN ChildrenOf[q]
        PROVE  freed[Child(q, i)] = (IF HasFreed(q)' /\ i <= started'[q] THEN 1 ELSE 0)
    <3>1. freed[Child(q, i)] = (IF HasFreed(q) /\ i <= started[q] THEN 1 ELSE 0)
      BY DEF CrawlInv, FreedByParent
    <3>2. q # p => started'[q] = started[q]
      BY <1>4
    <3>3. HasFreed(q)' <=> HasFreed(q)
      BY <1>3, <1>4, <1>5 DEF HasFreed
    <3>4. q = p => ~HasFreed(q)
      BY <1>1 DEF HasFreed
    <3> QED BY <3>1, <3>2, <3>3, <3>4
  <2> QED BY <1>1, <2>1 DEF CrawlInv, FreedByParent
<1> QED BY <1>6, <1>7, <1>8, <1>9, <1>10, <1>11 DEF CrawlInv

LEMMA StopStartingKeeps ==
  ASSUME CrawlInv, NEW p \in Parents, StopStarting(p) PROVE CrawlInv'
<1>1. /\ task[p] = "starting" /\ task' = [task EXCEPT ![p] = "joining"]
      /\ UNCHANGED <<live, pc, started, joined, url, hops, again, freed, crashed>>
  BY DEF StopStarting, At, Goto, limiterVars
<1>2. /\ task' \in [Workers \cup {Main} -> Tasks] /\ p \in Workers \cup {Main}
      /\ task'[p] = "joining"
      /\ \A x \in Workers \cup {Main} : x # p => task'[x] = task[x]
  BY <1>1, ChildFacts DEF CrawlInv, CrawlTypeOK, Tasks, Parents
<1>3. CrawlTypeOK'
  BY <1>1, <1>2 DEF CrawlInv, CrawlTypeOK
<1>4. OwnFunction' /\ FactoryPhase' /\ PlaceAgrees'
  BY <1>1, <1>2, ChildFacts DEF CrawlInv, OwnFunction, FactoryPhase, PlaceAgrees, Parents
<1>5. ForkedInOrder'
  <2>1. ASSUME NEW q \in Parents, NEW i \in DOMAIN ChildrenOf[q]
        PROVE  /\ task'[Child(q, i)] = "unborn" <=> i > started[q]
               /\ i <= joined[q] => task'[Child(q, i)] \in Ended
    BY <1>1, <1>2, ChildFacts DEF CrawlInv, ForkedInOrder, Ended
  <2> QED BY <1>1, <1>2, <2>1 DEF CrawlInv, ForkedInOrder
<1>6. ParentPhase'
  BY <1>1, <1>2, ChildFacts DEF CrawlInv, ParentPhase
<1>7. FreedByParent'
  <2>1. \A q \in Parents : HasFreed(q)' <=> HasFreed(q)
    BY <1>1, <1>2, ChildFacts DEF HasFreed, Parents
  <2> QED BY <1>1, <2>1 DEF CrawlInv, FreedByParent
<1> QED BY <1>3, <1>4, <1>5, <1>6, <1>7 DEF CrawlInv

LEMMA JoinKeeps ==
  ASSUME CrawlInv, NEW p \in Parents, JoinThread(p) \/ JoinGarbage(p) PROVE CrawlInv'
<1>1. /\ task[p] = "joining" /\ joined[p] < started[p]
      /\ task[Child(p, joined[p] + 1)] \in {"done", "failed"}
      /\ joined' = joined \/ joined' = [joined EXCEPT ![p] = joined[p] + 1]
      /\ crashed' = crashed \/ crashed' = TRUE
      /\ UNCHANGED <<live, pc, task, started, url, hops, again, freed>>
  BY DEF JoinThread, JoinGarbage, Joinable, JoinNext, At, limiterVars, Child
<1>2. CASE joined' = joined
  BY <1>1, <1>2 DEF CrawlInv, CrawlTypeOK, OwnFunction, FactoryPhase, PlaceAgrees,
     ForkedInOrder, ParentPhase, FreedByParent, HasFreed
<1>3. CASE joined' = [joined EXCEPT ![p] = joined[p] + 1]
  <2>1. /\ joined' \in [Parents -> Nat] /\ joined'[p] = joined[p] + 1
        /\ \A q \in Parents : q # p => joined'[q] = joined[q]
        /\ joined \in [Parents -> Nat] /\ started \in [Parents -> Nat]
    BY <1>3 DEF CrawlInv, CrawlTypeOK
  <2>2. CrawlTypeOK'
    BY <1>1, <2>1 DEF CrawlInv, CrawlTypeOK
  <2>3. OwnFunction' /\ FactoryPhase' /\ PlaceAgrees' /\ FreedByParent'
    BY <1>1 DEF CrawlInv, OwnFunction, FactoryPhase, PlaceAgrees, FreedByParent, HasFreed
  <2>4. ForkedInOrder'
    <3>1. ASSUME NEW q \in Parents
          PROVE  /\ joined'[q] <= started[q]
                 /\ \A i \in DOMAIN ChildrenOf[q] :
                        i <= joined'[q] => task[Child(q, i)] \in Ended
      <4>1. /\ joined[q] \in Nat /\ started[q] \in Nat /\ joined[q] <= started[q]
            /\ DOMAIN ChildrenOf[q] = 1..Len(ChildrenOf[q])
            /\ \A i \in DOMAIN ChildrenOf[q] : i <= joined[q] => task[Child(q, i)] \in Ended
        BY <2>1, ChildFacts DEF CrawlInv, ForkedInOrder
      <4>2. CASE q = p
        <5>1. ASSUME NEW i \in DOMAIN ChildrenOf[q], i <= joined'[q]
              PROVE  i <= joined[q] \/ i = joined[p] + 1
          BY <2>1, <4>1, <4>2, <5>1, ChildFacts
        <5>2. task[Child(p, joined[p] + 1)] \in Ended
          BY <1>1 DEF Ended
        <5> QED BY <1>1, <2>1, <4>1, <4>2, <5>1, <5>2
      <4>3. CASE q # p
        BY <2>1, <4>1, <4>3
      <4> QED BY <4>2, <4>3
    <3> QED BY <1>1, <3>1 DEF CrawlInv, ForkedInOrder
  <2>5. ParentPhase'
    BY <1>1, <2>1, ChildFacts DEF CrawlInv, ParentPhase
  <2> QED BY <2>2, <2>3, <2>4, <2>5 DEF CrawlInv
<1> QED BY <1>1, <1>2, <1>3

(* The end of PullAllNewsItems.                                             *)
LEMMA FeedJoinedKeeps ==
  ASSUME CrawlInv, NEW f \in Feeds, FeedJoined(f) PROVE CrawlInv'
<1>1. /\ task[f] = "joining" /\ joined[f] = started[f]
      /\ task' = [task EXCEPT ![f] = "close"]
      /\ freed' = Disposed(f)
      /\ UNCHANGED <<live, pc, started, joined, url, hops, again, crashed>>
  BY DEF FeedJoined, At, Goto, limiterVars
<1>2. f \in Workers /\ f \in Parents /\ f # Main
  BY ChildFacts
<1>3. /\ task' \in [Workers \cup {Main} -> Tasks]
      /\ OwnFunction' /\ ForkedInOrder' /\ FactoryPhase'
      /\ task'[f] = "close"
      /\ \A x \in Workers \cup {Main} : x # f => task'[x] = task[x]
  BY <1>1, <1>2, WorkerGoesOn DEF Tasks, Ended
<1>4. /\ freed' \in [Workers -> Nat]
      /\ \A i \in DOMAIN ChildrenOf[f] :
            freed'[Child(f, i)] = freed[Child(f, i)] + (IF i <= started[f] THEN 1 ELSE 0)
      /\ \A w \in Workers : (\A i \in DOMAIN ChildrenOf[f] : Child(f, i) # w)
                               => freed'[w] = freed[w]
  BY <1>1, <1>2, DisposedCounts DEF CrawlInv, ForkedInOrder
<1>5. CrawlTypeOK' /\ PlaceAgrees'
  BY <1>1, <1>2, <1>3, <1>4 DEF CrawlInv, CrawlTypeOK, PlaceAgrees
<1>6. ParentPhase'
  BY <1>1, <1>3, ChildFacts DEF CrawlInv, ParentPhase
<1>7. FreedByParent'
  <2>1. ASSUME NEW q \in Parents, NEW i \in DOMAIN ChildrenOf[q]
        PROVE  freed'[Child(q, i)] = (IF HasFreed(q)' /\ i <= started[q] THEN 1 ELSE 0)
    <3>1. freed[Child(q, i)] = (IF HasFreed(q) /\ i <= started[q] THEN 1 ELSE 0)
      BY DEF CrawlInv, FreedByParent
    <3>2. CASE q = f
      BY <1>1, <1>3, <1>4, <3>1, <3>2 DEF HasFreed
    <3>3. CASE q # f
      <4>1. freed'[Child(q, i)] = freed[Child(q, i)]
        BY <1>2, <1>4, <3>3, ChildFacts
      <4>2. HasFreed(q)' <=> HasFreed(q)
        BY <1>3, <3>3, ChildFacts DEF HasFreed, Parents
      <4> QED BY <3>1, <4>1, <4>2
    <3> QED BY <3>2, <3>3
  <2>2. ASSUME NEW w \in Workers, Orphan(w) PROVE freed'[w] = 0
    BY <1>2, <1>4, <2>2 DEF CrawlInv, FreedByParent, Orphan
  <2> QED BY <1>1, <2>1, <2>2 DEF FreedByParent
<1> QED BY <1>3, <1>5, <1>6, <1>7 DEF CrawlInv

(* BuildIndices after its loop.                                             *)
LEMMA MainKeeps ==
  ASSUME CrawlInv, MainJoined \/ DisposeFactory \/ FreeFeeds PROVE CrawlInv'
<1>1. PICK label \in {"disposeFactory", "freeFeeds", "query"} :
         /\ task' = [task EXCEPT ![Main] = label]
         /\ label = "disposeFactory" => joined[Main] = started[Main] /\ task[Main] = "joining"
         /\ label = "freeFeeds" => task[Main] = "disposeFactory"
         /\ label = "query" => task[Main] = "freeFeeds"
         /\ live' = (live /\ label # "freeFeeds")
         /\ freed' = IF label = "query" THEN Disposed(Main) ELSE freed
         /\ UNCHANGED <<pc, started, joined, url, hops, again, crashed>>
  <2>1. CASE MainJoined
    BY <2>1 DEF MainJoined, At, Goto, limiterVars, CrawlInv, CrawlTypeOK
  <2>2. CASE DisposeFactory
    BY <2>2 DEF DisposeFactory, At, Goto, L!FactoryDispose, CrawlInv, CrawlTypeOK
  <2>3. CASE FreeFeeds
    BY <2>3 DEF FreeFeeds, At, Goto, limiterVars, CrawlInv, CrawlTypeOK
  <2> QED BY <2>1, <2>2, <2>3
<1>2. /\ task' \in [Workers \cup {Main} -> Tasks] /\ task'[Main] = label
      /\ \A x \in Workers : task'[x] = task[x]
      /\ Main \notin Workers /\ Main \in Parents
  BY <1>1, ChildFacts DEF CrawlInv, CrawlTypeOK, Tasks
<1>3. /\ freed' \in [Workers -> Nat]
      /\ label # "query" => freed' = freed
      /\ label = "query" =>
            \A i \in DOMAIN ChildrenOf[Main] :
               freed'[Child(Main, i)]
                  = freed[Child(Main, i)] + (IF i <= started[Main] THEN 1 ELSE 0)
      /\ \A w \in Workers : (\A i \in DOMAIN ChildrenOf[Main] : Child(Main, i) # w)
                               => freed'[w] = freed[w]
  BY <1>1, <1>2, DisposedCounts DEF CrawlInv, CrawlTypeOK, ForkedInOrder
<1>4. CrawlTypeOK'
  <2>1. live' \in BOOLEAN
    BY <1>1 DEF CrawlInv, CrawlTypeOK
  <2> QED BY <1>1, <1>2, <1>3, <2>1 DEF CrawlInv, CrawlTypeOK
<1>5. OwnFunction' /\ FactoryPhase'
  BY <1>1, <1>2, ChildFacts DEF CrawlInv, CrawlTypeOK, OwnFunction, FactoryPhase
<1>6. PlaceAgrees'
  BY <1>1, <1>2 DEF CrawlInv, PlaceAgrees
<1>7. ForkedInOrder'
  <2>1. \A q \in Parents : \A i \in DOMAIN ChildrenOf[q] :
            task'[Child(q, i)] = task[Child(q, i)]
    BY <1>2, ChildFacts
  <2> QED BY <1>1, <1>2, <2>1 DEF CrawlInv, ForkedInOrder
<1>8. ParentPhase'
  BY <1>1, <1>2, ChildFacts DEF CrawlInv, ParentPhase
<1>9. FreedByParent'
  <2>1. ASSUME NEW q \in Parents, NEW i \in DOMAIN ChildrenOf[q]
        PROVE  freed'[Child(q, i)] = (IF HasFreed(q)' /\ i <= started[q] THEN 1 ELSE 0)
    <3>1. freed[Child(q, i)] = (IF HasFreed(q) /\ i <= started[q] THEN 1 ELSE 0)
      BY DEF CrawlInv, FreedByParent
    <3>2. CASE q = Main
      BY <1>1, <1>2, <1>3, <3>1, <3>2 DEF HasFreed
    <3>3. CASE q # Main
      <4>1. freed'[Child(q, i)] = freed[Child(q, i)]
        BY <1>2, <1>3, <3>3, ChildFacts
      <4>2. HasFreed(q)' <=> HasFreed(q)
        BY <1>2, <3>3, ChildFacts DEF HasFreed, Parents
      <4> QED BY <3>1, <4>1, <4>2
    <3> QED BY <3>2, <3>3
  <2>2. ASSUME NEW w \in Workers, Orphan(w) PROVE freed'[w] = 0
    BY <1>2, <1>3, <2>2 DEF CrawlInv, FreedByParent, Orphan
  <2> QED BY <1>1, <2>1, <2>2 DEF FreedByParent
<1> QED BY <1>4, <1>5, <1>6, <1>7, <1>8, <1>9 DEF CrawlInv

(* Every step of a thread keeps the invariant.                              *)
LEMMA CrawlStep == CrawlInv /\ [Next]_vars => CrawlInv'
<1> SUFFICES ASSUME CrawlInv, [Next]_vars PROVE CrawlInv'
  OBVIOUS
<1>1. ASSUME NEW p \in Parents, ParentStep(p) PROVE CrawlInv'
  BY <1>1, StartThreadKeeps, StopStartingKeeps, JoinKeeps DEF ParentStep
<1>2. ASSUME NEW w \in Workers, WorkerStep(w) PROVE CrawlInv'
  BY <1>2, ConnectKeeps, AnswerKeeps, CloseKeeps, ClosedKeeps, InLimiterKeeps DEF WorkerStep
<1>3. CASE MainStep
  BY <1>1, <1>3, ChildFacts, MainKeeps DEF MainStep
<1>4. ASSUME NEW f \in Feeds, FeedStep(f) PROVE CrawlInv'
  BY <1>1, <1>2, <1>4, ChildFacts, FeedJoinedKeeps DEF FeedStep
<1>5. ASSUME NEW a \in Articles, ArticleStep(a) PROVE CrawlInv'
  BY <1>2, <1>5, ChildFacts, IgnoreSeenKeeps DEF ArticleStep
<1>6. CASE UNCHANGED vars
  BY <1>6 DEF vars, limiterVars, crawlVars, CrawlInv, CrawlTypeOK, OwnFunction,
     PlaceAgrees, ForkedInOrder, ParentPhase, FreedByParent, FactoryPhase, HasFreed
<1> QED BY <1>3, <1>4, <1>5, <1>6 DEF Next

LEMMA CrawlInvAlways == Spec => []CrawlInv
BY CrawlInit, CrawlStep, PTL DEF Spec

-----------------------------------------------------------------------------
(* "Join the threads before luf is disposed": once BuildIndices has joined  *)
(* its threads, each feed has joined its own, and the factory is unused.    *)
LEMMA JoinedMeansUnused ==
  ASSUME CrawlInv, task[Main] \in {"disposeFactory", "freeFeeds", "query"}
  PROVE  NoThreadLeft
<1>1. ASSUME NEW p \in Parents, joined[p] = started[p], NEW i \in DOMAIN ChildrenOf[p]
      PROVE  task[Child(p, i)] \in Ended
  BY <1>1, ChildFacts DEF CrawlInv, CrawlTypeOK, ForkedInOrder, Ended
<1>2. ASSUME NEW f \in Feeds PROVE task[f] \in Ended
  <2>1. CASE Orphan(f)
    BY <2>1, ChildFacts DEF CrawlInv, ForkedInOrder, Ended
  <2>2. CASE ~Orphan(f)
    <3>1. PICK p \in Parents : \E i \in DOMAIN ChildrenOf[p] : Child(p, i) = f
      BY <2>2 DEF Orphan
    <3>2. p = Main
      BY <3>1, ChildFacts DEF Parents
    <3> QED BY <1>1, <3>1, <3>2 DEF CrawlInv, ParentPhase
  <2> QED BY <2>1, <2>2
<1>3. ASSUME NEW f \in Feeds PROVE joined[f] = started[f]
  <2>1. started[f] = 0 \/ joined[f] = started[f]
    BY <1>2 DEF CrawlInv, ParentPhase, Ended
  <2> QED BY <2>1, ChildFacts DEF CrawlInv, CrawlTypeOK, ForkedInOrder
<1>4. ASSUME NEW a \in Articles PROVE task[a] \in Ended
  <2>1. CASE Orphan(a)
    BY <2>1, ChildFacts DEF CrawlInv, ForkedInOrder, Ended
  <2>2. CASE ~Orphan(a)
    <3>1. PICK p \in Parents : \E i \in DOMAIN ChildrenOf[p] : Child(p, i) = a
      BY <2>2 DEF Orphan
    <3>2. p \in Feeds
      BY <3>1, ChildFacts DEF Parents
    <3> QED BY <1>1, <1>3, <3>1, <3>2
  <2> QED BY <2>1, <2>2
<1>5. \A w \in Workers : task[w] \in Ended
  BY <1>2, <1>4 DEF Workers
<1> QED BY <1>5 DEF NoThreadLeft, CrawlInv, PlaceAgrees, Ended

(* The factory and the database are left to the main thread only when every *)
(* thread is at its end, for any feeds, items and redirects.                *)
THEOREM FactoryOutlives == Spec => []FactoryOutlivesThreads
<1>1. CrawlInv => FactoryOutlivesThreads
  BY JoinedMeansUnused DEF FactoryOutlivesThreads, CrawlInv, FactoryPhase, OwnFunction
<1> QED BY <1>1, CrawlInvAlways, PTL

(* VectorDispose frees the argument of each thread once, after that thread  *)
(* is done with it, and misses none of a thread that was started.           *)
THEOREM ArgumentsOnce == Spec => []ArgumentsFreedOnce
<1>1. ASSUME CrawlInv PROVE ArgumentsFreedOnce
  <2>1. ASSUME NEW w \in Workers
        PROVE  /\ freed[w] <= (IF task[w] \in Ended THEN 1 ELSE 0)
               /\ task[Main] = "query" =>
                     freed[w] = (IF task[w] = "unborn" THEN 0 ELSE 1)
    <3>1. CASE Orphan(w)
      BY <1>1, <3>1 DEF CrawlInv, ForkedInOrder, FreedByParent, Ended
    <3>2. CASE ~Orphan(w)
      <4>0. PICK p \in Parents : \E i \in DOMAIN ChildrenOf[p] : Child(p, i) = w
        BY <3>2 DEF Orphan
      <4>1. PICK i \in DOMAIN ChildrenOf[p] : Child(p, i) = w
        BY <4>0
      <4>2. /\ freed[w] = (IF HasFreed(p) /\ i <= started[p] THEN 1 ELSE 0)
            /\ task[w] = "unborn" <=> i > started[p]
            /\ i <= joined[p] => task[w] \in Ended
            /\ i \in Nat /\ started[p] \in Nat
        BY <1>1, <4>1, ChildFacts
        DEF CrawlInv, CrawlTypeOK, ForkedInOrder, FreedByParent
      <4>3. HasFreed(p) => joined[p] = started[p]
        BY <1>1, ChildFacts DEF CrawlInv, ParentPhase, HasFreed, Parents, OwnFunction
      <4>4. task[Main] = "query" /\ i <= started[p] => HasFreed(p)
        <5>1. CASE p = Main
          BY <5>1 DEF HasFreed
        <5>2. CASE p # Main
          <6>1. p \in Feeds /\ p \in Workers
            BY <5>2, ChildFacts DEF Parents
          <6>2. task[Main] = "query" => task[p] \in Ended
            BY <1>1, <6>1, JoinedMeansUnused DEF NoThreadLeft
          <6>3. i <= started[p] => task[p] \notin {"unborn", "failed"}
            BY <1>1, <4>1, <6>1, ChildFacts DEF CrawlInv, CrawlTypeOK, ParentPhase
          <6> QED BY <6>2, <6>3 DEF HasFreed, Ended
        <5> QED BY <5>1, <5>2
      <4> QED BY <4>2, <4>3, <4>4
    <3> QED BY <3>1, <3>2
  <2> QED BY <2>1 DEF ArgumentsFreedOnce
<1> QED BY <1>1, CrawlInvAlways, PTL

-----------------------------------------------------------------------------
(***************************************************************************)
(* The crawl implements the limiter's specification.                       *)
(***************************************************************************)
LEMMA CrawlStepIsLimiterStep ==
  ASSUME CrawlInv, [Next]_vars PROVE [L!Next]_L!vars
<1>1. ASSUME UNCHANGED limiterVars PROVE L!vars' = L!vars
  BY <1>1 DEF limiterVars, L!vars
<1>2. ASSUME NEW p \in Parents, ParentStep(p) PROVE UNCHANGED limiterVars
  BY <1>2 DEF ParentStep, StartThread, StopStarting, JoinThread, JoinGarbage
<1>3. ASSUME NEW w \in Workers, WorkerStep(w) PROVE L!Next \/ UNCHANGED limiterVars
  <2>1. CASE Connect(w)
    <3>1. url[w] \in Servers
      BY DEF CrawlInv, CrawlTypeOK
    <3> QED BY <2>1, <3>1 DEF Connect, L!Next
  <2>2. CASE Close(w)
    BY <2>2 DEF Close, L!Next
  <2>3. CASE InLimiter(w)
    BY <2>3 DEF InLimiter, L!Next
  <2>4. CASE AnswerOK(w) \/ AnswerRedirect(w) \/ AnswerOther(w) \/ Closed(w)
    BY <2>4 DEF AnswerOK, AnswerRedirect, AnswerOther, Closed
  <2> QED BY <1>3, <2>1, <2>2, <2>3, <2>4 DEF WorkerStep
<1>4. CASE MainStep
  <2>1. CASE DisposeFactory
    <3>1. \A w \in Workers : pc[w] = "idle"
      BY <2>1, JoinedMeansUnused DEF DisposeFactory, At, NoThreadLeft
    <3> QED BY <2>1, <3>1 DEF DisposeFactory, L!Next, L!DisposeWhenUnused
  <2>2. CASE ParentStep(Main) \/ MainJoined \/ FreeFeeds
    BY <1>1, <1>2, <2>2, ChildFacts DEF MainJoined, FreeFeeds
  <2> QED BY <1>4, <2>1, <2>2 DEF MainStep
<1>5. ASSUME NEW f \in Feeds, FeedStep(f) PROVE [L!Next]_L!vars
  BY <1>1, <1>2, <1>3, <1>5, ChildFacts DEF FeedStep, FeedJoined
<1>6. ASSUME NEW a \in Articles, ArticleStep(a) PROVE [L!Next]_L!vars
  BY <1>1, <1>3, <1>6, ChildFacts DEF ArticleStep, IgnoreSeen
<1>7. CASE UNCHANGED vars
  BY <1>1, <1>7 DEF vars
<1> QED BY <1>4, <1>5, <1>6, <1>7 DEF Next

(* The threads use the factory as ConnLimiter assumes: one connection at a  *)
(* time, disposed of once, and no call after the factory is disposed of.    *)
THEOREM CrawlUsesLimiter == Spec => UsesLimiter
<1>1. Init => L!Init
  BY DEF Init
<1>2. CrawlInv /\ [Next]_vars => [L!Next]_L!vars
  BY CrawlStepIsLimiterStep
<1> QED BY <1>1, <1>2, CrawlInvAlways, PTL DEF Spec, UsesLimiter, L!Spec

-----------------------------------------------------------------------------
(***************************************************************************)
(* So what is proved of the limiter holds of the crawl.                    *)
(***************************************************************************)
LP == INSTANCE ConnLimiterProofs WITH Threads <- Workers

(* The two instances are of one specification.                              *)
LEMMA SameLimiter == L!Spec <=> LP!Spec
<1>1. L!Init <=> LP!Init
  BY DEF L!Init, LP!Init, L!EmptyBucket, LP!EmptyBucket
<1>2. L!Next <=> LP!Next
  BY DEF L!Next, LP!Next, L!CallNew, LP!CallNew, L!InFactory, LP!InFactory,
     L!CallDispose, LP!CallDispose, L!DisposeWhenUnused, LP!DisposeWhenUnused,
     L!FactoryDispose, LP!FactoryDispose, L!WaitTotal, LP!WaitTotal,
     L!LookupFound, LP!LookupFound, L!LookupMissed, LP!LookupMissed,
     L!Enter, LP!Enter, L!Relookup, LP!Relookup, L!WaitServer, LP!WaitServer,
     L!PostTotal, LP!PostTotal, L!LookupPost, LP!LookupPost,
     L!PostServer, LP!PostServer, L!LookupOrAbort, LP!LookupOrAbort,
     L!HashSetEnter, LP!HashSetEnter, L!Entered, LP!Entered, L!NewSlot, LP!NewSlot,
     L!Present, LP!Present, L!PlacesOf, LP!PlacesOf, L!Slots, LP!Slots,
     L!AddressOf, LP!AddressOf, L!Allocated, LP!Allocated, L!SemAt, LP!SemAt,
     L!Places, LP!Places, L!PlaceOf, LP!PlaceOf, L!ReplaceSlot, LP!ReplaceSlot,
     L!BucketWith, LP!BucketWith, L!InsertSlot, LP!InsertSlot, L!InsertPlace,
     LP!InsertPlace, L!Saturated, LP!Saturated, L!Goto, LP!Goto, L!At, LP!At,
     L!Cardinality, LP!Cardinality
<1>3. [L!Next]_L!vars <=> [LP!Next]_LP!vars
  BY <1>2 DEF L!vars, LP!vars
<1> QED BY <1>1, <1>3, PTL DEF L!Spec, LP!Spec

(* The factory's table is sound in every crawl: the assertions of Wait and  *)
(* Post never fail, and a server once entered is found again.               *)
THEOREM CrawlTableSafe == Spec => []LP!TableInv
<1>1. \A S : LP!IsFiniteSet(S) <=> IsFiniteSet(S)
  BY DEF LP!IsFiniteSet, IsFiniteSet
<1>2. LP!Init => LP!TableInv
  BY <1>1, LimiterAssumption, WorkersAssumption, LP!TableInvInit
<1>3. LP!TableInv /\ [LP!Next]_LP!vars => LP!TableInv'
  BY <1>1, LimiterAssumption, WorkersAssumption, LP!TableInvStep
<1> QED BY <1>2, <1>3, SameLimiter, CrawlUsesLimiter, PTL DEF UsesLimiter, LP!Spec

(* The variables of the crawl and of the factory keep their types.          *)
THEOREM CrawlTypes == Spec => []TypeOK
<1>1. CrawlInv /\ LP!TableInv => TypeOK
  BY DEF CrawlInv, CrawlTypeOK, LP!TableInv, LP!TypeOK, L!TypeOK, TypeOK,
     LP!Bucket, L!Bucket, LP!Slot, L!Slot, LP!Pointer, L!Pointer, LP!PCs, L!PCs
<1> QED BY <1>1, CrawlInvAlways, CrawlTableSafe, PTL

-----------------------------------------------------------------------------
(***************************************************************************)
(* The thread-safe containers: their inductive invariant.                  *)
(***************************************************************************)
Containers == {"vector", "set"}

Calls ==
    /\ DOMAIN box = Containers /\ DOMAIN holder = Containers
    /\ DOMAIN call = Thread
    /\ \A t \in Thread : call[t].at \notin {"idle", "aborted"} => call[t].op.in \in Containers

\* Whoever works, or is about to unlock, holds the mutex; what it has read
\* when it began is what is still there.
MutexHeld ==
    \A t \in Thread :
        /\ call[t].at \in {"working", "unlocking"} => holder[call[t].op.in] = t
        /\ call[t].at = "working" => call[t].read = box[call[t].op.in]

\* The states of c as the log is replayed; g[n] is the one after n entries.
Rule(g, c, l, n) == IF n = 0 THEN [state |-> Empty(c), good |-> TRUE]
                    ELSE IF l[n].op.in # c THEN g[n - 1]
                    ELSE Redone(g[n - 1], l[n])
Replays(g, c, l) == g = [n \in 0..Len(l) |-> Rule(g, c, l, n)]

Leaves(r, contents) == r.good = TRUE /\ r.state = contents

\* Replayed up to now, the log leads to what is there.
LogReplays ==
    \A c \in Containers :
        \E g : Replays(g, c, log) /\ Leaves(g[Len(log)], box[c])

IsLog(l) == \E R : l \in Seq(R)

TSInv == Calls /\ MutexHeld /\ IsLog(log) /\ LogReplays

-----------------------------------------------------------------------------
(* Replaying.                                                               *)
\* A set that has each number of which it has all smaller ones has all.
LEMMA Induction ==
    ASSUME NEW T, \A n \in Nat : (\A m \in Nat : m < n => m \in T) => n \in T
    PROVE  Nat \subseteq T
<1> SUFFICES ASSUME NEW n \in Nat, n \notin T PROVE FALSE
  OBVIOUS
<1> DEFINE B == {m \in Nat : m \notin T}
           R == OpToRel(<, Nat)
<1>1. IsWellFoundedOn(R, Nat)
  BY NatLessThanWellFounded
<1>2. \A m, k \in Nat : m < k => <<m, k>> \in R
  BY DEF OpToRel
<1>3. B \subseteq Nat /\ B # {}
  OBVIOUS
<1> HIDE DEF R
<1>4. \E k \in B : \A m \in B : ~ (<<m, k>> \in R)
  <2> HIDE DEF B
  <2> QED BY <1>1, <1>3, WFMin
<1>5. PICK k \in B : \A m \in B : ~ (m < k)
  BY <1>2, <1>3, <1>4, Zenon
<1>6. \A m \in Nat : m < k => m \in T
  BY <1>5
<1> QED BY <1>5, <1>6

LEMMA LogLength ==
    ASSUME NEW l, IsLog(l)
    PROVE  Len(l) \in Nat
BY DEF IsLog

LEMMA LogAppended ==
    ASSUME NEW l, IsLog(l), NEW entry
    PROVE  /\ IsLog(Append(l, entry))
           /\ Len(Append(l, entry)) = Len(l) + 1
           /\ \A n \in 1..Len(l) : Append(l, entry)[n] = l[n]
           /\ Append(l, entry)[Len(l) + 1] = entry
<1>1. PICK R : l \in Seq(R)
  BY DEF IsLog
<1> DEFINE R2 == R \cup {entry}
<1>2. l \in Seq(R2) /\ entry \in R2
  BY <1>1
<1> HIDE DEF R2
<1>3. Append(l, entry) \in Seq(R2)
  BY <1>2
<1> QED BY <1>2, <1>3 DEF IsLog

\* A log is replayed in one way only.
LEMMA OneReplay ==
    ASSUME NEW l, IsLog(l), NEW c, NEW g, NEW h, Replays(g, c, l), Replays(h, c, l)
    PROVE  g[Len(l)] = h[Len(l)]
<1>1. Len(l) \in Nat
  BY LogLength
<1>2. \A n \in 0..Len(l) : g[n] = Rule(g, c, l, n) /\ h[n] = Rule(h, c, l, n)
  BY DEF Replays
<1> DEFINE T == {n \in Nat : n \in 0..Len(l) => g[n] = h[n]}
<1>3. ASSUME NEW n \in Nat, \A m \in Nat : m < n => m \in T PROVE n \in T
  <2> SUFFICES ASSUME n \in 0..Len(l) PROVE g[n] = h[n]
    OBVIOUS
  <2>1. CASE n = 0
    BY <1>2, <2>1 DEF Rule
  <2>2. CASE n # 0
    <3>1. n - 1 \in Nat /\ n - 1 < n /\ n - 1 \in 0..Len(l)
      BY <1>1, <2>2
    <3>2. g[n - 1] = h[n - 1]
      BY <1>3, <3>1
    <3> QED BY <1>2, <2>2, <3>2 DEF Rule
  <2> QED BY <2>1, <2>2
<1> HIDE DEF T
<1>4. Nat \subseteq T
  BY <1>3, Induction, Zenon
<1> QED BY <1>1, <1>4 DEF T

LEMMA ReplayedIs ==
    ASSUME IsLog(log), NEW c, NEW g, Replays(g, c, log)
    PROVE  Replayed(c) = g[Len(log)]
<1> DEFINE upTo[n \in 0..Len(log)] ==
              IF n = 0 THEN [state |-> Empty(c), good |-> TRUE]
              ELSE IF log[n].op.in # c THEN upTo[n - 1]
              ELSE Redone(upTo[n - 1], log[n])
<1>1. Replayed(c) = upTo[Len(log)]
  BY DEF Replayed
<1>2. g = [n \in 0..Len(log) |-> IF n = 0 THEN [state |-> Empty(c), good |-> TRUE]
                                 ELSE IF log[n].op.in # c THEN g[n - 1]
                                 ELSE Redone(g[n - 1], log[n])]
  BY DEF Replays, Rule
<1>3. upTo = [n \in 0..Len(log) |-> IF n = 0 THEN [state |-> Empty(c), good |-> TRUE]
                                    ELSE IF log[n].op.in # c THEN upTo[n - 1]
                                    ELSE Redone(upTo[n - 1], log[n])]
  BY <1>2
<1> HIDE DEF upTo
<1>4. Replays(upTo, c, log)
  BY <1>3 DEF Replays, Rule
<1> QED BY <1>1, <1>4, OneReplay

\* An operation is appended to the log.
LEMMA ReplayedOnce ==
    ASSUME NEW l, IsLog(l), NEW c, NEW g, Replays(g, c, l), NEW entry, NEW contents, NEW next,
           Leaves(g[Len(l)], contents),
           IF entry.op.in = c
           THEN next = Work(entry.op, contents).state /\ entry.ret = Work(entry.op, contents).ret
           ELSE next = contents
    PROVE  \E h : /\ Replays(h, c, Append(l, entry))
                  /\ Leaves(h[Len(Append(l, entry))], next)
<1> DEFINE m == Append(l, entry)
           N == Len(l)
           h == [n \in 0..(N + 1) |-> IF n \in 0..N THEN g[n]
                                      ELSE IF entry.op.in # c THEN g[N]
                                      ELSE Redone(g[N], entry)]
<1>1. N \in Nat /\ Len(m) = N + 1 /\ m[N + 1] = entry /\ \A n \in 1..N : m[n] = l[n]
  BY LogLength, LogAppended
<1>2. \A n \in 0..N : g[n] = Rule(g, c, l, n)
  BY DEF Replays
<1> HIDE DEF m, N
<1>3. ASSUME NEW n \in 0..(N + 1) PROVE h[n] = Rule(h, c, m, n)
  <2>1. CASE n = 0
    <3>1. n \in 0..N /\ h[n] = g[n]
      BY <1>1, <2>1
    <3> HIDE DEF h
    <3> QED BY <1>2, <2>1, <3>1 DEF Rule
  <2>2. CASE n \in 1..N
    <3>1. n # 0 /\ n \in 0..N /\ n - 1 \in 0..N /\ n - 1 \in 0..(N + 1) /\ n \in 0..(N + 1)
      BY <1>1, <2>2
    <3>2. h[n] = g[n] /\ h[n - 1] = g[n - 1] /\ m[n] = l[n]
      BY <1>1, <2>2, <3>1
    <3> HIDE DEF h
    <3> QED BY <1>2, <3>1, <3>2 DEF Rule
  <2>3. CASE n = N + 1
    <3>1. n # 0 /\ n \notin 0..N /\ n - 1 = N /\ N \in 0..N /\ N \in 0..(N + 1)
      BY <1>1, <2>3
    <3>2. h[n - 1] = g[N] /\ h[n] = (IF entry.op.in # c THEN g[N] ELSE Redone(g[N], entry))
          /\ m[n] = entry
      BY <1>1, <2>3, <3>1
    <3> HIDE DEF h
    <3> QED BY <3>1, <3>2 DEF Rule
  <2> QED BY <1>1, <2>1, <2>2, <2>3
<1>4. Replays(h, c, m)
  <2>1. h = [n \in 0..(N + 1) |-> h[n]]
    OBVIOUS
  <2> HIDE DEF h
  <2> QED BY <1>1, <1>3, <2>1 DEF Replays
<1>5. h[Len(m)] = IF entry.op.in # c THEN g[N] ELSE Redone(g[N], entry)
  BY <1>1
<1> HIDE DEF h
<1>6. Leaves(g[N], contents)
  BY DEF N
<1>7. Leaves(h[Len(m)], next)
  <2>1. CASE entry.op.in # c
    BY <1>5, <1>6, <2>1
  <2>2. CASE entry.op.in = c
    <3>1. g[N].good = TRUE /\ g[N].state = contents
      BY <1>6 DEF Leaves
    <3>2. (g[N].good /\ Work(entry.op, g[N].state).ret = entry.ret) = TRUE
      BY <2>2, <3>1, Zenon
    <3>3. Redone(g[N], entry) = [state |-> next, good |-> TRUE]
      BY <2>2, <3>1, <3>2 DEF Redone
    <3> QED BY <1>5, <2>2, <3>3 DEF Leaves
  <2> QED BY <2>1, <2>2
<1> QED BY <1>4, <1>7 DEF m

-----------------------------------------------------------------------------
(* The invariant.                                                           *)
LEMMA TSInvInit == TSInit => TSInv
<1> SUFFICES ASSUME TSInit PROVE TSInv
  OBVIOUS
<1>1. Calls /\ MutexHeld
  BY DEF TSInit, Calls, MutexHeld, Containers, Idle
<1>2. IsLog(log) /\ Len(log) = 0
  <2>1. log \in Seq({})
    BY DEF TSInit
  <2> QED BY <2>1 DEF IsLog, TSInit
<1>3. ASSUME NEW c \in Containers
      PROVE  \E g : Replays(g, c, log) /\ Leaves(g[Len(log)], box[c])
  <2> DEFINE g == [n \in 0..0 |-> [state |-> Empty(c), good |-> TRUE]]
  <2>1. Replays(g, c, log)
    <3>1. g = [n \in 0..0 |-> Rule(g, c, log, n)]
      BY DEF Rule
    <3> HIDE DEF g
    <3> QED BY <1>2, <3>1 DEF Replays
  <2>2. Leaves(g[0], box[c])
    <3>1. box[c] = Empty(c)
      <4>1. CASE c = "vector"
        BY <4>1 DEF TSInit, Empty
      <4>2. CASE c = "set"
        BY <4>2 DEF TSInit, Empty
      <4> QED BY <4>1, <4>2 DEF Containers
    <3>2. g[0] = [state |-> Empty(c), good |-> TRUE]
      OBVIOUS
    <3> QED BY <3>1, <3>2 DEF Leaves
  <2> QED BY <1>2, <2>1, <2>2
<1> QED BY <1>1, <1>2, <1>3 DEF TSInv, LogReplays

LEMMA EnterKeepsInv ==
    ASSUME TSInv, NEW t \in Thread, NEW op \in VectorOps \cup SetOps, Enter(t, op)
    PROVE  TSInv'
<1>1. op.in \in Containers
  BY DEF VectorOps, SetOps, Containers
<1>2. Calls' /\ MutexHeld'
  BY <1>1 DEF Enter, TSInv, Calls, MutexHeld
<1>3. IsLog(log)' /\ LogReplays'
  BY DEF Enter, TSInv, LogReplays
<1> QED BY <1>2, <1>3 DEF TSInv

LEMMA LockKeepsInv ==
    ASSUME TSInv, NEW t \in Thread, Lock(t)
    PROVE  TSInv'
<1> DEFINE op == call[t].op
<1>1. /\ call[t].at = "locking" /\ op.in \in Containers
      /\ CanLock(t, op.in)
      /\ holder' = [holder EXCEPT ![op.in] = t]
      /\ call' = [call EXCEPT ![t] = [at |-> "working", op |-> op, read |-> box[op.in]]]
      /\ box' = box /\ log' = log
  BY DEF Lock, TSInv, Calls
<1> HIDE DEF op
<1>2. Calls'
  BY <1>1 DEF TSInv, Calls
<1>3. MutexHeld'
  <2> SUFFICES ASSUME NEW u \in Thread
               PROVE  /\ call'[u].at \in {"working", "unlocking"} => holder'[call'[u].op.in] = u
                      /\ call'[u].at = "working" => call'[u].read = box'[call'[u].op.in]
    BY DEF MutexHeld
  <2>1. CASE u = t
    BY <1>1, <2>1 DEF TSInv, Calls
  <2>2. CASE u # t
    <3>1. call'[u] = call[u]
      BY <1>1, <2>2
    <3>2. call[u].at \in {"working", "unlocking"} => holder[call[u].op.in] = u
      BY DEF TSInv, MutexHeld
    <3>3. call[u].at \in {"working", "unlocking"} => call[u].op.in # op.in
      BY <1>1, <2>2, <3>2, ThreadAssumption DEF CanLock
    <3>4. call[u].at \in {"working", "unlocking"} => call[u].op.in \in Containers
      BY DEF TSInv, Calls
    <3>5. call[u].at = "working" => call[u].read = box[call[u].op.in]
      BY DEF TSInv, MutexHeld
    <3> QED BY <1>1, <3>1, <3>2, <3>3, <3>4, <3>5 DEF TSInv, Calls
  <2> QED BY <2>1, <2>2
<1>4. IsLog(log)' /\ LogReplays'
  BY <1>1 DEF TSInv, LogReplays
<1> QED BY <1>2, <1>3, <1>4 DEF TSInv

\* The callback changes what the call remembers, and nothing the mutex guards.
LEMMA MapCallsBackKeepsInv ==
    ASSUME TSInv, NEW t \in Thread, MapCallsBack(t)
    PROVE  TSInv'
<1> DEFINE more == [at |-> "working", op |-> call[t].op, read |-> call[t].read, ret |-> box.set]
<1>1. /\ call[t].at = "working"
      /\ call' = [call EXCEPT ![t] = more]
      /\ box' = box /\ log' = log /\ holder' = holder
  BY DEF MapCallsBack
<1>2. more.at = call[t].at /\ more.op = call[t].op /\ more.read = call[t].read
  BY <1>1
<1> HIDE DEF more
<1>3. Calls' /\ MutexHeld'
  BY <1>1, <1>2 DEF TSInv, Calls, MutexHeld
<1>4. IsLog(log)' /\ LogReplays'
  BY <1>1 DEF TSInv, LogReplays
<1> QED BY <1>3, <1>4 DEF TSInv

LEMMA EndWorkKeepsInv ==
    ASSUME TSInv, NEW t \in Thread, EndWork(t)
    PROVE  TSInv'
<1> DEFINE op == call[t].op
           result == Work(op, call[t].read)
           entry == [op |-> op, ret |-> result.ret]
<1>1. PICK next : /\ next = IF result.ret = Abort THEN [at |-> "aborted"]
                            ELSE [at |-> "unlocking", op |-> op]
                  /\ call' = [call EXCEPT ![t] = next]
  BY DEF EndWork
<1>2. /\ call[t].at = "working" /\ op.in \in Containers
      /\ box' = [box EXCEPT ![op.in] = result.state]
      /\ log' = Append(log, entry)
      /\ holder' = holder
  BY DEF EndWork, TSInv, Calls
<1>3. holder[op.in] = t /\ call[t].read = box[op.in]
  BY <1>2 DEF TSInv, MutexHeld
<1>4. next.at \in {"aborted", "unlocking"} /\ (next.at = "unlocking" => next.op = op)
  BY <1>1
<1>5. entry.op = op /\ entry.ret = result.ret
  OBVIOUS
<1>6. result = Work(op, box[op.in])
  BY <1>3
<1> HIDE DEF op, result, entry
<1>7. Calls'
  BY <1>1, <1>2, <1>4 DEF TSInv, Calls
<1>8. MutexHeld'
  <2> SUFFICES ASSUME NEW u \in Thread
               PROVE  /\ call'[u].at \in {"working", "unlocking"} => holder'[call'[u].op.in] = u
                      /\ call'[u].at = "working" => call'[u].read = box'[call'[u].op.in]
    BY DEF MutexHeld
  <2>1. CASE u = t
    BY <1>1, <1>2, <1>3, <1>4, <2>1 DEF TSInv, Calls
  <2>2. CASE u # t
    <3>1. call'[u] = call[u]
      BY <1>1, <2>2
    <3>2. call[u].at \in {"working", "unlocking"} => holder[call[u].op.in] = u
      BY DEF TSInv, MutexHeld
    <3>3. call[u].at = "working" => call[u].read = box[call[u].op.in] /\ call[u].op.in \in Containers
      BY DEF TSInv, Calls, MutexHeld
    <3> QED BY <1>2, <1>3, <2>2, <3>1, <3>2, <3>3 DEF TSInv, Calls
  <2> QED BY <2>1, <2>2
<1>9. IsLog(log)'
  BY <1>2, LogAppended DEF TSInv
<1>10. ASSUME NEW c \in Containers
       PROVE  \E h : Replays(h, c, log') /\ Leaves(h[Len(log')], box'[c])
  <2>1. PICK g : Replays(g, c, log) /\ Leaves(g[Len(log)], box[c])
    BY DEF TSInv, LogReplays
  <2>2. IF entry.op.in = c
        THEN box'[c] = Work(entry.op, box[c]).state /\ entry.ret = Work(entry.op, box[c]).ret
        ELSE box'[c] = box[c]
    BY <1>2, <1>5, <1>6 DEF TSInv, Calls
  <2>3. IsLog(log)
    BY DEF TSInv
  <2> QED BY <1>2, <2>1, <2>2, <2>3, ReplayedOnce
<1> QED BY <1>7, <1>8, <1>9, <1>10 DEF TSInv, LogReplays

LEMMA UnlockKeepsInv ==
    ASSUME TSInv, NEW t \in Thread, Unlock(t)
    PROVE  TSInv'
<1> DEFINE c == call[t].op.in
<1>1. /\ holder[c] = t /\ c \in Containers
      /\ holder' = [holder EXCEPT ![c] = NoThread]
      /\ call' = [call EXCEPT ![t] = Idle]
      /\ box' = box /\ log' = log
  BY DEF Unlock, TSInv, Calls, MutexHeld
<1> HIDE DEF c
<1>2. Calls'
  BY <1>1 DEF TSInv, Calls, Idle
<1>3. MutexHeld'
  BY <1>1 DEF TSInv, Calls, MutexHeld, Idle
<1>4. IsLog(log)' /\ LogReplays'
  BY <1>1 DEF TSInv, LogReplays
<1> QED BY <1>2, <1>3, <1>4 DEF TSInv

LEMMA TSInvStep == TSInv /\ [TSNext]_tsVars => TSInv'
<1> SUFFICES ASSUME TSInv, [TSNext]_tsVars PROVE TSInv'
  OBVIOUS
<1>1. CASE UNCHANGED tsVars
  BY <1>1 DEF tsVars, TSInv, Calls, MutexHeld, LogReplays
<1>2. CASE \E t \in Thread, op \in VectorOps \cup SetOps : Enter(t, op)
  BY <1>2, EnterKeepsInv
<1>3. CASE \E t \in Thread : Lock(t)
  BY <1>3, LockKeepsInv
<1>4. CASE \E t \in Thread : MapCallsBack(t)
  BY <1>4, MapCallsBackKeepsInv
<1>5. CASE \E t \in Thread : EndWork(t)
  BY <1>5, EndWorkKeepsInv
<1>6. CASE \E t \in Thread : Unlock(t)
  BY <1>6, UnlockKeepsInv
<1> QED BY <1>1, <1>2, <1>3, <1>4, <1>5, <1>6 DEF TSNext, Step

\* Whatever the threads, every operation on a thread-safe container takes
\* effect as a whole, in the order in which the operations end their work.
THEOREM OperationsLinearizable == TSSpec => []Linearizable
<1>1. TSInv => Linearizable
  <2> SUFFICES ASSUME TSInv, NEW c \in DOMAIN box
               PROVE  Replayed(c).good /\ Replayed(c).state = box[c]
    BY DEF Linearizable
  <2>1. PICK g : Replays(g, c, log) /\ Leaves(g[Len(log)], box[c])
    BY DEF TSInv, Calls, LogReplays
  <2>2. Replayed(c) = g[Len(log)]
    BY <2>1, ReplayedIs DEF TSInv
  <2> QED BY <2>1, <2>2 DEF Leaves
<1> QED BY <1>1, TSInvInit, TSInvStep, PTL DEF TSSpec
==============================================================================
