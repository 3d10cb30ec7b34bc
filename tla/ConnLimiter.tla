---------------------------- MODULE ConnLimiter ----------------------------
(***************************************************************************)
(* The limited URL connection factory of assn-6-rss-news-search            *)
(* (limitedurlconnectionfactory.c over concurr-conn-utils.c): a counting   *)
(* semaphore for all connections, and a thread-safe hash set that holds    *)
(* one counting semaphore per server, entered when the server is first     *)
(* asked for.                                                              *)
(*                                                                         *)
(* The hash set locks its mutex inside each operation only, so the grain   *)
(* of an action is one operation on a semaphore or on the set: any thread  *)
(* can run between a lookup and the use of the pointer it returned.  A     *)
(* pointer is the address of a SLOT of a bucket, not of a server's entry:  *)
(* a later insertion can move another entry into the slot (memmove) or     *)
(* free the array it lies in (realloc).                                    *)
(***************************************************************************)
EXTENDS SlotTable

CONSTANTS
    Threads,         \* feed and article threads that use the factory
    Servers,         \* server names, distinct up to case (strcasecmp)
    Buckets,         \* buckets of serverConnSems
    Hash,            \* Hash[s]: the bucket StringHash sends s to
    MaxTotalConns,   \* maxTotalConns of ConcurrConnUtilsNew
    MaxServerConns,  \* maxServerConns of ConcurrConnUtilsNew
    NoServer,        \* a thread outside the factory has no target
    NoPointer        \* and no pointer into the hash set

ASSUME ThreadsAssumption == IsFiniteSet(Threads)
ASSUME LimitsAssumption  == MaxTotalConns \in Nat /\ MaxServerConns \in Nat
ASSUME HashAssumption    == Hash \in [Servers -> Buckets]
ASSUME RankAssumption    == /\ Rank \in [Servers -> Nat]
                            /\ \A r, s \in Servers : Rank[r] = Rank[s] => r = s
ASSUME NoServerAssumption == NoServer \notin Servers

VARIABLES
    live,     \* the factory is initialized and not yet disposed of
    totSem,   \* totConnSem
    table,    \* table[b]: the vector of bucket b of serverConnSems
    pc,       \* pc[t]: where t is in LimitedURLConnectionNew / Dispose
    target,   \* target[t]: the server t asked for
    scs,      \* scs[t]: the serverConnSem* of ConcurrConnUtilsWait / Post
    entered   \* history: how often each server was passed to TSHashSetEnter

vars == <<live, totSem, table, pc, target, scs, entered>>

PCs == {"idle", "waitTotal", "lookup", "enter", "relookup", "waitServer",
        "open", "postTotal", "lookupPost", "postServer", "aborted"}

\* struct serverConnSem; the compare function looks at the server name.
Slot    == [key : Servers, sem : Nat]
Bucket  == [gen : Nat, alloc : Nat, slots : Seq(Slot)]
Pointer == [bucket : Buckets, gen : Nat, pos : Nat \ {0}]

Slots(s)     == table[Hash[s]].slots
PlacesOf(s)  == Places(Slots(s), s)
Present(s)   == PlacesOf(s) # {}

\* What TSHashSetLookup returns for a server that is present.
AddressOf(s) == [bucket |-> Hash[s],
                 gen    |-> table[Hash[s]].gen,
                 pos    |-> PlaceOf(Slots(s), s)]

\* The array p points into has not been given back to the heap.
Allocated(p) == /\ p.gen = table[p.bucket].gen
                /\ p.pos \in DOMAIN table[p.bucket].slots

SemAt(p) == table[p.bucket].slots[p.pos].sem

\* The slot p points to holds the semaphore of server s.
PointsTo(p, s) == /\ Allocated(p)
                  /\ table[p.bucket].slots[p.pos].key = s

-----------------------------------------------------------------------------
\* Mutant: the semaphore starts with one permit too many.
NewSlotOneMore(s) == [key |-> s, sem |-> MaxServerConns + 1]

NewSlot(s) == [key |-> s, sem |-> MaxServerConns]

\* A new entry; one that replaces another destroys its semaphore.
HashSetEnter(s) ==
    \E b \in Entered(table[Hash[s]], NewSlot(s)) :
        table' = [table EXCEPT ![Hash[s]] = b]

-----------------------------------------------------------------------------
Goto(t, label) == pc' = [pc EXCEPT ![t] = label]
At(t, label)   == live /\ pc[t] = label

Init ==
    /\ live = TRUE
    /\ totSem = MaxTotalConns
    /\ table = [b \in Buckets |-> EmptyBucket]
    /\ pc = [t \in Threads |-> "idle"]
    /\ target = [t \in Threads |-> NoServer]
    /\ scs = [t \in Threads |-> NoPointer]
    /\ entered = [s \in Servers |-> 0]

\* LimitedURLConnectionNew(factory, urlconn, u): a call for u->serverName.
CallNew(t, s) ==
    /\ At(t, "idle")
    /\ Goto(t, "waitTotal")
    /\ target' = [target EXCEPT ![t] = s]
    /\ UNCHANGED <<live, totSem, table, scs, entered>>

\* Mutant: a sem_wait that was interrupted is taken for one that succeeded.
WaitTotalInterrupted(t) ==
    /\ At(t, "waitTotal")
    /\ totSem' = IF totSem > 0 THEN totSem - 1 ELSE 0
    /\ Goto(t, "lookup")
    /\ UNCHANGED <<live, table, target, scs, entered>>

\* sem_wait(&ccu->totConnSem)
WaitTotal(t) ==
    /\ At(t, "waitTotal")
    /\ totSem > 0
    /\ totSem' = totSem - 1
    /\ Goto(t, "lookup")
    /\ UNCHANGED <<live, table, target, scs, entered>>

\* The first TSHashSetLookup of ConcurrConnUtilsWait, and its test.
LookupFound(t) ==
    /\ At(t, "lookup")
    /\ Present(target[t])
    /\ scs' = [scs EXCEPT ![t] = AddressOf(target[t])]
    /\ Goto(t, "waitServer")
    /\ UNCHANGED <<live, totSem, table, target, entered>>

LookupMissed(t) ==
    /\ At(t, "lookup")
    /\ ~Present(target[t])
    /\ Goto(t, "enter")
    /\ UNCHANGED <<live, totSem, table, target, scs, entered>>

\* sem_init of a new semaphore and TSHashSetEnter of it.
Enter(t) ==
    /\ At(t, "enter")
    /\ HashSetEnter(target[t])
    /\ entered' = [entered EXCEPT ![target[t]] = @ + 1]
    /\ Goto(t, "relookup")
    /\ UNCHANGED <<live, totSem, target, scs>>

\* A lookup followed by assert(scs != NULL).
LookupOrAbort(t, next) ==
    IF Present(target[t])
    THEN /\ scs' = [scs EXCEPT ![t] = AddressOf(target[t])]
         /\ Goto(t, next)
    ELSE /\ Goto(t, "aborted")
         /\ UNCHANGED scs

Relookup(t) ==
    /\ At(t, "relookup")
    /\ LookupOrAbort(t, "waitServer")
    /\ UNCHANGED <<live, totSem, table, target, entered>>

\* Mutant: the count is taken from without waiting for a permit.
WaitServerUnguarded(t) ==
    /\ At(t, "waitServer")
    /\ Allocated(scs[t])
    /\ table' = [table EXCEPT ![scs[t].bucket].slots[scs[t].pos].sem = @ - 1]
    /\ Goto(t, "open")
    /\ scs' = [scs EXCEPT ![t] = NoPointer]
    /\ UNCHANGED <<live, totSem, target, entered>>

(***************************************************************************)
(* sem_wait(&scs->serverSemaphore), then URLConnectionNew.  Through a      *)
(* dangling pointer the call is undefined: it returns (this action) or     *)
(* blocks (the action is not taken), and the set keeps what it holds.      *)
(***************************************************************************)
WaitServer(t) ==
    /\ At(t, "waitServer")
    /\ Allocated(scs[t]) => SemAt(scs[t]) > 0
    /\ table' = IF Allocated(scs[t])
                THEN [table EXCEPT ![scs[t].bucket].slots[scs[t].pos].sem = @ - 1]
                ELSE table
    /\ Goto(t, "open")
    /\ scs' = [scs EXCEPT ![t] = NoPointer]
    /\ UNCHANGED <<live, totSem, target, entered>>

\* LimitedURLConnectionDispose: URLConnectionDispose closes the connection.
CallDispose(t) ==
    /\ At(t, "open")
    /\ Goto(t, "postTotal")
    /\ UNCHANGED <<live, totSem, table, target, scs, entered>>

\* Mutant: the permit is not given back.
PostTotalForgotten(t) ==
    /\ At(t, "postTotal")
    /\ Goto(t, "lookupPost")
    /\ UNCHANGED <<live, totSem, table, target, scs, entered>>

\* sem_post(&ccu->totConnSem)
PostTotal(t) ==
    /\ At(t, "postTotal")
    /\ totSem' = totSem + 1
    /\ Goto(t, "lookupPost")
    /\ UNCHANGED <<live, table, target, scs, entered>>

\* TSHashSetLookup and assert(scs != NULL) of ConcurrConnUtilsPost.
LookupPost(t) ==
    /\ At(t, "lookupPost")
    /\ LookupOrAbort(t, "postServer")
    /\ UNCHANGED <<live, totSem, table, target, entered>>

\* Mutant: the server's permit is not given back.
PostServerForgotten(t) ==
    /\ At(t, "postServer")
    /\ Goto(t, "idle")
    /\ target' = [target EXCEPT ![t] = NoServer]
    /\ scs' = [scs EXCEPT ![t] = NoPointer]
    /\ UNCHANGED <<live, totSem, table, entered>>

\* sem_post(&scs->serverSemaphore) and the return to the caller.
PostServer(t) ==
    /\ At(t, "postServer")
    /\ table' = IF Allocated(scs[t])
                THEN [table EXCEPT ![scs[t].bucket].slots[scs[t].pos].sem = @ + 1]
                ELSE table
    /\ Goto(t, "idle")
    /\ target' = [target EXCEPT ![t] = NoServer]
    /\ scs' = [scs EXCEPT ![t] = NoPointer]
    /\ UNCHANGED <<live, totSem, entered>>

(***************************************************************************)
(* LimitedURLConnectionFactoryDispose frees the table and destroys the     *)
(* semaphores; it does not look whether a thread still uses them.          *)
(***************************************************************************)
FactoryDispose ==
    /\ live
    /\ live' = FALSE
    /\ UNCHANGED <<totSem, table, pc, target, scs, entered>>

\* The steps a thread takes inside the factory once it has called it.
InFactory(t) ==
    \/ WaitTotal(t)
    \/ LookupFound(t)
    \/ LookupMissed(t)
    \/ Enter(t)
    \/ Relookup(t)
    \/ WaitServer(t)
    \/ PostTotal(t)
    \/ LookupPost(t)
    \/ PostServer(t)

\* The caller disposes of the factory when no thread uses it (it has joined
\* them); the module that composes the factory with its callers checks that.
DisposeWhenUnused ==
    /\ \A t \in Threads : pc[t] = "idle"
    /\ FactoryDispose

Next ==
    \/ \E t \in Threads :
          \/ \E s \in Servers : CallNew(t, s)
          \/ InFactory(t)
          \/ CallDispose(t)
    \/ DisposeWhenUnused

Spec == Init /\ [][Next]_vars

-----------------------------------------------------------------------------
TypeOK ==
    /\ live \in BOOLEAN
    /\ totSem \in Nat
    /\ table \in [Buckets -> Bucket]
    /\ pc \in [Threads -> PCs]
    /\ target \in [Threads -> Servers \cup {NoServer}]
    /\ scs \in [Threads -> Pointer \cup {NoPointer}]
    /\ entered \in [Servers -> Nat]

\* Threads that took a total permit and have not given it back.
TotalHolders == {t \in Threads : pc[t] \in {"lookup", "enter", "relookup",
                                            "waitServer", "open", "postTotal"}}

\* Threads between the sem_wait and the sem_post of the semaphore of s.
ServerHolders(s) == {t \in Threads :
    target[t] = s /\ pc[t] \in {"open", "postTotal", "lookupPost", "postServer"}}

\* Threads with an open connection to s.
OpenTo(s) == {t \in Threads : target[t] = s /\ pc[t] = "open"}

\* No other server shares the bucket of s.
Alone(s) == \A r \in Servers : Hash[r] = Hash[s] => r = s

(***************************************************************************)
(* The total permits are conserved: what the semaphore holds and what the  *)
(* threads hold make the limit, whatever happens in the hash set.          *)
(***************************************************************************)
TotalPermitsConserved == totSem + Cardinality(TotalHolders) = MaxTotalConns

(***************************************************************************)
(* The permits of a server whose bucket is its own (its entry is the only  *)
(* slot): every TSHashSetEnter of it makes at most MaxServerConns permits, *)
(* and if it was entered once none is lost or made up afterwards.          *)
(***************************************************************************)
PermitsOf(s) == Slots(s)[1].sem + Cardinality(ServerHolders(s))

ServerPermits ==
    \A s \in Servers : Alone(s) /\ Present(s) =>
        /\ PermitsOf(s) <= MaxServerConns * entered[s]
        /\ entered[s] = 1 => PermitsOf(s) = MaxServerConns

(***************************************************************************)
(* The order and the uniqueness bsearch relies on: each bucket is strictly *)
(* sorted, whichever threads raced to enter its servers.                   *)
(***************************************************************************)
BucketsSorted == \A b \in Buckets : Sorted(table[b].slots)

(***************************************************************************)
(* assert(scs != NULL) never fails, neither after an Enter nor in Post:    *)
(* a thread that has seen or made an entry for its server finds it again.  *)
(***************************************************************************)
Registered ==
    \A t \in Threads : pc[t] \in {"relookup", "waitServer", "open", "postTotal",
                                  "lookupPost", "postServer"} =>
        Present(target[t])

AssertionsHold == \A t \in Threads : pc[t] # "aborted"

\* What the factory's parameter promises: never more than MaxServerConns
\* connections are open to one server.
ServerLimit == \A s \in Servers : Cardinality(OpenTo(s)) <= MaxServerConns

(***************************************************************************)
(* What the comment on HashSetLookup asks of its callers: the pointer a    *)
(* thread waits on or posts through is still that of its server's entry.   *)
(***************************************************************************)
PointersCurrent ==
    \A t \in Threads : pc[t] \in {"waitServer", "postServer"} =>
        PointsTo(scs[t], target[t])

-----------------------------------------------------------------------------
(***************************************************************************)
(* The inductive invariant of the proofs.                                  *)
(***************************************************************************)
\* A thread in the factory has a target, and only it.
TargetKnown == \A t \in Threads : pc[t] # "idle" => target[t] \in Servers

\* The history variable counts what made the entries.
EntriesCounted == \A s \in Servers : Present(s) <=> entered[s] > 0

\* Entries lie in the bucket of their server, and a bucket has room for one.
EntriesAtHome ==
    \A b \in Buckets :
        /\ table[b].alloc >= BucketAlloc
        /\ \A i \in DOMAIN table[b].slots : Hash[table[b].slots[i].key] = b

\* A bucket of one server has at most one slot.
OneSlot == \A s \in Servers : Alone(s) => Len(Slots(s)) <= 1

\* The pointer of a thread is into the bucket of its server, and current if
\* no other server can disturb the bucket.
PointersLocated ==
    \A t \in Threads : pc[t] \in {"waitServer", "postServer"} =>
        /\ scs[t] \in Pointer
        /\ scs[t].bucket = Hash[target[t]]
        /\ Alone(target[t]) => PointsTo(scs[t], target[t])

TableInv == /\ TypeOK
            /\ TargetKnown
            /\ AssertionsHold
            /\ Registered
            /\ EntriesCounted
            /\ EntriesAtHome
            /\ OneSlot
            /\ PointersLocated

-----------------------------------------------------------------------------
(***************************************************************************)
(* The refinement: a thread at "open" is connected to its target.  The     *)
(* total limit is kept in every case, so the pool it implements has no     *)
(* narrower limit per server.                                              *)
(***************************************************************************)
connBar == [t \in Threads |-> IF pc[t] = "open" THEN target[t] ELSE NoServer]

Pool == INSTANCE ConnPool WITH conn <- connBar, MaxPerServer <- MaxTotalConns

PoolSpec == Pool!Spec
=============================================================================
