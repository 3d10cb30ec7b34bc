---------------------------- MODULE TSContainers ----------------------------
(***************************************************************************)
(* tsvector.c and tshashset.c: a vector and a hash set, each behind a      *)
(* recursive mutex of its own.  Each operation locks, works and unlocks.   *)
(* The work is not atomic: it reads the container when it begins and       *)
(* writes what it makes of it when it ends, and only the mutex keeps other *)
(* threads out.  The vector is here the sequence of its elements and the   *)
(* hash set the set of its elements, which is what List and KeyedSet say   *)
(* of them.                                                                *)
(***************************************************************************)
EXTENDS Integers, Sequences, FiniteSets, SequencesExt

CONSTANTS Thread,
          Key,        \* elements; natural numbers, ordered as they compare
          Same(_, _), \* do two elements of the hash set compare equal?
          Positions,  \* positions in a vector, counted from 0
          NoThread,
          TSCalls    \* bound: calls in a behaviour

ASSUME ThreadAssumption == NoThread \notin Thread
ASSUME KeyAssumption == Key \subseteq Nat \ {0} /\ Positions \subseteq Nat

VARIABLES box,     \* box["vector"], box["set"]: the contents
          holder,  \* the thread that has locked the mutex
          call,    \* what each thread is doing
          log      \* history: the operations in the order of their work

tsVars == <<box, holder, call, log>>

Idle == [at |-> "idle"]

\* The operations on the vector and on the hash set, with their arguments; 0
\* stands where an operation takes none.
VectorOps ==
    [in : {"vector"}, name : {"append", "search"}, key : Key, pos : {0}] \cup
    [in : {"vector"}, name : {"insert", "replace"}, key : Key, pos : Positions] \cup
    [in : {"vector"}, name : {"delete", "nth"}, key : {0}, pos : Positions] \cup
    [in : {"vector"}, name : {"length", "sort"}, key : {0}, pos : {0}]
SetOps ==
    [in : {"set"}, name : {"enter", "lookup"}, key : Key, pos : {0}] \cup
    [in : {"set"}, name : {"count", "map"}, key : {0}, pos : {0}]

TSInit ==
    /\ box = [vector |-> <<>>, set |-> {}]
    /\ holder = [c \in DOMAIN box |-> NoThread]
    /\ call = [t \in Thread |-> Idle]
    /\ log = <<>>

\* TSVector...: what the operation leaves and returns; Abort if the vector
\* asserts that the position is in bounds.  TSVectorNth returns an address,
\* here the position: what is there when it is used is no longer under lock.
Abort == <<>>
VectorWork(op, v) ==
    LET inside == op.pos < Len(v)
        found == {i \in DOMAIN v : v[i] = op.key}
        answer(s, r) == [state |-> s, ret |-> <<r>>]
    IN  CASE op.name = "append"  -> answer(Append(v, op.key), 0)
          [] op.name = "insert" /\ op.pos <= Len(v) -> answer(InsertAt(v, op.pos + 1, op.key), 0)
          [] op.name = "replace" /\ inside -> answer(ReplaceAt(v, op.pos + 1, op.key), 0)
          [] op.name = "delete" /\ inside  -> answer(RemoveAt(v, op.pos + 1), 0)
          [] op.name = "nth" /\ inside     -> answer(v, op.pos)
          [] op.name = "search" -> answer(v, IF found = {} THEN -1
                                             ELSE (CHOOSE i \in found : \A j \in found : i <= j) - 1)
          [] op.name = "length" -> answer(v, Len(v))
          [] op.name = "sort"   -> answer(SortSeq(v, <), 0)
          [] OTHER              -> [state |-> v, ret |-> Abort]

\* TSHashSet...: an equal element is replaced; a lookup returns NULL or not.
SetWork(op, s) ==
    LET equal == {m \in s : Same(m, op.key)}
    IN  CASE op.name = "enter"  -> [state |-> (s \ equal) \cup {op.key}, ret |-> <<0>>]
          [] op.name = "lookup" -> [state |-> s, ret |-> <<equal # {}>>]
          [] op.name = "count"  -> [state |-> s, ret |-> <<Cardinality(s)>>]
          [] op.name = "map"    -> [state |-> s, ret |-> <<s>>]

Work(op, contents) ==
    IF op.in = "vector" THEN VectorWork(op, contents) ELSE SetWork(op, contents)

\* Mutant: PTHREAD_MUTEX_NORMAL.
CanLockOnce(t, c) == holder[c] = NoThread

\* A recursive mutex can be locked by its holder again.
CanLock(t, c) == holder[c] \in {NoThread, t}

Enter(t, op) ==
    /\ call[t].at = "idle"
    /\ Cardinality({u \in Thread : call[u].at # "idle"}) + Len(log) < TSCalls
    /\ call' = [call EXCEPT ![t] = [at |-> "locking", op |-> op]]
    /\ UNCHANGED <<box, holder, log>>

\* Mutant: the operation works without the mutex.
LockNothing(t) ==
    /\ call[t].at = "locking"
    /\ call' = [call EXCEPT ![t] = [at |-> "working", op |-> @.op, read |-> box[@.op.in]]]
    /\ UNCHANGED <<box, holder, log>>

\* pthread_mutex_lock; the work begins.
Lock(t) ==
    /\ call[t].at = "locking"
    /\ LET op == call[t].op
       IN  /\ CanLock(t, op.in)
           /\ holder' = [holder EXCEPT ![op.in] = t]
           /\ call' = [call EXCEPT ![t] = [at |-> "working", op |-> op, read |-> box[op.in]]]
    /\ UNCHANGED <<box, log>>

\* The function that TSHashSetMap is given looks something up in the same hash
\* set, which locks and unlocks the mutex that TSHashSetMap holds.
MapCallsBack(t) ==
    /\ call[t].at = "working" /\ call[t].op.name = "map" /\ "ret" \notin DOMAIN call[t]
    /\ CanLock(t, "set")
    /\ call' = [call EXCEPT ![t] = [at |-> "working", op |-> @.op, read |-> @.read,
                                   ret |-> box.set]]
    /\ UNCHANGED <<box, holder, log>>

\* The work ends.  An assertion that fails ends the program, here the thread
\* for good, with the mutex locked.
EndWork(t) ==
    /\ call[t].at = "working"
    /\ LET op == call[t].op
           result == Work(op, call[t].read)
       IN  /\ op.name = "map" => "ret" \in DOMAIN call[t]
           /\ box' = [box EXCEPT ![op.in] = result.state]
           /\ log' = Append(log, [op |-> op, ret |-> result.ret])
           /\ call' = [call EXCEPT ![t] = IF result.ret = Abort THEN [at |-> "aborted"]
                                          ELSE [at |-> "unlocking", op |-> op]]
    /\ UNCHANGED holder

Unlock(t) ==
    /\ call[t].at = "unlocking"
    /\ holder' = [holder EXCEPT ![call[t].op.in] = NoThread]
    /\ call' = [call EXCEPT ![t] = Idle]
    /\ UNCHANGED <<box, log>>

Aborted == \E t \in Thread : call[t].at = "aborted"

Step(t) == /\ ~Aborted
           /\ Lock(t) \/ MapCallsBack(t) \/ EndWork(t) \/ Unlock(t)

TSNext == \E t \in Thread : \/ \E op \in VectorOps \cup SetOps : ~Aborted /\ Enter(t, op)
                            \/ Step(t)

TSFairness == \A t \in Thread : WF_tsVars(Step(t))
TSSpec == TSInit /\ [][TSNext]_tsVars /\ TSFairness

-----------------------------------------------------------------------------
\* What the operations on c in the log make of an empty container, one after
\* the other, and whether they return then what they returned.
Empty(c) == IF c = "vector" THEN <<>> ELSE {}
Redone(r, entry) ==
    LET again == Work(entry.op, r.state)
    IN  [state |-> again.state, good |-> r.good /\ again.ret = entry.ret]
Replayed(c) ==
    LET upTo[n \in 0..Len(log)] ==
            IF n = 0 THEN [state |-> Empty(c), good |-> TRUE]
            ELSE IF log[n].op.in # c THEN upTo[n - 1]
            ELSE Redone(upTo[n - 1], log[n])
    IN  upTo[Len(log)]

\* The operations take effect one after the other, in the order of the log:
\* replayed in this order on an empty container they return what they
\* returned, and leave what is there (the mutex in every wrapper).
Linearizable == \A c \in DOMAIN box : Replayed(c).good /\ Replayed(c).state = box[c]

\* A call returns, also one whose function calls back into the container, if
\* no assertion ends the program (PTHREAD_MUTEX_RECURSIVE).
CallsReturn == \A t \in Thread : call[t].at # "idle" ~> call[t].at = "idle" \/ Aborted
=============================================================================
