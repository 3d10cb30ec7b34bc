------------------------------ MODULE ConnPool ------------------------------
(***************************************************************************)
(* What the limited connection factory of assn-6-rss-news-search promises  *)
(* to the threads that use it: each of them can have one connection open   *)
(* at a time, and never are more than MaxTotalConns connections open, or   *)
(* more than MaxPerServer to one server.  Semaphores, tables and pointers  *)
(* are ConnLimiter's business.                                             *)
(***************************************************************************)
EXTENDS Naturals, FiniteSets

CONSTANTS Threads,        \* the threads of the program
          Servers,        \* the servers they fetch documents from
          NoServer,       \* "this thread has no connection"
          MaxTotalConns,  \* limit on the connections open at once
          MaxPerServer    \* limit on those open to one server

VARIABLE conn             \* conn[t]: the server t is connected to

OpenTo(s)  == {t \in Threads : conn[t] = s}
Connected  == {t \in Threads : conn[t] \in Servers}

Init == conn = [t \in Threads |-> NoServer]

Open(t, s) ==
    /\ conn[t] = NoServer
    /\ Cardinality(Connected) < MaxTotalConns
    /\ Cardinality(OpenTo(s)) < MaxPerServer
    /\ conn' = [conn EXCEPT ![t] = s]

Close(t) ==
    /\ conn[t] \in Servers
    /\ conn' = [conn EXCEPT ![t] = NoServer]

Next == \E t \in Threads : Close(t) \/ \E s \in Servers : Open(t, s)

Spec == Init /\ [][Next]_conn
=============================================================================
