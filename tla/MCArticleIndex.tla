-------------------------- MODULE MCArticleIndex --------------------------
(***************************************************************************)
(* Values for small instances of ArticleIndex: words u and v share a       *)
(* bucket, w has its own, and s is a stop word.  Threads p and q have two  *)
(* articles of one server; that of p can redirect to that of q.            *)
(***************************************************************************)
EXTENDS ArticleIndex, TLC

CONSTANTS p, q, d, e, s, u, v, w

MCItem      == (p :> [title |-> "one", doc |-> d]) @@ (q :> [title |-> "two", doc |-> e])
MCServer    == [x \in Docs |-> "server"]
MCRedirects == [x \in Docs |-> IF x = d THEN {e} ELSE {}]
MCText      == (d :> <<w, u, w>>) @@ (e :> <<s, v, w>>)
MCHash      == [x \in Words |-> IF x = w THEN 2 ELSE 1]
MCRank      == [x \in Words |-> IF x = u THEN 2 ELSE IF x = v THEN 1 ELSE IF x = w THEN 3 ELSE 4]
=============================================================================
