----------------------------- MODULE MCCrawler -----------------------------
(***************************************************************************)
(* Values for small instances of Crawler: two feeds on server x with one   *)
(* item each, whose articles are on server y.  A redirect leads to another *)
(* document of the same server.                                            *)
(***************************************************************************)
EXTENDS Crawler, TLC

CONSTANTS main, f1, f2, a1, a2, x, y

MCChildren  == (main :> <<f1, f2>>) @@ (f1 :> <<a1>>) @@ (f2 :> <<a2>>)
MCFirst     == [w \in Workers |-> IF w \in Feeds THEN x ELSE y]
MCRedirects == [s \in Servers |-> {s}]
MCHash      == [s \in Servers |-> IF s = x THEN 1 ELSE 2]
=============================================================================
