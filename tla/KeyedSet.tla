------------------------------ MODULE KeyedSet ------------------------------
(***************************************************************************)
(* What a hash set is to its client: a set in which an element replaces    *)
(* the one that is equal to it.                                            *)
(***************************************************************************)
EXTENDS Integers

CONSTANTS Elem, Rank

VARIABLE members

Init == members = {}

Enter(e) == members' = {m \in members : Rank[m] # Rank[e]} \cup {e}

Clear == members' = {}

Next == (\E e \in Elem : Enter(e)) \/ Clear

Spec == Init /\ [][Next]_members
=============================================================================
