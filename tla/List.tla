-------------------------------- MODULE List --------------------------------
(***************************************************************************)
(* What a vector is to its client: a sequence of elements that can be      *)
(* inserted, replaced, deleted and sorted.                                 *)
(***************************************************************************)
EXTENDS Integers, Sequences, Functions

CONSTANTS Elem, Rank

VARIABLE list

Init == list = <<>>

Insert(e, i) ==
    list' = SubSeq(list, 1, i - 1) \o <<e>> \o SubSeq(list, i, Len(list))

InOrder(s) == \A i, j \in DOMAIN s : i < j => Rank[s[i]] <= Rank[s[j]]

\* Somewhere in a sequence in ascending order, such that it stays so.
InsertSorted(e) ==
    /\ InOrder(list)
    /\ \E i \in 1..(Len(list) + 1) : Insert(e, i)
    /\ InOrder(list')

Replace(e, i) == list' = [list EXCEPT ![i] = e]

Delete(i) == list' = SubSeq(list, 1, i - 1) \o SubSeq(list, i + 1, Len(list))

\* The same elements in ascending order.
Sort ==
    \E f \in Bijection(DOMAIN list, DOMAIN list) :
        /\ list' = [i \in DOMAIN list |-> list[f[i]]]
        /\ \A i, j \in DOMAIN list : i < j => Rank[list[f[i]]] <= Rank[list[f[j]]]

Clear == list' = <<>>

Next == \/ \E e \in Elem : \E i \in 1..(Len(list) + 1) : Insert(e, i)
        \/ \E e \in Elem : \E i \in DOMAIN list : Replace(e, i)
        \/ \E i \in DOMAIN list : Delete(i)
        \/ Sort
        \/ Clear

Spec == Init /\ [][Next]_list
=============================================================================
