---------------------------- MODULE VectorClient ----------------------------
(***************************************************************************)
(* A client of one vector of assn-3-vector-hashset/vector.c.  It may call  *)
(* any operation with any position; a failed assertion ends the program.   *)
(* Every element it hands over is a new one, whose resources the vector's  *)
(* freeFn, if it was given one, must free once.                            *)
(***************************************************************************)
EXTENDS Vector

CONSTANT InitialAllocs   \* the initialAllocation arguments a client tries

ASSUME InitialAllocsAssumption == InitialAllocs \subseteq Int

VARIABLES vec,      \* the vector
          status,   \* "raw", "live", "disposed", or "aborted" by an assertion
          given,    \* the elements the client has handed over
          freed     \* freed[e]: how often freeFn has been called on e

vecVars == <<vec, status, given, freed>>

\* The client passes the same freeFn, or NULL, in every VectorNew.
VectorInit ==
    /\ \E frees \in BOOLEAN : vec = NewVector(0, frees)
    /\ status = "raw"
    /\ given = {}
    /\ freed = [e \in Elem |-> 0]

Abort == status' = "aborted" /\ UNCHANGED <<vec, given, freed>>

VectorNew(initialAllocation) ==
    /\ status \in {"raw", "disposed"}
    /\ \/ /\ initialAllocation >= 0
          /\ vec' = NewVector(initialAllocation, vec.frees)
          /\ status' = "live"
          /\ UNCHANGED <<given, freed>>
       \/ /\ initialAllocation < 0
          /\ vec' = [vec EXCEPT !.len = 0]
          /\ status' = "aborted"
          /\ UNCHANGED <<given, freed>>

VectorDispose ==
    /\ status = "live"
    /\ status' = "disposed"
    /\ freed' = Freed(freed, vec, 0..(vec.len - 1))
    /\ UNCHANGED <<vec, given>>

\* realloc of a saturated vector may fail.
VectorInsert(e, position) ==
    /\ status = "live"
    /\ e \notin given
    /\ \/ /\ position \in 0..vec.len
          /\ vec' = Inserted(vec, e, position)
          /\ given' = given \cup {e}
          /\ UNCHANGED <<status, freed>>
       \/ (position \notin 0..vec.len \/ vec.alloc = vec.len) /\ Abort

\* To be called on a sorted vector only.
VectorInsertSorted(e) ==
    /\ SortedFrom(vec, 0)
    /\ VectorInsert(e, InsertionPoint(vec, e))

VectorAppend(e) == VectorInsert(e, vec.len)

\* Mutant: the element that is replaced is not freed.
VectorReplaceLeaks(e, position) ==
    /\ status = "live"
    /\ e \notin given
    /\ InBounds(vec, position)
    /\ vec' = Replaced(vec, e, position)
    /\ given' = given \cup {e}
    /\ UNCHANGED <<status, freed>>

VectorReplace(e, position) ==
    /\ status = "live"
    /\ e \notin given
    /\ \/ /\ InBounds(vec, position)
          /\ freed' = Freed(freed, vec, {position})
          /\ vec' = Replaced(vec, e, position)
          /\ given' = given \cup {e}
          /\ UNCHANGED status
       \/ ~InBounds(vec, position) /\ Abort

VectorDelete(position) ==
    /\ status = "live"
    /\ \/ /\ InBounds(vec, position)
          /\ freed' = Freed(freed, vec, {position})
          /\ vec' = Deleted(vec, position)
          /\ UNCHANGED <<status, given>>
       \/ ~InBounds(vec, position) /\ Abort

VectorSort ==
    /\ status = "live"
    /\ UNCHANGED <<status, given, freed>>
    /\ \E v \in SortedArrays(vec) : vec' = v

VectorNext ==
    \/ \E n \in InitialAllocs : VectorNew(n)
    \/ VectorDispose
    \/ \E e \in Elem : VectorInsertSorted(e) \/ VectorAppend(e)
    \/ \E position \in -1..(vec.len + 1) :
          \/ \E e \in Elem : VectorInsert(e, position) \/ VectorReplace(e, position)
          \/ VectorDelete(position)
    \/ VectorSort

VectorSpec == VectorInit /\ [][VectorNext]_vecVars

-----------------------------------------------------------------------------
InVector(e) == status # "disposed" /\ Holds(vec, e)

\* The vector is well-formed: its elements fit in the array, and resizing
\* has kept the array's length a multiple of the initial allocation.
VectorTypeOK ==
    /\ status \in {"raw", "live", "disposed", "aborted"}
    /\ given \subseteq Elem
    /\ freed \in [Elem -> Nat]
    /\ WellFormed(vec)

\* An element that was handed over is in the vector, once, with its
\* resources; or it has left it and freeFn, if there is one, has been called
\* on it once.  No other element was ever in it.
VectorOwnership ==
    /\ Distinct(vec)
    /\ \A e \in Elem :
          /\ InVector(e) => e \in given
          /\ freed[e] = IF e \in given /\ ~InVector(e) /\ vec.frees THEN 1 ELSE 0

\* Where bsearch1 places an element in a sorted vector, nothing greater is
\* before it and nothing smaller after it.
InsertionKeepsOrder ==
    SortedFrom(vec, 0) =>
        \A e \in Elem :
            LET p == InsertionPoint(vec, e)
            IN  /\ p \in 0..vec.len
                /\ \A i \in 0..(vec.len - 1) :
                      IF i < p THEN Rank[vec.mem[i]] <= Rank[e]
                      ELSE Rank[e] <= Rank[vec.mem[i]]

\* VectorSearch from any start finds an element equal to the key, the first
\* one when it searches linearly, and -1 only if there is none.
SearchFinds ==
    \A e \in Elem, start \in 0..vec.len, isSorted \in BOOLEAN :
        (isSorted => SortedFrom(vec, start)) =>
            LET p == VectorSearch(vec, e, start, isSorted)
                equals == {i \in start..(vec.len - 1) : Rank[vec.mem[i]] = Rank[e]}
            IN  IF equals = {} THEN p = -1
                ELSE /\ p \in equals
                     /\ ~isSorted => \A i \in equals : p <= i

\* What the client sees, as a list.
Seen == IF status = "disposed" THEN <<>> ELSE Contents(vec)
L == INSTANCE List WITH list <- Seen

\* A call that returns has done this to the list; one that an assertion
\* stops has done nothing.
Does(listStep) == IF status' = "aborted" THEN UNCHANGED Seen ELSE listStep

\* Each call does to the list what it is named for, at the position and with
\* the element that it is given.
CallsTakeEffect ==
    /\ \A n \in InitialAllocs : VectorNew(n) => Does(L!Clear)
    /\ VectorDispose => Does(L!Clear)
    /\ \A e \in Elem : /\ VectorInsertSorted(e) => Does(L!InsertSorted(e))
                      /\ VectorAppend(e) => Does(L!Insert(e, Len(Seen) + 1))
    /\ \A position \in -1..(vec.len + 1) :
          /\ \A e \in Elem : /\ VectorInsert(e, position) => Does(L!Insert(e, position + 1))
                            /\ VectorReplace(e, position) => Does(L!Replace(e, position + 1))
          /\ VectorDelete(position) => Does(L!Delete(position + 1))
    /\ VectorSort => Does(L!Sort)

\* The vector implements the list, and call by call: whatever the array went
\* through, a client sees the insertion, replacement, deletion or sort it
\* asked for, where it asked for it, and no other.
ImplementsList == L!Spec /\ [][CallsTakeEffect]_vecVars
=============================================================================
