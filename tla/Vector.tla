------------------------------- MODULE Vector -------------------------------
(***************************************************************************)
(* The operations of assn-3-vector-hashset/vector.c as functions of a      *)
(* vector: an array of `alloc' elements, of which the first `len' are in   *)
(* use; the others hold whatever was left there.  Positions start at 0, as *)
(* in the code.  A write past the array is lost, and a read past it, like  *)
(* one of memory nobody has written, yields Blank.                         *)
(***************************************************************************)
EXTENDS Integers, Sequences, FiniteSets, Functions

CONSTANTS Elem,          \* the elements; each owns a resource
          Rank,          \* Rank[e]: the place of e in the compare order
          Blank,         \* memory nobody has written
          DefaultAlloc   \* DEFAULT_ALLOC_SIZE

ASSUME ElemAssumption  == Rank \in [Elem -> Nat] /\ Blank \notin Elem
ASSUME DefaultAssumption == DefaultAlloc \in Nat \ {0}

\* VectorNew; `frees' says whether freeFn is given.
NewVector(initialAllocation, frees) ==
    LET n == IF initialAllocation = 0 THEN DefaultAlloc ELSE initialAllocation
    IN  [mem |-> [i \in 0..(n - 1) |-> Blank], len |-> 0, alloc |-> n, inc |-> n,
         frees |-> frees]

InBounds(v, pos) == pos >= 0 /\ pos < v.len

ReadAt(mem, i) == IF i \in DOMAIN mem THEN mem[i] ELSE Blank

\* What the client sees: a sequence, counted from 1.
Contents(v) == [i \in 1..v.len |-> ReadAt(v.mem, i - 1)]

\* Mutant: the array grows one insertion too late.
GrownLate(v) ==
    IF v.len <= v.alloc THEN v
    ELSE [v EXCEPT !.alloc = @ + v.inc,
                   !.mem = [i \in 0..(v.alloc + v.inc - 1) |-> ReadAt(v.mem, i)]]

\* resizeIfSaturated; realloc keeps the contents.
Grown(v) ==
    IF v.alloc # v.len THEN v
    ELSE [v EXCEPT !.alloc = @ + v.inc,
                   !.mem = [i \in 0..(v.alloc + v.inc - 1) |-> ReadAt(v.mem, i)]]

\* memmove of n elements: overlapping areas are copied as if at once.
Moved(mem, dest, src, n) ==
    [i \in DOMAIN mem |-> IF i \in dest..(dest + n - 1)
                          THEN ReadAt(mem, src + (i - dest))
                          ELSE mem[i]]

\* Mutant: the last element is not moved.
ShiftedShort(v, position, hop) ==
    [v EXCEPT !.mem = Moved(@, position + hop, position, v.len - position - 1),
              !.len = @ + hop]

\* shiftTailOneStep: by hop, 1 or -1.
Shifted(v, position, hop) ==
    [v EXCEPT !.mem = Moved(@, position + hop, position, v.len - position),
              !.len = @ + hop]

Inserted(v, e, position) ==
    LET shifted == Shifted(Grown(v), position, 1)
    IN  [shifted EXCEPT !.mem[position] = e]

Replaced(v, e, position) == [v EXCEPT !.mem[position] = e]

\* Mutant: the move begins with the element to delete, so that the one before
\* it is overwritten.
DeletedBefore(v, position) == Shifted(v, position, -1)

Deleted(v, position) == Shifted(v, position + 1, -1)

-----------------------------------------------------------------------------
\* Areas of the array at or after start: from one position to before another.
Areas(v, start) == (start..v.len) \X (start..v.len)

\* Mutant: the search goes on at the middle instead of after it.
InsertionPointAtMiddle(v, e) ==
    LET at[area \in Areas(v, 0)] ==
            LET base == area[1]
                end  == area[2]
                mid  == base + (end - base) \div 2
            IN  IF base >= end THEN base
                ELSE IF Rank[e] = Rank[v.mem[mid]] THEN mid
                ELSE IF Rank[e] < Rank[v.mem[mid]] THEN at[<<base, mid>>]
                ELSE at[<<mid, end - 1>>]
    IN  at[<<0, v.len>>]

\* bsearch1: where e belongs among the nmemb = end - base elements from
\* position base on.
InsertionPoint(v, e) ==
    LET at[area \in Areas(v, 0)] ==
            LET base == area[1]
                end  == area[2]
                mid  == base + (end - base) \div 2
            IN  IF base >= end THEN base
                ELSE IF Rank[e] = Rank[v.mem[mid]] THEN mid
                ELSE IF Rank[e] < Rank[v.mem[mid]] THEN at[<<base, mid>>]
                ELSE at[<<mid + 1, end>>]
    IN  at[<<0, v.len>>]

\* bsearch of the C library, on the elements from start on.
Bsearch(v, e, start) ==
    LET at[area \in Areas(v, start)] ==
            LET l   == area[1]
                u   == area[2]
                mid == (l + u) \div 2
            IN  IF l >= u THEN -1
                ELSE IF Rank[e] = Rank[v.mem[mid]] THEN mid
                ELSE IF Rank[e] < Rank[v.mem[mid]] THEN at[<<l, mid>>]
                ELSE at[<<mid + 1, u>>]
    IN  at[<<start, v.len>>]

\* Mutant: the place is counted from where the search began.
LinearSearchRelative(v, e, start) ==
    LET at[i \in 0..(v.len - start)] ==
            IF i = v.len - start THEN -1
            ELSE IF Rank[e] = Rank[v.mem[start + i]] THEN i
            ELSE at[i + 1]
    IN  at[0]

\* VectorSearch of a vector that is not sorted.
LinearSearch(v, e, start) ==
    LET at[i \in 0..(v.len - start)] ==
            IF i = v.len - start THEN -1
            ELSE IF Rank[e] = Rank[v.mem[start + i]] THEN start + i
            ELSE at[i + 1]
    IN  at[0]

VectorSearch(v, e, start, isSorted) ==
    IF isSorted THEN Bsearch(v, e, start) ELSE LinearSearch(v, e, start)

\* In ascending order from a position on; equal elements in any order.
SortedFrom(v, start) ==
    \A i, j \in start..(v.len - 1) : i < j => Rank[v.mem[i]] <= Rank[v.mem[j]]

\* What qsort may leave: the elements in use, in ascending order.
SortedArrays(v) ==
    LET used == 0..(v.len - 1)
        arranged(f) == [v EXCEPT !.mem = [i \in DOMAIN @ |-> IF i \in used THEN @[f[i]] ELSE @[i]]]
    IN  {arranged(f) : f \in {g \in Bijection(used, used) : SortedFrom(arranged(g), 0)}}

\* freeFn is called on each element of a set of positions.
Freed(freed, v, positions) ==
    IF ~v.frees THEN freed
    ELSE [e \in DOMAIN freed |->
             freed[e] + Cardinality({i \in positions : v.mem[i] = e})]

\* The elements in use fit in the array, whose length is a multiple of the
\* initial allocation, and none of them is memory nobody has written.
WellFormed(v) ==
    /\ v \in [mem : [0..(v.alloc - 1) -> Elem \cup {Blank}], len : 0..v.alloc,
               alloc : Nat, inc : Nat \ {0}, frees : BOOLEAN]
    /\ \E k \in 1..v.alloc : v.alloc = k * v.inc
    /\ \A i \in 0..(v.len - 1) : v.mem[i] \in Elem

Holds(v, e) == \E i \in 0..(v.len - 1) : v.mem[i] = e

Distinct(v) == \A i, j \in 0..(v.len - 1) : v.mem[i] = v.mem[j] => i = j
=============================================================================
