SPECIFICATION MCSpec
CONSTANTS
    e1 = e1
    e2 = e2
    e3 = e3
    e4 = e4
    e5 = e5
    Elem = {e1, e2, e3, e4, e5}
    Rank <- MCRank
    Blank = Blank
    DefaultAlloc = 2
    InitialAllocs <- MCInitialAllocs
    Hash <- MCHash
    BucketAlloc = 1
    BucketCounts <- MCBucketCounts
INVARIANTS
    VectorTypeOK
    VectorOwnership
    InsertionKeepsOrder
    SearchFinds
    HashSetTypeOK
    BucketsInOrder
    SetOwnership
    LookupFinds
PROPERTIES
    ImplementsList
    ImplementsKeyedSet
    BucketsAreSlotTables
CHECK_DEADLOCK FALSE
