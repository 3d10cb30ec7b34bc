SPECIFICATION Spec
CONSTANTS
  a = a
  b = b
  c = c
  Threads = {t1, t2, t3}
  Servers = {a, b, c}
  Buckets = {1, 2}
  Hash <- MCHash
  Rank <- MCRank
  MaxTotalConns = 2
  MaxServerConns = 1
  BucketAlloc = 1
  NoServer = NoServer
  NoPointer = NoPointer
INVARIANTS
  TypeOK
  TotalPermitsConserved
  ServerPermits
  BucketsSorted
  TableInv
PROPERTIES
  PoolSpec
SYMMETRY MCSymmetry
CHECK_DEADLOCK FALSE
