SPECIFICATION FairSpec
CONSTANTS
  main = main
  f1 = f1
  f2 = f2
  a1 = a1
  a2 = a2
  x = x
  y = y
  Main = main
  Feeds = {f1, f2}
  Articles = {a1, a2}
  ChildrenOf <- MCChildren
  FirstServer <- MCFirst
  RedirectsTo <- MCRedirects
  MaxRedirects = 1
  Servers = {x, y}
  Buckets = {1, 2}
  Hash <- MCHash
  Rank <- MCHash
  MaxTotalConns = 3
  MaxServerConns = 1
  BucketAlloc = 4
  NoServer = NoServer
  NoPointer = NoPointer
INVARIANTS
  TypeOK
  FactoryOutlivesThreads
  ArgumentsFreedOnce
PROPERTIES
  UsesLimiter
  Terminates
CHECK_DEADLOCK FALSE
