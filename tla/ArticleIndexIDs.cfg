SPECIFICATION Spec
CONSTANTS
  p = p
  q = q
  d = d
  e = e
  s = s
  u = u
  v = v
  w = w
  Articles = {p, q}
  Docs = {d, e}
  Words = {s, u, v, w}
  StopWords = {s}
  Item <- MCItem
  ServerOf <- MCServer
  RedirectsTo <- MCRedirects
  Text <- MCText
  Buckets = {1, 2}
  Hash <- MCHash
  Rank <- MCRank
  BucketAlloc = 1
  VectorAlloc = 1
  MaxListed = 1
  MaxRedirects = 1
  NoArticle = NoArticle
  NoPointer = NoPointer
  NoList = NoList
INVARIANT IDNamesArticle
CHECK_DEADLOCK FALSE
