SPECIFICATION FairSpec
CONSTANTS
  a1 = a1  a2 = a2  c1 = c1  c2 = c2  w1 = w1  b1 = b1  b2 = b2  b3 = b3  h1 = h1  h2 = h2
  Procs = {p1}
  Accounts = {a1, a2}
  Contracts = {c1, c2}
  Wasms = {w1}
  Buckets = {b1, b2, b3}
  Content <- Archive
  Histories = {h1, h2}
  Levels <- Checkpoints
  Requests <- Searches
  None = None
  LedgerVersion <- Versions
  Inodes = {n1, n2, n3}
  U32 = 256
  Asked = {100, 127}
INVARIANTS BucketsComplete
PROPERTY WrittenIsView
PROPERTY SnapshotEnds
