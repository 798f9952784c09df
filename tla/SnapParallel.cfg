SPECIFICATION Spec
CONSTANTS
  a1 = a1  a2 = a2  c1 = c1  c2 = c2  w1 = w1  b1 = b1  b2 = b2  b3 = b3  h1 = h1  h2 = h2
  Procs = {p1, p2}
  Accounts = {a1, a2}
  Contracts = {c1, c2}
  Wasms = {w1}
  Buckets = {b1, b2, b3}
  Content <- TwoArchive
  Histories = {h1, h2}
  Levels <- TwoCheckpoints
  Requests <- OneSearch
  None = None
  LedgerVersion <- Versions
  Inodes = {n1, n2, n3, n4}
  U32 = 256
  Asked = {}
INVARIANT OnlyNewest
SYMMETRY Symmetry
