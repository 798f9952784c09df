--------------------------- MODULE SnapshotProofs ---------------------------
(***************************************************************************)
(* Proofs about SnapshotCreate, for any archive, any requests and any      *)
(* number of passes, kills and `cache clean`s, as long as one process at a *)
(* time uses the cache: the buckets in the cache are complete, and what is *)
(* written is what LedgerView asks for.                                    *)
(***************************************************************************)
EXTENDS SnapshotCreate, TLAPS

\* One process at a time.
Sole == \A p, q \in Procs : p = q

\* Nobody asks for an account by its G address (which is taken for a contract's).
NoGAddress == \A r \in Requests : \A a \in Accounts : <<"G", a>> \notin r.addresses

---------------------------------------------------------------------------
(* The inductive invariant.                                                *)

\* The files in the cache are complete, and nobody writes to them any more.
CacheInv ==
    /\ BucketsComplete
    /\ \A b, c \in Buckets : dl[b] # None => dl[b] # file[c]
    /\ \A b, c \in Buckets : dl[b] # None /\ dl[b] = dl[c] => b = c

\* A download: what is copied so far, to a file that only this process has.
CopyAt(p) ==
    IF pc[p] = "copy"
    THEN /\ fd[p] \in Inodes
         /\ \A b \in Buckets : file[b] # fd[p]
         /\ \A b \in Buckets : dl[b] = fd[p] => b = Bucket(p)
         /\ dl[Bucket(p)] # None => dl[Bucket(p)] = fd[p]
         /\ data[fd[p]] = 1 .. off[p]
         /\ off[p] <= Len(Content[Bucket(p)])
    ELSE fd[p] = None

\* Key k is mentioned in one of the levels before level n.
Before(h, n, k) == \E m \in DOMAIN Levels[h] : m < n /\ Mentions(Levels[h][m], k)

\* What the first pass finds, and what the second one looks for.
FirstFound(r) == Found(r.history, Resolve(r))
SecondTerms(r) == [accounts  |-> Refs(FirstFound(r)).accounts,
                   contracts |-> {},
                   wasms     |-> Refs(FirstFound(r)).wasms \ r.wasms]
FoundBefore(h, n, t) == {e \in Found(h, t) : Before(h, n, e.key)}

\* What the first and the second pass, with the terms t and u, have seen before level n.
SeenFirst(h, n, t) == {k \in Keys : Keep(t, k) /\ Before(h, n, k)}
SeenSecond(h, n, t, u) ==
    {k \in Keys : \/ Keep(t, k) /\ Before(h, Len(Levels[h]) + 1, k)
                  \/ Keep(u, k) /\ Before(h, n, k)}

\* The first pass, before level n.
FirstPass(p, r, n) ==
    /\ current[p] = Resolve(r)
    /\ seen[p] = SeenFirst(r.history, n, Resolve(r))
    /\ entries[p] = FoundBefore(r.history, n, Resolve(r))
    /\ next[p] = [accounts  |-> Refs(entries[p]).accounts,
                  contracts |-> {},
                  wasms     |-> Refs(entries[p]).wasms \ r.wasms]

\* The second pass, before level n.
SecondPass(p, r, n) ==
    /\ current[p] = SecondTerms(r)
    /\ seen[p] = SeenSecond(r.history, n, Resolve(r), SecondTerms(r))
    /\ entries[p] = FirstFound(r) \cup FoundBefore(r.history, n, SecondTerms(r))
    /\ next[p] = NoTerms

SearchAt(p) ==
    pc[p] # "idle" =>
        /\ req[p] \in Requests
        /\ level[p] \in 1 .. Len(History(p)) + 1
        /\ pc[p] \in {"open", "copy", "read"} => level[p] <= Len(History(p))
        /\ pc[p] \in {"read", "write"} => mode[p] = "search"
        /\ pc[p] = "write" => entries[p] = FirstFound(req[p])
                                              \cup Found(req[p].history, SecondTerms(req[p]))
        /\ mode[p] = "precache" =>
               /\ current[p] = Resolve(req[p])
               /\ next[p] = NoTerms /\ seen[p] = {} /\ entries[p] = {}
        /\ mode[p] = "search" /\ pc[p] # "write" =>
               \/ FirstPass(p, req[p], level[p])
               \/ SecondPass(p, req[p], level[p])

WrittenAt(p) ==
    written[p] # None =>
        /\ req[p] \in Requests
        /\ written[p].entries = FirstFound(req[p]) \cup Found(req[p].history, SecondTerms(req[p]))

SnapshotInv ==
    /\ TypeOK
    /\ CacheInv
    /\ \A p \in Procs : CopyAt(p) /\ SearchAt(p) /\ WrittenAt(p)

---------------------------------------------------------------------------
(* What one bucket adds.                                                   *)

\* All entries of bucket b.
Whole(b) == {Content[b][i] : i \in DOMAIN Content[b]}

\* What a pass with the terms t takes from bucket b, when it has seen the keys `old`,
\* and the live entries among it.
Taken(b, t, old) == {e \in Whole(b) : e.key \notin old /\ Keep(t, e.key)}
Live(es) == {e \in es : e.val # None}

\* The entries of a bucket have keys and values of their types.
LEMMA WholeType ==
    ASSUME NEW b \in Buckets
    PROVE  /\ Whole(b) \subseteq Entries
           /\ Whole(b) \subseteq AllContent
           /\ \A k : Mentions(b, k) <=> \E e \in Whole(b) : e.key = k
  <1>1. Content[b] \in Seq(Entries)
    BY ContentAssumption
  <1>2. \A i \in DOMAIN Content[b] : Content[b][i] \in Entries
    BY <1>1
  <1>. QED  BY <1>2 DEF Whole, AllContent, Mentions

\* The levels of a checkpoint name buckets.
LEMMA LevelType ==
    ASSUME NEW h \in Histories
    PROVE  /\ Len(Levels[h]) \in Nat
           /\ DOMAIN Levels[h] = 1 .. Len(Levels[h])
           /\ \A l \in DOMAIN Levels[h] : Levels[h][l] \in Buckets
  BY LevelsAssumption

\* Before, at the first level and one level further.
LEMMA BeforeStep ==
    ASSUME NEW h \in Histories
    PROVE  /\ \A k : ~Before(h, 1, k)
           /\ \A l \in DOMAIN Levels[h] : \A k :
                 Before(h, l + 1, k) <=> Before(h, l, k) \/ Mentions(Levels[h][l], k)
  <1>. DOMAIN Levels[h] = 1 .. Len(Levels[h]) /\ Len(Levels[h]) \in Nat
    BY LevelType
  <1>1. \A k : ~Before(h, 1, k)
    BY DEF Before
  <1>2. ASSUME NEW l \in DOMAIN Levels[h], NEW k
        PROVE  Before(h, l + 1, k) <=> Before(h, l, k) \/ Mentions(Levels[h][l], k)
    <2>1. \A m \in DOMAIN Levels[h] : m < l + 1 <=> (m < l \/ m = l)
      OBVIOUS
    <2>. QED  BY <2>1 DEF Before
  <1>. QED  BY <1>1, <1>2

\* An entry that is found is mentioned in some level.
LEMMA FoundBeforeEnd ==
    ASSUME NEW h \in Histories, NEW t, NEW e \in Found(h, t)
    PROVE  Before(h, Len(Levels[h]) + 1, e.key) /\ e \in Entries
  <1>. DOMAIN Levels[h] = 1 .. Len(Levels[h]) /\ Len(Levels[h]) \in Nat
    BY LevelType
  <1>1. PICK l \in DOMAIN Levels[h] :
            \E i \in DOMAIN Content[Levels[h][l]] : Content[Levels[h][l]][i] = e
    BY DEF Found, Newest
  <1>2. Mentions(Levels[h][l], e.key)
    BY <1>1 DEF Mentions
  <1>3. e \in Whole(Levels[h][l])
    BY <1>1 DEF Whole
  <1>. QED  BY <1>2, <1>3, WholeType, LevelType DEF Before

\* In the bucket of the first level that mentions a key, the entry of that key is the
\* newest one.
LEMMA FirstMention ==
    ASSUME NEW h \in Histories, NEW l \in DOMAIN Levels[h], NEW t, NEW e,
           ~Before(h, l, e.key)
    PROVE  /\ e \in Whole(Levels[h][l]) /\ e.val # None /\ Keep(t, e.key) => e \in Found(h, t)
           /\ e \in Found(h, t) /\ Mentions(Levels[h][l], e.key) => e \in Whole(Levels[h][l])
  <1>. DOMAIN Levels[h] = 1 .. Len(Levels[h]) /\ Len(Levels[h]) \in Nat
    BY LevelType
  <1>1. \A m \in 1 .. l - 1 : ~Mentions(Levels[h][m], e.key)
    BY DEF Before
  <1>2. ASSUME e \in Whole(Levels[h][l]), e.val # None, Keep(t, e.key)
        PROVE  e \in Found(h, t)
    <2>1. e \in AllContent
      BY <1>2, WholeType, LevelType
    <2>2. \E i \in DOMAIN Content[Levels[h][l]] : Content[Levels[h][l]][i] = e
      BY <1>2 DEF Whole
    <2>3. Newest(h, e)
      BY <1>1, <2>2 DEF Newest
    <2>. QED  BY <1>2, <2>1, <2>3 DEF Found
  <1>3. ASSUME e \in Found(h, t), Mentions(Levels[h][l], e.key)
        PROVE  e \in Whole(Levels[h][l])
    <2>1. PICK m \in DOMAIN Levels[h] :
              /\ \E i \in DOMAIN Content[Levels[h][m]] : Content[Levels[h][m]][i] = e
              /\ \A n \in 1 .. m - 1 : ~Mentions(Levels[h][n], e.key)
      BY <1>3 DEF Found, Newest
    <2>2. Mentions(Levels[h][m], e.key)
      BY <2>1 DEF Mentions
    <2>3. ~(m < l)
      BY <1>1, <2>2
    <2>4. ~(l < m)
      BY <2>1, <1>3
    <2>5. m = l
      BY <2>3, <2>4
    <2>. QED  BY <2>1, <2>5 DEF Whole
  <1>. QED  BY <1>2, <1>3

\* The first pass over level l: what is seen and found before level l + 1.
LEMMA ReadFirst ==
    ASSUME NEW h \in Histories, NEW l \in DOMAIN Levels[h], NEW t, NEW old, NEW fresh,
           old = SeenFirst(h, l, t), fresh = Taken(Levels[h][l], t, old)
    PROVE  /\ old \cup {e.key : e \in fresh} = SeenFirst(h, l + 1, t)
           /\ FoundBefore(h, l, t) \cup Live(fresh) = FoundBefore(h, l + 1, t)
  <1>. USE DEF SeenFirst, Taken, Live
  <1>. DEFINE b == Levels[h][l]
  <1>0. b \in Buckets /\ Whole(b) \subseteq Entries
    BY LevelType, WholeType
  <1>1. \A k : Before(h, l + 1, k) <=> Before(h, l, k) \/ Mentions(b, k)
    BY BeforeStep
  <1>2. \A k : Mentions(b, k) <=> \E e \in Whole(b) : e.key = k
    BY <1>0, WholeType
  <1>3. \A e \in Whole(b) : e.key \in Keys
    BY <1>0 DEF Entries
  <1>4. old \cup {e.key : e \in fresh} = SeenFirst(h, l + 1, t)
    BY <1>1, <1>2, <1>3
  <1>5. ASSUME NEW e \in fresh, e.val # None
        PROVE  e \in FoundBefore(h, l + 1, t)
    <2>1. e \in Whole(b) /\ Keep(t, e.key) /\ ~Before(h, l, e.key)
      BY <1>3
    <2>2. e \in Found(h, t)
      BY <2>1, <1>5, FirstMention
    <2>. QED  BY <2>1, <2>2, <1>1, <1>2 DEF FoundBefore
  <1>6. ASSUME NEW e \in FoundBefore(h, l + 1, t), ~Before(h, l, e.key)
        PROVE  e \in fresh /\ e.val # None
    <2>1. e \in Found(h, t) /\ Mentions(b, e.key)
      BY <1>6, <1>1 DEF FoundBefore
    <2>2. e \in Whole(b)
      BY <2>1, <1>6, FirstMention
    <2>. QED  BY <2>1, <2>2, <1>6 DEF Found
  <1>7. FoundBefore(h, l, t) \subseteq FoundBefore(h, l + 1, t)
    BY <1>1 DEF FoundBefore
  <1>8. \A e \in FoundBefore(h, l + 1, t) : Before(h, l, e.key) => e \in FoundBefore(h, l, t)
    BY DEF FoundBefore
  <1>. QED  BY <1>4, <1>5, <1>6, <1>7, <1>8

\* The second pass over level l, when everything that the terms u find is known.
LEMMA ReadSecond ==
    ASSUME NEW h \in Histories, NEW l \in DOMAIN Levels[h], NEW t, NEW u, NEW old, NEW fresh,
           old = SeenSecond(h, l, u, t), fresh = Taken(Levels[h][l], t, old)
    PROVE  /\ old \cup {e.key : e \in fresh} = SeenSecond(h, l + 1, u, t)
           /\ (Found(h, u) \cup FoundBefore(h, l, t)) \cup Live(fresh)
                  = Found(h, u) \cup FoundBefore(h, l + 1, t)
  <1>. USE DEF SeenSecond, Taken, Live
  <1>. DEFINE b == Levels[h][l]
  <1>0. b \in Buckets /\ Whole(b) \subseteq Entries
    BY LevelType, WholeType
  <1>1. \A k : Before(h, l + 1, k) <=> Before(h, l, k) \/ Mentions(b, k)
    BY BeforeStep
  <1>2. \A k : Mentions(b, k) <=> \E e \in Whole(b) : e.key = k
    BY <1>0, WholeType
  <1>3. \A e \in Whole(b) : e.key \in Keys
    BY <1>0 DEF Entries
  <1>4. old \cup {e.key : e \in fresh} = SeenSecond(h, l + 1, u, t)
    BY <1>1, <1>2, <1>3
  <1>5. ASSUME NEW e \in fresh, e.val # None
        PROVE  e \in FoundBefore(h, l + 1, t)
    <2>1. e \in Whole(b) /\ Keep(t, e.key) /\ ~Before(h, l, e.key)
      BY <1>3
    <2>2. e \in Found(h, t)
      BY <2>1, <1>5, FirstMention
    <2>. QED  BY <2>1, <2>2, <1>1, <1>2 DEF FoundBefore
  <1>6. ASSUME NEW e \in FoundBefore(h, l + 1, t), ~Before(h, l, e.key)
        PROVE  e \in Found(h, u) \/ (e \in fresh /\ e.val # None)
    <2>1. e \in Found(h, t) /\ Mentions(b, e.key)
      BY <1>6, <1>1 DEF FoundBefore
    <2>2. e \in Whole(b)
      BY <2>1, <1>6, FirstMention
    <2>3. CASE Keep(u, e.key)
      BY <2>3, <2>1 DEF Found
    <2>4. CASE ~Keep(u, e.key)
      BY <2>4, <2>1, <2>2, <1>6 DEF Found
    <2>. QED  BY <2>3, <2>4
  <1>7. FoundBefore(h, l, t) \subseteq FoundBefore(h, l + 1, t)
    BY <1>1 DEF FoundBefore
  <1>8. \A e \in FoundBefore(h, l + 1, t) : Before(h, l, e.key) => e \in FoundBefore(h, l, t)
    BY DEF FoundBefore
  <1>. QED  BY <1>4, <1>5, <1>6, <1>7, <1>8

\* What two sets of entries make wanted.
LEMMA RefsUnion ==
    ASSUME NEW A, NEW B
    PROVE  /\ Refs(A \cup B).accounts = Refs(A).accounts \cup Refs(B).accounts
           /\ Refs(A \cup B).wasms = Refs(A).wasms \cup Refs(B).wasms
  BY DEF Refs

\* The second pass finds what the wanted entries of the first one name.
LEMMA SecondFound ==
    ASSUME NEW r \in Requests
    PROVE  FirstFound(r) \cup Found(r.history, SecondTerms(r))
               = FirstFound(r) \cup Found(r.history, Refs(FirstFound(r)))
  <1>1. ASSUME NEW k, Keep(Refs(FirstFound(r)), k)
        PROVE  Keep(SecondTerms(r), k) \/ Keep(Resolve(r), k)
    BY <1>1 DEF Keep, SecondTerms, Resolve, Refs
  <1>2. ASSUME NEW k, Keep(SecondTerms(r), k)
        PROVE  Keep(Refs(FirstFound(r)), k)
    BY <1>2 DEF Keep, SecondTerms, Refs
  <1>. QED  BY <1>1, <1>2 DEF FirstFound, Found

---------------------------------------------------------------------------
(* The invariant is inductive.                                             *)

\* The terms that a request starts from, and those of the second pass, are terms.
LEMMA TermTypes ==
    ASSUME NEW r \in Requests
    PROVE  /\ Resolve(r) \in Terms
           /\ SecondTerms(r) \in Terms
           /\ r.history \in Histories
           /\ r.wasms \subseteq Wasms
           /\ Resolve(r).wasms = r.wasms
  <1>1. r.wasms \subseteq Wasms /\ r.history \in Histories
    BY RequestsAssumption
  <1>. QED  BY <1>1 DEF Resolve, SecondTerms, Terms, Refs

\* The first states satisfy the invariant.
LEMMA InitSnapshot == Init => SnapshotInv
  <1>. SUFFICES ASSUME Init PROVE SnapshotInv
    OBVIOUS
  <1>1. TypeOK
    BY DEF Init, TypeOK, Terms, NoTerms
  <1>2. CacheInv
    BY DEF Init, CacheInv, BucketsComplete
  <1>3. \A p \in Procs : CopyAt(p) /\ SearchAt(p) /\ WrittenAt(p)
    BY DEF Init, CopyAt, SearchAt, WrittenAt
  <1>. QED  BY <1>1, <1>2, <1>3 DEF SnapshotInv

\* Locals has the types of a fresh process.
LEMMA LocalsType ==
    ASSUME TypeOK, NEW p \in Procs, NEW t \in Terms, Locals(p, t)
    PROVE  /\ mode' \in [Procs -> {"precache", "search"}]
           /\ level' \in [Procs -> Nat] /\ off' \in [Procs -> Nat]
           /\ fd' \in [Procs -> Inodes \cup {None}]
           /\ current' \in [Procs -> Terms] /\ next' \in [Procs -> Terms]
           /\ seen' \in [Procs -> SUBSET Keys] /\ entries' \in [Procs -> SUBSET Entries]
           /\ version' \in [Procs -> Nat]
           /\ mode'[p] = "precache" /\ level'[p] = 1 /\ fd'[p] = None
           /\ current'[p] = t /\ next'[p] = NoTerms /\ seen'[p] = {} /\ entries'[p] = {}
  BY DEF TypeOK, Locals, Terms, NoTerms

\* What Start, NoHistory, Stop and Clean do to the invariant.
LEMMA StartStep ==
    ASSUME SnapshotInv, Sole, NEW p \in Procs, NEW r \in Requests, Start(p, r)
    PROVE  SnapshotInv'
  <1>. USE DEF SnapshotInv
  <1>1. Resolve(r) \in Terms /\ r.history \in Histories
    BY TermTypes
  <1>2. Locals(p, Resolve(r))
    BY DEF Start
  <1>3. TypeOK'
    BY <1>1, <1>2, LocalsType DEF TypeOK, Start, Goto, cache
  <1>4. CacheInv'
    BY DEF CacheInv, BucketsComplete, Start, cache
  <1>5. req'[p] = r /\ pc'[p] = "check" /\ written'[p] = None
    BY DEF TypeOK, Start, Goto
  <1>6. CopyAt(p)'
    BY <1>1, <1>2, <1>5, LocalsType DEF CopyAt
  <1>7. SearchAt(p)'
    BY <1>1, <1>2, <1>5, LocalsType, LevelType DEF SearchAt, History
  <1>8. WrittenAt(p)'
    BY <1>5 DEF WrittenAt
  <1>. QED  BY <1>3, <1>4, <1>6, <1>7, <1>8 DEF Sole

\* See StartStep.
LEMMA NoHistoryStep ==
    ASSUME SnapshotInv, NEW p \in Procs, NEW l \in Asked, NoHistory(p, l)
    PROVE  SnapshotInv'
  <1>. USE DEF SnapshotInv
  <1>1. UNCHANGED <<cache, pc, req, mode, level, copying, search, written>>
    BY DEF NoHistory
  <1>2. Suggested(l) \subseteq 0 .. U32 - 1
    BY U32Assumption, Z3 DEF Suggested, CheckpointFrequency
  <1>3. TypeOK'
    BY <1>1, <1>2 DEF TypeOK, NoHistory, cache, copying, search
  <1>4. CacheInv'
    BY <1>1 DEF CacheInv, BucketsComplete, cache
  <1>5. ASSUME NEW q \in Procs
        PROVE  (CopyAt(q) /\ SearchAt(q) /\ WrittenAt(q))'
    BY <1>1 DEF CopyAt, SearchAt, WrittenAt, FirstPass, SecondPass, History, Bucket,
                cache, copying, search
  <1>. QED  BY <1>3, <1>4, <1>5

\* See StartStep.
LEMMA StopStep ==
    ASSUME SnapshotInv, Sole, NEW p \in Procs, Stop(p)
    PROVE  SnapshotInv'
  <1>. USE DEF SnapshotInv
  <1>1. NoTerms \in Terms
    BY DEF NoTerms, Terms
  <1>2. Locals(p, NoTerms)
    BY DEF Stop
  <1>3. TypeOK'
    BY <1>1, <1>2, LocalsType DEF TypeOK, Stop, cache
  <1>4. CacheInv'
    BY DEF CacheInv, BucketsComplete, Stop, cache
  <1>5. req' = req /\ pc'[p] = "idle" /\ written' = written
    BY DEF TypeOK, Stop
  <1>6. CopyAt(p)'
    BY <1>1, <1>2, <1>5, LocalsType DEF CopyAt
  <1>7. SearchAt(p)'
    BY <1>5 DEF SearchAt
  <1>8. WrittenAt(p)'
    BY <1>5 DEF WrittenAt
  <1>. QED  BY <1>3, <1>4, <1>6, <1>7, <1>8 DEF Sole

\* See StartStep.
LEMMA CleanStep ==
    ASSUME SnapshotInv, Clean
    PROVE  SnapshotInv'
  <1>. USE DEF SnapshotInv
  <1>1. /\ \A b \in Buckets : file'[b] = None /\ dl'[b] = None
        /\ UNCHANGED <<data, pc, req, mode, level, copying, search, written, hint>>
    BY DEF Clean
  <1>2. TypeOK'
    BY <1>1 DEF TypeOK, Clean, copying, search
  <1>3. CacheInv'
    BY <1>1 DEF CacheInv, BucketsComplete
  <1>4. ASSUME NEW q \in Procs
        PROVE  CopyAt(q)' /\ SearchAt(q)' /\ WrittenAt(q)'
    <2>1. SearchAt(q)' /\ WrittenAt(q)'
      BY <1>1 DEF SearchAt, WrittenAt, FirstPass, SecondPass, History, copying, search
    <2>2. pc[q] = "copy" => Bucket(q) \in Buckets
      BY LevelType, TermTypes DEF SearchAt, Bucket, History
    <2>3. CopyAt(q)'
      BY <1>1, <2>2, InodesAssumption DEF CopyAt, Bucket, History, copying, TypeOK
    <2>. QED  BY <2>1, <2>3
  <1>. QED  BY <1>2, <1>3, <1>4

---------------------------------------------------------------------------

\* A process that works on a level works on a bucket.
LEMMA BucketType ==
    ASSUME SnapshotInv, NEW p \in Procs, pc[p] # "idle", level[p] <= Len(History(p))
    PROVE  /\ req[p] \in Requests /\ req[p].history \in Histories
           /\ level[p] \in DOMAIN Levels[req[p].history]
           /\ Bucket(p) = Levels[req[p].history][level[p]]
           /\ Bucket(p) \in Buckets
           /\ Content[Bucket(p)] \in Seq(Entries)
  <1>1. req[p] \in Requests /\ level[p] \in 1 .. Len(History(p)) + 1
    BY DEF SnapshotInv, SearchAt
  <1>2. req[p].history \in Histories
    BY <1>1, TermTypes
  <1>3. level[p] \in DOMAIN Levels[req[p].history]
    BY <1>1, <1>2, LevelType DEF History
  <1>. QED  BY <1>1, <1>2, <1>3, LevelType, ContentAssumption DEF Bucket, History

\* Where the process goes once the bucket is cached.
LEMMA CachedType ==
    ASSUME TypeOK, NEW p \in Procs, Cached(p)
    PROVE  /\ pc' \in [Procs -> {"idle", "check", "open", "copy", "read", "write"}]
           /\ level' \in [Procs -> Nat]
           /\ \/ pc'[p] = "read" /\ UNCHANGED level /\ mode[p] = "search"
              \/ pc'[p] = "check" /\ level'[p] = level[p] + 1 /\ mode[p] = "precache"
  <1>. /\ pc \in [Procs -> {"idle", "check", "open", "copy", "read", "write"}]
       /\ level \in [Procs -> Nat] /\ mode[p] \in {"precache", "search"}
    BY DEF TypeOK
  <1>1. CASE mode[p] = "search"
    BY <1>1 DEF Cached
  <1>2. CASE mode[p] = "precache"
    <2>1. pc' = [pc EXCEPT ![p] = "check"] /\ level' = [level EXCEPT ![p] = level[p] + 1]
      BY <1>2 DEF Cached
    <2>. QED  BY <2>1, <1>2
  <1>. QED  BY <1>1, <1>2

\* cache_bucket finds the file.
LEMMA CheckCacheStep ==
    ASSUME SnapshotInv, Sole, NEW p \in Procs, CheckCache(p)
    PROVE  SnapshotInv'
  <1>. USE DEF SnapshotInv
  <1>1. /\ pc[p] = "check" /\ level[p] <= Len(History(p))
        /\ UNCHANGED <<cache, req, mode, copying, search, written, hint>>
        /\ \/ pc'[p] = "read" /\ UNCHANGED level /\ mode[p] = "search"
           \/ pc'[p] = "check" /\ level'[p] = level[p] + 1 /\ mode[p] = "precache"
           \/ pc'[p] = "open" /\ UNCHANGED level
    BY CachedType DEF CheckCache, TypeOK
  <1>2. TypeOK'
    <2>1. pc' \in [Procs -> {"idle", "check", "open", "copy", "read", "write"}] /\ level' \in [Procs -> Nat]
      BY CachedType DEF TypeOK, CheckCache
    <2>. QED  BY <1>1, <2>1 DEF TypeOK, cache, copying, search
  <1>3. CacheInv'
    BY <1>1 DEF CacheInv, BucketsComplete, cache
  <1>4. CopyAt(p)'
    BY <1>1 DEF CopyAt, copying
  <1>5. WrittenAt(p)'
    BY <1>1 DEF WrittenAt
  <1>6. SearchAt(p)'
    <2>1. req[p].history \in Histories /\ Len(History(p)) \in Nat /\ level[p] \in Nat
      BY <1>1, BucketType, LevelType DEF History, TypeOK
    <2>2. /\ History(p)' = History(p) /\ req'[p] = req[p] /\ mode'[p] = mode[p]
          /\ current'[p] = current[p] /\ next'[p] = next[p]
          /\ seen'[p] = seen[p] /\ entries'[p] = entries[p]
      BY <1>1 DEF History, search
    <2>3. SearchAt(p) /\ pc[p] # "idle"
      BY <1>1
    <2>4. CASE pc'[p] = "check" /\ level'[p] = level[p] + 1 /\ mode[p] = "precache"
      BY <2>1, <2>2, <2>3, <2>4, <1>1 DEF SearchAt
    <2>5. CASE pc'[p] \in {"read", "open"} /\ level' = level
      <3>1. \A r, n : /\ FirstPass(p, r, n)' <=> FirstPass(p, r, n)
                      /\ SecondPass(p, r, n)' <=> SecondPass(p, r, n)
        BY <2>2 DEF FirstPass, SecondPass
      <3>. QED  BY <2>1, <2>2, <2>3, <2>5, <1>1, <3>1 DEF SearchAt
    <2>. QED  BY <1>1, <2>4, <2>5
  <1>. QED  BY <1>2, <1>3, <1>4, <1>5, <1>6 DEF Sole

\* The download starts.
LEMMA OpenDownloadStep ==
    ASSUME SnapshotInv, Sole, NEW p \in Procs, NEW n \in Inodes, OpenDownload(p, n)
    PROVE  SnapshotInv'
  <1>. USE DEF SnapshotInv
  <1>. DEFINE b == Bucket(p)
  <1>0. /\ pc[p] = "open" /\ pc'[p] = "copy"
        /\ UNCHANGED <<file, req, mode, level, search, written, hint>>
    BY DEF OpenDownload, Goto, TypeOK
  <1>1. level[p] <= Len(History(p))
    BY <1>0 DEF SearchAt
  <1>2. b \in Buckets /\ Content[b] \in Seq(Entries) /\ level[p] \in Nat
    BY <1>0, <1>1, BucketType DEF TypeOK
  <1>3. TypeOK'
    BY <1>2 DEF TypeOK, OpenDownload, Goto, search
  <1>4. /\ dl'[b] = n /\ \A c \in Buckets : c # b => dl'[c] = dl[c]
        /\ data'[n] = {} /\ \A m \in Inodes : m # n => data'[m] = data[m]
        /\ fd'[p] = n /\ off'[p] = 0
    BY <1>2 DEF TypeOK, OpenDownload
  <1>5. \A c \in Buckets : n # file[c]
    BY <1>2 DEF OpenDownload, Used, CacheInv
  <1>6. \A c \in Buckets : dl[c] = n => c = b
    BY <1>2, InodesAssumption DEF OpenDownload, Used, CacheInv
  <1>7. CacheInv'
    BY <1>0, <1>4, <1>5, <1>6 DEF CacheInv, BucketsComplete, TypeOK
  <1>8. b' = b
    BY <1>0 DEF Bucket, History
  <1>9. CopyAt(p)'
    <2>1. data'[n] = 1 .. 0
      BY <1>4
    <2>2. 0 <= Len(Content[b])
      BY <1>2
    <2>. QED  BY <1>0, <1>2, <1>4, <1>5, <1>6, <1>8, <2>1, <2>2 DEF CopyAt
  <1>10. SearchAt(p)'
    BY <1>0, <1>1 DEF SearchAt, FirstPass, SecondPass, History, search
  <1>11. WrittenAt(p)'
    BY <1>0 DEF WrittenAt
  <1>. QED  BY <1>3, <1>7, <1>9, <1>10, <1>11 DEF Sole

\* One more entry is copied.
LEMMA CopyStep ==
    ASSUME SnapshotInv, Sole, NEW p \in Procs, Copy(p)
    PROVE  SnapshotInv'
  <1>. USE DEF SnapshotInv
  <1>. DEFINE b == Bucket(p)
  <1>0. /\ pc[p] = "copy"
        /\ UNCHANGED <<file, dl, pc, req, mode, level, fd, search, written, hint>>
    BY DEF Copy
  <1>1. level[p] <= Len(History(p))
    BY <1>0 DEF SearchAt
  <1>2. b \in Buckets /\ Content[b] \in Seq(Entries) /\ Len(Content[b]) \in Nat
    BY <1>0, <1>1, BucketType
  <1>3. fd[p] \in Inodes /\ off[p] \in Nat /\ off[p] + 1 <= Len(Content[b])
    BY <1>0, <1>2 DEF CopyAt, Copy, TypeOK
  <1>4. /\ off'[p] = off[p] + 1
        /\ data'[fd[p]] = data[fd[p]] \cup {off[p] + 1}
        /\ \A m \in Inodes : m # fd[p] => data'[m] = data[m]
    BY <1>3 DEF TypeOK, Copy
  <1>5. TypeOK'
    BY <1>3 DEF TypeOK, Copy, search
  <1>6. CacheInv'
    BY <1>0, <1>4 DEF CacheInv, BucketsComplete, TypeOK, CopyAt
  <1>7. CopyAt(p)'
    <2>1. data'[fd[p]] = 1 .. off'[p]
      BY <1>0, <1>3, <1>4 DEF CopyAt
    <2>. QED  BY <1>0, <1>3, <1>4, <2>1 DEF CopyAt, Bucket, History
  <1>8. SearchAt(p)'
    BY <1>0 DEF SearchAt, FirstPass, SecondPass, History, search
  <1>9. WrittenAt(p)'
    BY <1>0 DEF WrittenAt
  <1>. QED  BY <1>5, <1>6, <1>7, <1>8, <1>9 DEF Sole

\* The complete file is linked into the cache.
LEMMA RenameStep ==
    ASSUME SnapshotInv, Sole, NEW p \in Procs, RenameDownload(p)
    PROVE  SnapshotInv'
  <1>. USE DEF SnapshotInv
  <1>. DEFINE b == Bucket(p)
  <1>0. /\ pc[p] = "copy" /\ off[p] = Len(Content[b]) /\ dl[b] # None
        /\ UNCHANGED <<data, req, mode, off, search, written, hint>>
    BY DEF RenameDownload
  <1>1. level[p] <= Len(History(p))
    BY <1>0 DEF SearchAt
  <1>2. b \in Buckets /\ Content[b] \in Seq(Entries) /\ level[p] \in Nat
    BY <1>0, <1>1, BucketType DEF TypeOK
  <1>3. /\ file'[b] = fd[p] /\ \A c \in Buckets : c # b => file'[c] = file[c]
        /\ dl'[b] = None /\ \A c \in Buckets : c # b => dl'[c] = dl[c]
        /\ fd'[p] = None
    BY <1>0, <1>2 DEF TypeOK, RenameDownload, CopyAt
  <1>4. /\ \/ pc'[p] = "read" /\ UNCHANGED level /\ mode[p] = "search"
           \/ pc'[p] = "check" /\ level'[p] = level[p] + 1 /\ mode[p] = "precache"
    BY CachedType DEF RenameDownload
  <1>5. TypeOK'
    <2>1. pc' \in [Procs -> {"idle", "check", "open", "copy", "read", "write"}] /\ level' \in [Procs -> Nat]
      BY CachedType DEF RenameDownload
    <2>2. /\ file' \in [Buckets -> Inodes \cup {None}] /\ dl' \in [Buckets -> Inodes \cup {None}]
          /\ fd' \in [Procs -> Inodes \cup {None}]
      BY <1>2 DEF TypeOK, RenameDownload
    <2>. QED  BY <1>0, <2>1, <2>2 DEF TypeOK, search
  <1>6. data[fd[p]] = DOMAIN Content[b]
    BY <1>0, <1>2 DEF CopyAt
  <1>7. CacheInv'
    <2>1. BucketsComplete'
      BY <1>0, <1>3, <1>6 DEF CacheInv, BucketsComplete
    <2>2. ASSUME NEW c \in Buckets, NEW d \in Buckets, dl'[c] # None
          PROVE  dl'[c] # file'[d] /\ (dl'[c] = dl'[d] => c = d)
      <3>1. c # b /\ dl'[c] = dl[c] /\ dl[c] # fd[p]
        BY <1>0, <1>3, <2>2 DEF CopyAt
      <3>. QED  BY <1>3, <3>1, <2>2 DEF CacheInv
    <2>. QED  BY <2>1, <2>2 DEF CacheInv
  <1>8. CopyAt(p)'
    BY <1>3, <1>4 DEF CopyAt
  <1>9. SearchAt(p)'
    <2>1. Len(History(p)) \in Nat
      BY <1>0, <1>1, BucketType, LevelType DEF History
    <2>2. /\ History(p)' = History(p) /\ req'[p] = req[p] /\ mode'[p] = mode[p]
          /\ current'[p] = current[p] /\ next'[p] = next[p]
          /\ seen'[p] = seen[p] /\ entries'[p] = entries[p]
      BY <1>0 DEF History, search
    <2>3. SearchAt(p) /\ pc[p] # "idle"
      BY <1>0
    <2>4. CASE pc'[p] = "check" /\ level'[p] = level[p] + 1 /\ mode[p] = "precache"
      BY <2>1, <2>2, <2>3, <2>4, <1>1, <1>2 DEF SearchAt
    <2>5. CASE pc'[p] = "read" /\ level' = level /\ mode[p] = "search"
      <3>1. \A r, n : /\ FirstPass(p, r, n)' <=> FirstPass(p, r, n)
                      /\ SecondPass(p, r, n)' <=> SecondPass(p, r, n)
        BY <2>2 DEF FirstPass, SecondPass
      <3>. QED  BY <2>1, <2>2, <2>3, <2>5, <1>0, <1>1, <3>1 DEF SearchAt
    <2>. QED  BY <1>4, <2>4, <2>5
  <1>10. WrittenAt(p)'
    BY <1>0 DEF WrittenAt
  <1>. QED  BY <1>5, <1>7, <1>8, <1>9, <1>10 DEF Sole

\* A pass ends: the second one starts, or the snapshot is complete.
LEMMA NextPassStep ==
    ASSUME SnapshotInv, Sole, NEW p \in Procs, NextPass(p)
    PROVE  SnapshotInv'
  <1>. USE DEF SnapshotInv
  <1>. DEFINE r == req[p]
              h == r.history
              terms == IF mode[p] = "precache" THEN current[p] ELSE next[p]
              end == Len(Levels[h]) + 1
  <1>0. /\ pc[p] = "check" /\ level[p] > Len(History(p))
        /\ pc' = [pc EXCEPT ![p] = IF terms = NoTerms THEN "write" ELSE "check"]
        /\ mode' = [mode EXCEPT ![p] = "search"]
        /\ level' = [level EXCEPT ![p] = 1]
        /\ current' = [current EXCEPT ![p] = terms]
        /\ next' = [next EXCEPT ![p] = NoTerms]
        /\ UNCHANGED <<cache, req, copying, seen, entries, version, written, hint>>
    BY DEF NextPass, Goto
  <1>1. r \in Requests /\ h \in Histories /\ level[p] \in 1 .. Len(Levels[h]) + 1
    BY <1>0, TermTypes DEF SearchAt, History
  <1>2. level[p] = end /\ end \in Nat /\ end >= 1
    BY <1>0, <1>1, LevelType DEF History
  <1>3. terms \in Terms /\ NoTerms \in Terms
    BY DEF TypeOK, NoTerms, Terms
  <1>4. TypeOK'
    BY <1>0, <1>3 DEF TypeOK, cache, copying
  <1>5. CacheInv'
    BY <1>0 DEF CacheInv, BucketsComplete, cache
  <1>6. pc'[p] = (IF terms = NoTerms THEN "write" ELSE "check") /\ mode'[p] = "search"
        /\ level'[p] = 1 /\ current'[p] = terms /\ next'[p] = NoTerms
        /\ seen'[p] = seen[p] /\ entries'[p] = entries[p] /\ req'[p] = req[p]
    BY <1>0 DEF TypeOK
  <1>7. CopyAt(p)'
    BY <1>0, <1>6 DEF CopyAt, copying
  <1>8. WrittenAt(p)'
    BY <1>0 DEF WrittenAt
  <1>9. \A k : ~Before(h, 1, k)
    BY <1>1, BeforeStep
  <1>10. \A t : FoundBefore(h, 1, t) = {} /\ FoundBefore(h, end, t) = Found(h, t)
    BY <1>1, <1>9, FoundBeforeEnd DEF FoundBefore
  <1>11. Refs({}).accounts = {} /\ Refs({}).wasms = {}
    BY DEF Refs
  <1>12. \A t : Found(h, NoTerms) = {}
    BY DEF Found, Keep, NoTerms
  <1>13. SearchAt(p)'
    <2>1. CASE mode[p] = "precache"
      <3>1. terms = Resolve(r) /\ seen[p] = {} /\ entries[p] = {}
        BY <2>1, <1>0 DEF SearchAt
      <3>2. FirstPass(p, r, 1)'
        BY <3>1, <1>6, <1>9, <1>10, <1>11 DEF FirstPass, NoTerms, SeenFirst
      <3>3. terms = NoTerms => /\ FirstFound(r) = {}
                               /\ Found(h, SecondTerms(r)) = {}
        <4>1. terms = NoTerms => FirstFound(r) = {}
          BY <3>1, <1>12 DEF FirstFound
        <4>2. terms = NoTerms => SecondTerms(r) = NoTerms
          BY <4>1, <1>11 DEF SecondTerms, NoTerms
        <4>. QED  BY <4>1, <4>2, <1>12
      <3>. QED  BY <3>1, <3>2, <3>3, <1>1, <1>2, <1>6 DEF SearchAt, History
    <2>2. CASE mode[p] = "search" /\ FirstPass(p, r, end)
      <3>1. entries[p] = FirstFound(r)
        BY <2>2, <1>10 DEF FirstPass, FirstFound
      <3>2. terms = SecondTerms(r)
        BY <2>2, <3>1 DEF FirstPass, SecondTerms
      <3>3. SecondPass(p, r, 1)'
        BY <2>2, <3>1, <3>2, <1>6, <1>9, <1>10 DEF SecondPass, FirstPass, SeenFirst, SeenSecond
      <3>4. terms = NoTerms => Found(h, SecondTerms(r)) = {}
        BY <3>2, <1>12
      <3>. QED  BY <3>1, <3>3, <3>4, <1>1, <1>2, <1>6 DEF SearchAt, History
    <2>3. CASE mode[p] = "search" /\ SecondPass(p, r, end)
      <3>1. terms = NoTerms
        BY <2>3 DEF SecondPass
      <3>2. entries[p] = FirstFound(r) \cup Found(h, SecondTerms(r))
        BY <2>3, <1>10 DEF SecondPass
      <3>. QED  BY <3>1, <3>2, <1>1, <1>2, <1>6 DEF SearchAt, History
    <2>4. \/ mode[p] = "precache"
          \/ mode[p] = "search" /\ (FirstPass(p, r, end) \/ SecondPass(p, r, end))
      BY <1>0, <1>2 DEF SearchAt, TypeOK
    <2>. QED  BY <2>1, <2>2, <2>3, <2>4
  <1>. QED  BY <1>4, <1>5, <1>7, <1>8, <1>13 DEF Sole

\* A bucket is read: all of it, since the files in the cache are complete.
LEMMA ReadBucketStep ==
    ASSUME SnapshotInv, Sole, NEW p \in Procs, ReadBucket(p)
    PROVE  SnapshotInv'
  <1>. USE DEF SnapshotInv
  <1>. PICK r, l : r = req[p] /\ l = level[p]
    OBVIOUS
  <1>. DEFINE h == r.history
              b == Bucket(p)
              fresh == Fresh(p, Whole(b))
              live == Live(fresh)
              refs == Refs(live)
  <1>0. /\ pc[p] = "read" /\ pc' = [pc EXCEPT ![p] = "check"]
        /\ file[b] # None
        /\ data[file[b]] = 1 .. Cardinality(data[file[b]])
        /\ level' = [level EXCEPT ![p] = @ + 1]
        /\ UNCHANGED <<cache, req, mode, copying, current, written, hint>>
    BY DEF ReadBucket, Goto
  <1>1. /\ r \in Requests /\ h \in Histories /\ l \in DOMAIN Levels[h]
        /\ b = Levels[h][l] /\ b \in Buckets /\ Content[b] \in Seq(Entries)
        /\ l <= Len(History(p)) /\ mode[p] = "search"
    BY <1>0, BucketType DEF SearchAt
  <1>2. {Content[b][i] : i \in 1 .. Cardinality(data[file[b]])} = Whole(b)
    BY <1>0, <1>1 DEF CacheInv, BucketsComplete, Whole
  <1>3. /\ seen' = [seen EXCEPT ![p] = @ \cup {e.key : e \in fresh}]
        /\ entries' = [entries EXCEPT ![p] = @ \cup live]
        /\ next' = [next EXCEPT ![p].accounts = @ \cup refs.accounts,
                                ![p].wasms = @ \cup (refs.wasms \ current[p].wasms)]
    BY <1>2 DEF ReadBucket, Live
  <1>4. version' \in [Procs -> Nat]
    BY <1>1, VersionAssumption DEF ReadBucket, TypeOK
  <1>5. fresh \subseteq Entries /\ {e.key : e \in fresh} \subseteq Keys
    BY <1>1, WholeType DEF Fresh, Entries
  <1>6. next[p] \in Terms /\ refs.accounts \subseteq Accounts /\ refs.wasms \subseteq Wasms
    BY DEF TypeOK, Refs
  <1>7. next'[p] = [accounts  |-> next[p].accounts \cup refs.accounts,
                    contracts |-> next[p].contracts,
                    wasms     |-> next[p].wasms \cup (refs.wasms \ current[p].wasms)]
        /\ \A q \in Procs : q # p => next'[q] = next[q]
    BY <1>3, <1>6 DEF TypeOK, Terms
  <1>8. next' \in [Procs -> Terms]
    <2>1. next'[p] \in Terms
      BY <1>6, <1>7 DEF Terms
    <2>2. DOMAIN next' = Procs /\ next' = [q \in Procs |-> next'[q]]
      BY <1>3 DEF TypeOK
    <2>. QED  BY <2>1, <2>2, <1>7 DEF TypeOK
  <1>9. TypeOK'
    <2>1. seen' \in [Procs -> SUBSET Keys] /\ entries' \in [Procs -> SUBSET Entries]
      BY <1>3, <1>5 DEF TypeOK, Live
    <2>2. /\ pc' \in [Procs -> {"idle", "check", "open", "copy", "read", "write"}]
          /\ level' \in [Procs -> Nat]
      BY <1>0 DEF TypeOK
    <2>. QED  BY <1>0, <1>4, <1>8, <2>1, <2>2 DEF TypeOK, cache, copying
  <1>10. CacheInv'
    BY <1>0 DEF CacheInv, BucketsComplete, cache
  <1>11. /\ pc'[p] = "check" /\ level'[p] = l + 1 /\ current'[p] = current[p]
         /\ seen'[p] = seen[p] \cup {e.key : e \in fresh}
         /\ entries'[p] = entries[p] \cup live /\ req'[p] = r /\ mode'[p] = "search"
    BY <1>0, <1>1, <1>3 DEF TypeOK
  <1>12. CopyAt(p)'
    BY <1>0, <1>11 DEF CopyAt, copying
  <1>13. WrittenAt(p)'
    BY <1>0 DEF WrittenAt
  <1>14. /\ fresh = Taken(Levels[h][l], current[p], seen[p])
         /\ r.wasms \subseteq Wasms /\ Resolve(r).wasms = r.wasms
    BY <1>1, TermTypes DEF Fresh, Taken
  <1>15. FirstPass(p, r, l) => FirstPass(p, r, l + 1)'
    <2>. SUFFICES ASSUME FirstPass(p, r, l) PROVE FirstPass(p, r, l + 1)'
      OBVIOUS
    <2>1. /\ current[p] = Resolve(r) /\ entries[p] = FoundBefore(h, l, Resolve(r))
          /\ seen[p] = SeenFirst(h, l, Resolve(r))
      BY DEF FirstPass
    <2>2. fresh = Taken(Levels[h][l], Resolve(r), seen[p])
      BY <2>1, <1>14
    <2>3. /\ seen'[p] = SeenFirst(h, l + 1, Resolve(r))
          /\ entries'[p] = FoundBefore(h, l + 1, Resolve(r))
      <3>. HIDE DEF fresh
      <3>. QED  BY <2>1, <2>2, <1>1, <1>11, ReadFirst
    <2>4. next'[p] = [accounts  |-> Refs(entries'[p]).accounts, contracts |-> {},
                      wasms     |-> Refs(entries'[p]).wasms \ r.wasms]
      <3>1. next[p] = [accounts  |-> Refs(entries[p]).accounts, contracts |-> {},
                       wasms     |-> Refs(entries[p]).wasms \ r.wasms]
        BY DEF FirstPass
      <3>2. /\ Refs(entries'[p]).accounts = Refs(entries[p]).accounts \cup refs.accounts
            /\ Refs(entries'[p]).wasms = Refs(entries[p]).wasms \cup refs.wasms
        BY <1>11, RefsUnion
      <3>3. current[p].wasms = r.wasms
        BY <1>14, <2>1
      <3>. HIDE DEF refs
      <3>4. next'[p] = [accounts  |-> Refs(entries[p]).accounts \cup refs.accounts,
                        contracts |-> {},
                        wasms     |-> (Refs(entries[p]).wasms \ r.wasms) \cup (refs.wasms \ r.wasms)]
        BY <3>1, <3>3, <1>7
      <3>5. (Refs(entries[p]).wasms \ r.wasms) \cup (refs.wasms \ r.wasms)
                = Refs(entries'[p]).wasms \ r.wasms
        BY <3>2
      <3>. QED  BY <3>2, <3>4, <3>5
    <2>. QED  BY <2>1, <2>3, <2>4, <1>11 DEF FirstPass
  <1>16. SecondPass(p, r, l) => SecondPass(p, r, l + 1)'
    <2>. SUFFICES ASSUME SecondPass(p, r, l) PROVE SecondPass(p, r, l + 1)'
      OBVIOUS
    <2>1. /\ current[p] = SecondTerms(r) /\ next[p] = NoTerms
          /\ entries[p] = FirstFound(r) \cup FoundBefore(h, l, SecondTerms(r))
          /\ seen[p] = SeenSecond(h, l, Resolve(r), SecondTerms(r))
      BY DEF SecondPass
    <2>2. fresh = Taken(Levels[h][l], SecondTerms(r), seen[p])
      BY <2>1, <1>14
    <2>3. /\ seen'[p] = SeenSecond(h, l + 1, Resolve(r), SecondTerms(r))
          /\ entries'[p] = FirstFound(r) \cup FoundBefore(h, l + 1, SecondTerms(r))
      <3>. HIDE DEF fresh
      <3>. QED  BY <2>1, <2>2, <1>1, <1>11, ReadSecond DEF FirstFound
    <2>4. \A e \in live : e.key[1] # "instance"
      BY <2>2 DEF Keep, SecondTerms, Taken, Live
    <2>5. refs.accounts = {} /\ refs.wasms = {}
      BY <2>4 DEF Refs
    <2>6. next'[p] = NoTerms
      <3>. HIDE DEF refs
      <3>. QED  BY <2>1, <2>5, <1>7 DEF NoTerms
    <2>. QED  BY <2>1, <2>3, <2>6, <1>11 DEF SecondPass
  <1>17. SearchAt(p)'
    <2>1. FirstPass(p, r, l) \/ SecondPass(p, r, l)
      BY <1>0, <1>1 DEF SearchAt
    <2>2. l + 1 \in 1 .. Len(History(p)) + 1 /\ History(p)' = History(p)
      <3>1. History(p) = Levels[h] /\ History(p)' = Levels[h]
        BY <1>0 DEF History
      <3>2. l \in 1 .. Len(Levels[h]) /\ Len(Levels[h]) \in Nat
        BY <1>1, LevelType
      <3>. QED  BY <3>1, <3>2
    <2>. QED  BY <2>1, <2>2, <1>1, <1>11, <1>15, <1>16 DEF SearchAt
  <1>. QED  BY <1>9, <1>10, <1>12, <1>13, <1>17 DEF Sole

\* The snapshot is written.
LEMMA WriteStep ==
    ASSUME SnapshotInv, Sole, NEW p \in Procs, WriteSnapshot(p)
    PROVE  SnapshotInv'
  <1>. USE DEF SnapshotInv
  <1>0. /\ pc[p] = "write" /\ pc' = [pc EXCEPT ![p] = "idle"]
        /\ written' = [written EXCEPT ![p] = [entries |-> entries[p], version |-> version[p]]]
        /\ Locals(p, NoTerms) /\ UNCHANGED <<cache, req, hint>>
    BY DEF WriteSnapshot, Goto
  <1>1. NoTerms \in Terms
    BY DEF NoTerms, Terms
  <1>2. TypeOK'
    BY <1>0, <1>1, LocalsType DEF TypeOK, cache
  <1>3. CacheInv'
    BY <1>0 DEF CacheInv, BucketsComplete, cache
  <1>4. pc'[p] = "idle" /\ written'[p].entries = entries[p] /\ req' = req
    BY <1>0 DEF TypeOK
  <1>5. CopyAt(p)'
    BY <1>0, <1>1, <1>4, LocalsType DEF CopyAt
  <1>6. SearchAt(p)'
    BY <1>4 DEF SearchAt
  <1>7. WrittenAt(p)'
    BY <1>0, <1>4 DEF WrittenAt, SearchAt
  <1>. QED  BY <1>2, <1>3, <1>5, <1>6, <1>7 DEF Sole

\* A step that changes nothing.
LEMMA IdleStep ==
    ASSUME SnapshotInv, UNCHANGED vars
    PROVE  SnapshotInv'
  BY DEF SnapshotInv, TypeOK, CacheInv, BucketsComplete, CopyAt, SearchAt, WrittenAt,
         FirstPass, SecondPass, History, Bucket, vars, cache, copying, search

\* Every step of a sole process keeps the invariant.
LEMMA NextSnapshot == Sole /\ SnapshotInv /\ [Next]_vars => SnapshotInv'
  <1>. SUFFICES ASSUME Sole, SnapshotInv, [Next]_vars PROVE SnapshotInv'
    OBVIOUS
  <1>1. ASSUME NEW p \in Procs, Step(p) PROVE SnapshotInv'
    BY <1>1, CheckCacheStep, CopyStep, RenameStep, NextPassStep, WriteStep, OpenDownloadStep,
       ReadBucketStep, StopStep DEF Step
  <1>. QED  BY <1>1, StartStep, NoHistoryStep, CleanStep, IdleStep DEF Next

---------------------------------------------------------------------------
(* Theorems.                                                               *)

\* For one process at a time the invariant holds throughout.
THEOREM SnapshotCorrect == ASSUME Sole PROVE Spec => []SnapshotInv
  <1>1. SnapshotInv /\ [Next]_vars => SnapshotInv'
    BY NextSnapshot
  <1>. QED  BY InitSnapshot, <1>1, PTL DEF Spec

\* Type correctness of the command and its cache.
THEOREM SnapshotTypes == ASSUME Sole PROVE Spec => []TypeOK
  <1>1. SnapshotInv => TypeOK
    BY DEF SnapshotInv
  <1>. QED  BY <1>1, SnapshotCorrect, PTL

\* Whatever is killed or cleaned when, a bucket in the cache is complete.
THEOREM CacheComplete == ASSUME Sole PROVE Spec => []BucketsComplete
  <1>1. SnapshotInv => BucketsComplete
    BY DEF SnapshotInv, CacheInv
  <1>. QED  BY <1>1, SnapshotCorrect, PTL

\* What the abstract specification calls the snapshot of a request.
LEMMA WantedFound ==
    ASSUME NoGAddress, NEW r \in Requests
    PROVE  View!Snapshot(r) = FirstFound(r) \cup Found(r.history, SecondTerms(r))
  <1>1. View!Wanted(r) = Resolve(r)
    BY DEF NoGAddress, View!Wanted, Resolve
  <1>2. View!Snapshot(r) = FirstFound(r) \cup Found(r.history, Refs(FirstFound(r)))
    BY <1>1 DEF View!Snapshot, FirstFound, View!Found, View!Refs, View!Keep, View!Newest,
                View!Mentions, View!AllContent, Found, Refs, Keep, Newest, Mentions, AllContent
  <1>. QED  BY <1>2, SecondFound

\* A snapshot that is written is exactly the one that was asked for.
THEOREM SnapshotIsExact == ASSUME Sole, NoGAddress PROVE Spec => []SnapshotExact
  <1>1. SnapshotInv => SnapshotExact
    BY WantedFound DEF SnapshotInv, WrittenAt, SnapshotExact
  <1>. QED  BY <1>1, SnapshotCorrect, PTL

\* The multi-pass search over cached buckets implements LedgerView.
THEOREM Refinement == ASSUME Sole, NoGAddress PROVE Spec => WrittenIsView
  <1>1. Init => View!ViewInit
    BY DEF Init, View!ViewInit
  <1>2. SnapshotInv /\ [Next]_vars => [View!ViewNext]_(View!viewVars)
    <2>. SUFFICES ASSUME SnapshotInv, [Next]_vars
                  PROVE  View!ViewNext \/ UNCHANGED View!viewVars
      OBVIOUS
    <2>. USE DEF View!viewVars
    <2>1. ASSUME NEW p \in Procs, NEW r \in Requests, Start(p, r)
          PROVE  View!ViewNext
      <3>1. View!Ask(p, r)
        BY <2>1 DEF Start, View!Ask, SnapshotInv, TypeOK
      <3>. QED  BY <3>1 DEF View!ViewNext
    <2>2. ASSUME NEW p \in Procs, WriteSnapshot(p)
          PROVE  View!ViewNext
      <3>1. /\ req[p] \in Requests /\ req[p] # None /\ req' = req
            /\ entries[p] = View!Snapshot(req[p])
            /\ written' = [written EXCEPT ![p] = [entries |-> entries[p], version |-> version[p]]]
        BY <2>2, WantedFound, NamesDisjoint DEF WriteSnapshot, Goto, SnapshotInv, SearchAt
      <3>2. View!Answer(p)
        <4>. DEFINE res(w) == [q \in Procs |-> IF w[q] = None THEN None ELSE w[q].entries]
        <4>1. written'[p] # None /\ written'[p].entries = entries[p]
          BY <3>1, InodesAssumption DEF SnapshotInv, TypeOK
        <4>2. \A q \in Procs : q # p => written'[q] = written[q]
          BY <3>1 DEF SnapshotInv, TypeOK
        <4>3. res(written') = [res(written) EXCEPT ![p] = entries[p]]
          BY <4>1, <4>2
        <4>. QED  BY <3>1, <4>3 DEF View!Answer
      <3>. QED  BY <3>1, <3>2 DEF View!ViewNext
    <2>3. ASSUME UNCHANGED <<req, written>>
          PROVE  UNCHANGED View!viewVars
      BY <2>3
    <2>4. ASSUME NEW p \in Procs, Step(p), ~WriteSnapshot(p)
          PROVE  UNCHANGED <<req, written>>
      BY <2>4 DEF Step, CheckCache, Copy, RenameDownload, NextPass, OpenDownload, ReadBucket, Stop
    <2>5. ASSUME NEW p \in Procs, NEW l \in Asked, NoHistory(p, l)
          PROVE  UNCHANGED <<req, written>>
      BY <2>5 DEF NoHistory
    <2>. QED  BY <2>1, <2>2, <2>3, <2>4, <2>5 DEF Next, Clean, vars
  <1>. QED  BY <1>1, <1>2, SnapshotCorrect, PTL DEF Spec, WrittenIsView, View!ViewSpec

=============================================================================
