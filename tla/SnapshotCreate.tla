--------------------------- MODULE SnapshotCreate ---------------------------
(***************************************************************************)
(* `snapshot create` (commands/snapshot/create.rs).  A process caches the  *)
(* buckets of a checkpoint, which it downloads to a .dl file and renames,  *)
(* and then passes over them, newest level first, as often as the entries  *)
(* it finds name further entries.                                          *)
(*                                                                         *)
(* All processes share the cache directory and take no lock; a process may *)
(* be killed at any step, and `cache clean` may run at any time.  A file   *)
(* is an inode, and its data the set of the entries written to it so far:  *)
(* two processes that opened one .dl path write to one inode.              *)
(***************************************************************************)
EXTENDS LedgerArchive, FiniteSets

CONSTANTS
    LedgerVersion,  \* the protocol version in each bucket's Metaentry, its first entry
    Inodes,         \* bound on the files that are open or linked at one time
    U32,            \* the number of values of a u32: 2^32 in the program
    Asked           \* ledgers that are asked for and have no history

ASSUME VersionAssumption == LedgerVersion \in [Buckets -> Nat]
ASSUME InodesAssumption == None \notin Inodes \cup [entries : SUBSET Entries, version : Nat]
ASSUME U32Assumption == U32 \in Nat \ {0} /\ Asked \subseteq 0 .. U32 - 1

VARIABLES
    file,       \* the cached bucket files: their inodes, or None
    dl,         \* the .dl files
    data,       \* which entries of its bucket each inode holds
    pc, req,    \* each process's next step and its command line
    mode,       \* whether it still fills the cache or searches
    level,      \* the level whose bucket it works on
    fd, off,    \* the .dl file it writes, and how many entries it has written
    current, next, seen, entries, version,     \* the locals of the search
    written,    \* the snapshot that it has written
    hint        \* the ledger that had no history, and those suggested in its place

cache == <<file, dl, data>>
copying == <<fd, off>>
search == <<current, next, seen, entries, version>>
vars == <<cache, pc, req, mode, level, copying, search, written, hint>>

\* TypeOK: the type of every variable.
TypeOK ==
    /\ file \in [Buckets -> Inodes \cup {None}]
    /\ dl \in [Buckets -> Inodes \cup {None}]
    /\ data \in [Inodes -> SUBSET Nat]
    /\ pc \in [Procs -> {"idle", "check", "open", "copy", "read", "write"}]
    /\ req \in [Procs -> Requests \cup {None}]
    /\ mode \in [Procs -> {"precache", "search"}]
    /\ level \in [Procs -> Nat]
    /\ fd \in [Procs -> Inodes \cup {None}]
    /\ off \in [Procs -> Nat]
    /\ current \in [Procs -> Terms] /\ next \in [Procs -> Terms]
    /\ seen \in [Procs -> SUBSET Keys]
    /\ entries \in [Procs -> SUBSET Entries]
    /\ version \in [Procs -> Nat]
    /\ written \in [Procs -> {None} \cup [entries : SUBSET Entries, version : Nat]]
    /\ hint \in [Procs -> {None} \cup [asked : Asked, try : SUBSET (0 .. U32 - 1)]]

Init ==
    /\ file = [b \in Buckets |-> None]
    /\ dl = [b \in Buckets |-> None]
    /\ data = [n \in Inodes |-> {}]
    /\ pc = [p \in Procs |-> "idle"]
    /\ req = [p \in Procs |-> None]
    /\ mode = [p \in Procs |-> "precache"]
    /\ level = [p \in Procs |-> 1]
    /\ fd = [p \in Procs |-> None]
    /\ off = [p \in Procs |-> 0]
    /\ current = [p \in Procs |-> NoTerms] /\ next = [p \in Procs |-> NoTerms]
    /\ seen = [p \in Procs |-> {}]
    /\ entries = [p \in Procs |-> {}]
    /\ version = [p \in Procs |-> 0]
    /\ written = [p \in Procs |-> None]
    /\ hint = [p \in Procs |-> None]

\* The locals of a process that starts with the terms t, or that has ended.
Locals(p, t) ==
    /\ mode' = [mode EXCEPT ![p] = "precache"]
    /\ level' = [level EXCEPT ![p] = 1]
    /\ fd' = [fd EXCEPT ![p] = None]
    /\ off' = [off EXCEPT ![p] = 0]
    /\ current' = [current EXCEPT ![p] = t]
    /\ next' = [next EXCEPT ![p] = NoTerms]
    /\ seen' = [seen EXCEPT ![p] = {}]
    /\ entries' = [entries EXCEPT ![p] = {}]
    /\ version' = [version EXCEPT ![p] = 0]

Goto(p, from, to) == pc[p] = from /\ pc' = [pc EXCEPT ![p] = to]

\* resolve_address: whatever parses as an ScAddress is a contract, the rest an alias
\* of a contract, an M address or the name of a key; what is none of these is ignored.
\* The address of an account, G..., parses as an ScAddress.
Resolve(r) ==
    [accounts  |-> {a \in Accounts : <<"M", a>> \in r.addresses \/ <<"key", a>> \in r.addresses},
     contracts |-> {c \in Contracts : <<"C", c>> \in r.addresses \/ <<"alias", c>> \in r.addresses}
                       \cup {a \in Accounts : <<"G", a>> \in r.addresses},
     wasms     |-> r.wasms]

History(p) == Levels[req[p].history]
Bucket(p) == History(p)[level[p]]

\* The archive URL is known and get_history has the list of buckets.
Start(p, r) ==
    /\ Goto(p, "idle", "check")
    /\ req' = [req EXCEPT ![p] = r]
    /\ Locals(p, Resolve(r))
    /\ written' = [written EXCEPT ![p] = None]
    /\ hint' = [hint EXCEPT ![p] = None]
    /\ UNCHANGED cache

CheckpointFrequency == 64

\* The ledgers that get_history suggests instead of one that has no history: u32
\* arithmetic that wraps, as the release build does.
Suggested(l) ==
    LET offset == ((l + 1) % U32) % CheckpointFrequency
    IN IF offset = 0 THEN {}
       ELSE {(l - offset) % U32, (l + (CheckpointFrequency - offset)) % U32}

\* get_history: there is no history of ledger l.
NoHistory(p, l) ==
    /\ pc[p] = "idle"
    /\ hint' = [hint EXCEPT ![p] = [asked |-> l, try |-> Suggested(l)]]
    /\ UNCHANGED <<cache, pc, req, mode, level, copying, search, written>>

---------------------------------------------------------------------------
(* cache_bucket                                                            *)

\* With the bucket in the cache, the first loop goes on with the next bucket and the
\* search opens the file.
Cached(p) ==
    IF mode[p] = "search"
    THEN pc' = [pc EXCEPT ![p] = "read"] /\ UNCHANGED level
    ELSE /\ pc' = [pc EXCEPT ![p] = "check"]
         /\ level' = [level EXCEPT ![p] = @ + 1]

CheckCache(p) ==
    /\ pc[p] = "check"
    /\ level[p] <= Len(History(p))
    /\ IF file[Bucket(p)] # None
       THEN Cached(p)
       ELSE pc' = [pc EXCEPT ![p] = "open"] /\ UNCHANGED level
    /\ UNCHANGED <<cache, req, mode, copying, search, written, hint>>

\* The archive answers.  The .dl file is created, or truncated if there is one.
Used == {file[b] : b \in Buckets} \cup {dl[b] : b \in Buckets} \cup {fd[p] : p \in Procs}
OpenDownload(p, n) ==
    /\ Goto(p, "open", "copy")
    /\ IF dl[Bucket(p)] # None THEN n = dl[Bucket(p)] ELSE n \notin Used
    /\ dl' = [dl EXCEPT ![Bucket(p)] = n]
    /\ data' = [data EXCEPT ![n] = {}]
    /\ fd' = [fd EXCEPT ![p] = n]
    /\ off' = [off EXCEPT ![p] = 0]
    /\ UNCHANGED <<file, req, mode, level, search, written, hint>>

\* tokio::io::copy; each process writes at its own offset.
Copy(p) ==
    /\ pc[p] = "copy"
    /\ off[p] < Len(Content[Bucket(p)])
    /\ off' = [off EXCEPT ![p] = @ + 1]
    /\ data' = [data EXCEPT ![fd[p]] = @ \cup {off[p] + 1}]
    /\ UNCHANGED <<file, dl, pc, req, mode, level, fd, search, written, hint>>

\* Mutant of RenameDownload: renames before everything is copied.
RenameEarly(p) ==
    /\ pc[p] = "copy"
    /\ dl[Bucket(p)] # None
    /\ file' = [file EXCEPT ![Bucket(p)] = dl[Bucket(p)]]
    /\ dl' = [dl EXCEPT ![Bucket(p)] = None]
    /\ fd' = [fd EXCEPT ![p] = None]
    /\ Cached(p)
    /\ UNCHANGED <<data, req, mode, off, search, written, hint>>

RenameDownload(p) ==
    /\ pc[p] = "copy"
    /\ off[p] = Len(Content[Bucket(p)])
    /\ dl[Bucket(p)] # None
    /\ file' = [file EXCEPT ![Bucket(p)] = dl[Bucket(p)]]
    /\ dl' = [dl EXCEPT ![Bucket(p)] = None]
    /\ fd' = [fd EXCEPT ![p] = None]
    /\ Cached(p)
    /\ UNCHANGED <<data, req, mode, off, search, written, hint>>

---------------------------------------------------------------------------
(* The search                                                              *)

\* Mutant of NextPass: keeps the terms of the pass before.
NextPassKeeps(p) ==
    LET terms == IF mode[p] = "precache" THEN current[p] ELSE next[p]
    IN /\ pc[p] = "check" /\ level[p] > Len(History(p))
       /\ Goto(p, "check", IF terms = NoTerms THEN "write" ELSE "check")
       /\ mode' = [mode EXCEPT ![p] = "search"]
       /\ level' = [level EXCEPT ![p] = 1]
       /\ current' = [current EXCEPT ![p] = terms]
       /\ UNCHANGED <<cache, req, copying, next, seen, entries, version, written, hint>>

\* All buckets are cached, or all of them are searched: the next pass, until there is
\* nothing more to search for.
NextPass(p) ==
    LET terms == IF mode[p] = "precache" THEN current[p] ELSE next[p]
    IN /\ pc[p] = "check" /\ level[p] > Len(History(p))
       /\ Goto(p, "check", IF terms = NoTerms THEN "write" ELSE "check")
       /\ mode' = [mode EXCEPT ![p] = "search"]
       /\ level' = [level EXCEPT ![p] = 1]
       /\ current' = [current EXCEPT ![p] = terms]
       /\ next' = [next EXCEPT ![p] = NoTerms]
       /\ UNCHANGED <<cache, req, copying, seen, entries, version, written, hint>>

\* Mutant of Fresh: tombstones are skipped, and do not hide older versions.
FreshLive(p, es) == {e \in es : e.key \notin seen[p] /\ Keep(current[p], e.key) /\ e.val # None}

\* The entries that the search has not met yet and looks for.
Fresh(p, es) == {e \in es : e.key \notin seen[p] /\ Keep(current[p], e.key)}

\* The bucket's file is opened and read to its end.  A file with a hole, or one that is
\* cut within an entry, is an error; one that is cut between two entries is not.
ReadBucket(p) ==
    LET b     == Bucket(p)
        n     == Cardinality(data[file[b]])
        fresh == Fresh(p, {Content[b][i] : i \in 1 .. n})
        live  == {e \in fresh : e.val # None}
        refs  == Refs(live)
    IN /\ pc[p] = "read"
       /\ file[b] # None
       /\ data[file[b]] = 1 .. n
       /\ Goto(p, "read", "check")
       /\ seen' = [seen EXCEPT ![p] = @ \cup {e.key : e \in fresh}]
       /\ entries' = [entries EXCEPT ![p] = @ \cup live]
       /\ next' = [next EXCEPT
                      ![p].accounts = @ \cup refs.accounts,
                      ![p].wasms = @ \cup (refs.wasms \ current[p].wasms)]
       /\ version' = [version EXCEPT ![p] =
                         IF n > 0 /\ LedgerVersion[b] > @ THEN LedgerVersion[b] ELSE @]
       /\ level' = [level EXCEPT ![p] = @ + 1]
       /\ UNCHANGED <<cache, req, mode, copying, current, written, hint>>

WriteSnapshot(p) ==
    /\ Goto(p, "write", "idle")
    /\ written' = [written EXCEPT ![p] = [entries |-> entries[p], version |-> version[p]]]
    /\ Locals(p, NoTerms)
    /\ UNCHANGED <<cache, req, hint>>

\* An error of the network or of a file, an asset that does not resolve, or a kill.
Stop(p) ==
    /\ pc[p] # "idle"
    /\ pc' = [pc EXCEPT ![p] = "idle"]
    /\ Locals(p, NoTerms)
    /\ UNCHANGED <<cache, req, written, hint>>

\* `cache clean` removes the directory; files that are open live on.
Clean ==
    /\ file' = [b \in Buckets |-> None]
    /\ dl' = [b \in Buckets |-> None]
    /\ UNCHANGED <<data, pc, req, mode, level, copying, search, written, hint>>

Step(p) ==
    \/ CheckCache(p) \/ Copy(p) \/ RenameDownload(p) \/ NextPass(p) \/ WriteSnapshot(p)
    \/ \E n \in Inodes : OpenDownload(p, n)
    \/ ReadBucket(p) \/ Stop(p)

Next ==
    \/ \E p \in Procs : Step(p) \/ (\E r \in Requests : Start(p, r))
                                \/ (\E l \in Asked : NoHistory(p, l))
    \/ Clean

Spec == Init /\ [][Next]_vars
FairSpec == Spec /\ \A p \in Procs : WF_vars(Step(p))

---------------------------------------------------------------------------
(* Properties                                                              *)

\* The buckets that are linked into the cache are complete: a process that was stopped
\* while it downloaded one never leaves a part of it where the next one reads it.
BucketsComplete ==
    \A b \in Buckets : file[b] # None => data[file[b]] = DOMAIN Content[b]

View == INSTANCE LedgerView
            WITH request <- req,
                 result <- [p \in Procs |-> IF written[p] = None THEN None
                                            ELSE written[p].entries]

\* The command implements LedgerView: what it writes, over any number of passes over
\* cached and newly downloaded buckets, is the snapshot that was asked for.
WrittenIsView == View!ViewSpec

\* A snapshot that is written holds the newest version of every entry that was asked for.
SnapshotExact ==
    \A p \in Procs : written[p] # None => written[p].entries = View!Snapshot(req[p])

\* "To get the latest version of the entry the version in the higher level bucket should
\* be used": no snapshot has an entry that the checkpoint has a newer version of.
OnlyNewest ==
    \A p \in Procs : written[p] # None =>
        \A e \in written[p].entries : Newest(req[p].history, e)

\* A snapshot command ends, whatever the archive and `cache clean` do.
SnapshotEnds == \A p \in Procs : pc[p] # "idle" ~> pc[p] = "idle"

=============================================================================
