------------------------------ MODULE DataCache ------------------------------
(* The data directory: the cached contract specs, written by `contract upload` *)
(* and by the first `contract invoke` of a Wasm, the action log that every    *)
(* sent transaction and simulation is written to, `cache actionlog ls`,       *)
(* `cache clean`, and the commands that only fetch (`contract info`, `fetch`). *)
(* Files are written with one call that truncates and one that writes; any    *)
(* number of processes run, and any of them may be killed in between.         *)
EXTENDS Integers, FiniteSets, SequencesExt

CONSTANTS
  Procs,
  Contracts,
  Hashes,      \* hashes of Wasm, each with a spec of Size entries
  Size,
  Ops,         \* the commands that are run
  MaxStarts,   \* bound: commands started
  MaxClock,    \* bound: milliseconds
  MaxRandom    \* bound: ids that are drawn in a millisecond

SizeAssumption ==
  Size \in Nat \ {0} /\ MaxStarts \in Nat /\ MaxClock \in Nat \ {0} /\ MaxRandom \in Nat
OpsAssumption ==
  Ops \subseteq {"invoke", "invokeNoCache", "info", "infoHash", "upload", "ls", "clean"}

Asset == "asset"         \* the executable of a built-in asset contract
Absent == [of |-> "none", entries |-> 0]
Keys == Hashes \cup Contracts
Executables == Hashes \cup {Asset}
Spec(h, n) == [of |-> h, entries |-> n]
(* A spec file, by the entries that its bytes hold; -1 when they end within   *)
(* an entry.                                                                  *)
Torn == -1
Files == {Absent} \cup [of : Hashes, entries : Torn .. Size]

(* A ULID is the millisecond in which it is made and random bits; names are   *)
(* sorted by the one and then by the other.                                   *)
Ulids == (1 .. MaxClock) \X (1 .. MaxRandom)
Before(u, v) == u[1] < v[1] \/ (u[1] = v[1] /\ u[2] < v[2])

Missing == 0             \* an action's file that is not there
Empty == -1              \* one that holds nothing yet
VARIABLES
  code,      \* the executable of each contract, on the network
  specs,     \* the files of spec/
  actions,   \* the files of actions/, by ULID: the number of the action, Missing or Empty
  complete,  \* the actions that were written and not cleaned
  started,   \* the commands started
  clock,     \* the millisecond
  made,      \* the ULID of each action, in the order in which they were made
  pc, op, contract, since, hash, entries, linked, id, kind, before, rest, listed

vars == <<code, specs, actions, complete, started, clock, made,
          pc, op, contract, since, hash, entries, linked, id, kind, before, rest, listed>>

Init ==
  /\ code \in [Contracts -> Executables]
  /\ specs = [k \in Keys |-> Absent]
  /\ actions = [u \in Ulids |-> Missing]
  /\ complete = {} /\ started = 0 /\ clock = 1 /\ made = <<>>
  /\ pc = [p \in Procs |-> "idle"]
  /\ op = [p \in Procs |-> "none"]
  /\ contract = [p \in Procs |-> CHOOSE c \in Contracts : TRUE]
  /\ since = [p \in Procs |-> {}]
  /\ hash = [p \in Procs |-> CHOOSE h \in Hashes : TRUE]
  /\ entries = [p \in Procs |-> Absent]
  /\ linked = [p \in Procs |-> FALSE]
  /\ id = [p \in Procs |-> Missing]
  /\ kind = [p \in Procs |-> "none"]
  /\ before = [p \in Procs |-> {}]
  /\ rest = [p \in Procs |-> {}]
  /\ listed = [p \in Procs |-> <<>>]

At(p, label) == pc[p] = label
Goto(p, label) == pc' = [pc EXCEPT ![p] = label]
Network == <<code, since>>
Command == <<op, contract, started>>
Log == <<actions, complete, clock, made, id, kind>>
Listing == <<before, rest, listed>>
SpecUse == <<hash, entries>>

AnyHash == CHOOSE h \in Hashes : TRUE
AnyContract == CHOOSE c \in Contracts : TRUE

(* A command starts.  `no_cache` commands neither read ids nor write.         *)
Start(p) ==
  /\ pc[p] \in {"idle", "done", "failed"} /\ started < MaxStarts
  /\ started' = started + 1
  /\ \E o \in Ops, c \in Contracts, h \in Hashes :
       /\ o \notin {"infoHash", "upload"} => h = AnyHash
       /\ o \in {"infoHash", "upload", "ls", "clean"} => c = AnyContract
       /\ op' = [op EXCEPT ![p] = o]
       /\ contract' = [contract EXCEPT ![p] = c]
       /\ hash' = [hash EXCEPT ![p] = h]
       /\ since' = [since EXCEPT ![p] = {code[c]}]
       /\ Goto(p, CASE o \in {"invoke", "invokeNoCache", "info"} -> "instance"
                    [] o = "infoHash" -> "fetch"
                    [] o = "upload" -> "log"
                    [] o \in {"ls", "clean"} -> "list")
  /\ kind' = [kind EXCEPT ![p] = "send"]
  /\ before' = [before EXCEPT ![p] = complete]
  /\ entries' = [entries EXCEPT ![p] = Absent]
  /\ listed' = [listed EXCEPT ![p] = <<>>]
  /\ id' = [id EXCEPT ![p] = Missing]
  /\ linked' = [linked EXCEPT ![p] = FALSE]
  /\ rest' = [rest EXCEPT ![p] = {}]
  /\ UNCHANGED <<code, specs, actions, complete, clock, made>>

-----------------------------------------------------------------------------
(* The spec of a contract.                                                    *)

(* get_contract_data: a Wasm, or the asset contract whose spec is built in.   *)
Instance(p) ==
  /\ At(p, "instance")
  /\ IF code[contract[p]] = Asset
     THEN /\ entries' = [entries EXCEPT ![p] = Spec(Asset, Size)]
          /\ Goto(p, "use") /\ UNCHANGED hash
     ELSE /\ hash' = [hash EXCEPT ![p] = code[contract[p]]]
          /\ Goto(p, IF op[p] = "info" THEN "fetch" ELSE "cached") /\ UNCHANGED entries
  /\ UNCHANGED <<Network, specs, Command, Log, Listing, linked>>

(* A cache with one file for each contract.                                   *)
FileOfContract(p) == contract[p]

(* spec_dir().join(hash).                                                     *)
File(p) == hash[p]

(* read_spec: a file that holds whole entries is taken, whatever their number. *)
ReadSpec(p) ==
  /\ At(p, "cached")
  /\ LET found == specs[File(p)]
     IN  IF found = Absent \/ found.entries = Torn
         THEN Goto(p, "fetch") /\ UNCHANGED entries
         ELSE entries' = [entries EXCEPT ![p] = found] /\ Goto(p, "use")
  /\ UNCHANGED <<Network, specs, Command, Log, Listing, linked, hash>>

(* get_remote_wasm_from_hash: the code, or nothing when it is archived.       *)
FetchWasm(p) ==
  /\ At(p, "fetch")
  /\ \/ /\ entries' = [entries EXCEPT ![p] = Spec(hash[p], Size)]
        /\ Goto(p, IF op[p] = "invoke" THEN "truncate" ELSE "use")
     \/ Goto(p, "failed") /\ UNCHANGED entries
  /\ UNCHANGED <<Network, specs, Command, Log, Listing, linked, hash>>

(* write_spec: fs::write opens and truncates, then writes.  The directory may *)
(* be removed after spec_dir() has made it.                                   *)
WriteSpec(p) ==
  /\ At(p, "truncate")
  /\ \/ /\ specs' = [specs EXCEPT ![File(p)] = Spec(hash[p], 0)]
        /\ linked' = [linked EXCEPT ![p] = TRUE]
        /\ Goto(p, "write")
     \/ \E q \in Procs \ {p} : op[q] = "clean"
        /\ Goto(p, "failed") /\ UNCHANGED <<specs, linked>>
  /\ UNCHANGED <<Network, Command, Log, Listing, SpecUse>>

(* The write itself may stop short when the disk is full.                     *)
FinishSpec(p) ==
  /\ At(p, "write")
  /\ \E n \in Torn .. Size :
       /\ specs' = IF linked[p] THEN [specs EXCEPT ![File(p)] = Spec(hash[p], n)] ELSE specs
       /\ Goto(p, IF n < Size THEN "failed" ELSE IF op[p] = "invoke" THEN "use" ELSE "done")
  /\ UNCHANGED <<Network, Command, Log, Listing, SpecUse, linked>>

(* The entries are used: shown by `contract info`, or the function is called. *)
UseSpec(p) ==
  /\ At(p, "use")
  /\ IF op[p] = "invoke" /\ entries[p].entries = Size
     THEN Goto(p, "log") /\ kind' = [kind EXCEPT ![p] = "simulate"]
     ELSE Goto(p, IF entries[p].entries = Size THEN "done" ELSE "failed") /\ UNCHANGED kind
  /\ UNCHANGED <<Network, specs, Command, actions, complete, clock, made, id, Listing, linked,
                 SpecUse>>

-----------------------------------------------------------------------------
(* The action log.                                                            *)

(* Ids of the millisecond alone.                                              *)
ClockIds == {<<clock, 1>>}

(* Ulid::new: the millisecond, and random bits that were not drawn in it before; *)
(* which of two ids of one millisecond sorts first is left to chance.         *)
NewIds == {<<clock, r>> : r \in 1 .. MaxRandom} \ Range(made)

(* data::write, its id and the file.                                          *)
WriteAction(p) ==
  /\ At(p, "log")
  /\ \E u \in NewIds :
       /\ made' = Append(made, u)
       /\ actions' = [actions EXCEPT ![u] = Empty]
  /\ id' = [id EXCEPT ![p] = Len(made) + 1]
  /\ linked' = [linked EXCEPT ![p] = TRUE]
  /\ Goto(p, "logged")
  /\ UNCHANGED <<Network, specs, Command, complete, clock, kind, Listing, SpecUse>>

FinishAction(p) ==
  /\ At(p, "logged")
  /\ IF linked[p]
     THEN /\ actions' = [actions EXCEPT ![made[id[p]]] = id[p]]
          /\ complete' = complete \cup {id[p]}
     ELSE UNCHANGED <<actions, complete>>
  /\ Goto(p, CASE kind[p] = "simulate" -> "send"
               [] kind[p] = "send" /\ op[p] = "upload" -> "truncate"
               [] kind[p] = "send" /\ op[p] # "upload" -> "done")
  /\ UNCHANGED <<Network, specs, Command, clock, made, id, kind, Listing, linked, SpecUse>>

(* invoke signs and sends what it simulated, and logs the response.           *)
SendAction(p) ==
  /\ At(p, "send")
  /\ kind' = [kind EXCEPT ![p] = "send"]
  /\ Goto(p, "log")
  /\ UNCHANGED <<Network, specs, Command, actions, complete, clock, made, id, Listing, linked,
                 SpecUse>>

(* list_ulids reads the directory; the names are sorted and read from the     *)
(* last one on.                                                               *)
ListUlids == {u \in Ulids : actions[u] # Missing}

Ls(p) ==
  /\ At(p, "list") /\ op[p] = "ls"
  /\ rest' = [rest EXCEPT ![p] = ListUlids]
  /\ Goto(p, "read")
  /\ UNCHANGED <<Network, specs, Command, Log, before, listed, linked, SpecUse>>

(* list_actions reads one file after the other, and fails at the first that   *)
(* cannot be read.                                                            *)
ReadAction(p) ==
  /\ At(p, "read")
  /\ \/ rest[p] = {} /\ Goto(p, "done") /\ UNCHANGED <<rest, listed>>
     \/ \E newest \in rest[p] :
          /\ \A u \in rest[p] \ {newest} : Before(u, newest)
          /\ rest' = [rest EXCEPT ![p] = rest[p] \ {newest}]
          /\ IF actions[newest] \in {Missing, Empty} THEN Goto(p, "failed") /\ UNCHANGED listed
             ELSE /\ listed' = [listed EXCEPT ![p] = Append(listed[p], actions[newest])]
                  /\ UNCHANGED pc
  /\ UNCHANGED <<Network, specs, Command, Log, before, linked, SpecUse>>

(* cache clean removes the directory file by file, in any order; a file that  *)
(* is still open is written nowhere.                                          *)
CleanSpec(p) ==
  /\ At(p, "list") /\ op[p] = "clean"
  /\ \E k \in Keys :
       /\ specs[k] # Absent
       /\ specs' = [specs EXCEPT ![k] = Absent]
       /\ linked' = [q \in Procs |-> linked[q] /\ ~ (At(q, "write") /\ File(q) = k)]
  /\ UNCHANGED <<Network, Command, Log, pc, Listing, SpecUse>>

CleanAction(p) ==
  /\ At(p, "list") /\ op[p] = "clean"
  /\ \E u \in ListUlids :
       LET gone == {n \in DOMAIN made : made[n] = u}
       IN  /\ actions' = [actions EXCEPT ![u] = Missing]
           /\ complete' = complete \ gone
           /\ before' = [q \in Procs |-> before[q] \ gone]
           /\ linked' = [q \in Procs |-> linked[q] /\ ~ (At(q, "logged") /\ id[q] \in gone)]
  /\ UNCHANGED <<Network, specs, Command, clock, made, id, kind, pc, rest, listed, SpecUse>>

(* It is done when nothing is left (or there was no directory), and fails     *)
(* half-way when a file cannot be removed or another process has made one.    *)
CleanEnds(p) ==
  /\ At(p, "list") /\ op[p] = "clean"
  /\ \/ Goto(p, "failed")
     \/ ListUlids = {} /\ (\A k \in Keys : specs[k] = Absent) /\ Goto(p, "done")
  /\ UNCHANGED <<Network, specs, Command, Log, Listing, linked, SpecUse>>

-----------------------------------------------------------------------------
(* A contract is upgraded to another Wasm, on the network.                    *)
Upgrade ==
  /\ started < MaxStarts
  /\ \E c \in Contracts, h \in Hashes :
       /\ code[c] \notin {Asset, h}
       /\ code' = [code EXCEPT ![c] = h]
       /\ since' = [p \in Procs |-> IF contract[p] = c THEN since[p] \cup {h} ELSE since[p]]
  /\ UNCHANGED <<specs, actions, complete, started, clock, made, pc, op, contract, hash, entries,
                 linked, id, kind, before, rest, listed>>

Tick ==
  /\ clock < MaxClock /\ clock' = clock + 1
  /\ UNCHANGED <<Network, specs, Command, actions, complete, made, id, kind, pc, Listing, linked,
                 SpecUse>>

(* The process is killed, or a file access fails, which ends the command.     *)
Kill(p) ==
  /\ pc[p] \notin {"idle", "done", "failed"}
  /\ Goto(p, "failed")
  /\ UNCHANGED <<code, specs, actions, complete, started, clock, made, op, contract, since, hash,
                 entries, linked, id, kind, before, rest, listed>>

Step(p) ==
  \/ Start(p) \/ Instance(p) \/ ReadSpec(p) \/ FetchWasm(p) \/ WriteSpec(p) \/ FinishSpec(p)
  \/ UseSpec(p) \/ WriteAction(p) \/ FinishAction(p) \/ SendAction(p) \/ Ls(p) \/ ReadAction(p)
  \/ CleanSpec(p) \/ CleanAction(p) \/ CleanEnds(p) \/ Kill(p)

Next == Upgrade \/ Tick \/ \E p \in Procs : Step(p)

CacheSpec == Init /\ [][Next]_vars

-----------------------------------------------------------------------------
(* The entries a command uses are of a Wasm that its contract has run since   *)
(* the command started, though the cache was filled for other contracts and   *)
(* before an upgrade, in whatever order other processes write and clean it.   *)
(* `contract info --wasm-hash` is about the hash it is given.                 *)
SpecOfContract ==
  \A p \in Procs : At(p, "use") /\ op[p] # "infoHash" => entries[p].of \in since[p]

(* A listing that completes (`actionlog ls -l`) holds every action that was   *)
(* written before the command started and not cleaned since, none twice, and  *)
(* those of a later millisecond first, although ids are drawn by processes    *)
(* that know nothing of each other and within a millisecond at random.        *)
LogListed ==
  \A p \in Procs : op[p] = "ls" /\ At(p, "done") =>
    /\ before[p] \subseteq Range(listed[p])
    /\ \A i, j \in DOMAIN listed[p] : i < j =>
         /\ listed[p][i] # listed[p][j]
         /\ made[listed[p][i]][1] >= made[listed[p][j]][1]

=============================================================================
