---------------------------- MODULE ConfigStore ----------------------------
(***************************************************************************)
(* The on-disk store of identities and contract aliases, and the           *)
(* operating system's keyring, as the `stellar` processes that run          *)
(* `keys generate`, `keys add`, `keys rm`, `contract alias add`,            *)
(* `contract alias remove` and the alias step of `contract deploy` use     *)
(* them (config/locator.rs, signer/secure_store.rs, signer/keyring.rs).     *)
(*                                                                         *)
(* A command is a sequence of steps, each one file system or keyring       *)
(* access; processes interleave between steps and may be killed at any     *)
(* step.  A file is rewritten by truncating it and then writing it, so it  *)
(* is empty ("torn") in between, and stays so if the process dies there.    *)
(***************************************************************************)
EXTENDS Naturals

CONSTANTS
    Procs,          \* the processes
    Names,          \* identity names and contract aliases (one name space)
    NamesOf,        \* the names that each process's commands mention
    Nets,           \* network passphrases, the keys of an alias file's `ids`
    Contracts,      \* contract ids
    Seeds,          \* seed phrases and secret keys
    NoId, NoSeed,   \* "no id for this network", "no keyring entry"
    Commands,       \* the commands that users run
    CommandDirs     \* the directories they select ("global" with --global)

ASSUME NamesAssumption == NamesOf \in [Procs -> SUBSET Names]
ASSUME NoIdAssumption == NoId \notin Contracts
ASSUME NoSeedAssumption == NoSeed \notin Seeds

Locations == {"local", "global"}

(***************************************************************************)
(* An identity file holds a public key, a secret (a secret key or a seed   *)
(* phrase) or the name of a keyring entry.  The entry's name is the prefix *)
(* secure_store:org.stellar.cli- and the identity's name, whatever the      *)
(* location, so entries are named by Names.                                *)
(***************************************************************************)
PublicKey      == [kind |-> "public"]
Plain(s)       == [kind |-> "secret", seed |-> s]
SecureStore(e) == [kind |-> "store", entry |-> e]
Keys == {PublicKey} \cup {Plain(s) : s \in Seeds} \cup {SecureStore(e) : e \in Names}

NoFile == [kind |-> "none"]
Torn   == [kind |-> "torn"]
IdentityFile == Keys \cup {NoFile, Torn}

\* An alias file; a missing or torn one parses as the default, no ids.
Ids       == [Nets -> Contracts \cup {NoId}]
NoIds     == [q \in Nets |-> NoId]
AliasFile == [st : {"none", "torn"}, ids : {NoIds}] \cup [st : {"whole"}, ids : Ids]

\* Command lines.
KeyCommand ==
    [op : {"generate"}, name : Names, loc : Locations, seed : Seeds,
     secure : BOOLEAN, overwrite : BOOLEAN]
    \cup [op : {"add"}, name : Names, loc : Locations, seed : Seeds, secure : BOOLEAN]
    \cup [op : {"rm"}, name : Names, loc : Locations]
AliasCommand ==
    [op : {"alias_add", "deploy"}, name : Names, loc : Locations, net : Nets, id : Contracts]
    \cup [op : {"alias_rm"}, name : Names, loc : Locations, net : Nets]
NoCommand == [op |-> "none"]

KeySteps   == {"keyget", "keyset", "blindset", "overlap", "open", "write", "delseed", "rmfile"}
AliasSteps == {"alias_overlap", "alias_read", "alias_open", "alias_write"}

VARIABLES
    identity,   \* identity[l][n]: the file <l>/identity/<n>.toml
    aliases,    \* aliases[l][n]: the file <l>/contract-ids/<n>.json
    keyring,    \* keyring[n]: the seed under the entry of name n
    acked,      \* acked[l][n][q]: the id last reported as saved (for the properties)
    pc,         \* the step that each process takes next
    cmd,        \* its command line
    key,        \* the key it is about to write (rm: the identity it has read)
    ids,        \* the contents of the alias file it has read
    outcome     \* how its last command ended

vars == <<identity, aliases, keyring, acked, pc, cmd, key, ids, outcome>>

TypeOK ==
    /\ identity \in [Locations -> [Names -> IdentityFile]]
    /\ aliases \in [Locations -> [Names -> AliasFile]]
    /\ keyring \in [Names -> Seeds \cup {NoSeed}]
    /\ acked \in [Locations -> [Names -> Ids]]
    /\ pc \in [Procs -> {"idle"} \cup KeySteps \cup AliasSteps]
    /\ cmd \in [Procs -> KeyCommand \cup AliasCommand \cup {NoCommand}]
    /\ key \in [Procs -> IdentityFile]
    /\ ids \in [Procs -> Ids]
    /\ outcome \in [Procs -> {"none", "ok", "err", "killed"}]

---------------------------------------------------------------------------
\* read_with_global: the local file, or else the global one; a file that is
\* missing or does not parse is skipped.
Read(n) == IF identity["local"][n] \in Keys
           THEN identity["local"][n] ELSE identity["global"][n]

Readable(n) == Read(n) \in Keys

\* load_contract_from_alias finds the file, whatever it holds.
HasAliasFile(l, n) == aliases[l][n].st # "none"

\* get_contract_id looks in the one directory that the flags select.
GetContractId(l, n, q) == aliases[l][n].ids[q]

---------------------------------------------------------------------------
Init ==
    /\ identity = [l \in Locations |-> [n \in Names |-> NoFile]]
    /\ aliases = [l \in Locations |-> [n \in Names |-> [st |-> "none", ids |-> NoIds]]]
    /\ keyring = [n \in Names |-> NoSeed]
    /\ acked = [l \in Locations |-> [n \in Names |-> NoIds]]
    /\ pc = [p \in Procs |-> "idle"]
    /\ cmd = [p \in Procs |-> NoCommand]
    /\ key = [p \in Procs |-> NoFile]
    /\ ids = [p \in Procs |-> NoIds]
    /\ outcome = [p \in Procs |-> "none"]

\* A process starts command c; a command whose first checks fail returns an
\* error and changes nothing, so the commands below state those checks as guards.
Start(p, c, step) ==
    /\ pc[p] = "idle"
    /\ c.op \in Commands /\ c.loc \in CommandDirs
    /\ c.name \in NamesOf[p]
    /\ pc' = [pc EXCEPT ![p] = step]
    /\ cmd' = [cmd EXCEPT ![p] = c]
    /\ outcome' = [outcome EXCEPT ![p] = "none"]

Goto(p, from, to) ==
    /\ pc[p] = from
    /\ pc' = [pc EXCEPT ![p] = to]
    /\ UNCHANGED <<cmd, key, ids, outcome>>

Finish(p, from, result) ==
    /\ pc[p] = from
    /\ pc' = [pc EXCEPT ![p] = "idle"]
    /\ outcome' = [outcome EXCEPT ![p] = result]
    /\ key' = [key EXCEPT ![p] = NoFile]
    /\ ids' = [ids EXCEPT ![p] = NoIds]
    /\ UNCHANGED cmd

---------------------------------------------------------------------------
(* Keys.                                                                   *)

\* Mutant of KeysGenerate: looks for the name in the selected directory only.
KeysGenerateOneDir(p, c) ==
    /\ c.op = "generate"
    /\ identity[c.loc][c.name] \in Keys => c.overwrite
    /\ Start(p, c, IF c.secure THEN "keyget" ELSE "overlap")
    /\ key' = [key EXCEPT ![p] = IF c.secure THEN SecureStore(c.name) ELSE Plain(c.seed)]
    /\ UNCHANGED <<identity, aliases, keyring, acked, ids>>

\* keys generate: refuses a name that is already readable, unless --overwrite.
KeysGenerate(p, c) ==
    /\ c.op = "generate"
    /\ Readable(c.name) => c.overwrite
    /\ Start(p, c, IF c.secure THEN "keyget" ELSE "overlap")
    /\ key' = [key EXCEPT ![p] = IF c.secure THEN SecureStore(c.name) ELSE Plain(c.seed)]
    /\ UNCHANGED <<identity, aliases, keyring, acked, ids>>

\* keys add: any key, over whatever the name holds.  A typed secret may itself be
\* a keyring reference: Secret::from_str accepts secure_store:<anything>.
KeysAdd(p, c, k) ==
    /\ c.op = "add"
    /\ IF c.secure THEN k = SecureStore(c.name)
                   ELSE k \in {PublicKey, Plain(c.seed)} \cup {SecureStore(e) : e \in Names}
    /\ Start(p, c, IF c.secure THEN "keyget" ELSE "open")
    /\ key' = [key EXCEPT ![p] = k]
    /\ UNCHANGED <<identity, aliases, keyring, acked, ids>>

\* write_identity's check, made by generate and not by add (write_key).
AfterKeyring(p) == IF cmd[p].op = "generate" THEN "overlap" ELSE "open"

\* Mutant of KeyringKeep: writes the new seed over the one that it has read.
KeyringKeepReplaces(p) ==
    /\ Goto(p, "keyget", "keyset")
    /\ keyring[cmd[p].name] # NoSeed
    /\ UNCHANGED <<identity, aliases, keyring, acked>>

\* write_to_secure_store reads the entry: one that can be read is kept ...
KeyringKeep(p) ==
    /\ Goto(p, "keyget", AfterKeyring(p))
    /\ keyring[cmd[p].name] # NoSeed
    /\ UNCHANGED <<identity, aliases, keyring, acked>>

\* Mutant of KeyringMissing: goes on without storing the seed.
KeyringMissingSkips(p) ==
    /\ Goto(p, "keyget", AfterKeyring(p))
    /\ UNCHANGED <<identity, aliases, keyring, acked>>

\* ... and every error counts as "no entry": a locked keyring as well as none.
KeyringMissing(p) ==
    /\ Goto(p, "keyget", IF keyring[cmd[p].name] = NoSeed THEN "keyset" ELSE "blindset")
    /\ UNCHANGED <<identity, aliases, keyring, acked>>

\* set_seed_phrase.
KeyringSet(p) ==
    /\ pc[p] \in {"keyset", "blindset"}
    /\ Goto(p, pc[p], AfterKeyring(p))
    /\ keyring' = [keyring EXCEPT ![cmd[p].name] = cmd[p].seed]
    /\ UNCHANGED <<identity, aliases, acked>>

\* The keyring refuses to store or to delete: the command returns the error.
KeyringFails(p) ==
    /\ pc[p] \in {"keyset", "blindset", "delseed"}
    /\ Finish(p, pc[p], "err")
    /\ UNCHANGED <<identity, aliases, keyring, acked>>

\* write_identity: an alias file of that name in the same directory is an error.
IdentityOverlap(p) ==
    /\ \/ Finish(p, "overlap", "err") /\ HasAliasFile(cmd[p].loc, cmd[p].name)
       \/ Goto(p, "overlap", "open") /\ ~HasAliasFile(cmd[p].loc, cmd[p].name)
    /\ UNCHANGED <<identity, aliases, keyring, acked>>

\* KeyType::write is fs::write: it truncates the file ...
IdentityOpen(p) ==
    /\ Goto(p, "open", "write")
    /\ identity' = [identity EXCEPT ![cmd[p].loc][cmd[p].name] = Torn]
    /\ UNCHANGED <<aliases, keyring, acked>>

\* ... and then writes it.  generate may still fail afterwards: the network to fund
\* the account on is looked up when the key is already saved.
IdentityWrite(p) ==
    /\ \/ Finish(p, "write", "ok")
       \/ Finish(p, "write", "err") /\ cmd[p].op = "generate"
    /\ identity' = [identity EXCEPT ![cmd[p].loc][cmd[p].name] = key[p]]
    /\ UNCHANGED <<aliases, keyring, acked>>

\* keys rm reads the identity (local, then global); it must be readable.
KeysRm(p, c) ==
    /\ c.op = "rm"
    /\ Readable(c.name)
    /\ Start(p, c, IF Read(c.name).kind = "store" THEN "delseed" ELSE "rmfile")
    /\ key' = [key EXCEPT ![p] = Read(c.name)]
    /\ UNCHANGED <<identity, aliases, keyring, acked, ids>>

\* It deletes the keyring entry (an entry that is not there is not an error) ...
KeyringDelete(p) ==
    /\ Goto(p, "delseed", "rmfile")
    /\ keyring' = [keyring EXCEPT ![key[p].entry] = NoSeed]
    /\ UNCHANGED <<identity, aliases, acked>>

\* ... and then the file in the directory that the flags select, if it exists.
IdentityRemove(p) ==
    /\ Finish(p, "rmfile", "ok")
    /\ identity' = [identity EXCEPT ![cmd[p].loc][cmd[p].name] = NoFile]
    /\ UNCHANGED <<aliases, keyring, acked>>

---------------------------------------------------------------------------
(* Contract aliases.                                                       *)

\* contract alias add: another id under the name needs --overwrite.
AliasAdd(p, c, overwrite) ==
    /\ c.op = "alias_add"
    /\ GetContractId(c.loc, c.name, c.net) \in {NoId, c.id} \/ overwrite
    /\ Start(p, c, "alias_overlap")
    /\ UNCHANGED <<identity, aliases, keyring, acked, key, ids>>

\* contract deploy --alias, once the contract is deployed: overwrites.
DeployAlias(p, c) ==
    /\ c.op = "deploy"
    /\ Start(p, c, "alias_overlap")
    /\ UNCHANGED <<identity, aliases, keyring, acked, key, ids>>

\* contract alias remove: the name must have an id on that network.
AliasRemove(p, c) ==
    /\ c.op = "alias_rm"
    /\ GetContractId(c.loc, c.name, c.net) # NoId
    /\ Start(p, c, "alias_read")
    /\ UNCHANGED <<identity, aliases, keyring, acked, key, ids>>

\* save_contract_id: a readable identity of that name, in either directory, is an error.
AliasOverlap(p) ==
    /\ \/ Finish(p, "alias_overlap", "err") /\ Readable(cmd[p].name)
       \/ Goto(p, "alias_overlap", "alias_read") /\ ~Readable(cmd[p].name)
    /\ UNCHANGED <<identity, aliases, keyring, acked>>

\* Mutant of AliasRead: starts from an empty alias file.
AliasReadDefault(p) ==
    /\ Goto(p, "alias_read", "alias_open")
    /\ UNCHANGED <<identity, aliases, keyring, acked>>

\* save_contract_id and remove_contract_id read the file (an unreadable one is empty) ...
AliasRead(p) ==
    /\ pc[p] = "alias_read"
    /\ pc' = [pc EXCEPT ![p] = "alias_open"]
    /\ ids' = [ids EXCEPT ![p] = aliases[cmd[p].loc][cmd[p].name].ids]
    /\ UNCHANGED <<identity, aliases, keyring, acked, cmd, key, outcome>>

\* Mutant of AliasOpen: does not truncate the file that it opens.
AliasOpenKeepsIds(p) ==
    /\ Goto(p, "alias_open", "alias_write")
    /\ aliases' = [aliases EXCEPT ![cmd[p].loc][cmd[p].name].st = "torn"]
    /\ UNCHANGED <<identity, keyring, acked>>

\* ... open it with create and truncate ...
AliasOpen(p) ==
    /\ Goto(p, "alias_open", "alias_write")
    /\ aliases' = [aliases EXCEPT ![cmd[p].loc][cmd[p].name] =
                                       [st |-> "torn", ids |-> NoIds]]
    /\ UNCHANGED <<identity, keyring, acked>>

\* ... and write it back with this network's id inserted or removed.
AliasWrite(p) ==
    LET c   == cmd[p]
        new == [ids[p] EXCEPT ![c.net] = IF c.op = "alias_rm" THEN NoId ELSE c.id]
    IN /\ Finish(p, "alias_write", "ok")
       /\ aliases' = [aliases EXCEPT ![c.loc][c.name] = [st |-> "whole", ids |-> new]]
       /\ acked' = [acked EXCEPT ![c.loc][c.name][c.net] = new[c.net]]
       /\ UNCHANGED <<identity, keyring>>

---------------------------------------------------------------------------
\* The process dies (a signal, a power cut).  Between the truncation and the
\* write of an alias file this loses every id of that file.
Kill(p) ==
    /\ pc[p] # "idle"
    /\ Finish(p, pc[p], "killed")
    /\ acked' = IF pc[p] = "alias_write"
                THEN [acked EXCEPT ![cmd[p].loc][cmd[p].name] = NoIds] ELSE acked
    /\ UNCHANGED <<identity, aliases, keyring>>

KeyNext(p) ==
    \/ \E c \in KeyCommand : KeysGenerate(p, c) \/ KeysRm(p, c)
    \/ \E c \in KeyCommand, k \in Keys : KeysAdd(p, c, k)
    \/ KeyringKeep(p) \/ KeyringMissing(p) \/ KeyringSet(p) \/ KeyringFails(p)
    \/ IdentityOverlap(p) \/ IdentityOpen(p) \/ IdentityWrite(p)
    \/ KeyringDelete(p) \/ IdentityRemove(p)

AliasNext(p) ==
    \/ \E c \in AliasCommand, overwrite \in BOOLEAN : AliasAdd(p, c, overwrite)
    \/ \E c \in AliasCommand : DeployAlias(p, c) \/ AliasRemove(p, c)
    \/ AliasOverlap(p) \/ AliasRead(p) \/ AliasOpen(p) \/ AliasWrite(p)

Next == \E p \in Procs : KeyNext(p) \/ AliasNext(p) \/ Kill(p)

Spec == Init /\ [][Next]_vars
---------------------------------------------------------------------------
(* Properties.                                                             *)

Writing(p, l, n) == pc[p] = "alias_write" /\ cmd[p].loc = l /\ cmd[p].name = n

\* AliasIdsDurable: an alias file holds, for every network, the id that the last
\* command on that name and network reported (or none after a removal), although
\* every save rewrites the whole file with the ids of all networks
\* (save_contract_id, remove_contract_id).  Only a process killed between the
\* truncation and the write loses ids.
AliasIdsDurable ==
    \A l \in Locations, n \in Names :
        (\A p \in Procs : ~Writing(p, l, n)) => aliases[l][n].ids = acked[l][n]

\* NameExclusive: no directory holds both a readable identity and an alias file of
\* one name.  write_identity and save_contract_id each look for the other's file and
\* write their own some steps later, without a lock.
NameExclusive ==
    \A l \in Locations, n \in Names : identity[l][n] \in Keys => ~HasAliasFile(l, n)

\* GenerateTakesEffect: after a successful `keys generate` without --overwrite the
\* name reads as the key just written, in whichever directory it was written: no
\* file of the other directory shadows it, and a secure-store key has a seed.
GenerateTakesEffect ==
    \A p \in Procs :
        (outcome[p] = "ok" /\ cmd[p].op = "generate" /\ ~cmd[p].overwrite) =>
            IF cmd[p].secure
            THEN /\ Read(cmd[p].name) = SecureStore(cmd[p].name)
                 /\ keyring[cmd[p].name] # NoSeed
            ELSE Read(cmd[p].name) = Plain(cmd[p].seed)

\* SeedReplacedOnlyBlind: a seed in the keyring is never replaced by another one,
\* --overwrite or not, except by a process whose read of the entry failed
\* (write_to_secure_store takes every error for a missing entry).
SeedReplacedOnlyBlind ==
    [][\A n \in Names :
          (keyring[n] # NoSeed /\ keyring'[n] \notin {keyring[n], NoSeed}) =>
              \E p \in Procs : pc[p] = "blindset" /\ cmd[p].name = n]_keyring

Dangling(l, n) == /\ identity[l][n].kind = "store"
                  /\ keyring[identity[l][n].entry] = NoSeed

\* DanglingOnlyFromRm: the keyring is written before the identity file that refers
\* to it, so generate and add, even killed half-way, never leave a reference
\* without a seed; only the deletion in `keys rm`, or a reference typed by hand, does.
DanglingOnlyFromRm ==
    [][\A l \in Locations, n \in Names :
          (~Dangling(l, n) /\ Dangling(l, n)') =>
              \E p \in Procs :
                  \/ pc[p] = "delseed"
                  \/ pc[p] = "write" /\ cmd[p].op = "add" /\ ~cmd[p].secure]_vars

---------------------------------------------------------------------------
(* The inductive invariant of the proofs.                                  *)

\* Commands of different processes mention different names.
DisjointNames == \A p, q \in Procs : p # q => NamesOf[p] \cap NamesOf[q] = {}

\* ControlOK: the part of the type invariant that ties a step to its command.
ControlOK ==
    \A p \in Procs :
        /\ pc[p] \in KeySteps => cmd[p] \in KeyCommand
        /\ pc[p] \in AliasSteps => cmd[p] \in AliasCommand
        /\ pc[p] # "idle" => cmd[p].name \in NamesOf[p] /\ cmd[p].op \in Commands
        /\ pc[p] \in {"keyget", "keyset", "blindset", "open", "write"} =>
               cmd[p].op \in {"generate", "add"} /\ key[p] \in Keys
        /\ pc[p] = "overlap" => cmd[p].op = "generate" /\ key[p] \in Keys
        /\ pc[p] \in {"delseed", "rmfile"} => cmd[p].op = "rm"
        /\ pc[p] = "alias_overlap" => cmd[p].op # "alias_rm"
        /\ pc[p] = "delseed" => key[p] \in {SecureStore(e) : e \in Names}

\* AliasInv strengthens AliasIdsDurable: what a process has read of an alias file is
\* still what the file held when it truncates and rewrites it, and in between the
\* file is empty.
AliasInv ==
    /\ AliasIdsDurable
    /\ \A p \in Procs :
        /\ pc[p] \in {"alias_open", "alias_write"} => ids[p] = acked[cmd[p].loc][cmd[p].name]
        /\ pc[p] = "alias_write" => aliases[cmd[p].loc][cmd[p].name].ids = NoIds
=============================================================================
