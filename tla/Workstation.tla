---------------------------- MODULE Workstation ----------------------------
(***************************************************************************)
(* What the commands keep on the user's own machine: the network            *)
(* configuration, the data directory, the memory of the upgrade check, a    *)
(* workspace that is built and a project that is generated.  They have no   *)
(* file in common, so a behaviour is one of a single part, `part`, and the  *)
(* variables of the others stand still.                                    *)
(***************************************************************************)
EXTENDS Integers, Sequences

CONSTANTS
    Procs,
    Users,          \* the processes where one runs after the other
    \* NetworkConfig
    Dirs, NetworkNames, BuiltIn, Networks, Default(_), Explicit, Identities, DefaultLines,
    FundNames, FundLines, Shells, ChoiceLines,
    \* DataCache
    Contracts, Hashes, Size, SpecOps, LogHashes, LogOps, MaxStarts, MaxClock, MaxRandom,
    \* UpgradeCheck
    MaxVersion, Previews, Interval, MaxTime,
    \* ContractBuild
    Workspace, BuildLines, Links, Edits, MaxMeta,
    \* ContractInit
    Projects, MaxEdits, Kills, Existing

VARIABLES
    part,
    \* DataCache
    code, specs, actions, complete, started, clock, made, op, contract, since, hash, entries,
    id, kind, before, rest, listed,
    \* UpgradeCheck
    now, released, file, kept, version, checked, stats, said,
    \* ContractBuild
    sources, compiled, deps, target, outdir, anew, bytes,
    \* ContractInit
    name, overwrite, edits, kills,
    \* NetworkConfig
    config, saved, accounts, dir, shell, offered, env, read, used, net, says,
    \* several of them
    pc, linked, line, todo, files

cacheVars   == <<code, specs, actions, complete, started, clock, made, op, contract, since,
                 hash, entries, id, kind, before, rest, listed>>
upgradeVars == <<now, released, file, kept, version, checked, stats, said>>
buildVars   == <<sources, compiled, deps, target, outdir, anew, bytes>>
initVars    == <<name, overwrite, edits, kills>>
netVars     == <<config, saved, accounts, dir, shell, offered, env, read, used, net, says>>
vars == <<part, cacheVars, upgradeVars, buildVars, initVars, netVars,
          pc, linked, line, todo, files>>

-----------------------------------------------------------------------------
(* The parts.                                                               *)

\* The defaults that one command after the other sets; the networks themselves, and
\* friendbot; processes that choose by flags and variables while others set the defaults.
Defaults  == INSTANCE NetworkConfig WITH
    Procs <- Users, Names <- NetworkNames, Lines <- DefaultLines
Friendbot == INSTANCE NetworkConfig WITH
    Procs <- Users, Names <- FundNames, Lines <- FundLines,
    Shells <- {s \in Shells : {s.soroban.network, s.stellar.network} \subseteq FundNames \cup {"none"}}
Choices   == INSTANCE NetworkConfig WITH Names <- NetworkNames, Lines <- ChoiceLines

\* Processes that use the spec of a contract whose code is replaced, and that log and list.
SpecCache == INSTANCE DataCache WITH Ops <- SpecOps, MaxClock <- 1
ActionLog == INSTANCE DataCache WITH Ops <- LogOps, Hashes <- LogHashes

\* Commands that run at the same time, and one after another.
Warnings == INSTANCE UpgradeCheck
Requests == INSTANCE UpgradeCheck WITH Procs <- Users

Build    == INSTANCE ContractBuild WITH Lines <- BuildLines, None <- "none"
Template == INSTANCE ContractInit WITH Contracts <- Projects

ASSUME NetworkAssumption ==
    /\ Defaults!ConstantsAssumption /\ Friendbot!ConstantsAssumption
    /\ Choices!ShellsAssumption
    /\ Defaults!LinesAssumption /\ Friendbot!LinesAssumption /\ Choices!LinesAssumption
ASSUME CacheAssumption ==
    /\ SpecCache!SizeAssumption /\ SpecCache!OpsAssumption
    /\ ActionLog!SizeAssumption /\ ActionLog!OpsAssumption
ASSUME UpgradeAssumption == Warnings!VersionsAssumption
ASSUME BuildAssumption ==
    Build!WorkspaceAssumption /\ Build!LinesAssumption /\ Build!LinksAssumption

-----------------------------------------------------------------------------
(* A part that does not take part.                                          *)

NoCache ==
    /\ code = 0 /\ specs = 0 /\ actions = 0 /\ complete = 0 /\ started = 0 /\ clock = 0
    /\ made = 0 /\ op = 0 /\ contract = 0 /\ since = 0 /\ hash = 0 /\ entries = 0 /\ id = 0 /\ kind = 0
    /\ before = 0 /\ rest = 0 /\ listed = 0
NoUpgrade ==
    /\ now = 0 /\ released = 0 /\ file = 0 /\ kept = 0 /\ version = 0
    /\ checked = 0 /\ stats = 0 /\ said = 0
NoBuild ==
    /\ sources = 0 /\ compiled = 0 /\ deps = 0 /\ target = 0 /\ outdir = 0
    /\ anew = 0 /\ bytes = 0
NoInit == name = 0 /\ overwrite = 0 /\ edits = 0 /\ kills = 0
NoNet ==
    /\ config = 0 /\ saved = 0 /\ accounts = 0 /\ dir = 0 /\ shell = 0 /\ offered = 0
    /\ env = 0 /\ read = 0 /\ used = 0 /\ net = 0 /\ says = 0

Init ==
    \/ /\ \/ part = "defaults" /\ Defaults!Init
          \/ part = "friendbot" /\ Friendbot!Init
          \/ part = "choices" /\ Choices!Init
       /\ NoCache /\ NoUpgrade /\ NoBuild /\ NoInit /\ linked = 0 /\ todo = 0
    \/ /\ \/ part = "specs" /\ SpecCache!Init
          \/ part = "log" /\ ActionLog!Init
       /\ NoUpgrade /\ NoBuild /\ NoInit /\ NoNet /\ line = 0 /\ todo = 0 /\ files = 0
    \/ /\ \/ part = "warnings" /\ Warnings!Init
          \/ part = "requests" /\ Requests!Init
       /\ NoCache /\ NoBuild /\ NoInit /\ NoNet
       /\ linked = 0 /\ line = 0 /\ todo = 0 /\ files = 0
    \/ /\ part = "build" /\ Build!Init
       /\ NoCache /\ NoUpgrade /\ NoInit /\ NoNet /\ files = 0
    \/ /\ part = "template" /\ Template!Init
       /\ NoCache /\ NoUpgrade /\ NoBuild /\ NoNet /\ linked = 0 /\ line = 0

Next ==
    /\ part' = part
    /\ \/ /\ \/ part = "defaults" /\ Defaults!Next
             \/ part = "friendbot" /\ Friendbot!Next
             \/ part = "choices" /\ Choices!Next
          /\ UNCHANGED <<cacheVars, upgradeVars, buildVars, initVars, linked, todo>>
       \/ /\ \/ part = "specs" /\ SpecCache!Next
             \/ part = "log" /\ ActionLog!Next
          /\ UNCHANGED <<upgradeVars, buildVars, initVars, netVars, line, todo, files>>
       \/ /\ \/ part = "warnings" /\ Warnings!Next
             \/ part = "requests" /\ Requests!Next
          /\ UNCHANGED <<cacheVars, buildVars, initVars, netVars, linked, line, todo, files>>
       \/ /\ part = "build" /\ Build!Next
          /\ UNCHANGED <<cacheVars, upgradeVars, initVars, netVars, files>>
       \/ /\ part = "template" /\ Template!Next
          /\ UNCHANGED <<cacheVars, upgradeVars, buildVars, netVars, linked, line>>

Spec == Init /\ [][Next]_vars

-----------------------------------------------------------------------------
(* Properties.                                                              *)

\* config.toml holds the defaults that `network use` and `keys use` last reported to have
\* set, or does not parse, wherever a process is killed (NetworkConfig).
SavedDefaults == part = "defaults" => Defaults!SavedDefaults

\* A command uses the network and the account of the first that names one: a flag, a
\* SOROBAN_ variable, a STELLAR_ one, or the defaults config.toml had while it ran; `env`
\* shows this choice and its source (NetworkConfig).
ChoiceIsTheUsers == part = "choices" => Choices!ChoiceIsTheUsers

\* `keys fund` says that an account is funded only when it is (NetworkConfig).
FundedIsTrue == part = "friendbot" => Friendbot!FundedIsTrue

\* The spec that a command uses is of a Wasm that its contract has run since the command
\* started (DataCache).
SpecOfContract == part = "specs" => SpecCache!SpecOfContract

\* A listing that completes has every action that was logged before it, none twice, those of
\* a later millisecond first (DataCache).
LogListed == part = "log" => ActionLog!LogListed

\* What the upgrade check recommends is released, and stable for users of a stable version
\* (UpgradeCheck).
RecommendsReleased == part = "warnings" => Warnings!RecommendsReleased

\* Once a check was saved, crates.io is not asked again before an interval has passed,
\* wherever the commands end and whichever saves fail (UpgradeCheck).
QuietOnceSaved == part = "requests" => Requests!QuietOnceSaved

\* A build that succeeds leaves wasm files of the sources that were compiled, with the meta
\* entries of this command alone, and the same in the output directory, of every package
\* that was compiled anew or whose file is a copy of cargo's (ContractBuild).
BuildExactAnew == part = "build" => Build!BuildExactAnew

\* The same of every package that the command selected (ContractBuild).
BuildExact == part = "build" => Build!BuildExact

\* `contract init` without --overwrite changes no file that someone edited, and with it none
\* of another contract (ContractInit).
EditsKept == [][part = "template" => Template!KeepsEdits]_vars
=============================================================================
