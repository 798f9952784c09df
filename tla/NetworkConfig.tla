---------------------------- MODULE NetworkConfig ----------------------------
(* Which network a command talks to: the network files of the directories and *)
(* of the global configuration, the built-in networks, the defaults of        *)
(* config.toml that become environment variables, the environment and the     *)
(* flags; `network add`, `rm`, `use`, `ls`, `keys use`, `env`, and the        *)
(* funding of accounts through a network's friendbot.  Any number of processes *)
(* run, and any of them may be killed between two system calls.               *)
EXTENDS Naturals, FiniteSets

CONSTANTS
  Procs,
  Dirs,        \* directories with a local configuration
  Names,       \* names of networks
  BuiltIn,     \* the names in DEFAULTS
  Networks,    \* networks a user may add (url, headers and passphrase)
  Default(_),  \* the network DEFAULTS gives to a built-in name
  Explicit,    \* the network of --rpc-url and --network-passphrase
  Identities,  \* names of stored identities
  Shells,      \* the variables that processes are started with
  Lines        \* the command lines that are run

None == "none"
Broken == "broken"      \* a file that was truncated and not written again
Global == "global"
Places == Dirs \cup {Global}

ConstantsAssumption ==
  /\ BuiltIn \subseteq Names
  /\ Global \notin Dirs
  /\ {None, Broken} \cap (Networks \cup Names \cup Identities) = {}

(* The command line: the name given to the command, --global, --network,      *)
(* --source-account, and which of --rpc-url and --network-passphrase are      *)
(* given, by flag or variable.  "run" is any command with a source account    *)
(* and a network.                                                             *)
CommandLines ==
  {l \in [op : {"add", "rm", "ls", "use", "useIdentity", "env", "run", "fund", "generate"},
          name : Names \cup Identities, global : BOOLEAN, network : Names \cup {None},
          identity : Identities \cup {None}, rpc : BOOLEAN, pass : BOOLEAN] :
     /\ l.op \in {"useIdentity", "fund", "generate"} <=> l.name \in Identities
     /\ l.op \notin {"run", "fund", "generate"} => l.network = None /\ ~ l.rpc /\ ~ l.pass
     /\ l.op # "run" => l.identity = None
     /\ l.op \notin {"add", "rm", "ls"} => ~ l.global}
LinesAssumption == Lines \subseteq CommandLines

NoDefaults == [network |-> None, identity |-> None]
Defaults == [network : Names \cup {None}, identity : Identities \cup {None}]

(* SOROBAN_NETWORK and SOROBAN_ACCOUNT, STELLAR_NETWORK and STELLAR_ACCOUNT.   *)
ShellsAssumption == Shells \subseteq [soroban : Defaults, stellar : Defaults]

VARIABLES
  files,     \* network/<name>.toml in each place
  config,    \* config.toml: the defaults, or Broken
  saved,     \* the defaults that completed commands have set
  accounts,  \* the identities that have an account, per network
  pc, line, dir,
  shell,     \* the variables that the process was started with
  offered,   \* the defaults of config.toml since it started
  env,       \* its STELLAR_NETWORK and STELLAR_ACCOUNT, with their _SOURCE
  read,      \* the defaults the process has read
  used,      \* the name of the network and the source account it used
  net,       \* the network the process resolved
  says       \* what it printed

vars == <<files, config, saved, accounts, pc, line, dir, shell, offered, env, read, used, net,
          says>>

BrokenConfig == [broken |-> TRUE]

AnyName == CHOOSE n \in Names : TRUE
Idle == [op |-> "env", name |-> AnyName, global |-> FALSE,
         network |-> None, identity |-> None, rpc |-> FALSE, pass |-> FALSE]
Unset == [value |-> None, source |-> "env"]
NoEnv == [network |-> Unset, identity |-> Unset]
NoShell == [soroban |-> NoDefaults, stellar |-> NoDefaults]

Init ==
  /\ files = [l \in Places |-> [n \in Names |-> None]]
  /\ config = NoDefaults /\ saved = NoDefaults
  /\ accounts = {}
  /\ pc = [p \in Procs |-> "idle"]
  /\ line = [p \in Procs |-> Idle]
  /\ dir = [p \in Procs |-> CHOOSE d \in Dirs : TRUE]
  /\ shell = [p \in Procs |-> NoShell]
  /\ offered = [p \in Procs |-> {}]
  /\ env = [p \in Procs |-> NoEnv]
  /\ read = [p \in Procs |-> NoDefaults]
  /\ used = [p \in Procs |-> NoDefaults]
  /\ net = [p \in Procs |-> None]
  /\ says = [p \in Procs |-> {}]

-----------------------------------------------------------------------------
(* Reading.                                                                   *)

(* read_with_global: a file that cannot be parsed is passed over.             *)
ReadWithGlobal(d, n) ==
  IF files[d][n] \notin {None, Broken} THEN files[d][n]
  ELSE IF files[Global][n] \notin {None, Broken} THEN files[Global][n]
  ELSE None

ReadNetwork(d, n) ==
  IF ReadWithGlobal(d, n) # None THEN ReadWithGlobal(d, n)
  ELSE IF n \in BuiltIn THEN Default(n) ELSE None

(* A flag, or the variable that clap takes when it is not given.              *)
FlagOrEnv(flag, var) == IF flag # None THEN flag ELSE var.value
Name(p) == FlagOrEnv(line[p].network, env[p].network)
Account(p) == FlagOrEnv(line[p].identity, env[p].identity)

(* network::Args::get.                                                        *)
GetNetwork(p) ==
  CASE line[p].rpc # line[p].pass -> None
    [] line[p].rpc /\ line[p].pass -> Explicit
    [] ~ line[p].rpc /\ ~ line[p].pass ->
         IF Name(p) = None THEN None ELSE ReadNetwork(dir[p], Name(p))

ConfigDir(p) == IF line[p].global THEN Global ELSE dir[p]

(* Config::new: no file is no defaults, a file that does not parse an error.  *)
ConfigNewLenient(c) == {IF c = BrokenConfig THEN NoDefaults ELSE c}
ConfigNew(c) == {c} \ {BrokenConfig}
Parsed(c) == IF c = BrokenConfig THEN NoDefaults ELSE c

-----------------------------------------------------------------------------
At(p, label) == pc[p] = label
Goto(p, label) == pc' = [pc EXCEPT ![p] = label]
Runs(p, op) == At(p, "run") /\ line[p].op = op
Ends(p, ok) == Goto(p, IF ok THEN "done" ELSE "failed")

(* A process starts: its command line, directory and environment.             *)
Start(p) ==
  /\ pc[p] \in {"idle", "done", "failed"}
  /\ \E l \in Lines, d \in Dirs, s \in Shells :
       /\ line' = [line EXCEPT ![p] = l]
       /\ dir' = [dir EXCEPT ![p] = d]
       /\ shell' = [shell EXCEPT ![p] = s]
  /\ offered' = [offered EXCEPT ![p] = {Parsed(config)}]
  /\ env' = [env EXCEPT ![p] = NoEnv]
  /\ used' = [used EXCEPT ![p] = NoDefaults]
  /\ net' = [net EXCEPT ![p] = None]
  /\ says' = [says EXCEPT ![p] = {}]
  /\ read' = [read EXCEPT ![p] = NoDefaults]
  /\ Goto(p, "config")
  /\ UNCHANGED <<files, config, saved, accounts>>

(* main maps SOROBAN_ variables to STELLAR_ ones, over those that are set.    *)
MapUnset(soroban, stellar) == IF stellar # None THEN stellar ELSE soroban
MapSoroban(soroban, stellar) == IF soroban # None THEN soroban ELSE stellar

(* set_env_value_from_config.                                                 *)
SetEnvValue(value, default) ==
  IF default # None /\ value = None THEN [value |-> default, source |-> "use"]
                                    ELSE [value |-> value, source |-> "env"]

(* The environment that the flags are parsed in: the mapped variables, and    *)
(* set_env_from_config, which passes over a config.toml that does not parse.  *)
SetEnvFromConfig(p) ==
  /\ At(p, "config")
  /\ LET old == shell[p].soroban
         new == shell[p].stellar
         defaults == Parsed(config)
     IN  env' = [env EXCEPT ![p] =
           [network |-> SetEnvValue(MapSoroban(old.network, new.network), defaults.network),
            identity |-> SetEnvValue(MapSoroban(old.identity, new.identity), defaults.identity)]]
  /\ Goto(p, "run")
  /\ UNCHANGED <<files, config, saved, accounts, line, dir, shell, offered, read, used, net, says>>

(* network add: KeyType::write truncates the file and writes it.              *)
NetworkAdd(p) ==
  /\ Runs(p, "add")
  /\ files' = [files EXCEPT ![ConfigDir(p)][line[p].name] = Broken]
  /\ Goto(p, "write")
  /\ UNCHANGED <<config, saved, accounts, line, dir, shell, offered, env, read, used, net, says>>

NetworkWrite(p) ==
  /\ At(p, "write")
  /\ \E x \in Networks : files' = [files EXCEPT ![ConfigDir(p)][line[p].name] = x]
  /\ Ends(p, TRUE)
  /\ UNCHANGED <<config, saved, accounts, line, dir, shell, offered, env, read, used, net, says>>

NetworkRm(p) ==
  /\ Runs(p, "rm")
  /\ files' = [files EXCEPT ![ConfigDir(p)][line[p].name] = None]
  /\ Ends(p, TRUE)
  /\ UNCHANGED <<config, saved, accounts, line, dir, shell, offered, env, read, used, net, says>>

(* network use, keys use: the name must be readable (the identities are those *)
(* of ConfigStore, and may be missing here), then config.toml is read,        *)
(* truncated and written with one of its defaults changed.                    *)
CheckDefault(p) ==
  /\ \/ Runs(p, "use") /\ ReadNetwork(dir[p], line[p].name) # None /\ Goto(p, "read")
     \/ Runs(p, "use") /\ ReadNetwork(dir[p], line[p].name) = None /\ Ends(p, FALSE)
     \/ Runs(p, "useIdentity") /\ \E found \in BOOLEAN :
          IF found THEN Goto(p, "read") ELSE Ends(p, FALSE)
  /\ UNCHANGED <<files, config, saved, accounts, line, dir, shell, offered, env, read, used, net, says>>

ReadDefaults(p) ==
  /\ At(p, "read")
  /\ IF ConfigNew(config) = {}
     THEN Ends(p, FALSE) /\ UNCHANGED read
     ELSE /\ \E c \in ConfigNew(config) :
               read' = [read EXCEPT ![p] = IF line[p].op = "use"
                                           THEN [c EXCEPT !.network = line[p].name]
                                           ELSE [c EXCEPT !.identity = line[p].name]]
          /\ Goto(p, "truncate")
  /\ UNCHANGED <<files, config, saved, accounts, line, dir, shell, offered, env, used, net, says>>

\* (ghost) Every process that runs may read the new config.toml.
Offer == offered' = [q \in Procs |-> offered[q] \cup {Parsed(config')}]

TruncateConfig(p) ==
  /\ At(p, "truncate")
  /\ config' = BrokenConfig /\ Offer
  /\ Goto(p, "save")
  /\ UNCHANGED <<files, saved, accounts, line, dir, shell, env, read, used, net, says>>

SaveConfig(p) ==
  /\ At(p, "save")
  /\ config' = read[p] /\ Offer
  /\ saved' = IF line[p].op = "use" THEN [saved EXCEPT !.network = line[p].name]
                                    ELSE [saved EXCEPT !.identity = line[p].name]
  /\ Ends(p, TRUE)
  /\ UNCHANGED <<files, accounts, line, dir, shell, env, read, used, net, says>>

(* network ls -l: the name and the place of every network, the built-in ones  *)
(* under "Default"; with --global only those whose place is the word Global,  *)
(* which neither a path nor "Default" is.                                     *)
Listed(p) ==
  IF line[p].global THEN {}
  ELSE {at \in {dir[p], Global} \X Names : files[at[1]][at[2]] \notin {None, Broken}}
         \cup {"Default"} \X BuiltIn

NetworkLs(p) ==
  /\ Runs(p, "ls")
  /\ says' = [says EXCEPT ![p] = Listed(p)]
  /\ Ends(p, TRUE)
  /\ UNCHANGED <<files, config, saved, accounts, line, dir, shell, offered, env, read, used, net>>

(* stellar env: the variables that are set, with their sources.               *)
Env(p) ==
  /\ Runs(p, "env")
  /\ says' = [says EXCEPT ![p] =
       {s \in {<<"network", env[p].network>>, <<"identity", env[p].identity>>} : s[2].value # None}]
  /\ Ends(p, TRUE)
  /\ UNCHANGED <<files, config, saved, accounts, line, dir, shell, offered, env, read, used, net>>

(* Any command that needs the network; all but the funding ones also need a   *)
(* source account, without which the flags do not parse.                      *)
Connect(p) ==
  /\ At(p, "run") /\ line[p].op \in {"run", "fund", "generate"}
  /\ used' = [used EXCEPT ![p] = [network |-> Name(p), identity |-> Account(p)]]
  /\ net' = [net EXCEPT ![p] = GetNetwork(p)]
  /\ IF net'[p] = None \/ (line[p].op = "run" /\ Account(p) = None) THEN Ends(p, FALSE)
     ELSE Goto(p, IF line[p].op = "run" THEN "done" ELSE "fund")
  /\ UNCHANGED <<files, config, saved, accounts, line, dir, shell, offered, env, read, says>>

(* The friendbot's answer to a request: it created the account, the account   *)
(* has its starting balance already, it refused with a detail, or the answer  *)
(* is lost or is not JSON, whether or not the account was created.            *)
Friendbot(p, reply) ==
  LET account == <<line[p].name, net[p]>>
  IN  CASE reply = "created" -> accounts' = accounts \cup {account}
        [] reply = "already" -> account \in accounts /\ UNCHANGED accounts
        [] reply = "refused" -> UNCHANGED accounts
        [] reply = "lost" -> accounts' \in {accounts, accounts \cup {account}}

(* fund_address: a refusal is an error unless the account is funded already.  *)
FundAddressAny(reply) == reply # "lost"
FundAddress(reply) == reply \in {"created", "already"}

(* keys fund, and the end of keys generate, which ignores the result.         *)
Fund(p) ==
  /\ At(p, "fund")
  /\ \E reply \in {"created", "already", "refused", "lost"} :
       /\ Friendbot(p, reply)
       /\ IF FundAddress(reply) \/ line[p].op = "generate"
          THEN says' = [says EXCEPT ![p] = {<<"funded", line[p].name>>}] /\ Ends(p, TRUE)
          ELSE UNCHANGED says /\ Ends(p, FALSE)
  /\ UNCHANGED <<files, config, saved, line, dir, shell, offered, env, read, used, net>>

(* The process is killed.                                                     *)
Kill(p) ==
  /\ pc[p] \notin {"idle", "done", "failed"}
  /\ Goto(p, "idle")
  /\ line' = [line EXCEPT ![p] = Idle]
  /\ shell' = [shell EXCEPT ![p] = NoShell]
  /\ offered' = [offered EXCEPT ![p] = {}]
  /\ env' = [env EXCEPT ![p] = NoEnv]
  /\ used' = [used EXCEPT ![p] = NoDefaults]
  /\ read' = [read EXCEPT ![p] = NoDefaults]
  /\ net' = [net EXCEPT ![p] = None]
  /\ UNCHANGED <<files, config, saved, accounts, dir, says>>

Step(p) ==
  \/ SetEnvFromConfig(p) \/ NetworkAdd(p) \/ NetworkWrite(p) \/ NetworkRm(p)
  \/ CheckDefault(p) \/ ReadDefaults(p) \/ TruncateConfig(p) \/ SaveConfig(p)
  \/ NetworkLs(p) \/ Env(p) \/ Connect(p) \/ Fund(p)

Next == \E p \in Procs : Start(p) \/ Step(p) \/ Kill(p)

NetworkSpec == Init /\ [][Next]_vars

-----------------------------------------------------------------------------
(* With one process at a time, and whenever it may be killed: the defaults    *)
(* in config.toml are those that a `use` command last reported to have set,   *)
(* or the file does not parse.  A kill never makes a later command forget a   *)
(* default silently.                                                          *)
SavedDefaults ==
  (\A p \in Procs : pc[p] \in {"idle", "done", "failed"}) => config \in {saved, BrokenConfig}

(* The first source that names something: a flag, a SOROBAN_ variable, a      *)
(* STELLAR_ one, or else one of the given defaults.                           *)
NamedBy(flag, soroban, stellar, defaults) ==
  IF flag # None THEN {flag} ELSE IF soroban # None THEN {soroban}
  ELSE IF stellar # None THEN {stellar} ELSE defaults

NetworkNamed(p, flag) ==
  NamedBy(flag, shell[p].soroban.network, shell[p].stellar.network,
          {d.network : d \in offered[p]})
IdentityNamed(p, flag) ==
  NamedBy(flag, shell[p].soroban.identity, shell[p].stellar.identity,
          {d.identity : d \in offered[p]})
Shown(var, named, soroban, stellar) ==
  /\ var.value \in named
  /\ var.source = "use" <=> soroban = None /\ stellar = None

(* A command that ran used the network and the account of the first source    *)
(* that names one, the defaults being those that config.toml held while the   *)
(* process ran, whatever other processes do to it; --rpc-url with             *)
(* --network-passphrase comes before any name.  `env` shows the same choice,  *)
(* and config.toml as its source exactly when no variable was set.            *)
ChoiceIsTheUsers ==
  \A p \in Procs : At(p, "done") =>
    /\ line[p].op = "run" =>
         /\ used[p].identity \in IdentityNamed(p, line[p].identity)
         /\ IF line[p].rpc THEN net[p] = Explicit
            ELSE used[p].network \in NetworkNamed(p, line[p].network)
    /\ line[p].op = "env" =>
         \A v \in says[p] :
           IF v[1] = "network"
           THEN Shown(v[2], NetworkNamed(p, None), shell[p].soroban.network, shell[p].stellar.network)
           ELSE Shown(v[2], IdentityNamed(p, None), shell[p].soroban.identity, shell[p].stellar.identity)

(* `keys fund` says that the account is funded only when it is, on the        *)
(* network it was asked for, whether friendbot's answer was lost or not.      *)
FundedIsTrue ==
  \A p \in Procs : line[p].op = "fund" /\ <<"funded", line[p].name>> \in says[p] =>
    <<line[p].name, net[p]>> \in accounts

=============================================================================
