------------------------- MODULE WorkstationProofs --------------------------
(***************************************************************************)
(* What Workstation promises, for any processes, names, versions, packages  *)
(* and bounds.  A behaviour of Workstation is one of a part's own module    *)
(* (PartStep): each section below has an inductive invariant of one of      *)
(* these modules.                                                          *)
(***************************************************************************)
EXTENDS Workstation, SequenceTheorems, WellFoundedInduction, TLAPS

\* A behaviour stays with its part, starts as one of the part's module and goes on as one.
LEMMA PartStart ==
    ASSUME Init
    PROVE  /\ part = "defaults" => Defaults!Init
           /\ part = "friendbot" => Friendbot!Init
           /\ part = "choices" => Choices!Init
           /\ part = "specs" => SpecCache!Init
           /\ part = "log" => ActionLog!Init
           /\ part = "warnings" => Warnings!Init
           /\ part = "requests" => Requests!Init
           /\ part = "build" => Build!Init
           /\ part = "template" => Template!Init
  BY DEF Init

LEMMA PartStep ==
    ASSUME [Next]_vars
    PROVE  /\ part' = part
           /\ part = "defaults" => [Defaults!Next]_(Defaults!vars)
           /\ part = "friendbot" => [Friendbot!Next]_(Friendbot!vars)
           /\ part = "choices" => [Choices!Next]_(Choices!vars)
           /\ part = "specs" => [SpecCache!Next]_(SpecCache!vars)
           /\ part = "log" => [ActionLog!Next]_(ActionLog!vars)
           /\ part = "warnings" => [Warnings!Next]_(Warnings!vars)
           /\ part = "requests" => [Requests!Next]_(Requests!vars)
           /\ part = "build" => [Build!Next]_(Build!vars)
           /\ part = "template" => [Template!Next]_(Template!vars)
  <1>1. CASE Next
    BY <1>1 DEF Next
  <1>2. CASE UNCHANGED vars
    BY <1>2 DEF vars, cacheVars, upgradeVars, buildVars, initVars, netVars,
                Defaults!vars, Friendbot!vars, Choices!vars, SpecCache!vars, ActionLog!vars,
                Warnings!vars, Requests!vars, Build!vars, Template!vars
  <1> QED  BY <1>1, <1>2

-----------------------------------------------------------------------------
(* The project that `contract init` generates (ContractInit).               *)

\* What a running command knows of the files it goes through.
InitAt ==
    /\ DOMAIN files = Template!Paths /\ edits \in Nat
    /\ pc \in {"idle", "check", "create", "write", "done"}
    /\ pc \in {"check", "create", "write"} =>
         /\ name \in Projects /\ overwrite \in BOOLEAN
         /\ todo \in Seq(Template!Paths)
         /\ \A i \in DOMAIN todo : todo[i][2] \in {Template!Root, name}
    /\ pc \in {"create", "write"} => todo # << >>
    /\ pc = "create" /\ ~overwrite => files[Head(todo)] = <<Template!Absent>>
    /\ pc = "write" /\ ~overwrite => files[Head(todo)] = <<Template!Empty>>

LEMMA InitStep ==
    ASSUME InitAt, [Template!Next]_(Template!vars)
    PROVE  InitAt'
  <1>1. ASSUME NEW c \in Projects, NEW o \in BOOLEAN, Template!Run(c, o)
        PROVE  InitAt'
    <2>1. Template!Files(c) \in Seq(Template!Paths)
      BY DEF Template!Files, Template!Paths, Template!Manifest, Template!Root
    <2>2. \A i \in DOMAIN Template!Files(c) : Template!Files(c)[i][2] \in {Template!Root, c}
      BY DEF Template!Files, Template!Manifest
    <2>3. /\ UNCHANGED <<files, edits>> /\ pc' = "check" /\ name' = c /\ overwrite' = o
          /\ todo' = Template!Files(c)
      BY <1>1 DEF Template!Run
    <2> QED  BY <2>1, <2>2, <2>3 DEF InitAt
  <1>2. CASE Template!CheckFile
    <2>1. /\ pc = "check" /\ UNCHANGED <<files, name, overwrite, edits>>
          /\ \/ pc' = "done"
             \/ todo # << >> /\ todo' = Tail(todo) /\ pc' = pc
             \/ /\ todo # << >> /\ todo' = todo /\ pc' = "create"
                /\ ~overwrite => files[Head(todo)] = <<Template!Absent>>
      BY <1>2 DEF Template!CheckFile, Template!Skips
    <2>2. todo \in Seq(Template!Paths) /\ \A i \in DOMAIN todo : todo[i][2] \in {Template!Root, name}
      BY <2>1 DEF InitAt
    <2>3. todo # << >> => /\ Tail(todo) \in Seq(Template!Paths)
                          /\ \A i \in DOMAIN Tail(todo) : Tail(todo)[i] = todo[i + 1] /\ i + 1 \in DOMAIN todo
      BY <2>2
    <2> QED  BY <2>1, <2>2, <2>3 DEF InitAt
  <1>3. CASE Template!CreateFile
    <2>1. /\ pc = "create" /\ pc' = "write" /\ UNCHANGED <<name, overwrite, todo, edits>>
          /\ files' = [files EXCEPT ![Head(todo)] = <<Template!Empty>>]
      BY <1>3 DEF Template!CreateFile
    <2>2. Head(todo) \in Template!Paths
      BY <2>1 DEF InitAt
    <2> QED  BY <2>1, <2>2 DEF InitAt
  <1>4. CASE Template!WriteFile
    <2>1. /\ pc = "write" /\ pc' = "check" /\ UNCHANGED <<name, overwrite, edits>>
          /\ todo' = Tail(todo) /\ DOMAIN files' = DOMAIN files
      BY <1>4 DEF Template!WriteFile
    <2>2. /\ todo \in Seq(Template!Paths) /\ todo # << >>
          /\ \A i \in DOMAIN todo : todo[i][2] \in {Template!Root, name}
      BY <2>1 DEF InitAt
    <2>3. /\ Tail(todo) \in Seq(Template!Paths)
          /\ \A i \in DOMAIN Tail(todo) : Tail(todo)[i] = todo[i + 1] /\ i + 1 \in DOMAIN todo
      BY <2>2
    <2> QED  BY <2>1, <2>2, <2>3 DEF InitAt
  <1>5. ASSUME NEW q \in Template!Paths, Template!Edit(q)
        PROVE  InitAt'
    BY <1>5 DEF Template!Edit, InitAt
  <1>6. CASE Template!NextCommand \/ Template!Kill \/ UNCHANGED Template!vars
    BY <1>6 DEF Template!NextCommand, Template!Kill, Template!vars, InitAt
  <1> QED  BY <1>1, <1>2, <1>3, <1>4, <1>5, <1>6 DEF Template!Next

\* The step that writes a file without --overwrite writes one that was not there when the
\* command looked.
LEMMA InitKeeps ==
    ASSUME InitAt, [Template!Next]_(Template!vars)
    PROVE  Template!KeepsEdits
  <1> SUFFICES ASSUME NEW q \in Template!Paths, files[q][1] = "edited", edits' = edits,
                      files'[q] # files[q]
               PROVE  overwrite /\ q[2] \in {Template!Root, name}
    BY DEF Template!KeepsEdits
  <1>1. ASSUME pc \in {"create", "write"}, q = Head(todo)
        PROVE  overwrite /\ q[2] \in {Template!Root, name}
    <2>1. todo \in Seq(Template!Paths) /\ todo # << >> /\ Head(todo)[2] \in {Template!Root, name}
      BY <1>1 DEF InitAt
    <2>2. overwrite \/ files[q] \in {<<Template!Absent>>, <<Template!Empty>>}
      BY <1>1 DEF InitAt
    <2>3. overwrite
      BY <2>2 DEF Template!Absent, Template!Empty
    <2> QED  BY <1>1, <2>1, <2>3
  <1>2. CASE Template!CreateFile
    BY <1>1, <1>2 DEF Template!CreateFile, InitAt
  <1>3. CASE Template!WriteFile
    BY <1>1, <1>3 DEF Template!WriteFile, InitAt
  <1>4. ASSUME NEW r \in Template!Paths, Template!Edit(r)
        PROVE  FALSE
    <2>1. edits' = edits + 1 /\ edits \in Nat
      BY <1>4 DEF Template!Edit, InitAt
    <2> QED  BY <2>1
  <1>5. CASE UNCHANGED files
    BY <1>5
  <1> QED  BY <1>2, <1>3, <1>4, <1>5 DEF Template!Next, Template!Run, Template!CheckFile,
              Template!Kill, Template!NextCommand, Template!vars

\* InitKeepsEdits: for any contracts, edits and kills, `contract init` without --overwrite
\* changes no file that someone edited, and with it none of another contract.
THEOREM InitKeepsEdits == Spec => EditsKept
  <1> DEFINE Inv == part = "template" => InitAt
  <1>1. Init => Inv
    <2>1. Template!Init => InitAt
      BY DEF Template!Init, InitAt
    <2> QED  BY <2>1, PartStart
  <1>2. Inv /\ [Next]_vars => Inv'
    BY PartStep, InitStep
  <1>3. Inv /\ [Next]_vars => [part = "template" => Template!KeepsEdits]_vars
    BY PartStep, InitKeeps
  <1> QED  BY <1>1, <1>2, <1>3, PTL DEF Spec, EditsKept

-----------------------------------------------------------------------------
(* The network that a command talks to (NetworkConfig).                     *)

\* The defaults that are on file are among those offered to every process that runs; its
\* variables are of the first source that names something; and what it used or showed.
Running(p) == pc[p] # "idle"
FromEnv(var, soroban, stellar, defaults) ==
    /\ var.value \in Choices!NamedBy(Choices!None, soroban, stellar, defaults)
    /\ var.value # Choices!None =>
         (var.source = "use" <=> soroban = Choices!None /\ stellar = Choices!None)
EnvKnown(p) ==
    /\ FromEnv(env[p].network, shell[p].soroban.network, shell[p].stellar.network,
               {d.network : d \in offered[p]})
    /\ FromEnv(env[p].identity, shell[p].soroban.identity, shell[p].stellar.identity,
               {d.identity : d \in offered[p]})
UsedKnown(p) ==
    /\ used[p].identity \in Choices!IdentityNamed(p, line[p].identity)
    /\ IF line[p].rpc THEN net[p] = Explicit
       ELSE used[p].network \in Choices!NetworkNamed(p, line[p].network)
ShownKnown(p) ==
    \A v \in says[p] :
      IF v[1] = "network"
      THEN Choices!Shown(v[2], Choices!NetworkNamed(p, Choices!None),
                         shell[p].soroban.network, shell[p].stellar.network)
      ELSE Choices!Shown(v[2], Choices!IdentityNamed(p, Choices!None),
                         shell[p].soroban.identity, shell[p].stellar.identity)

ChoiceAt(p) ==
    /\ Running(p) => Choices!Parsed(config) \in offered[p]
    /\ Running(p) => line[p].rpc \in BOOLEAN /\ line[p].pass \in BOOLEAN
    /\ pc[p] \notin {"idle", "config"} => EnvKnown(p)
    /\ pc[p] = "done" => /\ line[p].op = "run" => UsedKnown(p)
                         /\ line[p].op = "env" => ShownKnown(p)
    /\ pc[p] \in {"write", "read", "truncate", "save", "fund"} => line[p].op \notin {"run", "env"}

ChoiceInv ==
    /\ DOMAIN pc = Procs /\ DOMAIN env = Procs /\ DOMAIN shell = Procs /\ DOMAIN offered = Procs
    /\ DOMAIN used = Procs /\ DOMAIN net = Procs /\ DOMAIN says = Procs /\ DOMAIN line = Procs
    /\ \A p \in Procs : ChoiceAt(p)

\* What is known of a process stays known when more defaults are offered to it.
LEMMA NamedMore ==
    ASSUME NEW flag, NEW soroban, NEW stellar, NEW S, NEW T, S \subseteq T
    PROVE  Choices!NamedBy(flag, soroban, stellar, S) \subseteq Choices!NamedBy(flag, soroban, stellar, T)
  BY DEF Choices!NamedBy

\* A process whose state does not change, while defaults may be added.
LEMMA ChoiceKept ==
    ASSUME NEW p, offered[p] \subseteq offered'[p], ChoiceAt(p),
           shell'[p] = shell[p], env'[p] = env[p], used'[p] = used[p], net'[p] = net[p],
           says'[p] = says[p], line'[p] = line[p], pc'[p] = pc[p],
           Running(p) => Choices!Parsed(config') \in offered'[p]
    PROVE  ChoiceAt(p)'
  <1> DEFINE N == {d.network : d \in offered[p]}
             NN == {d.network : d \in offered'[p]}
             I == {d.identity : d \in offered[p]}
             II == {d.identity : d \in offered'[p]}
  <1>1. N \subseteq NN /\ I \subseteq II
    OBVIOUS
  <1>2. \A flag, soroban, stellar :
          /\ Choices!NamedBy(flag, soroban, stellar, N) \subseteq Choices!NamedBy(flag, soroban, stellar, NN)
          /\ Choices!NamedBy(flag, soroban, stellar, I) \subseteq Choices!NamedBy(flag, soroban, stellar, II)
    BY <1>1, NamedMore
  <1>3. EnvKnown(p) => EnvKnown(p)'
    BY <1>2 DEF EnvKnown, FromEnv
  <1>4. UsedKnown(p) => UsedKnown(p)'
    BY <1>2 DEF UsedKnown, Choices!NetworkNamed, Choices!IdentityNamed
  <1>5. ShownKnown(p) => ShownKnown(p)'
    BY <1>2 DEF ShownKnown, Choices!Shown, Choices!NetworkNamed, Choices!IdentityNamed
  <1> QED  BY <1>3, <1>4, <1>5 DEF ChoiceAt, Running

\* What the processes other than p have of their own.
ChoiceOthers(p) ==
    /\ DOMAIN pc' = Procs /\ DOMAIN env' = Procs /\ DOMAIN shell' = Procs /\ DOMAIN offered' = Procs
    /\ DOMAIN used' = Procs /\ DOMAIN net' = Procs /\ DOMAIN says' = Procs /\ DOMAIN line' = Procs
    /\ \A q \in Procs \ {p} :
         /\ pc'[q] = pc[q] /\ env'[q] = env[q] /\ shell'[q] = shell[q] /\ offered'[q] = offered[q]
         /\ used'[q] = used[q] /\ net'[q] = net[q] /\ says'[q] = says[q] /\ line'[q] = line[q]

\* One process moves, and the defaults on file stay as they are.
LEMMA ChoiceLocal ==
    ASSUME ChoiceInv, NEW p \in Procs, config' = config, ChoiceOthers(p), ChoiceAt(p)'
    PROVE  ChoiceInv'
  <1>1. ASSUME NEW q \in Procs, q # p
        PROVE  ChoiceAt(q)'
    <2>1. /\ offered'[q] = offered[q] /\ shell'[q] = shell[q] /\ env'[q] = env[q]
          /\ used'[q] = used[q] /\ net'[q] = net[q] /\ says'[q] = says[q] /\ line'[q] = line[q]
          /\ pc'[q] = pc[q]
      BY <1>1 DEF ChoiceOthers
    <2>2. ChoiceAt(q)
      BY DEF ChoiceInv
    <2>3. Running(q) => Choices!Parsed(config') \in offered'[q]
      BY <2>1, <2>2 DEF ChoiceAt
    <2> QED  BY <2>1, <2>2, <2>3, ChoiceKept
  <1> QED  BY <1>1 DEF ChoiceInv, ChoiceOthers

LEMMA ChoiceStep ==
    ASSUME ChoiceInv, [Choices!Next]_(Choices!vars)
    PROVE  ChoiceInv'
  <1> USE DEF Choices!At, Choices!Goto, Choices!Runs, Choices!Ends
  <1>d. /\ DOMAIN pc = Procs /\ DOMAIN env = Procs /\ DOMAIN shell = Procs /\ DOMAIN offered = Procs
        /\ DOMAIN used = Procs /\ DOMAIN net = Procs /\ DOMAIN says = Procs /\ DOMAIN line = Procs
    BY DEF ChoiceInv
  <1>a. \A p \in Procs : ChoiceAt(p)
    BY DEF ChoiceInv
  <1>b. \A p \in Procs : pc[p] # "idle" => line[p].rpc \in BOOLEAN /\ line[p].pass \in BOOLEAN
    BY <1>a DEF ChoiceAt, Running
  <1>2. ASSUME NEW p \in Procs, Choices!Start(p)
        PROVE  ChoiceInv'
    <2>1. /\ pc'[p] = "config" /\ config' = config /\ ChoiceOthers(p)
          /\ offered'[p] = {Choices!Parsed(config)}
      BY <1>2, <1>d DEF Choices!Start, ChoiceOthers
    <2>l. line'[p].rpc \in BOOLEAN /\ line'[p].pass \in BOOLEAN
      BY <1>2, <1>d, NetworkAssumption DEF Choices!Start, Choices!LinesAssumption, Choices!CommandLines
    <2>2. ChoiceAt(p)'
      BY <2>1, <2>l DEF ChoiceAt, Running
    <2> QED  BY <2>1, <2>2, ChoiceLocal
  <1>3. ASSUME NEW p \in Procs, Choices!SetEnvFromConfig(p)
        PROVE  ChoiceInv'
    <2> DEFINE old == shell[p].soroban
               new == shell[p].stellar
               d == Choices!Parsed(config)
               e == [network |-> Choices!SetEnvValue(Choices!MapSoroban(old.network, new.network), d.network),
                     identity |-> Choices!SetEnvValue(Choices!MapSoroban(old.identity, new.identity), d.identity)]
    <2>1. /\ pc[p] = "config" /\ pc' = [pc EXCEPT ![p] = "run"] /\ env' = [env EXCEPT ![p] = e]
          /\ UNCHANGED <<config, shell, offered, used, net, says, line>>
      BY <1>3 DEF Choices!SetEnvFromConfig
    <2>2. d \in offered[p] /\ pc'[p] = "run" /\ env'[p] = e /\ ChoiceOthers(p)
      <3>1. d \in offered[p]
        BY <1>a, <2>1 DEF ChoiceAt, Running
      <3> HIDE DEF e, d
      <3> QED  BY <1>d, <2>1, <3>1 DEF ChoiceOthers
    <2>3. ASSUME NEW soroban, NEW stellar, NEW value, NEW S, value \in S
          PROVE  FromEnv(Choices!SetEnvValue(Choices!MapSoroban(soroban, stellar), value),
                         soroban, stellar, S)
      BY <2>3 DEF FromEnv, Choices!SetEnvValue, Choices!MapSoroban, Choices!NamedBy
    <2>4. d.network \in {x.network : x \in offered[p]} /\ d.identity \in {x.identity : x \in offered[p]}
      BY <2>2
    <2>5. e.network = Choices!SetEnvValue(Choices!MapSoroban(old.network, new.network), d.network)
      OBVIOUS
    <2>6. e.identity = Choices!SetEnvValue(Choices!MapSoroban(old.identity, new.identity), d.identity)
      OBVIOUS
    <2>7. /\ FromEnv(e.network, old.network, new.network, {x.network : x \in offered[p]})
          /\ FromEnv(e.identity, old.identity, new.identity, {x.identity : x \in offered[p]})
      BY <2>3, <2>4, <2>5, <2>6
    <2> HIDE DEF e, d
    <2>8. EnvKnown(p)'
      BY <2>1, <2>2, <2>7 DEF EnvKnown
    <2>9. ChoiceAt(p)'
      BY <1>b, <2>1, <2>2, <2>8 DEF ChoiceAt, Running, d
    <2> QED  BY <2>1, <2>2, <2>9, ChoiceLocal
  \* A step after which neither a run nor an `env` is done.
  <1>4. ASSUME NEW p \in Procs, pc[p] \notin {"idle", "config"},
               config' = config, ChoiceOthers(p), env'[p] = env[p], shell'[p] = shell[p],
               offered'[p] = offered[p], line'[p] = line[p], pc'[p] \notin {"idle", "config"},
               line[p].op \notin {"run", "env"} \/ pc'[p] = "failed"
        PROVE  ChoiceInv'
    <2>1. EnvKnown(p) /\ Choices!Parsed(config) \in offered[p]
      BY <1>a, <1>4 DEF ChoiceAt, Running
    <2>2. EnvKnown(p)'
      BY <1>4, <2>1 DEF EnvKnown
    <2>3. ChoiceAt(p)'
      BY <1>b, <1>4, <2>1, <2>2 DEF ChoiceAt, Running
    <2> QED  BY <1>4, <2>3, ChoiceLocal
  <1>5. ASSUME NEW p \in Procs,
               \/ Choices!NetworkAdd(p) \/ Choices!NetworkWrite(p) \/ Choices!NetworkRm(p)
               \/ Choices!CheckDefault(p) \/ Choices!ReadDefaults(p)
        PROVE  ChoiceInv'
    <2>1. UNCHANGED <<config, env, shell, offered, used, net, says, line>>
      BY <1>5 DEF Choices!NetworkAdd, Choices!NetworkWrite, Choices!NetworkRm,
                  Choices!CheckDefault, Choices!ReadDefaults
    <2>2. /\ pc[p] \in {"run", "write", "read"}
          /\ pc[p] = "run" => line[p].op \in {"add", "rm", "use", "useIdentity"}
      BY <1>5 DEF Choices!NetworkAdd, Choices!NetworkWrite, Choices!NetworkRm,
                  Choices!CheckDefault, Choices!ReadDefaults
    <2>3. line[p].op \notin {"run", "env"}
      BY <1>a, <2>2 DEF ChoiceAt
    <2>4. PICK to \in {"write", "done", "failed", "read", "truncate"} : pc' = [pc EXCEPT ![p] = to]
      BY <1>5 DEF Choices!NetworkAdd, Choices!NetworkWrite, Choices!NetworkRm,
                  Choices!CheckDefault, Choices!ReadDefaults
    <2>5. ChoiceOthers(p) /\ pc'[p] = to
      BY <1>d, <2>1, <2>4 DEF ChoiceOthers
    <2> QED  BY <1>4, <2>1, <2>2, <2>3, <2>5
  \* config.toml changes, and the new defaults are offered to all.
  <1>6. ASSUME NEW p \in Procs, Choices!TruncateConfig(p) \/ Choices!SaveConfig(p)
        PROVE  ChoiceInv'
    <2>1. PICK to \in {"save", "done"} : pc' = [pc EXCEPT ![p] = to]
      BY <1>6 DEF Choices!TruncateConfig, Choices!SaveConfig
    <2>2. /\ pc[p] \in {"truncate", "save"}
          /\ UNCHANGED <<env, shell, used, net, says, line>>
          /\ offered' = [q \in Procs |-> offered[q] \cup {Choices!Parsed(config')}]
      BY <1>6 DEF Choices!TruncateConfig, Choices!SaveConfig, Choices!Offer
    <2>3. \A q \in Procs : offered[q] \subseteq offered'[q] /\ Choices!Parsed(config') \in offered'[q]
      BY <2>2
    <2>4. ASSUME NEW q \in Procs, q # p PROVE ChoiceAt(q)'
      <3>1. ChoiceAt(q) /\ pc'[q] = pc[q]
        BY <1>a, <1>d, <2>1, <2>4
      <3> QED  BY <2>2, <2>3, <3>1, ChoiceKept
    <2>5. ChoiceAt(p)'
      <3> DEFINE N == {x.network : x \in offered[p]}
                 NN == {x.network : x \in offered'[p]}
                 I == {x.identity : x \in offered[p]}
                 II == {x.identity : x \in offered'[p]}
      <3>1. EnvKnown(p) /\ line[p].op \notin {"run", "env"} /\ pc'[p] = to
        BY <1>a, <1>d, <2>1, <2>2 DEF ChoiceAt
      <3>2. N \subseteq NN /\ I \subseteq II
        BY <2>3
      <3>3. \A soroban, stellar :
              /\ Choices!NamedBy(Choices!None, soroban, stellar, N) \subseteq Choices!NamedBy(Choices!None, soroban, stellar, NN)
              /\ Choices!NamedBy(Choices!None, soroban, stellar, I) \subseteq Choices!NamedBy(Choices!None, soroban, stellar, II)
        BY <3>2, NamedMore
      <3>4. EnvKnown(p)'
        BY <2>2, <3>1, <3>3 DEF EnvKnown, FromEnv
      <3>5. Choices!Parsed(config)' \in offered'[p]
        BY <2>3
      <3>6. /\ line'[p].op \notin {"run", "env"} /\ pc'[p] \in {"save", "done"}
            /\ line'[p].rpc \in BOOLEAN /\ line'[p].pass \in BOOLEAN
        BY <1>b, <2>1, <2>2, <3>1
      <3> QED  BY <3>4, <3>5, <3>6 DEF ChoiceAt
    <2>6. DOMAIN pc' = Procs /\ DOMAIN offered' = Procs
      BY <1>d, <2>1, <2>2
    <2> QED  BY <1>d, <2>2, <2>4, <2>5, <2>6 DEF ChoiceInv
  <1>7. ASSUME NEW p \in Procs, Choices!NetworkLs(p) \/ Choices!Env(p)
        PROVE  ChoiceInv'
    <2>1. /\ pc[p] = "run" /\ pc' = [pc EXCEPT ![p] = "done"] /\ line[p].op \in {"ls", "env"}
          /\ UNCHANGED <<config, env, shell, offered, used, net, line>>
      BY <1>7 DEF Choices!NetworkLs, Choices!Env
    <2>2. EnvKnown(p) /\ Choices!Parsed(config) \in offered[p] /\ pc'[p] = "done"
      BY <1>a, <1>d, <2>1 DEF ChoiceAt, Running
    <2>3. ASSUME line[p].op = "env"
          PROVE  ShownKnown(p)'
      <3>2. says'[p] = {s \in {<<"network", env[p].network>>, <<"identity", env[p].identity>>} :
                           s[2].value # Choices!None}
        BY <1>7, <1>d, <2>3 DEF Choices!NetworkLs, Choices!Env
      <3>3. ASSUME NEW v \in says'[p], v[1] = "network"
            PROVE  Choices!Shown(v[2], Choices!NetworkNamed(p, Choices!None),
                                 shell[p].soroban.network, shell[p].stellar.network)
        <4>1. v[2] = env[p].network /\ v[2].value # Choices!None
          BY <3>2, <3>3
        <4> QED  BY <2>2, <4>1 DEF EnvKnown, FromEnv, Choices!Shown, Choices!NetworkNamed
      <3>4. ASSUME NEW v \in says'[p], v[1] # "network"
            PROVE  Choices!Shown(v[2], Choices!IdentityNamed(p, Choices!None),
                                 shell[p].soroban.identity, shell[p].stellar.identity)
        <4>1. v[2] = env[p].identity /\ v[2].value # Choices!None
          BY <3>2, <3>4
        <4> QED  BY <2>2, <4>1 DEF EnvKnown, FromEnv, Choices!Shown, Choices!IdentityNamed
      <3>5. /\ Choices!NetworkNamed(p, Choices!None)' = Choices!NetworkNamed(p, Choices!None)
            /\ Choices!IdentityNamed(p, Choices!None)' = Choices!IdentityNamed(p, Choices!None)
        BY <2>1 DEF Choices!NetworkNamed, Choices!IdentityNamed
      <3> QED  BY <2>1, <3>3, <3>4, <3>5 DEF ShownKnown, Choices!Shown
    <2>4. EnvKnown(p)'
      BY <2>1, <2>2 DEF EnvKnown
    <2>5. ChoiceAt(p)'
      BY <1>b, <2>1, <2>2, <2>3, <2>4 DEF ChoiceAt
    <2>6. ChoiceOthers(p)
      BY <1>7, <1>d, <2>1 DEF ChoiceOthers, Choices!NetworkLs, Choices!Env
    <2> QED  BY <2>1, <2>5, <2>6, ChoiceLocal
  <1>8. ASSUME NEW p \in Procs, Choices!Connect(p)
        PROVE  ChoiceInv'
    <2>1. /\ pc[p] = "run" /\ UNCHANGED <<config, env, shell, offered, says, line>>
          /\ used' = [used EXCEPT ![p] = [network |-> Choices!Name(p), identity |-> Choices!Account(p)]]
          /\ net' = [net EXCEPT ![p] = Choices!GetNetwork(p)]
          /\ line[p].op \in {"run", "fund", "generate"}
          /\ \/ pc' = [pc EXCEPT ![p] = "failed"]
             \/ net'[p] # Choices!None /\ pc' = [pc EXCEPT ![p] = IF line[p].op = "run" THEN "done" ELSE "fund"]
      BY <1>8 DEF Choices!Connect
    <2>2. ChoiceOthers(p)
      BY <1>d, <2>1 DEF ChoiceOthers
    <2>3. /\ pc'[p] = "done" => net'[p] # Choices!None /\ line[p].op = "run"
          /\ pc'[p] \in {"done", "failed", "fund"} /\ (pc'[p] = "fund" => line[p].op # "run")
      BY <1>d, <2>1
    <2>4. /\ used'[p].network = Choices!Name(p) /\ used'[p].identity = Choices!Account(p)
          /\ net'[p] = Choices!GetNetwork(p)
      BY <1>d, <2>1
    <2>5. EnvKnown(p) /\ Choices!Parsed(config) \in offered[p]
      BY <1>a, <2>1 DEF ChoiceAt, Running
    <2>6. ASSUME pc'[p] = "done" PROVE UsedKnown(p)'
      <3>1. Choices!Account(p) \in Choices!IdentityNamed(p, line[p].identity)
        BY <2>5 DEF Choices!Account, Choices!FlagOrEnv, Choices!IdentityNamed, EnvKnown, FromEnv,
                    Choices!NamedBy
      <3>2. Choices!Name(p) \in Choices!NetworkNamed(p, line[p].network)
        BY <2>5 DEF Choices!Name, Choices!FlagOrEnv, Choices!NetworkNamed, EnvKnown, FromEnv,
                    Choices!NamedBy
      <3>3. ASSUME line[p].rpc PROVE net'[p] = Explicit
        <4>1. Choices!GetNetwork(p) # Choices!None
          BY <2>3, <2>4, <2>6
        <4>2. line[p].rpc \in BOOLEAN /\ line[p].pass \in BOOLEAN
          BY <1>b, <2>1
        <4>3. CASE line[p].pass = FALSE
          BY <3>3, <4>1, <4>2, <4>3, Zenon DEF Choices!GetNetwork
        <4>4. CASE line[p].pass = TRUE
          BY <2>4, <3>3, <4>2, <4>4, Zenon DEF Choices!GetNetwork
        <4> QED  BY <4>2, <4>3, <4>4
      <3>4. /\ Choices!NetworkNamed(p, line[p].network)' = Choices!NetworkNamed(p, line[p].network)
            /\ Choices!IdentityNamed(p, line[p].identity)' = Choices!IdentityNamed(p, line[p].identity)
        BY <2>1 DEF Choices!NetworkNamed, Choices!IdentityNamed
      <3> QED  BY <2>1, <2>4, <3>1, <3>2, <3>3, <3>4 DEF UsedKnown
    <2>7. EnvKnown(p)'
      BY <2>1, <2>5 DEF EnvKnown
    <2>8. ChoiceAt(p)'
      BY <1>b, <2>1, <2>3, <2>5, <2>6, <2>7 DEF ChoiceAt, Running
    <2> QED  BY <2>1, <2>2, <2>8, ChoiceLocal
  <1>9. ASSUME NEW p \in Procs, Choices!Fund(p)
        PROVE  ChoiceInv'
    <2>1. /\ pc[p] = "fund" /\ UNCHANGED <<config, env, shell, offered, used, net, line>>
          /\ \E to \in {"done", "failed"} : pc' = [pc EXCEPT ![p] = to]
          /\ says' = says \/ says' = [says EXCEPT ![p] = {<<"funded", line[p].name>>}]
      BY <1>9 DEF Choices!Fund
    <2>2. line[p].op \notin {"run", "env"}
      BY <1>a, <2>1 DEF ChoiceAt
    <2>3. ChoiceOthers(p) /\ pc'[p] \in {"done", "failed"}
      BY <1>d, <2>1 DEF ChoiceOthers
    <2> QED  BY <1>4, <2>1, <2>2, <2>3
  <1>10. ASSUME NEW p \in Procs, Choices!Kill(p)
        PROVE  ChoiceInv'
    <2>1. pc'[p] = "idle" /\ config' = config /\ ChoiceOthers(p)
      BY <1>10, <1>d DEF Choices!Kill, ChoiceOthers
    <2>2. ChoiceAt(p)'
      BY <2>1 DEF ChoiceAt, Running
    <2> QED  BY <2>1, <2>2, ChoiceLocal
  <1>11. CASE UNCHANGED Choices!vars
    <2>1. UNCHANGED <<config, pc, env, shell, offered, used, net, says, line>>
      BY <1>11 DEF Choices!vars
    <2>2. ASSUME NEW p \in Procs PROVE ChoiceAt(p)'
      <3>1. Running(p) => Choices!Parsed(config') \in offered'[p]
        BY <1>a, <2>1 DEF ChoiceAt
      <3> QED  BY <1>a, <2>1, <3>1, ChoiceKept
    <2> QED  BY <1>d, <2>1, <2>2 DEF ChoiceInv
  <1> QED  BY <1>2, <1>3, <1>5, <1>6, <1>7, <1>8, <1>9, <1>10, <1>11 DEF Choices!Next, Choices!Step

\* ChoicesAreTheUsers: with any number of processes that set the defaults while others run, a
\* command uses the network and the account of the first of a flag, a SOROBAN_ variable, a
\* STELLAR_ variable and the defaults config.toml had while it ran; `env` shows that choice.
THEOREM ChoicesAreTheUsers == Spec => []ChoiceIsTheUsers
  <1> DEFINE Inv == part = "choices" => ChoiceInv
  <1>1. Init => Inv
    <2>1. Choices!Init => ChoiceInv
      BY DEF Choices!Init, ChoiceInv, ChoiceAt, Running
    <2> QED  BY <2>1, PartStart
  <1>2. Inv /\ [Next]_vars => Inv'
    BY PartStep, ChoiceStep
  <1>3. Inv => ChoiceIsTheUsers
    BY DEF ChoiceInv, ChoiceAt, UsedKnown, ShownKnown, ChoiceIsTheUsers, Choices!ChoiceIsTheUsers,
           Choices!At
  <1> QED  BY <1>1, <1>2, <1>3, PTL DEF Spec

\* One process runs after the other.
OneUser == \A p, q \in Users : p = q

\* The defaults that the process p writes are those that were saved, with its change.
Changed(p) ==
    IF line[p].op = "use" THEN [saved EXCEPT !.network = line[p].name]
                          ELSE [saved EXCEPT !.identity = line[p].name]

DefaultsInv ==
    /\ DOMAIN pc = Users /\ DOMAIN line = Users /\ DOMAIN read = Users
    /\ config \in {saved, Defaults!BrokenConfig}
    /\ \A p \in Users : pc[p] \in {"truncate", "save"} => read[p] = Changed(p)

LEMMA DefaultsStep ==
    ASSUME OneUser, DefaultsInv, [Defaults!Next]_(Defaults!vars)
    PROVE  DefaultsInv'
  <1> USE DEF Defaults!At, Defaults!Goto, Defaults!Runs, Defaults!Ends
  <1>0. \A p \in Users : Users = {p}
    BY DEF OneUser
  <1>1. ASSUME NEW p \in Users, UNCHANGED <<config, saved>>,
               DOMAIN line' = Users, DOMAIN read' = Users, DOMAIN pc' = Users,
               pc'[p] \notin {"truncate", "save"}
        PROVE  DefaultsInv'
    BY <1>0, <1>1 DEF DefaultsInv
  <1>2. ASSUME NEW p \in Users, Defaults!Start(p) \/ Defaults!Kill(p) \/ Defaults!SetEnvFromConfig(p)
        PROVE  DefaultsInv'
    BY <1>1, <1>2 DEF DefaultsInv, Defaults!Start, Defaults!Kill, Defaults!SetEnvFromConfig
  <1>3. ASSUME NEW p \in Users, Defaults!NetworkAdd(p) \/ Defaults!NetworkWrite(p) \/
               Defaults!NetworkRm(p) \/ Defaults!CheckDefault(p)
        PROVE  DefaultsInv'
    BY <1>1, <1>3 DEF DefaultsInv, Defaults!NetworkAdd, Defaults!NetworkWrite, Defaults!NetworkRm,
          Defaults!CheckDefault
  <1>4. ASSUME NEW p \in Users, Defaults!NetworkLs(p) \/ Defaults!Env(p) \/
               Defaults!Connect(p) \/ Defaults!Fund(p)
        PROVE  DefaultsInv'
    BY <1>1, <1>4 DEF DefaultsInv, Defaults!NetworkLs, Defaults!Env, Defaults!Connect, Defaults!Fund
  <1>5. ASSUME NEW p \in Users, Defaults!ReadDefaults(p)
        PROVE  DefaultsInv'
    <2>1. CASE Defaults!ConfigNew(config) = {}
      BY <1>1, <1>5, <2>1 DEF DefaultsInv, Defaults!ReadDefaults
    <2>2. CASE Defaults!ConfigNew(config) # {}
      <3>1. config = saved
        BY <2>2 DEF DefaultsInv, Defaults!ConfigNew
      <3>2. /\ read' = [read EXCEPT ![p] = Changed(p)] /\ pc' = [pc EXCEPT ![p] = "truncate"]
            /\ UNCHANGED <<config, saved, line>>
        BY <1>5, <2>2, <3>1 DEF Defaults!ReadDefaults, Defaults!ConfigNew, Changed
      <3>3. read'[p] = Changed(p)' /\ DOMAIN read' = Users /\ DOMAIN pc' = Users
        BY <3>2 DEF Changed, DefaultsInv
      <3> QED  BY <1>0, <3>2, <3>3 DEF DefaultsInv
    <2> QED  BY <2>1, <2>2
  <1>6. ASSUME NEW p \in Users, Defaults!TruncateConfig(p)
        PROVE  DefaultsInv'
    <2>1. /\ pc[p] = "truncate" /\ pc' = [pc EXCEPT ![p] = "save"]
          /\ config' = Defaults!BrokenConfig /\ UNCHANGED <<saved, line, read>>
      BY <1>6 DEF Defaults!TruncateConfig
    <2>2. read'[p] = Changed(p)'
      BY <2>1 DEF DefaultsInv, Changed
    <2> QED  BY <1>0, <2>1, <2>2 DEF DefaultsInv
  <1>7. ASSUME NEW p \in Users, Defaults!SaveConfig(p)
        PROVE  DefaultsInv'
    <2>1. /\ pc[p] = "save" /\ pc' = [pc EXCEPT ![p] = "done"]
          /\ config' = read[p] /\ saved' = Changed(p) /\ UNCHANGED <<line, read>>
      BY <1>7 DEF Defaults!SaveConfig, Changed
    <2>2. read[p] = Changed(p)
      BY <2>1 DEF DefaultsInv
    <2> QED  BY <1>0, <2>1, <2>2 DEF DefaultsInv
  <1>8. CASE UNCHANGED Defaults!vars
    BY <1>8 DEF Defaults!vars, DefaultsInv, Changed
  <1> QED  BY <1>2, <1>3, <1>4, <1>5, <1>6, <1>7, <1>8 DEF Defaults!Next, Defaults!Step

\* DefaultsAreSaved: when one process runs after the other, and wherever each is killed,
\* config.toml holds the defaults that were last reported to be set, or does not parse.
THEOREM DefaultsAreSaved ==
    ASSUME OneUser
    PROVE  Spec => []SavedDefaults
  <1> DEFINE Inv == part = "defaults" => DefaultsInv
  <1>1. Init => Inv
    <2>1. Defaults!Init => DefaultsInv
      BY DEF Defaults!Init, DefaultsInv
    <2> QED  BY <2>1, PartStart
  <1>2. Inv /\ [Next]_vars => Inv'
    BY OneUser, PartStep, DefaultsStep
  <1>3. Inv => SavedDefaults
    BY DEF DefaultsInv, SavedDefaults, Defaults!SavedDefaults
  <1> QED  BY <1>1, <1>2, <1>3, PTL DEF Spec

\* A process has said nothing before it is done, and what it says of an account is so.
FundInv ==
    /\ DOMAIN pc = Users /\ DOMAIN line = Users /\ DOMAIN net = Users /\ DOMAIN says = Users
    /\ \A p \in Users : pc[p] # "done" => says[p] = {}
    /\ Friendbot!FundedIsTrue

LEMMA FundStep ==
    ASSUME FundInv, [Friendbot!Next]_(Friendbot!vars)
    PROVE  FundInv'
  <1> USE DEF Friendbot!At, Friendbot!Goto, Friendbot!Runs, Friendbot!Ends
  <1>1. ASSUME NEW p \in Users, accounts \subseteq accounts',
               DOMAIN pc' = Users, DOMAIN line' = Users, DOMAIN net' = Users, DOMAIN says' = Users,
               \A q \in Users \ {p} : /\ pc'[q] = pc[q] /\ line'[q] = line[q]
                                      /\ net'[q] = net[q] /\ says'[q] = says[q],
               pc'[p] # "done" => says'[p] = {},
               line'[p].op = "fund" /\ <<"funded", line'[p].name>> \in says'[p] =>
                  <<line'[p].name, net'[p]>> \in accounts'
        PROVE  FundInv'
    <2>1. ASSUME NEW q \in Users, line'[q].op = "fund", <<"funded", line'[q].name>> \in says'[q]
          PROVE  <<line'[q].name, net'[q]>> \in accounts'
      BY <1>1, <2>1 DEF FundInv, Friendbot!FundedIsTrue
    <2>2. \A q \in Users : pc'[q] # "done" => says'[q] = {}
      BY <1>1 DEF FundInv
    <2> QED  BY <1>1, <2>1, <2>2 DEF FundInv, Friendbot!FundedIsTrue
  <1>2. ASSUME NEW p \in Users, Friendbot!Start(p) \/ Friendbot!Kill(p) \/ Friendbot!SetEnvFromConfig(p)
        PROVE  FundInv'
    <2>1. CASE Friendbot!Start(p)
      <3>1. says'[p] = {} /\ UNCHANGED accounts
        BY <2>1 DEF FundInv, Friendbot!Start
      <3> QED  BY <1>1, <2>1, <3>1 DEF FundInv, Friendbot!Start
    <2>2. CASE Friendbot!Kill(p)
      <3>1. says'[p] = {} /\ UNCHANGED <<accounts, says>>
        BY <2>2 DEF FundInv, Friendbot!Kill
      <3> QED  BY <1>1, <2>2, <3>1 DEF FundInv, Friendbot!Kill
    <2>3. CASE Friendbot!SetEnvFromConfig(p)
      <3>1. says'[p] = {} /\ UNCHANGED <<accounts, line, net, says>>
        BY <2>3 DEF FundInv, Friendbot!SetEnvFromConfig
      <3> QED  BY <1>1, <2>3, <3>1 DEF FundInv, Friendbot!SetEnvFromConfig
    <2> QED  BY <1>2, <2>1, <2>2, <2>3
  <1>3. ASSUME NEW p \in Users, Friendbot!NetworkAdd(p) \/ Friendbot!NetworkWrite(p) \/
               Friendbot!NetworkRm(p) \/ Friendbot!CheckDefault(p) \/ Friendbot!ReadDefaults(p) \/
               Friendbot!TruncateConfig(p) \/ Friendbot!SaveConfig(p)
        PROVE  FundInv'
    <2>1. says'[p] = {} /\ UNCHANGED <<accounts, line, net, says>>
      BY <1>3 DEF FundInv, Friendbot!NetworkAdd, Friendbot!NetworkWrite, Friendbot!NetworkRm,
          Friendbot!CheckDefault, Friendbot!ReadDefaults, Friendbot!TruncateConfig, Friendbot!SaveConfig
    <2>2. DOMAIN pc' = Users /\ \A q \in Users \ {p} : pc'[q] = pc[q]
      BY <1>3 DEF FundInv, Friendbot!NetworkAdd, Friendbot!NetworkWrite, Friendbot!NetworkRm,
          Friendbot!CheckDefault, Friendbot!ReadDefaults, Friendbot!TruncateConfig, Friendbot!SaveConfig
    <2> QED  BY <1>1, <2>1, <2>2 DEF FundInv
  <1>4. ASSUME NEW p \in Users, Friendbot!NetworkLs(p) \/ Friendbot!Env(p)
        PROVE  FundInv'
    <2>1. line[p].op # "fund" /\ pc'[p] = "done" /\ UNCHANGED <<accounts, line, net>>
      BY <1>4 DEF FundInv, Friendbot!NetworkLs, Friendbot!Env
    <2> QED  BY <1>1, <1>4, <2>1 DEF FundInv, Friendbot!NetworkLs, Friendbot!Env
  <1>5. ASSUME NEW p \in Users, Friendbot!Connect(p)
        PROVE  FundInv'
    <2>1. says'[p] = {}
      BY <1>5 DEF FundInv, Friendbot!Connect
    <2> QED  BY <1>1, <1>5, <2>1 DEF FundInv, Friendbot!Connect
  <1>6. ASSUME NEW p \in Users, Friendbot!Fund(p)
        PROVE  FundInv'
    <2>1. PICK reply \in {"created", "already", "refused", "lost"} :
            /\ Friendbot!Friendbot(p, reply)
            /\ \/ /\ reply \in {"created", "already"} \/ line[p].op = "generate"
                  /\ says' = [says EXCEPT ![p] = {<<"funded", line[p].name>>}]
                  /\ pc' = [pc EXCEPT ![p] = "done"]
               \/ says' = says /\ pc' = [pc EXCEPT ![p] = "failed"]
      BY <1>6 DEF Friendbot!Fund, Friendbot!FundAddress
    <2>2. pc[p] = "fund" /\ UNCHANGED <<line, net>>
      BY <1>6 DEF Friendbot!Fund
    <2>3. says[p] = {}
      BY <2>2 DEF FundInv
    <2>4. accounts \subseteq accounts'
      BY <2>1 DEF Friendbot!Friendbot
    <2>5. reply \in {"created", "already"} => <<line[p].name, net[p]>> \in accounts'
      BY <2>1 DEF Friendbot!Friendbot
    <2> QED  BY <1>1, <2>1, <2>2, <2>3, <2>4, <2>5 DEF FundInv
  <1>7. CASE UNCHANGED Friendbot!vars
    BY <1>7 DEF Friendbot!vars, FundInv, Friendbot!FundedIsTrue
  <1> QED  BY <1>2, <1>3, <1>4, <1>5, <1>6, <1>7 DEF Friendbot!Next, Friendbot!Step

\* FundedAreFunded: with any number of processes, and whichever answers of friendbot are
\* lost, `keys fund` says that an account is funded only when it is, on that network.
THEOREM FundedAreFunded == Spec => []FundedIsTrue
  <1> DEFINE Inv == part = "friendbot" => FundInv
  <1>1. Init => Inv
    <2>1. Friendbot!Init => FundInv
      BY DEF Friendbot!Init, FundInv, Friendbot!FundedIsTrue
    <2> QED  BY <2>1, PartStart
  <1>2. Inv /\ [Next]_vars => Inv'
    BY PartStep, FundStep
  <1>3. Inv => FundedIsTrue
    BY DEF FundInv, FundedIsTrue
  <1> QED  BY <1>1, <1>2, <1>3, PTL DEF Spec

-----------------------------------------------------------------------------
(* The least and the greatest of a set.                                     *)

LEMMA LeastExists ==
    ASSUME NEW S, S \subseteq Nat, S # {}
    PROVE  \E m \in S : \A y \in S : m <= y
  <1>1. IsWellFoundedOn(OpToRel(<, Nat), Nat)
    BY NatLessThanWellFounded
  <1>2. PICK m \in S : \A y \in S : ~ (<<y, m>> \in OpToRel(<, Nat))
    BY <1>1, WFMin
  <1>3. \A y \in S : ~ (y < m)
    BY <1>2 DEF OpToRel
  <1> QED  BY <1>3

LEMMA GreatestExists ==
    ASSUME NEW N \in Nat, NEW S, S \subseteq 0 .. N, S # {}
    PROVE  \E m \in S : \A y \in S : m >= y
  <1> DEFINE Bounds == {n \in Nat : \A y \in S : y <= n}
  <1>1. N \in Bounds
    OBVIOUS
  <1>2. PICK m \in Bounds : \A n \in Bounds : m <= n
    BY <1>1, LeastExists
  <1>3. m \in S
    <2> SUFFICES ASSUME m \notin S
                 PROVE  FALSE
      OBVIOUS
    <2>1. \A y \in S : y \in Nat /\ y < m
      BY <1>2
    <2>4. PICK z \in S : TRUE
      OBVIOUS
    <2>5. m \in Nat /\ z \in Nat /\ z < m
      BY <2>1, <2>4
    <2>2. m - 1 \in Nat /\ \A y \in S : y <= m - 1
      BY <2>1, <2>5
    <2>3. ~ (m <= m - 1)
      OBVIOUS
    <2> QED  BY <1>2, <2>2, <2>3
  <1> QED  BY <1>2, <1>3

-----------------------------------------------------------------------------
(* The upgrade check (UpgradeCheck).                                        *)

\* What a check remembers is of versions that were released, 0 for none.
Remembers(s) ==
    /\ s \in [time : Int, stable : Warnings!Versions, latest : Warnings!Versions]
    /\ s.stable \in (released \ Previews) \cup {0}
    /\ s.latest \in released \cup {0}

WarningsInv ==
    /\ DOMAIN pc = Procs /\ DOMAIN version = Procs /\ DOMAIN checked = Procs
    /\ DOMAIN stats = Procs /\ DOMAIN said = Procs
    /\ now \in Int
    /\ 1 \in released /\ released \subseteq Warnings!Versions \ {0}
    /\ \A s \in file : Remembers(s)
    /\ \A p \in Procs : checked[p] \in Int /\ version[p] \in released /\ Remembers(stats[p])
    /\ Warnings!RecommendsReleased

\* The newest version of crates.io, and the newest that is stable.
LEMMA Newest ==
    ASSUME 1 \in released, released \subseteq Warnings!Versions \ {0}
    PROVE  Warnings!MaxReleased \in released /\ Warnings!MaxStable \in released \ Previews
  <1>1. MaxVersion \in Nat /\ 1 \notin Previews
    BY UpgradeAssumption DEF Warnings!VersionsAssumption
  <1>2. released \subseteq 0 .. MaxVersion /\ released \ Previews \subseteq 0 .. MaxVersion
    BY DEF Warnings!Versions
  <1>3. \E m \in released : \A y \in released : m >= y
    BY <1>1, <1>2, GreatestExists
  <1>4. released \ Previews # {}
    BY <1>1
  <1>5. \E m \in released \ Previews : \A y \in released \ Previews : m >= y
    BY <1>1, <1>2, <1>4, GreatestExists
  <1> QED  BY <1>3, <1>5 DEF Warnings!MaxReleased, Warnings!MaxStable, Warnings!Max

LEMMA DefaultRemembers ==
    Remembers(Warnings!DefaultStats)
  BY UpgradeAssumption
     DEF Remembers, Warnings!DefaultStats, Warnings!Epoch, Warnings!VersionsAssumption, Warnings!Versions

LEMMA WarningsStep ==
    ASSUME WarningsInv, [Warnings!Next]_(Warnings!vars)
    PROVE  WarningsInv'
  <1> USE DEF Warnings!Goto
  <1>e. Warnings!Epoch \in Int
    BY UpgradeAssumption DEF Warnings!Epoch, Warnings!VersionsAssumption
  <1>r. \A s : released' = released => Remembers(s)' = Remembers(s)
    BY DEF Remembers
  <1>1. ASSUME NEW p \in Procs, Warnings!Spawn(p)
        PROVE  WarningsInv'
    <2>1. PICK v \in released : version' = [version EXCEPT ![p] = v]
      BY <1>1 DEF Warnings!Spawn
    <2>2. /\ said' = [said EXCEPT ![p] = {}] /\ checked' = [checked EXCEPT ![p] = Warnings!Epoch]
          /\ stats' = [stats EXCEPT ![p] = Warnings!DefaultStats]
          /\ UNCHANGED <<now, released, file>> /\ DOMAIN pc' = DOMAIN pc
      BY <1>1 DEF Warnings!Spawn
    <2>3. \A q \in Procs : /\ checked'[q] \in Int /\ version'[q] \in released
                            /\ Remembers(stats'[q])
      BY <1>e, <2>1, <2>2, DefaultRemembers DEF WarningsInv
    <2>4. Warnings!RecommendsReleased'
      BY <2>1, <2>2 DEF WarningsInv, Warnings!RecommendsReleased
    <2> QED  BY <1>r, <2>1, <2>2, <2>3, <2>4 DEF WarningsInv
  <1>2. ASSUME NEW p \in Procs, Warnings!Load(p)
        PROVE  WarningsInv'
    <2>1. /\ stats' = [stats EXCEPT ![p] = Warnings!Loaded] /\ checked' = [checked EXCEPT ![p] = now]
          /\ UNCHANGED <<now, released, file, version, said>> /\ DOMAIN pc' = DOMAIN pc
      BY <1>2 DEF Warnings!Load
    <2>2. Remembers(Warnings!Loaded)
      BY DefaultRemembers DEF WarningsInv, Warnings!Loaded
    <2>3. \A q \in Procs : checked'[q] \in Int /\ Remembers(stats'[q])
      BY <2>1, <2>2 DEF WarningsInv
    <2> QED  BY <1>r, <2>1, <2>3 DEF WarningsInv, Warnings!RecommendsReleased
  <1>3. ASSUME NEW p \in Procs, Warnings!Fetch(p)
        PROVE  WarningsInv'
    <2>1. PICK s : /\ stats' = [stats EXCEPT ![p] = s]
                   /\ \/ s = [time |-> checked[p], stable |-> Warnings!MaxStable,
                              latest |-> Warnings!MaxReleased]
                      \/ s = [stats[p] EXCEPT !.time = checked[p]]
      BY <1>3 DEF Warnings!Fetch, Warnings!Failed
    <2>2. UNCHANGED <<now, released, file, version, checked, said>> /\ DOMAIN pc' = DOMAIN pc
      BY <1>3 DEF Warnings!Fetch
    <2>3. checked[p] \in Int /\ Remembers(stats[p])
      BY DEF WarningsInv
    <2>4. Warnings!MaxReleased \in released /\ Warnings!MaxStable \in released \ Previews
      BY Newest DEF WarningsInv
    <2>5. released \subseteq Warnings!Versions
      BY DEF WarningsInv
    <2>6. Remembers(s)
      BY <2>1, <2>3, <2>4, <2>5 DEF Remembers
    <2>7. \A q \in Procs : Remembers(stats'[q])
      BY <2>1, <2>6 DEF WarningsInv
    <2> QED  BY <1>r, <2>1, <2>2, <2>7 DEF WarningsInv, Warnings!RecommendsReleased
  <1>4. ASSUME NEW p \in Procs, Warnings!Truncate(p) \/ Warnings!Save(p) \/ Warnings!End(p)
        PROVE  WarningsInv'
    <2>1. UNCHANGED <<now, released, version, checked, stats, said>> /\ DOMAIN pc' = DOMAIN pc
      BY <1>4 DEF Warnings!Truncate, Warnings!Save, Warnings!End
    <2>2. file' \in {{}, {stats[p]}, file}
      BY <1>4 DEF Warnings!Truncate, Warnings!Save, Warnings!End
    <2> QED  BY <1>r, <2>1, <2>2 DEF WarningsInv, Warnings!RecommendsReleased
  <1>5. ASSUME NEW p \in Procs, Warnings!Warn(p)
        PROVE  WarningsInv'
    <2>1. PICK v : /\ v = Warnings!GetLatestVersion(version[p], stats[p])
                   /\ said' = [said EXCEPT ![p] = IF v > version[p] THEN {v} ELSE {}]
      BY <1>5 DEF Warnings!Warn
    <2>2. UNCHANGED <<now, released, file, version, checked, stats>> /\ DOMAIN pc' = DOMAIN pc
      BY <1>5 DEF Warnings!Warn
    <2>3. /\ version[p] \in released /\ version[p] \in Warnings!Versions /\ Remembers(stats[p])
      BY DEF WarningsInv
    <2>4. v > version[p] => v \in released /\ (version[p] \notin Previews => v \notin Previews)
      <3>1. v \in released \cup {0} /\ (version[p] \notin Previews => v = 0 \/ v \notin Previews)
        BY <2>1, <2>3 DEF Warnings!GetLatestVersion, Remembers
      <3>2. ~ (0 > version[p])
        BY <2>3 DEF Warnings!Versions
      <3> QED  BY <3>1, <3>2
    <2>5. Warnings!RecommendsReleased'
      BY <2>1, <2>2, <2>4 DEF WarningsInv, Warnings!RecommendsReleased
    <2> QED  BY <1>r, <2>1, <2>2, <2>5 DEF WarningsInv
  <1>6. CASE Warnings!Tick
    BY <1>6, <1>r DEF WarningsInv, Warnings!Tick, Warnings!RecommendsReleased
  <1>7. CASE Warnings!Release
    <2>1. PICK v \in Warnings!Versions \ (released \cup {0}) : released' = released \cup {v}
      BY <1>7 DEF Warnings!Release
    <2>2. UNCHANGED <<now, file, pc, version, checked, stats, said>>
      BY <1>7 DEF Warnings!Release
    <2>3. \A s : Remembers(s) => Remembers(s)'
      BY <2>1 DEF Remembers
    <2>4. Warnings!RecommendsReleased'
      BY <2>1, <2>2 DEF WarningsInv, Warnings!RecommendsReleased
    <2> QED  BY <2>1, <2>2, <2>3, <2>4 DEF WarningsInv
  <1>8. CASE UNCHANGED Warnings!vars
    BY <1>8, <1>r DEF Warnings!vars, WarningsInv, Warnings!RecommendsReleased
  <1> QED  BY <1>1, <1>2, <1>3, <1>4, <1>5, <1>6, <1>7, <1>8 DEF Warnings!Next

\* RecommendsWhatExists: however many checks run, are cut off anywhere and overwrite each
\* other's file, what one recommends is released, and stable for a stable version.
THEOREM RecommendsWhatExists == Spec => []RecommendsReleased
  <1> DEFINE Inv == part = "warnings" => WarningsInv
  <1>1. Init => Inv
    <2>1. Warnings!Init => WarningsInv
      BY UpgradeAssumption, DefaultRemembers
         DEF Warnings!Init, WarningsInv, Warnings!RecommendsReleased, Warnings!VersionsAssumption,
             Warnings!Versions, Warnings!Epoch
    <2> QED  BY <2>1, PartStart
  <1>2. Inv /\ [Next]_vars => Inv'
    BY PartStep, WarningsStep
  <1>3. Inv => RecommendsReleased
    BY DEF WarningsInv, RecommendsReleased
  <1> QED  BY <1>1, <1>2, <1>3, PTL DEF Spec

\* The file has the time of the last check that was saved; an empty one was truncated, by a
\* check that was made an interval later, or was never written.
FileKept ==
    \/ file = {} /\ now >= kept + Interval
    \/ \E s : file = {s} /\ s = [time |-> kept, stable |-> s.stable, latest |-> s.latest]

\* What the only check that runs knows.
RequestsAt(p) ==
    /\ checked[p] \in Int
    /\ pc[p] \in {"fetch", "truncate", "save"} =>
         /\ checked[p] >= kept + Interval /\ now >= checked[p]
         /\ stats[p] = [time |-> stats[p].time, stable |-> stats[p].stable, latest |-> stats[p].latest]
    /\ pc[p] \in {"truncate", "save"} => stats[p].time = checked[p]

RequestsInv ==
    /\ DOMAIN pc = Users /\ DOMAIN checked = Users /\ DOMAIN stats = Users
    /\ now \in Int /\ kept \in Int
    /\ FileKept
    /\ \A p \in Users : RequestsAt(p)

LEMMA RequestsStep ==
    ASSUME OneUser, RequestsInv, [Requests!Next]_(Requests!vars)
    PROVE  RequestsInv'
  <1> USE DEF Requests!Goto
  <1>e. Requests!Epoch \in Int /\ Interval \in Nat
    BY UpgradeAssumption DEF Requests!Epoch, Warnings!VersionsAssumption
  <1>0. \A p \in Users : Users = {p}
    BY DEF OneUser
  <1>1. ASSUME NEW p \in Users, Requests!Spawn(p)
        PROVE  RequestsInv'
    <2>1. /\ pc' = [pc EXCEPT ![p] = "load"]
          /\ checked' = [checked EXCEPT ![p] = Requests!Epoch]
          /\ stats' = [stats EXCEPT ![p] = Requests!DefaultStats]
          /\ UNCHANGED <<now, file, kept>>
      BY <1>1 DEF Requests!Spawn
    <2>2. RequestsAt(p)'
      BY <1>e, <2>1 DEF RequestsAt, RequestsInv
    <2> QED  BY <1>0, <2>1, <2>2 DEF RequestsInv, FileKept
  <1>2. ASSUME NEW p \in Users, Requests!Load(p)
        PROVE  RequestsInv'
    <2>1. /\ stats' = [stats EXCEPT ![p] = Requests!Loaded]
          /\ checked' = [checked EXCEPT ![p] = now]
          /\ pc' = [pc EXCEPT ![p] = IF now - Interval >= Requests!Loaded.time THEN "fetch" ELSE "warn"]
          /\ UNCHANGED <<now, file, kept>>
      BY <1>2 DEF Requests!Load
    <2>2. Requests!Loaded = [time |-> Requests!Loaded.time, stable |-> Requests!Loaded.stable,
                             latest |-> Requests!Loaded.latest]
      BY DEF RequestsInv, FileKept, Requests!Loaded, Requests!DefaultStats
    <2>3. now - Interval >= Requests!Loaded.time => now >= kept + Interval
      <3>1. CASE file = {} /\ now >= kept + Interval
        BY <3>1
      <3>2. CASE \E s : file = {s} /\ s = [time |-> kept, stable |-> s.stable, latest |-> s.latest]
        <4>1. Requests!Loaded.time = kept
          BY <3>2 DEF Requests!Loaded
        <4> QED  BY <1>e, <4>1 DEF RequestsInv
      <3> QED  BY <3>1, <3>2 DEF RequestsInv, FileKept
    <2>4. /\ checked'[p] = now /\ now \in Int /\ stats'[p] = Requests!Loaded
          /\ \/ pc'[p] = "fetch" /\ now - Interval >= Requests!Loaded.time
             \/ pc'[p] = "warn"
      BY <2>1 DEF RequestsInv
    <2>5. RequestsAt(p)'
      BY <2>1, <2>2, <2>3, <2>4 DEF RequestsAt
    <2> QED  BY <1>0, <2>1, <2>5 DEF RequestsInv, FileKept
  <1>3. ASSUME NEW p \in Users, Requests!Fetch(p)
        PROVE  RequestsInv'
    <2>1. PICK s : /\ stats' = [stats EXCEPT ![p] = s]
                   /\ \/ s = [time |-> checked[p], stable |-> Requests!MaxStable,
                              latest |-> Requests!MaxReleased]
                      \/ s = [stats[p] EXCEPT !.time = checked[p]]
      BY <1>3 DEF Requests!Fetch, Requests!Failed
    <2>2. /\ pc[p] = "fetch" /\ pc' = [pc EXCEPT ![p] = "truncate"]
          /\ UNCHANGED <<now, file, kept, checked>>
      BY <1>3 DEF Requests!Fetch
    <2>3. /\ checked[p] \in Int /\ checked[p] >= kept + Interval /\ now >= checked[p]
          /\ stats[p] = [time |-> stats[p].time, stable |-> stats[p].stable, latest |-> stats[p].latest]
      BY <2>2 DEF RequestsInv, RequestsAt
    <2>4. s.time = checked[p] /\ s = [time |-> s.time, stable |-> s.stable, latest |-> s.latest]
      BY <2>1, <2>3
    <2>5. stats'[p] = s /\ pc'[p] = "truncate" /\ DOMAIN pc' = Users /\ DOMAIN stats' = Users
      BY <2>1, <2>2 DEF RequestsInv
    <2>6. RequestsAt(p)'
      BY <2>2, <2>3, <2>4, <2>5 DEF RequestsAt
    <2> QED  BY <1>0, <2>2, <2>5, <2>6 DEF RequestsInv, FileKept
  <1>4. ASSUME NEW p \in Users, Requests!Truncate(p)
        PROVE  RequestsInv'
    <2>1. /\ pc[p] = "truncate" /\ UNCHANGED <<now, kept, checked, stats>>
          /\ \/ pc' = [pc EXCEPT ![p] = "save"] /\ file' = {}
             \/ pc' = [pc EXCEPT ![p] = "warn"] /\ file' = file
      BY <1>4 DEF Requests!Truncate
    <2>2. checked[p] >= kept + Interval /\ now >= checked[p] /\ checked[p] \in Int
      BY <2>1 DEF RequestsInv, RequestsAt
    <2>3. FileKept'
      BY <1>e, <2>1, <2>2 DEF RequestsInv, FileKept
    <2>4. RequestsAt(p)'
      BY <2>1 DEF RequestsInv, RequestsAt
    <2> QED  BY <1>0, <2>1, <2>3, <2>4 DEF RequestsInv
  <1>5. ASSUME NEW p \in Users, Requests!Save(p)
        PROVE  RequestsInv'
    <2>1. /\ pc[p] = "save" /\ pc' = [pc EXCEPT ![p] = "warn"]
          /\ UNCHANGED <<now, checked, stats>>
          /\ (file' = {stats[p]} /\ kept' = checked[p]) \/ UNCHANGED <<file, kept>>
      BY <1>5 DEF Requests!Save
    <2>2. /\ checked[p] \in Int /\ stats[p].time = checked[p]
          /\ stats[p] = [time |-> stats[p].time, stable |-> stats[p].stable, latest |-> stats[p].latest]
      BY <2>1 DEF RequestsInv, RequestsAt
    <2>3. FileKept' /\ kept' \in Int
      BY <2>1, <2>2 DEF RequestsInv, FileKept
    <2>4. RequestsAt(p)'
      BY <2>1, <2>2 DEF RequestsInv, RequestsAt
    <2> QED  BY <1>0, <2>1, <2>3, <2>4 DEF RequestsInv
  <1>6. ASSUME NEW p \in Users, Requests!Warn(p) \/ Requests!End(p)
        PROVE  RequestsInv'
    <2>1. /\ pc' = [pc EXCEPT ![p] = "idle"] /\ UNCHANGED <<now, file, kept, checked, stats>>
      BY <1>6 DEF Requests!Warn, Requests!End
    <2>2. RequestsAt(p)'
      BY <2>1 DEF RequestsInv, RequestsAt
    <2> QED  BY <1>0, <2>1, <2>2 DEF RequestsInv, FileKept
  <1>7. CASE Requests!Tick \/ Requests!Release \/ UNCHANGED Requests!vars
    <2>1. UNCHANGED <<file, kept, pc, checked, stats>> /\ now' \in Int /\ now' >= now
      BY <1>7 DEF Requests!Tick, Requests!Release, Requests!vars, RequestsInv
    <2>2. \A p \in Users : RequestsAt(p)'
      BY <2>1 DEF RequestsInv, RequestsAt
    <2>3. FileKept'
      BY <1>e, <2>1 DEF RequestsInv, FileKept
    <2> QED  BY <2>1, <2>2, <2>3 DEF RequestsInv
  <1> QED  BY <1>1, <1>2, <1>3, <1>4, <1>5, <1>6, <1>7 DEF Requests!Next

\* AsksOnceSaved: of commands that run one after another, each cut off anywhere in its check
\* or unable to save it, none asks crates.io within an interval of the last check that was
\* saved, for any interval and also when crates.io does not answer.
THEOREM AsksOnceSaved ==
    ASSUME OneUser
    PROVE  Spec => []QuietOnceSaved
  <1> DEFINE Inv == part = "requests" => RequestsInv
  <1>1. Init => Inv
    <2>1. Requests!Init => RequestsInv
      BY UpgradeAssumption
         DEF Requests!Init, RequestsInv, RequestsAt, FileKept, Requests!Epoch,
             Warnings!VersionsAssumption
    <2> QED  BY <2>1, PartStart
  <1>2. Inv /\ [Next]_vars => Inv'
    BY OneUser, PartStep, RequestsStep
  <1>3. Inv => QuietOnceSaved
    BY DEF RequestsInv, RequestsAt, QuietOnceSaved, Requests!QuietOnceSaved
  <1> QED  BY <1>1, <1>2, <1>3, PTL DEF Spec

-----------------------------------------------------------------------------
(* Builds (ContractBuild).                                                  *)

\* The steps of a command on one package; "cargo" is before it.
OnPackage == {"read", "truncate", "write", "out"}

\* Cargo's files, and what counts as compiled: only where the file is linked may the command
\* have written into cargo's own.
CargoInv ==
    /\ sources \in [Build!Names -> Nat \ {0}] /\ compiled \in [Build!Names -> Nat]
    /\ DOMAIN deps = Build!Names /\ DOMAIN target = Build!Names /\ DOMAIN outdir = Build!Names
    /\ linked \in [Build!Names -> BOOLEAN]
    /\ \A k \in Build!Names : compiled[k] # 0 /\ ~linked[k] => deps[k] = Build!Wasm(compiled[k])

\* The wasm file that the command is to leave of a package, and the packages of which it
\* is to leave that.
Wanted(k) == [code |-> compiled[k], meta |-> line.meta]
Due(k) == linked[k] => k \in anew

\* The packages that the command has finished.
FinishedExact ==
    pc \in OnPackage \cup {"cargo", "done"} /\ ~line.print =>
        \A i \in Build!Packages(line) \ todo : Due(Workspace[i].name) => Build!Exact(Workspace[i].name)

\* How far the command is with the current package; those to come are not compiled yet.
BuildAt ==
    /\ pc \in OnPackage \cup {"cargo"} =>
         /\ line \in BuildLines /\ ~line.print
         /\ todo # {} /\ todo \subseteq DOMAIN Workspace
         /\ \A i \in todo : pc = "cargo" \/ i # Build!First => Workspace[i].name \notin anew
    /\ pc = "done" => line \in BuildLines /\ (~line.print => todo = {})
    /\ Due(Build!Package) =>
         /\ pc = "read" => target[Build!Package] = Build!Wasm(compiled[Build!Package])
         /\ pc \in {"truncate", "write"} => bytes = Build!Wasm(compiled[Build!Package])
         /\ pc = "out" => target[Build!Package] = Wanted(Build!Package)

BuildInv == CargoInv /\ BuildAt /\ FinishedExact

\* The current package is one of the workspace, and the others have other names.
LEMMA CurrentPackage ==
    ASSUME todo # {}, todo \subseteq DOMAIN Workspace
    PROVE  /\ Build!First \in todo /\ Build!Package \in Build!Names
           /\ \A i \in DOMAIN Workspace \ {Build!First} : Workspace[i].name # Build!Package
  <1>1. todo \subseteq Nat
    BY BuildAssumption DEF Build!WorkspaceAssumption
  <1>2. \E i \in todo : \A j \in todo : i <= j
    BY <1>1, LeastExists
  <1>3. Build!First \in todo
    BY <1>2 DEF Build!First
  <1> QED  BY <1>3, BuildAssumption DEF Build!Package, Build!Names, Build!WorkspaceAssumption

\* A step on the current package leaves the finished ones, and those to come, as they are.
LEMMA BuildOthers ==
    ASSUME BuildInv, pc \in OnPackage \cup {"cargo"}, line' = line,
           \A q \in Build!Names \ {Build!Package} :
              /\ target'[q] = target[q] /\ outdir'[q] = outdir[q] /\ compiled'[q] = compiled[q]
              /\ linked'[q] = linked[q] /\ (q \in anew' <=> q \in anew)
    PROVE  /\ \A i \in Build!Packages(line) \ todo :
                Due(Workspace[i].name)' => Build!Exact(Workspace[i].name)'
           /\ \A i \in todo \ {Build!First} : Workspace[i].name \notin anew'
  <1>1. /\ ~line.print /\ todo # {} /\ todo \subseteq DOMAIN Workspace
        /\ \A i \in todo \ {Build!First} : Workspace[i].name \notin anew
    BY DEF BuildInv, BuildAt
  <1>2. /\ Build!First \in todo
        /\ \A i \in DOMAIN Workspace \ {Build!First} : Workspace[i].name \in Build!Names \ {Build!Package}
    BY <1>1, CurrentPackage DEF Build!Names
  <1>3. ASSUME NEW i \in Build!Packages(line) \ todo, Due(Workspace[i].name)'
        PROVE  Build!Exact(Workspace[i].name)'
    <2>1. i \in DOMAIN Workspace \ {Build!First}
      BY <1>2 DEF Build!Packages
    <2>2. PICK q \in Build!Names \ {Build!Package} : q = Workspace[i].name
      BY <1>2, <2>1
    <2>3. Due(q)
      BY <1>3, <2>2 DEF Due
    <2>4. Build!Exact(q)
      BY <1>1, <2>2, <2>3 DEF BuildInv, FinishedExact
    <2>5. Build!Exact(q)'
      BY <2>2, <2>4 DEF Build!Exact
    <2> QED  BY <2>2, <2>5
  <1>4. \A i \in todo \ {Build!First} : Workspace[i].name \notin anew'
    BY <1>1, <1>2
  <1> QED  BY <1>3, <1>4

\* The command goes on with the current package.
LEMMA BuildGoesOn ==
    ASSUME BuildInv, pc \in OnPackage \cup {"cargo"}, pc' \in OnPackage, UNCHANGED <<line, todo>>,
           \A q \in Build!Names \ {Build!Package} :
              /\ target'[q] = target[q] /\ outdir'[q] = outdir[q] /\ compiled'[q] = compiled[q]
              /\ linked'[q] = linked[q] /\ (q \in anew' <=> q \in anew)
    PROVE  /\ FinishedExact' /\ Build!Package' = Build!Package
           /\ \A i \in todo' : pc' = "cargo" \/ i # Build!First' => Workspace[i].name \notin anew'
  <1>1. Build!Package' = Build!Package /\ Build!First' = Build!First
    BY DEF Build!Package, Build!First
  <1>2. Build!Packages(line)' = Build!Packages(line)
    BY DEF Build!Packages
  <1>3. pc' \notin {"cargo", "done"}
    BY DEF OnPackage
  <1> QED  BY <1>1, <1>2, <1>3, BuildOthers DEF FinishedExact

\* The current package is finished.
LEMMA BuildFinishes ==
    ASSUME BuildInv, pc \in OnPackage \cup {"cargo"}, Build!Advance(Build!Built), line' = line,
           NEW k, k = Build!Package, Due(k)' => Build!Exact(k)',
           \A q \in Build!Names \ {k} :
              /\ target'[q] = target[q] /\ outdir'[q] = outdir[q] /\ compiled'[q] = compiled[q]
              /\ linked'[q] = linked[q] /\ (q \in anew' <=> q \in anew)
    PROVE  FinishedExact' /\ BuildAt'
  <1>0. /\ line \in BuildLines /\ ~line.print /\ todo # {} /\ todo \subseteq DOMAIN Workspace
    BY DEF BuildInv, BuildAt
  <1>1. Build!First \in todo
    BY <1>0, CurrentPackage
  <1>2. /\ todo' = todo \ {Build!First}
        /\ \/ pc' = "cargo" /\ todo # {Build!First}
           \/ pc' = "done" /\ todo = {Build!First}
    BY DEF Build!Advance, Build!Built
  <1>3. \A i \in todo' : Workspace[i].name \notin anew'
    BY <1>2, BuildOthers
  <1>4. BuildAt'
    BY <1>0, <1>1, <1>2, <1>3 DEF BuildAt, OnPackage
  <1>5. Build!Packages(line)' = Build!Packages(line)
    BY DEF Build!Packages
  <1>6. ASSUME NEW i \in Build!Packages(line) \ todo', Due(Workspace[i].name)'
        PROVE  Build!Exact(Workspace[i].name)'
    <2>1. CASE i = Build!First
      <3>1. Workspace[i].name = k
        BY <2>1 DEF Build!Package
      <3> QED  BY <1>6, <3>1
    <2>2. CASE i # Build!First
      BY <1>2, <1>6, <2>2, BuildOthers
    <2> QED  BY <2>1, <2>2
  <1> QED  BY <1>4, <1>5, <1>6 DEF FinishedExact

LEMMA BuildStep ==
    ASSUME BuildInv, [Build!Next]_(Build!vars)
    PROVE  BuildInv'
  <1> USE DEF Build!cargo
  <1>m. \A l \in BuildLines : l.meta \in Seq({"a", "b"})
    BY BuildAssumption DEF Build!LinesAssumption
  <1>p. pc \in OnPackage \cup {"cargo"} =>
          /\ line \in BuildLines /\ ~line.print /\ todo # {} /\ todo \subseteq DOMAIN Workspace
          /\ Build!First \in todo /\ Build!Package \in Build!Names
    BY CurrentPackage DEF BuildInv, BuildAt
  <1>1. ASSUME NEW l \in BuildLines, Build!Run(l)
        PROVE  BuildInv'
    <2>1. /\ line' = l /\ todo' = Build!Packages(l) /\ anew' = {}
          /\ UNCHANGED <<sources, compiled, linked, deps, target, outdir, bytes>>
          /\ \/ pc' = "failed"
             \/ pc' = "done" /\ (l.print \/ Build!Packages(l) = {})
             \/ pc' = "cargo" /\ ~l.print /\ Build!Packages(l) # {}
      BY <1>1 DEF Build!Run
    <2>2. CargoInv'
      BY <2>1 DEF BuildInv, CargoInv
    <2>3. Build!Packages(l) \subseteq DOMAIN Workspace
      BY DEF Build!Packages
    <2>4. BuildAt'
      BY <2>1, <2>3 DEF BuildAt, OnPackage
    <2>5. Build!Packages(line)' = Build!Packages(l)
      BY <2>1 DEF Build!Packages
    <2>6. FinishedExact'
      BY <2>1, <2>5 DEF FinishedExact
    <2> QED  BY <2>2, <2>4, <2>6 DEF BuildInv
  <1>2. CASE Build!Cargo
    <2>1. PICK k : k = Build!Package
      OBVIOUS
    <2>2. /\ pc = "cargo" /\ k \in Build!Names /\ k \notin anew
      <3>1. pc = "cargo" /\ k \in Build!Names /\ Build!First \in todo
        BY <1>p, <1>2, <2>1 DEF Build!Cargo
      <3> QED  BY <2>1, <3>1 DEF BuildInv, BuildAt, Build!Package
    <2>3. PICK wasm : /\ wasm = IF compiled[k] = sources[k] THEN deps[k] ELSE Build!Wasm(sources[k])
                      /\ deps' = [deps EXCEPT ![k] = wasm] /\ target' = [target EXCEPT ![k] = wasm]
      BY <1>2, <2>1 DEF Build!Cargo
    <2>4. /\ compiled' = [compiled EXCEPT ![k] = sources[k]] /\ UNCHANGED <<sources, outdir, line, bytes>>
          /\ anew' = IF compiled[k] = sources[k] THEN anew ELSE anew \cup {k}
          /\ Build!Advance(Build!AfterCargo)
      BY <1>2, <2>1 DEF Build!Cargo
    <2>5. PICK l \in BOOLEAN :
            linked' = [linked EXCEPT ![k] = l \/ (compiled[k] = sources[k] /\ linked[k])]
      BY <1>2, <2>1, BuildAssumption DEF Build!Cargo, Build!LinksAssumption
    <2>6. /\ sources[k] \in Nat \ {0} /\ linked[k] \in BOOLEAN
          /\ linked'[k] = (l \/ (compiled[k] = sources[k] /\ linked[k]))
      BY <2>2, <2>5 DEF BuildInv, CargoInv
    <2>w. ASSUME ~linked'[k] \/ compiled[k] # sources[k]
          PROVE  wasm = Build!Wasm(sources[k])
      <3>1. compiled[k] = sources[k] => ~linked[k]
        BY <2>w, <2>6
      <3>2. compiled[k] = sources[k] => deps[k] = Build!Wasm(sources[k])
        BY <2>2, <2>6, <3>1 DEF BuildInv, CargoInv
      <3> QED  BY <2>3, <3>2
    <2>7. CargoInv'
      <3>1. /\ sources' \in [Build!Names -> Nat \ {0}] /\ compiled' \in [Build!Names -> Nat]
            /\ DOMAIN deps' = Build!Names /\ DOMAIN target' = Build!Names
            /\ DOMAIN outdir' = Build!Names
        BY <2>3, <2>4, <2>6 DEF BuildInv, CargoInv
      <3>2. linked' \in [Build!Names -> BOOLEAN]
        BY <2>5 DEF BuildInv, CargoInv
      <3>3. compiled'[k] = sources[k] /\ deps'[k] = wasm
        BY <2>2, <2>3, <2>4 DEF BuildInv, CargoInv
      <3>4. \A q \in Build!Names \ {k} :
              compiled'[q] = compiled[q] /\ linked'[q] = linked[q] /\ deps'[q] = deps[q]
        BY <2>3, <2>4, <2>5 DEF BuildInv, CargoInv
      <3>5. \A q \in Build!Names :
              compiled'[q] # 0 /\ ~linked'[q] => deps'[q] = Build!Wasm(compiled'[q])
        BY <2>w, <3>3, <3>4 DEF BuildInv, CargoInv
      <3> QED  BY <3>1, <3>2, <3>5 DEF CargoInv, Build!Wasm
    <2>8. \A q \in Build!Names \ {k} :
            /\ target'[q] = target[q] /\ outdir'[q] = outdir[q] /\ compiled'[q] = compiled[q]
            /\ linked'[q] = linked[q] /\ (q \in anew' <=> q \in anew)
      BY <2>3, <2>4, <2>5 DEF BuildInv, CargoInv
    <2>9. Due(k)' => target'[k] = Build!Wasm(compiled'[k])
      <3>1. Due(k)' => ~linked'[k] \/ compiled[k] # sources[k]
        BY <2>2, <2>4 DEF Due
      <3>2. target'[k] = wasm /\ compiled'[k] = sources[k]
        BY <2>2, <2>3, <2>4 DEF BuildInv, CargoInv
      <3> QED  BY <2>w, <3>1, <3>2
    <2>10. CASE line.meta # << >> \/ line.out
      <3>1. /\ pc' = IF line.meta # << >> THEN "read" ELSE "out"
            /\ todo' = todo
        BY <2>4, <2>10 DEF Build!Advance, Build!AfterCargo, Build!AfterMeta
      <3>2. /\ FinishedExact' /\ Build!Package' = k
            /\ \A i \in todo' : pc' = "cargo" \/ i # Build!First' => Workspace[i].name \notin anew'
        BY <2>1, <2>2, <2>4, <2>8, <3>1, BuildGoesOn DEF OnPackage
      <3>3. line.meta = << >> => Build!Wasm(compiled'[k]) = Wanted(k)'
        BY <2>4 DEF Build!Wasm, Wanted
      <3>4. BuildAt'
        BY <1>p, <2>2, <2>4, <2>9, <3>1, <3>2, <3>3 DEF BuildAt, OnPackage
      <3> QED  BY <2>7, <3>2, <3>4 DEF BuildInv
    <2>11. CASE line.meta = << >> /\ ~line.out
      <3>1. Build!Advance(Build!Built)
        BY <2>4, <2>11 DEF Build!AfterCargo, Build!AfterMeta
      <3>2. Due(k)' => Build!Exact(k)'
        BY <2>4, <2>9, <2>11 DEF Build!Exact, Build!Wasm
      <3> QED  BY <2>1, <2>2, <2>4, <2>7, <2>8, <3>1, <3>2, BuildFinishes DEF BuildInv
    <2> QED  BY <2>10, <2>11
  <1>3. CASE Build!Fail \/ Build!NextCommand
    <2>1. /\ UNCHANGED <<sources, compiled, linked, deps, target, outdir, line>>
          /\ pc' \in {"failed", "idle"}
      BY <1>3 DEF Build!Fail, Build!NextCommand
    <2>2. CargoInv'
      BY <2>1 DEF BuildInv, CargoInv
    <2> QED  BY <2>1, <2>2 DEF BuildInv, BuildAt, FinishedExact, OnPackage
  <1>4. CASE Build!ReadWasm
    <2>1. /\ pc = "read" /\ pc' = "truncate" /\ bytes' = target[Build!Package]
          /\ UNCHANGED <<sources, compiled, linked, deps, target, outdir, line, todo, anew>>
      BY <1>4 DEF Build!ReadWasm
    <2>2. /\ FinishedExact' /\ Build!Package' = Build!Package
          /\ \A i \in todo' : pc' = "cargo" \/ i # Build!First' => Workspace[i].name \notin anew'
      BY <2>1, BuildGoesOn DEF OnPackage
    <2>3. CargoInv'
      BY <2>1 DEF BuildInv, CargoInv
    <2>4. Due(Build!Package)' = Due(Build!Package)
      BY <2>1, <2>2 DEF Due
    <2>5. BuildAt'
      BY <1>p, <2>1, <2>2, <2>4 DEF BuildInv, BuildAt, OnPackage
    <2> QED  BY <2>2, <2>3, <2>5 DEF BuildInv
  <1>5. ASSUME NEW wasm, Build!Overwrite(Build!Package, wasm), pc \in OnPackage,
               UNCHANGED <<sources, compiled, linked, outdir>>
        PROVE  /\ CargoInv' /\ target'[Build!Package] = wasm
               /\ \A q \in Build!Names \ {Build!Package} : target'[q] = target[q]
    <2>1. Build!Package \in Build!Names
      BY <1>p, <1>5
    <2>2. /\ target' = [target EXCEPT ![Build!Package] = wasm]
          /\ DOMAIN deps' = DOMAIN deps
          /\ \A q \in Build!Names : ~linked[q] => deps'[q] = deps[q]
      BY <1>5, <2>1 DEF Build!Overwrite, BuildInv, CargoInv
    <2> QED  BY <1>5, <2>1, <2>2 DEF BuildInv, CargoInv, Build!Wasm
  <1>6. CASE Build!TruncateWasm
    <2>1. /\ pc = "truncate" /\ pc' = "write" /\ Build!Overwrite(Build!Package, Build!Truncated)
          /\ UNCHANGED <<sources, compiled, linked, outdir, line, todo, anew, bytes>>
      BY <1>6 DEF Build!TruncateWasm
    <2>2. CargoInv' /\ \A q \in Build!Names \ {Build!Package} : target'[q] = target[q]
      BY <1>5, <2>1 DEF OnPackage
    <2>3. /\ FinishedExact' /\ Build!Package' = Build!Package
          /\ \A i \in todo' : pc' = "cargo" \/ i # Build!First' => Workspace[i].name \notin anew'
      BY <2>1, <2>2, BuildGoesOn DEF OnPackage
    <2>4. Due(Build!Package)' = Due(Build!Package)
      BY <2>1, <2>3 DEF Due
    <2>5. BuildAt'
      BY <1>p, <2>1, <2>3, <2>4 DEF BuildInv, BuildAt, OnPackage
    <2> QED  BY <2>2, <2>3, <2>5 DEF BuildInv
  <1>7. CASE Build!WriteWasm
    <2>1. PICK k : k = Build!Package
      OBVIOUS
    <2>2. /\ pc = "write" /\ UNCHANGED <<sources, compiled, linked, outdir, line, anew, bytes>>
          /\ Build!Overwrite(Build!Package, [bytes EXCEPT !.meta = @ \o line.meta])
          /\ Build!Advance(Build!AfterMeta)
      BY <1>7 DEF Build!WriteWasm
    <2>3. line \in BuildLines /\ line.meta \in Seq({"a", "b"}) /\ ~line.print
      BY <1>p, <1>m, <2>2 DEF OnPackage
    <2>4. Due(k) => [bytes EXCEPT !.meta = @ \o line.meta] = Wanted(k)
      <3> SUFFICES ASSUME Due(k)
                   PROVE  [bytes EXCEPT !.meta = @ \o line.meta] = Wanted(k)
        OBVIOUS
      <3>1. bytes = [code |-> compiled[k], meta |-> << >>]
        BY <2>1, <2>2 DEF BuildInv, BuildAt, Build!Wasm
      <3>2. << >> \o line.meta = line.meta
        BY <2>3
      <3>3. bytes.meta = << >>
        BY <3>1
      <3> QED  BY <3>1, <3>2, <3>3 DEF Wanted
    <2>5. /\ CargoInv' /\ (Due(k) => target'[k] = Wanted(k))
          /\ \A q \in Build!Names \ {k} : target'[q] = target[q]
      BY <1>5, <2>1, <2>2, <2>4 DEF OnPackage
    <2>6. Wanted(k)' = Wanted(k) /\ Due(k)' = Due(k)
      BY <2>2 DEF Wanted, Due
    <2>7. CASE line.out
      <3>1. pc' = "out" /\ todo' = todo
        BY <2>2, <2>7 DEF Build!Advance, Build!AfterMeta
      <3>2. /\ FinishedExact' /\ Build!Package' = k
            /\ \A i \in todo' : pc' = "cargo" \/ i # Build!First' => Workspace[i].name \notin anew'
        BY <2>1, <2>2, <2>5, <3>1, BuildGoesOn DEF OnPackage
      <3>3. BuildAt'
        BY <1>p, <2>2, <2>5, <2>6, <3>1, <3>2 DEF BuildAt, OnPackage
      <3> QED  BY <2>5, <3>2, <3>3 DEF BuildInv
    <2>8. CASE ~line.out
      <3>1. Build!Advance(Build!Built)
        BY <2>2, <2>8 DEF Build!AfterMeta
      <3>2. Due(k)' => Build!Exact(k)'
        BY <2>2, <2>5, <2>6, <2>8 DEF Build!Exact, Wanted
      <3> QED  BY <2>1, <2>2, <2>5, <3>1, <3>2, BuildFinishes DEF BuildInv, OnPackage
    <2> QED  BY <2>7, <2>8
  <1>8. CASE Build!CopyOut
    <2>1. PICK k : k = Build!Package
      OBVIOUS
    <2>2. /\ pc = "out" /\ UNCHANGED <<sources, compiled, linked, deps, target, line, anew, bytes>>
          /\ outdir' = [outdir EXCEPT ![k] = target[k]] /\ Build!Advance(Build!Built)
      BY <1>8, <2>1 DEF Build!CopyOut
    <2>3. k \in Build!Names
      BY <1>p, <2>1, <2>2 DEF OnPackage
    <2>4. CargoInv'
      BY <2>2, <2>3 DEF BuildInv, CargoInv
    <2>5. /\ outdir'[k] = target[k] /\ (Due(k) => target[k] = Wanted(k))
          /\ \A q \in Build!Names \ {k} : outdir'[q] = outdir[q]
      BY <2>1, <2>2, <2>3 DEF BuildInv, BuildAt, CargoInv
    <2>6. Due(k)' = Due(k)
      BY <2>2 DEF Due
    <2>7. Due(k)' => Build!Exact(k)'
      BY <2>2, <2>5, <2>6 DEF Build!Exact, Wanted
    <2> QED  BY <2>1, <2>2, <2>4, <2>5, <2>7, BuildFinishes DEF BuildInv, OnPackage
  <1>9. ASSUME UNCHANGED <<compiled, deps, linked, target, outdir, pc, line, todo, anew, bytes>>,
               sources' \in [Build!Names -> Nat \ {0}]
        PROVE  BuildInv'
    <2>1. CargoInv'
      BY <1>9 DEF BuildInv, CargoInv
    <2>2. Build!Package' = Build!Package /\ Build!First' = Build!First /\ Build!Packages(line)' = Build!Packages(line)
      BY <1>9 DEF Build!Package, Build!First, Build!Packages
    <2>3. \A k : Due(k)' = Due(k) /\ Wanted(k)' = Wanted(k) /\ Build!Exact(k)' = Build!Exact(k)
      BY <1>9 DEF Due, Wanted, Build!Exact
    <2>4. BuildAt' /\ FinishedExact'
      BY <1>9, <2>2, <2>3 DEF BuildInv, BuildAt, FinishedExact
    <2> QED  BY <2>1, <2>4 DEF BuildInv
  <1>10. ASSUME NEW k \in Build!Names, Build!Edit(k)
         PROVE  BuildInv'
    <2>1. /\ UNCHANGED <<compiled, deps, linked, target, outdir, pc, line, todo, anew, bytes>>
          /\ sources' = [sources EXCEPT ![k] = @ + 1]
      BY <1>10 DEF Build!Edit
    <2>2. sources' \in [Build!Names -> Nat \ {0}]
      BY <2>1 DEF BuildInv, CargoInv
    <2> QED  BY <1>9, <2>1, <2>2
  <1>11. CASE UNCHANGED Build!vars
    BY <1>9, <1>11 DEF Build!vars, BuildInv, CargoInv
  <1> QED  BY <1>1, <1>2, <1>3, <1>4, <1>6, <1>7, <1>8, <1>10, <1>11 DEF Build!Next

\* BuildsAreExact: for any workspace and any command lines, whether cargo links or copies its
\* files and whatever builds were broken off before, a build that succeeds leaves the wasm
\* that cargo compiled, with the meta entries of this command alone, of each package it
\* selected that it compiled anew or that cargo copied.
THEOREM BuildsAreExact == Spec => []BuildExactAnew
  <1> DEFINE Inv == part = "build" => BuildInv
  <1>1. Init => Inv
    <2>1. Build!Init => BuildInv
      BY DEF Build!Init, BuildInv, CargoInv, BuildAt, FinishedExact, OnPackage
    <2> QED  BY <2>1, PartStart
  <1>2. Inv /\ [Next]_vars => Inv'
    BY PartStep, BuildStep
  <1>3. Inv => BuildExactAnew
    <2>1. ASSUME BuildInv, NEW k \in Build!Left, linked[k] => k \in anew
          PROVE  Build!Exact(k)
      <3>1. pc = "done" /\ ~line.print /\ todo = {}
        BY <2>1 DEF Build!Left, BuildInv, BuildAt
      <3>2. PICK i \in Build!Packages(line) : k = Workspace[i].name
        BY <2>1, <3>1 DEF Build!Left
      <3> QED  BY <2>1, <3>1, <3>2 DEF BuildInv, FinishedExact, Due
    <2> QED  BY <2>1 DEF BuildExactAnew, Build!BuildExactAnew
  <1> QED  BY <1>1, <1>2, <1>3, PTL DEF Spec

-----------------------------------------------------------------------------
(* The cached specs (DataCache).                                            *)

CacheTypes ==
    /\ code \in [Contracts -> SpecCache!Executables]
    /\ DOMAIN specs = SpecCache!Keys
    /\ DOMAIN pc = Procs /\ DOMAIN op = Procs /\ DOMAIN contract = Procs /\ DOMAIN since = Procs
    /\ DOMAIN hash = Procs /\ DOMAIN entries = Procs /\ DOMAIN kind = Procs

\* A file of spec/ is of the Wasm whose hash is its name.
SpecsNamed ==
    \A k \in SpecCache!Keys : specs[k] # SpecCache!Absent => specs[k].of = k

\* What a process knows between reading the contract's instance and using its spec.
SpecAt(p) ==
    /\ pc[p] # "idle" =>
         hash[p] \in Hashes /\ contract[p] \in Contracts /\ kind[p] \in {"simulate", "send"}
    /\ pc[p] = "instance" => code[contract[p]] \in since[p] /\ op[p] # "infoHash"
    /\ pc[p] = "cached" => hash[p] \in since[p]
    /\ pc[p] = "fetch" => op[p] = "infoHash" \/ hash[p] \in since[p]
    /\ pc[p] \in {"truncate", "write"} /\ op[p] = "invoke" =>
         hash[p] \in since[p] /\ entries[p].of = hash[p]
    /\ pc[p] = "use" /\ op[p] # "infoHash" => entries[p].of \in since[p]

SpecsInv == CacheTypes /\ SpecsNamed /\ \A p \in Procs : SpecAt(p)

\* What the processes other than p have of their own.
CacheOthers(p) ==
    \A q \in Procs \ {p} :
        /\ pc'[q] = pc[q] /\ op'[q] = op[q] /\ contract'[q] = contract[q] /\ since'[q] = since[q]
        /\ hash'[q] = hash[q] /\ entries'[q] = entries[q] /\ kind'[q] = kind[q]

LEMMA SpecsLocal ==
    ASSUME SpecsInv, NEW p \in Procs, code' = code, CacheTypes', CacheOthers(p), SpecsNamed',
           SpecAt(p)'
    PROVE  SpecsInv'
  <1>1. ASSUME NEW q \in Procs, q # p
        PROVE  SpecAt(q)'
    <2>1. SpecAt(q)
      BY DEF SpecsInv
    <2>2. /\ pc'[q] = pc[q] /\ op'[q] = op[q] /\ contract'[q] = contract[q] /\ since'[q] = since[q]
          /\ hash'[q] = hash[q] /\ entries'[q] = entries[q] /\ kind'[q] = kind[q]
      BY <1>1 DEF CacheOthers
    <2> QED  BY <2>1, <2>2 DEF SpecAt
  <1> QED  BY <1>1 DEF SpecsInv

LEMMA SpecsStep ==
    ASSUME SpecsInv, [SpecCache!Next]_(SpecCache!vars)
    PROVE  SpecsInv'
  <1> USE DEF SpecCache!At, SpecCache!Goto, SpecCache!Network, SpecCache!Command, SpecCache!Log,
              SpecCache!Listing, SpecCache!SpecUse, SpecCache!File
  <1>t. CacheTypes /\ SpecsNamed /\ \A p \in Procs : SpecAt(p)
    BY DEF SpecsInv
  <1>s. specs' = specs => SpecsNamed'
    BY <1>t DEF SpecsNamed
  <1>1. ASSUME NEW p \in Procs, SpecCache!Start(p)
        PROVE  SpecsInv'
    <2>1. PICK o \in SpecOps, c \in Contracts, h \in Hashes :
            /\ op' = [op EXCEPT ![p] = o] /\ contract' = [contract EXCEPT ![p] = c]
            /\ hash' = [hash EXCEPT ![p] = h] /\ since' = [since EXCEPT ![p] = {code[c]}]
            /\ pc' = [pc EXCEPT ![p] =
                        CASE o \in {"invoke", "invokeNoCache", "info"} -> "instance"
                          [] o = "infoHash" -> "fetch"
                          [] o = "upload" -> "log"
                          [] o \in {"ls", "clean"} -> "list"]
      BY <1>1 DEF SpecCache!Start
    <2>2. /\ kind' = [kind EXCEPT ![p] = "send"] /\ UNCHANGED <<code, specs>>
          /\ entries' = [entries EXCEPT ![p] = SpecCache!Absent]
      BY <1>1 DEF SpecCache!Start
    <2>3. CacheTypes' /\ CacheOthers(p)
      BY <1>t, <2>1, <2>2 DEF CacheTypes, CacheOthers
    <2>4. /\ op'[p] = o /\ contract'[p] = c /\ hash'[p] = h /\ since'[p] = {code[c]}
          /\ kind'[p] = "send"
      BY <1>t, <2>1, <2>2 DEF CacheTypes
    <2>5. o \in {"invoke", "invokeNoCache", "info", "infoHash", "upload", "ls", "clean"}
      BY CacheAssumption DEF SpecCache!OpsAssumption
    <2>6. \/ pc'[p] = "instance" /\ o # "infoHash"
          \/ pc'[p] = "fetch" /\ o = "infoHash"
          \/ pc'[p] \in {"log", "list"}
      BY <1>t, <2>1, <2>5 DEF CacheTypes
    <2>7. SpecAt(p)'
      BY <2>2, <2>4, <2>6 DEF SpecAt
    <2> QED  BY <1>s, <2>2, <2>3, <2>7, SpecsLocal
  <1>2. ASSUME NEW p \in Procs, SpecCache!Instance(p)
        PROVE  SpecsInv'
    <2>1. /\ pc[p] = "instance" /\ UNCHANGED <<code, since, specs, op, contract, kind>>
      BY <1>2 DEF SpecCache!Instance
    <2>2. /\ contract[p] \in Contracts /\ code[contract[p]] \in since[p] /\ op[p] # "infoHash"
          /\ hash[p] \in Hashes /\ kind[p] \in {"simulate", "send"}
      BY <1>t, <2>1 DEF SpecAt
    <2>3. code[contract[p]] \in Hashes \cup {SpecCache!Asset}
      BY <1>t, <2>2 DEF CacheTypes, SpecCache!Executables
    <2>4. CacheTypes' /\ CacheOthers(p)
      BY <1>t, <1>2 DEF SpecCache!Instance, CacheTypes, CacheOthers
    <2>5. \/ pc'[p] = "use" /\ entries'[p].of = code[contract[p]] /\ hash'[p] = hash[p]
          \/ pc'[p] \in {"fetch", "cached"} /\ hash'[p] = code[contract[p]] /\ hash'[p] \in Hashes
      BY <1>t, <1>2, <2>3 DEF SpecCache!Instance, CacheTypes, SpecCache!Spec
    <2>6. SpecAt(p)'
      BY <2>1, <2>2, <2>5 DEF SpecAt
    <2> QED  BY <1>s, <2>1, <2>4, <2>6, SpecsLocal
  <1>3. ASSUME NEW p \in Procs, SpecCache!ReadSpec(p)
        PROVE  SpecsInv'
    <2>1. pc[p] = "cached" /\ UNCHANGED <<code, since, specs, op, contract, kind, hash>>
      BY <1>3 DEF SpecCache!ReadSpec
    <2>2. SpecAt(p) /\ hash[p] \in since[p] /\ hash[p] \in SpecCache!Keys
      BY <1>t, <2>1 DEF SpecAt, SpecCache!Keys
    <2>3. \/ pc'[p] = "fetch"
          \/ pc'[p] = "use" /\ entries'[p] = specs[hash[p]] /\ specs[hash[p]] # SpecCache!Absent
      BY <1>t, <1>3 DEF SpecCache!ReadSpec, CacheTypes
    <2>4. CacheTypes' /\ CacheOthers(p)
      BY <1>t, <1>3 DEF SpecCache!ReadSpec, CacheTypes, CacheOthers
    <2>5. SpecAt(p)'
      BY <1>t, <2>1, <2>2, <2>3 DEF SpecAt, SpecsNamed
    <2> QED  BY <1>s, <2>1, <2>4, <2>5, SpecsLocal
  <1>4. ASSUME NEW p \in Procs, SpecCache!FetchWasm(p)
        PROVE  SpecsInv'
    <2>1. pc[p] = "fetch" /\ UNCHANGED <<code, since, specs, op, contract, kind, hash>>
      BY <1>4 DEF SpecCache!FetchWasm
    <2>2. SpecAt(p) /\ (op[p] # "infoHash" => hash[p] \in since[p])
      BY <1>t, <2>1 DEF SpecAt
    <2>3. \/ pc'[p] = "failed"
          \/ pc'[p] \in {"truncate", "use"} /\ entries'[p].of = hash[p]
      BY <1>t, <1>4 DEF SpecCache!FetchWasm, CacheTypes, SpecCache!Spec
    <2>4. CacheTypes' /\ CacheOthers(p)
      BY <1>t, <1>4 DEF SpecCache!FetchWasm, CacheTypes, CacheOthers
    <2>5. SpecAt(p)'
      BY <2>1, <2>2, <2>3 DEF SpecAt
    <2> QED  BY <1>s, <2>1, <2>4, <2>5, SpecsLocal
  <1>5. ASSUME NEW p \in Procs, SpecCache!WriteSpec(p)
        PROVE  SpecsInv'
    <2>1. /\ pc[p] = "truncate" /\ UNCHANGED <<code, since, op, contract, kind, hash, entries>>
      BY <1>5 DEF SpecCache!WriteSpec
    <2>2. SpecAt(p) /\ pc'[p] \in {"write", "failed"}
      BY <1>t, <1>5 DEF SpecCache!WriteSpec, CacheTypes
    <2>3. specs' = specs \/ specs' = [specs EXCEPT ![hash[p]] = SpecCache!Spec(hash[p], 0)]
      BY <1>5 DEF SpecCache!WriteSpec
    <2>4. SpecsNamed' /\ CacheTypes' /\ CacheOthers(p)
      <3>1. SpecsNamed'
        BY <1>t, <2>3 DEF SpecsNamed, CacheTypes, SpecCache!Spec
      <3>2. CacheTypes' /\ CacheOthers(p)
        BY <1>t, <1>5, <2>3 DEF SpecCache!WriteSpec, CacheTypes, CacheOthers
      <3> QED  BY <3>1, <3>2
    <2>5. SpecAt(p)'
      BY <2>1, <2>2 DEF SpecAt
    <2> QED  BY <2>1, <2>4, <2>5, SpecsLocal
  <1>6. ASSUME NEW p \in Procs, SpecCache!FinishSpec(p)
        PROVE  SpecsInv'
    <2>1. pc[p] = "write" /\ UNCHANGED <<code, since, op, contract, kind, hash, entries>>
      BY <1>6 DEF SpecCache!FinishSpec
    <2>2. /\ SpecAt(p)
          /\ \/ pc'[p] \in {"done", "failed"}
             \/ pc'[p] = "use" /\ op[p] = "invoke"
      BY <1>t, <1>6 DEF SpecCache!FinishSpec, CacheTypes
    <2>3. PICK n : specs' = specs \/ specs' = [specs EXCEPT ![hash[p]] = SpecCache!Spec(hash[p], n)]
      BY <1>6 DEF SpecCache!FinishSpec
    <2>4. SpecsNamed'
      BY <1>t, <2>3 DEF SpecsNamed, CacheTypes, SpecCache!Spec
    <2>5. CacheTypes' /\ CacheOthers(p)
      BY <1>t, <1>6, <2>3 DEF SpecCache!FinishSpec, CacheTypes, CacheOthers
    <2>6. SpecAt(p)'
      BY <2>1, <2>2 DEF SpecAt
    <2> QED  BY <2>1, <2>4, <2>5, <2>6, SpecsLocal
  <1>7. ASSUME NEW p \in Procs, SpecCache!UseSpec(p) \/ SpecCache!WriteAction(p) \/ SpecCache!SendAction(p)
               \/ SpecCache!Ls(p) \/ SpecCache!ReadAction(p) \/ SpecCache!Kill(p)
        PROVE  SpecsInv'
    <2>1. /\ UNCHANGED <<code, since, specs, op, contract, hash, entries>>
          /\ pc[p] # "idle" /\ kind'[p] \in {kind[p], "simulate", "send"}
          /\ pc'[p] \in {"log", "logged", "done", "failed", "read"}
          /\ CacheTypes' /\ CacheOthers(p)
      <3>1. CASE SpecCache!UseSpec(p) \/ SpecCache!WriteAction(p) \/ SpecCache!SendAction(p)
        BY <1>t, <3>1 DEF CacheTypes, CacheOthers, SpecCache!UseSpec, SpecCache!WriteAction,
                          SpecCache!SendAction
      <3>2. CASE SpecCache!Ls(p) \/ SpecCache!ReadAction(p) \/ SpecCache!Kill(p)
        BY <1>t, <3>2 DEF CacheTypes, CacheOthers, SpecCache!Ls, SpecCache!ReadAction, SpecCache!Kill
      <3> QED  BY <1>7, <3>1, <3>2
    <2>2. SpecAt(p)'
      BY <1>t, <2>1 DEF SpecAt
    <2> QED  BY <1>s, <2>1, <2>2, SpecsLocal
  <1>8. ASSUME NEW p \in Procs, SpecCache!FinishAction(p)
        PROVE  SpecsInv'
    <2>1. /\ pc[p] = "logged" /\ UNCHANGED <<code, since, specs, op, contract, hash, entries, kind>>
          /\ pc' = [pc EXCEPT ![p] = CASE kind[p] = "simulate" -> "send"
                                     [] kind[p] = "send" /\ op[p] = "upload" -> "truncate"
                                     [] kind[p] = "send" /\ op[p] # "upload" -> "done"]
      BY <1>8 DEF SpecCache!FinishAction
    <2>2. SpecAt(p) /\ kind[p] \in {"simulate", "send"}
      BY <1>t, <2>1 DEF SpecAt
    <2>3. \/ pc'[p] \in {"send", "done"}
          \/ pc'[p] = "truncate" /\ op[p] = "upload"
      BY <1>t, <2>1, <2>2 DEF CacheTypes
    <2>4. CacheTypes' /\ CacheOthers(p)
      BY <1>t, <2>1 DEF CacheTypes, CacheOthers
    <2>5. SpecAt(p)'
      BY <2>1, <2>2, <2>3 DEF SpecAt
    <2> QED  BY <1>s, <2>1, <2>4, <2>5, SpecsLocal
  <1>9. ASSUME NEW p \in Procs,
               SpecCache!CleanSpec(p) \/ SpecCache!CleanAction(p) \/ SpecCache!CleanEnds(p)
        PROVE  SpecsInv'
    <2>1. /\ pc[p] = "list" /\ UNCHANGED <<code, since, op, contract, hash, entries, kind>>
          /\ pc' = pc \/ pc' = [pc EXCEPT ![p] = "failed"] \/ pc' = [pc EXCEPT ![p] = "done"]
          /\ specs' = specs \/ \E k \in SpecCache!Keys : specs' = [specs EXCEPT ![k] = SpecCache!Absent]
      BY <1>9 DEF SpecCache!CleanSpec, SpecCache!CleanAction, SpecCache!CleanEnds
    <2>2. CacheTypes' /\ CacheOthers(p)
      BY <1>t, <2>1 DEF CacheTypes, CacheOthers
    <2>3. SpecsNamed'
      BY <1>t, <2>1 DEF CacheTypes, SpecsNamed
    <2>4. pc'[p] \in {"list", "failed", "done"}
      BY <1>t, <2>1 DEF CacheTypes
    <2>5. SpecAt(p)'
      BY <1>t, <2>1, <2>4 DEF SpecAt
    <2> QED  BY <2>1, <2>2, <2>3, <2>5, SpecsLocal
  <1>10. CASE SpecCache!Upgrade
    <2>1. PICK c \in Contracts, h \in Hashes :
            /\ code' = [code EXCEPT ![c] = h]
            /\ since' = [p \in Procs |-> IF contract[p] = c THEN since[p] \cup {h} ELSE since[p]]
      BY <1>10 DEF SpecCache!Upgrade
    <2>2. UNCHANGED <<specs, pc, op, contract, hash, entries, kind>>
      BY <1>10 DEF SpecCache!Upgrade
    <2>3. CacheTypes'
      BY <1>t, <2>1, <2>2 DEF CacheTypes, SpecCache!Executables
    <2>4. ASSUME NEW p \in Procs
          PROVE  SpecAt(p)'
      <3>1. since[p] \subseteq since'[p] /\ SpecAt(p)
        BY <1>t, <2>1
      <3>2. pc[p] = "instance" => code'[contract[p]] \in since'[p]
        <4>1. CASE contract[p] = c
          BY <1>t, <2>1, <4>1 DEF CacheTypes
        <4>2. CASE contract[p] # c
          BY <1>t, <2>1, <3>1, <4>2 DEF CacheTypes, SpecAt
        <4> QED  BY <4>1, <4>2
      <3> QED  BY <2>2, <3>1, <3>2 DEF SpecAt
    <2> QED  BY <1>s, <2>2, <2>3, <2>4 DEF SpecsInv
  <1>11. CASE SpecCache!Tick \/ UNCHANGED SpecCache!vars
    <2>1. UNCHANGED <<code, since, specs, pc, op, contract, hash, entries, kind>>
      BY <1>11 DEF SpecCache!Tick, SpecCache!vars
    <2> QED  BY <1>t, <2>1 DEF SpecsInv, CacheTypes, SpecsNamed, SpecAt
  <1> QED  BY <1>1, <1>2, <1>3, <1>4, <1>5, <1>6, <1>7, <1>8, <1>9, <1>10, <1>11
           DEF SpecCache!Next, SpecCache!Step

\* UsesTheSpecOfTheContract: with any number of processes that fill, read, clean and tear the
\* cache while contracts are upgraded, the spec that a command uses is of a Wasm that its
\* contract has run since the command started.
THEOREM UsesTheSpecOfTheContract == Spec => []SpecOfContract
  <1> DEFINE Inv == part = "specs" => SpecsInv
  <1>1. Init => Inv
    <2>1. SpecCache!Init => SpecsInv
      BY DEF SpecCache!Init, SpecsInv, CacheTypes, SpecsNamed, SpecAt
    <2> QED  BY <2>1, PartStart
  <1>2. Inv /\ [Next]_vars => Inv'
    BY PartStep, SpecsStep
  <1>3. Inv => SpecOfContract
    BY DEF SpecsInv, SpecAt, SpecOfContract, SpecCache!SpecOfContract, SpecCache!At
  <1> QED  BY <1>1, <1>2, <1>3, PTL DEF Spec

-----------------------------------------------------------------------------
(* The action log (DataCache).                                              *)

\* Names sort by the millisecond first, and no name sorts before itself.
LEMMA UlidsSort ==
    ASSUME NEW u \in ActionLog!Ulids, NEW v \in ActionLog!Ulids, ActionLog!Before(u, v)
    PROVE  u # v /\ u[1] <= v[1]
  <1>1. u[1] \in Int /\ u[2] \in Int /\ v[1] \in Int /\ v[2] \in Int
    BY DEF ActionLog!Ulids
  <1> QED  BY <1>1 DEF ActionLog!Before

LogTypes ==
    /\ made \in Seq(ActionLog!Ulids) /\ clock \in 1 .. MaxClock
    /\ DOMAIN pc = Procs /\ DOMAIN op = Procs /\ DOMAIN id = Procs
    /\ DOMAIN kind = Procs /\ DOMAIN before = Procs /\ DOMAIN rest = Procs /\ DOMAIN listed = Procs

\* No id is made twice; a file has the number of the action it was made for, or nothing, and
\* the complete ones have theirs.
FilesInv ==
    /\ \A m, n \in DOMAIN made : made[m] = made[n] => m = n
    /\ DOMAIN actions = ActionLog!Ulids
    /\ \A u \in ActionLog!Ulids :
         actions[u] \in {ActionLog!Missing, ActionLog!Empty} \cup {n \in DOMAIN made : made[n] = u}
    /\ complete \subseteq {n \in DOMAIN made : actions[made[n]] = n}

\* The listing of p: what it has read is in order and sorts after what it has still to read.
ListingInOrder(p) ==
    /\ rest[p] \subseteq ActionLog!Ulids /\ listed[p] \in Seq(DOMAIN made)
    /\ \A i, j \in DOMAIN listed[p] : i < j => ActionLog!Before(made[listed[p][j]], made[listed[p][i]])
    /\ \A i \in DOMAIN listed[p] : \A r \in rest[p] : ActionLog!Before(r, made[listed[p][i]])

LogAt(p) ==
    /\ pc[p] # "idle" => kind[p] \in {"simulate", "send"}
    /\ pc[p] \notin {"idle", "list", "read", "done", "failed"} => op[p] # "ls"
    /\ pc[p] = "logged" => id[p] \in DOMAIN made
    /\ pc[p] = "list" => rest[p] = {} /\ listed[p] = << >>
    /\ pc[p] = "read" =>
         /\ ListingInOrder(p)
         /\ \A n \in before[p] : n \in ActionLog!Range(listed[p]) \/ made[n] \in rest[p]
    /\ pc[p] = "done" /\ op[p] = "ls" =>
         ListingInOrder(p) /\ before[p] \subseteq ActionLog!Range(listed[p])
    /\ before[p] \subseteq complete

LogInv == LogTypes /\ FilesInv /\ \A p \in Procs : LogAt(p)

\* Ids are only added.
MadeKept == DOMAIN made \subseteq DOMAIN made' /\ \A n \in DOMAIN made : made'[n] = made[n]

\* What the processes other than p have of their own; what they look for may be cleaned.
LogOthers(p) ==
    \A q \in Procs \ {p} :
        /\ pc'[q] = pc[q] /\ op'[q] = op[q] /\ id'[q] = id[q] /\ kind'[q] = kind[q]
        /\ rest'[q] = rest[q] /\ listed'[q] = listed[q] /\ before'[q] \subseteq before[q]

\* A listing stays in order when ids are added.
LEMMA ListingKept ==
    ASSUME LogTypes, LogTypes', MadeKept, NEW q, ListingInOrder(q), rest'[q] = rest[q],
           listed'[q] = listed[q]
    PROVE  ListingInOrder(q)'
  <1>1. /\ listed[q] \in Seq(DOMAIN made) /\ rest[q] \subseteq ActionLog!Ulids
        /\ \A i, j \in DOMAIN listed[q] :
             i < j => ActionLog!Before(made[listed[q][j]], made[listed[q][i]])
        /\ \A i \in DOMAIN listed[q] : \A r \in rest[q] : ActionLog!Before(r, made[listed[q][i]])
    BY DEF ListingInOrder
  <1>2. \A i \in DOMAIN listed[q] : listed[q][i] \in DOMAIN made
    BY <1>1, ElementOfSeq, LenProperties
  <1>3. \A i \in DOMAIN listed[q] : made'[listed[q][i]] = made[listed[q][i]] /\ listed[q][i] \in DOMAIN made'
    BY <1>2 DEF MadeKept
  <1>4. listed[q] \in Seq(DOMAIN made')
    BY <1>1 DEF MadeKept
  <1>5. /\ \A i, j \in DOMAIN listed[q] :
             i < j => ActionLog!Before(made'[listed[q][j]], made'[listed[q][i]])
        /\ \A i \in DOMAIN listed[q] : \A r \in rest[q] : ActionLog!Before(r, made'[listed[q][i]])
    BY <1>1, <1>3, Zenon
  <1>6. /\ rest'[q] \subseteq ActionLog!Ulids /\ listed'[q] \in Seq(DOMAIN made')
        /\ \A i, j \in DOMAIN listed'[q] :
             i < j => ActionLog!Before(made'[listed'[q][j]], made'[listed'[q][i]])
        /\ \A i \in DOMAIN listed'[q] : \A r \in rest'[q] : ActionLog!Before(r, made'[listed'[q][i]])
    BY <1>1, <1>4, <1>5, Zenon
  <1> QED  BY <1>6 DEF ListingInOrder, ActionLog!Before, ActionLog!Ulids

LEMMA LogLocal ==
    ASSUME LogInv, NEW p \in Procs, LogTypes', FilesInv', MadeKept, LogOthers(p), LogAt(p)',
           complete \subseteq complete' \/ \A q \in Procs : before'[q] \subseteq complete'
    PROVE  LogInv'
  <1>1. ASSUME NEW q \in Procs, q # p
        PROVE  LogAt(q)'
    <2>1. LogAt(q) /\ LogTypes /\ FilesInv
      BY DEF LogInv
    <2>2. /\ pc'[q] = pc[q] /\ op'[q] = op[q] /\ id'[q] = id[q] /\ kind'[q] = kind[q]
          /\ rest'[q] = rest[q] /\ listed'[q] = listed[q]
          /\ before'[q] \subseteq before[q]
      BY <1>1 DEF LogOthers
    <2>3. before'[q] \subseteq complete' /\ before[q] \subseteq DOMAIN made
      BY <2>1, <2>2 DEF LogAt, FilesInv
    <2>4. ListingInOrder(q) => ListingInOrder(q)'
      BY <2>1, <2>2, ListingKept
    <2>5. pc[q] = "logged" => id'[q] \in DOMAIN made'
      BY <2>1, <2>2 DEF LogAt, MadeKept
    <2>6. \A n \in before'[q] : made'[n] = made[n]
      BY <2>2, <2>3 DEF MadeKept
    <2> QED  BY <2>1, <2>2, <2>3, <2>4, <2>5, <2>6 DEF LogAt
  <1> QED  BY <1>1 DEF LogInv

\* The next action is put at the end of the listing.
LEMMA ListingGrows ==
    ASSUME NEW D, NEW f, NEW s \in Seq(D), NEW R, NEW m \in D,
           \A r \in R \ {f[m]} : ActionLog!Before(r, f[m]),
           \A i, j \in DOMAIN s : i < j => ActionLog!Before(f[s[j]], f[s[i]]),
           \A i \in DOMAIN s : \A r \in R : ActionLog!Before(r, f[s[i]]),
           f[m] \in R
    PROVE  /\ Append(s, m) \in Seq(D)
           /\ \A i, j \in DOMAIN Append(s, m) :
                i < j => ActionLog!Before(f[Append(s, m)[j]], f[Append(s, m)[i]])
           /\ \A i \in DOMAIN Append(s, m) :
                \A r \in R \ {f[m]} : ActionLog!Before(r, f[Append(s, m)[i]])
           /\ ActionLog!Range(Append(s, m)) = ActionLog!Range(s) \cup {m}
  <1>1. PICK t : t = Append(s, m)
    OBVIOUS
  <1>2. PICK n \in Nat : n = Len(s) /\ DOMAIN s = 1 .. n
    BY LenProperties
  <1>3. t \in Seq(D) /\ DOMAIN t = 1 .. n + 1 /\ t[n + 1] = m /\ \A i \in 1 .. n : t[i] = s[i]
    BY <1>1, <1>2, AppendProperties, LenProperties
  <1>4. \A i \in 1 .. n + 1 : i \in 1 .. n \/ i = n + 1
    OBVIOUS
  <1>6. ASSUME NEW i \in 1 .. n + 1, NEW j \in 1 .. n + 1, i < j
        PROVE  ActionLog!Before(f[t[j]], f[t[i]])
    <2>1. i \in 1 .. n
      BY <1>6
    <2>2. CASE j \in 1 .. n
      BY <1>2, <1>3, <1>6, <2>1, <2>2
    <2>3. CASE j = n + 1
      BY <1>2, <1>3, <2>1, <2>3
    <2> QED  BY <1>4, <2>2, <2>3
  <1>7. ASSUME NEW i \in 1 .. n + 1, NEW r \in R \ {f[m]}
        PROVE  ActionLog!Before(r, f[t[i]])
    <2>1. CASE i \in 1 .. n
      BY <1>2, <1>3, <2>1
    <2>2. CASE i = n + 1
      BY <1>3, <2>2
    <2> QED  BY <1>4, <2>1, <2>2
  <1>8. ActionLog!Range(t) = ActionLog!Range(s) \cup {m}
    <2>1. \A i \in 1 .. n : i \in 1 .. n + 1
      OBVIOUS
    <2>2. n + 1 \in 1 .. n + 1
      OBVIOUS
    <2> QED  BY <1>2, <1>3, <1>4, <2>1, <2>2 DEF ActionLog!Range
  <1> QED  BY <1>1, <1>3, <1>6, <1>7, <1>8

LEMMA LogStep ==
    ASSUME LogInv, [ActionLog!Next]_(ActionLog!vars)
    PROVE  LogInv'
  <1> USE DEF ActionLog!At, ActionLog!Goto, ActionLog!Network, ActionLog!Command, ActionLog!Log,
              ActionLog!Listing, ActionLog!SpecUse
  <1>t. LogTypes /\ FilesInv /\ \A p \in Procs : LogAt(p)
    BY DEF LogInv
  <1>f. UNCHANGED <<actions, complete, made>> => FilesInv' /\ MadeKept
    BY <1>t DEF FilesInv, MadeKept
  <1>1. ASSUME NEW p \in Procs, ActionLog!Start(p)
        PROVE  LogInv'
    <2>1. PICK o \in LogOps :
            /\ op' = [op EXCEPT ![p] = o]
            /\ pc' = [pc EXCEPT ![p] =
                        CASE o \in {"invoke", "invokeNoCache", "info"} -> "instance"
                          [] o = "infoHash" -> "fetch"
                          [] o = "upload" -> "log"
                          [] o \in {"ls", "clean"} -> "list"]
      BY <1>1 DEF ActionLog!Start
    <2>2. /\ kind' = [kind EXCEPT ![p] = "send"] /\ before' = [before EXCEPT ![p] = complete]
          /\ listed' = [listed EXCEPT ![p] = << >>] /\ id' = [id EXCEPT ![p] = ActionLog!Missing]
          /\ rest' = [rest EXCEPT ![p] = {}] /\ UNCHANGED <<actions, complete, clock, made>>
      BY <1>1 DEF ActionLog!Start
    <2>3. o \in {"invoke", "invokeNoCache", "info", "infoHash", "upload", "ls", "clean"}
      BY CacheAssumption DEF ActionLog!OpsAssumption
    <2>4. LogTypes' /\ LogOthers(p)
      BY <1>t, <2>1, <2>2 DEF LogTypes, LogOthers
    <2>5. /\ op'[p] = o /\ kind'[p] = "send" /\ before'[p] = complete /\ listed'[p] = << >>
          /\ rest'[p] = {}
          /\ \/ pc'[p] \in {"instance", "fetch", "log"} /\ o # "ls"
             \/ pc'[p] = "list"
      BY <1>t, <2>1, <2>2, <2>3 DEF LogTypes
    <2>6. LogAt(p)'
      BY <2>2, <2>5 DEF LogAt
    <2> QED  BY <1>f, <2>2, <2>4, <2>6, LogLocal
  <1>2. ASSUME NEW p \in Procs, UNCHANGED <<actions, complete, made, op, id, before, rest, listed>>,
               LogTypes', LogOthers(p), kind'[p] \in {kind[p], "simulate", "send"}, pc[p] # "idle",
               \/ pc'[p] = "failed"
               \/ /\ op[p] # "ls"
                  /\ pc'[p] \in {"use", "fetch", "cached", "truncate", "write", "log", "send", "done"}
        PROVE  LogInv'
    <2>1. LogAt(p)'
      BY <1>t, <1>2 DEF LogAt
    <2> QED  BY <1>f, <1>2, <2>1, LogLocal
  <1>3. ASSUME NEW p \in Procs, ActionLog!Instance(p) \/ ActionLog!ReadSpec(p) \/ ActionLog!FetchWasm(p)
        PROVE  LogInv'
    <2>1. op[p] # "ls"
      BY <1>t, <1>3 DEF LogAt, ActionLog!Instance, ActionLog!ReadSpec, ActionLog!FetchWasm
    <2>2. LogTypes' /\ LogOthers(p)
      BY <1>t, <1>3 DEF LogTypes, LogOthers, ActionLog!Instance, ActionLog!ReadSpec, ActionLog!FetchWasm
    <2> QED  BY <1>t, <1>2, <1>3, <2>1, <2>2
             DEF LogTypes, ActionLog!Instance, ActionLog!ReadSpec, ActionLog!FetchWasm
  <1>4. ASSUME NEW p \in Procs, ActionLog!WriteSpec(p) \/ ActionLog!FinishSpec(p) \/ ActionLog!UseSpec(p)
        PROVE  LogInv'
    <2>1. op[p] # "ls"
      BY <1>t, <1>4 DEF LogAt, ActionLog!WriteSpec, ActionLog!FinishSpec, ActionLog!UseSpec
    <2>2. LogTypes' /\ LogOthers(p)
      BY <1>t, <1>4 DEF LogTypes, LogOthers, ActionLog!WriteSpec, ActionLog!FinishSpec, ActionLog!UseSpec
    <2> QED  BY <1>t, <1>2, <1>4, <2>1, <2>2
             DEF LogTypes, ActionLog!WriteSpec, ActionLog!FinishSpec, ActionLog!UseSpec
  <1>5. ASSUME NEW p \in Procs, ActionLog!WriteAction(p)
        PROVE  LogInv'
    <2>1. PICK u \in ActionLog!NewIds :
            made' = Append(made, u) /\ actions' = [actions EXCEPT ![u] = ActionLog!Empty]
      BY <1>5 DEF ActionLog!WriteAction
    <2>2. /\ pc[p] = "log" /\ pc' = [pc EXCEPT ![p] = "logged"]
          /\ id' = [id EXCEPT ![p] = Len(made) + 1]
          /\ UNCHANGED <<complete, clock, kind, op, before, rest, listed>>
      BY <1>5 DEF ActionLog!WriteAction
    <2>3. u \in ActionLog!Ulids /\ u \notin ActionLog!Range(made)
      BY <1>t DEF LogTypes, ActionLog!NewIds, ActionLog!Ulids
    <2>4. PICK n \in Nat : n = Len(made) /\ DOMAIN made = 1 .. n
      BY <1>t, LenProperties DEF LogTypes
    <2>5. /\ made' \in Seq(ActionLog!Ulids) /\ DOMAIN made' = 1 .. n + 1 /\ made'[n + 1] = u
          /\ \A m \in 1 .. n : made'[m] = made[m]
      BY <1>t, <2>1, <2>3, <2>4, AppendProperties, LenProperties DEF LogTypes
    <2>6. MadeKept /\ \A m \in DOMAIN made : made[m] # u
      <3>1. \A m \in 1 .. n : m \in 1 .. n + 1
        OBVIOUS
      <3> QED  BY <2>3, <2>4, <2>5, <3>1 DEF MadeKept, ActionLog!Range
    <2>7. LogTypes' /\ LogOthers(p) /\ pc'[p] = "logged" /\ id'[p] = n + 1
      BY <1>t, <2>2, <2>4, <2>5 DEF LogTypes, LogOthers
    <2>8. FilesInv'
      <3>1. \A m \in 1 .. n + 1 : m \in 1 .. n \/ m = n + 1
        OBVIOUS
      <3>2. \A l, m \in DOMAIN made' : made'[l] = made'[m] => l = m
        BY <1>t, <2>4, <2>5, <2>6, <3>1 DEF FilesInv
      <3>3. DOMAIN actions' = ActionLog!Ulids /\ actions'[u] = ActionLog!Empty
        BY <1>t, <2>1, <2>3 DEF FilesInv
      <3>4. \A v \in ActionLog!Ulids \ {u} : actions'[v] = actions[v]
        BY <1>t, <2>1 DEF FilesInv
      <3>5. ASSUME NEW v \in ActionLog!Ulids
            PROVE  actions'[v] \in {ActionLog!Missing, ActionLog!Empty}
                                   \cup {m \in DOMAIN made' : made'[m] = v}
        BY <1>t, <2>6, <3>3, <3>4 DEF FilesInv, MadeKept
      <3>6. ASSUME NEW m \in complete'
            PROVE  m \in DOMAIN made' /\ actions'[made'[m]] = m
        <4>1. m \in DOMAIN made /\ actions[made[m]] = m
          BY <1>t, <2>2, <3>6 DEF FilesInv
        <4>2. made[m] \in ActionLog!Ulids \ {u} /\ made'[m] = made[m] /\ m \in DOMAIN made'
          BY <1>t, <2>6, <4>1, ElementOfSeq, LenProperties DEF LogTypes, MadeKept
        <4> QED  BY <3>4, <4>1, <4>2
      <3> QED  BY <3>2, <3>3, <3>5, <3>6 DEF FilesInv
    <2>9. n + 1 \in DOMAIN made'
      BY <2>5
    <2>10. LogAt(p)'
      BY <1>t, <2>2, <2>7, <2>9 DEF LogAt
    <2> QED  BY <2>2, <2>6, <2>7, <2>8, <2>10, LogLocal
  <1>6. ASSUME NEW p \in Procs, ActionLog!FinishAction(p)
        PROVE  LogInv'
    <2>1. /\ pc[p] = "logged" /\ UNCHANGED <<clock, made, kind, id, op, before, rest, listed>>
          /\ pc' = [pc EXCEPT ![p] = CASE kind[p] = "simulate" -> "send"
                                     [] kind[p] = "send" /\ op[p] = "upload" -> "truncate"
                                     [] kind[p] = "send" /\ op[p] # "upload" -> "done"]
          /\ \/ UNCHANGED <<actions, complete>>
             \/ /\ actions' = [actions EXCEPT ![made[id[p]]] = id[p]]
                /\ complete' = complete \cup {id[p]}
      BY <1>6 DEF ActionLog!FinishAction
    <2>2. /\ LogAt(p) /\ id[p] \in DOMAIN made /\ op[p] # "ls" /\ kind[p] \in {"simulate", "send"}
      BY <1>t, <2>1 DEF LogAt
    <2>3. FilesInv' /\ MadeKept
      <3>1. \A n \in DOMAIN made : made[n] \in ActionLog!Ulids
        BY <1>t, ElementOfSeq, LenProperties DEF LogTypes
      <3> QED  BY <1>f, <1>t, <2>1, <2>2, <3>1 DEF FilesInv, MadeKept
    <2>4. LogTypes' /\ LogOthers(p) /\ pc'[p] \in {"send", "truncate", "done"}
      BY <1>t, <2>1, <2>2 DEF LogTypes, LogOthers
    <2>5. complete \subseteq complete'
      BY <2>1
    <2>6. LogAt(p)'
      BY <2>1, <2>2, <2>4, <2>5 DEF LogAt
    <2> QED  BY <2>3, <2>4, <2>5, <2>6, LogLocal
  <1>7. ASSUME NEW p \in Procs, ActionLog!SendAction(p) \/ ActionLog!Kill(p)
        PROVE  LogInv'
    <2>1. LogTypes' /\ LogOthers(p)
      BY <1>t, <1>7 DEF LogTypes, LogOthers, ActionLog!SendAction, ActionLog!Kill
    <2>2. pc[p] = "send" => op[p] # "ls"
      BY <1>t DEF LogAt
    <2> QED  BY <1>t, <1>2, <1>7, <2>1, <2>2 DEF LogTypes, ActionLog!SendAction, ActionLog!Kill
  <1>8. ASSUME NEW p \in Procs, ActionLog!Ls(p)
        PROVE  LogInv'
    <2>1. /\ pc[p] = "list" /\ pc' = [pc EXCEPT ![p] = "read"]
          /\ rest' = [rest EXCEPT ![p] = ActionLog!ListUlids]
          /\ UNCHANGED <<actions, complete, clock, made, kind, id, op, before, listed>>
      BY <1>8 DEF ActionLog!Ls
    <2>2. /\ LogTypes' /\ LogOthers(p) /\ pc'[p] = "read" /\ rest'[p] = ActionLog!ListUlids
      BY <1>t, <2>1 DEF LogTypes, LogOthers
    <2>3. listed[p] = << >> /\ before[p] \subseteq complete /\ kind[p] \in {"simulate", "send"}
      BY <1>t, <2>1 DEF LogAt
    <2>4. ActionLog!ListUlids \subseteq ActionLog!Ulids
      BY DEF ActionLog!ListUlids
    <2>5. ASSUME NEW n \in complete
          PROVE  made[n] \in ActionLog!ListUlids
      <3>1. n \in DOMAIN made /\ actions[made[n]] = n
        BY <1>t DEF FilesInv
      <3>2. made[n] \in ActionLog!Ulids /\ n # 0
        BY <1>t, <3>1, ElementOfSeq, LenProperties DEF LogTypes
      <3> QED  BY <3>1, <3>2 DEF ActionLog!ListUlids, ActionLog!Missing
    <2>6. ListingInOrder(p)'
      BY <2>1, <2>2, <2>3, <2>4 DEF ListingInOrder
    <2>7. LogAt(p)'
      BY <2>1, <2>2, <2>3, <2>5, <2>6 DEF LogAt
    <2> QED  BY <1>f, <2>1, <2>2, <2>7, LogLocal
  <1>9. ASSUME NEW p \in Procs, ActionLog!ReadAction(p)
        PROVE  LogInv'
    <2>1. pc[p] = "read" /\ UNCHANGED <<actions, complete, clock, made, kind, id, op, before>>
      BY <1>9 DEF ActionLog!ReadAction
    <2>2. /\ LogAt(p) /\ ListingInOrder(p) /\ before[p] \subseteq complete
          /\ \A n \in before[p] : n \in ActionLog!Range(listed[p]) \/ made[n] \in rest[p]
          /\ kind[p] \in {"simulate", "send"}
      BY <1>t, <2>1 DEF LogAt
    <2>3. LogTypes' /\ LogOthers(p)
      BY <1>t, <1>9 DEF LogTypes, LogOthers, ActionLog!ReadAction
    <2>4. CASE rest[p] = {} /\ pc' = [pc EXCEPT ![p] = "done"] /\ UNCHANGED <<rest, listed>>
      <3>1. pc'[p] = "done" /\ ListingInOrder(p)'
        BY <1>f, <1>t, <2>1, <2>2, <2>3, <2>4, ListingKept DEF LogTypes
      <3>2. before'[p] \subseteq ActionLog!Range(listed'[p]) /\ before'[p] \subseteq complete'
        BY <2>1, <2>2, <2>4
      <3>3. LogAt(p)'
        BY <2>1, <2>2, <2>4, <3>1, <3>2 DEF LogAt
      <3> QED  BY <1>f, <2>1, <2>3, <3>3, LogLocal
    <2>5. ASSUME pc' = [pc EXCEPT ![p] = "failed"]
          PROVE  LogInv'
      <3>1. pc'[p] = "failed"
        BY <1>t, <2>5 DEF LogTypes
      <3>2. LogAt(p)'
        BY <2>1, <2>2, <3>1 DEF LogAt
      <3> QED  BY <1>f, <2>1, <2>3, <3>2, LogLocal
    <2>6. ASSUME NEW u \in rest[p], \A v \in rest[p] \ {u} : ActionLog!Before(v, u),
                 rest' = [rest EXCEPT ![p] = rest[p] \ {u}],
                 actions[u] \notin {ActionLog!Missing, ActionLog!Empty}, pc' = pc,
                 listed' = [listed EXCEPT ![p] = Append(listed[p], actions[u])]
          PROVE  LogInv'
      <3>1. /\ rest[p] \subseteq ActionLog!Ulids /\ listed[p] \in Seq(DOMAIN made)
            /\ \A i, j \in DOMAIN listed[p] :
                 i < j => ActionLog!Before(made[listed[p][j]], made[listed[p][i]])
            /\ \A i \in DOMAIN listed[p] : \A r \in rest[p] : ActionLog!Before(r, made[listed[p][i]])
        BY <2>2 DEF ListingInOrder
      <3>2. PICK m \in DOMAIN made : m = actions[u] /\ made[m] = u
        BY <1>t, <2>6, <3>1 DEF FilesInv
      <3>3. listed'[p] = Append(listed[p], m) /\ rest'[p] = rest[p] \ {u}
        BY <1>t, <2>6, <3>2 DEF LogTypes
      <3>4. PICK t : t = Append(listed[p], m)
        OBVIOUS
      <3>5. /\ t \in Seq(DOMAIN made)
            /\ \A i, j \in DOMAIN t : i < j => ActionLog!Before(made[t[j]], made[t[i]])
            /\ \A i \in DOMAIN t : \A r \in rest[p] \ {u} : ActionLog!Before(r, made[t[i]])
            /\ ActionLog!Range(t) = ActionLog!Range(listed[p]) \cup {m}
        <4>1. PICK s \in Seq(DOMAIN made), R \in SUBSET rest[p] : s = listed[p] /\ R = rest[p]
          BY <3>1
        <4>2. /\ made[m] \in R /\ \A r \in R \ {made[m]} : ActionLog!Before(r, made[m])
              /\ \A i, j \in DOMAIN s : i < j => ActionLog!Before(made[s[j]], made[s[i]])
              /\ \A i \in DOMAIN s : \A r \in R : ActionLog!Before(r, made[s[i]])
          BY <2>6, <3>1, <3>2, <4>1, Zenon
        <4>3. /\ Append(s, m) \in Seq(DOMAIN made)
              /\ \A i, j \in DOMAIN Append(s, m) :
                   i < j => ActionLog!Before(made[Append(s, m)[j]], made[Append(s, m)[i]])
              /\ \A i \in DOMAIN Append(s, m) :
                   \A r \in R \ {made[m]} : ActionLog!Before(r, made[Append(s, m)[i]])
              /\ ActionLog!Range(Append(s, m)) = ActionLog!Range(s) \cup {m}
          <5>1. PICK D, f : D = DOMAIN made /\ f = made
            OBVIOUS
          <5>2. s \in Seq(D) /\ m \in D
            BY <5>1
          <5>3. /\ f[m] \in R /\ \A r \in R \ {f[m]} : ActionLog!Before(r, f[m])
                /\ \A i, j \in DOMAIN s : i < j => ActionLog!Before(f[s[j]], f[s[i]])
                /\ \A i \in DOMAIN s : \A r \in R : ActionLog!Before(r, f[s[i]])
            BY <4>2, <5>1, Zenon
          <5>4. /\ Append(s, m) \in Seq(D)
                /\ \A i, j \in DOMAIN Append(s, m) :
                     i < j => ActionLog!Before(f[Append(s, m)[j]], f[Append(s, m)[i]])
                /\ \A i \in DOMAIN Append(s, m) :
                     \A r \in R \ {f[m]} : ActionLog!Before(r, f[Append(s, m)[i]])
                /\ ActionLog!Range(Append(s, m)) = ActionLog!Range(s) \cup {m}
            BY <5>2, <5>3, ListingGrows
          <5> QED  BY <5>1, <5>4, Zenon
        <4> QED  BY <3>2, <3>4, <4>1, <4>3, Zenon
      <3>6. /\ rest'[p] \subseteq ActionLog!Ulids /\ listed'[p] \in Seq(DOMAIN made')
            /\ \A i, j \in DOMAIN listed'[p] :
                 i < j => ActionLog!Before(made'[listed'[p][j]], made'[listed'[p][i]])
            /\ \A i \in DOMAIN listed'[p] : \A r \in rest'[p] :
                 ActionLog!Before(r, made'[listed'[p][i]])
        BY <2>1, <3>1, <3>3, <3>4, <3>5
      <3>7. ListingInOrder(p)'
        BY <3>6 DEF ListingInOrder, ActionLog!Before, ActionLog!Ulids
      <3>8. ASSUME NEW n \in before[p]
            PROVE  n \in ActionLog!Range(t) \/ made[n] \in rest[p] \ {u}
        <4>1. n \in DOMAIN made
          BY <1>t, <2>2 DEF FilesInv
        <4>2. made[n] = u => n = m
          BY <1>t, <3>2, <4>1 DEF FilesInv
        <4> QED  BY <2>2, <3>5, <4>2
      <3>9. \A n \in before'[p] : n \in ActionLog!Range(listed'[p]) \/ made'[n] \in rest'[p]
        BY <2>1, <3>3, <3>4, <3>8
      <3>10. LogAt(p)'
        BY <2>1, <2>2, <2>6, <3>7, <3>9 DEF LogAt
      <3> QED  BY <1>f, <2>1, <2>3, <3>10, LogLocal
    <2> QED  BY <1>9, <2>4, <2>5, <2>6 DEF ActionLog!ReadAction
  <1>10. ASSUME NEW p \in Procs, ActionLog!CleanAction(p)
         PROVE  LogInv'
    <2>1. PICK u \in ActionLog!ListUlids :
            /\ actions' = [actions EXCEPT ![u] = ActionLog!Missing]
            /\ complete' = complete \ {n \in DOMAIN made : made[n] = u}
            /\ before' = [q \in Procs |-> before[q] \ {n \in DOMAIN made : made[n] = u}]
      BY <1>10 DEF ActionLog!CleanAction
    <2>2. /\ pc[p] = "list" /\ op[p] = "clean"
          /\ UNCHANGED <<clock, made, kind, id, op, pc, rest, listed>>
      BY <1>10 DEF ActionLog!CleanAction
    <2>3. LogTypes' /\ LogOthers(p) /\ MadeKept
      BY <1>t, <2>1, <2>2 DEF LogTypes, LogOthers, MadeKept
    <2>4. FilesInv'
      <3>1. \A v \in ActionLog!Ulids : actions'[v] = IF v = u THEN ActionLog!Missing ELSE actions[v]
        BY <1>t, <2>1 DEF FilesInv
      <3>2. \A n \in DOMAIN made : made[n] \in ActionLog!Ulids
        BY <1>t, ElementOfSeq, LenProperties DEF LogTypes
      <3>3. DOMAIN actions' = ActionLog!Ulids
        BY <1>t, <2>1 DEF FilesInv
      <3> QED  BY <1>t, <2>1, <2>2, <3>1, <3>2, <3>3 DEF FilesInv
    <2>5. \A q \in Procs : before'[q] \subseteq complete'
      BY <1>t, <2>1 DEF LogAt
    <2>6. LogAt(p)'
      BY <1>t, <2>1, <2>2, <2>5 DEF LogAt
    <2> QED  BY <2>3, <2>4, <2>5, <2>6, LogLocal
  <1>11. ASSUME NEW p \in Procs, ActionLog!CleanEnds(p)
         PROVE  LogInv'
    <2>1. /\ pc[p] = "list" /\ op[p] = "clean"
          /\ UNCHANGED <<actions, complete, clock, made, kind, id, op, before, rest, listed>>
          /\ pc' = [pc EXCEPT ![p] = "failed"] \/ pc' = [pc EXCEPT ![p] = "done"]
      BY <1>11 DEF ActionLog!CleanEnds
    <2>2. LogTypes' /\ LogOthers(p) /\ pc'[p] \in {"failed", "done"}
      BY <1>t, <2>1 DEF LogTypes, LogOthers
    <2> QED  BY <1>2, <2>1, <2>2
  <1>12. CASE UNCHANGED <<actions, complete, made, pc, op, id, kind, before, rest, listed>>
              /\ clock' \in 1 .. MaxClock
    <2>1. LogTypes'
      BY <1>t, <1>12 DEF LogTypes
    <2>2. \A p \in Procs : ListingInOrder(p) => ListingInOrder(p)'
      BY <1>f, <1>t, <1>12, <2>1, ListingKept
    <2>3. \A p \in Procs : LogAt(p)'
      BY <1>t, <1>12, <2>2 DEF LogAt
    <2> QED  BY <1>f, <1>12, <2>1, <2>3 DEF LogInv
  <1>13. CASE ActionLog!Upgrade \/ ActionLog!Tick \/ UNCHANGED ActionLog!vars
    <2>1. UNCHANGED <<actions, complete, made, pc, op, id, kind, before, rest, listed>>
      BY <1>13 DEF ActionLog!Upgrade, ActionLog!Tick, ActionLog!vars
    <2>2. clock' = clock \/ (clock < MaxClock /\ clock' = clock + 1)
      BY <1>13 DEF ActionLog!Upgrade, ActionLog!Tick, ActionLog!vars
    <2>3. clock' \in 1 .. MaxClock
      BY <1>t, <2>2, CacheAssumption DEF LogTypes, ActionLog!SizeAssumption
    <2> QED  BY <1>12, <2>1, <2>3
  <1>14. ASSUME NEW p \in Procs, ActionLog!CleanSpec(p)
         PROVE  LogInv'
    <2>1. UNCHANGED <<actions, complete, clock, made, pc, op, id, kind, before, rest, listed>>
      BY <1>14 DEF ActionLog!CleanSpec
    <2> QED  BY <1>t, <1>12, <2>1 DEF LogTypes
  <1> QED  BY <1>1, <1>3, <1>4, <1>5, <1>6, <1>7, <1>8, <1>9, <1>10, <1>11, <1>13, <1>14
           DEF ActionLog!Next, ActionLog!Step

\* ListsEveryAction: with any number of processes that log, list, clean and are killed, a
\* listing that completes has every action that was logged before it and not cleaned since,
\* none twice, and those of a later millisecond first, whatever random bits the ids of one
\* millisecond have.
THEOREM ListsEveryAction == Spec => []LogListed
  <1> DEFINE Inv == part = "log" => LogInv
  <1>1. Init => Inv
    <2>1. ASSUME ActionLog!Init
          PROVE  LogInv
      <3>1. LogTypes
        BY <2>1, CacheAssumption DEF ActionLog!Init, LogTypes, ActionLog!SizeAssumption
      <3>2. FilesInv /\ \A p \in Procs : LogAt(p)
        BY <2>1 DEF ActionLog!Init, FilesInv, LogAt
      <3> QED  BY <3>1, <3>2 DEF LogInv
    <2> QED  BY <2>1, PartStart
  <1>2. Inv /\ [Next]_vars => Inv'
    BY PartStep, LogStep
  <1>3. Inv => LogListed
    <2>1. ASSUME LogInv, NEW p \in Procs, op[p] = "ls", pc[p] = "done"
          PROVE  /\ before[p] \subseteq ActionLog!Range(listed[p])
                 /\ \A i, j \in DOMAIN listed[p] : i < j =>
                      /\ listed[p][i] # listed[p][j]
                      /\ made[listed[p][i]][1] >= made[listed[p][j]][1]
      <3>1. /\ ListingInOrder(p) /\ before[p] \subseteq ActionLog!Range(listed[p])
            /\ made \in Seq(ActionLog!Ulids)
        BY <2>1 DEF LogInv, LogAt, LogTypes
      <3>2. ASSUME NEW i \in DOMAIN listed[p], NEW j \in DOMAIN listed[p], i < j
            PROVE  /\ listed[p][i] # listed[p][j]
                   /\ made[listed[p][i]][1] >= made[listed[p][j]][1]
        <4>1. listed[p][i] \in DOMAIN made /\ listed[p][j] \in DOMAIN made
          BY <3>1, ElementOfSeq, LenProperties DEF ListingInOrder
        <4>2. PICK u \in ActionLog!Ulids, v \in ActionLog!Ulids :
                u = made[listed[p][j]] /\ v = made[listed[p][i]]
          BY <3>1, <4>1, ElementOfSeq, LenProperties
        <4>3. ActionLog!Before(u, v)
          BY <3>1, <3>2, <4>2 DEF ListingInOrder
        <4>4. u # v /\ u[1] <= v[1]
          BY <4>3, UlidsSort
        <4>5. u[1] \in Int /\ v[1] \in Int
          BY DEF ActionLog!Ulids
        <4> QED  BY <4>2, <4>4, <4>5
      <3> QED  BY <3>1, <3>2
    <2> QED  BY <2>1 DEF LogListed, ActionLog!LogListed, ActionLog!At
  <1> QED  BY <1>1, <1>2, <1>3, PTL DEF Spec

=============================================================================
