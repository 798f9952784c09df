------------------------- MODULE ConfigStoreProofs -------------------------
(***************************************************************************)
(* Proofs about ConfigStore, for every number of processes, names,         *)
(* networks, contracts and seeds.  TypeCorrect needs no assumption on who  *)
(* runs what; AliasesDurable assumes that processes that run at the same    *)
(* time mention different names (DisjointNames).                           *)
(***************************************************************************)
EXTENDS ConfigStore, TLAPS

USE DEF Locations

\* What the members of the command records offer to the actions.
LEMMA KeyCommandFacts ==
    ASSUME NEW c \in KeyCommand
    PROVE  /\ c.op \in {"generate", "add", "rm"}
           /\ c.name \in Names /\ c.loc \in Locations
           /\ c.op \in {"generate", "add"} => c.seed \in Seeds
  BY DEF KeyCommand

\* The same for the commands on aliases.
LEMMA AliasCommandFacts ==
    ASSUME NEW c \in AliasCommand
    PROVE  /\ c.op \in {"alias_add", "deploy", "alias_rm"}
           /\ c.name \in Names /\ c.loc \in Locations /\ c.net \in Nets
           /\ c.op # "alias_rm" => c.id \in Contracts
  BY DEF AliasCommand

\* The two sentinels of a file are not keys.
LEMMA SentinelsAreNotKeys == NoFile \notin Keys /\ Torn \notin Keys
  BY DEF NoFile, Torn, Keys, PublicKey, Plain, SecureStore

\* A key of kind "store" is a reference to the keyring entry of some name.
LEMMA StoreKeysAreReferences ==
    ASSUME NEW k \in Keys, k.kind = "store"
    PROVE  k \in {SecureStore(e) : e \in Names} /\ k.entry \in Names
  BY DEF Keys, PublicKey, Plain, SecureStore

\* Conversely, a reference is a key, and its entry is a name.
LEMMA ReferenceEntries ==
    ASSUME NEW k \in {SecureStore(e) : e \in Names}
    PROVE  k.entry \in Names /\ k \in Keys
  BY DEF SecureStore, Keys

\* Keys and both sentinels are contents of identity files; NoIds is a set of ids.
LEMMA KeysAreFiles == /\ \A k \in Keys : k \in IdentityFile
                      /\ NoFile \in IdentityFile /\ Torn \in IdentityFile
                      /\ NoIds \in Ids
  BY DEF IdentityFile, NoIds, Ids

\* The type invariant, with the control part that makes it inductive.
LEMMA TypeInit == Init => TypeOK /\ ControlOK
  BY KeysAreFiles DEF Init, TypeOK, ControlOK, KeySteps, AliasSteps, AliasFile, Ids, NoIds, NoCommand

\* Every step keeps the types and the tie between a step and its command.
LEMMA TypeStep == TypeOK /\ ControlOK /\ [Next]_vars => (TypeOK /\ ControlOK)'
  <1> SUFFICES ASSUME TypeOK, ControlOK, [Next]_vars
               PROVE  (TypeOK /\ ControlOK)'
    OBVIOUS
  <1> USE DEF TypeOK, ControlOK, KeySteps, AliasSteps
  <1>u. CASE UNCHANGED vars
    BY <1>u DEF vars
  <1>1. ASSUME NEW p \in Procs, NEW c \in KeyCommand, KeysGenerate(p, c)
        PROVE  (TypeOK /\ ControlOK)'
    <2>1. SecureStore(c.name) \in Keys /\ Plain(c.seed) \in Keys
      BY <1>1, KeyCommandFacts DEF Keys, KeysGenerate
    <2> QED  BY <1>1, <2>1, KeysAreFiles DEF KeysGenerate, Start
  <1>2. ASSUME NEW p \in Procs, NEW c \in KeyCommand, KeysRm(p, c)
        PROVE  (TypeOK /\ ControlOK)'
    <2>1. Read(c.name) \in Keys
      BY <1>2 DEF KeysRm, Readable
    <2> QED  BY <1>2, <2>1, KeysAreFiles, StoreKeysAreReferences DEF KeysRm, Start
  <1>3. ASSUME NEW p \in Procs, NEW c \in KeyCommand, NEW k \in Keys, KeysAdd(p, c, k)
        PROVE  (TypeOK /\ ControlOK)'
    BY <1>3, KeysAreFiles DEF KeysAdd, Start
  <1>4. ASSUME NEW p \in Procs, KeyringKeep(p) \/ KeyringMissing(p)
        PROVE  (TypeOK /\ ControlOK)'
    BY <1>4 DEF KeyringKeep, KeyringMissing, Goto, AfterKeyring
  <1>5. ASSUME NEW p \in Procs, KeyringSet(p)
        PROVE  (TypeOK /\ ControlOK)'
    BY <1>5, KeyCommandFacts DEF KeyringSet, Goto, AfterKeyring
  <1>6. ASSUME NEW p \in Procs, KeyringFails(p)
        PROVE  (TypeOK /\ ControlOK)'
    BY <1>6, KeysAreFiles DEF KeyringFails, Finish
  <1>7. ASSUME NEW p \in Procs, IdentityOverlap(p)
        PROVE  (TypeOK /\ ControlOK)'
    BY <1>7, KeysAreFiles DEF IdentityOverlap, Finish, Goto
  <1>8. ASSUME NEW p \in Procs, IdentityOpen(p) \/ IdentityWrite(p) \/ IdentityRemove(p)
        PROVE  (TypeOK /\ ControlOK)'
    <2>1. cmd[p].loc \in Locations /\ cmd[p].name \in Names
      BY <1>8, KeyCommandFacts
         DEF IdentityOpen, IdentityWrite, IdentityRemove, Finish, Goto
    <2>2. CASE IdentityOpen(p)
      BY <2>1, <2>2, KeysAreFiles DEF IdentityOpen, Goto
    <2>3. CASE IdentityWrite(p)
      <3>1. TypeOK'
        BY <2>1, <2>3, KeysAreFiles DEF IdentityWrite, Finish
      <3>2. ControlOK'
        BY <2>3 DEF IdentityWrite, Finish
      <3> QED  BY <3>1, <3>2
    <2>4. CASE IdentityRemove(p)
      BY <2>1, <2>4, KeysAreFiles DEF IdentityRemove, Finish
    <2> QED  BY <1>8, <2>2, <2>3, <2>4
  <1>9. ASSUME NEW p \in Procs, KeyringDelete(p)
        PROVE  (TypeOK /\ ControlOK)'
    BY <1>9, ReferenceEntries DEF KeyringDelete, Goto
  <1>10. ASSUME NEW p \in Procs, NEW c \in AliasCommand, NEW o \in BOOLEAN,
                AliasAdd(p, c, o) \/ DeployAlias(p, c) \/ AliasRemove(p, c)
         PROVE  (TypeOK /\ ControlOK)'
    <2>1. CASE AliasAdd(p, c, o)
      BY <1>10, <2>1 DEF AliasAdd, Start
    <2>2. CASE DeployAlias(p, c)
      BY <1>10, <2>2 DEF DeployAlias, Start
    <2>3. CASE AliasRemove(p, c)
      BY <1>10, <2>3 DEF AliasRemove, Start
    <2> QED  BY <1>10, <2>1, <2>2, <2>3
  <1>11. ASSUME NEW p \in Procs, AliasOverlap(p)
         PROVE  (TypeOK /\ ControlOK)'
    BY <1>11, KeysAreFiles DEF AliasOverlap, Finish, Goto
  <1>12. ASSUME NEW p \in Procs, AliasRead(p)
         PROVE  (TypeOK /\ ControlOK)'
    <2>1. aliases[cmd[p].loc][cmd[p].name].ids \in Ids
      <3>1. aliases[cmd[p].loc][cmd[p].name] \in AliasFile
        BY <1>12, AliasCommandFacts DEF AliasRead
      <3> QED  BY <3>1, KeysAreFiles DEF AliasFile
    <2> QED  BY <1>12, <2>1 DEF AliasRead
  <1>13. ASSUME NEW p \in Procs, AliasOpen(p)
         PROVE  (TypeOK /\ ControlOK)'
    <2>1. [st |-> "torn", ids |-> NoIds] \in AliasFile
      BY KeysAreFiles DEF AliasFile
    <2> QED  BY <1>13, <2>1, AliasCommandFacts DEF AliasOpen, Goto
  <1>14. ASSUME NEW p \in Procs, AliasWrite(p)
         PROVE  (TypeOK /\ ControlOK)'
    <2> DEFINE c == cmd[p]
               new == [ids[p] EXCEPT ![c.net] = IF c.op = "alias_rm" THEN NoId ELSE c.id]
    <2>1. c \in AliasCommand
      BY <1>14 DEF AliasWrite, Finish
    <2>2. new \in Ids /\ new[c.net] \in Contracts \cup {NoId}
      BY <2>1, AliasCommandFacts DEF Ids
    <2>3. [st |-> "whole", ids |-> new] \in AliasFile
      BY <2>2 DEF AliasFile
    <2>4. acked' \in [Locations -> [Names -> Ids]]
      BY <1>14, <2>1, <2>2, AliasCommandFacts DEF AliasWrite, Ids
    <2> HIDE DEF new
    <2>5. aliases' \in [Locations -> [Names -> AliasFile]]
      BY <1>14, <2>1, <2>3, AliasCommandFacts DEF AliasWrite, new
    <2> QED  BY <1>14, <2>4, <2>5, KeysAreFiles DEF AliasWrite, Finish
  <1>15. ASSUME NEW p \in Procs, Kill(p)
         PROVE  (TypeOK /\ ControlOK)'
    <2>1. acked' \in [Locations -> [Names -> Ids]]
      BY <1>15, KeysAreFiles, AliasCommandFacts DEF Kill, Finish
    <2> QED  BY <1>15, <2>1, KeysAreFiles DEF Kill, Finish
  <1> HIDE DEF TypeOK, ControlOK
  <1> QED
    BY <1>u, <1>1, <1>2, <1>3, <1>4, <1>5, <1>6, <1>7, <1>8, <1>9, <1>10, <1>11, <1>12,
       <1>13, <1>14, <1>15 DEF Next, KeyNext, AliasNext

\* TypeCorrect: every variable keeps its type, and every step that a process is
\* about to take belongs to the command that it runs.
THEOREM TypeCorrect == Spec => [](TypeOK /\ ControlOK)
  BY TypeInit, TypeStep, PTL DEF Spec

---------------------------------------------------------------------------
\* A step of process p keeps the program state of the others.
Others(p) == \A q \in Procs : q # p => /\ pc'[q] = pc[q] /\ cmd'[q] = cmd[q]
                                      /\ key'[q] = key[q] /\ ids'[q] = ids[q]

\* The steps that neither touch an alias file nor enter or leave its rewriting.
AwayFromAliases(p) ==
    /\ UNCHANGED <<aliases, acked>>
    /\ pc[p] # "alias_write"
    /\ pc'[p] \notin {"alias_open", "alias_write"}
    /\ Others(p)

\* The steps of the commands on keys stay away from the alias files.
LEMMA KeyStepsAway ==
    ASSUME TypeOK, NEW p \in Procs, KeyNext(p)
    PROVE  AwayFromAliases(p)
  <1> USE DEF TypeOK, AwayFromAliases, Others
  <1>1. ASSUME NEW c \in KeyCommand, KeysGenerate(p, c) \/ KeysRm(p, c)
        PROVE  AwayFromAliases(p)
    BY <1>1 DEF KeysGenerate, KeysRm, Start
  <1>2. ASSUME NEW c \in KeyCommand, NEW k \in Keys, KeysAdd(p, c, k)
        PROVE  AwayFromAliases(p)
    BY <1>2 DEF KeysAdd, Start
  <1>3. CASE KeyringKeep(p) \/ KeyringMissing(p) \/ KeyringSet(p) \/ KeyringFails(p)
    BY <1>3 DEF KeyringKeep, KeyringMissing, KeyringSet, KeyringFails, Goto, Finish, AfterKeyring
  <1>4. CASE IdentityOverlap(p) \/ IdentityOpen(p) \/ IdentityWrite(p)
    BY <1>4 DEF IdentityOverlap, IdentityOpen, IdentityWrite, Goto, Finish
  <1>5. CASE KeyringDelete(p) \/ IdentityRemove(p)
    BY <1>5 DEF KeyringDelete, IdentityRemove, Goto, Finish
  <1> HIDE DEF AwayFromAliases
  <1> QED  BY <1>1, <1>2, <1>3, <1>4, <1>5 DEF KeyNext

\* A step that stays away from the alias files keeps AliasInv.
LEMMA AwayKeepsAliasInv ==
    ASSUME TypeOK, AliasInv, NEW p \in Procs, AwayFromAliases(p)
    PROVE  AliasInv'
  <1>1. ASSUME NEW q \in Procs, pc'[q] \in {"alias_open", "alias_write"}
        PROVE  q # p /\ pc'[q] = pc[q] /\ cmd'[q] = cmd[q] /\ ids'[q] = ids[q]
    BY <1>1 DEF AwayFromAliases, Others
  <1>2. \A q \in Procs, l \in Locations, n \in Names : Writing(q, l, n) => Writing(q, l, n)'
    BY DEF Writing, AwayFromAliases, Others
  <1>3. AliasIdsDurable'
    BY <1>2 DEF AliasInv, AliasIdsDurable, AwayFromAliases
  <1> QED  BY <1>1, <1>3 DEF AliasInv, AwayFromAliases

\* AliasInv holds of the empty store.
LEMMA AliasInit == Init => AliasInv
  BY DEF Init, AliasInv, AliasIdsDurable, Writing

\* Every step keeps AliasInv: the steps of another process concern other names.
LEMMA AliasStep ==
    ASSUME DisjointNames
    PROVE  TypeOK /\ ControlOK /\ AliasInv /\ [Next]_vars => AliasInv'
  <1> SUFFICES ASSUME TypeOK, ControlOK, AliasInv, [Next]_vars
               PROVE  AliasInv'
    OBVIOUS
  <1>u. CASE UNCHANGED vars
    BY <1>u DEF vars, AliasInv, AliasIdsDurable, Writing
  <1>1. ASSUME NEW p \in Procs, KeyNext(p)
        PROVE  AliasInv'
    BY <1>1, KeyStepsAway, AwayKeepsAliasInv
  <1>2. ASSUME NEW p \in Procs, NEW c \in AliasCommand, NEW o \in BOOLEAN,
               AliasAdd(p, c, o) \/ DeployAlias(p, c) \/ AliasRemove(p, c)
        PROVE  AliasInv'
    <2>1. AwayFromAliases(p)
      BY <1>2 DEF TypeOK, AliasAdd, DeployAlias, AliasRemove, Start, AwayFromAliases, Others
    <2> QED  BY <2>1, AwayKeepsAliasInv
  <1>3. ASSUME NEW p \in Procs, AliasOverlap(p)
        PROVE  AliasInv'
    <2>1. AwayFromAliases(p)
      BY <1>3 DEF TypeOK, AliasOverlap, Finish, Goto, AwayFromAliases, Others
    <2> QED  BY <2>1, AwayKeepsAliasInv
  \* The other processes work on other names, so only p can be rewriting p's file.
  <1>o. ASSUME NEW p \in Procs, NEW q \in Procs, pc[p] # "idle", pc[q] # "idle",
               cmd[p].name = cmd[q].name
        PROVE  p = q
    BY <1>o DEF ControlOK, DisjointNames
  <1>4. ASSUME NEW p \in Procs, AliasRead(p)
        PROVE  AliasInv'
    <2> DEFINE l == cmd[p].loc
               n == cmd[p].name
    <2>1. l \in Locations /\ n \in Names
      BY <1>4, AliasCommandFacts DEF AliasRead, ControlOK, AliasSteps
    <2>2. \A q \in Procs : ~Writing(q, l, n)
      BY <1>4, <1>o DEF AliasRead, Writing
    <2>3. ids'[p] = acked[l][n]
      BY <1>4, <2>1, <2>2 DEF AliasRead, AliasInv, AliasIdsDurable, TypeOK
    <2>4. UNCHANGED <<aliases, acked, cmd>>
      BY <1>4 DEF AliasRead
    <2>5. /\ pc'[p] = "alias_open" /\ pc[p] = "alias_read"
          /\ \A q \in Procs : q # p => pc'[q] = pc[q] /\ ids'[q] = ids[q]
      BY <1>4 DEF AliasRead, TypeOK
    <2>6. \A q \in Procs, k \in Locations, m \in Names : Writing(q, k, m)' = Writing(q, k, m)
      BY <2>4, <2>5 DEF Writing
    <2>7. AliasIdsDurable'
      BY <2>4, <2>6 DEF AliasInv, AliasIdsDurable
    <2> QED  BY <2>3, <2>4, <2>5, <2>7 DEF AliasInv
  <1>5. ASSUME NEW p \in Procs, AliasOpen(p)
        PROVE  AliasInv'
    <2> DEFINE l == cmd[p].loc
               n == cmd[p].name
    <2>0. pc[p] = "alias_open" /\ l \in Locations /\ n \in Names
      BY <1>5, AliasCommandFacts DEF AliasOpen, Goto, ControlOK, AliasSteps
    <2>1. /\ aliases' = [aliases EXCEPT ![l][n] = [st |-> "torn", ids |-> NoIds]]
          /\ pc' = [pc EXCEPT ![p] = "alias_write"] /\ UNCHANGED <<cmd, ids, acked>>
      BY <1>5 DEF AliasOpen, Goto
    <2>2. /\ aliases'[l][n].ids = NoIds
          /\ \A m \in Locations, k \in Names : (m # l \/ k # n) =>
                 aliases'[m][k] = aliases[m][k]
      BY <2>0, <2>1 DEF TypeOK
    <2>3. \A r \in Procs : r # p => pc'[r] = pc[r]
      BY <2>1 DEF TypeOK
    <2>4. pc'[p] = "alias_write"
      BY <2>1 DEF TypeOK
    <2>5. AliasIdsDurable'
      <3>1. \A m \in Locations, k \in Names, r \in Procs :
                Writing(r, m, k) => Writing(r, m, k)'
        BY <2>0, <2>1, <2>3 DEF Writing
      <3>2. Writing(p, l, n)'
        BY <2>1, <2>4 DEF Writing
      <3> QED  BY <3>1, <3>2, <2>1, <2>2 DEF AliasInv, AliasIdsDurable
    <2>6. ASSUME NEW r \in Procs, r # p, pc[r] = "alias_write"
          PROVE  cmd[r].name # n /\ cmd[r].name \in Names /\ cmd[r].loc \in Locations
      BY <2>6, <2>0, <1>o, AliasCommandFacts DEF ControlOK, AliasSteps
    <2> QED  BY <2>0, <2>1, <2>2, <2>3, <2>4, <2>5, <2>6 DEF AliasInv
  <1>6. ASSUME NEW p \in Procs, AliasWrite(p)
        PROVE  AliasInv'
    <2> DEFINE l == cmd[p].loc
               n == cmd[p].name
               q == cmd[p].net
               new == [ids[p] EXCEPT ![q] = IF cmd[p].op = "alias_rm" THEN NoId ELSE cmd[p].id]
    <2>0. pc[p] = "alias_write" /\ l \in Locations /\ n \in Names /\ q \in Nets
      BY <1>6, AliasCommandFacts DEF AliasWrite, Finish, ControlOK, AliasSteps
    <2>1. /\ aliases' = [aliases EXCEPT ![l][n] = [st |-> "whole", ids |-> new]]
          /\ acked' = [acked EXCEPT ![l][n][q] = new[q]]
          /\ pc' = [pc EXCEPT ![p] = "idle"] /\ UNCHANGED cmd
          /\ ids' = [ids EXCEPT ![p] = NoIds]
      BY <1>6 DEF AliasWrite, Finish
    <2>2. ids[p] = acked[l][n] /\ ids[p] \in Ids
      BY <2>0 DEF AliasInv, TypeOK
    <2>3. new = [acked[l][n] EXCEPT ![q] = new[q]]
      BY <2>0, <2>2 DEF Ids
    <2> HIDE DEF new
    <2>4. acked'[l][n] = new /\ aliases'[l][n].ids = new
      BY <2>0, <2>1, <2>3 DEF TypeOK
    <2>5. \A m \in Locations, k \in Names : (m # l \/ k # n) =>
              aliases'[m][k] = aliases[m][k] /\ acked'[m][k] = acked[m][k]
      BY <2>0, <2>1 DEF TypeOK
    <2>6. AliasIdsDurable'
      <3> SUFFICES ASSUME NEW m \in Locations, NEW k \in Names,
                          \A r \in Procs : ~Writing(r, m, k)'
                   PROVE  (aliases[m][k].ids = acked[m][k])'
        BY DEF AliasIdsDurable
      <3>1. CASE m = l /\ k = n
        BY <3>1, <2>4
      <3>2. CASE m # l \/ k # n
        <4>1. \A r \in Procs : ~Writing(r, m, k)
          BY <3>2, <2>0, <2>1 DEF Writing, TypeOK
        <4> QED  BY <3>2, <4>1, <2>5 DEF AliasInv, AliasIdsDurable
      <3> QED  BY <3>1, <3>2
    <2>7. ASSUME NEW r \in Procs, pc'[r] \in {"alias_open", "alias_write"}
          PROVE  /\ ids'[r] = acked'[cmd'[r].loc][cmd'[r].name]
                 /\ pc'[r] = "alias_write" => aliases'[cmd'[r].loc][cmd'[r].name].ids = NoIds
      <3>1. r # p /\ pc'[r] = pc[r] /\ ids'[r] = ids[r] /\ cmd'[r] = cmd[r]
        BY <2>1, <2>7 DEF TypeOK
      <3>2. cmd[r].name # n
        BY <3>1, <2>7, <2>0, <1>o
      <3>3. cmd[r].name \in Names /\ cmd[r].loc \in Locations
        BY <3>1, <2>7, AliasCommandFacts DEF ControlOK, AliasSteps
      <3> QED  BY <3>1, <3>2, <3>3, <2>5, <2>7 DEF AliasInv
    <2> QED  BY <2>6, <2>7 DEF AliasInv
  <1>7. ASSUME NEW p \in Procs, Kill(p)
        PROVE  AliasInv'
    <2> DEFINE l == cmd[p].loc
               n == cmd[p].name
    <2>1. CASE pc[p] # "alias_write"
      <3>1. AwayFromAliases(p)
        BY <1>7, <2>1 DEF Kill, Finish, AwayFromAliases, Others, TypeOK
      <3> QED  BY <3>1, AwayKeepsAliasInv
    <2>2. CASE pc[p] = "alias_write"
      <3>0. l \in Locations /\ n \in Names
        BY <2>2, AliasCommandFacts DEF ControlOK, AliasSteps
      <3>1. /\ acked' = [acked EXCEPT ![l][n] = NoIds] /\ UNCHANGED <<aliases, cmd>>
            /\ pc' = [pc EXCEPT ![p] = "idle"] /\ ids' = [ids EXCEPT ![p] = NoIds]
        BY <1>7, <2>2 DEF Kill, Finish
      <3>2. acked'[l][n] = NoIds /\ aliases'[l][n].ids = NoIds
        BY <2>2, <3>0, <3>1 DEF TypeOK, AliasInv
      <3>3. \A m \in Locations, k \in Names : (m # l \/ k # n) => acked'[m][k] = acked[m][k]
        BY <3>0, <3>1 DEF TypeOK
      <3>4. \A m \in Locations, k \in Names, r \in Procs :
                ((m # l \/ k # n) /\ Writing(r, m, k)) => Writing(r, m, k)'
        BY <3>1 DEF Writing, TypeOK
      <3>5. AliasIdsDurable'
        BY <3>1, <3>2, <3>3, <3>4 DEF AliasInv, AliasIdsDurable
      <3>6. ASSUME NEW r \in Procs, pc'[r] \in {"alias_open", "alias_write"}
            PROVE  /\ pc'[r] = pc[r] /\ ids'[r] = ids[r] /\ cmd'[r] = cmd[r]
                   /\ cmd[r].name # n /\ cmd[r].name \in Names /\ cmd[r].loc \in Locations
        <4>1. r # p /\ pc'[r] = pc[r] /\ ids'[r] = ids[r] /\ cmd'[r] = cmd[r]
          BY <3>1, <3>6 DEF TypeOK
        <4> QED  BY <4>1, <3>6, <2>2, <1>o, AliasCommandFacts DEF ControlOK, AliasSteps
      <3> QED  BY <3>1, <3>3, <3>5, <3>6 DEF AliasInv
    <2> QED  BY <2>1, <2>2
  <1> QED
    BY <1>u, <1>1, <1>2, <1>3, <1>4, <1>5, <1>6, <1>7 DEF Next, AliasNext

\* AliasesDurable: whatever other commands run at the same time on other names,
\* and whichever process is killed, an alias file holds the ids that were
\* reported as saved, except those lost by a kill inside the rewriting.
THEOREM AliasesDurable == ASSUME DisjointNames PROVE Spec => []AliasIdsDurable
  <1>1. AliasInv => AliasIdsDurable
    BY DEF AliasInv
  <1> QED  BY <1>1, AliasInit, AliasStep, TypeCorrect, PTL DEF Spec
=============================================================================
