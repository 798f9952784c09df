----------------------------- MODULE KeysProofs -----------------------------
(***************************************************************************)
(* Proofs about the keys and the keyring of ConfigStore.  That a seed is    *)
(* not replaced holds for processes that mention different names.  The     *)
(* other two are about one user: `keys rm` deletes the entry that an       *)
(* identity refers to, which may be the entry of another name.             *)
(***************************************************************************)
EXTENDS ConfigStoreProofs

\* An entry that was read as missing is still missing when the seed is stored.
SeedInv == \A p \in Procs : pc[p] = "keyset" => keyring[cmd[p].name] = NoSeed

\* The steps that leave the keyring alone and do not lead to storing a seed.
AwayFromSeeds(p) == UNCHANGED keyring /\ pc'[p] # "keyset" /\ Others(p)

\* They keep SeedInv.
LEMMA AwayKeepsSeedInv ==
    ASSUME SeedInv, NEW p \in Procs, AwayFromSeeds(p)
    PROVE  SeedInv'
  BY DEF SeedInv, AwayFromSeeds, Others

\* All steps are such, but the three that read, store and delete a seed.
LEMMA StepsAway ==
    ASSUME TypeOK, NEW p \in Procs, KeyNext(p) \/ AliasNext(p) \/ Kill(p),
           ~KeyringMissing(p), ~KeyringSet(p), ~KeyringDelete(p)
    PROVE  AwayFromSeeds(p)
  <1> USE DEF TypeOK, AwayFromSeeds, Others
  <1>1. ASSUME NEW c \in KeyCommand, KeysGenerate(p, c) \/ KeysRm(p, c)
        PROVE  AwayFromSeeds(p)
    BY <1>1 DEF KeysGenerate, KeysRm, Start
  <1>2. ASSUME NEW c \in KeyCommand, NEW k \in Keys, KeysAdd(p, c, k)
        PROVE  AwayFromSeeds(p)
    BY <1>2 DEF KeysAdd, Start
  <1>3. CASE KeyringKeep(p) \/ KeyringFails(p)
    BY <1>3 DEF KeyringKeep, KeyringFails, Goto, Finish, AfterKeyring
  <1>4. CASE IdentityOverlap(p) \/ IdentityOpen(p) \/ IdentityWrite(p) \/ IdentityRemove(p)
    BY <1>4 DEF IdentityOverlap, IdentityOpen, IdentityWrite, IdentityRemove, Goto, Finish
  <1>5. ASSUME NEW c \in AliasCommand, NEW o \in BOOLEAN,
               AliasAdd(p, c, o) \/ DeployAlias(p, c) \/ AliasRemove(p, c)
        PROVE  AwayFromSeeds(p)
    BY <1>5 DEF AliasAdd, DeployAlias, AliasRemove, Start
  <1>6. CASE AliasOverlap(p) \/ AliasRead(p) \/ AliasOpen(p)
    BY <1>6 DEF AliasOverlap, AliasRead, AliasOpen, Goto, Finish
  <1>7. CASE AliasWrite(p)
    BY <1>7 DEF AliasWrite, Finish
  <1>8. CASE Kill(p)
    BY <1>8 DEF Kill, Finish
  <1> HIDE DEF AwayFromSeeds
  <1> QED  BY <1>1, <1>2, <1>3, <1>4, <1>5, <1>6, <1>7, <1>8 DEF KeyNext, AliasNext

\* SeedInv is inductive, and a step from it replaces a seed only as the property says.
LEMMA SeedStep ==
    ASSUME DisjointNames, TypeOK, ControlOK, SeedInv, [Next]_vars
    PROVE  /\ SeedInv'
           /\ \A n \in Names :
                 (keyring[n] # NoSeed /\ keyring'[n] \notin {keyring[n], NoSeed}) =>
                     \E p \in Procs : pc[p] = "blindset" /\ cmd[p].name = n
  <1> DEFINE Kept == \A n \in Names :
                 (keyring[n] # NoSeed /\ keyring'[n] \notin {keyring[n], NoSeed}) =>
                     \E p \in Procs : pc[p] = "blindset" /\ cmd[p].name = n
  <1> SUFFICES SeedInv' /\ Kept
    OBVIOUS
  <1>1. ASSUME NEW p \in Procs, KeyringMissing(p)
        PROVE  SeedInv' /\ Kept
    <2>1. /\ keyring' = keyring /\ Others(p) /\ cmd' = cmd
          /\ pc'[p] = "keyset" => keyring[cmd[p].name] = NoSeed
      BY <1>1 DEF KeyringMissing, Goto, TypeOK, Others
    <2> QED  BY <2>1 DEF SeedInv, Others
  <1>2. ASSUME NEW p \in Procs, KeyringSet(p)
        PROVE  SeedInv' /\ Kept
    <2>1. /\ Others(p) /\ pc'[p] # "keyset"
          /\ pc[p] \in {"keyset", "blindset"}
          /\ keyring' = [keyring EXCEPT ![cmd[p].name] = cmd[p].seed]
      BY <1>2 DEF KeyringSet, Goto, AfterKeyring, TypeOK, Others
    <2>2. \A n \in Names : n # cmd[p].name => keyring'[n] = keyring[n]
      BY <2>1 DEF TypeOK
    <2>3. ASSUME NEW q \in Procs, q # p, pc[q] = "keyset"
          PROVE  cmd[q].name # cmd[p].name /\ cmd[q].name \in Names
      BY <2>1, <2>3, KeyCommandFacts DEF ControlOK, DisjointNames, KeySteps
    <2>4. SeedInv'
      BY <2>1, <2>2, <2>3 DEF SeedInv, Others
    <2>5. Kept
      BY <2>1, <2>2 DEF SeedInv
    <2> QED  BY <2>4, <2>5
  <1>3. ASSUME NEW p \in Procs, KeyringDelete(p)
        PROVE  SeedInv' /\ Kept
    <2>1. /\ Others(p) /\ pc'[p] # "keyset"
          /\ \A n \in Names : keyring'[n] \in {keyring[n], NoSeed}
      BY <1>3 DEF KeyringDelete, Goto, TypeOK, Others
    <2>2. \A q \in Procs : pc[q] = "keyset" => cmd[q].name \in Names
      BY KeyCommandFacts DEF ControlOK, KeySteps
    <2>3. SeedInv'
      BY <2>1, <2>2 DEF SeedInv, Others
    <2> QED  BY <2>1, <2>3
  <1>4. CASE UNCHANGED vars
    BY <1>4 DEF vars, SeedInv
  <1>5. ASSUME NEW p \in Procs, KeyNext(p) \/ AliasNext(p) \/ Kill(p),
               ~KeyringMissing(p), ~KeyringSet(p), ~KeyringDelete(p)
        PROVE  SeedInv' /\ Kept
    <2>1. AwayFromSeeds(p)
      BY <1>5, StepsAway
    <2> QED  BY <2>1, AwayKeepsSeedInv DEF AwayFromSeeds
  <1> HIDE DEF Kept
  <1> QED  BY <1>1, <1>2, <1>3, <1>4, <1>5 DEF Next

\* SeedsKept: for any number of processes that mention different names, killed at any
\* step, write_to_secure_store replaces a seed only when its read of the entry failed.
THEOREM SeedsKept == ASSUME DisjointNames PROVE Spec => SeedReplacedOnlyBlind
  <1>1. Init => SeedInv
    BY DEF Init, SeedInv
  <1>2. TypeOK /\ ControlOK /\ SeedInv /\ [Next]_vars =>
           /\ SeedInv'
           /\ [\A n \in Names :
                 (keyring[n] # NoSeed /\ keyring'[n] \notin {keyring[n], NoSeed}) =>
                     \E p \in Procs : pc[p] = "blindset" /\ cmd[p].name = n]_keyring
    BY SeedStep
  <1> QED  BY <1>1, <1>2, TypeCorrect, PTL DEF Spec, SeedReplacedOnlyBlind

---------------------------------------------------------------------------
\* One user: a single process, so that commands follow each other.
OneUser == \A p, q \in Procs : p = q

\* What a command on keys writes.
Writes(c) == IF c.secure THEN SecureStore(c.name) ELSE Plain(c.seed)

\* Neither directory has a readable identity n.
Unread(n) == identity["local"][n] \notin Keys /\ identity["global"][n] \notin Keys

\* What generate and add have established before they write.
WriteInv(p) ==
    pc[p] \in {"keyget", "keyset", "blindset", "overlap", "open", "write"} =>
        /\ cmd[p].op = "generate" \/ cmd[p].secure => key[p] = Writes(cmd[p])
        /\ cmd[p].op = "generate" /\ ~cmd[p].overwrite => Unread(cmd[p].name)
        /\ pc[p] \in {"keyget", "keyset", "blindset"} => cmd[p].secure
        /\ pc[p] \in {"overlap", "open", "write"} /\ cmd[p].secure =>
               keyring[cmd[p].name] # NoSeed

\* A command has an outcome when it has ended, and not before.
OutcomeInv(p) == outcome[p] # "none" => pc[p] = "idle"

\* Takes effect, for one process.
EffectAt(p) ==
    (outcome[p] = "ok" /\ cmd[p].op = "generate" /\ ~cmd[p].overwrite) =>
        /\ cmd[p] \in KeyCommand
        /\ Read(cmd[p].name) = Writes(cmd[p])
        /\ cmd[p].secure => keyring[cmd[p].name] # NoSeed

GenerateInv == \A p \in Procs : WriteInv(p) /\ OutcomeInv(p) /\ EffectAt(p)

\* A step that ends a command other than generate with success, or without it.
LEMMA EndsKeep ==
    ASSUME NEW p \in Procs, TypeOK, pc'[p] = "idle", cmd' = cmd,
           outcome'[p] = "ok" => cmd[p].op # "generate"
    PROVE  WriteInv(p)' /\ OutcomeInv(p)' /\ EffectAt(p)'
  BY DEF WriteInv, OutcomeInv, EffectAt

\* A step that goes on: no outcome yet.
LEMMA NoOutcomeKeeps ==
    ASSUME NEW p \in Procs, outcome'[p] = "none", WriteInv(p)'
    PROVE  WriteInv(p)' /\ OutcomeInv(p)' /\ EffectAt(p)'
  BY DEF OutcomeInv, EffectAt

\* The steps that lead to no step of writing a key.
LEMMA ElsewhereKeeps ==
    ASSUME NEW p \in Procs, outcome'[p] = "none",
           pc'[p] \notin {"keyget", "keyset", "blindset", "overlap", "open", "write"}
    PROVE  WriteInv(p)' /\ OutcomeInv(p)' /\ EffectAt(p)'
  BY DEF WriteInv, OutcomeInv, EffectAt

\* Read as the two files it looks at.
LEMMA ReadFacts ==
    ASSUME NEW n
    PROVE  /\ Readable(n) <=> ~Unread(n)
           /\ identity["local"][n] \in Keys => Read(n) = identity["local"][n]
           /\ identity["local"][n] \notin Keys => Read(n) = identity["global"][n]
  BY DEF Readable, Read, Unread

\* GenerateInv is inductive with one user.
LEMMA GenerateStep ==
    ASSUME OneUser, TypeOK, ControlOK, GenerateInv, [Next]_vars
    PROVE  GenerateInv'
  <1>u. CASE UNCHANGED vars
    BY <1>u DEF vars, GenerateInv, WriteInv, OutcomeInv, EffectAt, Unread, Read
  <1> SUFFICES ASSUME NEW p \in Procs, KeyNext(p) \/ AliasNext(p) \/ Kill(p)
               PROVE  WriteInv(p)' /\ OutcomeInv(p)' /\ EffectAt(p)'
    BY <1>u DEF Next, GenerateInv, OneUser
  <1> DEFINE Goal == WriteInv(p)' /\ OutcomeInv(p)' /\ EffectAt(p)'
  <1> SUFFICES Goal
    OBVIOUS
  <1>a. WriteInv(p) /\ OutcomeInv(p)
    BY DEF GenerateInv
  <1>b. pc[p] # "idle" => outcome[p] = "none"
    BY <1>a DEF OutcomeInv
  <1>c. pc[p] \in KeySteps => cmd[p] \in KeyCommand /\ cmd[p].name \in Names
                               /\ cmd[p].loc \in Locations
    BY KeyCommandFacts DEF ControlOK
  <1>1. ASSUME NEW c \in KeyCommand, KeysGenerate(p, c)
        PROVE  Goal
    <2>1. /\ c.op = "generate" /\ (Readable(c.name) => c.overwrite)
          /\ pc'[p] = IF c.secure THEN "keyget" ELSE "overlap"
          /\ cmd'[p] = c /\ outcome'[p] = "none" /\ identity' = identity
          /\ key'[p] = Writes(c)
      BY <1>1 DEF KeysGenerate, Start, TypeOK, Writes
    <2>2. ~c.overwrite => Unread(c.name)'
      BY <2>1, ReadFacts DEF Unread
    <2>3. WriteInv(p)'
      BY <2>1, <2>2 DEF WriteInv
    <2> QED  BY <2>1, <2>3, NoOutcomeKeeps
  <1>2. ASSUME NEW c \in KeyCommand, KeysRm(p, c)
        PROVE  Goal
    <2>1. outcome'[p] = "none" /\ pc'[p] \in {"delseed", "rmfile"}
      BY <1>2 DEF KeysRm, Start, TypeOK
    <2> QED  BY <2>1, ElsewhereKeeps
  <1>3. ASSUME NEW c \in KeyCommand, NEW k \in Keys, KeysAdd(p, c, k)
        PROVE  Goal
    <2>1. /\ c.op = "add" /\ (c.secure => k = SecureStore(c.name))
          /\ pc'[p] = IF c.secure THEN "keyget" ELSE "open"
          /\ cmd'[p] = c /\ outcome'[p] = "none" /\ key'[p] = k
      BY <1>3 DEF KeysAdd, Start, TypeOK
    <2>2. WriteInv(p)'
      BY <2>1 DEF WriteInv, Writes
    <2> QED  BY <2>1, <2>2, NoOutcomeKeeps
  <1>4. CASE KeyringKeep(p)
    <2>1. /\ pc[p] = "keyget" /\ pc'[p] \in {"overlap", "open"}
          /\ keyring[cmd[p].name] # NoSeed
          /\ UNCHANGED <<cmd, key, outcome, identity, keyring>>
      BY <1>4 DEF KeyringKeep, Goto, AfterKeyring, TypeOK
    <2>2. WriteInv(p)'
      BY <2>1, <1>a DEF WriteInv, Unread
    <2> QED  BY <2>1, <2>2, <1>b, NoOutcomeKeeps
  <1>5. CASE KeyringMissing(p)
    <2>1. /\ pc[p] = "keyget" /\ pc'[p] \in {"keyset", "blindset"}
          /\ UNCHANGED <<cmd, key, outcome, identity, keyring>>
      BY <1>5 DEF KeyringMissing, Goto, TypeOK
    <2>2. WriteInv(p)'
      BY <2>1, <1>a DEF WriteInv, Unread
    <2> QED  BY <2>1, <2>2, <1>b, NoOutcomeKeeps
  <1>6. CASE KeyringSet(p)
    <2>1. /\ pc[p] \in {"keyset", "blindset"} /\ pc'[p] \in {"overlap", "open"}
          /\ UNCHANGED <<cmd, key, outcome, identity>>
          /\ keyring' = [keyring EXCEPT ![cmd[p].name] = cmd[p].seed]
      BY <1>6 DEF KeyringSet, Goto, AfterKeyring, TypeOK
    <2>2. cmd[p].seed \in Seeds
      BY <2>1, <1>c, KeyCommandFacts DEF ControlOK, KeySteps
    <2>3. keyring'[cmd[p].name] # NoSeed
      BY <2>1, <2>2, <1>c, NoSeedAssumption DEF TypeOK, KeySteps
    <2>4. WriteInv(p)'
      BY <2>1, <2>3, <1>a DEF WriteInv, Unread
    <2> QED  BY <2>1, <2>4, <1>b, NoOutcomeKeeps
  <1>7. CASE KeyringFails(p) \/ Kill(p)
    <2>1. pc'[p] = "idle" /\ cmd' = cmd /\ outcome'[p] # "ok"
      BY <1>7 DEF KeyringFails, Kill, Finish, TypeOK
    <2> QED  BY <2>1, EndsKeep
  <1>8. CASE IdentityOverlap(p)
    <2>1. CASE Finish(p, "overlap", "err")
      <3>1. pc'[p] = "idle" /\ cmd' = cmd /\ outcome'[p] # "ok"
        BY <2>1 DEF Finish, TypeOK
      <3> QED  BY <3>1, EndsKeep
    <2>2. CASE Goto(p, "overlap", "open")
      <3>1. /\ pc[p] = "overlap" /\ pc'[p] = "open"
            /\ UNCHANGED <<cmd, key, outcome, identity, keyring>>
        BY <1>8, <2>2 DEF IdentityOverlap, Goto, TypeOK
      <3>2. WriteInv(p)'
        BY <3>1, <1>a DEF WriteInv, Unread
      <3> QED  BY <3>1, <3>2, <1>b, NoOutcomeKeeps
    <2> QED  BY <1>8, <2>1, <2>2 DEF IdentityOverlap
  <1>9. CASE IdentityOpen(p)
    <2>1. /\ pc[p] = "open" /\ pc'[p] = "write"
          /\ UNCHANGED <<cmd, key, outcome, keyring>>
          /\ identity' = [identity EXCEPT ![cmd[p].loc][cmd[p].name] = Torn]
      BY <1>9 DEF IdentityOpen, Goto, TypeOK
    <2>2. Unread(cmd[p].name) => Unread(cmd[p].name)'
      BY <2>1, <1>c, SentinelsAreNotKeys DEF Unread, TypeOK, KeySteps
    <2>3. WriteInv(p)'
      BY <2>1, <2>2, <1>a DEF WriteInv
    <2> QED  BY <2>1, <2>3, <1>b, NoOutcomeKeeps
  <1>10. CASE IdentityWrite(p)
    <2> DEFINE c == cmd[p]
    <2>1. /\ pc[p] = "write" /\ pc'[p] = "idle" /\ cmd' = cmd /\ keyring' = keyring
          /\ identity' = [identity EXCEPT ![c.loc][c.name] = key[p]]
      BY <1>10 DEF IdentityWrite, Finish, TypeOK
    <2>2. /\ c \in KeyCommand /\ c.name \in Names /\ c.loc \in Locations /\ key[p] \in Keys
      BY <2>1, <1>c DEF KeySteps, ControlOK
    <2>3. ASSUME c.op = "generate", ~c.overwrite
          PROVE  Read(c.name)' = Writes(c)
      <3>1. Unread(c.name) /\ key[p] = Writes(c)
        BY <2>1, <2>3, <1>a DEF WriteInv
      <3>2. identity'[c.loc][c.name] = key[p]
        BY <2>1, <2>2 DEF TypeOK
      <3>3. CASE c.loc = "local"
        BY <3>1, <3>2, <3>3, <2>2, <2>1 DEF Read
      <3>4. CASE c.loc = "global"
        <4>1. identity'["local"][c.name] = identity["local"][c.name]
          BY <2>1, <2>2, <3>4 DEF TypeOK
        <4> QED  BY <4>1, <3>1, <3>2, <3>4, <2>1 DEF Read, Unread
      <3> QED  BY <3>3, <3>4, <2>2 DEF Locations
    <2>4. c.secure /\ c.op = "generate" => keyring'[c.name] # NoSeed
      BY <2>1, <1>a DEF WriteInv
    <2>5. ASSUME c.op = "generate", ~c.overwrite
          PROVE  /\ (cmd[p] \in KeyCommand)'
                 /\ (Read(cmd[p].name) = Writes(cmd[p]))'
                 /\ (cmd[p].secure => keyring[cmd[p].name] # NoSeed)'
      <3>1. Read(c.name)' = Writes(c)
        BY <2>3, <2>5
      <3>2. cmd' = cmd
        BY <2>1
      <3>3. (Read(cmd[p].name) = Writes(cmd[p]))'
        BY <3>1, <3>2 DEF Writes, Read
      <3>4. (cmd[p].secure => keyring[cmd[p].name] # NoSeed)'
        BY <2>4, <2>5, <3>2
      <3> QED  BY <2>2, <3>2, <3>3, <3>4
    <2>6. EffectAt(p)'
      <3>1. cmd'[p].op = c.op /\ cmd'[p].overwrite = c.overwrite
        BY <2>1
      <3> HIDE DEF c
      <3> QED  BY <2>5, <3>1 DEF EffectAt
    <2> QED  BY <2>1, <2>6 DEF WriteInv, OutcomeInv
  <1>11. CASE KeyringDelete(p)
    <2>1. outcome'[p] = "none" /\ pc'[p] = "rmfile"
      BY <1>11, <1>b DEF KeyringDelete, Goto, TypeOK
    <2> QED  BY <2>1, ElsewhereKeeps
  <1>12. CASE IdentityRemove(p)
    <2>1. pc'[p] = "idle" /\ cmd' = cmd /\ pc[p] = "rmfile"
      BY <1>12 DEF IdentityRemove, Finish, TypeOK
    <2>2. cmd[p].op # "generate"
      BY <2>1 DEF ControlOK
    <2> QED  BY <2>1, <2>2, EndsKeep
  <1>13. ASSUME NEW c \in AliasCommand,
                (\E o \in BOOLEAN : AliasAdd(p, c, o)) \/ DeployAlias(p, c) \/ AliasRemove(p, c)
         PROVE  Goal
    <2>1. outcome'[p] = "none" /\ pc'[p] \in {"alias_overlap", "alias_read"}
      BY <1>13 DEF AliasAdd, DeployAlias, AliasRemove, Start, TypeOK
    <2> QED  BY <2>1, ElsewhereKeeps
  <1>14. CASE AliasOverlap(p)
    <2>1. CASE Finish(p, "alias_overlap", "err")
      <3>1. pc'[p] = "idle" /\ cmd' = cmd /\ outcome'[p] # "ok"
        BY <2>1 DEF Finish, TypeOK
      <3> QED  BY <3>1, EndsKeep
    <2>2. CASE Goto(p, "alias_overlap", "alias_read")
      <3>1. outcome'[p] = "none" /\ pc'[p] = "alias_read"
        BY <2>2, <1>b DEF Goto, TypeOK
      <3> QED  BY <3>1, ElsewhereKeeps
    <2> QED  BY <1>14, <2>1, <2>2 DEF AliasOverlap
  <1>15. CASE AliasRead(p) \/ AliasOpen(p)
    <2>1. outcome'[p] = "none" /\ pc'[p] \in {"alias_open", "alias_write"}
      BY <1>15, <1>b DEF AliasRead, AliasOpen, Goto, TypeOK
    <2> QED  BY <2>1, ElsewhereKeeps
  <1>16. CASE AliasWrite(p)
    <2>1. pc'[p] = "idle" /\ cmd' = cmd /\ pc[p] = "alias_write"
      BY <1>16 DEF AliasWrite, Finish, TypeOK
    <2>2. cmd[p].op # "generate"
      BY <2>1, AliasCommandFacts DEF ControlOK, AliasSteps
    <2> QED  BY <2>1, <2>2, EndsKeep
  <1> HIDE DEF Goal
  <1>17. CASE KeyNext(p)
    BY <1>17, <1>1, <1>2, <1>3, <1>4, <1>5, <1>6, <1>7, <1>8, <1>9, <1>10, <1>11, <1>12
    DEF KeyNext
  <1>18. CASE AliasNext(p)
    BY <1>18, <1>13, <1>14, <1>15, <1>16 DEF AliasNext
  <1> QED  BY <1>7, <1>17, <1>18

\* GenerateInv holds at all times, with one user.
LEMMA GenerateCorrect == ASSUME OneUser PROVE Spec => []GenerateInv
  <1>1. Init => GenerateInv
    <2>1. Init => \A p \in Procs : pc[p] = "idle" /\ outcome[p] = "none"
      BY DEF Init
    <2> QED  BY <2>1 DEF GenerateInv, WriteInv, OutcomeInv, EffectAt
  <1>2. TypeOK /\ ControlOK /\ GenerateInv /\ [Next]_vars => GenerateInv'
    BY GenerateStep
  <1> QED  BY <1>1, <1>2, TypeCorrect, PTL DEF Spec

\* GenerateEffective: for one user, killed at any step and with a keyring that may fail, a
\* name that `keys generate` reports without --overwrite reads as the generated key.
THEOREM GenerateEffective == ASSUME OneUser PROVE Spec => []GenerateTakesEffect
  <1>1. GenerateInv => GenerateTakesEffect
    BY DEF GenerateInv, EffectAt, GenerateTakesEffect, Writes
  <1> QED  BY <1>1, GenerateCorrect, PTL

---------------------------------------------------------------------------
(* References without a seed.                                              *)

\* The steps that leave the identities and the keyring alone.
LEMMA StepsKeepKeys ==
    ASSUME NEW p \in Procs, KeyNext(p) \/ AliasNext(p) \/ Kill(p),
           ~KeyringSet(p), ~KeyringDelete(p),
           ~IdentityOpen(p), ~IdentityWrite(p), ~IdentityRemove(p)
    PROVE  UNCHANGED <<identity, keyring>>
  <1> DEFINE Same == UNCHANGED <<identity, keyring>>
  <1> SUFFICES Same
    OBVIOUS
  <1>1. ASSUME NEW c \in KeyCommand, KeysGenerate(p, c) \/ KeysRm(p, c)
        PROVE  Same
    BY <1>1 DEF KeysGenerate, KeysRm
  <1>2. ASSUME NEW c \in KeyCommand, NEW k \in Keys, KeysAdd(p, c, k)
        PROVE  Same
    BY <1>2 DEF KeysAdd
  <1>3. CASE KeyringKeep(p) \/ KeyringMissing(p) \/ KeyringFails(p) \/ IdentityOverlap(p)
    BY <1>3 DEF KeyringKeep, KeyringMissing, KeyringFails, IdentityOverlap
  <1>4. ASSUME NEW c \in AliasCommand,
               (\E o \in BOOLEAN : AliasAdd(p, c, o)) \/ DeployAlias(p, c) \/ AliasRemove(p, c)
        PROVE  Same
    BY <1>4 DEF AliasAdd, DeployAlias, AliasRemove
  <1>5. CASE AliasOverlap(p) \/ AliasRead(p) \/ AliasOpen(p) \/ AliasWrite(p)
    BY <1>5 DEF AliasOverlap, AliasRead, AliasOpen, AliasWrite
  <1>6. CASE Kill(p)
    BY <1>6 DEF Kill
  <1> HIDE DEF Same
  <1>7. CASE KeyNext(p)
    BY <1>7, <1>1, <1>2, <1>3 DEF KeyNext
  <1>8. CASE AliasNext(p)
    BY <1>8, <1>4, <1>5 DEF AliasNext
  <1> QED  BY <1>6, <1>7, <1>8

\* A step from GenerateInv makes a reference dangle only as the property says.
LEMMA DanglingStep ==
    ASSUME TypeOK, ControlOK, GenerateInv, Next,
           NEW l \in Locations, NEW n \in Names, ~Dangling(l, n), Dangling(l, n)'
    PROVE  \E p \in Procs :
               \/ pc[p] = "delseed"
               \/ pc[p] = "write" /\ cmd[p].op = "add" /\ ~cmd[p].secure
  <1> SUFFICES ASSUME NEW p \in Procs, KeyNext(p) \/ AliasNext(p) \/ Kill(p)
               PROVE  \/ pc[p] = "delseed"
                      \/ pc[p] = "write" /\ cmd[p].op = "add" /\ ~cmd[p].secure
    BY DEF Next
  <1> DEFINE Excused == \/ pc[p] = "delseed"
                        \/ pc[p] = "write" /\ cmd[p].op = "add" /\ ~cmd[p].secure
  <1> SUFFICES Excused
    OBVIOUS
  <1>1. CASE UNCHANGED <<identity, keyring>>
    BY <1>1 DEF Dangling
  <1>2. CASE KeyringSet(p)
    <2>1. /\ identity' = identity /\ pc[p] \in {"keyset", "blindset"}
          /\ keyring' = [keyring EXCEPT ![cmd[p].name] = cmd[p].seed]
      BY <1>2 DEF KeyringSet, Goto
    <2>2. cmd[p].seed # NoSeed
      BY <2>1, KeyCommandFacts, NoSeedAssumption DEF ControlOK, KeySteps
    <2>3. identity[l][n].kind = "store" /\ keyring'[identity[l][n].entry] = NoSeed
      BY <2>1 DEF Dangling
    <2>4. identity[l][n] \in Keys
      BY <2>3 DEF TypeOK, IdentityFile, NoFile, Torn
    <2>5. identity[l][n].entry \in Names
      BY <2>3, <2>4, StoreKeysAreReferences
    <2>6. keyring[identity[l][n].entry] = NoSeed
      BY <2>1, <2>2, <2>3, <2>5 DEF TypeOK
    <2> QED  BY <2>3, <2>6 DEF Dangling
  <1>3. CASE KeyringDelete(p)
    BY <1>3 DEF KeyringDelete, Goto
  <1>4. ASSUME NEW f, f.kind # "store", keyring' = keyring, pc[p] \in KeySteps,
               identity' = [identity EXCEPT ![cmd[p].loc][cmd[p].name] = f]
        PROVE  FALSE
    <2>1. cmd[p].loc \in Locations /\ cmd[p].name \in Names
      BY <1>4, KeyCommandFacts DEF ControlOK
    <2>2. identity'[l][n] = f \/ identity'[l][n] = identity[l][n]
      BY <1>4, <2>1 DEF TypeOK
    <2> QED  BY <2>2, <1>4 DEF Dangling
  <1>5. CASE IdentityOpen(p)
    <2>1. /\ keyring' = keyring /\ pc[p] \in KeySteps
          /\ identity' = [identity EXCEPT ![cmd[p].loc][cmd[p].name] = Torn]
      BY <1>5 DEF IdentityOpen, Goto, KeySteps
    <2>2. Torn.kind # "store"
      BY DEF Torn
    <2> QED  BY <2>1, <2>2, <1>4
  <1>6. CASE IdentityRemove(p)
    <2>1. /\ keyring' = keyring /\ pc[p] \in KeySteps
          /\ identity' = [identity EXCEPT ![cmd[p].loc][cmd[p].name] = NoFile]
      BY <1>6 DEF IdentityRemove, Finish, KeySteps
    <2>2. NoFile.kind # "store"
      BY DEF NoFile
    <2> QED  BY <2>1, <2>2, <1>4
  <1>7. CASE IdentityWrite(p)
    <2>1. /\ keyring' = keyring /\ pc[p] = "write"
          /\ identity' = [identity EXCEPT ![cmd[p].loc][cmd[p].name] = key[p]]
      BY <1>7 DEF IdentityWrite, Finish
    <2>2. /\ cmd[p].loc \in Locations /\ cmd[p].name \in Names
          /\ cmd[p].op \in {"generate", "add"}
      BY <2>1, KeyCommandFacts DEF ControlOK, KeySteps
    <2>3. /\ cmd[p].op = "generate" \/ cmd[p].secure => key[p] = Writes(cmd[p])
          /\ cmd[p].secure => keyring[cmd[p].name] # NoSeed
      BY <2>1 DEF GenerateInv, WriteInv
    <2>4. CASE cmd[p].secure
      <3>1. key[p] = SecureStore(cmd[p].name)
        BY <2>3, <2>4 DEF Writes
      <3>2. identity'[l][n] \in {identity[l][n], SecureStore(cmd[p].name)}
        BY <2>1, <2>2, <3>1 DEF TypeOK
      <3> QED  BY <2>1, <2>3, <2>4, <3>2 DEF Dangling, SecureStore
    <2>5. CASE ~cmd[p].secure /\ cmd[p].op = "generate"
      <3>1. key[p] = Plain(cmd[p].seed)
        BY <2>3, <2>5 DEF Writes
      <3>2. key[p].kind # "store"
        BY <3>1 DEF Plain
      <3> QED  BY <2>1, <3>2, <1>4 DEF KeySteps
    <2>6. CASE ~cmd[p].secure /\ cmd[p].op = "add"
      BY <2>1, <2>6
    <2> QED  BY <2>2, <2>4, <2>5, <2>6
  <1> HIDE DEF Excused
  <1> QED  BY <1>1, <1>2, <1>3, <1>5, <1>6, <1>7, StepsKeepKeys

\* ReferencesKept: for one user, killed at any step and with a keyring that may fail, a
\* secure-store identity loses its seed only to the deletion in `keys rm`.
THEOREM ReferencesKept == ASSUME OneUser PROVE Spec => DanglingOnlyFromRm
  <1>1. TypeOK /\ ControlOK /\ GenerateInv /\ [Next]_vars =>
           [\A l \in Locations, n \in Names :
               (~Dangling(l, n) /\ Dangling(l, n)') =>
                   \E p \in Procs :
                       \/ pc[p] = "delseed"
                       \/ pc[p] = "write" /\ cmd[p].op = "add" /\ ~cmd[p].secure]_vars
    BY DanglingStep
  <1> QED  BY <1>1, TypeCorrect, GenerateCorrect, PTL DEF Spec, DanglingOnlyFromRm

=============================================================================
