# Verification of the Stellar CLI (soroban-tools)

TLA+ modules that model the parts of the `stellar` command line tool that keep
state, talk to the network or convert what the user types, TLC configurations that
check them on small instances, and TLAPS proofs of their main properties for every
instance. Paths below are relative to `src/cmd/soroban-cli/src` unless they begin
with `crates/`, which is `src/cmd/crates`.

## Inventory

The repository is a Rust workspace. `cmd/soroban-cli` is the tool, `cmd/crates/*`
are libraries and tests. All state is outside the process: in two configuration
directories (a local one and a global one), in the operating system's keyring, in a
cache directory, in Docker, on a hardware wallet and on the network. Every command
is a process of its own that reads this state, changes it in a few steps and ends.
There are no locks, so commands that run at the same time interleave, and a process
that is interrupted leaves its last step half done.

| Component | State | Operations | What makes it correct | Module |
|---|---|---|---|---|
| Identities (`config/locator.rs`, `config/key.rs`, `config/secret.rs`, `commands/keys/*`) | `identity/<name>.toml`, local and global | generate, add, rm, reads | a name reads as the key last written for it; keys and aliases do not share names (two processes can break that) | `ConfigStore` |
| Keyring (`signer/secure_store.rs`, `signer/keyring.rs`) | one seed per entry name | get, set, delete | seeds are not lost or replaced silently | `ConfigStore` |
| Contract aliases (`config/alias.rs`, `commands/contract/alias/*`) | `contract-ids/<name>.json`: an id per network | add, remove, `deploy --alias`, resolution | a rewrite for one network keeps the ids of the others | `ConfigStore`, `Events` |
| Contract commands (`commands/contract/{upload,deploy,invoke,extend,restore}`, `txn_result.rs`) | a transaction on its way | build, simulate, sign, submit, poll, log | success means applied; nothing is sent that was only to be shown; each command ends | `TxPipeline`, `EntryTtl` |
| Assembling and envelopes (`assembled.rs`, `fee.rs`, `signer.rs`, `commands/tx/*`, `tx/*`) | an envelope passed on as text | new, op add, simulate, sign, send | signatures belong to the contents; the fee covers the resources; who is asked for has signed | `Assembled`, `TxEnvelope` |
| Snapshot and bucket cache (`commands/snapshot/create.rs`) | cached buckets, wanted keys | download, scan newest to oldest, close over code | the newest version of each wanted entry, and no dead ones | `SnapshotCreate` |
| Arguments (`commands/contract/arg_parsing.rs`, `crates/soroban-spec-tools`) | none | text and JSON to values and back, signers | an accepted argument has its type; what is printed can be read | `InvokeArgs`, `SpecTools`, `SpecExamples`, `Invocation` |
| Networks and defaults (`config/network.rs`, `config/mod.rs`, `cli.rs`, `commands/network/*`) | `network/<name>.toml`, `config.toml`, the environment | add, rm, use, ls, env, fund | defaults survive kills and each other's updates; a flag wins over a variable, and a variable over a default | `NetworkConfig` |
| Action log and spec cache (`config/data.rs`, `get_spec.rs`) | files named by time and by code hash | write, read, list, clean | a spec is the one of the contract's code; nothing logged goes missing or out of order | `DataCache` |
| Upgrade check (`upgrade_check.rs`) | `upgrade_check.json` | once a day, beside the command | recommends what exists, does not ask again once it has saved an answer | `UpgradeCheck` |
| Events (`commands/events.rs`, `toid.rs`) | a cursor | paging | no event skipped, repeated or of another contract | `Events`, `Toid` |
| Containers (`commands/container/*`) | Docker's containers | start, stop, logs | the printed instructions reach the container | `Containers` |
| Hardware wallet (`crates/stellar-ledger`) | what the device has received | chunked requests | what is signed is what was asked for | `LedgerApp` |
| Build, init (`commands/contract/{build,init}.rs`) | a workspace's files | build with `--meta`, generate | the wasm is that of the sources and this command; edits are kept | `ContractBuild`, `ContractInit` |
| Code generators, optimize, inspect, fetch, completion | none | conversions | not a matter of states | none |

What is hard here: the order of file accesses of two processes; kills between a
truncation and a write; the order of keyring and file; state read before a network
call and used after it (sequence numbers, the source key, the code of a contract, an
alias); answers that are lost and transactions that are applied late or never;
handlers that run other handlers with the same flags; two passes over buckets that
another process replaces; 32-bit fees, chunk sizes and ids at their limits.
`PROJECT.json` lists the hazards at their lines, each with the properties about it.

## Plan

1. `ConfigStore`, `TxPipeline` and their proofs. *Done.*
2. `SnapshotCreate` against the abstract `LedgerView`, with its refinement proved.
   *Done.*
3. `Assembled` and `TxEnvelope` with proofs; `EntryTtl`. *Done.*
4. `SpecTools`, `InvokeArgs` and `Invocation`. *Done.*
5. `NetworkConfig`, `DataCache`, `UpgradeCheck`, `Events`, `Toid`, `Containers`, `LedgerApp`,
   `ContractBuild`, `ContractInit`, composed in `Workstation` and `Services`. *Done.*
6. `KeysProofs`, about the keys and the keyring. *Done.*
7. Proofs of the remaining safety properties: the flags of the pipeline, the sequence
   number of an envelope, every property of `Workstation` and `Services`, the signers of an
   invocation. *Done.*
8. Proofs about the conversions of `SpecTools`, by induction over the nesting of JSON, of types and
   of values: what is read has its type, what is printed is read back. *Done.*
9. What goes wrong only with a second process or a hard link, as runs that
   expect a violation, beside the properties that hold there. *Done.*

## Modules

All modules model the code at the grain of what another process, a kill or the
network can come between: one file access, one call of the keyring, one exchange
with the network. Names, seeds, hashes, ids and passphrases are model values or
members of small sets. Definitions marked as mutants, or described as a faulty form,
stand before the definition that they are a variant of: with the fault in place TLC
finds the property violated.

### ConfigStore

Processes run commands on two directories and the keyring. `pc[p]` is the next step
of process `p`, `cmd[p]` its command line, `key[p]` and `ids[p]` what it holds in
memory. `Kill(p)` ends a process at any step.

| Variable | In the code |
|---|---|
| `identity[l][n]` | file `identity/<n>.toml` in directory `l`: missing, torn, a public key, a secret, a reference to a keyring entry |
| `aliases[l][n]` | file `contract-ids/<n>.json`: missing, torn or whole, and its `ids` map |
| `keyring[n]` | the seed under the entry of name `n`; the name does not depend on the directory |
| `acked` | history: the id last reported as saved, per directory, name and network |
| `outcome[p]` | how the last command of `p` ended |

| Actions | In the code |
|---|---|
| `KeysGenerate`, `KeysAdd`, `KeysRm` | the commands up to their first access that changes something; checks that fail end a command without effect and are guards |
| `KeyringKeep`, `KeyringMissing`, `KeyringSet`, `KeyringFails` | `write_to_secure_store` |
| `IdentityOverlap`, `IdentityOpen`, `IdentityWrite` | `write_identity`, `KeyType::write` |
| `KeyringDelete`, `IdentityRemove` | `remove_identity` |
| `AliasAdd`, `DeployAlias`, `AliasRemove` | the commands |
| `AliasOverlap`, `AliasRead`, `AliasOpen`, `AliasWrite` | `save_contract_id`, `remove_contract_id` |

A file that is torn does not parse: as an identity it is skipped, as an alias file it
counts as empty. A write that is cut off half-way is the same as a torn file.
`NamesOf` says which names the commands of a process mention, so that both one user
and several processes on different names are instances.

### TxPipeline and EntryTtl

`TxPipeline`: processes run `upload`, `deploy`, `invoke`, `extend` and `restore` from one
source identity. `phase[p]` is the handler that a process is in, and `ReturnRes` and
`Enter` say how handlers follow each other: deploy runs upload and then create, upload
runs restore when the code turns out to be archived, restore runs extend when asked.
Inside a handler the steps are `Build` (reads the sequence number and the source
identity), `CheckInstalled`, `Simulate`, `Authorize`, `Sign` (resolves the identity
again), `Submit`, `PollDone` or `PollFails`, `Log`, `Inspect` and `SaveAlias`. Each
call may also fail (`Fail`), and each process may be killed (`Kill`).

The network is external and modelled by how the code uses it: it takes a transaction
with the account's next sequence number and the account's signature into `pending`;
it applies (`Apply`, `Effect`) or drops (`Drop`) pending transactions at any time,
also when nobody polls any more; the answer to a submission may be lost; code may
be archived (`Archive`). `ReplaceKey` is another user of the identity. A
transaction is named by its contents, so equal transactions of two processes are one.
`saved` is the alias file reduced to one id; its file accesses are in `ConfigStore`.
Fees, footprints, events and metadata are left out; what the simulation says about
effects (`PreSimulate`) and whether the metadata shows a change (`InspectPanics`)
are free choices.

`EntryTtl` is what that last choice leaves open: how `extend` and `restore` tell from
the changes of a transaction (`MatchChanges`, `ParseOperations`) and from a second
question to the network (`AskEntry`) how long an entry lives, while ledgers close and
another process extends or restores the same entry.

### LedgerArchive, LedgerView and SnapshotCreate

`LedgerArchive` has the data: buckets of entries and tombstones, checkpoints as
sequences of buckets from the newest level on, what a search finds (`Keep`) and what
an entry makes wanted (`Refs`). `LedgerView` is the abstract specification, from the
help of the command: in one step the user's request is answered with the newest
version of every wanted entry, code and issuers of wanted contracts included.

`SnapshotCreate` is the command: address resolution (`Resolve`), the cache
(`CheckCache`, `OpenDownload`, `Copy`, `RenameDownload`), the passes (`NextPass`,
`ReadBucket`) and the output (`WriteSnapshot`). Files are inodes, because two
processes that open one `.dl` path write to one inode, and a file that `cache clean`
unlinked is still written. `WrittenIsView` is the refinement: `req` is the request, the
written entries are the result.

### Assembled and TxEnvelope

`Assembled` has the functions of `assembled.rs`, `fee.rs` and `signer.rs` as operators:
`Assemble` with its checks in their order (`Assembles`) and its integer widths,
`ApplyFee`, `RequiresAuth`, `SignEntries`, and the operation bodies of `tx new`.

`TxEnvelope` moves one envelope through any sequence of `tx new`, `tx op add`,
`tx simulate`, `tx sign`, the signing at a web page (`TxSignLab`), `tx send`, and through
`tx new` and `contract invoke` when these go all the way. `stage` is the step at which
such a command holds the envelope. Ledgers close and the account is used elsewhere
between any two steps. A signature is a key with the transaction and the network that
it was made for.

### ArgTexts, SpecTools, SpecExamples, InvokeArgs and Invocation

`ArgTexts` has the data: a text is a word with the number of quotations around it, or a JSON
value; an outcome of a conversion is a value, an error or a panic. `SpecTools` has both
directions of the conversion of values (`from_string`, `from_json`, `xdr_to_json`). The integer
types keep their order of ranges at a small width, and what is beyond 64 bits is read as a
floating point number, as `serde_json` does. `RawScVals` is the JSON that `serde_json::from_value`
takes for an `ScVal`, the last arm of both matches. `SpecExamples` has the examples of the help,
which the run takes as inputs.

The conversions call themselves on the parts of a value. In `SpecTools` such a call is a constant
(`FromJsonCall` in `FromJson`, and likewise `FromStringCall`, `ToJsonCall`, `XdrToJsonCall`), and the
configuration gives it the definition as its value (`FromJsonCall <- McFromJson`, which is `FromJson`). So TLC evaluates the
recursive functions of the code, while the definitions are plain equations, which the prover can
use. The constants `Height`, `Depth` and `Size` have the JSON values, types and contract values that
occur, each with a number above that of its parts; they are what the inductions go by.

`InvokeArgs` is `build_host_function_parameters`: typed arguments, files and omitted options,
addresses, the signers, the call, the printed result, and a user who passes that result on in another
call. An address argument is resolved twice, as in the code: `ResolveAddress` takes a strkey, a contract
alias or a key, `ResolveSigner` a key alone. A key (`ReadKey`) is the word itself, a secret, a seed phrase, a
public key or an M address (`InlineKeys`), or what an identity file has, which may also be an entry of the
secure store. Names of identities, aliases and addresses may be equal. A file for Bytes or BytesN is its
bytes (`FileBytes`), which are not decoded.

`Invocation` says what a value of a type is to the contract (`Fits`): a struct with names is the map of
all its fields, BytesN has N bytes, a case of a union has all of its values. The reader does not always ask for
that, and `Proper` says which JSON it reads as the declared type: not items that are too few or an array for a
struct with names (`crates/soroban-spec-tools/src/lib.rs:343`), not an address or an array of another length for
BytesN (`:857`, `:876`), not an `ScVal`'s own JSON (`:319`, `:895`). `BackType` says for which types a printed value is
read back: not for an option in an option, whose two ways of being absent print alike, a map as the one
value of a union's case, which may be taken for an array, or a wide integer as the key of a map. In files
(`FileTypes`) also not for bytes, which are printed as hex and taken raw, options, which are not read from files,
bool, whose default comes first, and wide integers, which keep their quotation marks.

### The smaller ones

* `NetworkConfig`: network files in a directory and globally, built-in networks, `config.toml`,
  and what names a network and a source account: a flag, a SOROBAN_ variable (which `main` copies
  over the STELLAR_ one, `MapSoroban`), a STELLAR_ variable, a default. `SetEnvFromConfig` is the start of
  every command, and turns the defaults into variables before flags are parsed; `offered` is a history of the
  defaults that `config.toml` had while a process ran. `CheckDefault`, `ReadDefaults`,
  `TruncateConfig` and `SaveConfig` are `network use` and `keys use`; `Fund` is friendbot, with
  answers that are lost.
* `DataCache`: a spec file is written in place (`WriteSpec`, `FinishSpec`), so it may hold a
  part of its entries; a contract may be upgraded between reading its instance and using the
  spec; `Ls` and `ReadAction` list the action log while others write it. The id of an action is the
  millisecond and a random number (`NewIds`), so that ids of one millisecond sort at random; 80 random bits
  are not drawn twice. `cache clean` removes file by file (`CleanSpec`, `CleanAction`) and may fail half-way.
* `UpgradeCheck`: load, fetch, truncate, save and warn, cut off at any point when the command
  ends (`End`); truncation and save may fail, and the check goes on. `kept` is a history of the time that
  was saved last.
* `Events`: resolution of aliases and topics, the request of a page, and a user who continues at
  the last id. `Toid`: the packing of ids.
* `Containers`: which daemon answers to `--docker-host`, the steps of `start`, and a user who
  follows the printed instructions.
* `LedgerApp`: the chunks of a transaction and a device that puts them together, with exchanges
  that fail after the device has received the chunk or before.
* `ContractBuild`: the selection of packages, and what happens to the wasm file after cargo has
  put it into the target directory, as a copy or as a hard link of its own file (`Links`). `ContractInit`: the two templates, file by file.

### Workstation and Services

`Workstation` holds `NetworkConfig`, `DataCache`, `UpgradeCheck`, `ContractBuild` and
`ContractInit` side by side, `Services` holds `Events`, `EntryTtl`, `Containers`, `LedgerApp` and
`Toid`. The components of each have no state in common, so a behaviour belongs to one of them
(`part`, `service`) and the variables of the others stand still: the state space is the sum of
theirs and not the product, and the type or the step of one component is never a hypothesis
about another. `NetworkConfig` occurs three times, `DataCache` and `UpgradeCheck` twice, with the operations
and processes that each question needs (`Procs` are processes that interleave, `Users` those
that run one after the other). Assumptions on the constants of the components are asserted
there, so that TLC evaluates them and the proofs can cite them.

### MC modules

`MCConfigStore`, `MCTxPipeline`, `MCSnapshot`, `MCTxEnvelope`, `MCInvocation`, `MCWorkstation` and
`MCServices` define the constants of the instances that TLC checks.

## Runs

| Run | Checks | Shows |
|---|---|---|
| `ConfigStore` | `TypeOK`, `AliasIdsDurable`, `GenerateTakesEffect`, `SeedReplacedOnlyBlind`, `DanglingOnlyFromRm` | one user, all commands on keys and aliases, both directories, two networks, ids and seeds, typed references, a failing keyring, kills everywhere: the ids of all networks survive rewrites, a new key is the one that is read, seeds and references stay together |
| `TxDeploy` | `SuccessIsOnLedger`, `AliasNamesCreated`, `OwnSequences` | two processes, two accounts, two commands among upload, deploy with a file, and deploy of a hash |
| `TxFlags` | `TypeOK`, `OnlyFlagsSendNothing`, `DeployNeverPanics`, `CommandEnds` | all five commands with all their flags, two in a row: what the flags promise, and that every command ends |
| `Snapshot` | `BucketsComplete`, `WrittenIsView`, `SnapshotEnds` | five requests on two checkpoints, with tombstones, upgrades, assets, kills and cleaned caches: no part of a bucket is ever taken for a bucket; the refinement of `LedgerView`; the command ends |
| `TxEnvelope` | `TypeOK`, `SignaturesFit`, `OpsAreAsked`, `FeePays`, `OnlyStaleSequence`, `CallsAuthorized` | every sequence of commands on an envelope of up to two operations and signatures, fees at the limit of their type |
| `SpecArgs` | `ArgsTyped`, `BackFromFile`, `SignersArePassed` | every argument text, proper or not, against 29 functions with simple, nested and user defined types; printed results passed on in files; strkeys, secrets, phrases, aliases and identities as addresses, a name that is an identity and an alias, and one that is an identity and an address |
| `Workstation` | `SavedDefaults`, `ChoiceIsTheUsers`, `FundedIsTrue`, `SpecOfContract`, `LogListed`, `RecommendsReleased`, `QuietOnceSaved`, `BuildExactAnew`, `EditsKept` | what the commands keep on the user's machine, one part per behaviour, kills at every file access |
| `Services` | `PagesInOrder`, `OnlyAsked`, `ReportedLives`, `InstructionsStop`, `SignsTheCall`, `IdsGrow` | events, times to live, Docker, the hardware wallet, and ids, one service per behaviour |
| `TxSimOnly` | `SimOnlySendsNothing`, violated | `extend --sim-only` and `restore --sim-only` submit the transaction |
| `SnapParallel` | `OnlyNewest`, violated | two processes that download one bucket publish a part of it, and a snapshot has the old instance of a contract that was upgraded in that bucket |
| `ConfigRace` | `NameExclusive`, violated | `keys generate` and `contract alias add` of one name at the same time both succeed |
| `BuildLinked` | `BuildExact`, violated | a second build with other `--meta` keeps the entries of the first; `BuildExactAnew` is what remains |

### Bounds

* `ConfigStore`: two networks for an id that a rewrite must keep, two seeds or ids for a
  replacement, two directories; one process for every sequence of commands of one user
  (commands are not counted: the state space is finite). Networks, ids and seeds are only compared
  for equality, so the run takes their permutations as symmetries. One name is enough for the
  properties, which speak of one name; a reference may name an entry whose seed another
  directory's key owns. Several names and processes are in the theorems.
* `TxPipeline`: sequence numbers grow, so `MaxRuns` bounds the number of commands; with two,
  one command can interfere with another, follow it, or retry it after a timeout. One code
  and two salts distinguish a repeated creation from a new one. `TxFlags` has one process: a
  second one could only change the ledger between two steps, which `Apply`, `Drop`, `Archive` and
  `ReplaceKey` do there as well; `TxDeploy` has two.
* `SnapshotCreate`: three levels, so that an entry can be found, hidden by a tombstone or
  replaced above another one; an archive in which a second pass finds code and an issuer. With
  one process three inodes are as good as any number: a bucket has at most one file or `.dl`
  file that is linked, and what `cache clean` unlinks is used again only by the one process
  that has it open; OpenDownload needs a free one only for a bucket that has none. Two
  processes (`SnapParallel`) have four.
* `TxEnvelope`: two operations and two signatures for their order; `U32` 16 and `U64` 64, with
  simulated fees just below and at the limit; one ledger and one use of the account elsewhere.
* `Invocation`: widths are reduced (`u32` is 0 .. 2, the largest `u64` is 12, the largest
  `u128` 13), so that every boundary between types is crossed by some text. Types nest two deep in the
  run (options in vectors, structs in unions in tuples), vectors and maps have up to two entries.
* `EntryTtl`: four ledgers, an extension limit of three and an argument beyond it.
  `LedgerApp`: chunks of four bytes and payloads of 0 to 9, so that the data ends before, at
  and after one, two and three chunks. `Toid`: 16 ledgers of 4 transactions of 4 operations.
  `Events`: three events, pages of one and two.
* `Workstation` (2 million states): `DataCache` has three commands of two processes and two codes of
  one contract, so that a command runs while another fills the cache and a third replaces or
  cleans it, in two milliseconds with two ids each (`MaxClock`, `MaxRandom`): ids of one millisecond in
  either order, and of two. `UpgradeCheck` has the versions 1 to 3 with a preview among them, two processes that
  overwrite each other's file, and time for one more request after the first interval.
  `NetworkConfig` has one process at a time where it is about files and friendbot, and two where one
  chooses (`ChoiceLines`: flags for the network, the account, one or both of the address and passphrase) while
  the other sets defaults; `Shells` has no variables, both families with different values, and one family.
  `ContractBuild` has two contracts and a library, one edit of the sources, links and copies, and no new command
  once more than `MaxMeta` entries have piled up in cargo's own file. `ContractInit` has two contracts, two
  edits and a kill. More processes, versions, packages and files are in the theorems.

`ConfigRace` has two processes, one name and one directory.

`Inodes`, `U32`, `Max...`, `Edits`, `Kills` and `Counts` are the names of these bounds in the
modules.

### Fairness and deadlock

`TxFlags` and `Snapshot` assume weak fairness of the steps of each process: the operating
system schedules it and every call returns, the polling with an error after its timeout, a
download with an error when it breaks. Nothing is assumed of the network, of other processes
or of `cache clean`: transactions may stay pending for ever, and a cache may be emptied again
and again. The other properties are safety properties and need none.

Deadlock is not checked where a bound ends a behaviour: in `TxPipeline` when `MaxRuns` commands
have ended, in `Workstation` and `Services` when a bound of the part is reached. It is
checked in all other runs.

### Findings

Four runs expect a violation and `PROJECT.json` quotes the lines they contradict: `TxSimOnly`,
`SnapParallel`, `ConfigRace` and `BuildLinked`. More divergences between the code and what its help, comments or tests say
were met while modelling. The modules follow the code in each of them; where a property
above has a premise that looks arbitrary, this is the reason.

| At | The code |
|---|---|
| `config/locator.rs:197` | `keys add` does not make the check for an alias of the same name that `keys generate` makes, and that check looks at one directory only |
| `signer/secure_store.rs:61` | `generate --overwrite --secure-store` keeps the seed that the keyring has |
| `config/locator.rs:318` | `keys rm` of a global identity without `--global` deletes its seed and not its file |
| `config/locator.rs:350`, `:183` | the checks that keep keys and aliases apart hold nothing: two processes give a name both meanings (run `ConfigRace`) |
| `config/locator.rs:358` | two processes that save ids of one alias lose one of them |
| `commands/contract/invoke.rs:246` | `--build-only` of a function that only reads prints its result and builds nothing |
| `commands/contract/extend.rs:217` | indexes an empty list of changes when the entry lives exactly as long as was asked |
| `commands/snapshot/create.rs:410` | a G address parses as an `ScAddress` and is searched for as a contract: its account is not found |
| `commands/snapshot/create.rs:479` | below the first checkpoint the suggested ledger underflows |
| `signer.rs:44` | only the root of the first authorization entry decides whether any of them is signed |
| `fee.rs:57` | `150 / 100` is 1: instructions are not padded |
| `toid.rs:39` | masks before it shifts: the ledger of an id reads as 0 (theorem `LedgerIsLost`); nothing calls it |
| `commands/contract/arg_parsing.rs:117` | a file for an argument of an Option type is not read |
| `crates/soroban-spec-tools/src/lib.rs:261` | a 128 or 256 bit integer in a file keeps the quotes of its JSON and is refused |
| `crates/soroban-spec-tools/src/lib.rs:319`, `:895` | JSON that no arm of the match takes is read as an `ScVal` of any type: `"void"` and `{"u32":1}` are accepted for a vector or a string (with the next three rows, what `Proper` leaves out of `ArgsTyped`) |
| `crates/soroban-spec-tools/src/lib.rs:343`, `:361` | an array is taken for a struct with named fields and becomes a vector; items and fields are paired as far as both go, so that `[]` is a value of every struct |
| `crates/soroban-spec-tools/src/lib.rs:402` | a case of a union is taken with too few values, or with none when it is a word |
| `crates/soroban-spec-tools/src/lib.rs:857`, `:876` | an address is taken for BytesN<32> and becomes an Address; an array of any length is taken for BytesN |
| `commands/contract/arg_parsing.rs:120` | a file for Bytes or BytesN is taken raw, at any length: what the tool printed for such a value, quoted hex, is not that value when it is given back in a file |
| `commands/contract/arg_parsing.rs:109`, `config/sc_address.rs:56` | an argument that is a contract alias and an identity is passed as the contract, with a warning, and the identity's key signs all the same; so does an identity that is named like a contract's address, without a warning |
| `crates/soroban-spec-tools/src/lib.rs:573` | the keys of a printed map have quotes of their own |
| `crates/soroban-spec-tools/src/lib.rs:849` | bytes typed as more than 64 bits of digits were read as a floating point number |
| `crates/soroban-spec-tools/src/lib.rs:1225` | the example for Bytes has an odd number of digits |
| `commands/network/default.rs:26` | a default is checked where the command runs and used everywhere |
| `config/mod.rs:196` | `network use` and `keys use` at the same time lose one of the defaults |
| `config/network.rs:109` | `--rpc-url` with `--network` is not refused, and a `--network` flag is ignored without a word when STELLAR_RPC_URL and STELLAR_NETWORK_PASSPHRASE are set |
| `commands/network/ls.rs:31` | `ls -l --global` shows nothing: it compares the place of a network, a path, with a word |
| `commands/network/ls.rs:31` | `ls --global` without `-l` is not filtered |
| `commands/keys/generate.rs:111` | "funded" is printed whatever friendbot said |
| `config/data.rs:83` | a spec that was partly written counts as the contract's spec |
| `config/data.rs:114` | one torn action file fails the listing of all |
| `config/data.rs:64` | two actions of one millisecond are listed in either order |
| `cli.rs:83` | a command that ends first does not save the time of its upgrade check, and the next one asks crates.io again; `QuietOnceSaved` is what remains |
| `commands/events.rs:141` | five segments of a topic pass |
| `commands/container/shared.rs:69` | a tcp or http `--docker-host` is not used |
| `commands/container/start.rs:193` | of two host ports for one container port one is bound |
| `crates/stellar-ledger/src/hd_path.rs:34` | an index of 2^31 or more panics |
| `commands/contract/build.rs:248` | a package selected by its manifest is built whatever its crate type is |
| `commands/contract/build.rs:305` | where cargo made the wasm a hard link of its own file, entries of an earlier `--meta` stay in it (run `BuildLinked`) |
| `commands/contract/init.rs:103`, `:149` | any existing directory is taken, and an empty file that a kill left is kept |

## Proofs

`ConfigStoreProofs`, for any processes, names, networks, contracts and seeds:

* `TypeCorrect`: `TypeOK` with `ControlOK`, which ties every step to a command that
  has it; without that tie the fields of `cmd` that a step uses need not exist.
* `AliasesDurable`: `AliasIdsDurable`, if commands of different processes mention
  different names (`DisjointNames`). The property is not inductive: a process that has
  read a file could write back something else. `AliasInv` adds that what it has read is
  what was acknowledged, and that the file is empty while it is being rewritten.

`DisjointNames` is needed: two processes that save ids under the same alias do lose one of
them, because the code has no lock. For the same reason nothing is proved of `NameExclusive`, which
the run `ConfigRace` shows to be false.

`KeysProofs`, for any names and seeds, with kills at any step and a keyring that may fail:

* `SeedsKept`: `SeedReplacedOnlyBlind`, under `DisjointNames`. `SeedInv` adds that an entry that
  was read as missing is still missing when the seed is stored.
* `GenerateEffective` and `ReferencesKept`: `GenerateTakesEffect` and `DanglingOnlyFromRm`, for
  one process (`OneUser`). `DisjointNames` is not enough here: `keys rm` deletes the entry that
  an identity refers to, and a reference typed by hand may be to the entry of another name.
  `GenerateInv` adds what is established at each step before the write: the name is readable
  in neither directory, and the keyring has the seed that the file will refer to.

`TxPipelineProofs`, for any processes, accounts, codes, salts and command lines:

* `SuccessOnLedger`, `AliasCreated`, `SequencesDiffer`, `PipelineTypes`, all from one
  inductive invariant, `PipelineInv`. Its parts: `LedgerInv` (what a result says of the
  ledger), and for each process `HandlerAt` and `TxAt` (which handler, command and
  transaction belong to a step), `SentAt` (when a handler starts, everything sent
  before is applied) and `SequenceAt`. The lemma `Frame` says that a process that does
  not move keeps its part while the ledger grows; so each action is considered for
  the process that takes it only.
* `FlagsSendNothing` (`OnlyFlagsSendNothing`) and `DeployHasNoPanic` (`DeployNeverPanics`), from
  `FlagsInv` on top of `PipelineInv`. `FlagsAt` says that the steps behind the tests of the flags
  belong to command lines that send, and that an upload inside deploy, or a restore inside another
  command, runs only when the flags let it; without the second part a nested handler could
  come back with an envelope, which is the panic.

`SnapshotProofs`, for any archive, checkpoints and requests, with kills and `cache clean`:

* `SnapshotTypes`, `CacheComplete`, `SnapshotIsExact` and `Refinement` (`WrittenIsView`, the step
  simulation of `LedgerView`), from `SnapshotInv`. `CacheInv` and `CopyAt` say that the file
  that is being written is linked nowhere as a bucket and has the entries copied so far;
  `SearchAt` says where a process is: before level `n` of the first pass it has found what the
  wanted terms find in the levels before (`FirstPass`), in the second pass all of that and what
  the references find before `n` (`SecondPass`); there is no third pass, because code and
  issuers refer to nothing. The lemmas `ReadFirst` and `ReadSecond` say what one bucket adds,
  and rest on `FirstMention`: the newest version of a key is in the first level that
  mentions it.
* Assumptions: `Sole`, at most one process, without which `SnapParallel` shows the theorem
  false; for `SnapshotIsExact` and `Refinement` also `NoGAddress`, no request has a G address
  (see the findings).

`TxEnvelopeProofs`, for any accounts, operations, answers of simulations and widths of integers:

* `EnvelopeTypes`, `SignaturesAlwaysFit`, `OpsAlwaysAsked`, `FeeAlwaysPays`,
  `CallsAlwaysAuthorized`. Their conjunction `EnvelopeInv` is inductive. `FeeAlwaysPays` needs
  `WidthAssumption` and `SimsAssumption`: a resource fee is an `i64`, so that adding the
  inclusion fee does not wrap a `u64`, and a sum beyond a `u32` is refused.

* `OnlyStaleIsRefused`: `OnlyStaleSequence`. `SequenceInv`, on top of `EnvelopeInv`: the envelope
  has the number after the one that was read when it was built, and the account has only
  moved on since. That no command touches the number or the source is `AssembleSequence` and
  `EntriesSequence`.

`WorkstationProofs`. The lemmas `PartStart` and `PartStep` reduce a step of the whole to a step of
its part, so each theorem below is an induction over one component:

* `InitKeepsEdits` (`EditsKept`, an action property). `InitAt`: a file that is about to be created
  was absent when it was checked and still is, because the module has no edit of the one file
  that the command is at (the gap between the check and the write is too short for a user's
  editor); so what the write replaces is an empty file.
* `ChoicesAreTheUsers` (`ChoiceIsTheUsers`), any number of processes, variables and command lines.
  `ChoiceAt`: what config.toml has now is among the defaults that were offered to each process that runs
  (`offered`), the variables of a process come from its shell or from these (`EnvKnown`), and what it used
  and shows comes from its flags or its variables (`UsedKnown`, `ShownKnown`).
* `DefaultsAreSaved` (`SavedDefaults`), for one process after the other (`OneUser`): with two, the
  rewrite of config.toml loses a default (see the findings). `DefaultsInv`: what a process is about to
  write is what was saved, with its own change.
* `FundedAreFunded` (`FundedIsTrue`), any number of processes and lost answers.
* `UsesTheSpecOfTheContract` (`SpecOfContract`). `SpecsNamed`: a file of the cache is of the code
  whose hash is its name, whole or not; `SpecAt`: the hash that a process holds is one the
  contract has had since the process started. A contract that is upgraded in between
  only adds to what counts.
* `ListsEveryAction` (`LogListed`). `FilesInv`: every file holds the action that its id was drawn for, and no
  id was drawn twice; `LogAt`: what is still to be listed sorts before what is listed, and together they
  have every action that was complete before. The order of the ids gives that of the milliseconds.
* `RecommendsWhatExists` (`RecommendsReleased`). `Remembers`: every record, in memory or in the file,
  names released versions or none, and the stable one is stable. Releases only grow.
* `AsksOnceSaved` (`QuietOnceSaved`), for commands that run one after the other (`OneUser`) and end anywhere:
  `FileKept`, the file has the time that was saved last, unless a check of a later interval has truncated it;
  `RequestsAt`: a process that is past its load has seen a time that was an interval ago.
* `BuildsAreExact` (`BuildExactAnew`), with links and copies, if cargo knows each package by its own name
  (`WorkspaceAssumption`). `CargoInv`: what cargo has compiled and put as a copy is in its own directory
  unchanged; `BuildAt`: how far the current package is; `FinishedExact`: the packages before it are finished.

`ServicesProofs`, in the same way:

* `LivesAsReported` (`ReportedLives`). `ChangesOf`: the changes that a process got are none, or
  a lifetime that nobody has shortened since and that covers what was asked for.
* `SignsEveryCall` (`SignsTheCall`), for any chunk size and payloads. `WalletInv`: before chunk n > 0 the
  device has the n chunks before it, of this call; the first chunk clears what an earlier call left.
* `StopsWhatItSays` (`InstructionsStop`). `NoteAt`: as long as the container of some instructions exists
  it runs under their name on the daemon that their host leads to; `DockerAt`: a container that is
  created and not yet run is known to its process alone. Ids are unique.
* `PagesEveryEvent`, `PagesOnlyAsked` (`PagesInOrder`, `OnlyAsked`). `PagingInv`: everything printed is at
  or before the cursor, and the cursor is an event.
* `IdsAlwaysGrow` (`IdsGrow`, an action property), for any widths of the fields, from the lemma `Below` that the
  largest place within a ledger is below the first of the next one; and `LedgerIsLost`.

`InvocationProofs`, for any contract spec, functions, command lines and values, nested to any depth; the
words, the integer ranges and the hex digits are those of `ArgTexts` and `SpecTools`:

* `ReadFits`: what `from_string` and `from_json` accept for a type is a value of it (`Fits`), if the JSON is
  proper for the type (`Proper`). A least counterexample is refuted: first by `Height`, then by `Depth`, because an
  option hands the same JSON to the type inside it. Each arm of `from_json` has a lemma of its own; the one
  of maps and structs rests on `Sorted`, that `sorted_from` leaves the keys strictly ascending, the ones of bytes
  on `PaddedLength` and `ReadNumbers`.
* `ArgumentsAreTyped` (`ArgsTyped`) and `SecretsSign` (`SignersArePassed`). `ArgsInv`: at every step
  the arguments parsed so far are of their types if they were given properly, each address argument is what its
  word resolves to (`ResolvesTo`), and the signers are those of these words (`Signs`). The lemma `SignerIsResolved`
  has the argument: the key that a word is or names gives the address and the signer alike, unless the
  word is a contract's alias or address, where the key is asked only for the signer.
* `PrintedIsRead`: what `xdr_to_json` prints for a value of a type in `BackTypes`, `from_string` reads as
  that value. A least counterexample again, by `Size` and then `Depth`. Each kind of type has a lemma
  (`VecBack`, `MapBack`, `UnionBack`, ...) which takes the parts as read back (`BackBelow`). What the parts need
  to tell each other is `IsBack`: null is printed at option types alone, and only a map is printed as
  an object with a member 0, which `parse_union` would take for an array. `MapBack` needs that two
  keys print differently, which follows from their being read back (`KeysDiffer`), and that
  sorting what is sorted changes nothing (`SortedAgain`).
* `PrintedComesBack` (`BackFromFile`). `BackInv`, on top of `ArgsInv`: a line that has a value to give
  back is the text printed for it, alone.
* Assumptions. `CallsAssumption`, `FitsAssumption` and the last part of `BackAssumption`: a call has the value of the
  definition it stands for. `TypesAssumption`, `JsonsAssumption` and `BackAssumption`: the sets of
  types, JSON and values have the parts of their members, each with a lower number; finite trees have such numbers.
  `KeysAssumption`: `ScVal`s that are keys are totally ordered. `WordsAssumption`: numbers are written
  differently. `RawAssumption`, `FnsAssumption`, `InputsAssumption`, `ShowsAssumption`: shapes of
  texts, inputs and results. `KeysAreKeys`: a G address is a key of its own account, and an alias names a contract. TLC evaluates all of them in the run `SpecArgs`.

Only model-checked: `CommandEnds` and `SnapshotEnds`, liveness under fairness, which the prover does not
handle.

## Not modelled

* Code generators: `soroban-spec-json`, `soroban-spec-typescript`, `contract bindings`: a spec in,
  text out. They follow the structure of the types, which `SpecTools` has for values.
* `contract optimize`, `inspect`, `info`, `fetch`, `read`, `id`, `completion`, `tx hash`, the reading
  of wasm sections, and `arg_value_name`: they print, or write one file.
* `contract asset deploy`, which is the pipeline's common part with another operation;
  `restore_txn` of `assembled.rs`, which nothing calls outside of that file.
* The transports of `stellar-ledger` (USB, emulator), and the RPC client and Docker
  libraries: external, modelled by how the code uses them.
* Cryptography (derivation, signatures, hashes are symbols), formats of files and XDR, printing,
  prompts, the migration of old configuration directories, flags handed on to cargo, plugins,
  and errors of the disk other than a kill.
* `keys add` of a name that `NetworkConfig` has as an identity: whether `keys use` finds the identity is a free
  choice there, the files are in `ConfigStore`.
* Two processes that set defaults in the run of `SavedDefaults`, which is about one at a time; the run of
  `ChoiceIsTheUsers` has two, and its theorem and that about `FundedIsTrue` are for any number.
