----------------------------- MODULE TxPipeline -----------------------------
(***************************************************************************)
(* How the commands that change the ledger get their transactions there:   *)
(* `contract upload`, `deploy`, `invoke`, `extend` and `restore`            *)
(* (commands/contract/*.rs).  Each reads the account's sequence number,     *)
(* builds a transaction, simulates it, signs it, submits it and polls for  *)
(* its result; deploy runs upload first, upload may run restore, and       *)
(* restore may run extend.                                                 *)
(*                                                                         *)
(* Several processes use one source identity, and a process may be killed  *)
(* at any step.  The network is external: it applies or drops a submitted  *)
(* transaction at any time, whether or not anybody still waits for it.     *)
(***************************************************************************)
EXTENDS Naturals

CONSTANTS
    Procs,          \* the processes
    Accounts,       \* what the source identity may resolve to
    Wasms,          \* contract code, named by its hash
    Salts,          \* salts of contract ids (--salt, or a random one)
    Commands,       \* the command lines that users run
    MaxRuns,        \* bound on the number of commands that are run
    None            \* no command, no transaction, no contract id

\* The flags --build-only and --sim-only exclude each other.
CommandLine ==
    [op      : {"upload", "deploy", "invoke", "extend", "restore"},
     only    : {"no", "build", "sim"},
     wasm    : Wasms,               \* the code that the command is about
     upload  : BOOLEAN,             \* deploy: --wasm, not --wasm-hash
     salt    : Salts,               \* deploy
     alias   : BOOLEAN,             \* deploy --alias
     send    : {"default", "no", "yes"},    \* invoke --send
     view    : BOOLEAN,             \* invoke --is-view
     extend  : BOOLEAN]             \* restore --ledgers-to-extend

ASSUME CommandsAssumption == Commands \subseteq CommandLine
ASSUME MaxRunsAssumption == MaxRuns \in Nat
ASSUME NoneAssumption == None \notin Accounts \X Salts

ContractIds == Accounts \X Salts    \* get_contract_id: a hash of both

Phases == {"upload", "create", "invoke", "extend", "restore"}

\* A transaction; it is named by its contents, as its hash is.
Tx == {t \in [kind : Phases, src : Accounts, seq : Nat, wasm : Wasms,
              cid : ContractIds \cup {None}, signer : Accounts] :
          t.kind = "create" => t.cid \in ContractIds}

Steps == {"presim", "build", "check", "simulate", "authorize", "sign", "submit", "poll",
          "log", "inspect", "alias"}

VARIABLES
    source,     \* the account that the source identity resolves to
    seq,        \* the accounts' sequence numbers on the ledger
    code,       \* the ledger entries of the contract code
    contracts,  \* the contracts that exist
    pending,    \* transactions submitted and not yet applied or dropped
    applied,    \* transactions applied, with their results
    saved,      \* the contract id saved under the alias
    pc,         \* the step that each process takes next
    cmd,        \* its command line
    phase,      \* the handler that it is in
    tx,         \* the transaction that it has built
    cid,        \* deploy: the contract id that it reports
    sent,       \* the transactions that this run has submitted
    outcome,    \* how its last command ended
    runs        \* the number of commands run so far

chain == <<seq, code, contracts, pending, applied>>
local == <<cmd, phase, tx, cid, sent>>
vars  == <<source, chain, saved, pc, local, outcome, runs>>

\* TypeOK: the type of every variable.
TypeOK ==
    /\ source \in Accounts
    /\ seq \in [Accounts -> Nat]
    /\ code \in [Wasms -> {"none", "v0", "v1", "archived"}]
    /\ contracts \subseteq ContractIds
    /\ pending \subseteq Tx
    /\ applied \subseteq [tx : Tx, res : {"ok", "failed", "internal"}]
    /\ saved \in ContractIds \cup {None}
    /\ pc \in [Procs -> Steps \cup {"idle"}]
    /\ cmd \in [Procs -> Commands \cup {None}]
    /\ phase \in [Procs -> Phases]
    /\ tx \in [Procs -> Tx \cup {None}]
    /\ cid \in [Procs -> ContractIds \cup {None}]
    /\ sent \in [Procs -> SUBSET Tx]
    /\ outcome \in [Procs -> {"none", "ok", "txn", "err", "panic", "killed"}]
    /\ runs \in 0 .. MaxRuns

Init ==
    /\ source \in Accounts
    /\ seq = [a \in Accounts |-> 0]
    /\ code \in [Wasms -> {"none", "v0"}]
    /\ contracts = {} /\ pending = {} /\ applied = {}
    /\ saved = None
    /\ pc = [p \in Procs |-> "idle"]
    /\ cmd = [p \in Procs |-> None]
    /\ phase = [p \in Procs |-> "upload"]
    /\ tx = [p \in Procs |-> None]
    /\ cid = [p \in Procs |-> None]
    /\ sent = [p \in Procs |-> {}]
    /\ outcome = [p \in Procs |-> "none"]
    /\ runs = 0

---------------------------------------------------------------------------
(* Control.                                                                *)

Goto(p, from, to) == pc[p] = from /\ pc' = [pc EXCEPT ![p] = to]

\* The command returns: with a result ("ok"), with a transaction that it prints
\* ("txn"), or with an error.
Return(p, result) ==
    /\ pc' = [pc EXCEPT ![p] = "idle"]
    /\ outcome' = [outcome EXCEPT ![p] = result]
    /\ UNCHANGED phase

\* Another handler runs next.
Enter(p, ph) ==
    /\ pc' = [pc EXCEPT ![p] = "build"]
    /\ phase' = [phase EXCEPT ![p] = ph]
    /\ UNCHANGED outcome

\* The handler of this phase returns TxnResult::Txn.  That is the end, except that
\* deploy unwraps the result of upload with expect().
ReturnTxn(p) ==
    Return(p, IF cmd[p].op = "deploy" /\ phase[p] = "upload" THEN "panic" ELSE "txn")

\* The handler returns TxnResult::Res: deploy goes on after upload, upload after
\* restore, restore with extend if it was asked to, deploy with the alias.
ReturnRes(p) ==
    CASE phase[p] \in {"upload", "restore"} /\ cmd[p].op = "deploy" -> Enter(p, "create")
      [] phase[p] = "restore" /\ cmd[p].op = "restore" /\ cmd[p].extend -> Enter(p, "extend")
      [] phase[p] = "create" /\ cmd[p].alias -> /\ pc' = [pc EXCEPT ![p] = "alias"]
                                               /\ UNCHANGED <<phase, outcome>>
      [] OTHER -> Return(p, "ok")

\* Mutants of FirstPhase: upload whatever the flags; no handler of its own for upload.
FirstPhaseUploads(c) ==
    IF c.op # "deploy" THEN c.op ELSE IF c.upload THEN "upload" ELSE "create"
FirstPhaseUnsplit(c) == c.op

\* deploy uploads the code first when it has a file, unless it is only to build or
\* to simulate.
FirstPhase(c) ==
    IF c.op # "deploy" THEN c.op
    ELSE IF c.upload /\ c.only = "no" THEN "upload" ELSE "create"

Start(p, c) ==
    /\ pc[p] = "idle"
    /\ runs < MaxRuns
    /\ runs' = runs + 1
    /\ cmd' = [cmd EXCEPT ![p] = c]
    /\ phase' = [phase EXCEPT ![p] = FirstPhase(c)]
    /\ pc' = [pc EXCEPT ![p] = IF c.op = "invoke" THEN "presim" ELSE "build"]
    /\ tx' = [tx EXCEPT ![p] = None]
    /\ cid' = [cid EXCEPT ![p] = None]
    /\ sent' = [sent EXCEPT ![p] = {}]
    /\ outcome' = [outcome EXCEPT ![p] = "none"]
    /\ UNCHANGED <<source, chain, saved>>

---------------------------------------------------------------------------
(* The steps of a handler.                                                 *)

\* should_send_tx; `effects`: the simulation shows a write, an event or an auth entry.
ShouldSend(c, effects) ==
    \/ c.send = "yes"
    \/ c.send = "default" /\ ~c.view /\ effects

\* invoke simulates with a default account and decides whether to go on.
PreSimulate(p, effects) ==
    /\ pc[p] = "presim"
    /\ IF ShouldSend(cmd[p], effects)
       THEN Goto(p, "presim", "build") /\ UNCHANGED <<phase, outcome>>
       ELSE Return(p, "ok")
    /\ UNCHANGED <<source, chain, saved, cmd, tx, cid, sent, runs>>

\* Mutant of NewTx: keeps the sequence number that the run read first.
NewTxReusesSequence(p) ==
    [kind |-> phase[p], src |-> source, wasm |-> cmd[p].wasm, signer |-> source,
     seq |-> IF tx[p] = None THEN seq[source] + 1 ELSE tx[p].seq,
     cid |-> IF phase[p] = "create" THEN <<source, cmd[p].salt>> ELSE None]

\* The transaction of a handler, with the sequence number after the one that
\* get_account returns.  (The signer is filled in by Sign.)
NewTx(p) ==
    [kind |-> phase[p], src |-> source, wasm |-> cmd[p].wasm, signer |-> source,
     seq |-> seq[source] + 1,
     cid |-> IF phase[p] = "create" THEN <<source, cmd[p].salt>> ELSE None]

\* What follows the building: upload looks whether the code is installed, and restore
\* does not simulate.
AfterBuild(p) ==
    CASE phase[p] = "upload" /\ cmd[p].only # "sim" -> "check"
      [] phase[p] = "restore" -> "sign"
      [] OTHER -> "simulate"

\* Every handler reads the account, builds its transaction, and returns it if that is
\* all it is asked for.  create fixes the contract id that it will report; without a
\* file it needs the code from the network.
Build(p) ==
    /\ pc[p] = "build"
    /\ phase[p] = "create" /\ ~cmd[p].upload => code[cmd[p].wasm] \in {"v0", "v1"}
    /\ tx' = [tx EXCEPT ![p] = NewTx(p)]
    /\ cid' = [cid EXCEPT ![p] = NewTx(p).cid]
    /\ IF cmd[p].only = "build"
       THEN ReturnTxn(p)
       ELSE Goto(p, "build", AfterBuild(p)) /\ UNCHANGED <<phase, outcome>>
    /\ UNCHANGED <<source, chain, saved, cmd, sent, runs>>

\* upload skips code that is installed, unless its entry is an old one (V0).  The
\* network may or may not return an archived entry.
CheckInstalled(p, found) ==
    /\ pc[p] = "check"
    /\ found => code[cmd[p].wasm] \in {"v1", "archived"}
    /\ ~found => code[cmd[p].wasm] # "v1"
    /\ IF found THEN ReturnRes(p)
                ELSE Goto(p, "check", "simulate") /\ UNCHANGED <<phase, outcome>>
    /\ UNCHANGED <<source, chain, saved, cmd, tx, cid, sent, runs>>

\* Mutant of Simulate: does not look at --sim-only.
SimulateIgnoresOnly(p) ==
    /\ Goto(p, "simulate", "sign")
    /\ UNCHANGED <<source, chain, saved, local, outcome, runs>>

\* simulate_and_assemble_transaction.  extend does not look at --sim-only.
Simulate(p) ==
    /\ pc[p] = "simulate"
    /\ phase[p] = "create" =>
           code[cmd[p].wasm] \in {"v0", "v1"} /\ tx[p].cid \notin contracts
    /\ IF cmd[p].only = "sim" /\ phase[p] # "extend"
       THEN ReturnTxn(p)
       ELSE /\ Goto(p, "simulate", IF phase[p] = "invoke" THEN "authorize" ELSE "sign")
            /\ UNCHANGED <<phase, outcome>>
    /\ UNCHANGED <<source, chain, saved, cmd, tx, cid, sent, runs>>

\* invoke writes the simulation to the action log and signs the authorizations.
Authorize(p) ==
    /\ Goto(p, "authorize", "sign")
    /\ UNCHANGED <<source, chain, saved, local, outcome, runs>>

\* sign_with_local_key resolves the source identity again.
Sign(p) ==
    /\ Goto(p, "sign", "submit")
    /\ tx' = [tx EXCEPT ![p].signer = source]
    /\ UNCHANGED <<source, chain, saved, cmd, phase, cid, sent, outcome, runs>>

\* send_transaction_polling submits: the network takes a transaction that its source
\* account signed and whose sequence number is the account's next.  The answer may
\* be lost: then the command fails although the transaction is on its way.
Submit(p, answered) ==
    /\ pc[p] = "submit"
    /\ tx[p].signer = tx[p].src
    /\ tx[p].seq = seq[tx[p].src] + 1
    /\ pending' = pending \cup {tx[p]}
    /\ sent' = [sent EXCEPT ![p] = @ \cup {tx[p]}]
    /\ IF answered THEN Goto(p, "submit", "poll") /\ UNCHANGED <<phase, outcome>>
                   ELSE Return(p, "err")
    /\ UNCHANGED <<source, seq, code, contracts, applied, saved, cmd, tx, cid, runs>>

Result(p, res) == [tx |-> tx[p], res |-> res] \in applied

\* ... and polls until there is a result.
PollDone(p) ==
    /\ Result(p, "ok") \/ Result(p, "internal")
    /\ Goto(p, "poll", "log")
    /\ UNCHANGED <<source, chain, saved, local, outcome, runs>>

\* Mutants of PollFails: an error is ignored; there is no timeout.
PollFailsIgnored(p) ==
    /\ Goto(p, "poll", "log")
    /\ UNCHANGED <<source, chain, saved, local, outcome, runs>>
PollNoTimeout(p) ==
    /\ pc[p] = "poll"
    /\ Result(p, "failed")
    /\ Return(p, "err")
    /\ UNCHANGED <<source, chain, saved, cmd, tx, cid, sent, runs>>

\* A failed transaction is an error, and so is none before the timeout.
PollFails(p) ==
    /\ pc[p] = "poll"
    /\ Return(p, "err")
    /\ UNCHANGED <<source, chain, saved, cmd, tx, cid, sent, runs>>

\* Mutant of Log: does not restore archived code.
LogNoRestore(p) ==
    /\ pc[p] = "log"
    /\ ReturnRes(p)
    /\ UNCHANGED <<source, chain, saved, cmd, tx, cid, sent, runs>>

\* data::write logs the response.  Then extend and restore inspect it; upload of
\* archived code restores the code.
Log(p) ==
    /\ pc[p] = "log"
    /\ CASE phase[p] \in {"extend", "restore"} ->
                Goto(p, "log", "inspect") /\ UNCHANGED <<phase, outcome>>
         [] phase[p] = "upload" /\ Result(p, "internal") -> Enter(p, "restore")
         [] OTHER -> ReturnRes(p)
    /\ UNCHANGED <<source, chain, saved, cmd, tx, cid, sent, runs>>

\* The metadata shows the new time to live.
Inspect(p) ==
    /\ pc[p] = "inspect"
    /\ ReturnRes(p)
    /\ UNCHANGED <<source, chain, saved, cmd, tx, cid, sent, runs>>

\* extend indexes changes[0] and changes[1] even when the metadata shows no change.
InspectPanics(p) ==
    /\ pc[p] = "inspect" /\ phase[p] = "extend"
    /\ Return(p, "panic")
    /\ UNCHANGED <<source, chain, saved, cmd, tx, cid, sent, runs>>

\* deploy --alias, see ConfigStore.
SaveAlias(p) ==
    /\ pc[p] = "alias"
    /\ saved' = cid[p]
    /\ Return(p, "ok")
    /\ UNCHANGED <<source, chain, cmd, tx, cid, sent, runs>>

\* Every call of a handler may return an error: the network is unreachable, the
\* account is missing, the simulation or the submission is rejected, the log
\* cannot be written, the alias is the name of a key.
Fail(p) ==
    /\ pc[p] \in Steps \ {"poll"}
    /\ Return(p, "err")
    /\ UNCHANGED <<source, chain, saved, cmd, tx, cid, sent, runs>>

Kill(p) ==
    /\ pc[p] # "idle"
    /\ Return(p, "killed")
    /\ UNCHANGED <<source, chain, saved, cmd, tx, cid, sent, runs>>

Step(p) ==
    \/ \E b \in BOOLEAN : PreSimulate(p, b) \/ CheckInstalled(p, b) \/ Submit(p, b)
    \/ Build(p) \/ Simulate(p) \/ Authorize(p) \/ Sign(p)
    \/ PollDone(p) \/ PollFails(p) \/ Log(p) \/ Inspect(p) \/ InspectPanics(p)
    \/ SaveAlias(p) \/ Fail(p)

---------------------------------------------------------------------------
(* The network (external), and the other users of the identity.            *)

\* What a transaction does when it is applied: its result, and the code and the
\* contracts afterwards.
Effect(t, res, newCode, newContracts) ==
    LET codeIs(st) == [code EXCEPT ![t.wasm] = st]
    IN CASE t.kind = "upload" ->
              /\ newContracts = contracts
              /\ IF code[t.wasm] = "archived" THEN res = "internal" /\ newCode = code
                                              ELSE res = "ok" /\ newCode = codeIs("v1")
         [] t.kind = "create" ->
              /\ newCode = code
              /\ IF code[t.wasm] \in {"v0", "v1"} /\ t.cid \notin contracts
                 THEN res = "ok" /\ newContracts = contracts \cup {t.cid}
                 ELSE res = "failed" /\ newContracts = contracts
         [] t.kind = "restore" ->
              /\ newContracts = contracts
              /\ res = "ok"
              /\ newCode = IF code[t.wasm] = "archived" THEN codeIs("v1") ELSE code
         [] OTHER -> newCode = code /\ newContracts = contracts /\ res \in {"ok", "failed"}

Apply(t) ==
    /\ t.seq = seq[t.src] + 1
    /\ seq' = [seq EXCEPT ![t.src] = t.seq]
    /\ pending' = pending \ {t}
    /\ \E res \in {"ok", "failed", "internal"} :
           /\ Effect(t, res, code', contracts')
           /\ applied' = applied \cup {[tx |-> t, res |-> res]}
    /\ UNCHANGED <<source, saved, pc, local, outcome, runs>>

Drop(t) ==
    /\ pending' = pending \ {t}
    /\ UNCHANGED <<source, seq, code, contracts, applied, saved, pc, local, outcome, runs>>

\* The time to live of a code entry ends.
Archive(w) ==
    /\ code[w] = "v1"
    /\ code' = [code EXCEPT ![w] = "archived"]
    /\ UNCHANGED <<source, seq, contracts, pending, applied, saved, pc, local, outcome, runs>>

\* `keys generate --overwrite` or `keys add` gives the source identity another key.
ReplaceKey(a) ==
    /\ a # source
    /\ source' = a
    /\ UNCHANGED <<chain, saved, pc, local, outcome, runs>>

Next ==
    \/ \E p \in Procs : Step(p) \/ Kill(p) \/ \E c \in Commands : Start(p, c)
    \/ \E t \in pending : Apply(t) \/ Drop(t)
    \/ \E w \in Wasms : Archive(w)
    \/ \E a \in Accounts : ReplaceKey(a)

Spec == Init /\ [][Next]_vars

\* A process that is not killed goes on: every call it makes returns.
FairSpec == Spec /\ \A p \in Procs : WF_vars(Step(p))
---------------------------------------------------------------------------
(* Properties.                                                             *)

Done(t) == \E res \in {"ok", "internal"} : [tx |-> t, res |-> res] \in applied

OnLedger(p) ==
    /\ \A t \in sent[p] : Done(t)
    /\ tx[p] \in sent[p] => Result(p, "ok")
    /\ cmd[p].op = "upload" => code[cmd[p].wasm] # "none"
    /\ cmd[p].op = "deploy" => cid[p] \in contracts

\* SuccessIsOnLedger: a command that reports success has its last transaction on the
\* ledger, applied with success, and every earlier one applied; then the code of an
\* upload is installed and the contract id that a deploy prints exists, although
\* other processes use the account, answers get lost, transactions get dropped,
\* code gets archived and the identity gets another key in between
\* (send_transaction_polling and the handlers' `?` in upload, deploy, invoke,
\* extend and restore).
SuccessIsOnLedger == \A p \in Procs : outcome[p] = "ok" => OnLedger(p)

\* AliasNamesCreated: the id saved under the alias of a deploy is that of a contract
\* that exists: the alias is saved after the creation is known to be applied.
AliasNamesCreated == saved # None => saved \in contracts

\* OwnSequences: the transactions of one run (deploy's upload, restore and create)
\* have different sequence numbers, so a run never spoils its own later transaction:
\* each handler reads the sequence number anew, after the one before it is applied.
OwnSequences ==
    \A p \in Procs : pc[p] \in {"simulate", "sign", "submit"} =>
        \A t \in sent[p] : t.src = tx[p].src => t.seq < tx[p].seq

\* DeployNeverPanics: what the expect() in deploy says, "the value (hash) is expected
\* because it should always be available since build-only is a shared parameter".
DeployNeverPanics == \A p \in Procs : cmd[p] # None /\ cmd[p].op = "deploy" => outcome[p] # "panic"

\* OnlyFlagsSendNothing: with --build-only, and with --sim-only in upload, deploy and
\* invoke, no transaction of the run or of the handlers that it calls is submitted.
OnlyFlagsSendNothing ==
    \A p \in Procs : sent[p] # {} =>
        \/ cmd[p].only = "no"
        \/ cmd[p].only = "sim" /\ cmd[p].op \in {"extend", "restore"}

\* CommandEnds: every command that is started ends, whatever the network does: a
\* transaction that is dropped does not keep its process polling for ever.
CommandEnds == \A p \in Procs : pc[p] # "idle" ~> pc[p] = "idle"

\* SimOnlySendsNothing: what the help of --sim-only says, "simulate the transaction and
\* only write the base64 xdr to stdout", for extend and restore as well.
SimOnlySendsNothing == \A p \in Procs : sent[p] # {} => cmd[p].only # "sim"

---------------------------------------------------------------------------
(* The inductive invariant of the proofs: LedgerInv, and ProcInv for every *)
(* process.                                                                *)

\* LedgerInv: what the results of applied transactions say of the ledger.
LedgerInv ==
    \A r \in applied :
        /\ r.tx.seq <= seq[r.tx.src]
        /\ r.res = "internal" => r.tx.kind = "upload"
        /\ r.tx.kind = "upload" => code[r.tx.wasm] # "none"
        /\ r.tx.kind = "create" /\ r.res = "ok" => r.tx.cid \in contracts

\* The handler and the command that belong to a step.
HandlerAt(p) ==
    /\ cmd[p] \in Commands
    /\ outcome[p] = "none"
    /\ phase[p] = "upload" => cmd[p].op \in {"upload", "deploy"}
    /\ phase[p] = "create" => cmd[p].op = "deploy"
    /\ phase[p] = "invoke" => cmd[p].op = "invoke"
    /\ phase[p] = "extend" => cmd[p].op \in {"extend", "restore"}
    /\ phase[p] = "restore" => cmd[p].op \in {"upload", "deploy", "restore"}
    /\ pc[p] = "presim" => phase[p] = "invoke"
    /\ pc[p] = "check" => phase[p] = "upload"
    /\ pc[p] = "alias" => phase[p] = "create"
    /\ pc[p] = "inspect" => phase[p] \in {"extend", "restore"}

\* The transaction that belongs to a step.
TxAt(p) ==
    pc[p] \notin {"presim", "build"} =>
        /\ tx[p] \in Tx
        /\ tx[p].kind = phase[p]
        /\ tx[p].wasm = cmd[p].wasm
        /\ tx[p].cid = cid[p]

\* When a handler starts, the transactions of the handlers before it are applied; what
\* a command is about to report is on the ledger.
SentAt(p) ==
    /\ \A t \in sent[p] : Done(t) \/ (pc[p] = "poll" /\ t = tx[p])
    /\ pc[p] \in {"presim", "build", "check"} /\ phase[p] \in {"upload", "invoke"} => sent[p] = {}
    /\ pc[p] = "log" => Done(tx[p])
    /\ pc[p] \in {"inspect", "alias"} => Result(p, "ok")
    /\ phase[p] = "restore" /\ cmd[p].op = "upload" => code[cmd[p].wasm] # "none"

\* OwnSequences, at every step between building and sending.
SequenceAt(p) ==
    pc[p] \in {"check", "simulate", "authorize", "sign", "submit"} =>
        \A t \in sent[p] : t.src = tx[p].src => t.seq < tx[p].seq

ProcInv(p) ==
    /\ pc[p] # "idle" => HandlerAt(p) /\ TxAt(p) /\ SentAt(p) /\ SequenceAt(p)
    /\ outcome[p] = "ok" => cmd[p] \in Commands /\ OnLedger(p)

\* PipelineInv: the inductive invariant.
PipelineInv == TypeOK /\ LedgerInv /\ AliasNamesCreated /\ \A p \in Procs : ProcInv(p)

(* On top of it, for the flags: FlagsAt for every process.                 *)

\* A command line that lets a transaction be sent.
Sends(c) == c.only = "no" \/ (c.only = "sim" /\ c.op \in {"extend", "restore"})

\* Behind the tests of the flags are only command lines that send; the handlers that
\* another one calls (upload for deploy, restore for upload) run without the flags.
FlagsAt(p) ==
    /\ pc[p] \in {"authorize", "sign", "submit", "poll", "log", "inspect", "alias"} => Sends(cmd[p])
    /\ pc[p] \in {"check", "simulate"} => cmd[p].only # "build"
    /\ pc[p] # "idle" /\ phase[p] = "upload" /\ cmd[p].op = "deploy" => cmd[p].only = "no"
    /\ pc[p] # "idle" /\ phase[p] = "restore" /\ cmd[p].op # "restore" => cmd[p].only = "no"
    /\ sent[p] # {} => Sends(cmd[p])

FlagsInv == (\A p \in Procs : FlagsAt(p)) /\ DeployNeverPanics
=============================================================================
