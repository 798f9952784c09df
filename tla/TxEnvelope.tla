----------------------------- MODULE TxEnvelope -----------------------------
(***************************************************************************)
(* One transaction on its way from the command that builds it to the        *)
(* network: piped as text through `tx new --build-only`, `tx op add`,       *)
(* `tx simulate`, `tx sign` and `tx send`, or carried by one `tx new` or    *)
(* `contract invoke` that does it all (commands/tx/, signer.rs,            *)
(* config/mod.rs, config/sign_with.rs).                                    *)
(*                                                                         *)
(* Between any two steps ledgers close, and the source account may be used  *)
(* elsewhere.  The network is external; what it does with a transaction is  *)
(* what the commands rely on.                                              *)
(***************************************************************************)
EXTENDS Assembled

CONSTANTS
    Sources,        \* accounts that transactions are sent from
    Signers,        \* accounts with a secret key in the store
    Networks,       \* networks, named by their passphrases
    Home,           \* the network that the envelopes are sent to
    FeeArgs,        \* values of --fee
    InstrArgs,      \* values of --instructions, None when not given
    Sims,           \* the answers of simulateTransaction
    MaxOps,         \* operations in one transaction, 100
    MaxSigs,        \* signatures in one envelope, 20
    MaxSeq,         \* bound on the accounts' sequence numbers
    MaxLedger       \* bound on the number of the last ledger

ASSUME SignersAssumption == Signers \subseteq Accounts /\ Sources \subseteq Accounts
ASSUME HomeAssumption == Home \in Networks
ASSUME FeeAssumption == FeeArgs \subseteq 0 .. U32 - 1
ASSUME BoundsAssumption == /\ MaxOps \in Nat \ {0} /\ MaxSigs \in Nat \ {0}
                           /\ MaxSeq \in Nat /\ MaxLedger \in Nat

\* A resource fee is an i64 on the network, so it is below half of what a u64 holds.
ASSUME SimsAssumption == Sims \subseteq {s \in Answers : 2 * s.fee < U64}
ASSUME InstrAssumption == InstrArgs \subseteq Nat \cup {None}

VARIABLES
    env,        \* the envelope: what the last command printed, or a command holds
    stage,      \* "idle", or the next step of the command that holds the envelope
    seqOn,      \* the accounts' sequence numbers on the ledger
    now,        \* the latest ledger
    out,        \* how the last command ended
    asked,      \* history: the operations that were asked for
    need,       \* history: what the last simulation said the transaction costs
    base,       \* history: the source's sequence number when the envelope was built
    sims        \* history: the last answer of a simulation

vars == <<env, stage, seqOn, now, out, asked, need, base, sims>>
history == <<asked, need, base, sims>>
ledger == <<seqOn, now>>

Hash(tx, net) == [tx |-> tx, net |-> net]       \* utils::transaction_hash
Envelope(tx) == [tx |-> tx, sigs |-> << >>]     \* impl From<Transaction>

Txs == [source : Sources, fee : 0 .. U32 - 1, seq : 0 .. MaxSeq, ops : Seq(Ops), ext : Exts]

Envelopes == [tx : Txs, sigs : Seq([key : Accounts, hash : [tx : Txs, net : Networks]])]

ASSUME EnvelopesAssumption == None \notin Envelopes

TypeOK ==
    /\ env \in Envelopes \cup {None}
    /\ env # None => Len(env.tx.ops) \in 1 .. MaxOps /\ Len(env.sigs) <= MaxSigs
    /\ stage \in {"idle", "assemble", "authorize", "sign", "send"}
    /\ stage # "idle" => env # None
    /\ seqOn \in [Sources -> 0 .. MaxSeq]
    /\ now \in 0 .. MaxLedger
    /\ asked \in Seq(Bodies)
    /\ need \in Nat

Init ==
    /\ env = None /\ stage = "idle" /\ out = "none"
    /\ seqOn = [a \in Sources |-> 0]
    /\ now = 0
    /\ asked = << >> /\ need = 0 /\ base = 0 /\ sims = None

\* A command fails and prints nothing: the user still has the envelope it read.
Fails == /\ out' = "error" /\ stage' = "idle"
         /\ UNCHANGED <<env, ledger, history>>

Prints(e) == /\ env' = e /\ stage' = "idle" /\ out' = "printed"
             /\ UNCHANGED ledger

-----------------------------------------------------------------------------
(* The commands that build a transaction read the sequence number and use   *)
(* the next one.                                                           *)

\* Mutant of NextSequenceNumber: the number that is already used.
LastSequenceNumber(a) == seqOn[a]

NextSequenceNumber(a) == seqOn[a] + 1

Build(a, f, op) ==
    /\ stage = "idle"
    /\ seqOn[a] < MaxSeq
    /\ env' = Envelope(NewTx(a, f, NextSequenceNumber(a), op))
    /\ asked' = <<op.body>> /\ need' = 0 /\ base' = seqOn[a] /\ sims' = None
    /\ UNCHANGED ledger

\* `tx new`: tx::Args::handle_tx.
New(a, f, c) ==
    /\ Build(a, f, Op(Body(c), None))
    /\ \/ stage' = "idle" /\ out' = "printed"       \* --build-only
       \/ stage' = "sign" /\ out' = "none"

\* `contract invoke`, once it has decided to send.
InvokeNew(a, f) ==
    /\ Build(a, f, Op(Invoke, None))
    /\ \/ stage' = "idle" /\ out' = "printed"       \* --build-only
       \/ stage' = "assemble" /\ out' = "none"

\* The commands simulate without the signatures and print or go on without them.
WithSimulation(s) ==
    /\ env' = Envelope(Assemble(env.tx, s))
    /\ need' = DefaultFee + s.fee
    /\ sims' = s
    /\ UNCHANGED <<ledger, asked, base>>

InvokeAssemble(s, i) ==
    /\ stage = "assemble"
    /\ \/ ~Assembles(env.tx, s) /\ Fails
       \/ /\ Assembles(env.tx, s)
          /\ env' = Envelope(ApplyFee(Assemble(env.tx, s), i))
          /\ need' = DefaultFee + s.fee
          /\ sims' = s
          /\ \/ stage' = "idle" /\ out' = "printed" /\ i = None     \* --sim-only
             \/ stage' = "authorize" /\ out' = "none"
          /\ UNCHANGED <<ledger, asked, base>>

\* Args::sign_soroban_authorizations: asks for the latest ledger, then signs every entry
\* with the key of its address, or fails.
InvokeAuthorize(keys) ==
    /\ stage = "authorize"
    /\ \/ env.tx.source \notin Signers /\ Fails     \* Secret
       \/ /\ env.tx.source \in Signers
          /\ \/ /\ RequiresAuth(env.tx)
                /\ \/ /\ CanSign(env.tx, keys \cup {env.tx.source})
                      /\ env' = Envelope(SignEntries(env.tx, now + AuthWindow))
                      /\ stage' = "sign" /\ out' = "none"
                      /\ UNCHANGED <<ledger, history>>
                   \/ /\ ~CanSign(env.tx, keys \cup {env.tx.source})
                      /\ Fails     \* MissingSignerForAddress
             \/ /\ ~RequiresAuth(env.tx)
                /\ stage' = "sign" /\ out' = "none"
                /\ UNCHANGED <<env, ledger, history>>

-----------------------------------------------------------------------------
(* Signing appends a signature over the hash of the contents.               *)

Signed(e, key, net) ==
    [e EXCEPT !.sigs = Append(e.sigs, [key |-> key, hash |-> Hash(e.tx, net)])]

\* config::Args::sign, which always starts from an envelope without signatures.
SignLocal ==
    /\ stage = "sign"
    /\ \/ env.tx.source \notin Signers /\ Fails     \* Secret
       \/ /\ env.tx.source \in Signers
          /\ env' = Signed(Envelope(env.tx), env.tx.source, Home)
          /\ stage' = "send" /\ out' = "none"
          /\ UNCHANGED <<ledger, history>>

\* `tx sign`: the user names the key and the network.
TxSign(key, net) ==
    /\ stage = "idle" /\ env # None
    /\ \/ key \notin Signers /\ Fails     \* Secret
       \/ key \in Signers /\ Len(env.sigs) >= MaxSigs /\ Fails     \* Xdr
       \/ /\ key \in Signers /\ Len(env.sigs) < MaxSigs
          /\ Prints(Signed(env, key, net))
          /\ UNCHANGED history

\* `tx sign --sign-with-lab` opens a browser and never has a signature to print.
TxSignLab ==
    /\ stage = "idle" /\ env # None
    /\ Fails     \* ReturningSignatureFromLab

\* Mutants of AddOp: the signatures stay, and the operation goes to the front.
AddOpKeepsSignatures(e, op) == [e EXCEPT !.tx.ops = Append(e.tx.ops, op)]
AddOpFirst(e, op) == Envelope([e.tx EXCEPT !.ops = <<op>> \o e.tx.ops])

\* commands/tx/xdr.rs: add_op goes back to the bare transaction.
AddOp(e, op) == Envelope([e.tx EXCEPT !.ops = Append(e.tx.ops, op)])

\* `tx op add`; it asks no network, and takes fee and sequence number as they are.
OpAdd(c, source) ==
    /\ stage = "idle" /\ env # None
    /\ \/ Len(env.tx.ops) >= MaxOps /\ Fails     \* TooManyOperations
       \/ /\ Len(env.tx.ops) < MaxOps
          /\ Prints(AddOp(env, Op(Body(c), source)))
          /\ asked' = Append(asked, Body(c))
          /\ UNCHANGED <<need, base, sims>>

\* `tx simulate`
TxSimulate(s) ==
    /\ stage = "idle" /\ env # None
    /\ \/ ~Assembles(env.tx, s) /\ Fails
       \/ /\ Assembles(env.tx, s)
          /\ WithSimulation(s)
          /\ stage' = "idle" /\ out' = "printed"

-----------------------------------------------------------------------------
(* The network, and the rest of the world.                                  *)

HasSignature(e, a) ==
    \E i \in DOMAIN e.sigs : e.sigs[i].key = a /\ e.sigs[i].hash = Hash(e.tx, Home)

Authorized(tx) ==
    \A i \in DOMAIN tx.ops : \A j \in DOMAIN tx.ops[i].auth :
        LET e == tx.ops[i].auth[j]
        IN  e.who # None => e.by = e.who /\ now <= e.expires

Verdict(e) ==
    IF e.tx.fee < DefaultFee * Len(e.tx.ops) THEN "txINSUFFICIENT_FEE"
    ELSE IF e.tx.seq # seqOn[e.tx.source] + 1 THEN "txBAD_SEQ"
    ELSE IF ~HasSignature(e, e.tx.source) THEN "txBAD_AUTH"
    ELSE IF ~Authorized(e.tx) THEN "txFAILED"
    ELSE "txSUCCESS"

\* send_transaction_polling at the end of a command, and `tx send`.
Send ==
    /\ stage = "send" \/ (stage = "idle" /\ env # None)
    /\ out' = Verdict(env) /\ stage' = "idle"
    /\ seqOn' = IF Verdict(env) \in {"txFAILED", "txSUCCESS"}
                THEN [seqOn EXCEPT ![env.tx.source] = @ + 1] ELSE seqOn
    /\ UNCHANGED <<env, now, history>>

CloseLedger ==
    /\ now < MaxLedger
    /\ now' = now + 1
    /\ UNCHANGED <<env, stage, seqOn, out, history>>

UseAccount(a) ==
    /\ env # None /\ seqOn[a] < MaxSeq
    /\ seqOn' = [seqOn EXCEPT ![a] = @ + 1]
    /\ UNCHANGED <<env, stage, now, out, history>>

Next ==
    \/ \E a \in Sources, f \in FeeArgs, c \in Args : New(a, f, c)
    \/ \E a \in Sources, f \in FeeArgs : InvokeNew(a, f)
    \/ \E s \in Sims, i \in InstrArgs : InvokeAssemble(s, i)
    \/ \E keys \in SUBSET Signers : InvokeAuthorize(keys)
    \/ SignLocal
    \/ \E key \in Accounts, net \in Networks : TxSign(key, net)
    \/ TxSignLab
    \/ \E c \in Args, source \in Sources \cup {None} : OpAdd(c, source)
    \/ \E s \in Sims : TxSimulate(s)
    \/ Send
    \/ CloseLedger
    \/ \E a \in Sources : UseAccount(a)

Spec == Init /\ [][Next]_vars

-----------------------------------------------------------------------------
(* Properties *)

\* Whatever commands an envelope went through, every signature in it is over its present
\* contents: `tx op add` and `tx simulate` change them and give up the signatures, and
\* `tx sign` adds to signatures that still fit.
SignaturesFit ==
    env # None => \A i \in DOMAIN env.sigs : env.sigs[i].hash.tx = env.tx

\* The operations in the envelope are the ones that the user asked for, in that order:
\* simulating, signing and a failed `tx op add` lose, add and reorder none.
OpsAreAsked ==
    env # None => /\ Len(env.tx.ops) = Len(asked)
                  /\ \A i \in DOMAIN asked : env.tx.ops[i].body = asked[i]

\* An assembled transaction offers what the simulation said it costs, at the limits of the
\* fee's type too: either the fee is enough, or assembling failed and printed nothing.
FeePays == env # None => env.tx.fee >= need

\* The network finds a sequence number bad only when the account was used since the
\* transaction was built.
OnlyStaleSequence ==
    (out = "txBAD_SEQ") => seqOn[env.tx.source] # base

\* When the first authorization entry is for a contract call, `contract invoke` signs no
\* transaction before every entry that needs it is signed with the key of its own address,
\* for AuthWindow ledgers after the one it was told is the latest.
CallsAuthorized ==
    (stage \in {"sign", "send"} /\ env # None /\ RequiresAuth(env.tx)) =>
        \A i \in DOMAIN env.tx.ops[1].auth :
            LET e == env.tx.ops[1].auth[i]
            IN  e.who # None => e.by = e.who /\ e.expires <= now + AuthWindow

=============================================================================
