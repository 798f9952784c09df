----------------------------- MODULE Assembled -----------------------------
(***************************************************************************)
(* Transactions, what a simulation says about one, and how the answer is    *)
(* worked into it before it is signed: assembled.rs, fee.rs and the         *)
(* authorization entries that signer.rs signs.                             *)
(*                                                                         *)
(* Fees are u32 in a transaction and u64 in the answer of a simulation; the *)
(* two widths are parameters, so that TLC meets their limits.              *)
(***************************************************************************)
EXTENDS Naturals, Sequences

CONSTANTS
    Accounts,       \* accounts, named by their keys
    Contracts,      \* contracts that have authorization entries of their own
    Flags,          \* the flags that set-options and set-trustline-flags know
    Args,           \* the arguments that users give to `tx new` and `tx op add`
    U32, U64,       \* one more than the largest value of these types
    DefaultFee,     \* DEFAULT_TRANSACTION_FEES
    AuthWindow,     \* how many ledgers a signed authorization lives
    None            \* no account, no extension

ASSUME WidthAssumption == /\ U32 \in Nat /\ U64 \in Nat /\ DefaultFee \in Nat
                          /\ U32 <= U64 /\ 2 * DefaultFee < U64
                          /\ AuthWindow \in Nat
ASSUME PartyAssumption == 
    None \notin Accounts \cup Contracts \cup [instructions : Nat, rw : BOOLEAN]

\* The commands under `tx new` and `tx op add`.
Kinds == {"account-merge", "bump-sequence", "change-trust", "create-account",
          "manage-data", "payment", "set-options", "set-trustline-flags"}

\* Their arguments: the account that is named, perhaps with a muxed id, and the flags.
\* clap refuses to set and to clear one flag at once.
OpArgs == {c \in [kind : Kinds, to : Accounts, id : BOOLEAN,
                  set : SUBSET Flags, clear : SUBSET Flags] : c.set \cap c.clear = {}}

ASSUME ArgsAssumption == Args \subseteq OpArgs

\* What is authorized is a call of a contract or the creation of one; who = None is the
\* transaction's source account, which needs no signature of its own.
AuthEntries ==
    [root : {"contractFn", "createFn"}, who : Accounts \cup Contracts \cup {None},
     by : Accounts \cup {None}, expires : Nat]

\* The operations of commands/tx/new/.  Only a payment and a merge keep the id of a muxed
\* account; set-options leaves a field out when no flag is given, set-trustline-flags
\* writes zero.
AccountMerge(c) == [kind |-> "account-merge", to |-> c.to, id |-> c.id]
Payment(c) == [kind |-> "payment", to |-> c.to, id |-> c.id]
CreateAccount(c) == [kind |-> "create-account", to |-> c.to]
ChangeTrust(c) == [kind |-> "change-trust", issuer |-> c.to]
BumpSequence(c) == [kind |-> "bump-sequence"]
ManageData(c) == [kind |-> "manage-data"]
SetTrustlineFlags(c) ==
    [kind |-> "set-trustline-flags", to |-> c.to, set |-> c.set, clear |-> c.clear]
SetOptions(c) ==
    LET Given(flags) == IF flags = {} THEN None ELSE flags
    IN  [kind |-> "set-options", to |-> c.to, set |-> Given(c.set), clear |-> Given(c.clear)]

\* TryFrom<&Cmd> for OperationBody
Body(c) ==
    CASE c.kind = "account-merge" -> AccountMerge(c)
      [] c.kind = "bump-sequence" -> BumpSequence(c)
      [] c.kind = "change-trust" -> ChangeTrust(c)
      [] c.kind = "create-account" -> CreateAccount(c)
      [] c.kind = "manage-data" -> ManageData(c)
      [] c.kind = "payment" -> Payment(c)
      [] c.kind = "set-options" -> SetOptions(c)
      [] c.kind = "set-trustline-flags" -> SetTrustlineFlags(c)

Invoke == [kind |-> "invoke-host-function"]

Bodies == {Body(c) : c \in Args} \cup {Invoke}

\* An operation: the body, its own source account if there is one, and the
\* authorization entries, which only InvokeHostFunction has.
Ops == [body : Bodies, source : Accounts \cup {None}, auth : Seq(AuthEntries)]

Op(body, source) == [body |-> body, source |-> source, auth |-> << >>]

\* TransactionExt: V0, or V1 with the resources.
Exts == [instructions : Nat, rw : BOOLEAN] \cup {None}

NewTx(source, fee, seq, op) ==
    [source |-> source, fee |-> fee, seq |-> seq, ops |-> <<op>>, ext |-> None]

\* SimulateTransactionResponse
Answers == [error : BOOLEAN, fee : Nat, data : Exts, results : Seq(Seq(AuthEntries))]

\* Mutant of Larger: the comparison the wrong way round.
Smaller(a, b) == IF a <= b THEN a ELSE b

Larger(a, b) == IF a >= b THEN a ELSE b

ResourceFee(sim) == (DefaultFee + sim.fee) % U64

Fills(op) == op.body = Invoke /\ op.auth = << >>

\* Mutant of Assembles: the resource fee is cast, not converted.
AssemblesUnchecked(raw, sim) ==
    /\ ~sim.error
    /\ Len(raw.ops) = 1
    /\ sim.data # None
    /\ Fills(raw.ops[1]) => Len(sim.results) = 1

\* The checks of simulate_and_assemble_transaction and assemble, in their order.
Assembles(raw, sim) ==
    /\ ~sim.error                                       \* TransactionSimulationFailed
    /\ Len(raw.ops) = 1                                 \* UnexpectedOperationCount
    /\ sim.data # None                                  \* Xdr
    /\ Fills(raw.ops[1]) => Len(sim.results) = 1        \* Unexpected...ResultSize
    /\ ResourceFee(sim) < U32                           \* LargeFee

Assemble(raw, sim) ==
    [raw EXCEPT !.fee = Larger(raw.fee, ResourceFee(sim)),
                !.ops = <<IF Fills(raw.ops[1])
                          THEN [raw.ops[1] EXCEPT !.auth = sim.results[1]]
                          ELSE raw.ops[1]>>,
                !.ext = sim.data]

\* add_padding_to_instructions: a checked multiplication by an integer quotient.
Padded(i) == IF i * (150 \div 100) < U32 THEN i * (150 \div 100) ELSE i

\* fee::Args::apply_to_assembled_txn; instructions is the flag's value, or None.
ApplyFee(tx, instructions) ==
    IF tx.ext = None THEN tx
    ELSE [tx EXCEPT !.ext.instructions =
              IF instructions # None THEN instructions ELSE Padded(tx.ext.instructions)]

RequiresAuth(tx) ==
    /\ Len(tx.ops) = 1
    /\ tx.ops[1].body = Invoke
    /\ tx.ops[1].auth # << >>
    /\ tx.ops[1].auth[1].root = "contractFn"

\* Nobody can sign for a contract, and for an account only the holder of its key.
CanSign(tx, keys) ==
    \A i \in DOMAIN tx.ops[1].auth : tx.ops[1].auth[i].who \in keys \cup {None}

\* Mutant of SignEntry: only calls of contracts are signed.
SignCalls(e, ledger) ==
    IF e.who = None \/ e.root # "contractFn" THEN e
    ELSE [e EXCEPT !.by = e.who, !.expires = ledger]

SignEntry(e, ledger) ==
    IF e.who = None THEN e ELSE [e EXCEPT !.by = e.who, !.expires = ledger]

SignEntries(tx, ledger) ==
    [tx EXCEPT !.ops = <<[tx.ops[1] EXCEPT
        !.auth = [i \in DOMAIN tx.ops[1].auth |-> SignEntry(tx.ops[1].auth[i], ledger)]]>>]

=============================================================================
