-------------------------- MODULE TxEnvelopeProofs --------------------------
(***************************************************************************)
(* What holds of an envelope at every step of TxEnvelope, for all accounts, *)
(* networks, fees, answers of the simulation and limits.                   *)
(***************************************************************************)
EXTENDS TxEnvelope, TLAPS

\* One operation and no signature are within the limits.
LEMMA OneFits == 1 \in 1 .. MaxOps /\ Len(<< >>) <= MaxSigs
  <1>1. Len(<< >>) = 0
    OBVIOUS
  <1> QED
    BY <1>1, BoundsAssumption

\* A transaction without signatures is an envelope.
LEMMA EnvelopeType ==
    ASSUME NEW tx \in Txs
    PROVE  /\ Envelope(tx) \in Envelopes /\ Envelope(tx) # None
           /\ Envelope(tx).tx = tx /\ Envelope(tx).sigs = << >>
  <1>1. Envelope(tx) = [tx |-> tx, sigs |-> << >>]
    BY DEF Envelope
  <1>2. << >> \in Seq([key : Accounts, hash : [tx : Txs, net : Networks]])
    OBVIOUS
  <1>3. Envelope(tx) \in Envelopes
    BY <1>1, <1>2 DEF Envelopes
  <1> QED
    BY <1>1, <1>3, EnvelopesAssumption

\* What assemble returns is a transaction with the one operation it was given, and its fee
\* covers the resources although the sum is taken in a fixed width.
LEMMA AssembleType ==
    ASSUME NEW raw \in Txs, NEW s \in Sims, Assembles(raw, s)
    PROVE  /\ Assemble(raw, s) \in Txs
           /\ Len(raw.ops) = 1 /\ Len(Assemble(raw, s).ops) = 1
           /\ Assemble(raw, s).ops[1].body = raw.ops[1].body
           /\ Assemble(raw, s).fee >= DefaultFee + s.fee
           /\ s.fee \in Nat
  <1> DEFINE op == IF Fills(raw.ops[1]) THEN [raw.ops[1] EXCEPT !.auth = s.results[1]]
                                        ELSE raw.ops[1]
  <1>1. /\ ~s.error /\ Len(raw.ops) = 1 /\ s.data # None /\ ResourceFee(s) < U32
        /\ Fills(raw.ops[1]) => Len(s.results) = 1
    BY DEF Assembles
  <1>2. s \in Answers /\ s.fee \in Nat /\ 2 * s.fee < U64
    BY SimsAssumption DEF Answers
  <1>3. ResourceFee(s) = DefaultFee + s.fee
    <2>1. DefaultFee + s.fee \in 0 .. U64 - 1
      BY <1>2, WidthAssumption
    <2> QED
      BY <2>1, WidthAssumption DEF ResourceFee
  <1>4. raw.ops[1] \in Ops
    BY <1>1 DEF Txs
  <1>5. op \in Ops /\ op.body = raw.ops[1].body
    <2>1. CASE Fills(raw.ops[1])
      <3>1. s.results[1] \in Seq(AuthEntries)
        BY <2>1, <1>1, <1>2 DEF Answers
      <3> QED
        BY <2>1, <3>1, <1>4 DEF Ops
    <2>2. CASE ~Fills(raw.ops[1])
      BY <2>2, <1>4
    <2> QED
      BY <2>1, <2>2
  <1>6. Larger(raw.fee, ResourceFee(s)) \in 0 .. U32 - 1
    BY <1>1, <1>2, <1>3, WidthAssumption DEF Larger, Txs
  <1>7. Larger(raw.fee, ResourceFee(s)) >= DefaultFee + s.fee
    BY <1>2, <1>3, WidthAssumption DEF Larger, Txs
  <1>8. <<op>> \in Seq(Ops) /\ Len(<<op>>) = 1 /\ <<op>>[1] = op
    BY <1>5
  <1>9. s.data \in Exts
    BY <1>2 DEF Answers
  <1>10. Assemble(raw, s) =
            [raw EXCEPT !.fee = Larger(raw.fee, ResourceFee(s)), !.ops = <<op>>, !.ext = s.data]
    BY DEF Assemble
  <1> HIDE DEF op
  <1> QED
    BY <1>1, <1>2, <1>5, <1>6, <1>7, <1>8, <1>9, <1>10 DEF Txs

\* The fee arguments change nothing but the number of instructions.
LEMMA ApplyFeeType ==
    ASSUME NEW tx \in Txs, NEW i \in InstrArgs
    PROVE  /\ ApplyFee(tx, i) \in Txs
           /\ ApplyFee(tx, i).ops = tx.ops /\ ApplyFee(tx, i).fee = tx.fee
  <1>1. CASE tx.ext = None
    BY <1>1 DEF ApplyFee
  <1>2. CASE tx.ext # None
    <2> DEFINE n == IF i # None THEN i ELSE Padded(tx.ext.instructions)
    <2>1. tx.ext \in [instructions : Nat, rw : BOOLEAN]
      BY <1>2 DEF Txs, Exts
    <2>2. n \in Nat
      BY <2>1, InstrAssumption DEF Padded
    <2>3. [tx.ext EXCEPT !.instructions = n] \in Exts
      BY <2>1, <2>2 DEF Exts
    <2>4. ApplyFee(tx, i) = [tx EXCEPT !.ext = [tx.ext EXCEPT !.instructions = n]]
      BY <1>2 DEF ApplyFee, Txs
    <2> HIDE DEF n
    <2> QED
      BY <2>3, <2>4 DEF Txs
  <1> QED
    BY <1>1, <1>2

\* Signing the authorization entries keeps the operation and signs each for its address.
LEMMA SignEntriesType ==
    ASSUME NEW tx \in Txs, Len(tx.ops) = 1, NEW keys \in SUBSET Accounts, NEW l \in Nat,
           CanSign(tx, keys)
    PROVE  LET t == SignEntries(tx, l)
           IN  /\ t \in Txs /\ Len(t.ops) = 1 /\ t.ops[1].body = tx.ops[1].body
               /\ t.fee = tx.fee
               /\ \A i \in DOMAIN t.ops[1].auth :
                      t.ops[1].auth[i].who # None =>
                          /\ t.ops[1].auth[i].by = t.ops[1].auth[i].who
                          /\ t.ops[1].auth[i].expires = l
  <1> DEFINE au == tx.ops[1].auth
             bu == [i \in DOMAIN au |-> SignEntry(au[i], l)]
             op == [tx.ops[1] EXCEPT !.auth = bu]
  <1>1. tx.ops[1] \in Ops /\ au \in Seq(AuthEntries)
    <2>1. tx.ops[1] \in Ops
      BY DEF Txs
    <2> QED
      BY <2>1 DEF Ops
  <1>2. \A i \in DOMAIN au : /\ SignEntry(au[i], l) \in AuthEntries
                             /\ SignEntry(au[i], l).who = au[i].who
                             /\ au[i].who # None => /\ SignEntry(au[i], l).by = au[i].who
                                                    /\ SignEntry(au[i], l).expires = l
    <2> SUFFICES ASSUME NEW i \in DOMAIN au
                 PROVE  /\ SignEntry(au[i], l) \in AuthEntries
                        /\ SignEntry(au[i], l).who = au[i].who
                        /\ au[i].who # None => /\ SignEntry(au[i], l).by = au[i].who
                                               /\ SignEntry(au[i], l).expires = l
      OBVIOUS
    <2>1. au[i] \in AuthEntries
      BY <1>1
    <2>2. au[i].who \in keys \cup {None}
      BY DEF CanSign
    <2> HIDE DEF au
    <2> QED
      BY <2>1, <2>2 DEF SignEntry, AuthEntries
  <1>3. bu \in Seq(AuthEntries) /\ DOMAIN bu = DOMAIN au
    <2>1. DOMAIN au = 1 .. Len(au) /\ Len(au) \in Nat
      BY <1>1
    <2> HIDE DEF au
    <2> QED
      BY <2>1, <1>2
  <1>4. op \in Ops /\ op.body = tx.ops[1].body /\ op.auth = bu
    <2> HIDE DEF bu
    <2> QED
      BY <1>1, <1>3 DEF Ops
  <1>5. \A i \in DOMAIN bu : bu[i].who # None => bu[i].by = bu[i].who /\ bu[i].expires = l
    BY <1>2, <1>3
  <1>6. SignEntries(tx, l) = [tx EXCEPT !.ops = <<op>>]
    BY DEF SignEntries
  <1>7. <<op>> \in Seq(Ops) /\ Len(<<op>>) = 1 /\ <<op>>[1] = op
    BY <1>4
  <1>8. /\ [tx EXCEPT !.ops = <<op>>] \in Txs
        /\ [tx EXCEPT !.ops = <<op>>].ops = <<op>>
        /\ [tx EXCEPT !.ops = <<op>>].fee = tx.fee
    <2> HIDE DEF op
    <2> QED
      BY <1>7 DEF Txs
  <1> HIDE DEF op, bu, au
  <1> QED
    BY <1>4, <1>5, <1>6, <1>7, <1>8

-----------------------------------------------------------------------------
(* The inductive invariant and its preservation.                            *)

EnvelopeInv == TypeOK /\ SignaturesFit /\ OpsAreAsked /\ FeePays /\ CallsAuthorized

\* Every command that builds a transaction establishes the invariant anew.
LEMMA BuildKeeps ==
    ASSUME EnvelopeInv, NEW a \in Sources, NEW f \in FeeArgs, NEW b \in Bodies,
           Build(a, f, Op(b, None)),
           stage' \in {"idle", "assemble", "authorize", "sign", "send"}
    PROVE  EnvelopeInv'
  <1> DEFINE t == NewTx(a, f, NextSequenceNumber(a), Op(b, None))
  <1>1. Op(b, None) \in Ops /\ Op(b, None).body = b /\ Op(b, None).auth = << >>
    <2>1. << >> \in Seq(AuthEntries)
      OBVIOUS
    <2> QED
      BY <2>1 DEF Op, Ops
  <1>2. <<Op(b, None)>> \in Seq(Ops) /\ Len(<<Op(b, None)>>) = 1
    BY <1>1
  <1>3. NextSequenceNumber(a) \in 0 .. MaxSeq
    BY BoundsAssumption DEF EnvelopeInv, TypeOK, Build, NextSequenceNumber
  <1>4. f \in 0 .. U32 - 1
    BY FeeAssumption
  <1>5. None \in Exts
    BY DEF Exts
  <1>6. t \in Txs /\ t.ops = <<Op(b, None)>> /\ t.fee = f
    BY <1>2, <1>3, <1>4, <1>5 DEF NewTx, Txs
  <1>7. /\ env' = Envelope(t) /\ asked' = <<b>> /\ need' = 0
        /\ UNCHANGED <<seqOn, now>>
    BY <1>1 DEF Build, ledger
  <1> HIDE DEF t
  <1>8. /\ env' \in Envelopes /\ env' # None /\ env'.tx = t /\ env'.sigs = << >>
    BY <1>6, <1>7, EnvelopeType
  <1>9. TypeOK'
    <2>1. <<b>> \in Seq(Bodies)
      OBVIOUS
    <2>2. Len(env'.tx.ops) \in 1 .. MaxOps /\ Len(env'.sigs) <= MaxSigs
      BY <1>2, <1>6, <1>8, OneFits
    <2> QED
      BY <2>1, <2>2, <1>7, <1>8 DEF EnvelopeInv, TypeOK
  <1>10. SignaturesFit'
    BY <1>8 DEF SignaturesFit
  <1>11. OpsAreAsked'
    BY <1>1, <1>2, <1>6, <1>7, <1>8 DEF OpsAreAsked
  <1>12. FeePays'
    BY <1>4, <1>6, <1>7, <1>8, WidthAssumption DEF FeePays
  <1>13. CallsAuthorized'
    BY <1>1, <1>6, <1>8 DEF CallsAuthorized, RequiresAuth
  <1> QED
    BY <1>9, <1>10, <1>11, <1>12, <1>13 DEF EnvelopeInv

\* Worked-in simulations keep it: the signatures go, the operation stays, the fee suffices.
LEMMA AssembledKeeps ==
    ASSUME EnvelopeInv, env # None, NEW s \in Sims, Assembles(env.tx, s),
           NEW t \in Txs, t.ops = Assemble(env.tx, s).ops, t.fee = Assemble(env.tx, s).fee,
           env' = Envelope(t), need' = DefaultFee + s.fee, UNCHANGED <<ledger, asked>>,
           stage' \in {"idle", "authorize"}
    PROVE  EnvelopeInv'
  <1>1. env \in Envelopes /\ env.tx \in Txs
    BY DEF EnvelopeInv, TypeOK, Envelopes
  <1>2. /\ Len(env.tx.ops) = 1 /\ Len(t.ops) = 1 /\ t.ops[1].body = env.tx.ops[1].body
        /\ t.fee >= DefaultFee + s.fee /\ s.fee \in Nat
    BY <1>1, AssembleType
  <1>3. /\ env' \in Envelopes /\ env' # None /\ env'.tx = t /\ env'.sigs = << >>
    BY EnvelopeType
  <1>4. TypeOK'
    <2>1. Len(env'.tx.ops) \in 1 .. MaxOps /\ Len(env'.sigs) <= MaxSigs
      BY <1>2, <1>3, OneFits
    <2>2. need' \in Nat
      BY <1>2, WidthAssumption
    <2> QED
      BY <2>1, <2>2, <1>3 DEF EnvelopeInv, TypeOK, ledger
  <1>5. SignaturesFit'
    BY <1>3 DEF SignaturesFit
  <1>6. OpsAreAsked'
    <2>1. /\ Len(asked) = 1 /\ env.tx.ops[1].body = asked[1] /\ asked \in Seq(Bodies)
      BY <1>2 DEF EnvelopeInv, OpsAreAsked, TypeOK
    <2> QED
      BY <2>1, <1>2, <1>3 DEF OpsAreAsked
  <1>7. FeePays'
    BY <1>2, <1>3 DEF FeePays
  <1>8. CallsAuthorized'
    BY DEF CallsAuthorized
  <1> QED
    BY <1>4, <1>5, <1>6, <1>7, <1>8 DEF EnvelopeInv

\* A signature over the present contents fits.
LEMMA SignedKeeps ==
    ASSUME NEW e \in Envelopes, NEW key \in Accounts, NEW net \in Networks,
           Len(e.sigs) < MaxSigs,
           \A i \in DOMAIN e.sigs : e.sigs[i].hash.tx = e.tx
    PROVE  LET d == Signed(e, key, net)
           IN  /\ d \in Envelopes /\ d.tx = e.tx /\ Len(d.sigs) <= MaxSigs
               /\ \A i \in DOMAIN d.sigs : d.sigs[i].hash.tx = d.tx
  <1> DEFINE g == [key |-> key, hash |-> Hash(e.tx, net)]
             G == [key : Accounts, hash : [tx : Txs, net : Networks]]
  <1>1. e.tx \in Txs /\ e.sigs \in Seq(G)
    BY DEF Envelopes
  <1>2. g \in G /\ g.hash.tx = e.tx
    BY <1>1 DEF Hash
  <1>3. Signed(e, key, net) = [e EXCEPT !.sigs = Append(e.sigs, g)]
    BY DEF Signed
  <1> HIDE DEF g
  <1>4. Append(e.sigs, g) \in Seq(G) /\ Len(Append(e.sigs, g)) = Len(e.sigs) + 1
    BY <1>1, <1>2
  <1>5. \A i \in DOMAIN Append(e.sigs, g) : Append(e.sigs, g)[i].hash.tx = e.tx
    BY <1>1, <1>2
  <1>6. [e EXCEPT !.sigs = Append(e.sigs, g)] \in Envelopes
    BY <1>1, <1>4 DEF Envelopes
  <1>7. /\ [e EXCEPT !.sigs = Append(e.sigs, g)].tx = e.tx
        /\ [e EXCEPT !.sigs = Append(e.sigs, g)].sigs = Append(e.sigs, g)
    BY DEF Envelopes
  <1>8. Len(e.sigs) + 1 <= MaxSigs
    BY <1>1, BoundsAssumption
  <1> QED
    BY <1>3, <1>4, <1>5, <1>6, <1>7, <1>8

\* A command that leaves the envelope alone, whatever becomes of the ledger.
LEMMA SameEnvelope ==
    ASSUME EnvelopeInv, UNCHANGED <<env, asked, need>>,
           stage' \in {"idle", "assemble", "authorize", "sign", "send"},
           seqOn' \in [Sources -> 0 .. MaxSeq], now' \in 0 .. MaxLedger, now' >= now,
           stage' # "idle" => env # None,
           \/ stage' \in {"idle", stage}
           \/ ~RequiresAuth(env.tx)
    PROVE  EnvelopeInv'
  <1>1. TypeOK'
    BY DEF EnvelopeInv, TypeOK
  <1>2. SignaturesFit' /\ OpsAreAsked' /\ FeePays'
    BY DEF EnvelopeInv, SignaturesFit, OpsAreAsked, FeePays
  <1>3. CallsAuthorized'
    <2> SUFFICES ASSUME stage' \in {"sign", "send"}, env # None, RequiresAuth(env.tx),
                        NEW i \in DOMAIN env.tx.ops[1].auth,
                        env.tx.ops[1].auth[i].who # None
                 PROVE  /\ env.tx.ops[1].auth[i].by = env.tx.ops[1].auth[i].who
                        /\ env.tx.ops[1].auth[i].expires <= now' + AuthWindow
      BY DEF CallsAuthorized, RequiresAuth
    <2>1. /\ env.tx.ops[1].auth[i].by = env.tx.ops[1].auth[i].who
          /\ env.tx.ops[1].auth[i].expires <= now + AuthWindow
      BY DEF EnvelopeInv, CallsAuthorized
    <2>2. env.tx.ops[1].auth[i].expires \in Nat
      <3>1. env.tx \in Txs
        BY DEF EnvelopeInv, TypeOK, Envelopes
      <3>2. env.tx.ops \in Seq(Ops) /\ Len(env.tx.ops) = 1
        BY <3>1 DEF Txs, RequiresAuth
      <3>3. env.tx.ops[1] \in Ops
        BY <3>2
      <3>4. env.tx.ops[1].auth \in Seq(AuthEntries)
        BY <3>3 DEF Ops
      <3>5. env.tx.ops[1].auth[i] \in AuthEntries
        BY <3>4
      <3> QED
        BY <3>5 DEF AuthEntries
    <2>3. now \in Nat /\ now' \in Nat
      BY BoundsAssumption DEF EnvelopeInv, TypeOK
    <2> QED
      BY <2>1, <2>2, <2>3, WidthAssumption
  <1> QED
    BY <1>1, <1>2, <1>3 DEF EnvelopeInv

LEMMA FailsKeeps == ASSUME EnvelopeInv, Fails PROVE EnvelopeInv'
  BY SameEnvelope, BoundsAssumption DEF EnvelopeInv, TypeOK, Fails, ledger, history

\* An envelope whose transaction is kept, with signatures that fit it.
LEMMA SameTx ==
    ASSUME EnvelopeInv, env # None, env' \in Envelopes, env'.tx = env.tx,
           Len(env'.sigs) <= MaxSigs,
           \A i \in DOMAIN env'.sigs : env'.sigs[i].hash.tx = env'.tx,
           UNCHANGED <<ledger, history>>,
           stage' = "idle" \/ (stage = "sign" /\ stage' = "send")
    PROVE  EnvelopeInv'
  <1>1. env' # None
    BY EnvelopesAssumption
  <1>2. TypeOK'
    BY <1>1 DEF EnvelopeInv, TypeOK, ledger, history
  <1>3. SignaturesFit' /\ OpsAreAsked' /\ FeePays'
    BY <1>1 DEF EnvelopeInv, SignaturesFit, OpsAreAsked, FeePays, history
  <1>4. CallsAuthorized'
    BY <1>1 DEF EnvelopeInv, CallsAuthorized, RequiresAuth, ledger
  <1> QED
    BY <1>2, <1>3, <1>4 DEF EnvelopeInv

LEMMA AuthorizeKeeps ==
    ASSUME EnvelopeInv, NEW keys \in SUBSET Signers, InvokeAuthorize(keys)
    PROVE  EnvelopeInv'
  <1>1. CASE Fails
    BY <1>1, FailsKeeps
  <1>2. CASE /\ ~RequiresAuth(env.tx) /\ stage = "authorize" /\ stage' = "sign"
             /\ UNCHANGED <<env, ledger, history>>
    BY <1>2, SameEnvelope, BoundsAssumption DEF EnvelopeInv, TypeOK, ledger, history
  <1>3. CASE /\ stage = "authorize" /\ stage' = "sign" /\ RequiresAuth(env.tx)
             /\ env.tx.source \in Signers
             /\ CanSign(env.tx, keys \cup {env.tx.source})
             /\ env' = Envelope(SignEntries(env.tx, now + AuthWindow))
             /\ UNCHANGED <<ledger, history>>
    <2> DEFINE l == now + AuthWindow
               t == SignEntries(env.tx, l)
    <2>1. env \in Envelopes /\ env.tx \in Txs /\ env # None /\ Len(env.tx.ops) = 1
      BY <1>3 DEF EnvelopeInv, TypeOK, Envelopes, RequiresAuth
    <2>2. l \in Nat /\ keys \cup {env.tx.source} \in SUBSET Accounts
      BY <1>3, WidthAssumption, BoundsAssumption, SignersAssumption DEF EnvelopeInv, TypeOK
    <2>3. /\ t \in Txs /\ Len(t.ops) = 1 /\ t.ops[1].body = env.tx.ops[1].body
          /\ t.fee = env.tx.fee
          /\ \A i \in DOMAIN t.ops[1].auth :
                 t.ops[1].auth[i].who # None =>
                     /\ t.ops[1].auth[i].by = t.ops[1].auth[i].who
                     /\ t.ops[1].auth[i].expires = l
      BY <1>3, <2>1, <2>2, SignEntriesType
    <2> HIDE DEF t
    <2>4. /\ env' \in Envelopes /\ env' # None /\ env'.tx = t /\ env'.sigs = << >>
      BY <1>3, <2>3, EnvelopeType DEF t
    <2>5. TypeOK'
      <3>1. Len(env'.tx.ops) \in 1 .. MaxOps /\ Len(env'.sigs) <= MaxSigs
        BY <2>3, <2>4, OneFits
      <3> QED
        BY <1>3, <3>1, <2>4 DEF EnvelopeInv, TypeOK, ledger, history
    <2>6. SignaturesFit'
      BY <2>4 DEF SignaturesFit
    <2>7. OpsAreAsked'
      <3>1. Len(asked) = 1 /\ env.tx.ops[1].body = asked[1] /\ asked \in Seq(Bodies)
        BY <2>1 DEF EnvelopeInv, OpsAreAsked, TypeOK
      <3> QED
        BY <1>3, <3>1, <2>3, <2>4 DEF OpsAreAsked, history
    <2>8. FeePays'
      BY <1>3, <2>1, <2>3, <2>4 DEF EnvelopeInv, FeePays, history
    <2>9. CallsAuthorized'
      <3>1. now' + AuthWindow = l
        BY <1>3 DEF ledger
      <3> HIDE DEF l
      <3> QED
        BY <3>1, <2>2, <2>3, <2>4 DEF CallsAuthorized
    <2> QED
      BY <2>5, <2>6, <2>7, <2>8, <2>9 DEF EnvelopeInv
  <1> QED
    BY <1>1, <1>2, <1>3 DEF InvokeAuthorize

LEMMA OpAddKeeps ==
    ASSUME EnvelopeInv, NEW c \in Args, NEW source \in Sources \cup {None}, OpAdd(c, source)
    PROVE  EnvelopeInv'
  <1>1. CASE Fails
    BY <1>1, FailsKeeps
  <1>2. CASE /\ stage = "idle" /\ env # None /\ Len(env.tx.ops) < MaxOps
             /\ Prints(AddOp(env, Op(Body(c), source)))
             /\ asked' = Append(asked, Body(c))
             /\ UNCHANGED <<need, base, sims>>
    <2> DEFINE op == Op(Body(c), source)
               t == [env.tx EXCEPT !.ops = Append(env.tx.ops, op)]
    <2>1. env \in Envelopes /\ env.tx \in Txs /\ env.tx.ops \in Seq(Ops)
      BY <1>2 DEF EnvelopeInv, TypeOK, Envelopes, Txs
    <2>2. op \in Ops /\ op.body = Body(c) /\ Body(c) \in Bodies
      <3>1. << >> \in Seq(AuthEntries)
        OBVIOUS
      <3>2. Body(c) \in Bodies
        BY DEF Bodies
      <3>3. source \in Accounts \cup {None}
        BY SignersAssumption
      <3> QED
        BY <3>1, <3>2, <3>3 DEF Op, Ops
    <2> HIDE DEF op
    <2>3. /\ Append(env.tx.ops, op) \in Seq(Ops)
          /\ Len(Append(env.tx.ops, op)) = Len(env.tx.ops) + 1
          /\ \A i \in 1 .. Len(env.tx.ops) : Append(env.tx.ops, op)[i] = env.tx.ops[i]
          /\ Append(env.tx.ops, op)[Len(env.tx.ops) + 1] = op
      BY <2>1, <2>2
    <2>4. t \in Txs /\ t.ops = Append(env.tx.ops, op) /\ t.fee = env.tx.fee
      BY <2>1, <2>3 DEF Txs
    <2>5. env' = Envelope(t) /\ stage' = "idle" /\ UNCHANGED <<ledger, need>>
      BY <1>2 DEF Prints, AddOp, op
    <2> HIDE DEF t
    <2>6. /\ env' \in Envelopes /\ env' # None /\ env'.tx = t /\ env'.sigs = << >>
      BY <2>4, <2>5, EnvelopeType
    <2>7. TypeOK'
      <3>1. Len(env'.tx.ops) \in 1 .. MaxOps /\ Len(env'.sigs) <= MaxSigs
        BY <1>2, <2>1, <2>3, <2>4, <2>6, BoundsAssumption
      <3>2. asked' \in Seq(Bodies)
        BY <1>2, <2>2 DEF EnvelopeInv, TypeOK
      <3> QED
        BY <3>1, <3>2, <2>5, <2>6 DEF EnvelopeInv, TypeOK, ledger
    <2>8. SignaturesFit'
      BY <2>6 DEF SignaturesFit
    <2>9. OpsAreAsked'
      <3>1. /\ Len(env.tx.ops) = Len(asked) /\ asked \in Seq(Bodies)
            /\ \A i \in DOMAIN asked : env.tx.ops[i].body = asked[i]
        BY <1>2 DEF EnvelopeInv, OpsAreAsked, TypeOK
      <3>2. /\ Len(asked') = Len(asked) + 1 /\ DOMAIN asked' = 1 .. Len(asked) + 1
            /\ \A i \in 1 .. Len(asked) : asked'[i] = asked[i]
            /\ asked'[Len(asked) + 1] = Body(c)
        BY <1>2, <3>1, <2>2
      <3>3. ASSUME NEW i \in DOMAIN asked' PROVE t.ops[i].body = asked'[i]
        <4>1. CASE i \in 1 .. Len(asked)
          BY <4>1, <3>1, <3>2, <2>3, <2>4
        <4>2. CASE i = Len(asked) + 1
          BY <4>2, <3>1, <3>2, <2>2, <2>3, <2>4
        <4> QED
          BY <4>1, <4>2, <3>1, <3>2
      <3>4. Len(t.ops) = Len(asked')
        BY <3>1, <3>2, <2>3, <2>4
      <3> QED
        BY <3>3, <3>4, <2>6 DEF OpsAreAsked
    <2>10. FeePays'
      BY <1>2, <2>4, <2>5, <2>6 DEF EnvelopeInv, FeePays
    <2>11. CallsAuthorized'
      BY <2>5 DEF CallsAuthorized
    <2> QED
      BY <2>7, <2>8, <2>9, <2>10, <2>11 DEF EnvelopeInv
  <1> QED
    BY <1>1, <1>2 DEF OpAdd

LEMMA EnvelopeStep == ASSUME EnvelopeInv, [Next]_vars PROVE EnvelopeInv'
  <1>1. ASSUME NEW a \in Sources, NEW f \in FeeArgs, NEW c \in Args, New(a, f, c)
        PROVE  EnvelopeInv'
    <2>1. Body(c) \in Bodies
      BY DEF Bodies
    <2> QED
      BY <1>1, <2>1, BuildKeeps DEF New
  <1>2. ASSUME NEW a \in Sources, NEW f \in FeeArgs, InvokeNew(a, f) PROVE EnvelopeInv'
    <2>1. Invoke \in Bodies
      BY DEF Bodies
    <2> QED
      BY <1>2, <2>1, BuildKeeps DEF InvokeNew
  <1>3. ASSUME NEW s \in Sims, NEW i \in InstrArgs, InvokeAssemble(s, i) PROVE EnvelopeInv'
    <2>1. CASE Fails
      BY <2>1, FailsKeeps
    <2>2. CASE /\ stage = "assemble" /\ Assembles(env.tx, s)
               /\ env' = Envelope(ApplyFee(Assemble(env.tx, s), i))
               /\ need' = DefaultFee + s.fee /\ stage' \in {"idle", "authorize"}
               /\ UNCHANGED <<ledger, asked>>
      <3>1. env # None /\ env.tx \in Txs
        BY <2>2 DEF EnvelopeInv, TypeOK, Envelopes
      <3>2. Assemble(env.tx, s) \in Txs
        BY <2>2, <3>1, AssembleType
      <3>3. /\ ApplyFee(Assemble(env.tx, s), i) \in Txs
            /\ ApplyFee(Assemble(env.tx, s), i).ops = Assemble(env.tx, s).ops
            /\ ApplyFee(Assemble(env.tx, s), i).fee = Assemble(env.tx, s).fee
        BY <3>2, ApplyFeeType
      <3> QED
        BY <2>2, <3>1, <3>3, AssembledKeeps
    <2> QED
      BY <1>3, <2>1, <2>2 DEF InvokeAssemble
  <1>4. ASSUME NEW keys \in SUBSET Signers, InvokeAuthorize(keys) PROVE EnvelopeInv'
    BY <1>4, AuthorizeKeeps
  <1>5. CASE SignLocal
    <2>1. CASE Fails
      BY <2>1, FailsKeeps
    <2>2. CASE /\ stage = "sign" /\ stage' = "send" /\ env.tx.source \in Signers
               /\ env' = Signed(Envelope(env.tx), env.tx.source, Home)
               /\ UNCHANGED <<ledger, history>>
      <3>1. env # None /\ env.tx \in Txs /\ env.tx.source \in Accounts
        BY <2>2, SignersAssumption DEF EnvelopeInv, TypeOK, Envelopes
      <3>2. /\ Envelope(env.tx) \in Envelopes /\ Envelope(env.tx).tx = env.tx
            /\ Envelope(env.tx).sigs = << >>
        BY <3>1, EnvelopeType
      <3>3. Len(Envelope(env.tx).sigs) < MaxSigs
        BY <3>2, BoundsAssumption
      <3>4. \A j \in DOMAIN Envelope(env.tx).sigs :
                Envelope(env.tx).sigs[j].hash.tx = Envelope(env.tx).tx
        BY <3>2
      <3>5. LET d == Signed(Envelope(env.tx), env.tx.source, Home)
            IN  /\ d \in Envelopes /\ d.tx = env.tx /\ Len(d.sigs) <= MaxSigs
                /\ \A j \in DOMAIN d.sigs : d.sigs[j].hash.tx = d.tx
        BY <3>1, <3>2, <3>3, <3>4, SignedKeeps, HomeAssumption
      <3> QED
        BY <2>2, <3>1, <3>5, SameTx
    <2> QED
      BY <1>5, <2>1, <2>2 DEF SignLocal
  <1>6. ASSUME NEW key \in Accounts, NEW net \in Networks, TxSign(key, net)
        PROVE  EnvelopeInv'
    <2>1. CASE Fails
      BY <2>1, FailsKeeps
    <2>2. CASE /\ env # None /\ Len(env.sigs) < MaxSigs /\ Prints(Signed(env, key, net))
               /\ UNCHANGED history
      <3>1. env \in Envelopes
        BY <2>2 DEF EnvelopeInv, TypeOK
      <3>2. \A j \in DOMAIN env.sigs : env.sigs[j].hash.tx = env.tx
        BY <2>2 DEF EnvelopeInv, SignaturesFit
      <3>3. LET d == Signed(env, key, net)
            IN  /\ d \in Envelopes /\ d.tx = env.tx /\ Len(d.sigs) <= MaxSigs
                /\ \A j \in DOMAIN d.sigs : d.sigs[j].hash.tx = d.tx
        BY <2>2, <3>1, <3>2, SignedKeeps
      <3> QED
        BY <2>2, <3>3, SameTx DEF Prints
    <2> QED
      BY <1>6, <2>1, <2>2 DEF TxSign
  <1>7. CASE TxSignLab
    BY <1>7, FailsKeeps DEF TxSignLab
  <1>8. ASSUME NEW c \in Args, NEW source \in Sources \cup {None}, OpAdd(c, source)
        PROVE  EnvelopeInv'
    BY <1>8, OpAddKeeps
  <1>9. ASSUME NEW s \in Sims, TxSimulate(s) PROVE EnvelopeInv'
    <2>1. CASE Fails
      BY <2>1, FailsKeeps
    <2>2. CASE /\ env # None /\ Assembles(env.tx, s) /\ WithSimulation(s) /\ stage' = "idle"
      <3>1. env.tx \in Txs
        BY <2>2 DEF EnvelopeInv, TypeOK, Envelopes
      <3>2. Assemble(env.tx, s) \in Txs
        BY <2>2, <3>1, AssembleType
      <3> QED
        BY <2>2, <3>2, AssembledKeeps DEF WithSimulation
    <2> QED
      BY <1>9, <2>1, <2>2 DEF TxSimulate
  <1>10. CASE Send
    <2>1. env # None /\ env \in Envelopes /\ env.tx \in Txs
      BY <1>10 DEF Send, EnvelopeInv, TypeOK, Envelopes
    <2>2. seqOn' \in [Sources -> 0 .. MaxSeq]
      <3>1. CASE Verdict(env) \in {"txFAILED", "txSUCCESS"}
        <4>1. env.tx.seq = seqOn[env.tx.source] + 1
          BY <3>1 DEF Verdict
        <4>2. env.tx.seq \in 0 .. MaxSeq /\ env.tx.source \in Sources
          BY <2>1 DEF Txs
        <4>3. seqOn' = [seqOn EXCEPT ![env.tx.source] = seqOn[env.tx.source] + 1]
          BY <1>10, <3>1 DEF Send
        <4> QED
          BY <4>1, <4>2, <4>3 DEF EnvelopeInv, TypeOK
      <3>2. CASE Verdict(env) \notin {"txFAILED", "txSUCCESS"}
        BY <1>10, <3>2 DEF Send, EnvelopeInv, TypeOK
      <3> QED
        BY <3>1, <3>2
    <2>3. /\ UNCHANGED <<env, asked, need, now>> /\ stage' = "idle"
      BY <1>10 DEF Send, history
    <2>4. now \in 0 .. MaxLedger
      BY DEF EnvelopeInv, TypeOK
    <2>5. now' >= now
      BY <2>3, <2>4
    <2> QED
      BY <2>1, <2>2, <2>3, <2>4, <2>5, SameEnvelope
  <1>11. CASE CloseLedger
    <2>1. now' \in 0 .. MaxLedger /\ now' >= now
      BY <1>11, BoundsAssumption DEF CloseLedger, EnvelopeInv, TypeOK
    <2> QED
      BY <1>11, <2>1, SameEnvelope DEF CloseLedger, EnvelopeInv, TypeOK, history
  <1>12. ASSUME NEW a \in Sources, UseAccount(a) PROVE EnvelopeInv'
    <2>1. seqOn' \in [Sources -> 0 .. MaxSeq]
      BY <1>12, BoundsAssumption DEF UseAccount, EnvelopeInv, TypeOK
    <2>2. now' \in 0 .. MaxLedger /\ now' >= now
      BY <1>12 DEF UseAccount, EnvelopeInv, TypeOK
    <2> QED
      BY <1>12, <2>1, <2>2, SameEnvelope DEF UseAccount, EnvelopeInv, TypeOK, history
  <1>13. CASE UNCHANGED vars
    <2>1. now' \in 0 .. MaxLedger /\ now' >= now
      BY <1>13 DEF vars, EnvelopeInv, TypeOK
    <2> QED
      BY <1>13, <2>1, SameEnvelope DEF vars, EnvelopeInv, TypeOK
  <1> QED
    BY <1>1, <1>2, <1>3, <1>4, <1>5, <1>6, <1>7, <1>8, <1>9, <1>10, <1>11, <1>12, <1>13
    DEF Next

-----------------------------------------------------------------------------
(* The theorems.                                                            *)

THEOREM EnvelopeCorrect == Spec => []EnvelopeInv
  <1>1. Init => EnvelopeInv
    <2> SUFFICES ASSUME Init PROVE EnvelopeInv
      OBVIOUS
    <2>1. << >> \in Seq(Bodies)
      OBVIOUS
    <2>2. TypeOK
      BY <2>1, BoundsAssumption DEF Init, TypeOK
    <2> QED
      BY <2>2 DEF Init, EnvelopeInv, SignaturesFit, OpsAreAsked, FeePays, CallsAuthorized
  <1>2. EnvelopeInv /\ [Next]_vars => EnvelopeInv'
    BY EnvelopeStep
  <1> QED
    BY <1>1, <1>2, PTL DEF Spec

\* Type correctness, with fees, sequence numbers, operations and signatures in their limits.
THEOREM EnvelopeTypes == Spec => []TypeOK
  <1>1. EnvelopeInv => TypeOK
    BY DEF EnvelopeInv
  <1> QED
    BY <1>1, EnvelopeCorrect, PTL

\* No command ever leaves a signature over other contents in an envelope (signer.rs, xdr.rs).
THEOREM SignaturesAlwaysFit == Spec => []SignaturesFit
  <1>1. EnvelopeInv => SignaturesFit
    BY DEF EnvelopeInv
  <1> QED
    BY <1>1, EnvelopeCorrect, PTL

\* No command loses or reorders an operation (args.rs, assembled.rs).
THEOREM OpsAlwaysAsked == Spec => []OpsAreAsked
  <1>1. EnvelopeInv => OpsAreAsked
    BY DEF EnvelopeInv
  <1> QED
    BY <1>1, EnvelopeCorrect, PTL

\* Assembling never offers less than the simulation asks for (assembled.rs).
THEOREM FeeAlwaysPays == Spec => []FeePays
  <1>1. EnvelopeInv => FeePays
    BY DEF EnvelopeInv
  <1> QED
    BY <1>1, EnvelopeCorrect, PTL

\* An invocation that needs authorization is signed only once it has it (invoke.rs, signer.rs).
THEOREM CallsAlwaysAuthorized == Spec => []CallsAuthorized
  <1>1. EnvelopeInv => CallsAuthorized
    BY DEF EnvelopeInv
  <1> QED
    BY <1>1, EnvelopeCorrect, PTL

-----------------------------------------------------------------------------
(* The sequence number.                                                     *)

\* The envelope has the sequence number after the one that was read when it was built, and
\* the account has only moved on since then; it has, when the network complains.
SequenceInv ==
    /\ base \in Nat
    /\ env # None => env.tx.seq = base + 1 /\ seqOn[env.tx.source] >= base
    /\ out = "txBAD_SEQ" => env # None /\ seqOn[env.tx.source] > base

SameSequence(t, u) == t.seq = u.seq /\ t.source = u.source

\* No operation on a transaction touches its sequence number or its source.
LEMMA AssembleSequence ==
    ASSUME NEW raw \in Txs, NEW s, NEW i
    PROVE  SameSequence(Assemble(raw, s), raw) /\ SameSequence(ApplyFee(raw, i), raw)
  <1>1. SameSequence(Assemble(raw, s), raw)
    BY DEF Assemble, Txs, SameSequence
  <1>2. SameSequence(ApplyFee(raw, i), raw)
    BY DEF ApplyFee, Txs, SameSequence
  <1> QED  BY <1>1, <1>2

LEMMA EntriesSequence ==
    ASSUME NEW tx \in Txs, NEW l PROVE SameSequence(SignEntries(tx, l), tx)
  BY DEF SignEntries, Txs, SameSequence

\* A command that keeps the sequence number and the ledger.
LEMMA SequenceKept ==
    ASSUME TypeOK, SequenceInv, env # None, env' # None, SameSequence(env'.tx, env.tx),
           out' # "txBAD_SEQ", UNCHANGED <<seqOn, base>>
    PROVE  SequenceInv'
  BY DEF SequenceInv, SameSequence

LEMMA SequenceFails == ASSUME SequenceInv, Fails PROVE SequenceInv'
  BY DEF SequenceInv, Fails, ledger, history

LEMMA SequenceStep == ASSUME EnvelopeInv, SequenceInv, [Next]_vars PROVE SequenceInv'
  <1>t. TypeOK
    BY DEF EnvelopeInv
  <1>e. env # None => env \in Envelopes /\ env.tx \in Txs /\ env.tx.source \in Sources
    BY <1>t DEF TypeOK, Envelopes, Txs
  <1>n. \A a \in Sources : seqOn[a] \in Nat
    BY <1>t, BoundsAssumption DEF TypeOK
  <1>1. ASSUME NEW a \in Sources, NEW f, NEW op, Build(a, f, op), out' # "txBAD_SEQ"
        PROVE  SequenceInv'
    <2>1. /\ env'.tx = NewTx(a, f, NextSequenceNumber(a), op)
          /\ base' = seqOn[a] /\ seqOn' = seqOn
      BY <1>1 DEF Build, Envelope, ledger
    <2>2. env'.tx.seq = seqOn[a] + 1 /\ env'.tx.source = a
      BY <2>1 DEF NewTx, NextSequenceNumber
    <2> QED  BY <1>1, <1>n, <2>1, <2>2 DEF SequenceInv
  <1>2. ASSUME NEW a \in Sources, NEW f \in FeeArgs, NEW c \in Args, New(a, f, c)
        PROVE  SequenceInv'
    BY <1>1, <1>2 DEF New
  <1>3. ASSUME NEW a \in Sources, NEW f \in FeeArgs, InvokeNew(a, f) PROVE SequenceInv'
    BY <1>1, <1>3 DEF InvokeNew
  <1>4. ASSUME env # None, NEW t \in Txs, SameSequence(t, env.tx), env' = Envelope(t),
               out' # "txBAD_SEQ", UNCHANGED <<seqOn, base>>
        PROVE  SequenceInv'
    <2>1. env' # None /\ env'.tx = t
      BY <1>4, EnvelopeType
    <2> QED  BY <1>t, <1>4, <2>1, SequenceKept
  <1>5. ASSUME NEW s \in Sims, NEW i \in InstrArgs, InvokeAssemble(s, i) PROVE SequenceInv'
    <2>1. CASE Fails
      BY <2>1, SequenceFails
    <2>2. CASE ~Fails
      <3>1. env # None /\ env.tx \in Txs
        BY <1>t, <1>e, <1>5 DEF InvokeAssemble, TypeOK
      <3>2. /\ Assembles(env.tx, s) /\ env' = Envelope(ApplyFee(Assemble(env.tx, s), i))
            /\ out' \in {"printed", "none"} /\ UNCHANGED <<seqOn, base>>
        BY <1>5, <2>2 DEF InvokeAssemble, ledger
      <3>3. Assemble(env.tx, s) \in Txs
        BY <3>1, <3>2, AssembleType
      <3>4. ApplyFee(Assemble(env.tx, s), i) \in Txs
        BY <3>3, ApplyFeeType
      <3>5. SameSequence(ApplyFee(Assemble(env.tx, s), i), env.tx)
        BY <3>1, <3>3, AssembleSequence DEF SameSequence
      <3> QED  BY <1>4, <3>1, <3>2, <3>4, <3>5
    <2> QED  BY <2>1, <2>2
  <1>6. ASSUME NEW keys \in SUBSET Signers, InvokeAuthorize(keys) PROVE SequenceInv'
    <2>1. env # None /\ env.tx \in Txs
      BY <1>t, <1>e, <1>6 DEF InvokeAuthorize, TypeOK
    <2>2. CASE Fails
      BY <2>2, SequenceFails
    <2>3. CASE /\ env' = env /\ out' = "none" /\ UNCHANGED <<seqOn, base>>
      BY <1>t, <2>1, <2>3, SequenceKept DEF SameSequence
    <2>4. CASE /\ env' = Envelope(SignEntries(env.tx, now + AuthWindow))
               /\ stage' = "sign" /\ out' = "none" /\ UNCHANGED <<seqOn, base>>
      <3>1. env'.tx = SignEntries(env.tx, now + AuthWindow)
        BY <2>4 DEF Envelope
      <3>2. SameSequence(env'.tx, env.tx)
        BY <2>1, <3>1, EntriesSequence
      <3>3. env' # None
        BY <1>6, <2>4, AuthorizeKeeps DEF EnvelopeInv, TypeOK
      <3> QED  BY <1>t, <2>1, <2>4, <3>2, <3>3, SequenceKept
    <2> QED  BY <1>6, <2>2, <2>3, <2>4 DEF InvokeAuthorize, ledger, history
  <1>7. ASSUME NEW e \in Envelopes, NEW key, NEW net, env' = Signed(e, key, net)
        PROVE  env'.tx = e.tx
    BY <1>7 DEF Signed, Envelopes
  <1>8. CASE SignLocal
    <2>1. CASE Fails
      BY <2>1, SequenceFails
    <2>2. CASE ~Fails
      <3>1. env # None /\ env.tx \in Txs
        BY <1>t, <1>e, <1>8 DEF SignLocal, TypeOK
      <3>2. /\ env' = Signed(Envelope(env.tx), env.tx.source, Home)
            /\ stage' = "send" /\ out' = "none" /\ UNCHANGED <<seqOn, base>>
        BY <1>8, <2>2 DEF SignLocal, ledger, history
      <3>3. env'.tx = env.tx
        BY <1>7, <3>1, <3>2, EnvelopeType
      <3>4. TypeOK'
        BY <1>8, EnvelopeStep DEF Next, EnvelopeInv
      <3>5. env' # None
        BY <3>2, <3>4 DEF TypeOK
      <3> QED  BY <1>t, <3>1, <3>2, <3>3, <3>5, SequenceKept DEF SameSequence
    <2> QED  BY <2>1, <2>2
  <1>9. ASSUME NEW key \in Accounts, NEW net \in Networks, TxSign(key, net)
        PROVE  SequenceInv'
    <2>1. CASE Fails
      BY <2>1, SequenceFails
    <2>2. CASE ~Fails
      <3>1. /\ env # None /\ env' = Signed(env, key, net) /\ Len(env.sigs) < MaxSigs
            /\ out' = "printed" /\ UNCHANGED <<seqOn, base>>
        BY <1>9, <2>2 DEF TxSign, Prints, ledger, history
      <3>2. env'.tx = env.tx
        BY <1>7, <1>e, <3>1
      <3>3. env' # None
        <4>1. \A j \in DOMAIN env.sigs : env.sigs[j].hash.tx = env.tx
          BY <3>1 DEF EnvelopeInv, SignaturesFit
        <4> QED  BY <1>e, <3>1, <4>1, SignedKeeps, EnvelopesAssumption
      <3> QED  BY <1>t, <3>1, <3>2, <3>3, SequenceKept DEF SameSequence
    <2> QED  BY <2>1, <2>2
  <1>10. CASE TxSignLab
    BY <1>10, SequenceFails DEF TxSignLab
  <1>11. ASSUME NEW c \in Args, NEW source \in Sources \cup {None}, OpAdd(c, source)
         PROVE  SequenceInv'
    <2>1. CASE Fails
      BY <2>1, SequenceFails
    <2>2. CASE ~Fails
      <3>1. /\ env # None /\ env' = AddOp(env, Op(Body(c), source))
            /\ out' = "printed" /\ UNCHANGED <<seqOn, base>>
        BY <1>11, <2>2 DEF OpAdd, Prints, ledger
      <3> DEFINE op == Op(Body(c), source)
                 t == [env.tx EXCEPT !.ops = Append(env.tx.ops, op)]
      <3>2. op \in Ops
        <4>1. << >> \in Seq(AuthEntries) /\ Body(c) \in Bodies
          BY DEF Bodies
        <4> QED  BY <4>1, SignersAssumption DEF Op, Ops
      <3> HIDE DEF op
      <3>3. t \in Txs /\ SameSequence(t, env.tx)
        <4>1. env.tx \in Txs /\ env.tx.ops \in Seq(Ops)
          BY <1>e, <3>1 DEF Txs
        <4>2. Append(env.tx.ops, op) \in Seq(Ops)
          BY <3>2, <4>1
        <4> QED  BY <4>1, <4>2 DEF Txs, SameSequence
      <3>4. env' = Envelope(t)
        BY <3>1 DEF AddOp, op
      <3> HIDE DEF t
      <3> QED  BY <1>4, <3>1, <3>3, <3>4
    <2> QED  BY <2>1, <2>2
  <1>12. ASSUME NEW s \in Sims, TxSimulate(s) PROVE SequenceInv'
    <2>1. CASE Fails
      BY <2>1, SequenceFails
    <2>2. CASE ~Fails
      <3>1. /\ env # None /\ Assembles(env.tx, s) /\ env' = Envelope(Assemble(env.tx, s))
            /\ out' = "printed" /\ UNCHANGED <<seqOn, base>>
        BY <1>12, <2>2 DEF TxSimulate, WithSimulation, ledger
      <3>2. Assemble(env.tx, s) \in Txs
        BY <1>e, <3>1, AssembleType
      <3>3. SameSequence(Assemble(env.tx, s), env.tx)
        BY <1>e, <3>1, AssembleSequence
      <3> QED  BY <1>4, <3>1, <3>2, <3>3
    <2> QED  BY <2>1, <2>2
  <1>13. CASE Send
    <2>1. env # None /\ env.tx.source \in Sources
      BY <1>t, <1>e, <1>13 DEF Send, TypeOK
    <2>2. UNCHANGED <<env, base>> /\ out' = Verdict(env)
      BY <1>13 DEF Send, history
    <2>3. /\ seqOn'[env.tx.source] >= seqOn[env.tx.source]
          /\ seqOn'[env.tx.source] \in Nat
      BY <1>t, <1>n, <1>13, <2>1 DEF Send, TypeOK
    <2>4. env.tx.seq = base + 1 /\ seqOn[env.tx.source] >= base /\ base \in Nat
      BY <2>1 DEF SequenceInv
    <2>5. seqOn[env.tx.source] \in Nat
      BY <1>n, <2>1
    <2>6. Verdict(env) = "txBAD_SEQ" => env.tx.seq # seqOn[env.tx.source] + 1
      BY DEF Verdict
    <2>7. Verdict(env) = "txBAD_SEQ" => seqOn'[env.tx.source] > base
      BY <2>3, <2>4, <2>5, <2>6
    <2>8. seqOn'[env.tx.source] >= base
      BY <2>3, <2>4, <2>5
    <2> QED  BY <2>1, <2>2, <2>4, <2>7, <2>8 DEF SequenceInv
  <1>14. CASE CloseLedger
    BY <1>14 DEF CloseLedger, SequenceInv, history
  <1>15. ASSUME NEW a \in Sources, UseAccount(a) PROVE SequenceInv'
    <2>1. UNCHANGED <<env, base, out>> /\ \A x \in Sources : seqOn'[x] \in Nat /\ seqOn'[x] >= seqOn[x]
      BY <1>t, <1>n, <1>15 DEF UseAccount, history, TypeOK
    <2> QED  BY <1>e, <1>n, <2>1 DEF SequenceInv
  <1>16. CASE UNCHANGED vars
    BY <1>16 DEF vars, SequenceInv
  <1> QED
    BY <1>2, <1>3, <1>5, <1>6, <1>8, <1>9, <1>10, <1>11, <1>12, <1>13, <1>14, <1>15, <1>16
    DEF Next

\* When the network finds the sequence number bad, the account was used after the
\* transaction was built, whatever commands the envelope went through in between: none of
\* them changes the number that tx::Args::handle_tx and invoke read (args.rs, invoke.rs).
THEOREM OnlyStaleIsRefused == Spec => []OnlyStaleSequence
  <1>1. Init => SequenceInv
    BY DEF Init, SequenceInv
  <1>2. SequenceInv /\ EnvelopeInv => OnlyStaleSequence
    BY BoundsAssumption DEF SequenceInv, EnvelopeInv, TypeOK, OnlyStaleSequence, Envelopes, Txs
  <1> QED
    BY <1>1, <1>2, EnvelopeCorrect, SequenceStep, PTL DEF Spec

=============================================================================
