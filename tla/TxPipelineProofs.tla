-------------------------- MODULE TxPipelineProofs --------------------------
(***************************************************************************)
(* Proofs that a command that reports success has its transactions on the  *)
(* ledger, that an alias names an existing contract, and that a run does   *)
(* not reuse its own sequence numbers, for every number of processes,      *)
(* accounts, codes, salts and command lines.                               *)
(***************************************************************************)
EXTENDS TxPipeline, TLAPS

\* What a process has of its own.
Own(p) == <<pc[p], cmd[p], phase[p], tx[p], cid[p], sent[p], outcome[p]>>

\* The ledger only grows.
LedgerGrows ==
    /\ applied \subseteq applied'
    /\ contracts \subseteq contracts'
    /\ \A w \in Wasms : code[w] # "none" => code'[w] # "none"

\* The only process that a step moves is p.
OnlyMoves(p) == \A q \in Procs \ {p} : Own(q)' = Own(q)

\* The fields of a command line.
LEMMA CommandFacts ==
    ASSUME NEW c \in Commands
    PROVE  /\ c.wasm \in Wasms /\ c.salt \in Salts
           /\ c.op \in {"upload", "deploy", "invoke", "extend", "restore"}
           /\ c.only \in {"no", "build", "sim"}
  BY CommandsAssumption DEF CommandLine

\* A process that does not move keeps its invariant while the ledger grows.
LEMMA Frame ==
    ASSUME TypeOK, NEW q \in Procs, ProcInv(q), Own(q)' = Own(q), LedgerGrows
    PROVE  ProcInv(q)'
  <1>1. /\ pc'[q] = pc[q] /\ cmd'[q] = cmd[q] /\ phase'[q] = phase[q] /\ tx'[q] = tx[q]
        /\ cid'[q] = cid[q] /\ sent'[q] = sent[q] /\ outcome'[q] = outcome[q]
    BY DEF Own
  <1>2. \A t : Done(t) => Done(t)'
    BY DEF Done, LedgerGrows
  <1>3. \A res : Result(q, res) => Result(q, res)'
    BY <1>1 DEF Result, LedgerGrows
  <1>4. cmd[q] \in Commands => cmd[q].wasm \in Wasms
    BY CommandFacts
  <1>5. ASSUME pc'[q] # "idle"
        PROVE  HandlerAt(q)' /\ TxAt(q)' /\ SentAt(q)' /\ SequenceAt(q)'
    <2>1. HandlerAt(q) /\ TxAt(q) /\ SentAt(q) /\ SequenceAt(q)
      BY <1>1, <1>5 DEF ProcInv
    <2>2. HandlerAt(q)' /\ TxAt(q)' /\ SequenceAt(q)'
      BY <1>1, <2>1 DEF HandlerAt, TxAt, SequenceAt
    <2>3. SentAt(q)'
      BY <1>1, <1>2, <1>3, <1>4, <2>1 DEF SentAt, HandlerAt, LedgerGrows
    <2> QED  BY <2>2, <2>3
  <1>6. ASSUME outcome'[q] = "ok" PROVE cmd'[q] \in Commands /\ OnLedger(q)'
    BY <1>1, <1>2, <1>3, <1>4, <1>6 DEF ProcInv, OnLedger, LedgerGrows
  <1> QED  BY <1>5, <1>6 DEF ProcInv

\* The transaction that a handler builds has the type of a transaction.
LEMMA NewTxType ==
    ASSUME TypeOK, NEW p \in Procs, cmd[p] \in Commands
    PROVE  NewTx(p) \in Tx
  <1>1. cmd[p].wasm \in Wasms /\ cmd[p].salt \in Salts
    BY CommandFacts
  <1>2. source \in Accounts /\ phase[p] \in Phases /\ seq[source] + 1 \in Nat
    BY DEF TypeOK
  <1> QED  BY <1>1, <1>2 DEF NewTx, Tx, ContractIds

\* The places where a step leaves its process.
LEMMA ControlTypes ==
    ASSUME TypeOK, NEW p \in Procs,
           \/ ReturnRes(p) \/ ReturnTxn(p)
           \/ \E r \in {"ok", "err", "killed", "panic"} : Return(p, r)
           \/ Enter(p, "restore")
           \/ \E from \in Steps, to \in Steps : Goto(p, from, to) /\ UNCHANGED <<phase, outcome>>
    PROVE  /\ pc' \in [Procs -> Steps \cup {"idle"}]
           /\ phase' \in [Procs -> Phases]
           /\ outcome' \in [Procs -> {"none", "ok", "txn", "err", "panic", "killed"}]
  BY DEF TypeOK, ReturnRes, ReturnTxn, Return, Enter, Goto, Steps, Phases

\* The type invariant is preserved by every step.
LEMMA TypeStep == PipelineInv /\ [Next]_vars => TypeOK'
  <1> SUFFICES ASSUME PipelineInv, [Next]_vars PROVE TypeOK'
    OBVIOUS
  <1> USE DEF chain, local
  <1>t. TypeOK
    BY DEF PipelineInv
  <1>1. ASSUME NEW p \in Procs, NEW c \in Commands, Start(p, c) PROVE TypeOK'
    <2>1. FirstPhase(c) \in Phases
      BY CommandFacts DEF FirstPhase, Phases
    <2>2. runs + 1 \in 0 .. MaxRuns
      BY <1>t, <1>1, MaxRunsAssumption DEF TypeOK, Start
    <2> QED  BY <1>t, <1>1, <2>1, <2>2 DEF TypeOK, Start, Steps
  <1>2. ASSUME NEW p \in Procs, Step(p) PROVE TypeOK'
    <2>i. pc[p] # "idle" => HandlerAt(p) /\ TxAt(p)
      BY DEF PipelineInv, ProcInv
    <2>1. ASSUME NEW b \in BOOLEAN, PreSimulate(p, b) PROVE TypeOK'
      BY <1>t, <2>1, ControlTypes DEF PreSimulate, TypeOK, Steps
    <2>2. ASSUME NEW b \in BOOLEAN, CheckInstalled(p, b) PROVE TypeOK'
      BY <1>t, <2>2, ControlTypes DEF CheckInstalled, TypeOK, Steps
    <2>3. ASSUME NEW b \in BOOLEAN, Submit(p, b) PROVE TypeOK'
      <3>1. tx[p] \in Tx
        BY <2>i, <2>3 DEF Submit, TxAt
      <3> QED  BY <1>t, <2>3, <3>1, ControlTypes DEF Submit, TypeOK, Steps
    <2>4. CASE Build(p)
      <3>1. cmd[p] \in Commands
        BY <2>i, <2>4 DEF Build, HandlerAt
      <3>2. NewTx(p) \in Tx
        BY <1>t, <3>1, NewTxType
      <3>3. NewTx(p).cid \in ContractIds \cup {None}
        BY <3>2 DEF Tx
      <3>4. AfterBuild(p) \in Steps
        BY DEF AfterBuild, Steps
      <3>5. "build" \in Steps
        BY DEF Steps
      <3> QED  BY <1>t, <2>4, <3>2, <3>3, <3>4, <3>5, ControlTypes DEF Build, TypeOK
    <2>5. CASE Simulate(p)
      BY <1>t, <2>5, ControlTypes DEF Simulate, TypeOK, Steps
    <2>6. CASE Authorize(p)
      BY <1>t, <2>6 DEF Authorize, Goto, TypeOK, Steps
    <2>7. CASE Sign(p)
      <3>1. tx[p] \in Tx
        BY <2>i, <2>7 DEF Sign, Goto, TxAt
      <3>2. [tx[p] EXCEPT !.signer = source] \in Tx
        BY <1>t, <3>1 DEF TypeOK, Tx
      <3> QED  BY <1>t, <2>7, <3>2 DEF Sign, Goto, TypeOK, Steps
    <2>8. CASE PollDone(p)
      BY <1>t, <2>8 DEF PollDone, Goto, TypeOK, Steps
    <2>9. CASE PollFails(p)
      BY <1>t, <2>9 DEF PollFails, Return, TypeOK
    <2>10. CASE Log(p)
      BY <1>t, <2>10, ControlTypes DEF Log, TypeOK, Steps
    <2>11. CASE Inspect(p)
      BY <1>t, <2>11, ControlTypes DEF Inspect, TypeOK
    <2>12. CASE InspectPanics(p) \/ Fail(p)
      BY <1>t, <2>12 DEF InspectPanics, Fail, Return, TypeOK
    <2>13. CASE SaveAlias(p)
      BY <1>t, <2>13 DEF SaveAlias, Return, TypeOK
    <2> QED
      BY <1>2, <2>1, <2>2, <2>3, <2>4, <2>5, <2>6, <2>7, <2>8, <2>9, <2>10, <2>11, <2>12,
         <2>13 DEF Step
  <1>3. ASSUME NEW p \in Procs, Kill(p) PROVE TypeOK'
    BY <1>t, <1>3 DEF Kill, Return, TypeOK
  <1>4. ASSUME NEW t \in pending, Apply(t) PROVE TypeOK'
    <2>1. t \in Tx /\ t.wasm \in Wasms /\ t.src \in Accounts /\ t.seq \in Nat
      BY <1>t DEF TypeOK, Tx
    <2>2. PICK res \in {"ok", "failed", "internal"} :
              Effect(t, res, code', contracts') /\ applied' = applied \cup {[tx |-> t, res |-> res]}
      BY <1>4 DEF Apply
    <2>3. t.kind = "create" => t.cid \in ContractIds
      BY <2>1 DEF Tx
    <2>4. code' \in [Wasms -> {"none", "v0", "v1", "archived"}]
      BY <1>t, <2>1, <2>2 DEF Effect, TypeOK
    <2> QED  BY <1>t, <1>4, <2>1, <2>2, <2>3, <2>4 DEF Apply, Effect, TypeOK
  <1>5. ASSUME NEW t \in pending, Drop(t) PROVE TypeOK'
    BY <1>t, <1>5 DEF Drop, TypeOK
  <1>6. ASSUME NEW w \in Wasms, Archive(w) PROVE TypeOK'
    BY <1>t, <1>6 DEF Archive, TypeOK
  <1>7. ASSUME NEW a \in Accounts, ReplaceKey(a) PROVE TypeOK'
    BY <1>t, <1>7 DEF ReplaceKey, TypeOK
  <1>8. CASE UNCHANGED vars
    BY <1>t, <1>8 DEF vars, TypeOK
  <1> QED  BY <1>1, <1>2, <1>3, <1>4, <1>5, <1>6, <1>7, <1>8 DEF Next

\* A command that returns without success has nothing to answer for.
LEMMA ReturnsNothing ==
    ASSUME TypeOK, NEW p \in Procs, NEW r, r # "ok", Return(p, r)
    PROVE  ProcInv(p)'
  BY DEF TypeOK, Return, ProcInv

\* A handler that returns a result hands over to the next one, or the command reports
\* success, and then everything that it sent is on the ledger.
LEMMA ReturnsRes ==
    ASSUME TypeOK, NEW p \in Procs, HandlerAt(p), TxAt(p),
           pc[p] \in {"check", "log", "inspect"},
           \A t \in sent[p] : Done(t),
           tx[p] \in sent[p] => Result(p, "ok"),
           cmd[p].op = "upload" => code[cmd[p].wasm] # "none",
           phase[p] = "create" => Result(p, "ok") /\ cid[p] \in contracts,
           ReturnRes(p), UNCHANGED <<cmd, tx, cid, sent, applied, code, contracts>>
    PROVE  ProcInv(p)'
  <1>d. \A t \in sent'[p] : Done(t)'
    BY DEF Done
  <1>t. tx[p] \in Tx /\ tx[p].kind = phase[p] /\ tx[p].wasm = cmd[p].wasm /\ tx[p].cid = cid[p]
    BY DEF TxAt
  <1>1. CASE phase[p] \in {"upload", "restore"} /\ cmd[p].op = "deploy"
    <2>1. pc'[p] = "build" /\ phase'[p] = "create" /\ outcome' = outcome
      BY <1>1 DEF ReturnRes, Enter, TypeOK
    <2> QED  BY <1>1, <1>d, <2>1 DEF ProcInv, HandlerAt, TxAt, SentAt, SequenceAt
  <1>2. CASE phase[p] = "restore" /\ cmd[p].op = "restore" /\ cmd[p].extend
    <2>1. pc'[p] = "build" /\ phase'[p] = "extend" /\ outcome' = outcome
      BY <1>2 DEF ReturnRes, Enter, TypeOK
    <2> QED  BY <1>2, <1>d, <2>1 DEF ProcInv, HandlerAt, TxAt, SentAt, SequenceAt
  <1>3. CASE phase[p] = "create" /\ cmd[p].alias
    <2>1. pc'[p] = "alias" /\ phase' = phase /\ outcome' = outcome
      BY <1>3 DEF ReturnRes, TypeOK
    <2>2. Result(p, "ok")'
      BY <1>3 DEF Result
    <2> QED
      BY <1>3, <1>d, <1>t, <2>1, <2>2 DEF ProcInv, HandlerAt, TxAt, SentAt, SequenceAt
  <1>4. CASE /\ ~(phase[p] \in {"upload", "restore"} /\ cmd[p].op = "deploy")
             /\ ~(phase[p] = "restore" /\ cmd[p].op = "restore" /\ cmd[p].extend)
             /\ ~(phase[p] = "create" /\ cmd[p].alias)
    <2>1. Return(p, "ok")
      BY <1>4 DEF ReturnRes
    <2>2. pc'[p] = "idle"
      BY <2>1 DEF Return, TypeOK
    <2>3. cmd[p].op = "deploy" => phase[p] = "create"
      BY <1>4 DEF HandlerAt, TypeOK, Phases
    <2>4. tx[p] \in sent[p] => Result(p, "ok")'
      BY DEF Result
    <2>5. OnLedger(p)'
      BY <1>d, <2>3, <2>4 DEF OnLedger
    <2> QED  BY <2>2, <2>5 DEF ProcInv, HandlerAt
  <1> QED  BY <1>1, <1>2, <1>3, <1>4

\* A step of a process keeps its own invariant.
LEMMA StepOwn ==
    ASSUME PipelineInv, NEW p \in Procs, Step(p)
    PROVE  ProcInv(p)'
  <1> USE DEF chain, local
  <1>t. TypeOK /\ LedgerInv /\ ProcInv(p)
    BY DEF PipelineInv
  <1>i. pc[p] # "idle" => HandlerAt(p) /\ TxAt(p) /\ SentAt(p) /\ SequenceAt(p)
    BY <1>t DEF ProcInv
  <1>1. ASSUME NEW b \in BOOLEAN, PreSimulate(p, b) PROVE ProcInv(p)'
    <2>1. /\ HandlerAt(p) /\ SentAt(p) /\ phase[p] = "invoke" /\ sent[p] = {}
          /\ cmd[p].op = "invoke"
      BY <1>i, <1>1 DEF PreSimulate, HandlerAt, SentAt
    <2>2. CASE ShouldSend(cmd[p], b)
      <3>1. pc'[p] = "build" /\ phase' = phase /\ outcome' = outcome
        BY <1>t, <1>1, <2>2 DEF PreSimulate, Goto, TypeOK
      <3> QED
        BY <1>1, <2>1, <3>1 DEF PreSimulate, ProcInv, HandlerAt, TxAt, SentAt, SequenceAt
    <2>3. CASE ~ShouldSend(cmd[p], b)
      <3>1. pc'[p] = "idle"
        BY <1>t, <1>1, <2>3 DEF PreSimulate, Return, TypeOK
      <3>2. OnLedger(p)' /\ cmd'[p] \in Commands
        BY <1>1, <2>1 DEF PreSimulate, OnLedger, HandlerAt
      <3> QED  BY <3>1, <3>2 DEF ProcInv
    <2> QED  BY <2>2, <2>3
  <1>2. ASSUME NEW b \in BOOLEAN, CheckInstalled(p, b) PROVE ProcInv(p)'
    <2>1. HandlerAt(p) /\ TxAt(p) /\ SentAt(p) /\ phase[p] = "upload" /\ sent[p] = {}
      BY <1>i, <1>2 DEF CheckInstalled, HandlerAt, SentAt
    <2>2. CASE b
      <3>1. code[cmd[p].wasm] # "none"
        BY <1>2, <2>2 DEF CheckInstalled
      <3> QED  BY <1>t, <1>2, <2>1, <2>2, <3>1, ReturnsRes DEF CheckInstalled
    <2>3. CASE ~b
      <3>1. pc'[p] = "simulate" /\ phase' = phase /\ outcome' = outcome
        BY <1>t, <1>2, <2>3 DEF CheckInstalled, Goto, TypeOK
      <3> QED
        BY <1>2, <2>1, <3>1 DEF CheckInstalled, ProcInv, HandlerAt, TxAt, SentAt, SequenceAt
    <2> QED  BY <2>2, <2>3
  <1>3. ASSUME NEW b \in BOOLEAN, Submit(p, b) PROVE ProcInv(p)'
    <2>1. HandlerAt(p) /\ TxAt(p) /\ SentAt(p)
      BY <1>i, <1>3 DEF Submit
    <2>2. CASE b
      <3>1. pc'[p] = "poll" /\ phase' = phase /\ outcome' = outcome
        BY <1>t, <1>3, <2>2 DEF Submit, Goto, TypeOK
      <3>2. sent'[p] = sent[p] \cup {tx[p]}
        BY <1>t, <1>3 DEF Submit, TypeOK
      <3>3. \A t \in sent[p] : Done(t)'
        BY <1>3, <2>1 DEF Submit, SentAt, Done
      <3> QED
        BY <1>3, <2>1, <3>1, <3>2, <3>3
        DEF Submit, ProcInv, HandlerAt, TxAt, SentAt, SequenceAt
    <2>3. CASE ~b
      BY <1>t, <1>3, <2>3, ReturnsNothing DEF Submit
    <2> QED  BY <2>2, <2>3
  <1>4. CASE Build(p)
    <2>1. HandlerAt(p) /\ SentAt(p)
      BY <1>i, <1>4 DEF Build
    <2>2. CASE cmd[p].only = "build"
      BY <1>t, <1>4, <2>2, ReturnsNothing DEF Build, ReturnTxn
    <2>3. CASE cmd[p].only # "build"
      <3>1. pc'[p] = AfterBuild(p) /\ phase' = phase /\ outcome' = outcome
        BY <1>t, <1>4, <2>3 DEF Build, Goto, TypeOK
      <3>2. tx'[p] = NewTx(p) /\ cid'[p] = NewTx(p).cid
        BY <1>t, <1>4 DEF Build, TypeOK
      <3>3. NewTx(p) \in Tx /\ NewTx(p).kind = phase[p] /\ NewTx(p).wasm = cmd[p].wasm
        BY <1>t, <2>1, NewTxType DEF HandlerAt, NewTx
      <3>4. \A t \in sent[p] : t.src = NewTx(p).src => t.seq < NewTx(p).seq
        <4>1. SUFFICES ASSUME NEW t \in sent[p], t.src = NewTx(p).src
                       PROVE  t.seq < NewTx(p).seq
          OBVIOUS
        <4>2. PICK res \in {"ok", "internal"} : [tx |-> t, res |-> res] \in applied
          BY <1>4, <2>1 DEF Build, SentAt, Done
        <4>3. t.seq <= seq[t.src]
          BY <1>t, <4>2 DEF LedgerInv
        <4>4. t.src = source /\ NewTx(p).seq = seq[source] + 1
          BY <4>1 DEF NewTx
        <4>5. t.seq \in Nat /\ seq[source] \in Nat
          BY <1>t DEF TypeOK, Tx
        <4> QED  BY <4>3, <4>4, <4>5
      <3>5. /\ AfterBuild(p) \in {"check", "sign", "simulate"}
            /\ AfterBuild(p) = "check" => phase[p] = "upload"
        BY DEF AfterBuild
      <3>6. \A t : Done(t) <=> Done(t)'
        BY <1>4 DEF Build, Done
      <3>7. HandlerAt(p)' /\ TxAt(p)' /\ SequenceAt(p)'
        BY <1>4, <2>1, <3>1, <3>2, <3>3, <3>4, <3>5 DEF Build, HandlerAt, TxAt, SequenceAt
      <3>8. SentAt(p)'
        BY <1>4, <2>1, <3>1, <3>5, <3>6 DEF Build, SentAt
      <3> QED  BY <3>7, <3>8 DEF ProcInv, HandlerAt
    <2> QED  BY <2>2, <2>3
  <1>5. CASE Simulate(p)
    <2>1. HandlerAt(p) /\ TxAt(p) /\ SentAt(p) /\ SequenceAt(p)
      BY <1>i, <1>5 DEF Simulate
    <2>2. CASE cmd[p].only = "sim" /\ phase[p] # "extend"
      BY <1>t, <1>5, <2>2, ReturnsNothing DEF Simulate, ReturnTxn
    <2>3. CASE ~(cmd[p].only = "sim" /\ phase[p] # "extend")
      <3>1. pc'[p] \in {"authorize", "sign"} /\ phase' = phase /\ outcome' = outcome
        BY <1>t, <1>5, <2>3 DEF Simulate, Goto, TypeOK
      <3> QED
        BY <1>5, <2>1, <3>1
        DEF Simulate, ProcInv, HandlerAt, TxAt, SentAt, SequenceAt, Done
    <2> QED  BY <2>2, <2>3
  <1>6. CASE Authorize(p)
    <2>1. pc[p] = "authorize" /\ pc'[p] = "sign"
      BY <1>t, <1>6 DEF Authorize, Goto, TypeOK
    <2> QED
      BY <1>6, <1>i, <2>1 DEF Authorize, ProcInv, HandlerAt, TxAt, SentAt, SequenceAt, Done
  <1>7. CASE Sign(p)
    <2>1. pc[p] = "sign" /\ pc'[p] = "submit"
      BY <1>t, <1>7 DEF Sign, Goto, TypeOK
    <2>2. tx[p] \in Tx
      BY <1>i, <2>1 DEF TxAt
    <2>3. tx'[p] = [tx[p] EXCEPT !.signer = source]
      BY <1>t, <1>7 DEF Sign, TypeOK
    <2>4. /\ tx'[p] \in Tx /\ tx'[p].kind = tx[p].kind /\ tx'[p].wasm = tx[p].wasm
          /\ tx'[p].cid = tx[p].cid /\ tx'[p].src = tx[p].src /\ tx'[p].seq = tx[p].seq
      BY <1>t, <2>2, <2>3 DEF TypeOK, Tx
    <2>5. TxAt(p)' /\ HandlerAt(p)' /\ SequenceAt(p)'
      BY <1>7, <1>i, <2>1, <2>4 DEF Sign, HandlerAt, TxAt, SequenceAt
    <2>6. SentAt(p)'
      BY <1>7, <1>i, <2>1 DEF Sign, SentAt, Done
    <2> QED  BY <2>1, <2>5, <2>6 DEF ProcInv, HandlerAt
  <1>8. CASE PollDone(p)
    <2>1. pc[p] = "poll" /\ pc'[p] = "log"
      BY <1>t, <1>8 DEF PollDone, Goto, TypeOK
    <2>2. Done(tx[p])
      BY <1>8 DEF PollDone, Result, Done
    <2> QED
      BY <1>8, <1>i, <2>1, <2>2
      DEF PollDone, ProcInv, HandlerAt, TxAt, SentAt, SequenceAt, Done
  <1>9. CASE PollFails(p)
    BY <1>t, <1>9, ReturnsNothing DEF PollFails
  <1>10. CASE Log(p)
    <2>1. HandlerAt(p) /\ TxAt(p) /\ SentAt(p) /\ Done(tx[p])
      BY <1>i, <1>10 DEF Log, SentAt
    <2>2. \A t \in sent[p] : Done(t)
      BY <1>10, <2>1 DEF Log, SentAt
    <2>3. tx[p].kind = phase[p] /\ tx[p].wasm = cmd[p].wasm /\ tx[p].cid = cid[p]
      BY <1>10, <2>1 DEF Log, TxAt
    <2>4. phase[p] = "upload" => code[cmd[p].wasm] # "none"
      BY <1>t, <2>1, <2>3 DEF LedgerInv, Done
    <2>5. phase[p] # "upload" \/ ~Result(p, "internal") => Result(p, "ok")
      BY <1>t, <2>1, <2>3 DEF LedgerInv, Done, Result
    <2>6. CASE phase[p] \in {"extend", "restore"}
      <3>1. pc'[p] = "inspect" /\ phase' = phase /\ outcome' = outcome
        BY <1>t, <1>10, <2>6 DEF Log, Goto, TypeOK
      <3>2. Result(p, "ok")'
        BY <1>10, <2>5, <2>6 DEF Log, Result
      <3> QED
        BY <1>10, <2>1, <2>2, <2>6, <3>1, <3>2
        DEF Log, ProcInv, HandlerAt, TxAt, SentAt, SequenceAt, Done
    <2>7. CASE phase[p] = "upload" /\ Result(p, "internal")
      <3>1. pc'[p] = "build" /\ phase'[p] = "restore" /\ outcome' = outcome
        BY <1>t, <1>10, <2>7 DEF Log, Enter, TypeOK
      <3> QED
        BY <1>10, <2>1, <2>2, <2>4, <2>7, <3>1
        DEF Log, ProcInv, HandlerAt, TxAt, SentAt, SequenceAt, Done
    <2>8. CASE ~(phase[p] \in {"extend", "restore"}) /\ ~(phase[p] = "upload" /\ Result(p, "internal"))
      <3>1. ReturnRes(p) /\ UNCHANGED <<cmd, tx, cid, sent, applied, code, contracts>>
        BY <1>10, <2>8 DEF Log
      <3>2. Result(p, "ok")
        BY <2>5, <2>8
      <3>3. phase[p] = "create" => cid[p] \in contracts
        BY <1>t, <2>3, <3>2 DEF LedgerInv, Result
      <3>4. cmd[p].op = "upload" => phase[p] = "upload"
        BY <1>t, <2>1, <2>8 DEF HandlerAt, TypeOK, Phases
      <3> QED  BY <1>t, <1>10, <2>1, <2>2, <2>4, <3>1, <3>2, <3>3, <3>4, ReturnsRes DEF Log
    <2> QED  BY <2>6, <2>7, <2>8
  <1>11. CASE Inspect(p)
    <2>1. HandlerAt(p) /\ TxAt(p) /\ SentAt(p) /\ Result(p, "ok") /\ phase[p] \in {"extend", "restore"}
      BY <1>i, <1>11 DEF Inspect, SentAt, HandlerAt
    <2>2. \A t \in sent[p] : Done(t)
      BY <1>11, <2>1 DEF Inspect, SentAt
    <2>3. cmd[p].op = "upload" => code[cmd[p].wasm] # "none"
      BY <2>1 DEF HandlerAt, SentAt
    <2> QED  BY <1>t, <1>11, <2>1, <2>2, <2>3, ReturnsRes DEF Inspect
  <1>12. CASE InspectPanics(p) \/ Fail(p)
    BY <1>t, <1>12, ReturnsNothing DEF InspectPanics, Fail
  <1>13. CASE SaveAlias(p)
    <2>1. HandlerAt(p) /\ TxAt(p) /\ SentAt(p) /\ Result(p, "ok") /\ phase[p] = "create"
      BY <1>i, <1>13 DEF SaveAlias, SentAt, HandlerAt
    <2>2. \A t \in sent[p] : Done(t)
      BY <1>13, <2>1 DEF SaveAlias, SentAt
    <2>3. cid[p] \in contracts
      BY <1>t, <1>13, <2>1 DEF SaveAlias, TxAt, LedgerInv, Result
    <2>4. cmd[p].op = "deploy"
      BY <2>1 DEF HandlerAt
    <2>5. OnLedger(p)' /\ cmd'[p] \in Commands
      BY <1>13, <2>1, <2>2, <2>3, <2>4 DEF SaveAlias, OnLedger, HandlerAt, Done, Result
    <2>6. pc'[p] = "idle"
      BY <1>t, <1>13 DEF SaveAlias, Return, TypeOK
    <2> QED  BY <2>5, <2>6 DEF ProcInv
  <1> QED
    BY <1>1, <1>2, <1>3, <1>4, <1>5, <1>6, <1>7, <1>8, <1>9, <1>10, <1>11, <1>12, <1>13 DEF Step

\* A step of a process moves only that process, and of the ledger only the queue.
LEMMA StepOthers ==
    ASSUME TypeOK, NEW p \in Procs, Step(p) \/ Kill(p) \/ \E c \in Commands : Start(p, c)
    PROVE  OnlyMoves(p) /\ UNCHANGED <<seq, code, contracts, applied>>
  <1> USE DEF chain, local, OnlyMoves, Own, TypeOK
  <1>r. ASSUME \/ ReturnRes(p) \/ ReturnTxn(p) \/ Enter(p, "restore") \/ \E r : Return(p, r)
               \/ \E from, to : Goto(p, from, to) /\ UNCHANGED <<phase, outcome>>
        PROVE  \A q \in Procs \ {p} :
                   pc'[q] = pc[q] /\ phase'[q] = phase[q] /\ outcome'[q] = outcome[q]
    BY <1>r DEF ReturnRes, ReturnTxn, Enter, Return, Goto
  <1>1. CASE \E b \in BOOLEAN : PreSimulate(p, b) \/ CheckInstalled(p, b) \/ Submit(p, b)
    BY <1>r, <1>1 DEF PreSimulate, CheckInstalled, Submit
  <1>2. CASE Build(p) \/ Simulate(p) \/ Log(p) \/ Inspect(p)
    BY <1>r, <1>2 DEF Build, Simulate, Log, Inspect
  <1>3. CASE Authorize(p) \/ Sign(p) \/ PollDone(p)
    BY <1>3 DEF Authorize, Sign, PollDone, Goto
  <1>4. CASE PollFails(p) \/ InspectPanics(p) \/ SaveAlias(p) \/ Fail(p) \/ Kill(p)
    BY <1>r, <1>4 DEF PollFails, InspectPanics, SaveAlias, Fail, Kill
  <1>5. CASE \E c \in Commands : Start(p, c)
    BY <1>5 DEF Start
  <1> QED  BY <1>1, <1>2, <1>3, <1>4, <1>5 DEF Step

\* A command that starts has sent nothing.
LEMMA StartOwn ==
    ASSUME TypeOK, NEW p \in Procs, NEW c \in Commands, Start(p, c)
    PROVE  ProcInv(p)'
  <1>1. /\ pc'[p] \in {"presim", "build"} /\ cmd'[p] = c /\ phase'[p] = FirstPhase(c)
        /\ sent'[p] = {} /\ outcome'[p] = "none" /\ (pc'[p] = "presim" => c.op = "invoke")
    BY DEF Start, TypeOK
  <1>2. c.op \in {"upload", "deploy", "invoke", "extend", "restore"}
    BY CommandFacts
  <1>3. HandlerAt(p)'
    BY <1>1, <1>2 DEF HandlerAt, FirstPhase
  <1>4. TxAt(p)' /\ SequenceAt(p)'
    BY <1>1 DEF TxAt, SequenceAt
  <1>5. SentAt(p)'
    BY <1>1, <1>2 DEF SentAt, FirstPhase
  <1> QED  BY <1>1, <1>3, <1>4, <1>5 DEF ProcInv

\* What the network does to a transaction keeps what its results say of the ledger,
\* and the ledger grows.
LEMMA ApplyLedger ==
    ASSUME TypeOK, LedgerInv, NEW t \in pending, Apply(t)
    PROVE  LedgerInv' /\ LedgerGrows
  <1>1. /\ t \in Tx /\ t.wasm \in Wasms /\ t.src \in Accounts /\ t.seq \in Nat
        /\ \A r \in applied : /\ r.tx \in Tx /\ r.tx.wasm \in Wasms
                              /\ r.tx.src \in Accounts /\ r.tx.seq \in Nat
    BY DEF TypeOK, Tx
  <1>2. PICK res \in {"ok", "failed", "internal"} :
            Effect(t, res, code', contracts') /\ applied' = applied \cup {[tx |-> t, res |-> res]}
    BY DEF Apply
  <1>3. LedgerGrows
    BY <1>1, <1>2 DEF LedgerGrows, Effect, TypeOK
  <1>4. \A a \in Accounts : seq[a] \in Nat /\ seq'[a] \in Nat /\ seq[a] <= seq'[a]
    BY <1>1 DEF Apply, TypeOK
  <1>5. ASSUME NEW r \in applied
        PROVE  /\ r.tx.seq <= seq'[r.tx.src]
               /\ r.res = "internal" => r.tx.kind = "upload"
               /\ r.tx.kind = "upload" => code'[r.tx.wasm] # "none"
               /\ r.tx.kind = "create" /\ r.res = "ok" => r.tx.cid \in contracts'
    <2>1. r.tx.seq <= seq[r.tx.src] /\ seq[r.tx.src] <= seq'[r.tx.src]
      BY <1>1, <1>4 DEF LedgerInv
    <2>2. r.tx.seq <= seq'[r.tx.src]
      BY <1>1, <1>4, <2>1
    <2> QED  BY <1>1, <1>3, <2>2 DEF LedgerInv, LedgerGrows
  <1>6. /\ t.seq <= seq'[t.src]
        /\ res = "internal" => t.kind = "upload"
        /\ t.kind = "upload" => code'[t.wasm] # "none"
        /\ t.kind = "create" /\ res = "ok" => t.cid \in contracts'
    BY <1>1, <1>2 DEF Apply, Effect, TypeOK
  <1>7. LedgerInv'
    BY <1>2, <1>5, <1>6 DEF LedgerInv
  <1> QED  BY <1>3, <1>7

\* The inductive invariant holds initially.
LEMMA PipelineInit == Init => PipelineInv
  <1> SUFFICES ASSUME Init PROVE PipelineInv
    OBVIOUS
  <1>1. TypeOK
    BY MaxRunsAssumption DEF Init, TypeOK, Phases
  <1>2. LedgerInv /\ AliasNamesCreated /\ \A p \in Procs : ProcInv(p)
    BY DEF Init, LedgerInv, AliasNamesCreated, ProcInv
  <1> QED  BY <1>1, <1>2 DEF PipelineInv

\* Every step keeps the inductive invariant.
LEMMA PipelineStep == PipelineInv /\ [Next]_vars => PipelineInv'
  <1> SUFFICES ASSUME PipelineInv, [Next]_vars PROVE PipelineInv'
    OBVIOUS
  <1>t. TypeOK /\ LedgerInv /\ AliasNamesCreated /\ \A p \in Procs : ProcInv(p)
    BY DEF PipelineInv
  <1>u. TypeOK'
    BY TypeStep
  <1>f. ASSUME LedgerGrows, \A q \in Procs : Own(q)' = Own(q)
        PROVE  \A q \in Procs : ProcInv(q)'
    BY <1>t, <1>f, Frame
  <1>1. ASSUME NEW p \in Procs, Step(p) \/ Kill(p) \/ \E c \in Commands : Start(p, c)
        PROVE  PipelineInv'
    <2>1. OnlyMoves(p) /\ UNCHANGED <<seq, code, contracts, applied>>
      BY <1>t, <1>1, StepOthers
    <2>2. LedgerGrows /\ LedgerInv'
      BY <1>t, <2>1 DEF LedgerGrows, LedgerInv
    <2>3. \A q \in Procs \ {p} : ProcInv(q)'
      BY <1>t, <2>1, <2>2, Frame DEF OnlyMoves
    <2>4. ProcInv(p)'
      <3>1. CASE Step(p)
        BY <3>1, StepOwn
      <3>2. CASE Kill(p)
        BY <1>t, <3>2, ReturnsNothing DEF Kill
      <3>3. CASE \E c \in Commands : Start(p, c)
        BY <1>t, <3>3, StartOwn
      <3> QED  BY <1>1, <3>1, <3>2, <3>3
    <2>5. AliasNamesCreated'
      <3>1. CASE SaveAlias(p)
        <4>1. pc[p] = "alias" /\ saved' = cid[p]
          BY <3>1 DEF SaveAlias
        <4>2. HandlerAt(p) /\ TxAt(p) /\ SentAt(p)
          BY <1>t, <4>1 DEF ProcInv
        <4>3. tx[p].kind = "create" /\ tx[p].cid = cid[p] /\ Result(p, "ok")
          BY <4>1, <4>2 DEF HandlerAt, TxAt, SentAt
        <4>4. cid[p] \in contracts
          BY <1>t, <4>3 DEF LedgerInv, Result
        <4> QED  BY <2>1, <4>1, <4>4 DEF AliasNamesCreated
      <3>2. CASE ~SaveAlias(p)
        <4>1. saved' = saved
          BY <1>1, <3>2 DEF Step, Kill, Start, PreSimulate, CheckInstalled, Submit, Build,
             Simulate, Authorize, Sign, PollDone, PollFails, Log, Inspect, InspectPanics, Fail
        <4> QED  BY <1>t, <2>1, <4>1 DEF AliasNamesCreated
      <3> QED  BY <3>1, <3>2
    <2> QED  BY <1>u, <2>2, <2>3, <2>4, <2>5 DEF PipelineInv
  <1>2. ASSUME NEW t \in pending, Apply(t) PROVE PipelineInv'
    <2>1. LedgerInv' /\ LedgerGrows
      BY <1>t, <1>2, ApplyLedger
    <2>2. saved' = saved /\ \A q \in Procs : Own(q)' = Own(q)
      BY <1>2 DEF Apply, local, Own
    <2>3. AliasNamesCreated'
      BY <1>t, <2>1, <2>2 DEF AliasNamesCreated, LedgerGrows
    <2> QED  BY <1>u, <1>f, <2>1, <2>2, <2>3 DEF PipelineInv
  <1>3. ASSUME \/ \E t \in pending : Drop(t)
               \/ \E w \in Wasms : Archive(w)
               \/ \E a \in Accounts : ReplaceKey(a)
               \/ UNCHANGED vars
        PROVE  PipelineInv'
    <2>1. /\ UNCHANGED <<seq, contracts, applied, saved>>
          /\ \A q \in Procs : Own(q)' = Own(q)
      BY <1>3 DEF Drop, Archive, ReplaceKey, vars, chain, local, Own
    <2>2. \A w \in Wasms : code[w] # "none" => code'[w] # "none"
      BY <1>3, <1>t DEF Drop, Archive, ReplaceKey, vars, chain, TypeOK
    <2>3. LedgerGrows
      BY <2>1, <2>2 DEF LedgerGrows
    <2>4. \A r \in applied : r.tx.wasm \in Wasms
      BY <1>t DEF TypeOK, Tx
    <2>5. LedgerInv' /\ AliasNamesCreated'
      BY <1>t, <2>1, <2>2, <2>4 DEF LedgerInv, AliasNamesCreated
    <2> QED  BY <1>u, <1>f, <2>1, <2>3, <2>5 DEF PipelineInv
  <1> QED  BY <1>1, <1>2, <1>3 DEF Next

\* The inductive invariant holds in every reachable state.
THEOREM PipelineCorrect == Spec => []PipelineInv
  BY PipelineInit, PipelineStep, PTL DEF Spec

\* PipelineTypes: every variable keeps its type; a transaction that creates a contract
\* always carries the id of that contract.
THEOREM PipelineTypes == Spec => []TypeOK
  <1>1. PipelineInv => TypeOK
    BY DEF PipelineInv
  <1> QED  BY <1>1, PipelineCorrect, PTL

\* SuccessOnLedger: whatever other processes, other users of the identity and the
\* network do, a command that reports success has everything it sent on the ledger,
\* its last transaction with success, the code that it uploaded installed and the
\* contract whose id it prints created.
THEOREM SuccessOnLedger == Spec => []SuccessIsOnLedger
  <1>1. PipelineInv => SuccessIsOnLedger
    BY DEF PipelineInv, ProcInv, SuccessIsOnLedger
  <1> QED  BY <1>1, PipelineCorrect, PTL

\* AliasCreated: the id that deploy saves under an alias is that of an existing
\* contract, also when polls time out and processes die.
THEOREM AliasCreated == Spec => []AliasNamesCreated
  <1>1. PipelineInv => AliasNamesCreated
    BY DEF PipelineInv
  <1> QED  BY <1>1, PipelineCorrect, PTL

\* SequencesDiffer: a run that uploads, restores and creates never gives one of its
\* transactions a sequence number that an earlier one of them has used.
THEOREM SequencesDiffer == Spec => []OwnSequences
  <1>1. PipelineInv => OwnSequences
    BY DEF PipelineInv, ProcInv, SequenceAt, OwnSequences
  <1> QED  BY <1>1, PipelineCorrect, PTL
---------------------------------------------------------------------------
(* The flags --build-only and --sim-only.                                  *)

\* What a process has to answer for under the flags.
FlagsOf(p) ==
    /\ FlagsAt(p)
    /\ cmd[p] # None /\ cmd[p].op = "deploy" => outcome[p] # "panic"

\* A command that returns keeps what it has sent; a deploy does not return a panic.
LEMMA FlagsReturn ==
    ASSUME TypeOK, NEW p \in Procs, NEW r, Return(p, r), FlagsAt(p),
           cmd[p].op = "deploy" => r # "panic", UNCHANGED <<cmd, sent>>
    PROVE  FlagsOf(p)'
  <1>1. pc'[p] = "idle" /\ outcome'[p] = r
    BY DEF Return, TypeOK
  <1> QED  BY <1>1 DEF FlagsOf, FlagsAt, Sends

\* A handler that returns TxnResult::Txn under a flag is not the upload of a deploy.
LEMMA FlagsReturnTxn ==
    ASSUME TypeOK, NEW p \in Procs, pc[p] # "idle", FlagsAt(p), cmd[p].only # "no",
           ReturnTxn(p), UNCHANGED <<cmd, sent>>
    PROVE  FlagsOf(p)'
  <1>1. ~(cmd[p].op = "deploy" /\ phase[p] = "upload")
    BY DEF FlagsAt
  <1>2. Return(p, "txn")
    BY <1>1 DEF ReturnTxn
  <1> QED  BY <1>2, FlagsReturn

\* A handler that returns a result hands over to one that the flags allow.
LEMMA FlagsReturnRes ==
    ASSUME TypeOK, NEW p \in Procs, HandlerAt(p), FlagsAt(p),
           pc[p] \in {"check", "log", "inspect"}, pc[p] = "check" => phase[p] = "upload",
           ReturnRes(p), UNCHANGED <<cmd, sent>>
    PROVE  FlagsOf(p)'
  <1>1. CASE phase[p] \in {"upload", "restore"} /\ cmd[p].op = "deploy"
    <2>1. pc'[p] = "build" /\ phase'[p] = "create" /\ outcome' = outcome
      BY <1>1 DEF ReturnRes, Enter, TypeOK
    <2> QED  BY <1>1, <2>1 DEF FlagsOf, FlagsAt, Sends, HandlerAt
  <1>2. CASE phase[p] = "restore" /\ cmd[p].op = "restore" /\ cmd[p].extend
    <2>1. pc'[p] = "build" /\ phase'[p] = "extend" /\ outcome' = outcome
      BY <1>2 DEF ReturnRes, Enter, TypeOK
    <2> QED  BY <1>2, <2>1 DEF FlagsOf, FlagsAt, Sends, HandlerAt
  <1>3. CASE phase[p] = "create" /\ cmd[p].alias
    <2>1. pc'[p] = "alias" /\ phase' = phase /\ outcome' = outcome
      BY <1>3 DEF ReturnRes, TypeOK
    <2> QED  BY <1>3, <2>1 DEF FlagsOf, FlagsAt, Sends, HandlerAt
  <1>4. CASE /\ ~(phase[p] \in {"upload", "restore"} /\ cmd[p].op = "deploy")
             /\ ~(phase[p] = "restore" /\ cmd[p].op = "restore" /\ cmd[p].extend)
             /\ ~(phase[p] = "create" /\ cmd[p].alias)
    <2>1. Return(p, "ok")
      BY <1>4 DEF ReturnRes
    <2> QED  BY <2>1, FlagsReturn
  <1> QED  BY <1>1, <1>2, <1>3, <1>4

\* A step to a place behind the tests keeps the invariant when the command line sends.
LEMMA FlagsGoto ==
    ASSUME TypeOK, NEW p \in Procs, HandlerAt(p), FlagsAt(p), NEW from, NEW to,
           from # "idle", Goto(p, from, to), UNCHANGED <<phase, outcome, cmd>>,
           \/ to = "build"
           \/ to \in {"check", "simulate"} /\ cmd[p].only # "build"
           \/ Sends(cmd[p]) /\ to # "idle",
           sent' = sent \/ Sends(cmd[p])
    PROVE  FlagsOf(p)'
  <1>1. pc[p] = from /\ pc'[p] = to
    BY DEF Goto, TypeOK
  <1>2. FlagsAt(p)'
    BY <1>1 DEF FlagsAt, Sends
  <1> QED  BY <1>2 DEF FlagsOf, HandlerAt

\* A step of a process keeps its own flags.
LEMMA FlagsOwn ==
    ASSUME PipelineInv, NEW p \in Procs, FlagsAt(p), Step(p)
    PROVE  FlagsOf(p)'
  <1> USE DEF chain, local
  <1>t. TypeOK
    BY DEF PipelineInv
  <1>i. pc[p] # "idle" => HandlerAt(p)
    BY DEF PipelineInv, ProcInv
  <1>c. HandlerAt(p) => cmd[p].only \in {"no", "build", "sim"}
    BY CommandFacts DEF HandlerAt
  <1>1. ASSUME NEW b \in BOOLEAN, PreSimulate(p, b) PROVE FlagsOf(p)'
    BY <1>t, <1>i, <1>1, FlagsGoto, FlagsReturn DEF PreSimulate
  <1>2. ASSUME NEW b \in BOOLEAN, CheckInstalled(p, b) PROVE FlagsOf(p)'
    <2>1. HandlerAt(p) /\ phase[p] = "upload" /\ cmd[p].only # "build"
      BY <1>i, <1>2 DEF CheckInstalled, HandlerAt, FlagsAt
    <2> QED  BY <1>t, <1>2, <2>1, FlagsGoto, FlagsReturnRes DEF CheckInstalled
  <1>3. ASSUME NEW b \in BOOLEAN, Submit(p, b) PROVE FlagsOf(p)'
    <2>1. HandlerAt(p) /\ Sends(cmd[p])
      BY <1>i, <1>3 DEF Submit, FlagsAt
    <2>2. CASE b
      BY <1>t, <1>3, <2>1, <2>2, FlagsGoto DEF Submit
    <2>3. CASE ~b
      <3>1. pc'[p] = "idle" /\ outcome'[p] = "err" /\ cmd' = cmd
        BY <1>t, <1>3, <2>3 DEF Submit, Return, TypeOK
      <3> QED  BY <2>1, <3>1 DEF FlagsOf, FlagsAt, Sends
    <2> QED  BY <2>2, <2>3
  <1>4. CASE Build(p)
    <2>1. HandlerAt(p)
      BY <1>i, <1>4 DEF Build
    <2>2. CASE cmd[p].only = "build"
      BY <1>t, <1>4, <2>2, FlagsReturnTxn DEF Build
    <2>3. CASE cmd[p].only # "build"
      <3>1. phase[p] = "restore" => Sends(cmd[p])
        BY <1>c, <1>4, <2>1, <2>3 DEF Build, FlagsAt, Sends
      <3>2. \/ AfterBuild(p) \in {"check", "simulate"}
            \/ AfterBuild(p) = "sign" /\ phase[p] = "restore"
        BY DEF AfterBuild
      <3> QED  BY <1>t, <1>4, <2>1, <2>3, <3>1, <3>2, FlagsGoto DEF Build
    <2> QED  BY <2>2, <2>3
  <1>5. CASE Simulate(p)
    <2>1. HandlerAt(p) /\ cmd[p].only # "build"
      BY <1>i, <1>5 DEF Simulate, FlagsAt
    <2>2. CASE cmd[p].only = "sim" /\ phase[p] # "extend"
      BY <1>t, <1>5, <2>2, FlagsReturnTxn DEF Simulate
    <2>3. CASE ~(cmd[p].only = "sim" /\ phase[p] # "extend")
      <3>1. Sends(cmd[p])
        BY <1>c, <2>1, <2>3 DEF HandlerAt, Sends
      <3> QED  BY <1>t, <1>5, <2>1, <2>3, <3>1, FlagsGoto DEF Simulate
    <2> QED  BY <2>2, <2>3
  <1>6. CASE Authorize(p) \/ Sign(p) \/ PollDone(p)
    <2>1. HandlerAt(p) /\ Sends(cmd[p])
      BY <1>i, <1>6 DEF Authorize, Sign, PollDone, Goto, FlagsAt
    <2> QED  BY <1>t, <1>6, <2>1, FlagsGoto DEF Authorize, Sign, PollDone
  <1>7. CASE Log(p)
    <2>1. HandlerAt(p) /\ Sends(cmd[p])
      BY <1>i, <1>7 DEF Log, FlagsAt
    <2>2. CASE phase[p] \in {"extend", "restore"}
      BY <1>t, <1>7, <2>1, <2>2, FlagsGoto DEF Log
    <2>3. CASE phase[p] = "upload" /\ Result(p, "internal")
      <3>1. pc'[p] = "build" /\ phase'[p] = "restore" /\ outcome' = outcome
        BY <1>t, <1>7, <2>3 DEF Log, Enter, TypeOK
      <3>2. cmd[p].op \in {"upload", "deploy"} /\ cmd[p].only = "no" /\ outcome[p] = "none"
        BY <2>1, <2>3 DEF HandlerAt, Sends
      <3> QED  BY <1>7, <3>1, <3>2 DEF Log, FlagsOf, FlagsAt, Sends
    <2>4. CASE /\ ~(phase[p] \in {"extend", "restore"})
               /\ ~(phase[p] = "upload" /\ Result(p, "internal"))
      <3>1. ReturnRes(p) /\ pc[p] = "log" /\ UNCHANGED <<cmd, sent>>
        BY <1>7, <2>4 DEF Log
      <3> QED  BY <1>t, <2>1, <3>1, FlagsReturnRes
    <2> QED  BY <2>2, <2>3, <2>4
  <1>8. CASE Inspect(p)
    BY <1>t, <1>i, <1>8, FlagsReturnRes DEF Inspect
  <1>9. CASE InspectPanics(p)
    <2>1. cmd[p].op # "deploy"
      BY <1>i, <1>9 DEF InspectPanics, HandlerAt
    <2> QED  BY <1>t, <1>9, <2>1, FlagsReturn DEF InspectPanics
  <1>10. CASE PollFails(p) \/ SaveAlias(p) \/ Fail(p)
    BY <1>t, <1>10, FlagsReturn DEF PollFails, SaveAlias, Fail
  <1> QED
    BY <1>1, <1>2, <1>3, <1>4, <1>5, <1>6, <1>7, <1>8, <1>9, <1>10 DEF Step

\* A command that starts calls upload only without the flags.
LEMMA FlagsStart ==
    ASSUME TypeOK, NEW p \in Procs, NEW c \in Commands, Start(p, c)
    PROVE  FlagsOf(p)'
  <1>1. /\ pc'[p] \in {"presim", "build"} /\ cmd'[p] = c /\ phase'[p] = FirstPhase(c)
        /\ sent'[p] = {} /\ outcome'[p] = "none"
    BY DEF Start, TypeOK
  <1>2. c.op \in {"upload", "deploy", "invoke", "extend", "restore"}
    BY CommandFacts
  <1>3. FirstPhase(c) = "upload" /\ c.op = "deploy" => c.only = "no"
    BY DEF FirstPhase
  <1>4. FirstPhase(c) = "restore" => c.op = "restore"
    BY <1>2 DEF FirstPhase
  <1> QED  BY <1>1, <1>3, <1>4 DEF FlagsOf, FlagsAt

\* Every step keeps the invariant of the flags.
LEMMA FlagsStep == PipelineInv /\ FlagsInv /\ [Next]_vars => FlagsInv'
  <1> SUFFICES ASSUME PipelineInv, FlagsInv, [Next]_vars PROVE \A q \in Procs : FlagsOf(q)'
    BY DEF FlagsInv, FlagsOf, DeployNeverPanics
  <1>t. TypeOK /\ \A q \in Procs : FlagsOf(q)
    BY DEF PipelineInv, FlagsInv, FlagsOf, DeployNeverPanics
  <1>f. ASSUME NEW q \in Procs, Own(q)' = Own(q) PROVE FlagsOf(q)'
    <2>1. /\ pc'[q] = pc[q] /\ cmd'[q] = cmd[q] /\ phase'[q] = phase[q]
          /\ sent'[q] = sent[q] /\ outcome'[q] = outcome[q]
      BY <1>f DEF Own
    <2> QED  BY <1>t, <2>1 DEF FlagsOf, FlagsAt
  <1>1. ASSUME NEW p \in Procs, Step(p) \/ Kill(p) \/ \E c \in Commands : Start(p, c)
        PROVE  \A q \in Procs : FlagsOf(q)'
    <2>1. \A q \in Procs \ {p} : FlagsOf(q)'
      BY <1>t, <1>f, <1>1, StepOthers DEF OnlyMoves
    <2>2. CASE Step(p)
      BY <1>t, <2>1, <2>2, FlagsOwn DEF FlagsOf
    <2>3. CASE Kill(p)
      BY <1>t, <2>1, <2>3, FlagsReturn DEF Kill, FlagsOf
    <2>4. CASE \E c \in Commands : Start(p, c)
      BY <1>t, <2>1, <2>4, FlagsStart
    <2> QED  BY <1>1, <2>2, <2>3, <2>4
  <1>2. ASSUME \/ \E t \in pending : Apply(t) \/ Drop(t)
               \/ \E w \in Wasms : Archive(w)
               \/ \E a \in Accounts : ReplaceKey(a)
               \/ UNCHANGED vars
        PROVE  \A q \in Procs : FlagsOf(q)'
    <2>1. \A q \in Procs : Own(q)' = Own(q)
      BY <1>2 DEF Apply, Drop, Archive, ReplaceKey, vars, local, Own
    <2> QED  BY <1>f, <2>1
  <1> QED  BY <1>1, <1>2 DEF Next

\* The invariant of the flags holds in every reachable state.
THEOREM FlagsCorrect == Spec => []FlagsInv
  <1>1. Init => FlagsInv
    BY DEF Init, FlagsInv, FlagsAt, DeployNeverPanics
  <1> QED  BY <1>1, PipelineCorrect, FlagsStep, PTL DEF Spec

\* FlagsSendNothing: with --build-only, and with --sim-only in upload, deploy and invoke,
\* a run submits nothing, neither itself nor in the handlers that it calls.
THEOREM FlagsSendNothing == Spec => []OnlyFlagsSendNothing
  <1>1. FlagsInv => OnlyFlagsSendNothing
    BY DEF FlagsInv, FlagsAt, Sends, OnlyFlagsSendNothing
  <1> QED  BY <1>1, FlagsCorrect, PTL

\* DeployHasNoPanic: the expect() on the result of the upload in deploy never fires, for
\* every combination of flags: what it says is true.
THEOREM DeployHasNoPanic == Spec => []DeployNeverPanics
  <1>1. FlagsInv => DeployNeverPanics
    BY DEF FlagsInv
  <1> QED  BY <1>1, FlagsCorrect, PTL
=============================================================================
