--------------------------- MODULE ServicesProofs ---------------------------
(***************************************************************************)
(* Proofs of the properties of Services, for every value of its constants. *)
(* A behaviour belongs to one service, and its steps are those of the       *)
(* service's own module (ServicesStep): each section below has an inductive *)
(* invariant of one of these modules.                                      *)
(***************************************************************************)
EXTENDS Services, SequenceTheorems, TLAPS

\* A behaviour stays with its service, starts as one of the service's module and goes on
\* as one.
LEMMA ServicesStart ==
    ASSUME ServicesInit
    PROVE  /\ service = "events" => Paging!Init
           /\ service = "lifetime" => Lifetime!Init
           /\ service = "docker" => Docker!Init
           /\ service = "wallet" => Wallet!Init
  BY DEF ServicesInit

LEMMA ServicesStep ==
    ASSUME [ServicesNext]_vars
    PROVE  /\ service' = service
           /\ service = "events" => [Paging!Next]_(Paging!vars)
           /\ service = "lifetime" => [Lifetime!Next]_(Lifetime!vars)
           /\ service = "docker" => [Docker!Next]_(Docker!vars)
           /\ service = "wallet" => [Wallet!Next]_(Wallet!vars)
  <1>1. CASE ServicesNext
    BY <1>1 DEF ServicesNext
  <1>2. CASE UNCHANGED vars
    BY <1>2 DEF vars, eventVars, ttlVars, containerVars, walletVars,
                Paging!vars, Lifetime!vars, Docker!vars, Wallet!vars
  <1> QED  BY <1>1, <1>2

-----------------------------------------------------------------------------
(* The lifetime of a ledger entry (EntryTtl).                               *)

\* The changes that a process got back: none, or the new lifetime of the entry, which
\* covers what was asked for and which nobody has shortened since.
ChangesOf(p) ==
    \/ meta[p] = << >>
    \/ \E was \in Nat, until \in Nat :
           /\ meta[p] = <<Lifetime!Change("state", was), Lifetime!Change("updated", until)>>
           /\ until <= live /\ until >= ledger[p] + want[p]

LifetimeAt(p) ==
    /\ ledger[p] <= now
    /\ pc[p] \in {"ready", "restore", "readRestore"} => want[p] = 0
    /\ pc[p] \in {"readExtend", "readRestore"} => ChangesOf(p)
    /\ pc[p] = "ask" => meta[p] = << >>
    /\ pc[p] = "reported" => ttl[p] <= live /\ ttl[p] >= ledger[p] + want[p]

LifetimeTypes ==
    /\ now \in Nat /\ live \in Nat
    /\ DOMAIN pc = Procs /\ DOMAIN meta = Procs
    /\ want \in [Procs -> Nat] /\ ledger \in [Procs -> Nat] /\ ttl \in [Procs -> Nat]

\* The inductive invariant of EntryTtl.
LifetimeInv == LifetimeTypes /\ \A p \in Procs : LifetimeAt(p)

\* A process that does not move keeps its part while ledgers close and the entry lives on.
LEMMA LifetimeFrame ==
    ASSUME LifetimeInv, LifetimeTypes', NEW q \in Procs, now <= now', live <= live',
           pc'[q] = pc[q], want'[q] = want[q], meta'[q] = meta[q], ledger'[q] = ledger[q],
           ttl'[q] = ttl[q]
    PROVE  LifetimeAt(q)'
  <1>1. LifetimeAt(q)
    BY DEF LifetimeInv
  <1>2. ChangesOf(q) => ChangesOf(q)'
    <2>1. ASSUME NEW was \in Nat, NEW until \in Nat,
                 meta[q] = <<Lifetime!Change("state", was), Lifetime!Change("updated", until)>>,
                 until <= live, until >= ledger[q] + want[q]
          PROVE  ChangesOf(q)'
      <3>1. until <= live'
        BY <2>1 DEF LifetimeInv, LifetimeTypes
      <3> QED  BY <2>1, <3>1 DEF ChangesOf
    <2> QED  BY <2>1 DEF ChangesOf
  <1> QED  BY <1>1, <1>2 DEF LifetimeInv, LifetimeTypes, LifetimeAt

\* The ways in which a command ends.
LEMMA LifetimeEnds ==
    ASSUME LifetimeInv, NEW p \in Procs, NEW how, NEW n \in Nat, Lifetime!End(p, how, n),
           how \in {"error", "panic"} \/ (how = "reported" /\ n <= live /\ n >= ledger[p] + want[p])
    PROVE  LifetimeInv'
  <1>1. LifetimeTypes'
    BY DEF LifetimeInv, LifetimeTypes, Lifetime!End
  <1>2. LifetimeAt(p)'
    BY DEF LifetimeInv, LifetimeTypes, LifetimeAt, Lifetime!End
  <1>3. \A q \in Procs \ {p} : LifetimeAt(q)'
    BY <1>1, LifetimeFrame DEF LifetimeInv, LifetimeTypes, Lifetime!End
  <1> QED  BY <1>1, <1>2, <1>3 DEF LifetimeInv

\* The network applies a transaction and the command gets the changes back.
LEMMA LifetimeApplied ==
    ASSUME LifetimeInv, NEW p \in Procs, NEW next, NEW changes, NEW until \in Nat,
           Lifetime!Applied(p, next, changes), live' \in Nat, live <= live',
           next = "readExtend" \/ (next = "readRestore" /\ want[p] = 0),
           \/ changes = << >>
           \/ /\ changes = <<Lifetime!Change("state", live), Lifetime!Change("updated", until)>>
              /\ until <= live' /\ until >= now + want[p]
    PROVE  LifetimeInv'
  <1>1. LifetimeTypes'
    BY DEF LifetimeInv, LifetimeTypes, Lifetime!Applied
  <1>2. LifetimeAt(p)'
    BY DEF LifetimeInv, LifetimeTypes, LifetimeAt, Lifetime!Applied, ChangesOf
  <1>3. \A q \in Procs \ {p} : LifetimeAt(q)'
    BY <1>1, LifetimeFrame DEF LifetimeInv, LifetimeTypes, Lifetime!Applied
  <1> QED  BY <1>1, <1>2, <1>3 DEF LifetimeInv

LEMMA LifetimeStep ==
    ASSUME LifetimeInv, [Lifetime!Next]_(Lifetime!vars)
    PROVE  LifetimeInv'
  <1> USE LifetimeAssumption DEF Lifetime!ConstantsAssumption
  <1>t. LifetimeTypes /\ \A p \in Procs : LifetimeAt(p)
    BY DEF LifetimeInv
  <1>1. ASSUME NEW p \in Procs, NEW n \in ExtendArgs, Lifetime!Extend(p, n)
        PROVE  LifetimeInv'
    <2>1. CASE Lifetime!End(p, "error", 0)
      BY <2>1, LifetimeEnds
    <2>2. CASE /\ pc[p] = "ready" /\ pc' = [pc EXCEPT ![p] = "extend"]
               /\ want' = [want EXCEPT ![p] = Lifetime!LedgersToExtend(n)]
               /\ UNCHANGED <<now, live, temporary, meta, ledger, ttl>>
      <3>1. LifetimeTypes'
        BY <1>t, <2>2 DEF LifetimeTypes, Lifetime!LedgersToExtend
      <3>2. LifetimeAt(p)'
        BY <1>t, <2>2 DEF LifetimeTypes, LifetimeAt
      <3>3. \A q \in Procs \ {p} : LifetimeAt(q)'
        BY <1>t, <2>2, <3>1, LifetimeFrame DEF LifetimeTypes
      <3> QED  BY <3>1, <3>2, <3>3 DEF LifetimeInv
    <2> QED  BY <1>1, <2>1, <2>2 DEF Lifetime!Extend
  <1>2. ASSUME NEW p \in Procs, Lifetime!Restore(p)
        PROVE  LifetimeInv'
    <2>1. LifetimeTypes'
      BY <1>t, <1>2 DEF LifetimeTypes, Lifetime!Restore
    <2>2. LifetimeAt(p)'
      BY <1>t, <1>2 DEF LifetimeTypes, LifetimeAt, Lifetime!Restore
    <2>3. \A q \in Procs \ {p} : LifetimeAt(q)'
      BY <1>t, <1>2, <2>1, LifetimeFrame DEF LifetimeTypes, Lifetime!Restore
    <2> QED  BY <2>1, <2>2, <2>3 DEF LifetimeInv
  <1>3. ASSUME NEW p \in Procs, Lifetime!ApplyExtend(p)
        PROVE  LifetimeInv'
    <2> DEFINE until == now + want[p]
    <2>1. until \in Nat /\ live \in Nat
      BY <1>t DEF LifetimeTypes
    <2>2. \/ live < until /\ live' = until
             /\ Lifetime!Applied(p, "readExtend",
                    <<Lifetime!Change("state", live), Lifetime!Change("updated", until)>>)
          \/ live' = live /\ Lifetime!Applied(p, "readExtend", << >>)
      BY <1>3 DEF Lifetime!ApplyExtend
    <2> HIDE DEF until
    <2>3. until >= now + want[p]
      BY <2>1 DEF until
    <2> QED  BY <2>1, <2>2, <2>3, LifetimeApplied
  <1>4. ASSUME NEW p \in Procs, Lifetime!ApplyRestore(p)
        PROVE  LifetimeInv'
    <2> DEFINE until == now + MinTtl
    <2>1. until \in Nat /\ live \in Nat /\ now \in Nat /\ want[p] = 0 /\ until >= now + want[p]
      BY <1>t, <1>4 DEF LifetimeTypes, LifetimeAt, Lifetime!ApplyRestore
    <2>2. \/ live < now /\ live' = until
             /\ Lifetime!Applied(p, "readRestore",
                    <<Lifetime!Change("state", live), Lifetime!Change("updated", until)>>)
          \/ live' = live /\ Lifetime!Applied(p, "readRestore", << >>)
      BY <1>4, <2>1 DEF Lifetime!ApplyRestore, Lifetime!Exists, Lifetime!Lives
    <2>3. (until <= live' /\ live <= live') \/ live' = live
      BY <2>1, <2>2
    <2> HIDE DEF until
    <2> QED  BY <2>1, <2>2, <2>3, LifetimeApplied
  <1>5. ASSUME NEW p \in Procs, Lifetime!ReadExtend(p)
        PROVE  LifetimeInv'
    <2>1. CASE meta[p] # << >> /\ Lifetime!MatchChanges(p)
      <3>1. PICK was \in Nat, until \in Nat :
               /\ meta[p] = <<Lifetime!Change("state", was), Lifetime!Change("updated", until)>>
               /\ until <= live /\ until >= ledger[p] + want[p]
        BY <1>t, <1>5, <2>1 DEF LifetimeAt, ChangesOf, Lifetime!ReadExtend
      <3>2. Lifetime!End(p, "reported", until)
        BY <2>1, <3>1 DEF Lifetime!MatchChanges, Lifetime!Change
      <3> QED  BY <3>1, <3>2, LifetimeEnds
    <2>2. CASE /\ meta[p] = << >> /\ pc' = [pc EXCEPT ![p] = "ask"]
               /\ UNCHANGED <<now, live, temporary, want, meta, ledger, ttl>>
      <3>1. LifetimeTypes'
        BY <1>t, <2>2 DEF LifetimeTypes
      <3>2. LifetimeAt(p)'
        BY <1>t, <2>2 DEF LifetimeTypes, LifetimeAt
      <3>3. \A q \in Procs \ {p} : LifetimeAt(q)'
        BY <1>t, <2>2, <3>1, LifetimeFrame DEF LifetimeTypes
      <3> QED  BY <3>1, <3>2, <3>3 DEF LifetimeInv
    <2> QED  BY <1>5, <2>1, <2>2 DEF Lifetime!ReadExtend
  <1>6. ASSUME NEW p \in Procs, Lifetime!AskEntry(p)
        PROVE  LifetimeInv'
    <2>1. CASE Lifetime!End(p, "panic", 0)
      BY <2>1, LifetimeEnds
    <2>2. CASE Lifetime!LivesLonger(p) /\ Lifetime!End(p, "reported", live)
      <3>1. live >= ledger[p] + want[p]
        BY <1>t, <2>2 DEF LifetimeTypes, LifetimeAt, Lifetime!LivesLonger
      <3> QED  BY <1>t, <2>2, <3>1, LifetimeEnds DEF LifetimeTypes
    <2>3. CASE Lifetime!MatchChanges(p)
      <3>1. meta[p] = << >>
        BY <1>t, <1>6 DEF LifetimeAt, Lifetime!AskEntry
      <3>2. Lifetime!End(p, "panic", 0)
        BY <2>3, <3>1 DEF Lifetime!MatchChanges
      <3> QED  BY <3>2, LifetimeEnds
    <2> QED  BY <1>6, <2>1, <2>2, <2>3 DEF Lifetime!AskEntry
  <1>7. ASSUME NEW p \in Procs, Lifetime!ReadRestore(p)
        PROVE  LifetimeInv'
    <2>1. CASE Lifetime!End(p, "error", 0)
      BY <2>1, LifetimeEnds
    <2>2. ASSUME NEW i \in Lifetime!ParseOperations(meta[p]),
                 Lifetime!End(p, "reported", meta[p][i].until)
          PROVE  LifetimeInv'
      <3>1. meta[p] # << >>
        BY <2>2 DEF Lifetime!ParseOperations
      <3>2. PICK was \in Nat, until \in Nat :
               /\ meta[p] = <<Lifetime!Change("state", was), Lifetime!Change("updated", until)>>
               /\ until <= live /\ until >= ledger[p] + want[p]
        BY <1>t, <1>7, <3>1 DEF LifetimeAt, ChangesOf, Lifetime!ReadRestore
      <3>3. i = 2
        BY <3>2 DEF Lifetime!ParseOperations, Lifetime!Change
      <3>4. Lifetime!End(p, "reported", until)
        BY <2>2, <3>2, <3>3 DEF Lifetime!Change
      <3> QED  BY <3>2, <3>4, LifetimeEnds
    <2> QED  BY <1>7, <2>1, <2>2 DEF Lifetime!ReadRestore
  <1>8. CASE Lifetime!CloseLedger
    <2>1. LifetimeTypes'
      BY <1>t, <1>8 DEF LifetimeTypes, Lifetime!CloseLedger, Lifetime!local
    <2> QED  BY <1>t, <1>8, <2>1, LifetimeFrame
             DEF LifetimeInv, LifetimeTypes, Lifetime!CloseLedger, Lifetime!local
  <1>9. CASE UNCHANGED Lifetime!vars
    BY <1>t, <1>9 DEF Lifetime!vars, LifetimeInv, LifetimeTypes, LifetimeAt, ChangesOf
  <1> QED  BY <1>1, <1>2, <1>3, <1>4, <1>5, <1>6, <1>7, <1>8, <1>9 DEF Lifetime!Next

\* LivesAsReported: whatever the limits, the arguments and the number of processes, and
\* however ledgers close in between, the ledger that `contract extend` or `restore` reports
\* is one that the entry lives to, and one as late as was asked for.
THEOREM LivesAsReported == Spec => []ReportedLives
  <1> DEFINE Inv == service = "lifetime" => LifetimeInv
  <1>1. ServicesInit => Inv
    <2>1. Lifetime!Init => LifetimeInv
      BY LifetimeAssumption
      DEF Lifetime!ConstantsAssumption, Lifetime!Init, LifetimeInv, LifetimeTypes, LifetimeAt
    <2> QED  BY <2>1, ServicesStart
  <1>2. Inv /\ [ServicesNext]_vars => Inv'
    BY ServicesStep, LifetimeStep
  <1>3. Inv => ReportedLives
    BY DEF LifetimeInv, LifetimeAt, ReportedLives, Lifetime!ReportedLives
  <1> QED  BY <1>1, <1>2, <1>3, PTL DEF Spec

-----------------------------------------------------------------------------
(* The hardware wallet (LedgerApp).                                         *)

\* The chunks of a payload: the last one is the first that reaches the end.
LEMMA ChunkBounds ==
    ASSUME NEW C \in Nat \ {0}, NEW L \in Nat \ {0}, NEW n \in Int, NEW k \in Nat,
           n = (L + C - 1) \div C
    PROVE  /\ n >= 1
           /\ k + 1 < n => (k + 1) * C < L
           /\ k + 1 = n => (k + 1) * C >= L
           /\ k < n => k * C < L
  <1>1. n * C <= L + C - 1 /\ L + C - 1 < n * C + C
  OBVIOUS
  <1>2. n >= 1
    BY <1>1
  <1> QED  BY <1>1, <1>2

\* What is to be signed.
Signed == Wallet!Data(index, payload)

\* The inductive invariant of LedgerApp: when a chunk after the first is to be sent, the
\* device has the chunks before it, of this call.
WalletInv ==
    /\ pc \notin {"idle", "panic"} => index \in Indexes /\ payload \in Payloads
    /\ pc = "send" =>
          /\ chunk \in Nat
          /\ ins = "SIGN_TX" =>
                /\ chunk < Wallet!ChunksCount(Signed)
                /\ chunk > 0 => buffer = SubSeq(Signed, 1, chunk * ChunkSize)
          /\ ins # "SIGN_TX" => chunk = 0
    /\ pc = "done" /\ ins = "SIGN_TX" => result = Signed

\* The data of a call is a sequence, and not an empty one.
LEMMA SignedType ==
    ASSUME NEW i \in Indexes, NEW b \in Payloads
    PROVE  /\ Wallet!Data(i, b) \in Seq(Nat)
           /\ Len(Wallet!Data(i, b)) \in Nat \ {0}
  <1>1. b \in Seq(Nat) /\ i \in Nat /\ PathLen \in Nat
    BY WalletAssumption DEF Wallet!ChunkAssumption
  <1>2. Wallet!ToVec(i) \in Seq(Nat) /\ <<Wallet!Count>> \in Seq(Nat)
    BY <1>1 DEF Wallet!ToVec, Wallet!ByteOf, Wallet!Count
  <1>3. /\ <<Wallet!Count>> \o Wallet!ToVec(i) \in Seq(Nat)
        /\ Len(<<Wallet!Count>> \o Wallet!ToVec(i)) = 1 + Len(Wallet!ToVec(i))
    BY <1>2
  <1> QED  BY <1>1, <1>2, <1>3 DEF Wallet!Data

\* A chunk on top of the chunks before it.
LEMMA ChunkJoins ==
    ASSUME NEW d \in Seq(Nat), Len(d) # 0, NEW k \in Nat, k < Wallet!ChunksCount(d)
    PROVE  /\ k + 1 # Wallet!ChunksCount(d) =>
                 /\ k + 1 < Wallet!ChunksCount(d)
                 /\ SubSeq(d, 1, k * ChunkSize) \o Wallet!Chunk(d, k) = SubSeq(d, 1, (k + 1) * ChunkSize)
           /\ k + 1 = Wallet!ChunksCount(d) =>
                 SubSeq(d, 1, k * ChunkSize) \o Wallet!Chunk(d, k) = d
  <1> DEFINE n == Wallet!ChunksCount(d)
             at0 == k * ChunkSize
             at1 == (k + 1) * ChunkSize
  <1>1. ChunkSize \in Nat \ {0} /\ Len(d) \in Nat \ {0}
    BY WalletAssumption DEF Wallet!ChunkAssumption
  <1>2. n = (Len(d) + ChunkSize - 1) \div ChunkSize /\ n \in Int
    BY <1>1 DEF Wallet!ChunksCount
  <1>3. /\ k + 1 < n => at1 < Len(d)
        /\ k + 1 = n => at1 >= Len(d)
        /\ at0 < Len(d)
    BY <1>1, <1>2, ChunkBounds
  <1>4. at0 \in Nat /\ at1 \in Nat /\ at0 <= at1
    BY <1>1
  <1>5. Wallet!Chunk(d, k) = SubSeq(d, at0 + 1, IF at1 < Len(d) THEN at1 ELSE Len(d))
    BY DEF Wallet!Chunk
  <1> HIDE DEF n, at0, at1
  <1>6. \A m \in at0 .. Len(d) : SubSeq(d, 1, at0) \o SubSeq(d, at0 + 1, m) = SubSeq(d, 1, m)
    BY <1>1, <1>3, <1>4, ConcatAdjacentSubSeq
  <1>7. SubSeq(d, 1, Len(d)) = d
    BY SubSeqFull
  <1>8. k + 1 # n => k + 1 < n
    BY <1>2 DEF n
  <1>9. k + 1 < n => SubSeq(d, 1, at0) \o Wallet!Chunk(d, k) = SubSeq(d, 1, at1)
    <2> SUFFICES ASSUME k + 1 < n
                 PROVE  SubSeq(d, 1, at0) \o Wallet!Chunk(d, k) = SubSeq(d, 1, at1)
      OBVIOUS
    <2>1. at1 \in at0 .. Len(d) /\ Wallet!Chunk(d, k) = SubSeq(d, at0 + 1, at1)
      BY <1>1, <1>3, <1>4, <1>5
    <2> QED  BY <1>6, <2>1
  <1>10. k + 1 = n => SubSeq(d, 1, at0) \o Wallet!Chunk(d, k) = d
    <2> SUFFICES ASSUME k + 1 = n
                 PROVE  SubSeq(d, 1, at0) \o Wallet!Chunk(d, k) = d
      OBVIOUS
    <2>1. Len(d) \in at0 .. Len(d) /\ Wallet!Chunk(d, k) = SubSeq(d, at0 + 1, Len(d))
      BY <1>1, <1>3, <1>4, <1>5
    <2>2. SubSeq(d, 1, at0) \o SubSeq(d, at0 + 1, Len(d)) = SubSeq(d, 1, Len(d))
      BY <1>6, <2>1
    <2> QED  BY <1>7, <2>1, <2>2
  <1> QED  BY <1>8, <1>9, <1>10 DEF n, at0, at1

\* What the device has after a chunk is the chunks up to this one.
LEMMA ReceivedJoins ==
    ASSUME WalletInv, pc = "send", ins = "SIGN_TX"
    PROVE  Wallet!Received(Wallet!P1, Wallet!Chunk(Signed, chunk)) =
               SubSeq(Signed, 1, chunk * ChunkSize) \o Wallet!Chunk(Signed, chunk)
  <1>1. Signed \in Seq(Nat) /\ chunk \in Nat
    BY SignedType DEF WalletInv, Signed
  <1>2. ChunkSize \in Nat \ {0}
    BY WalletAssumption DEF Wallet!ChunkAssumption
  <1> DEFINE bytes == Wallet!Chunk(Signed, chunk)
             had == SubSeq(Signed, 1, chunk * ChunkSize)
  <1>3. chunk > 0 => Wallet!Received(Wallet!P1, bytes) = had \o bytes
    <2>1. chunk > 0 => buffer = had /\ ~Wallet!P1
      BY <1>1 DEF WalletInv, Wallet!P1, Wallet!IsFirst
    <2> HIDE DEF bytes, had
    <2> QED  BY <2>1 DEF Wallet!Received
  <1>4. chunk = 0 => Wallet!Received(Wallet!P1, bytes) = had \o bytes
    <2> SUFFICES ASSUME chunk = 0
                 PROVE  Wallet!Received(Wallet!P1, bytes) = had \o bytes
      OBVIOUS
    <2>1. had = << >>
      BY <1>2, SubSeqEmpty
    <2>2. bytes \in Seq(Nat)
      BY <1>1, <1>2 DEF Wallet!Chunk
    <2>3. Wallet!P1
      BY DEF Wallet!P1, Wallet!IsFirst
    <2> HIDE DEF bytes, had
    <2> QED  BY <2>1, <2>2, <2>3 DEF Wallet!Received
  <1>5. chunk > 0 \/ chunk = 0
    BY <1>1
  <1> QED  BY <1>3, <1>4, <1>5, Zenon

LEMMA WalletStep ==
    ASSUME WalletInv, [Wallet!Next]_(Wallet!vars)
    PROVE  WalletInv'
  <1>d. pc = "send" => Signed \in Seq(Nat) /\ Len(Signed) # 0 /\ chunk \in Nat
    BY SignedType DEF WalletInv, Signed
  <1>1. CASE Wallet!Ask
    <2>1. pc' \in {"panic", "send"} /\ chunk' = 0 /\ index' \in Indexes /\ payload' \in Payloads
      BY <1>1 DEF Wallet!Ask
    <2>2. 0 < Wallet!ChunksCount(Signed')
      <3>1. Len(Signed') \in Nat \ {0}
        BY <2>1, SignedType DEF Signed
      <3>2. ChunkSize \in Nat \ {0}
        BY WalletAssumption DEF Wallet!ChunkAssumption
      <3> QED  BY <3>1, <3>2, ChunkBounds DEF Wallet!ChunksCount
    <2> QED  BY <2>1, <2>2 DEF WalletInv
  <1>2. CASE Wallet!SendChunk
    <2>1. /\ pc = "send" /\ ins = "SIGN_TX" /\ chunk + 1 # Wallet!ChunksCount(Signed)
          /\ buffer' = Wallet!Received(Wallet!P1, Wallet!Chunk(Signed, chunk))
          /\ chunk' = chunk + 1 /\ Signed' = Signed
          /\ UNCHANGED <<pc, ins, index, payload, result>>
      BY <1>2 DEF Wallet!SendChunk, Wallet!IsLast, Signed
    <2>2. chunk < Wallet!ChunksCount(Signed)
      BY <2>1 DEF WalletInv
    <2>3. /\ buffer' = SubSeq(Signed, 1, (chunk + 1) * ChunkSize)
          /\ chunk + 1 < Wallet!ChunksCount(Signed)
      BY <1>d, <2>1, <2>2, ReceivedJoins, ChunkJoins
    <2> QED  BY <1>d, <2>1, <2>3 DEF WalletInv
  <1>3. CASE Wallet!SendLast
    <2>1. /\ pc = "send" /\ ins = "SIGN_TX" /\ chunk + 1 = Wallet!ChunksCount(Signed)
          /\ result' = Wallet!Received(Wallet!P1, Wallet!Chunk(Signed, chunk))
          /\ pc' = "done" /\ Signed' = Signed
          /\ UNCHANGED <<ins, index, payload>>
      BY <1>3 DEF Wallet!SendLast, Wallet!IsLast, Signed
    <2>2. chunk < Wallet!ChunksCount(Signed)
      BY <2>1 DEF WalletInv
    <2>3. result' = Signed
      BY <1>d, <2>1, <2>2, ReceivedJoins, ChunkJoins
    <2> QED  BY <2>1, <2>3 DEF WalletInv
  <1>4. CASE Wallet!SendCommand \/ Wallet!Fails
    BY <1>4 DEF Wallet!SendCommand, Wallet!Fails, WalletInv
  <1>5. CASE UNCHANGED Wallet!vars
    BY <1>5 DEF Wallet!vars, WalletInv, Signed
  <1> QED  BY <1>1, <1>2, <1>3, <1>4, <1>5 DEF Wallet!Next

\* SignsEveryCall: for any chunk size and any payload, and whatever a call that failed in any
\* exchange has left on the device, what it signs is the path and the payload of this call.
THEOREM SignsEveryCall == Spec => []SignsTheCall
  <1> DEFINE Inv == service = "wallet" => WalletInv
  <1>1. ServicesInit => Inv
    <2>1. Wallet!Init => WalletInv
      BY DEF Wallet!Init, WalletInv
    <2> QED  BY <2>1, ServicesStart
  <1>2. Inv /\ [ServicesNext]_vars => Inv'
    BY ServicesStep, WalletStep
  <1>3. Inv => SignsTheCall
    BY DEF WalletInv, SignsTheCall, Wallet!SignsTheCall, Signed
  <1> QED  BY <1>1, <1>2, <1>3, PTL DEF Spec

-----------------------------------------------------------------------------
(* Docker's containers (Containers).                                        *)

DockerTypes ==
    /\ made \in Nat
    /\ DOMAIN pc = Procs /\ DOMAIN op = Procs /\ DOMAIN host = Procs /\ DOMAIN name = Procs
    /\ DOMAIN daemon = Procs /\ DOMAIN own = Procs

\* A container is a record, and its id is one that was given out.
ContainerType(c) ==
    /\ c \in [id : Nat, daemon : {c.daemon}, name : {c.name}, ports : {c.ports}, started : BOOLEAN]
    /\ c.id <= made

\* What the instructions of a `start` say of the container they were printed for, as long as
\* it exists: it runs under that name, where that host leads.
NoteAt(note) ==
    /\ note.id \in Nat /\ note.id <= made
    /\ \A c \in containers : c.id = note.id =>
          c.started /\ c.daemon = Docker!ConnectToDocker(note.host) /\ c.name = note.name

\* Between creating and running a container its process alone knows of it; a `stop` is of
\* some instructions, and when it succeeded their container is gone.
DockerAt(p) ==
    /\ pc[p] = "connect" => op[p] \in {"start", "stop", "logs"}
    /\ pc[p] \in {"pull", "create", "run"} =>
          op[p] = "start" /\ daemon[p] = Docker!ConnectToDocker(host[p])
    /\ pc[p] = "run" =>
          /\ own[p] \in Nat /\ own[p] <= made
          /\ \A note \in notes : note.id # own[p]
          /\ \A c \in containers : c.id = own[p] => c.daemon = daemon[p] /\ c.name = name[p]
          /\ \A q \in Procs : q # p /\ pc[q] = "run" => own[q] # own[p]
    /\ op[p] = "stop" =>
          \E note \in notes : note.host = host[p] /\ note.name = name[p] /\ note.id = own[p]
    /\ pc[p] = "stop" => op[p] = "stop" /\ daemon[p] = Docker!ConnectToDocker(host[p])
    /\ pc[p] = "logs" => op[p] = "logs"
    /\ pc[p] = "done" /\ op[p] = "stop" => \A c \in containers : c.id # own[p]

\* The inductive invariant of Containers.
DockerInv ==
    /\ DockerTypes
    /\ \A c \in containers : ContainerType(c)
    /\ \A c, d \in containers : c.id = d.id => c = d
    /\ \A note \in notes : NoteAt(note)
    /\ \A p \in Procs : DockerAt(p)

\* What the processes other than p have of their own.
DockerOthers(p) ==
    \A q \in Procs \ {p} :
        /\ pc'[q] = pc[q] /\ op'[q] = op[q] /\ host'[q] = host[q] /\ name'[q] = name[q]
        /\ daemon'[q] = daemon[q] /\ own'[q] = own[q]

\* The address of a host does not change, because the daemons that answer do not.
LEMMA SameDaemon ==
    ASSUME up' = up, NEW h
    PROVE  Docker!ConnectToDocker(h)' = Docker!ConnectToDocker(h)
  BY DEF Docker!ConnectToDocker

\* A step that touches no container and prints nothing.
LEMMA DockerQuiet ==
    ASSUME DockerInv, NEW p \in Procs, UNCHANGED <<up, containers, made, notes>>,
           DockerTypes', DockerOthers(p), DockerAt(p)', pc'[p] # "run"
    PROVE  DockerInv'
  <1>1. \A h : Docker!ConnectToDocker(h)' = Docker!ConnectToDocker(h)
    BY SameDaemon
  <1>2. \A c \in containers' : ContainerType(c)'
    BY DEF DockerInv, ContainerType
  <1>3. \A note \in notes' : NoteAt(note)'
    BY <1>1 DEF DockerInv, NoteAt
  <1>4. ASSUME NEW q \in Procs, q # p
        PROVE  DockerAt(q)'
    <2>1. /\ pc'[q] = pc[q] /\ op'[q] = op[q] /\ host'[q] = host[q] /\ name'[q] = name[q]
          /\ daemon'[q] = daemon[q] /\ own'[q] = own[q]
      BY <1>4 DEF DockerOthers
    <2>2. DockerAt(q)
      BY DEF DockerInv
    <2>3. \A r \in Procs : pc'[r] = "run" => pc[r] = "run" /\ own'[r] = own[r]
      BY DEF DockerOthers
    <2> QED  BY <1>1, <2>1, <2>2, <2>3 DEF DockerAt
  <1> QED  BY <1>2, <1>3, <1>4 DEF DockerInv

LEMMA DockerStep ==
    ASSUME DockerInv, [Docker!Next]_(Docker!vars)
    PROVE  DockerInv'
  <1> USE DEF Docker!Goto, Docker!At, Docker!Line
  <1>t. DockerTypes
    BY DEF DockerInv
  <1>d. up' = up => \A h : Docker!ConnectToDocker(h)' = Docker!ConnectToDocker(h)
    BY SameDaemon
  <1>1. ASSUME NEW p \in Procs, Docker!Start(p)
        PROVE  DockerInv'
    <2>1. /\ DockerTypes' /\ DockerOthers(p) /\ UNCHANGED <<up, containers, made, notes>>
          /\ pc'[p] = "connect" /\ op'[p] = "start"
      BY <1>t, <1>1 DEF Docker!Start, DockerTypes, DockerOthers
    <2>2. DockerAt(p)'
      BY <2>1 DEF DockerAt
    <2> QED  BY <2>1, <2>2, DockerQuiet
  <1>2. ASSUME NEW p \in Procs, Docker!Follow(p)
        PROVE  DockerInv'
    <2>1. /\ DockerTypes' /\ DockerOthers(p) /\ UNCHANGED <<up, containers, made, notes>>
          /\ pc'[p] = "connect" /\ op'[p] \in {"stop", "logs"}
          /\ \E note \in notes : host'[p] = note.host /\ name'[p] = note.name /\ own'[p] = note.id
      BY <1>t, <1>2 DEF Docker!Follow, DockerTypes, DockerOthers
    <2>2. DockerAt(p)'
      BY <2>1 DEF DockerAt
    <2> QED  BY <2>1, <2>2, DockerQuiet
  <1>3. ASSUME NEW p \in Procs, Docker!Connect(p)
        PROVE  DockerInv'
    <2>1. /\ DockerTypes' /\ DockerOthers(p) /\ UNCHANGED <<up, containers, made, notes>>
          /\ pc[p] = "connect" /\ UNCHANGED <<op, host, name, own>>
          /\ daemon'[p] = Docker!ConnectToDocker(host[p])
          /\ \/ pc'[p] = "failed"
             \/ pc'[p] = IF op[p] = "start" THEN "pull" ELSE op[p]
      BY <1>t, <1>3 DEF Docker!Connect, DockerTypes, DockerOthers
    <2>2. DockerAt(p) /\ op[p] \in {"start", "stop", "logs"}
      BY <2>1 DEF DockerInv, DockerAt
    <2>3. pc'[p] \in {"failed", "pull", "stop", "logs"}
      BY <2>1, <2>2
    <2>4. DockerAt(p)'
      BY <1>d, <2>1, <2>2, <2>3 DEF DockerAt
    <2> QED  BY <2>1, <2>3, <2>4, DockerQuiet
  <1>4. ASSUME NEW p \in Procs, Docker!Pull(p) \/ Docker!Kill(p) \/ Docker!Logs(p)
        PROVE  DockerInv'
    <2>1. /\ DockerTypes' /\ DockerOthers(p) /\ UNCHANGED <<up, containers, made, notes>>
          /\ UNCHANGED <<op, host, name, own, daemon>>
          /\ \/ pc'[p] = "failed"
             \/ pc[p] = "pull" /\ pc'[p] = "create"
             \/ pc[p] = "logs" /\ pc'[p] = "done"
      BY <1>t, <1>4 DEF Docker!Pull, Docker!Kill, Docker!Logs, DockerTypes, DockerOthers
    <2>2. DockerAt(p)
      BY DEF DockerInv
    <2>3. DockerAt(p)'
      BY <1>d, <2>1, <2>2 DEF DockerAt
    <2> QED  BY <2>1, <2>3, DockerQuiet
  <1>5. ASSUME NEW p \in Procs, Docker!Create(p)
        PROVE  DockerInv'
    <2>1. pc[p] = "create" /\ UNCHANGED <<up, op, host, name, daemon, notes>>
      BY <1>5 DEF Docker!Create
    <2>2. DockerAt(p) /\ op[p] = "start" /\ daemon[p] = Docker!ConnectToDocker(host[p])
      BY <2>1 DEF DockerInv, DockerAt
    <2>3. CASE Docker!Named(daemon[p], name[p]) # {}
      <3>1. /\ DockerTypes' /\ DockerOthers(p) /\ UNCHANGED <<up, containers, made, notes>>
            /\ pc'[p] = "failed"
        BY <1>t, <1>5, <2>3 DEF Docker!Create, DockerTypes, DockerOthers
      <3>2. DockerAt(p)'
        BY <2>1, <2>2, <3>1 DEF DockerAt
      <3> QED  BY <3>1, <3>2, DockerQuiet
    <2>4. CASE Docker!Named(daemon[p], name[p]) = {}
      <3>0. PICK new : new = [id |-> made + 1, daemon |-> daemon[p], name |-> name[p],
                              ports |-> Docker!PortMapping(ports[p]), started |-> FALSE]
        OBVIOUS
      <3>1. /\ DockerTypes' /\ DockerOthers(p) /\ containers' = containers \cup {new}
            /\ made' = made + 1 /\ own'[p] = made + 1 /\ pc'[p] = "run"
        BY <1>t, <1>5, <2>4, <3>0 DEF Docker!Create, DockerTypes, DockerOthers
      <3>2. new.id = made + 1 /\ new.daemon = daemon[p] /\ new.name = name[p]
        BY <3>0
      <3>3. ContainerType(new)'
        BY <1>t, <3>0, <3>1 DEF ContainerType, DockerTypes
      <3>4. \A c \in containers : c.id \in Nat /\ c.id <= made /\ ContainerType(c)
        BY DEF DockerInv, ContainerType
      <3>5. \A c \in containers' : ContainerType(c)'
        BY <1>t, <3>1, <3>3, <3>4 DEF ContainerType, DockerTypes
      <3>6. \A c, d \in containers' : c.id = d.id => c = d
        BY <1>t, <3>1, <3>2, <3>4 DEF DockerInv, DockerTypes
      <3>7. \A note \in notes : NoteAt(note) /\ note.id \in Nat /\ note.id <= made
        BY DEF DockerInv, NoteAt
      <3>8. \A note \in notes' : NoteAt(note)'
        BY <1>t, <1>d, <2>1, <3>1, <3>2, <3>7 DEF NoteAt, DockerTypes
      <3>9. \A q \in Procs \ {p} : pc[q] = "run" => own[q] \in Nat /\ own[q] <= made
        BY DEF DockerInv, DockerAt
      <3>10. DockerAt(p)'
        BY <1>t, <1>d, <2>1, <2>2, <3>1, <3>2, <3>4, <3>7, <3>9 DEF DockerAt, DockerOthers, DockerTypes
      <3>11. ASSUME NEW q \in Procs, q # p
             PROVE  DockerAt(q)'
        <4>1. /\ pc'[q] = pc[q] /\ op'[q] = op[q] /\ host'[q] = host[q] /\ name'[q] = name[q]
              /\ daemon'[q] = daemon[q] /\ own'[q] = own[q]
          BY <3>1, <3>11 DEF DockerOthers
        <4>2. DockerAt(q)
          BY DEF DockerInv
        <4>3. op[q] = "stop" => own[q] # made + 1
          BY <1>t, <4>2, <3>7 DEF DockerAt, DockerTypes
        <4>4. pc[q] = "run" => own[q] # made + 1
          BY <1>t, <3>9, <3>11 DEF DockerTypes
        <4>5. pc[q] = "run" =>
                \A r \in Procs : r # q /\ pc'[r] = "run" => own'[r] # own'[q]
          BY <3>1, <4>1, <4>2, <4>4 DEF DockerAt, DockerOthers
        <4>6. pc[q] = "run" => own'[q] \in Nat /\ own'[q] <= made'
          BY <1>t, <3>1, <3>9, <3>11, <4>1 DEF DockerTypes
        <4> QED  BY <1>d, <2>1, <3>1, <3>2, <4>1, <4>2, <4>3, <4>4, <4>5, <4>6 DEF DockerAt
      <3> QED  BY <3>1, <3>5, <3>6, <3>8, <3>10, <3>11 DEF DockerInv
    <2> QED  BY <2>3, <2>4
  <1>6. ASSUME NEW p \in Procs, Docker!Run(p)
        PROVE  DockerInv'
    <2>1. /\ pc[p] = "run" /\ UNCHANGED <<up, made, op, host, name, daemon, own>>
          /\ pc'[p] \in {"done", "failed"} /\ DockerTypes' /\ DockerOthers(p)
      BY <1>t, <1>6 DEF Docker!Run, DockerTypes, DockerOthers
    <2>2. /\ DockerAt(p) /\ op[p] = "start" /\ daemon[p] = Docker!ConnectToDocker(host[p])
          /\ own[p] \in Nat /\ own[p] <= made /\ \A note \in notes : note.id # own[p]
      BY <2>1 DEF DockerInv, DockerAt
    <2>3. PICK c \in containers :
            /\ c.id = own[p]
            /\ \/ /\ containers' = (containers \ {c}) \cup {[c EXCEPT !.started = TRUE]}
                  /\ notes' = notes \cup {Docker!Instructions(p)}
               \/ containers' = containers \ {c} /\ notes' = notes
      BY <1>6 DEF Docker!Run
    <2> DEFINE new == [c EXCEPT !.started = TRUE]
               note == Docker!Instructions(p)
    <2>4. ContainerType(c)
      BY DEF DockerInv
    <2>5. /\ new.id = c.id /\ new.daemon = c.daemon /\ new.name = c.name /\ new.started
          /\ ContainerType(new)
      BY <2>4 DEF ContainerType
    <2>6. c.daemon = daemon[p] /\ c.name = name[p]
      BY <2>1, <2>2, <2>3 DEF DockerAt
    <2>7. note.id = own[p] /\ note.host = host[p] /\ note.name = name[p]
      BY DEF Docker!Instructions
    <2>8. \A x \in containers : x.id = own[p] => x = c
      BY <2>3 DEF DockerInv
    <2> HIDE DEF new, note
    <2>9. \A x \in containers' : (x \in containers /\ x # c) \/ x = new
      BY <2>3 DEF new
    <2>10. \A x \in containers' : ContainerType(x)'
      BY <2>1, <2>5, <2>9 DEF DockerInv, ContainerType
    <2>11. \A x, y \in containers' : x.id = y.id => x = y
      BY <2>3, <2>5, <2>8, <2>9 DEF DockerInv
    <2>12. \A x \in containers' : x.id # own[p] => x \in containers
      BY <2>3, <2>5, <2>9
    <2>13. ASSUME NEW n \in notes'
           PROVE  NoteAt(n)'
      <3>1. CASE n \in notes
        <4>1. NoteAt(n) /\ n.id # own[p]
          BY <2>2, <3>1 DEF DockerInv
        <4> QED  BY <1>d, <2>1, <2>12, <4>1 DEF NoteAt
      <3>2. CASE n = note
        <4>1. \A x \in containers' : x.id = own[p] => x = new
          BY <2>8, <2>9
        <4> QED  BY <1>d, <2>1, <2>2, <2>3, <2>5, <2>6, <2>7, <3>2, <4>1 DEF NoteAt
      <3> QED  BY <2>3, <3>1, <3>2 DEF note
    <2>14. DockerAt(p)'
      BY <2>1, <2>2 DEF DockerAt
    <2>15. ASSUME NEW q \in Procs, q # p
           PROVE  DockerAt(q)'
      <3>1. /\ pc'[q] = pc[q] /\ op'[q] = op[q] /\ host'[q] = host[q] /\ name'[q] = name[q]
            /\ daemon'[q] = daemon[q] /\ own'[q] = own[q]
        BY <2>1, <2>15 DEF DockerOthers
      <3>2. DockerAt(q)
        BY DEF DockerInv
      <3>3. pc[q] = "run" => own[q] # own[p]
        BY <2>1, <2>2, <2>15 DEF DockerAt
      <3>4. \A n \in notes' : n \in notes \/ n.id = own[p]
        BY <2>3, <2>7 DEF note
      <3>5. \A x \in containers' : \E y \in containers : y.id = x.id
        BY <2>3, <2>5, <2>9
      <3>6. \A r \in Procs : pc'[r] = "run" => pc[r] = "run" /\ own'[r] = own[r]
        BY <2>1 DEF DockerOthers
      <3>7. notes \subseteq notes'
        BY <2>3
      <3>8. op[q] = "stop" => \E n \in notes' :
              n.host = host[q] /\ n.name = name[q] /\ n.id = own[q]
        BY <3>2, <3>7 DEF DockerAt
      <3>9. pc[q] = "done" /\ op[q] = "stop" => \A x \in containers' : x.id # own[q]
        BY <3>2, <3>5 DEF DockerAt
      <3>10. pc[q] = "run" =>
               /\ \A n \in notes' : n.id # own[q]
               /\ \A x \in containers' : x.id = own[q] => x.daemon = daemon[q] /\ x.name = name[q]
        BY <2>12, <3>2, <3>3, <3>4 DEF DockerAt
      <3>11. pc[q] = "run" => \A r \in Procs : r # q /\ pc'[r] = "run" => own'[r] # own'[q]
        BY <3>1, <3>2, <3>6 DEF DockerAt
      <3> QED  BY <1>d, <2>1, <3>1, <3>2, <3>8, <3>9, <3>10, <3>11 DEF DockerAt
    <2> QED  BY <2>1, <2>10, <2>11, <2>13, <2>14, <2>15 DEF DockerInv
  <1>7. ASSUME NEW p \in Procs, Docker!Stop(p)
        PROVE  DockerInv'
    <2> DEFINE found == {c \in Docker!Named(daemon[p], name[p]) : c.started}
    <2>1. /\ pc[p] = "stop" /\ UNCHANGED <<up, made, op, host, name, daemon, own, notes>>
          /\ pc'[p] \in {"done", "failed"} /\ DockerTypes' /\ DockerOthers(p)
          /\ containers' = containers \ found
      BY <1>t, <1>7 DEF Docker!Stop, DockerTypes, DockerOthers
    <2>2. DockerAt(p) /\ op[p] = "stop" /\ daemon[p] = Docker!ConnectToDocker(host[p])
      BY <2>1 DEF DockerInv, DockerAt
    <2>3. PICK note \in notes : note.host = host[p] /\ note.name = name[p] /\ note.id = own[p]
      BY <2>2 DEF DockerAt
    <2>4. \A c \in containers : c.id = own[p] => c \in found
      BY <2>2, <2>3 DEF DockerInv, NoteAt, Docker!Named
    <2>5. containers' \subseteq containers /\ \A c \in containers' : c.id # own[p]
      BY <2>1, <2>4
    <2>6. \A c \in containers' : ContainerType(c)'
      BY <2>1, <2>5 DEF DockerInv, ContainerType
    <2>7. \A n \in notes' : NoteAt(n)'
      BY <1>d, <2>1, <2>5 DEF DockerInv, NoteAt
    <2>8. DockerAt(p)'
      BY <2>1, <2>2, <2>3, <2>5 DEF DockerAt
    <2>9. ASSUME NEW q \in Procs, q # p
          PROVE  DockerAt(q)'
      <3>1. /\ pc'[q] = pc[q] /\ op'[q] = op[q] /\ host'[q] = host[q] /\ name'[q] = name[q]
            /\ daemon'[q] = daemon[q] /\ own'[q] = own[q]
        BY <2>1, <2>9 DEF DockerOthers
      <3>2. DockerAt(q)
        BY DEF DockerInv
      <3>3. \A r \in Procs : pc'[r] = "run" => pc[r] = "run" /\ own'[r] = own[r]
        BY <2>1 DEF DockerOthers
      <3> QED  BY <1>d, <2>1, <2>5, <3>1, <3>2, <3>3 DEF DockerAt
    <2> QED  BY <2>1, <2>5, <2>6, <2>7, <2>8, <2>9 DEF DockerInv
  <1>9. CASE UNCHANGED Docker!vars
    BY <1>9, <1>d DEF Docker!vars, DockerInv, DockerTypes, ContainerType, NoteAt, DockerAt
  <1> QED  BY <1>1, <1>2, <1>3, <1>4, <1>5, <1>6, <1>7, <1>9 DEF Docker!Next

\* StopsWhatItSays: however many users start and stop containers, on whichever daemons, a
\* `stop` that follows the instructions of a `start` and succeeds has stopped the container
\* they were printed for.
THEOREM StopsWhatItSays == Spec => []InstructionsStop
  <1> DEFINE Inv == service = "docker" => DockerInv
  <1>1. ServicesInit => Inv
    <2>1. Docker!Init => DockerInv
      BY DEF Docker!Init, DockerInv, DockerTypes, DockerAt
    <2> QED  BY <2>1, ServicesStart
  <1>2. Inv /\ [ServicesNext]_vars => Inv'
    BY ServicesStep, DockerStep
  <1>3. Inv => InstructionsStop
    BY DEF DockerInv, DockerAt, InstructionsStop, Docker!InstructionsStop, Docker!At
  <1> QED  BY <1>1, <1>2, <1>3, PTL DEF Spec

-----------------------------------------------------------------------------
(* Pages of events (Events).                                                *)

\* The inductive invariant of Events: the printed events are in order up to the cursor, the
\* cursor is an event, and a command that asks has what its ids meant.
PagingInv ==
    /\ events \in Seq(Paging!Emitted) /\ cursor \in Nat /\ cursor <= Len(events)
    /\ printed \in Seq(Nat)
    /\ \A i \in DOMAIN printed : printed[i] <= cursor
    /\ Paging!PagesInOrder
    /\ pc = "ask" =>
         /\ ids = asked
         /\ line.ids # {} => ids # {}
         /\ line.ids \subseteq Contracts => ids = line.ids
    /\ shown \subseteq DOMAIN events
    /\ Paging!OnlyAsked

\* A page of the server: places of events after the start that match, in order.
LEMMA PageOf ==
    ASSUME PagingInv, NEW page \in Paging!Pages(cursor, ids)
    PROVE  /\ page \in Seq(Nat)
           /\ \A i \in DOMAIN page :
                page[i] \in DOMAIN events /\ page[i] > cursor
                  /\ Paging!Matches(events[page[i]], ids)
           /\ \A i, j \in DOMAIN page : i < j => page[i] < page[j]
           /\ \A e \in DOMAIN events :
                e > cursor /\ Paging!Matches(events[e], ids) =>
                  (\E i \in DOMAIN page : page[i] = e) \/ (\A i \in DOMAIN page : page[i] < e)
  <1> DEFINE found == {i \in DOMAIN events : i > cursor /\ Paging!Matches(events[i], ids)}
  <1>1. /\ page \in UNION {[1 .. n -> found] : n \in 0 .. line.count}
        /\ \A i, j \in DOMAIN page : i < j => page[i] < page[j]
        /\ \A e \in found : e \in Paging!Range(page) \/
             (Len(page) = line.count /\ \A i \in DOMAIN page : page[i] < e)
    BY DEF Paging!Pages
  <1>2. PICK n \in 0 .. line.count : page \in [1 .. n -> found]
    BY <1>1
  <1>3. n \in Nat
  OBVIOUS
  <1>4. found \subseteq Nat
    BY DEF PagingInv
  <1>5. page \in Seq(Nat)
    BY <1>2, <1>3, <1>4, IsASeq
  <1>6. \A i \in DOMAIN page : page[i] \in found
    BY <1>2
  <1>7. \A e \in found :
           (\E i \in DOMAIN page : page[i] = e) \/ (\A i \in DOMAIN page : page[i] < e)
    BY <1>1 DEF Paging!Range
  <1> QED  BY <1>1, <1>5, <1>6, <1>7

\* A page is put behind the pages that end at a place before its first event.
LEMMA JoinedPages ==
    ASSUME NEW s \in Seq(Nat), NEW t \in Seq(Nat), NEW a \in Nat,
           \A i \in DOMAIN s : s[i] <= a,
           \A i \in DOMAIN t : t[i] > a,
           \A i, j \in DOMAIN s : i < j => s[i] < s[j],
           \A i, j \in DOMAIN t : i < j => t[i] < t[j]
    PROVE  /\ s \o t \in Seq(Nat)
           /\ \A i, j \in DOMAIN (s \o t) : i < j => (s \o t)[i] < (s \o t)[j]
           /\ \A k \in DOMAIN s : \E i \in DOMAIN (s \o t) : (s \o t)[i] = s[k]
           /\ \A k \in DOMAIN t : \E i \in DOMAIN (s \o t) : (s \o t)[i] = t[k]
           /\ \A i \in DOMAIN (s \o t) :
                (\E k \in DOMAIN s : (s \o t)[i] = s[k]) \/ (\E k \in DOMAIN t : (s \o t)[i] = t[k])
  <1>1. PICK u : u = s \o t
  OBVIOUS
  <1>2. PICK m \in Nat : m = Len(s) /\ DOMAIN s = 1 .. m
  OBVIOUS
  <1>3. PICK n \in Nat : n = Len(t) /\ DOMAIN t = 1 .. n
  OBVIOUS
  <1>4. u \in Seq(Nat) /\ DOMAIN u = 1 .. m + n
    BY <1>1, <1>2, <1>3
  <1>5. \A i \in 1 .. m : u[i] = s[i] /\ s[i] \in Nat
    BY <1>1, <1>2, <1>3
  <1>6. \A i \in 1 .. n : u[i + m] = t[i] /\ t[i] \in Nat
    BY <1>1, <1>2, <1>3
  <1>7. \A i \in 1 .. m + n : i \in 1 .. m \/ (i - m \in 1 .. n /\ u[i] = t[i - m])
    <2> SUFFICES ASSUME NEW i \in 1 .. m + n, i \notin 1 .. m
                 PROVE  i - m \in 1 .. n /\ u[i] = t[i - m]
      OBVIOUS
    <2>1. i - m \in 1 .. n /\ (i - m) + m = i
      OBVIOUS
    <2> QED  BY <1>6, <2>1
  <1>8. ASSUME NEW i \in 1 .. m + n, NEW j \in 1 .. m + n, i < j
        PROVE  u[i] < u[j]
    <2>1. CASE i \in 1 .. m /\ j \in 1 .. m
      BY <1>2, <1>5, <1>8, <2>1
    <2>2. CASE i \in 1 .. m /\ j \notin 1 .. m
      <3>1. j - m \in 1 .. n /\ u[j] = t[j - m]
        BY <1>7, <2>2
      <3>2. u[i] <= a /\ u[i] \in Nat
        BY <1>2, <1>5, <2>2
      <3>3. u[j] > a /\ u[j] \in Nat
        BY <1>3, <1>6, <3>1
      <3> QED  BY <3>2, <3>3
    <2>3. CASE i \notin 1 .. m
      <3>1. i - m \in 1 .. n /\ u[i] = t[i - m] /\ j - m \in 1 .. n /\ u[j] = t[j - m]
        BY <1>7, <1>8, <2>3
      <3>2. i - m < j - m
        BY <1>8
      <3> QED  BY <1>3, <3>1, <3>2
    <2> QED  BY <2>1, <2>2, <2>3
  <1>9. \A k \in 1 .. m : k \in 1 .. m + n
  OBVIOUS
  <1>10. \A k \in 1 .. n : k + m \in 1 .. m + n
  OBVIOUS
  <1> QED  BY <1>1, <1>2, <1>3, <1>4, <1>5, <1>6, <1>7, <1>8, <1>9, <1>10

LEMMA PagingStep ==
    ASSUME PagingInv, [Paging!Next]_(Paging!vars)
    PROVE  PagingInv'
  <1>1. CASE Paging!Run
    BY <1>1 DEF Paging!Run, PagingInv, Paging!PagesInOrder, Paging!OnlyAsked, Paging!Matches
  <1>2. CASE Paging!ResolveIds
    <2>1. /\ UNCHANGED <<events, line, cursor, printed, shown>> /\ pc' \in {"ask", "failed"}
          /\ ids' = asked' /\ ids' = {Paging!Resolve(i) : i \in line.ids}
      BY <1>2 DEF Paging!ResolveIds, Paging!Resolved
    <2>2. line.ids \subseteq Contracts => ids' = line.ids
      BY <2>1 DEF Paging!Resolve
    <2>3. line.ids # {} => ids' # {}
      BY <2>1
    <2> QED  BY <2>1, <2>2, <2>3 DEF PagingInv, Paging!PagesInOrder, Paging!OnlyAsked, Paging!Matches
  <1>3. CASE Paging!GetEvents
    <2>1. /\ UNCHANGED <<events, line, ids, asked>> /\ pc = "ask" /\ pc' = "printed"
      BY <1>3 DEF Paging!GetEvents
    <2>2. PICK page \in Paging!Pages(cursor, ids) :
            /\ printed' = printed \o page
            /\ shown' = Paging!Range(page)
            /\ cursor' = IF page = <<>> THEN cursor ELSE Paging!Last(page)
      BY <1>3 DEF Paging!GetEvents, Paging!Start
    <2>3. page \in Seq(Nat) /\ printed \in Seq(Nat) /\ printed' \in Seq(Nat)
      BY <2>2, PageOf DEF PagingInv
    <2>4. shown' \subseteq DOMAIN events /\ \A i \in shown' : Paging!Matches(events[i], ids)
      BY <2>2, PageOf DEF Paging!Range
    <2>5. Paging!OnlyAsked'
      BY <2>1, <2>4 DEF Paging!OnlyAsked, PagingInv, Paging!Matches
    <2>6. /\ cursor' \in Nat /\ cursor' >= cursor /\ cursor' <= Len(events)
          /\ \A i \in DOMAIN page : page[i] <= cursor'
          /\ cursor' > cursor => \E i \in DOMAIN page : page[i] = cursor'
      <3>1. CASE page = << >>
        BY <2>2, <3>1 DEF PagingInv
      <3>2. CASE page # << >>
        <4>1. Len(page) \in DOMAIN page /\ cursor' = page[Len(page)]
          BY <2>2, <2>3, <3>2 DEF Paging!Last
        <4>2. \A i \in DOMAIN page : i < Len(page) \/ i = Len(page)
          BY <2>3
        <4>3. \A i \in DOMAIN page : page[i] \in Nat
          BY <2>3
        <4>4. \A i \in DOMAIN page : page[i] < page[Len(page)] \/ i = Len(page)
          BY <4>1, <4>2, PageOf
        <4>5. page[Len(page)] \in DOMAIN events /\ page[Len(page)] > cursor
          BY <4>1, PageOf
        <4>6. cursor' \in Nat /\ cursor' > cursor /\ cursor' <= Len(events) /\ cursor \in Nat
          BY <4>1, <4>3, <4>5 DEF PagingInv
        <4>7. \A i \in DOMAIN page : page[i] <= cursor'
          BY <4>1, <4>3, <4>4
        <4> QED  BY <4>1, <4>6, <4>7
      <3> QED  BY <3>1, <3>2
    <2>7. /\ \A i, j \in DOMAIN printed' : i < j => printed'[i] < printed'[j]
          /\ \A k \in DOMAIN printed : \E i \in DOMAIN printed' : printed'[i] = printed[k]
          /\ \A k \in DOMAIN page : \E i \in DOMAIN printed' : printed'[i] = page[k]
          /\ \A i \in DOMAIN printed' : (\E k \in DOMAIN printed : printed'[i] = printed[k]) \/
                                       (\E k \in DOMAIN page : printed'[i] = page[k])
      <3>1. /\ \A i \in DOMAIN printed : printed[i] <= cursor
            /\ \A i, j \in DOMAIN printed : i < j => printed[i] < printed[j]
            /\ cursor \in Nat
        BY DEF PagingInv, Paging!PagesInOrder
      <3>2. /\ \A i \in DOMAIN page : page[i] > cursor
            /\ \A i, j \in DOMAIN page : i < j => page[i] < page[j]
        BY PageOf
      <3> DEFINE all == printed \o page
      <3>3. /\ \A i, j \in DOMAIN all : i < j => all[i] < all[j]
            /\ \A k \in DOMAIN printed : \E i \in DOMAIN all : all[i] = printed[k]
            /\ \A k \in DOMAIN page : \E i \in DOMAIN all : all[i] = page[k]
            /\ \A i \in DOMAIN all : (\E k \in DOMAIN printed : all[i] = printed[k]) \/
                                    (\E k \in DOMAIN page : all[i] = page[k])
        BY <2>3, <3>1, <3>2, JoinedPages
      <3>4. printed' = all
        BY <2>2
      <3> HIDE DEF all
      <3> QED  BY <3>3, <3>4
    <2>8. \A i \in DOMAIN printed' : printed'[i] <= cursor'
      <3>1. \A k \in DOMAIN printed : printed[k] \in Nat /\ printed[k] <= cursor
        BY <2>3 DEF PagingInv
      <3>2. \A k \in DOMAIN printed : printed[k] <= cursor'
        BY <2>6, <3>1 DEF PagingInv
      <3> QED  BY <2>6, <2>7, <3>2
    <2>10. ASSUME line.ids \subseteq Contracts, NEW i \in 1 .. cursor',
                  Paging!Matches(events[i], line.ids)
           PROVE  \E k \in DOMAIN printed' : printed'[k] = i
      <3>1. CASE i <= cursor
        <4>1. i \in 1 .. cursor
          BY <2>6, <3>1 DEF PagingInv
        <4>2. PICK k \in DOMAIN printed : printed[k] = i
          BY <2>10, <4>1 DEF PagingInv, Paging!PagesInOrder, Paging!Range
        <4> QED  BY <2>7, <4>2
      <3>2. CASE i > cursor
        <4>1. i \in DOMAIN events /\ Paging!Matches(events[i], ids)
          BY <2>1, <2>6, <2>10 DEF PagingInv
        <4>2. PICK j \in DOMAIN page : page[j] = cursor'
          BY <2>6, <3>2 DEF PagingInv
        <4>3. ~ (page[j] < i)
          BY <2>6, <4>2
        <4>4. PICK k \in DOMAIN page : page[k] = i
          BY <3>2, <4>1, <4>3, PageOf
        <4> QED  BY <2>7, <4>4
      <3> QED  BY <2>6, <3>1, <3>2 DEF PagingInv
    <2>11. Paging!PagesInOrder'
      BY <2>1, <2>7, <2>10 DEF Paging!PagesInOrder, Paging!Range, Paging!Matches
    <2> QED  BY <2>1, <2>3, <2>4, <2>5, <2>6, <2>8, <2>11 DEF PagingInv
  <1>4. CASE Paging!Emit
    <2>1. PICK e \in Paging!Emitted : events' = Append(events, e)
      BY <1>4 DEF Paging!Emit
    <2>2. /\ events' \in Seq(Paging!Emitted) /\ Len(events') = Len(events) + 1
          /\ \A i \in DOMAIN events : i \in DOMAIN events' /\ events'[i] = events[i]
      BY <2>1 DEF PagingInv
    <2>3. UNCHANGED <<line, cursor, pc, ids, asked, printed, shown>>
      BY <1>4 DEF Paging!Emit
    <2>4. 1 .. cursor \subseteq DOMAIN events
      BY DEF PagingInv
    <2>5. Paging!PagesInOrder'
      BY <2>2, <2>3, <2>4 DEF PagingInv, Paging!PagesInOrder, Paging!Matches
    <2>6. Paging!OnlyAsked' /\ shown' \subseteq DOMAIN events'
      BY <2>2, <2>3 DEF PagingInv, Paging!OnlyAsked
    <2> QED  BY <2>2, <2>3, <2>5, <2>6 DEF PagingInv
  <1>5. CASE Paging!SetAlias \/ UNCHANGED Paging!vars
    BY <1>5 DEF Paging!SetAlias, Paging!vars, PagingInv, Paging!PagesInOrder, Paging!OnlyAsked,
                Paging!Matches
  <1> QED  BY <1>1, <1>2, <1>3, <1>4, <1>5 DEF Paging!Next

\* The inductive invariant of Events holds in every behaviour of that service.
LEMMA PagingCorrect == Spec => [](service = "events" => PagingInv)
  <1> DEFINE Inv == service = "events" => PagingInv
  <1>1. ServicesInit => Inv
    <2>1. Paging!Init => PagingInv
      BY DEF Paging!Init, PagingInv, Paging!PagesInOrder, Paging!OnlyAsked
    <2> QED  BY <2>1, ServicesStart
  <1>2. Inv /\ [ServicesNext]_vars => Inv'
    BY ServicesStep, PagingStep
  <1> QED  BY <1>1, <1>2, PTL DEF Spec

\* PagesEveryEvent: for any events, filters, counts and number of commands, the pages are in
\* the order of history, without a repetition and without a gap.
THEOREM PagesEveryEvent == Spec => []PagesInOrder
  <1>1. (service = "events" => PagingInv) => PagesInOrder
    BY DEF PagingInv, PagesInOrder
  <1> QED  BY <1>1, PagingCorrect, PTL

\* PagesOnlyAsked: the pages hold only events of the contracts that the ids meant when the
\* command resolved them, whatever becomes of the aliases afterwards.
THEOREM PagesOnlyAsked == Spec => []OnlyAsked
  <1>1. (service = "events" => PagingInv) => OnlyAsked
    BY DEF PagingInv, OnlyAsked
  <1> QED  BY <1>1, PagingCorrect, PTL

-----------------------------------------------------------------------------
(* The ids of a history (Toid).                                             *)

\* Within its field a number is left alone by the mask.
LEMMA Masked == \A n, size \in Nat : n < size => n % size = n
  OBVIOUS

LEMMA Product == \A a, b, c \in Nat : (a + 1) * b + c = a * b + b + c /\ a * b \in Nat
  OBVIOUS

\* The largest place within a ledger is below the first of the next one.
LEMMA Below ==
    ASSUME NEW t \in 0 .. Txs - 1, NEW o \in 0 .. Ops - 1
    PROVE  t * Ops + o < Txs * Ops
  <1>1. t + 1 <= Txs /\ t \in Nat /\ Txs \in Nat /\ Ops \in Nat /\ o < Ops
    BY FieldsAssumption
  <1>2. PICK d \in Nat : Txs = (t + 1) + d
    <2>1. Txs - (t + 1) \in Nat
      BY <1>1
    <2> QED
      BY <2>1, <1>1
  <1>3. Txs * Ops = (t + 1) * Ops + d * Ops
    BY <1>1, <1>2
  <1>4. d * Ops \in Nat /\ (t + 1) * Ops = t * Ops + Ops
    BY <1>1, <1>2
  <1> QED
    BY <1>1, <1>3, <1>4

\* What an id is when every field is within its bits.
LEMMA Unmasked ==
    ASSUME NEW t \in Toids
    PROVE  ToU64(t) = t.ledger * (Txs * Ops) + t.tx * Ops + t.op
  <1>1. /\ t.ledger \in Nat /\ t.ledger < Ledgers
        /\ t.tx \in Nat /\ t.tx < Txs
        /\ t.op \in Nat /\ t.op < Ops
    BY FieldsAssumption DEF Toids
  <1>2. t.ledger % Ledgers = t.ledger /\ t.tx % Txs = t.tx /\ t.op % Ops = t.op
    BY <1>1, FieldsAssumption, Masked
  <1> QED
    BY <1>2 DEF ToU64

\* Every step of a behaviour is a step of history, or leaves it alone.
LEMMA HistoryStep == ASSUME [ServicesNext]_vars PROVE [Next]_at
  BY DEF ServicesNext, vars

Fits == at \in Toids

\* Every place history reaches fits its fields.
LEMMA HistoryFits == Spec => []Fits
  <1>1. ServicesInit => Fits
    <2>1. NoHistory => Fits
      BY FieldsAssumption DEF NoHistory, Fits, Toids
    <2> QED
      BY <2>1 DEF ServicesInit, Init, Fits
  <1>2. ASSUME Fits, [ServicesNext]_vars
        PROVE  Fits'
    <2>1. at \in Toids /\ [Next]_at
      BY <1>2, HistoryStep DEF Fits
    <2>2. CASE NextOp
      BY <2>1, <2>2, FieldsAssumption DEF NextOp, Fits, Toids
    <2>3. CASE NextTx
      BY <2>1, <2>3, FieldsAssumption DEF NextTx, Fits, Toids
    <2>4. CASE NextLedger
      BY <2>1, <2>4, FieldsAssumption DEF NextLedger, Fits, Toids
    <2>5. CASE UNCHANGED at
      BY <2>1, <2>5 DEF Fits
    <2> QED
      BY <2>1, <2>2, <2>3, <2>4, <2>5 DEF Next
  <1> QED
    BY <1>1, <1>2, PTL DEF Spec

\* The ids grow with history, whatever the widths.
THEOREM IdsAlwaysGrow == Spec => IdsGrow
  <1>1. ASSUME Fits, Fits', [ServicesNext]_vars
        PROVE  [ToU64(at') > ToU64(at)]_at
    <2>1. ToU64(at) = at.ledger * (Txs * Ops) + at.tx * Ops + at.op
      BY <1>1, Unmasked DEF Fits
    <2>2. ToU64(at') = at'.ledger * (Txs * Ops) + at'.tx * Ops + at'.op
      BY <1>1, Unmasked DEF Fits
    <2>3. /\ at.ledger \in Nat /\ at.tx \in 0 .. Txs - 1 /\ at.op \in 0 .. Ops - 1
          /\ at.tx \in Nat /\ at.op \in Nat /\ Txs \in Nat /\ Ops \in Nat
      BY <1>1, FieldsAssumption DEF Fits, Toids
    <2>4. Txs * Ops \in Nat /\ at.tx * Ops \in Nat /\ at.ledger * (Txs * Ops) \in Nat
      BY <2>3, Product
    <2>5. CASE NextOp
      <3>1. at'.ledger = at.ledger /\ at'.tx = at.tx /\ at'.op = at.op + 1
        BY <1>1, <2>5 DEF NextOp, Fits, Toids
      <3> QED
        BY <2>1, <2>2, <2>3, <2>4, <3>1
    <2>6. CASE NextTx
      <3>1. at'.ledger = at.ledger /\ at'.tx = at.tx + 1 /\ at'.op = 0
        BY <1>1, <2>6 DEF NextTx, Fits, Toids
      <3>2. (at.tx + 1) * Ops = at.tx * Ops + Ops
        BY <2>3, Product
      <3> QED
        BY <2>1, <2>2, <2>3, <2>4, <3>1, <3>2
    <2>7. CASE NextLedger
      <3>1. at'.ledger = at.ledger + 1 /\ at'.tx = 0 /\ at'.op = 0
        BY <2>7 DEF NextLedger
      <3>2. (at.ledger + 1) * (Txs * Ops) = at.ledger * (Txs * Ops) + Txs * Ops
        BY <2>3, <2>4, Product
      <3>3. at.tx * Ops + at.op < Txs * Ops
        BY <2>3, Below
      <3>4. 0 * Ops = 0
        BY <2>3
      <3>5. ToU64(at') = at.ledger * (Txs * Ops) + Txs * Ops
        BY <2>2, <2>4, <3>1, <3>2, <3>4
      <3> QED
        BY <2>1, <2>3, <2>4, <3>3, <3>5
    <2> QED
      BY <1>1, <2>5, <2>6, <2>7, HistoryStep DEF Next
  <1> QED
    BY <1>1, HistoryFits, PTL DEF Spec, IdsGrow

\* The conversion back masks before it shifts.  With the widths of the code,
\* where the mask of the ledger covers the other two fields and no more, no
\* id gives its ledger back.
THEOREM LedgerIsLost ==
    ASSUME NEW n \in Nat, Ledgers = Txs * Ops
    PROVE  FromU64(n).ledger = 0
  <1>1. n % Ledgers \in Nat /\ n % Ledgers < Ledgers
    BY FieldsAssumption
  <1>2. \A m, d \in Nat : m < d => m \div d = 0
  OBVIOUS
  <1>3. (n % Ledgers) \div Ledgers = 0
    BY <1>1, <1>2, FieldsAssumption
  <1> QED
    BY <1>3 DEF FromU64

=============================================================================
