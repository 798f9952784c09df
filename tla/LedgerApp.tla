------------------------------ MODULE LedgerApp ------------------------------
(* The signer of the stellar-ledger crate and the device it talks to: each    *)
(* command is one exchange, a transaction is sent in chunks that the device   *)
(* puts together, and the device, its user or the connection may fail in any  *)
(* exchange, after which the caller may try again.                            *)
EXTENDS Naturals, SequencesExt

CONSTANTS
  Indexes,     \* indexes of accounts, a u32
  Hardened,    \* 2^31: an index of a path is below
  Payloads,    \* the signature payloads, as sequences of bytes
  ChunkSize,   \* CHUNK_SIZE
  PathLen,     \* bytes of a path
  MaxTries     \* bound: operations

ChunkAssumption ==
  /\ ChunkSize \in Nat \ {0} /\ PathLen \in Nat
  /\ Payloads \subseteq Seq(Nat) /\ Indexes \subseteq Nat

None == <<>>
Count == 3                              \* HD_PATH_ELEMENTS_COUNT
ByteOf(i) == 1000 + i

(* HdPath: m/44'/148'/index', as bytes.  An index that is not one of a path   *)
(* does not parse, and the result is unwrapped.                               *)
PathParses(i) == i < Hardened
ToVec(i) == [k \in 1 .. PathLen |-> ByteOf(i)]

Data(i, payload) == <<Count>> \o ToVec(i) \o payload

(* chunks: the number of chunks, and the k-th of them from 0.                 *)
ChunksCount(data) == (Len(data) + ChunkSize - 1) \div ChunkSize
Chunk(data, k) ==
  SubSeq(data, k * ChunkSize + 1,
         IF (k + 1) * ChunkSize < Len(data) THEN (k + 1) * ChunkSize ELSE Len(data))

VARIABLES
  buffer,      \* what the device has of a transaction
  pc, ins, index, payload,
  chunk,       \* the next chunk
  result,      \* the data of the answers: what was signed, or the key
  tries

vars == <<buffer, pc, ins, index, payload, chunk, result, tries>>

Init ==
  /\ buffer = None /\ pc = "idle" /\ ins = "none" /\ index = 0
  /\ payload = None /\ chunk = 0 /\ result = None /\ tries = 0

(* sign_transaction, sign_transaction_hash and get_public_key build the data; *)
(* get_app_configuration has none.                                            *)
Ask ==
  /\ pc \in {"idle", "done", "failed"} /\ tries < MaxTries
  /\ tries' = tries + 1
  /\ ins' \in {"SIGN_TX", "SIGN_TX_HASH", "GET_PUBLIC_KEY", "GET_APP_CONFIGURATION"}
  /\ index' \in Indexes /\ payload' \in Payloads
  /\ pc' = IF ins' # "GET_APP_CONFIGURATION" /\ ~ PathParses(index') THEN "panic" ELSE "send"
  /\ chunk' = 0 /\ result' = None
  /\ UNCHANGED buffer

IsFirst == chunk = 0
IsLast == chunk + 1 = ChunksCount(Data(index, payload))

(* The device: a first chunk replaces what it had, and the last is shown to   *)
(* the user, who approves or not.                                             *)
Received(first, bytes) == IF first THEN bytes ELSE buffer \o bytes

(* The flags of a transaction's chunks that are all alike.                    *)
P1Not == FALSE

(* p1: whether the chunk is announced as the first.                           *)
P1 == IsFirst

SendChunk ==
  /\ pc = "send" /\ ins = "SIGN_TX" /\ ~ IsLast
  /\ buffer' = Received(P1, Chunk(Data(index, payload), chunk))
  /\ chunk' = chunk + 1
  /\ UNCHANGED <<pc, ins, index, payload, result, tries>>

SendLast ==
  /\ pc = "send" /\ ins = "SIGN_TX" /\ IsLast
  /\ result' = Received(P1, Chunk(Data(index, payload), chunk))
  /\ buffer' = None
  /\ pc' = "done"
  /\ UNCHANGED <<ins, index, payload, chunk, tries>>

(* The commands of one exchange.                                              *)
SendCommand ==
  /\ pc = "send" /\ ins # "SIGN_TX"
  /\ result' = CASE ins = "SIGN_TX_HASH" -> Data(index, payload)
                 [] ins = "GET_PUBLIC_KEY" -> <<Count>> \o ToVec(index)
                 [] ins = "GET_APP_CONFIGURATION" -> None
  /\ pc' = "done"
  /\ UNCHANGED <<buffer, ins, index, payload, chunk, tries>>

(* A return code other than OK (the user refuses, the app is not open, hash   *)
(* signing is not enabled), or no answer: the device may have the chunk.      *)
Fails ==
  /\ pc = "send"
  /\ pc' = "failed"
  /\ \/ UNCHANGED buffer
     \/ buffer' = Received(P1, Chunk(Data(index, payload), chunk)) /\ ins = "SIGN_TX"
  /\ UNCHANGED <<ins, index, payload, chunk, result, tries>>

Next == Ask \/ SendChunk \/ SendLast \/ SendCommand \/ Fails

LedgerSpec == Init /\ [][Next]_vars

-----------------------------------------------------------------------------
(* What the device signs is the path and the payload of this call, all of it  *)
(* and once, whatever the length is against the chunk and whatever an earlier *)
(* call that failed half-way has left on the device.                          *)
SignsTheCall == pc = "done" /\ ins = "SIGN_TX" => result = Data(index, payload)

=============================================================================
