-------------------------------- MODULE Toid ---------------------------------
(* Total Order Ids: the place of an operation in the history of the network,  *)
(* packed in one number so that the order of the numbers is the order of the  *)
(* history.                                                                   *)
EXTENDS Integers

CONSTANTS
  Ledgers,   \* LEDGER_MASK + 1
  Txs,       \* TRANSACTION_MASK + 1
  Ops        \* OPERATION_MASK + 1; a shift by a field's bits is a product

ASSUME FieldsAssumption ==
  /\ Ledgers \in Nat \ {0}
  /\ Txs \in Nat \ {0}
  /\ Ops \in Nat \ {0}

Toids == [ledger : 0 .. Ledgers - 1, tx : 0 .. Txs - 1, op : 0 .. Ops - 1]

(* The fields with the transaction left unshifted.                            *)
ToU64Unshifted(t) == (t.ledger % Ledgers) * (Txs * Ops) + (t.tx % Txs) + (t.op % Ops)

(* From<Toid> for u64.                                                        *)
ToU64(t) == (t.ledger % Ledgers) * (Txs * Ops) + (t.tx % Txs) * Ops + (t.op % Ops)

(* From<u64> for Toid: masked, then shifted.                                  *)
FromU64(n) ==
  [ledger |-> (n % Ledgers) \div (Txs * Ops), tx |-> (n % Txs) \div Ops, op |-> n % Ops]

VARIABLE at     \* where history is

Init == at \in Toids /\ at.tx = 0 /\ at.op = 0

(* The next operation, or the first of a later transaction or ledger.         *)
NextOp == at.op + 1 < Ops /\ at' = [at EXCEPT !.op = at.op + 1]
NextTx == at.tx + 1 < Txs /\ at' = [ledger |-> at.ledger, tx |-> at.tx + 1, op |-> 0]
NextLedger == at.ledger + 1 < Ledgers /\ at' = [ledger |-> at.ledger + 1, tx |-> 0, op |-> 0]

Next == NextOp \/ NextTx \/ NextLedger

HistorySpec == Init /\ [][Next]_at

(* The ids of later operations are larger: a client that pages by id skips    *)
(* nothing and reads nothing twice.                                           *)
IdsGrow == [][ToU64(at') > ToU64(at)]_at

=============================================================================
