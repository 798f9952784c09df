---------------------------- MODULE MCTxEnvelope ----------------------------
(* Instances of TxEnvelope for TLC. *)
EXTENDS TxEnvelope

CONSTANTS a, b, v, c0

Arg(kind, to, id, set) == [kind |-> kind, to |-> to, id |-> id, set |-> set, clear |-> {}]

\* A payment to a muxed account, and an operation with a flag.
McArgs ==
    {Arg("payment", b, TRUE, {}), Arg("set-trustline-flags", b, FALSE, {"clawback"})}

Entry(root, who) == [root |-> root, who |-> who, by |-> None, expires |-> 0]

Answer(fee, instructions, results) ==
    [error |-> FALSE, fee |-> fee, results |-> results,
     data |-> IF instructions = None THEN None
              ELSE [instructions |-> instructions, rw |-> TRUE]]

Calls == <<Entry("contractFn", None), Entry("createFn", b)>>

\* Answers at the limits of the fee, with the entries of a call, and the failures.
McSims == {Answer(0, 2, <<Calls>>),
           Answer(U32 - 1 - DefaultFee, U32 - 1, <<<<Entry("contractFn", a)>>>>),
           Answer(U32 - DefaultFee, 2, << << >> >>),
           Answer(1, None, << << >> >>),
           Answer(1, 2, <<<<Entry("createFn", b)>>>>),
           Answer(1, 2, << >>),
           Answer(1, 2, <<<<Entry("contractFn", None), Entry("createFn", c0)>>>>),
           [Answer(1, 2, << >>) EXCEPT !.error = TRUE]}

=============================================================================
