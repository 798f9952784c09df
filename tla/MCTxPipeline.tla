---------------------------- MODULE MCTxPipeline ----------------------------
(* Small instances of TxPipeline for TLC. *)
EXTENDS TxPipeline

CONSTANTS w, s1, s2

Line(op) ==
    [op |-> op, only |-> "no", wasm |-> w, upload |-> TRUE, salt |-> s1, alias |-> TRUE,
     send |-> "default", view |-> FALSE, extend |-> FALSE]

\* Two deployments with different salts, and an upload.
Deployments ==
    {Line("upload"), Line("deploy"),
     [Line("deploy") EXCEPT !.salt = s2, !.upload = FALSE, !.alias = FALSE]}

\* Every command, with every combination of its own flags.
Flags(op) ==
    {[c EXCEPT !.only = o] : o \in {"no", "build", "sim"},
        c \in CASE op = "deploy"  -> {[Line(op) EXCEPT !.upload = u] : u \in BOOLEAN}
                [] op = "invoke"  -> {[Line(op) EXCEPT !.send = d, !.view = v] :
                                         d \in {"default", "no", "yes"}, v \in BOOLEAN}
                [] op = "restore" -> {[Line(op) EXCEPT !.extend = e] : e \in BOOLEAN}
                [] OTHER          -> {Line(op)}}
AllCommands == UNION {Flags(op) : op \in {"upload", "deploy", "invoke", "extend", "restore"}}
Footprints == Flags("extend") \cup Flags("restore")
=============================================================================
