--------------------------- MODULE MCWorkstation ---------------------------
(***************************************************************************)
(* The parts of a workstation for TLC.                                      *)
(***************************************************************************)
EXTENDS Workstation, TLC

Symmetry == Permutations(Procs)

\* The built-in networks are told apart from the added ones, not from each other.
McDefault(n) == "built-in"

\* No variables; one of each family for the network, and the same for the account.
McShells ==
    LET Named(n, i) == [network |-> n, identity |-> i]
        No == Named("none", "none")
    IN  {[soroban |-> No, stellar |-> No],
         [soroban |-> Named("mine", "none"), stellar |-> Named("testnet", "alice")],
         [soroban |-> Named("none", "bob"), stellar |-> Named("none", "alice")]}

\* Command lines: each default; every way to name a network and an account; the networks and
\* friendbot of one name.
Command(o, given, n, i) ==
    [op |-> o, name |-> given, global |-> FALSE, network |-> n, identity |-> i,
     rpc |-> FALSE, pass |-> FALSE]
Partial(l) == {[l EXCEPT !.rpc = TRUE], [l EXCEPT !.pass = TRUE], [l EXCEPT !.rpc = TRUE, !.pass = TRUE]}
McDefaultLines ==
    {Command("use", n, "none", "none") : n \in {"testnet", "mine"}}
        \cup {Command("useIdentity", i, "none", "none") : i \in {"alice", "bob"}}
McChoiceLines ==
    {Command("use", "mine", "none", "none"), Command("useIdentity", "bob", "none", "none"),
     Command("env", "mine", "none", "none"), Command("run", "mine", "none", "none"),
     Command("run", "mine", "testnet", "none"), Command("run", "mine", "none", "alice")}
        \cup Partial(Command("run", "mine", "testnet", "alice"))
McFundLines ==
    {[Command(o, "testnet", "none", "none") EXCEPT !.global = g] :
        o \in {"add", "rm", "ls"}, g \in BOOLEAN}
    \cup {Command("use", "testnet", "none", "none")}
    \cup UNION {{Command(o, "alice", n, "none")} \cup Partial(Command(o, "alice", n, "none")) :
                    o \in {"fund", "generate"}, n \in {"none", "testnet"}}

\* Two contracts and a library in one workspace; all of it, and each of them.
McWorkspace == <<[name |-> "add", default |-> TRUE, cdylib |-> TRUE],
                 [name |-> "lib", default |-> TRUE, cdylib |-> FALSE],
                 [name |-> "call", default |-> TRUE, cdylib |-> TRUE]>>
McBuildLines ==
    {l \in [package : {"none", "call", "no such package"}, manifest : {"none", "add"},
            meta : {<< >>, <<"b", "a">>}, out : BOOLEAN, print : BOOLEAN] :
        /\ l.package # "none" => l.manifest = "none"
        /\ (l.print \/ l.manifest # "none" \/ l.package = "no such package") =>
              ~l.out /\ l.meta = << >>
        /\ l.package = "none" => l.out = (l.meta # << >>)}

\* One part alone, for what is expected to fail.
BuildsOnly == (Init /\ part = "build") /\ [][Next]_vars
=============================================================================
