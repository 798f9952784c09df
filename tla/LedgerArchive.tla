---------------------------- MODULE LedgerArchive ----------------------------
(***************************************************************************)
(* The data that `snapshot create` works on (commands/snapshot/create.rs): *)
(* the ledger entries in the buckets of a history archive, and which of    *)
(* them a search finds.                                                    *)
(***************************************************************************)
EXTENDS Naturals, Sequences

CONSTANTS
    Procs,          \* the processes that run the command
    Accounts, Contracts, Wasms,
    Buckets,        \* the buckets of the archive, named by their hashes
    Content,        \* the entries of each bucket, in their order
    Histories,      \* the checkpoints of the archive
    Levels,         \* the buckets of each checkpoint, the newest level first
    Requests,       \* the command lines
    None            \* no value, no executable, no request, no snapshot

\* A ledger key: an account, its trustline, a contract's instance or its other data,
\* a contract's code, or an entry of a kind that no search looks for.
Keys == ({"account", "trustline", "other"} \X Accounts)
            \cup ({"instance", "data"} \X Contracts) \cup ({"code"} \X Wasms)

\* The value of an entry; an instance names its wasm, or the issuer of its asset.
Vals == [version : Nat, exec : Wasms \cup Accounts \cup {None}]

\* A live entry, or a tombstone (None).
Entries == [key : Keys, val : Vals \cup {None}]

\* What is searched for: SearchInputs.  A contract id is an ScAddress, and an
\* ScAddress may be that of an account.
Terms == [accounts : SUBSET Accounts, contracts : SUBSET (Contracts \cup Accounts),
          wasms : SUBSET Wasms]
NoTerms == [accounts |-> {}, contracts |-> {}, wasms |-> {}]

\* An address as the user types it: a G, M or C address, the name of a key, the
\* alias of a contract, or none of these.
Address == ({"G", "M", "key"} \X Accounts) \cup ({"C", "alias"} \X Contracts) \cup {None}

ASSUME ContentAssumption ==
    /\ Content \in [Buckets -> Seq(Entries)]
    /\ \A b \in Buckets : \A i, j \in DOMAIN Content[b] :
           Content[b][i].key = Content[b][j].key => i = j
ASSUME LevelsAssumption == Levels \in [Histories -> Seq(Buckets)]
ASSUME RequestsAssumption ==
    Requests \subseteq [history : Histories, addresses : SUBSET Address, wasms : SUBSET Wasms]
ASSUME NamesDisjoint ==
    /\ Wasms \cap Accounts = {}
    /\ Contracts \cap Accounts = {}
    /\ None \notin Vals \cup Wasms \cup Accounts \cup Contracts \cup Requests

---------------------------------------------------------------------------
\* Which keys a search finds.
Keep(t, k) ==
    \/ k[1] \in {"account", "trustline"} /\ k[2] \in t.accounts
    \/ k[1] \in {"instance", "data"} /\ k[2] \in t.contracts
    \/ k[1] = "code" /\ k[2] \in t.wasms

\* What the live entries `es` make wanted: the code of a contract, the issuer of an asset.
Refs(es) ==
    [accounts  |-> {e.val.exec : e \in {d \in es : d.key[1] = "instance"}} \cap Accounts,
     contracts |-> {},
     wasms     |-> {e.val.exec : e \in {d \in es : d.key[1] = "instance"}} \cap Wasms]

\* The first level of checkpoint h that mentions key k has the newest version of it.
Mentions(b, k) == \E i \in DOMAIN Content[b] : Content[b][i].key = k
Newest(h, e) ==
    \E l \in DOMAIN Levels[h] :
        /\ \E i \in DOMAIN Content[Levels[h][l]] : Content[Levels[h][l]][i] = e
        /\ \A m \in 1 .. l - 1 : ~Mentions(Levels[h][m], e.key)

\* The entries of the ledger, at checkpoint h, that the terms t find.
AllContent == UNION {{Content[b][i] : i \in DOMAIN Content[b]} : b \in Buckets}
Found(h, t) == {e \in AllContent : e.val # None /\ Keep(t, e.key) /\ Newest(h, e)}

=============================================================================
