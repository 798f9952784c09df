----------------------------- MODULE LedgerView -----------------------------
(***************************************************************************)
(* What `snapshot create` promises (the help of Cmd in                     *)
(* commands/snapshot/create.rs): for a checkpoint of the history archive   *)
(* and the accounts, contracts and wasms that the user names, the newest   *)
(* version of every ledger entry that belongs to one of them, where the    *)
(* wasm of a wanted contract and the issuer of a wanted asset contract are *)
(* wanted too.  Nothing here knows of caches, downloads, or passes over    *)
(* buckets.                                                                *)
(***************************************************************************)
EXTENDS LedgerArchive

\* "Account addresses include the account, and trustlines.  Contract addresses include
\* the related wasm, contract data."
Wanted(r) ==
    [accounts  |-> {a \in Accounts : \E form \in {"G", "M", "key"} : <<form, a>> \in r.addresses},
     contracts |-> {c \in Contracts : \E form \in {"C", "alias"} : <<form, c>> \in r.addresses},
     wasms     |-> r.wasms]

Snapshot(r) ==
    LET found == Found(r.history, Wanted(r))
    IN found \cup Found(r.history, Refs(found))

VARIABLES
    request,    \* the command line that each process has run last, or None
    result      \* the snapshot that it has written, or None

viewVars == <<request, result>>

ViewInit ==
    /\ request = [p \in Procs |-> None]
    /\ result = [p \in Procs |-> None]

Ask(p, r) ==
    /\ request' = [request EXCEPT ![p] = r]
    /\ result' = [result EXCEPT ![p] = None]

\* One step answers the request in full, or the command ends without an answer.
Answer(p) ==
    /\ request[p] # None
    /\ result' = [result EXCEPT ![p] = Snapshot(request[p])]
    /\ UNCHANGED request

ViewNext == \E p \in Procs : Answer(p) \/ \E r \in Requests : Ask(p, r)

ViewSpec == ViewInit /\ [][ViewNext]_viewVars

=============================================================================
