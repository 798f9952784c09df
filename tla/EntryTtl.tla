------------------------------ MODULE EntryTtl ------------------------------
(***************************************************************************)
(* How long a ledger entry lives, and what `contract extend` and `contract  *)
(* restore` tell about it (commands/contract/extend.rs, restore.rs).  The   *)
(* network applies the transaction whether or not it changes the entry, so  *)
(* the commands read the changes in the result, and extend asks for the     *)
(* entry when there are none.  Ledgers close all the while, and another     *)
(* process may extend or restore the same entry.                           *)
(***************************************************************************)
EXTENDS Naturals, Sequences

CONSTANTS
    Procs,              \* the processes
    ExtendArgs,         \* values of --ledgers-to-extend
    MaxExtend,          \* MAX_LEDGERS_TO_EXTEND
    MinTtl,             \* how long a restored entry lives
    MaxLedger           \* bound on the number of ledgers

ConstantsAssumption == /\ ExtendArgs \subseteq Nat /\ MaxExtend \in Nat
                              /\ MinTtl \in Nat /\ MaxLedger \in Nat

VARIABLES
    now,        \* the latest ledger
    live,       \* the last ledger in which the entry lives; 0 if it was never created
    temporary,  \* whether the entry is deleted, not archived, when it no longer lives
    pc,         \* the next step of each process
    want,       \* --ledgers-to-extend of each process, within the limit
    meta,       \* the entry changes that each process got back
    ledger,     \* the ledger that each process's transaction was applied in
    ttl         \* the ledger that each process reported, 0 if none

vars == <<now, live, temporary, pc, want, meta, ledger, ttl>>
local == <<pc, want, meta, ledger, ttl>>

\* LedgerEntryChange of a TTL entry, with its live_until_ledger_seq.
Change(kind, until) == [kind |-> kind, until |-> until]
Init ==
    /\ now = 1
    /\ live \in 0 .. 1 + MaxExtend /\ temporary \in BOOLEAN
    /\ pc = [p \in Procs |-> "ready"]
    /\ want = [p \in Procs |-> 0]
    /\ meta = [p \in Procs |-> << >>]
    /\ ledger = [p \in Procs |-> 0]
    /\ ttl = [p \in Procs |-> 0]

Lives == live >= now
Exists == Lives \/ (live # 0 /\ ~temporary)

End(p, how, n) ==
    /\ pc' = [pc EXCEPT ![p] = how]
    /\ ttl' = [ttl EXCEPT ![p] = n]
    /\ UNCHANGED <<now, live, temporary, want, meta, ledger>>

LedgersToExtend(n) == IF n <= MaxExtend THEN n ELSE MaxExtend

\* extend simulates, which fails when the entry does not live.
Extend(p, n) ==
    /\ pc[p] = "ready"
    /\ \/ ~Lives /\ End(p, "error", 0)
       \/ /\ Lives
          /\ pc' = [pc EXCEPT ![p] = "extend"]
          /\ want' = [want EXCEPT ![p] = LedgersToExtend(n)]
          /\ UNCHANGED <<now, live, temporary, meta, ledger, ttl>>

\* restore does not.
Restore(p) ==
    /\ pc[p] = "ready"
    /\ pc' = [pc EXCEPT ![p] = "restore"]
    /\ UNCHANGED <<now, live, temporary, want, meta, ledger, ttl>>

-----------------------------------------------------------------------------
(* The network.                                                             *)

Applied(p, next, changes) ==
    /\ pc' = [pc EXCEPT ![p] = next]
    /\ meta' = [meta EXCEPT ![p] = changes]
    /\ ledger' = [ledger EXCEPT ![p] = now]
    /\ UNCHANGED <<now, temporary, want, ttl>>

ApplyExtend(p) ==
    /\ pc[p] = "extend"
    /\ LET until == now + want[p]
       IN  IF Lives /\ live < until
           THEN /\ live' = until
                /\ Applied(p, "readExtend", <<Change("state", live), Change("updated", until)>>)
           ELSE /\ live' = live
                /\ Applied(p, "readExtend", << >>)

ApplyRestore(p) ==
    /\ pc[p] = "restore"
    /\ IF Exists /\ ~Lives
       THEN /\ live' = now + MinTtl
            /\ Applied(p, "readRestore", <<Change("state", live), Change("updated", now + MinTtl)>>)
       ELSE /\ live' = live
            /\ Applied(p, "readRestore", << >>)

CloseLedger ==
    /\ now < MaxLedger
    /\ now' = now + 1
    /\ UNCHANGED <<live, temporary, local>>

-----------------------------------------------------------------------------
(* What the commands make of the result.                                    *)

\* The match on the first two changes at the end of extend.  Indexing a change that is not
\* there panics.
MatchChanges(p) ==
    LET c == meta[p]
    IN  IF Len(c) < 2 THEN End(p, "panic", 0)
        ELSE IF c[1].kind = "state" /\ c[2].kind = "updated"
             THEN End(p, "reported", c[2].until)
             ELSE End(p, "error", 0)

ReadExtend(p) ==
    /\ pc[p] = "readExtend"
    /\ \/ /\ meta[p] # << >>
          /\ MatchChanges(p)
       \/ /\ meta[p] = << >>
          /\ pc' = [pc EXCEPT ![p] = "ask"]
          /\ UNCHANGED <<now, live, temporary, want, meta, ledger, ttl>>

\* Mutant of LivesLonger: the comparison without the ledgers that were asked for.
LivesOn(p) == now < live

LivesLonger(p) == now + want[p] < live

\* get_full_ledger_entries, and the comparison with the entry's time to live; the first
\* entry is taken even if there is none.
AskEntry(p) ==
    /\ pc[p] = "ask"
    /\ \/ ~Exists /\ End(p, "panic", 0)
       \/ Exists /\ LivesLonger(p) /\ End(p, "reported", live)
       \/ Exists /\ ~LivesLonger(p) /\ MatchChanges(p)

\* parse_operations: the changes that count; the first of them is reported.
ParseOperations(c) == {i \in DOMAIN c : c[i].kind \in {"updated", "created"}}

ReadRestore(p) ==
    /\ pc[p] = "readRestore"
    /\ LET found == ParseOperations(meta[p])
       IN  \/ /\ found # {}
              /\ \E i \in found : /\ \A j \in found : i <= j
                                  /\ End(p, "reported", meta[p][i].until)
           \/ found = {} /\ End(p, "error", 0)

Next ==
    \/ \E p \in Procs, n \in ExtendArgs : Extend(p, n)
    \/ \E p \in Procs : \/ Restore(p) \/ ApplyExtend(p) \/ ApplyRestore(p)
                        \/ ReadExtend(p) \/ AskEntry(p) \/ ReadRestore(p)
    \/ CloseLedger

Spec == Init /\ [][Next]_vars

-----------------------------------------------------------------------------
(* Properties *)

\* A ledger that extend or restore reports is one the entry lives to: nobody shortens it,
\* and it covers what was asked for from the ledger that the transaction was applied in.
ReportedLives ==
    \A p \in Procs : pc[p] = "reported" =>
        /\ ttl[p] <= live
        /\ ttl[p] >= ledger[p] + want[p]

=============================================================================
