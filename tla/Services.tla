------------------------------ MODULE Services ------------------------------
(***************************************************************************)
(* What the commands do with services outside of the user's files: the ids  *)
(* of a history (Toid), pages of events, the lifetime of a ledger entry,    *)
(* Docker's containers and a hardware wallet.  A command talks to one of    *)
(* them only, so a behaviour is one of a single service and the variables   *)
(* of the others stand still.                                              *)
(***************************************************************************)
EXTENDS Toid, Sequences

CONSTANTS
    Procs,
    \* Events
    Contracts, Aliases, Segments, MaxSegments, MaxEvents, Counts, MaxPages,
    \* EntryTtl
    ExtendArgs, MaxExtend, MinTtl, MaxLedger,
    \* Containers
    Sockets, Remotes, Names, Mappings, MaxStarts,
    \* LedgerApp
    Indexes, Hardened, Payloads, ChunkSize, PathLen, MaxTries

VARIABLES
    service,
    \* Events
    events, aliases, line, cursor, ids, asked, printed, shown, pages,
    \* EntryTtl
    now, live, temporary, want, meta, ledger, ttl,
    \* Containers
    up, containers, made, op, host, name, ports, daemon, own, notes,
    \* LedgerApp
    buffer, ins, index, payload, chunk, result, tries,
    \* all but Toid
    pc

eventVars     == <<events, aliases, line, cursor, ids, asked, printed, shown, pages>>
ttlVars       == <<now, live, temporary, want, meta, ledger, ttl>>
containerVars == <<up, containers, made, op, host, name, ports, daemon, own, notes>>
walletVars    == <<buffer, ins, index, payload, chunk, result, tries>>
vars == <<service, at, eventVars, ttlVars, containerVars, walletVars, pc>>

-----------------------------------------------------------------------------
(* The services.                                                            *)

Paging   == INSTANCE Events
Lifetime == INSTANCE EntryTtl
Docker   == INSTANCE Containers
Wallet   == INSTANCE LedgerApp

ASSUME PagingAssumption == Paging!SegmentsAssumption
ASSUME LifetimeAssumption == Lifetime!ConstantsAssumption
ASSUME DockerAssumption == Docker!DaemonsAssumption
ASSUME WalletAssumption == Wallet!ChunkAssumption

-----------------------------------------------------------------------------
(* A service that does not take part.                                       *)

NoHistory == at = [ledger |-> 0, tx |-> 0, op |-> 0]
NoEvents ==
    /\ events = 0 /\ aliases = 0 /\ line = 0 /\ cursor = 0 /\ ids = 0 /\ asked = 0
    /\ printed = 0 /\ shown = 0 /\ pages = 0
NoTtl ==
    /\ now = 0 /\ live = 0 /\ temporary = 0 /\ want = 0 /\ meta = 0 /\ ledger = 0 /\ ttl = 0
NoContainers ==
    /\ up = 0 /\ containers = 0 /\ made = 0 /\ op = 0 /\ host = 0 /\ name = 0 /\ ports = 0
    /\ daemon = 0 /\ own = 0 /\ notes = 0
NoWallet ==
    /\ buffer = 0 /\ ins = 0 /\ index = 0 /\ payload = 0 /\ chunk = 0 /\ result = 0 /\ tries = 0

ServicesInit ==
    \/ service = "history" /\ Init /\ NoEvents /\ NoTtl /\ NoContainers /\ NoWallet /\ pc = 0
    \/ service = "events" /\ Paging!Init /\ NoTtl /\ NoContainers /\ NoWallet /\ NoHistory
    \/ service = "lifetime" /\ Lifetime!Init /\ NoEvents /\ NoContainers /\ NoWallet /\ NoHistory
    \/ service = "docker" /\ Docker!Init /\ NoEvents /\ NoTtl /\ NoWallet /\ NoHistory
    \/ service = "wallet" /\ Wallet!Init /\ NoEvents /\ NoTtl /\ NoContainers /\ NoHistory

ServicesNext ==
    /\ service' = service
    /\ \/ /\ service = "history" /\ Next
          /\ UNCHANGED <<eventVars, ttlVars, containerVars, walletVars, pc>>
       \/ /\ service = "events" /\ Paging!Next
          /\ UNCHANGED <<at, ttlVars, containerVars, walletVars>>
       \/ /\ service = "lifetime" /\ Lifetime!Next
          /\ UNCHANGED <<at, eventVars, containerVars, walletVars>>
       \/ /\ service = "docker" /\ Docker!Next
          /\ UNCHANGED <<at, eventVars, ttlVars, walletVars>>
       \/ /\ service = "wallet" /\ Wallet!Next
          /\ UNCHANGED <<at, eventVars, ttlVars, containerVars>>

Spec == ServicesInit /\ [][ServicesNext]_vars

-----------------------------------------------------------------------------
(* Properties; IdsGrow is Toid's.                                           *)

\* Pages are in the order of history, nothing is printed twice and nothing that matches is
\* passed over (Events).
PagesInOrder == service = "events" => Paging!PagesInOrder

\* A page has events of the contracts that the ids meant when they were resolved (Events).
OnlyAsked == service = "events" => Paging!OnlyAsked

\* The ledger that extend or restore reports is one the entry lives to (EntryTtl).
ReportedLives == service = "lifetime" => Lifetime!ReportedLives

\* The instructions that `container start` prints stop the container they are about
\* (Containers).
InstructionsStop == service = "docker" => Docker!InstructionsStop

\* What the device signs is the path and the payload of the call, whatever earlier calls
\* have left on it (LedgerApp).
SignsTheCall == service = "wallet" => Wallet!SignsTheCall
=============================================================================
