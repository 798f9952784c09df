SPECIFICATION Spec
CONSTANTS
    Procs = {p1, p2}
    Ledgers = 16
    Txs = 4
    Ops = 4
    Contracts = {c1, c2}
    Aliases = {a}
    Segments = {s1}
    MaxSegments = 2
    MaxEvents = 3
    Counts = {1, 2}
    MaxPages = 2
    ExtendArgs = {1, 2, 4}
    MaxExtend = 3
    MinTtl = 1
    MaxLedger = 4
    Sockets = {s1}
    Remotes = {}
    Names = {n1}
    Mappings <- McMappings
    MaxStarts = 2
    Indexes = {0, 1, 2}
    Hardened = 2
    Payloads <- McPayloads
    ChunkSize = 4
    PathLen = 2
    MaxTries = 3
INVARIANTS
    PagesInOrder
    OnlyAsked
    ReportedLives
    InstructionsStop
    SignsTheCall
PROPERTY IdsGrow
CHECK_DEADLOCK FALSE
SYMMETRY Symmetry
