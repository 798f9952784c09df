SPECIFICATION Spec
CONSTANTS
    None = None
    a = a
    b = b
    v = v
    c0 = c0
    Accounts = {a, b, v}
    Contracts = {c0}
    Sources = {a, v}
    Signers = {a, b}
    Flags = {"required", "clawback"}
    Args <- McArgs
    Networks = {"home", "other"}
    Home = "home"
    U32 = 16
    U64 = 64
    DefaultFee = 2
    AuthWindow = 1
    FeeArgs = {3}
    InstrArgs = {None, 5}
    Sims <- McSims
    MaxOps = 2
    MaxSigs = 2
    MaxSeq = 1
    MaxLedger = 1
INVARIANTS
    TypeOK
    SignaturesFit
    OpsAreAsked
    FeePays
    OnlyStaleSequence
    CallsAuthorized
