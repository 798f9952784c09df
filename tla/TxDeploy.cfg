SPECIFICATION Spec
CONSTANTS
    w = w
    s1 = s1
    s2 = s2
    Procs = {p1, p2}
    Accounts = {a1, a2}
    Wasms = {w}
    Salts = {s1, s2}
    Commands <- Deployments
    MaxRuns = 2
    None = None
CHECK_DEADLOCK FALSE
INVARIANT SuccessIsOnLedger
INVARIANT AliasNamesCreated
INVARIANT OwnSequences
