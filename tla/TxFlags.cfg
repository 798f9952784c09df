SPECIFICATION FairSpec
CONSTANTS
    w = w
    s1 = s1
    s2 = s2
    Procs = {p1}
    Accounts = {a1, a2}
    Wasms = {w}
    Salts = {s1}
    Commands <- AllCommands
    MaxRuns = 2
    None = None
CHECK_DEADLOCK FALSE
INVARIANT TypeOK
INVARIANT OnlyFlagsSendNothing
INVARIANT DeployNeverPanics
PROPERTY CommandEnds
