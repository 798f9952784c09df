SPECIFICATION Spec
CONSTANTS
    w = w
    s1 = s1
    s2 = s2
    Procs = {p1}
    Accounts = {a1}
    Wasms = {w}
    Salts = {s1}
    Commands <- Footprints
    MaxRuns = 1
    None = None
CHECK_DEADLOCK FALSE
INVARIANT SimOnlySendsNothing
