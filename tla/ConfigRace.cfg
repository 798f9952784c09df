SPECIFICATION Spec
CONSTANTS
    Procs = {p1, p2}
    Names = {a}
    NamesOf <- AllNames
    Nets = {pub}
    Contracts = {c1}
    Seeds = {s1}
    NoId = NoId
    NoSeed = NoSeed
    CommandDirs = {"local"}
    Commands = {"generate", "alias_add"}
INVARIANT NameExclusive
