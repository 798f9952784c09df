SPECIFICATION Spec
CONSTANTS
    Procs = {p1}
    Names = {a}
    NamesOf <- AllNames
    Nets = {pub, test}
    Contracts = {c1, c2}
    Seeds = {s1, s2}
    NoId = NoId
    NoSeed = NoSeed
    CommandDirs = {"local", "global"}
    Commands = {"generate", "add", "rm", "alias_add", "alias_rm", "deploy"}
INVARIANT TypeOK
INVARIANT AliasIdsDurable
INVARIANT GenerateTakesEffect
PROPERTY SeedReplacedOnlyBlind
PROPERTY DanglingOnlyFromRm
SYMMETRY Symmetry
