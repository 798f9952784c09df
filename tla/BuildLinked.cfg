SPECIFICATION BuildsOnly
CONSTANTS
    Procs = {p1, p2}
    Users = {u}
    Dirs = {"d1"}
    NetworkNames = {"testnet", "mine"}
    BuiltIn = {"testnet"}
    Networks = {"x1"}
    Default <- McDefault
    Explicit = "explicit"
    Identities = {"alice", "bob"}
    DefaultLines <- McDefaultLines
    FundNames = {"testnet"}
    FundLines <- McFundLines
    Shells <- McShells
    ChoiceLines <- McChoiceLines
    Contracts = {"c1"}
    Hashes = {"h1", "h2"}
    Size = 1
    SpecOps = {"invoke", "invokeNoCache", "info", "infoHash", "clean"}
    LogHashes = {"h1"}
    LogOps = {"invoke", "upload", "ls", "clean"}
    MaxStarts = 3
    MaxClock = 2
    MaxRandom = 2
    MaxVersion = 3
    Previews = {2}
    Interval = 2
    MaxTime = 2
    Workspace <- McWorkspace
    BuildLines <- McBuildLines
    Links = {TRUE}
    Edits = 1
    MaxMeta = 2
    Projects = {"hello-world", "contract2"}
    MaxEdits = 2
    Kills = 1
    Existing = {"absent", "a manifest that is no workspace root"}
INVARIANT BuildExact
CHECK_DEADLOCK FALSE
