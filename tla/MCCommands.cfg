SPECIFICATION Spec
CONSTANTS
    Cap = 4
    Chunk = 2
    PipeSize = 3
    Bytes <- MCBytes
    Commands = {}
    Argvs = {status, diff, make}
    status = status
    diff = diff
    make = make
    Known = {status, diff}
    Diffs = {diff}
    Heads = {h1, h2}
    Facts = {"a", "b"}
    LineTokens <- MCTokens
    Threshold = 3
    DeltaLines = 1
    MaxAliases = 1
    Deployments <- MCDeployments
    Nothing = Nothing
INVARIANTS
    TypeOK
    ResultFaithful
    FlagsHonest
    NothingLeftRunning
    AnswerUnderstood
    UnresolvedWereRejected
    NeverLonger
    FloorKept
    
PROPERTIES
    CallEnds
CHECK_DEADLOCK FALSE
