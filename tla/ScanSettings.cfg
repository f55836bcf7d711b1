SPECIFICATION Spec
CONSTANTS
    p1 = p1
    p2 = p2
    f1 = f1
    f2 = f2
    c1 = c1
    c2 = c2
    Nothing = Nothing
    RunJson = RunJson
    Procs = {p1, p2}
    Walk <- MCWalk
    Contents = {c1, c2}
    Size <- MCSize
    MaxTime = 3
    Legacy <- MCLegacy
    MaxRows = 2
    Keep = 2
    PerSecond = 2
    Deployments <- MCTwoSettings
INVARIANTS
    SettingsNeverMix
CHECK_DEADLOCK FALSE
