SPECIFICATION Spec
CONSTANTS
    Procs = {p1, p2}
    Keys = {k1}
    Paths = {k1, other}
    TTL = 1
    MaxTime = 2
    Locked = TRUE
    ReadsFail = FALSE
    None = None
    Absent = Absent
    Untimed = Untimed
PROPERTY
    FreshTimestampsKept
