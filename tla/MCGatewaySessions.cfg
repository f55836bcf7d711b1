SPECIFICATION Spec
CONSTANTS
    Replicas = {g1, g2}
    Clients = {c1, c2}
    MaxRequests = 3
    Deployments <- MCDeployments
    Nothing = Nothing
    Context <- MCContext
    RemovalTokens = 1
SYMMETRY MCSymmetry
INVARIANTS
    TypeOK
    SessionsApart
    AnsweredTurnsStored
    DeltaBaseReceived
    OwnTurnAnswered
    TurnsContinue
    DeltaBaseLatest
    StoredTotals
