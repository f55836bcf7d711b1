SPECIFICATION Spec
CONSTANTS
    Replicas = {g1, g2}
    Clients = {c1}
    MaxRequests = 3
    Deployments <- MCTimeouts
    Nothing = Nothing
    Context <- MCContext
    RemovalTokens = 1
INVARIANT
    BaseAlwaysReceived
