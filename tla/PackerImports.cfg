SPECIFICATION Spec
CONSTANTS
    N = 3
    Contents <- MCContents
    Scores = {1, 2}
    Budgets = {4, 6}
    Modes = {"adaptive"}
    WholeBudgets = {3}
    MaxRounds = 2
    Drift = 0
INVARIANT
    StrippedImportsDelivered
