SPECIFICATION Spec
CONSTANTS
    N = 3
    Contents <- MCSteepContents
    Scores = {1, 2}
    Budgets = {7}
    Modes = {"progressive"}
    WholeBudgets = {3}
    MaxRounds = 2
    Drift = 0
INVARIANT
    NoAffordableFileDropped
