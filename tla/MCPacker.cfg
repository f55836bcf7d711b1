SPECIFICATION Spec
CONSTANTS
    N = 3
    Contents <- MCContents
    Scores = {1, 2}
    Budgets = {4, 6}
    Modes = {"greedy", "adaptive", "tiered", "progressive"}
    WholeBudgets = {3}
    MaxRounds = 2
    Drift = 1
INVARIANTS
    TypeOK
    BudgetKept
    BudgetConserved
    EveryFileOnce
    RankingOrder
    AllWholeWhenRoomy
    SkipJustified
