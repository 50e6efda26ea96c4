SPECIFICATION FairCostSpec
CONSTANTS
    Spenders = {c1, c2}
    Costs = {1, 2}
    BudgetLimit = 3
    MaxTotal = 7
PROPERTIES ResetReturns
CHECK_DEADLOCK FALSE
