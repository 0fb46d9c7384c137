SPECIFICATION FairSpec
CONSTANTS
    Rows = {1, 2}
    Route <- MCRouteGap
    PostOf <- MCTwoPosts
    Relays = {r1, r2}
    MaxAttempts = 2
    BatchSize = 2
    TxBudget = 2
    MaxFaults = 1
    MaxReplays = 1
PROPERTIES StuckRowsLeave RowsMoveForward
CHECK_DEADLOCK FALSE
