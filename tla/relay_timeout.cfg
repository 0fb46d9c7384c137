SPECIFICATION FairSpec
CONSTANTS
    Rows = {1, 2}
    Route <- MCKafkaOnly
    PostOf <- MCTwoPosts
    Relays = {r1}
    MaxAttempts = 2
    BatchSize = 2
    TxBudget = 1
    MaxFaults = 0
    MaxReplays = 0
PROPERTY StuckRowsLeave
CHECK_DEADLOCK FALSE
