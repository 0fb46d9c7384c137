SPECIFICATION Spec
CONSTANTS
    Rows = {1, 2}
    Route <- MCKafkaOnly
    PostOf <- MCOnePost
    Relays = {r1}
    MaxAttempts = 2
    BatchSize = 2
    TxBudget = 2
    MaxFaults = 0
    MaxReplays = 0
PROPERTY PerPostOrder
CHECK_DEADLOCK FALSE
