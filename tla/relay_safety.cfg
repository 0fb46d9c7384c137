SPECIFICATION Spec
CONSTANTS
    Rows = {1, 2, 3}
    Route <- MCRoute
    PostOf <- MCTwoPosts
    Relays = {r1, r2}
    MaxAttempts = 2
    BatchSize = 2
    TxBudget = 1
    MaxFaults = 1
    MaxReplays = 0
INVARIANTS ClaimsExclusive ClaimReadsCurrent PublishedWasReceived OnceUnlessDisturbed

SYMMETRY MCRelaySymmetry
CHECK_DEADLOCK FALSE
