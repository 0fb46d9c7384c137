SPECIFICATION FairSpec
CONSTANTS
    Messages = {m1, m2}
    Processes = {"p1", "p2"}
    Channels = {"c1", "c2", "c3"}
    ProcessOf <- MCProcessOf
    Lasting = {"c3"}
    MaxDeliveries = 2
    Prefetch = 1
    MaxCrashes = 1
    MaxCancels = 1
    MaxReplays = 1
INVARIANTS NothingVanishes UnackedIsBeingHandled DlqOnlyWhenExhausted
PROPERTIES ImplementsRetry EverySettles
CHECK_DEADLOCK FALSE
