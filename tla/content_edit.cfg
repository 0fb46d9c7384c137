SPECIFICATION Spec
CONSTANTS
    Messages = {"v1"}
    Processes = {"p1", "p2"}
    Channels = {"c1"}
    ProcessOf <- MCProcessOf
    Lasting = {}
    MaxDeliveries = 2
    Prefetch = 1
    MaxCrashes = 0
    MaxReplays = 0
    Posts = {"a"}
    PostOf <- MCPostOf
    MaxEdits = 1
INVARIANT VisibleContentCleared
CHECK_DEADLOCK FALSE
