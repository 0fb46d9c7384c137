SPECIFICATION Spec
CONSTANTS
    Messages = {m1}
    Processes = {"p1", "p2"}
    Channels = {"c1", "c2"}
    ProcessOf <- MCProcessOf
    Lasting = {}
    MaxDeliveries = 2
    Prefetch = 1
    MaxCrashes = 1
    MaxReplays = 0
    Jobs = {"job"}
    JobOf <- MCOneJob
    MaxFaults = 0
    MaxExpiries = 0
INVARIANT CrashOnlyDelaysJob
CHECK_DEADLOCK FALSE
