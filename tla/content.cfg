SPECIFICATION FairSpec
CONSTANTS
    Messages = {"v1", "v2"}
    Processes = {"p1", "p2"}
    Channels = {"c1", "c3"}
    ProcessOf <- MCProcessOf
    Lasting = {"c3"}
    MaxDeliveries = 1
    Prefetch = 1
    MaxCrashes = 1
    MaxReplays = 1
    Posts = {"a"}
    PostOf <- MCPostOf
    MaxEdits = 1
INVARIANTS TypeOK StatusMatchesStream OneRowPerVerdict AckedVerdictsApplied
PROPERTIES RemovedStaysSilent EveryVerdictSettles
CHECK_DEADLOCK FALSE
