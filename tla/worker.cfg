SPECIFICATION FairSpec
CONSTANTS
    Messages = {m1, m2}
    Processes = {"p1", "p2"}
    Channels = {"c1", "c3"}
    ProcessOf <- MCProcessOf
    Lasting = {"c3"}
    MaxDeliveries = 1
    Prefetch = 1
    MaxCrashes = 1
    MaxReplays = 1
    Jobs = {"job"}
    JobOf <- MCOneJob
    MaxFaults = 2
    MaxExpiries = 1
INVARIANTS TypeOK LostOnlyByFault DoneMeansPublished ClaimIsExclusive SecondVerdictOnlyByFault KeyHasCause
PROPERTY EveryJobAnswered
CHECK_DEADLOCK FALSE
