SPECIFICATION Spec
CONSTANTS
    Users = {ann, bob}
    Sids = {s1, s2}
    Requests = {r1, r2}
    None = none
    Window = 2
    MaxRequests = 2
    MaxTime = 5
    MaxFailures = 1
    Services <- ServicesValue
    MaxLogs = 5
    MaxBuffer = 2
    MaxLength = 9
    ScanDepth = 8
    LiveBuffer = 2
    MaxLost = 0
    MaxRedials = 2
    MaxExtra = 1
    MaxLoose = 2
    TailServices = {"api-gateway", "content-service"}
    TailLogs = 3
    TailLength = 2
    TailLost = 1
    OutboxRows = {o1, o2}
    MaxAttempts = 1
    Probed = {"content-service"}
    MaxMoves = 2
INVARIANTS TypeOK CacheBelongsToMe LimitKept TailIsFaithful StatsCountOnce
PROPERTIES EvictionHasCause PageFollowsChain
CHECK_DEADLOCK FALSE
