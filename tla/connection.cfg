SPECIFICATION FairSpec
CONSTANTS
    Subs = {"s1", "s2"}
    MaxCalls = 4
INVARIANTS OneConnectAtATime NoConnectionLeft FieldIsUsable OneConsumerPerQueue
PROPERTIES EveryQueueServed
CHECK_DEADLOCK FALSE
