SPECIFICATION FairSpec
CONSTANTS
    Events <- EventsValue
    Kind <- KindValue
    Fact <- FactValue
    Categories = {"spam", "hate"}
    MaxLog = 2
    MaxFaults = 2
    MaxDay = 2
    MaxDays = 2
    DefaultDays = 1
    Tabs = {"t1", "t2"}
    MaxSockets = 2
INVARIANTS MissedOnlyByLateJoin ChartsAgree OpenSocketIsRegistered
PROPERTIES VerdictsAreCounted
CHECK_DEADLOCK FALSE
