SPECIFICATION FairSpec
CONSTANTS
    Task = {m1, m2, m3, m4}
    None = None
    QueueSize = 2
    DailyLimit = 2
    Interval = 2
    DayLength = 7
INVARIANTS
    AcceptedInOrder
    QuotaAndOne
PROPERTIES
    SpacedWithinQuota
    EventuallySent
CHECK_DEADLOCK FALSE
