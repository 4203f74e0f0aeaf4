SPECIFICATION JobsSpec
CONSTANTS
    Notices = 4
    PageLength = 2
    AboutDays = {2, 3}
    NoticeBudgets <- MCNoticeBudgets
    Reader = {r1, r2}
    DayLength = 3
    FlushAt = 1
    LastDay = 3
    VisitBudgets <- MCVisitBudgets
    Window = 2
    Cooldown = 3
    MinRequests = 2
    Threshold <- MCThreshold
    MaxNoted = 2
    SequenceMask = 1
    TimestampMax = 2
    Clock = {0, 1, 2, 3}
    Students = 3
    BatchSize = 2
    Marks <- MCMarks
    ScoreBudgets <- MCScoreBudgets
    TicksOfDay = 8
    TicksOfUpdate = 2
    DaysAhead = 2
    LastTick = 23
    RoomBudgets <- MCRoomBudgets
INVARIANTS
    StoredAccounted
    RepeatsExplained
    RoomsKept
PROPERTIES
    PushedIsNews
    NoticesDeliverOnce
    PagesStored
    RecordFallsOnlyRenewed
    RecordsCatchUp
    AlertRecovers
CHECK_DEADLOCK FALSE
