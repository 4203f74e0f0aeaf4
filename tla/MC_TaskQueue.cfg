SPECIFICATION FairSpec
CONSTANTS
    refresh = refresh
    sync = sync
    t1 = t1
    t2 = t2
    p1 = p1
    None = None
    Key = {refresh, sync}
    MaxFailures = 1
    Worker = {w1, w2}
    Client = {c1, c2}
    Task <- MCTask
    Periodic = {p1}
    KeyOf <- MCKeyOf
INVARIANTS
    SerialPerKey
    NoStrandedTask
    SucceedsOnce
PROPERTIES
    TasksRun
    ImplementsExecutor
CHECK_DEADLOCK FALSE
