\* The back-off promise of NewBaseTaskQueue's comment, for one-shot tasks.
SPECIFICATION Spec
CONSTANTS
    refresh = refresh
    sync = sync
    t1 = t1
    t2 = t2
    p1 = p1
    None = None
    Key = {refresh, sync}
    MaxFailures = 1
    Worker = {w1, w2}
    Client = {c1}
    Task <- MCTask
    Periodic = {p1}
    KeyOf <- MCKeyOf
INVARIANT BackoffStartsAtBase
CHECK_DEADLOCK FALSE
