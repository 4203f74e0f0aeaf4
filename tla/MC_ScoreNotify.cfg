SPECIFICATION FairSpec
CONSTANTS
    s1 = s1  s2 = s2
    c1 = c1  c2 = c2  c3 = c3
    Student = {s1, s2}
    Course = {c1, c2, c3}
    Score = {0, 1}
    Fetch = {f1, f2}
    None = None
    ListBefore <- MCListBefore
    Budgets <- MCBudgets
INVARIANTS
    AnnouncesOnlyChanges
    RecordedIsAnnounced
PROPERTIES
CHECK_DEADLOCK FALSE
