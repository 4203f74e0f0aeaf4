SPECIFICATION ServicesSpec
CONSTANTS
    Viewer = {v1, v2}
    Call = {k1, k2}
    NoList = NoList
    Audiences <- MCAudiences
    LaunchBudgets <- MCLaunchBudgets
    CourseTerm = {t1, t2}
    Caller = {c1, c2}
    LastVersion = 2
    CourseBudgets <- MCCourseBudgets
    CourseId = {i1, i2}
    Content = {x, y}
    Client = {r1, r2}
    Absent = Absent
    CustomBudgets <- MCCustomBudgets
    Tool = {1, 2}
    StudentId = {s1}
    Platform = {p1}
    Anyone = Anyone
    MaxVersionNumber = 2
    StudentIDMatch = 6
    AppVersion = {0, 1, 2, 3}
    MaxConfigs = 3
    Author = {a1, a2}
    Lister = {l1}
    MaxReportId = 4
    PageLimit = 1
    MaxWalks = 2
    Asker = {q1, q2}
    Life = 2
    LastMoment = 7
    LookupBudgets <- MCLookupBudgets
    Device = {d1, d2}
    Session = {n1, n2}
    Editor = {e1, e2}
INVARIANTS
    PicturesKept
    OldListExplained
    BehindExplained
    CustomCopyExplained
    AnswerMostSpecific
    WalkComplete
    AnswersExplained
    FailureTold
    SessionTold
    FieldsExplained
CHECK_DEADLOCK FALSE
