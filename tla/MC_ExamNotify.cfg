SPECIFICATION FairSpec
CONSTANTS
    autumn = autumn  spring = spring
    e1 = e1  e2 = e2
    Student = {s1, s2}
    Term = {autumn, spring}
    Exam = {e1, e2}
    TermOf <- MCTermOf
    Time = {t1}
    NoTime = NoTime
    NoRow = NoRow
    NoSnapshot = NoSnapshot
    None = None
    Flight = {f1}
    Budgets <- MCBudgets
PROPERTIES
    DeliversOnce
    CommitsClaimed
CHECK_DEADLOCK FALSE
