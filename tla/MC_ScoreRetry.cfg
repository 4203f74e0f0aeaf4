\* What a check task announces, as the comments of get_scores.go say.
SPECIFICATION Spec
CONSTANTS
    s1 = s1  s2 = s2
    c1 = c1  c2 = c2  c3 = c3
    Student = {s1, s2}
    Course = {c1, c2, c3}
    Score = {0, 1}
    Fetch = {f1, f2}
    None = None
    ListBefore <- MCListBefore
    Budgets <- MCBudgets
INVARIANT OnlyChangesAnnounced
CHECK_DEADLOCK FALSE
