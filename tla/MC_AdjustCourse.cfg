SPECIFICATION FairSpec
CONSTANTS
    i1 = i1
    autumn = autumn  spring = spring
    oct1 = oct1  mar1 = mar1  jul1 = jul1
    Id = {i1, i2}
    Date = {oct1, mar1, jul1}
    Term = {autumn, spring}
    Request = {r1, r2}
    None = None
    MaxItems = 2
    TermOf <- MCTermOf
    RowBefore <- MCRowBefore
    Budgets <- MCBudgets
INVARIANTS
    StaleExplained
    ShownIsApproved
PROPERTY CopyHeals
CHECK_DEADLOCK FALSE
