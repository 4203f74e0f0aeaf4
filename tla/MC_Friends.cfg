SPECIFICATION FairSpec
CONSTANTS
    ann = ann  bob = bob  cai = cai
    ca = ca  cb = cb  cc = cc
    Student <- MCStudent
    Code = {ca, cb, cc}
    Request = {r1, r2}
    None = None
    MaxNum = 1
    CodeBefore <- MCCodeBefore
    Reorderings <- MCReorderings
    Scenarios <- MCScenarios
INVARIANTS
    MutualFriends
    StaleExplained
    SpentCodeExplained
PROPERTIES
    LimitHeldUnlessRaced
    CopyHeals
CHECK_DEADLOCK FALSE
