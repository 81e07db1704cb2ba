SPECIFICATION FairSpec
CONSTANTS
    t1 = t1
    t2 = t2
    a = a
    b = b
    c = c
    Trees <- MCTrees
    Items <- MCItems
    TreeOf <- MCTreeOf
    NoItem = NoItem
    NoRow = NoRow
    MaxPerKey = 2
    MaxTotal = 2
    MinStamp <- MCMinStamp
    MaxRestarts = 1
INVARIANTS
    TypeOK
    NoStrandedWaiter
    GrantsMatchRuns
    DiskAgreesWithLine
PROPERTIES
    GrantsInTurn
    EventuallyLeavesLine
