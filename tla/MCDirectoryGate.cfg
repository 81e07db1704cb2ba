SPECIFICATION FairSpec
CONSTANTS
    s1 = s1
    s2 = s2
    p1 = p1
    p2 = p2
    Sessions = {s1, s2}
    Draining = {s1}
    Prompts = {p1, p2}
    SessionOf <- MCSessionOf
    Deliveries = {d1}
    MaxPerKey = 2
    NoItem = NoItem
    NoRow = NoRow
    Tree = Tree
    MaxOutside = 2
    MaxRestarts = 1
INVARIANTS
    TypeOK
    OneBusySession
    WaitingIsQueued
PROPERTIES
    KeepsContract
    EveryPromptReleased
