SPECIFICATION Spec
CONSTANTS
    s1 = s1
    s2 = s2
    p1 = p1
    p2 = p2
    Sessions = {s1, s2}
    Draining = {}
    Prompts = {p1, p2}
    SessionOf <- MCSessionOf
    Deliveries = {d1}
    MaxPerKey = 2
    NoItem = NoItem
    NoRow = NoRow
    Tree = Tree
    MaxOutside = 0
    MaxRestarts = 0
INVARIANTS
    OneWorkingSession
