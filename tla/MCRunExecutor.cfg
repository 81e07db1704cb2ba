SPECIFICATION FairSpec
CONSTANTS
    Runs = {r1, r2, r3}
    Sessions = {s1, s2}
    NoSession = NoSession
    Human = Human
    Deliveries = {r2, r3}
    Policies = {"queue", "allow"}
    MaxHuman = 1
    MaxRestarts = 1
INVARIANTS
    TypeOK
    OpenRowHasAnOwner
PROPERTIES
    SettledOnce
    NoRunHangs
CHECK_DEADLOCK FALSE
