SPECIFICATION Spec
CONSTANTS
    Runs = {r1}
    Sessions = {s1}
    NoSession = NoSession
    Human = Human
    Deliveries = {r1}
    Policies = {"queue"}
    MaxHuman = 0
    MaxRestarts = 0
INVARIANTS
    OpenRunHasATurn
CHECK_DEADLOCK FALSE
