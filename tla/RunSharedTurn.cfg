SPECIFICATION Spec
CONSTANTS
    Runs = {r1, r2}
    Sessions = {s1}
    NoSession = NoSession
    Human = Human
    Deliveries = {r1, r2}
    Policies = {"queue"}
    MaxHuman = 2
    MaxRestarts = 0
INVARIANTS
    OneRunOneTurn
CHECK_DEADLOCK FALSE
