SPECIFICATION Spec
CONSTANTS
    Tasks = {t1}
    Run = Run
    Writers = {w1}
    MaxTries = 2
    ListLimit = 2
    MaxEvents = 2
    Requests = {r1, r2}
    MaxExtras = 0
INVARIANTS
    NoRepost
CHECK_DEADLOCK FALSE
