SPECIFICATION FairSpec
CONSTANTS
    Tasks = {t1}
    Run = Run
    Writers = {w1, w2}
    MaxTries = 2
    ListLimit = 2
    MaxEvents = 3
    Requests = {r1, r2}
    MaxExtras = 1
INVARIANTS
    TypeOK
    LogDense
    NothingPassedOver
    OnlyOverlapsRepeat
PROPERTIES
    EventsReachRoom
