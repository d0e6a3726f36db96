SPECIFICATION FairSpec
CONSTANTS
    Tasks = {a}
    Turns = {u, v}
    MaxFaults = 1
INVARIANTS
    TypeOK
    ReportsTruthful
    ReportConserved
    PendingIsWatched
    OneDelivery
PROPERTIES
    TerminalIsFinal
    ReportsPromise
    ReportsHeard
