SPECIFICATION Spec
CONSTANTS
    Workers = {w1, w2}
    Msgs = {m1, m2, m3, m4}
    NoMsg = NoMsg
    InjectCap = 1
    MaxEvents = 3
    MaxSessions = 2
    RcCap = 1
SYMMETRY Alike
INVARIANTS
    TypeOK
    EachMessageOnce
    ActiveMeansStream
    NothingStranded
    StopTargetsLive
    AskedOnce
