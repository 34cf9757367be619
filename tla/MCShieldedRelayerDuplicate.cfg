CONSTANTS
    Task = {t1, t2, t3}
    ClientRequestId = {c1}
    Body = {b1}
    NoClientId = NoClientId
    NoJob = NoJob
    HistoryLimit = 1
    Ttl = 0
    MaxTime = 0
    MaxRestarts = 0
SPECIFICATION Spec
INVARIANTS OneSendPerJob
CHECK_DEADLOCK FALSE
