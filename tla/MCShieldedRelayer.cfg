CONSTANTS
    Task = {t1, t2}
    ClientRequestId = {c1}
    Body = {b1, b2}
    NoClientId = NoClientId
    NoJob = NoJob
    HistoryLimit = 1
    Ttl = 1
    MaxTime = 1
    MaxRestarts = 1
SPECIFICATION FairSpec
INVARIANTS TypeOK HistoryBounded IndexSound  AnswersBacked
PROPERTIES SettledStaysSettled ImplementsLedger PostsAnswered PendingEnds
CHECK_DEADLOCK FALSE
