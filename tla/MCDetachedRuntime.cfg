CONSTANTS
    c1 = c1
    c2 = c2
    Cmd = {c1, c2}
    MaxOps = 3
    MaxKilled = 1
SPECIFICATION FairSpec
INVARIANTS TypeOK NoOrphans
PROPERTIES StoppedMeansStopped CommandsEnd
CHECK_DEADLOCK FALSE
