CONSTANTS
    MaxFile = 2
    MaxTotal = 6
    Retention = 2
    Hour = 2
    Interval = 1
    MaxSegments = 3
    Late = 1
    MaxAge = 9
SPECIFICATION Spec
INVARIANTS LimitsKept 
PROPERTIES NothingLost
