CONSTANTS
    c1 = c1
    c2 = c2
    Client = {c1, c2}
    RatePerMinute = 35
    Burst = 2
    MaxTime = 5
    MaxBack = 1
SPECIFICATION Spec
INVARIANTS TypeOK RateBounded RetryHonoured
