SPECIFICATION Spec
CONSTANTS
    Script <- MCScript
    Bds = 0
    Lag <- MCLag
INVARIANT NoFalseAlarm
