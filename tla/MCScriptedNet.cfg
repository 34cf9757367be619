SPECIFICATION Spec
CONSTANTS
    Script <- MCScript
    Bds = 0
    Lag <- MCLag
    Course <- MCCourse
INVARIANTS TypeOK NoFalseAlarm NoHollowPass LeftAsFound
PROPERTY ScriptEnds
