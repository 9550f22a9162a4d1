CONSTANTS
    Sessions = {s1, s2}
    Nobody = nobody
    Keys = {k1, k2}
    Hotkey = {k1}
    BatchLimit = 1
    Starts = 2
    Budget = 3
SPECIFICATION Spec
CHECK_DEADLOCK FALSE
PROPERTY ChordGivesBack
