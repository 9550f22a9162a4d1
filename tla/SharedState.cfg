CONSTANTS
    Sessions = {s1, s2}
    Nobody = nobody
    Keys = {k1, k2}
    Hotkey = {k1}
    BatchLimit = 2
    Starts = 3
    Budget = 3
SPECIFICATION Spec
SYMMETRY Sym
CHECK_DEADLOCK FALSE
INVARIANTS TypeOK RemoteIsSomebodys IdleIsClean AloneGrabFollowsFocus
