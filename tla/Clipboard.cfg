CONSTANTS
    Peers = {a, b}
    Texts = {t1, t2}
    Large = {t1}
    Nothing = nothing
    NoHash = noHash
    Capacity = 1
    Copies = 1
    Faults = 3
SPECIFICATION MCSpec
INVARIANTS
    TypeOK
    NoEcho
PROPERTIES
    Converges
    MainLoopResponds
    EndFreesPeer
CHECK_DEADLOCK FALSE
