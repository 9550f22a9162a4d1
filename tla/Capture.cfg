CONSTANTS
    Backends = {"evdev", "x11"}
    Capacity = 1
    Events <- MCEvents
    KeyEvents = 2
    MouseEvents = 1
    Wishes = 2
SPECIFICATION FairSpec
INVARIANTS
    TypeOK
    NothingLostOnTheWay
    GrabKeepsUp
    LateAtMostOne
PROPERTIES
    EventsArrive
    ShutdownEndsCapture
CHECK_DEADLOCK FALSE
