CONSTANTS
    Unit = 2
    Paths <- MCPaths
    Mice = {m1, m2}
    Keyboard = kb
    Gestures <- MCGestures
    Codes = {30, 300}
    Screens <- MCScreens
    MaxSide = 7
    MaxZone = 3
    Inputs = 3
SPECIFICATION MCSpec
INVARIANTS
    TypeOK
    MotionArrives
    ScrollArrives
    KeysArrive
    RecentredIsQuiet
    EdgeStaysReachable
CHECK_DEADLOCK FALSE
