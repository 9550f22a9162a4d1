CONSTANTS
    Initiator = initiator
    Acceptor = acceptor
    Keys = {esc}
    Hotkey = {esc}
    Screen <- MCScreen
    TargetEdge <- MCTargetEdge
    Moves <- MCMoves
    Emulators = {initiator, acceptor}
    Interruptible = {initiator}
    BatchLimit = 2
    FrameFit = 1
    FifoDatagrams = TRUE
    LossyDatagrams = FALSE
    Budgets <- BothAct
SPECIFICATION FairFreshSpec
INVARIANTS
    FocusConflictNoticed
    GrabFollowsFocus
PROPERTIES
    ConflictResolves
    TeardownPropagates
    ImplementsFocusHandoff
CHECK_DEADLOCK FALSE
