CONSTANTS
    Initiator = initiator
    Acceptor = acceptor
    Keys = {esc, shift}
    Hotkey = {esc}
    Screen <- MCScreen
    TargetEdge <- MCTargetEdge
    Moves <- MCMoves
    Emulators = {initiator, acceptor}
    Interruptible = {initiator}
    BatchLimit = 2
    FrameFit = 2
    FifoDatagrams = TRUE
    LossyDatagrams = FALSE
    Budgets <- InitiatorActs
SPECIFICATION FreshSpec
INVARIANTS
    SwitchReleasesKeys
CHECK_DEADLOCK FALSE
