CONSTANTS
    Initiator = initiator
    Acceptor = acceptor
    Keys = {esc}
    Hotkey = {esc}
    Screen <- MCScreen
    TargetEdge <- MCTargetEdge
    Moves <- MCMoves
    Emulators = {initiator, acceptor}
    Interruptible = {initiator}
    BatchLimit = 2
    FrameFit = 2
    FifoDatagrams = FALSE
    LossyDatagrams = TRUE
    Budgets <- AcceptorActs
SPECIFICATION OneTypesSpec
INVARIANTS
    TypeOK
    PressedTracksKeyboard
    SeqIdentifiesFrame
CHECK_DEADLOCK FALSE
