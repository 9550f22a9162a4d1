CONSTANTS
    Initiator = i
    Acceptor = a
    Versions = {1}
    NoEdge = none
    Base = 4
    Letter = 1
    Size <- MCSize
    Turns <- MCTurns
    InitiatorTurns = 1
    AcceptorTurns = 1
SPECIFICATION FairMCSpec
PROPERTY
    SentIsHeard
CHECK_DEADLOCK FALSE
