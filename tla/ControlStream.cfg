CONSTANTS
    Initiator = i
    Acceptor = a
    Versions = {1, 2}
    NoEdge = none
    Base = 4
    Letter = 1
    Size <- MCSize
    Turns <- MCTurns
    InitiatorTurns = 2
    AcceptorTurns = 2
SPECIFICATION FairMCSpec
INVARIANTS
    TypeOK
    HeardIsSent
    EdgesAgree
PROPERTIES
    EndIsHeard
CHECK_DEADLOCK FALSE
