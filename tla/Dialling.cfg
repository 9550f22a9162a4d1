CONSTANTS
    Nodes = {a, b}
    Listeners = {a, b}
    Conns <- MCConns
    MaxAttempts = 2
    QueueLimit = 2
    Troubles = {"pair", "exit", "loss", "expiry"}
    MaxTroubles = 1
    Connections = 3
SPECIFICATION FairSpec
INVARIANTS
    TypeOK
    ConnectedMeansSession
    ListedMeansSession
PROPERTIES
    HandshakeResolves
    MainLoopReturns
CHECK_DEADLOCK FALSE
