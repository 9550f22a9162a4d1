CONSTANTS
    Nodes = {a, b}
    Listeners = {a, b}
    Conns <- MCConns
    MaxAttempts = 2
    QueueLimit = 2
    Troubles = {"loss"}
    MaxTroubles = 1
    Connections = 3
SPECIFICATION FairSpec
PROPERTIES
    Reconnects
CHECK_DEADLOCK FALSE
