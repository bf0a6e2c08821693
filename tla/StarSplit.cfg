SPECIFICATION Spec
CONSTANTS
    Nodes <- Three
    Conns <- FourConns
    Bootstrap <- Star
    Unreachable <- HubOnlySwapped
    Room <- OneRoom
    QueueDepth = 2
    MaxGossip = 2
    MaxSays = 0
    LongTexts <- Short
    MaxTimeouts = 0
    MaxCuts = 0
    MayRestart <- Nobody
    NoLink = NoLink
    NoSender = NoSender
INVARIANTS
    MeshSettles
CHECK_DEADLOCK FALSE
