SPECIFICATION Spec
CONSTANTS
    Nodes <- Three
    Conns <- FourConns
    Bootstrap <- Chain
    Unreachable <- NotOne
    Room <- OneRoom
    QueueDepth = 2
    MaxGossip = 2
    MaxSays = 0
    LongTexts <- Short
    MaxTimeouts = 0
    MaxCuts = 0
    MayRestart <- Nobody
    NoLink = NoLink
    NoSender = NoSender
INVARIANTS
    DialedOnce
    MarksCleared
    MeshCloses
CHECK_DEADLOCK FALSE
