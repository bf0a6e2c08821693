SPECIFICATION FairSpec
CONSTANTS
    Nodes <- Pair
    Conns <- TwoConns
    Bootstrap <- BothDial
    Unreachable <- NoDials
    Room <- OneRoom
    QueueDepth = 2
    MaxGossip = 2
    MaxSays = 1
    LongTexts <- Short
    MaxTimeouts = 0
    MaxCuts = 0
    MayRestart <- Nobody
    NoLink = NoLink
    NoSender = NoSender
INVARIANTS
    TypeOK
    RegisteredIsLive
    FramesInOrder
    NoDuplicates
    DialsConnect
PROPERTIES
    MeshForms
CHECK_DEADLOCK FALSE
