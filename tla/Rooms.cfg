SPECIFICATION Spec
CONSTANTS
    Nodes <- Three
    Conns <- ThreeConns
    Bootstrap <- SelfDial
    Unreachable <- NoDials
    Room <- TwoRooms
    QueueDepth = 2
    MaxGossip = 2
    MaxSays = 1
    LongTexts <- Short
    MaxTimeouts = 0
    MaxCuts = 0
    MayRestart <- Nobody
    NoLink = NoLink
    NoSender = NoSender
INVARIANTS
    OnlyRoommates
    Delivered
CHECK_DEADLOCK FALSE
