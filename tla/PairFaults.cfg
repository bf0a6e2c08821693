SPECIFICATION FairSpec
CONSTANTS
    Nodes <- Pair
    Conns <- OneConn
    Bootstrap <- OneDial
    Unreachable <- NoDials
    Room <- OneRoom
    QueueDepth = 1
    MaxGossip = 2
    MaxSays = 2
    LongTexts <- ShortOrLong
    MaxTimeouts = 1
    MaxCuts = 1
    MayRestart <- NodeOne
    NoLink = NoLink
    NoSender = NoSender
INVARIANTS
    InOrder
    SettledAgree
    ShownIsHeld
PROPERTIES
    FallsSilent
CHECK_DEADLOCK FALSE
