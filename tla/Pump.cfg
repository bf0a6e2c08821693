SPECIFICATION FairSpec
CONSTANTS
    Nodes <- Three
    Links <- HubEnds
    QueueDepth = 1
    Capacity = 1
    MaxSays <- HubTalks
    MayStall <- ThreeStalls
PROPERTIES
    IsLine
    SpeaksOn
    Drains
CHECK_DEADLOCK FALSE
