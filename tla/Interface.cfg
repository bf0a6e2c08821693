SPECIFICATION FairSpec
CONSTANTS
    Sizes <- OneOrFour
    Notices = 1
    MaxEvents = 3
    MaxKeys = 3
    MaxTries = 2
    Page = 2
    Height = 2
INVARIANTS
    TypeOK
    NewestInSight
PROPERTIES
    LogIsALine
    AllWritten
    NotDragged
    EscQuits
CHECK_DEADLOCK FALSE
