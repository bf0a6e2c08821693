SPECIFICATION Spec
CONSTANTS
    Me = 2
    Others <- Three
    Names <- FourNames
    MyName = "bob"
    Canonical <- Lower
    MayOverlap = FALSE
INVARIANTS
    ClashesReported
CHECK_DEADLOCK FALSE
