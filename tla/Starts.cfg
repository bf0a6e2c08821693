SPECIFICATION Spec
CONSTANTS
    k1 = k1 k2 = k2 k3 = k3 c1 = c1 c2 = c2 c3 = c3
    Nothing = Nothing
    Fragment = Fragment
    Keys <- ThreeKeys
    Codes <- ThreeCodes
    Runs = {1, 2}
    MaxStarts = 4
    MaxKills = 1
    Modes = {FALSE, TRUE}
SYMMETRY Alike
INVARIANTS
    TypeOK
    OneIdentity
    GivenIsRemembered
PROPERTIES
    IdentityKept
    NoneForgotten
CHECK_DEADLOCK FALSE
