SPECIFICATION Spec
CONSTANTS
    Updates = {1, 2, 3}
    Pid <- ReusedPid
    MaxFaults = 2
    Original = Original
    NoFile = NoFile
INVARIANTS
    NoCloneBehind
    CopyIsWhole
    StartsOver
PROPERTIES
    OldOrNew
    InstallsItsOwn
CHECK_DEADLOCK FALSE
