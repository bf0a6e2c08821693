SPECIFICATION Spec
CONSTANTS
    Updates = {1}
    Pid <- ReusedPid
    MaxFaults = 1
    Original = Original
    NoFile = NoFile
PROPERTIES
    FailsUntouched
CHECK_DEADLOCK FALSE
