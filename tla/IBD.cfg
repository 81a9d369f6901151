SPECIFICATION Spec
CONSTANTS
    Peers = {a, b}
    Boot = Boot
    Nobody = Nobody
    None = None
    MaxIBDs = 3
    MaxFaults = 1
    MaxTimeouts = 1
    MaxCrashes = 1
INVARIANTS
    ActiveIsComplete
    FreePrefixIsEmpty
    PointersFollowTheDatabase
    PanicsOnlyAfterATimeout
PROPERTIES
    IBDEnds
CHECK_DEADLOCK FALSE
