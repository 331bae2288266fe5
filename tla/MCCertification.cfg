CONSTANTS
    None = None
    w1 = w1
    w2 = w2
    h1 = h1
    h2 = h2
    Wheels <- MCWheels
    Hashes <- MCHashes
    Requests <- MCRequests
    Databases <- MCDatabases
    MaxRuns = 2
    MaxFaults = 1
SPECIFICATION Spec
INVARIANTS
    ReleaseIsProven
    ReleaseHidesNothing
    ReportIsHonest
    BusinessPassIsReal
PROPERTY
    NothingUnauthorized
CHECK_DEADLOCK FALSE
