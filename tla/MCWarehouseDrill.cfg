SPECIFICATION DrillSpec
CONSTANTS
    r1 = r1
    r2 = r2
    o1 = o1
    NoRun = NoRun
    Ops = {o1}
    Runs <- MCRuns
    KeyOf <- MCKeyOf
    Sids = {1, 2}
    MaxProbes = 4
    Requests <- MCRequests
SYMMETRY MCSymmetry
INVARIANTS
    PassIsProven
    RetryEligibleIsSafe
PROPERTIES
    KillOnlyVerified
    DrivesRecovery
