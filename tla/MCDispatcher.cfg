SPECIFICATION FairSpec
CONSTANTS
    Datasets = {d1, d2, d3, undeployed}
    Deployed = {d1, d2, d3}
    MaxConcurrency = 2
INVARIANTS
    ReportedStatusIsHonest
    FaultsAreIsolated
PROPERTIES ExecutedInOrder DispatchEnds
