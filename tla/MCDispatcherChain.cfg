SPECIFICATION Spec
CONSTANTS
    Datasets = {d1, d2, d3}
    Deployed = {d1, d2, d3}
    MaxConcurrency = 2
INVARIANT DependentsAreBlocked
