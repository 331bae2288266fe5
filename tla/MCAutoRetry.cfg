SPECIFICATION Spec
CONSTANTS
    Attempts = {1}
    MaxChanges = 2
    MaxPolls = 2
    HttpRetry = {"yes"}
    Programs <- DomainProgram
    DomainFailures <- SomeFailures
INVARIANTS AmbiguousIsNotRetried
CHECK_DEADLOCK FALSE
