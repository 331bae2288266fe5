SPECIFICATION Spec
CONSTANTS
    Attempts = {1, 2}
    MaxChanges = 2
    MaxPolls = 1
    HttpRetry = {"yes"}
    Programs <- EveryProgram
    DomainFailures <- SomeFailures
INVARIANTS SuccessIsProven ChildIsFaithful
PROPERTIES ProgressIsSound EveryAttemptAnswered
CHECK_DEADLOCK FALSE
