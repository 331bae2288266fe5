SPECIFICATION Spec
CONSTANTS
    Calls = {c1, c2}
    MaxAttempts = 2
    Batches = {q1, q2}
    Reviews = {v1, v2}
    NoReview = NoReview
    NoRun = NoRun
SYMMETRY Symmetry
INVARIANTS OneEffectPerCall RecordsAreHonest MarkerIsBacked GovernanceHolds
CHECK_DEADLOCK FALSE
