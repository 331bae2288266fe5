SPECIFICATION Spec
CONSTANTS
    Keys = {k1, k2}
    Data = {d1, d2}
    MaxValue = 3
    MaxRows = 3
    MaxRuns = 2
    Configs <- EveryConfig
SYMMETRY Symmetry
INVARIANTS EveryRowHandedOver SuccessIsCovered
PROPERTIES TargetIsSound WatermarkMonotone
CHECK_DEADLOCK FALSE
