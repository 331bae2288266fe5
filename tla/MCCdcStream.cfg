SPECIFICATION Spec
CONSTANTS
    Keys = {1, 2}
    Vals = {1, 2}
    MaxRowSequence = 9
    Setups <- MCSetups
    MaxVersion = 3
    MaxFaults = 2
CHECK_DEADLOCK FALSE
INVARIANTS
    TargetIsReplay
    ReplayNeverConflicts
PROPERTIES
    CheckpointIsSound
