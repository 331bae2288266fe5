SPECIFICATION Spec
CONSTANTS
    Runs = {r1, r2}
    NoRun = NoRun
    k1 = k1
    k2 = k2
    a = a
    b = b
    bad = bad
    NullKey = NullKey
    NoLimit = NoLimit
    Missing = Missing
    Whole = Whole
    Invalid = {bad}
    Batches <- SmallBatches
    Targets <- SomeTargets
    Configs <- EveryConfig
SYMMETRY Symmetry
INVARIANTS AuditIsHonest GateIsFailClosed
PROPERTIES AppendOnce NothingVanishes
CHECK_DEADLOCK FALSE
