SPECIFICATION Spec
CONSTANTS
    Runs = {r1, r2}
    NoRun = NoRun
    Keys = {k1, k2}
    Rows = {a}
    Gone = Gone
    MaxHistory = 3
    RequestUpper = FALSE
    Started = {"incremental", "rebuild", "leave", "enter", "redeploy"}
SYMMETRY Symmetry
INVARIANTS NothingLost OneMutator
PROPERTIES CommitsExactVersion BootstrapIsRebuild
