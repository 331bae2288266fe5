SPECIFICATION Spec
CONSTANTS
    r1 = r1
    r2 = r2
    r3 = r3
    o1 = o1
    NoRun = NoRun
    Ops = {o1}
    Runs <- MCRuns
    KeyOf <- MCKeyOf
    Sids = {1, 2}
    MaxProbes = 1
SYMMETRY MCSymmetry
INVARIANTS
    AtMostOnce
    JournalIsHonest
    EventsReplayJournal
PROPERTY ImplementsAtMostOnce
