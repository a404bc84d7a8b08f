CONSTANTS
    t1 = t1
    t2 = t2
    dispatch = dispatch
    release = release
    none = none
    g1 = g1
    g2 = g2
    Tasks = {t1, t2}
    Brokers = {dispatch, release}
    Releaser = release
    Grants = {g1}
    None = none
    MaxAttempt = 1
    MaxHead = 1
    MaxCommits = 3
    MaxIntegratorCrashes = 0
    MaxBrokerCrashes = 1
    MaxEdits = 0
    MaxBlocks = 0
    MaxFindings = 1
SPECIFICATION Spec
SYMMETRY Interchangeable
INVARIANTS
    RecordedOnPreparedBase
    RevertedOnce
    PhasesEarned
