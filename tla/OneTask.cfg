CONSTANTS
    t1 = t1
    t2 = t2
    dispatch = dispatch
    release = release
    none = none
    g1 = g1
    g2 = g2
    Tasks = {t1}
    Brokers = {dispatch}
    Releaser = none
    Grants = {g1}
    None = none
    MaxAttempt = 2
    MaxHead = 2
    MaxCommits = 4
    MaxIntegratorCrashes = 1
    MaxBrokerCrashes = 1
    MaxEdits = 1
    MaxBlocks = 1
    MaxFindings = 1
SPECIFICATION FairSpec
INVARIANTS
    LandedIsJournaled
    OnlyAuthorizedLands
    LandsOnce
    TerminalBacked
PROPERTIES
    RecordedCompletes
    ApprovedLands
