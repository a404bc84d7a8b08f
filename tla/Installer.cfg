CONSTANTS
    u1 = u1
    u2 = u2
    u3 = u3
    Updaters = {u1, u2, u3}
    Operations <- All
    Placed <- Either
    Extended = {2}
    MaxEdits = 2
    MaxFailures = 1
    MaxKills = 1
SPECIFICATION InstallerSpec
SYMMETRY Interchangeable
CHECK_DEADLOCK FALSE
INVARIANTS
    ProjectSurvives
PROPERTIES
    NoLoneDowngrade
