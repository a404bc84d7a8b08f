CONSTANTS
    u1 = u1
    u2 = u2
    u3 = u3
    Updaters = {u1, u2, u3}
    Operations <- Updates
    Placed <- Released
    Extended = {2}
    MaxEdits = 0
    MaxFailures = 0
    MaxKills = 0
SPECIFICATION InstallerSpec
SYMMETRY Interchangeable
CHECK_DEADLOCK FALSE
PROPERTIES
    NoDowngrade
