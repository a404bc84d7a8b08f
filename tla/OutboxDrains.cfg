CONSTANTS
    dispatcher = dispatcher
    direct = direct
    Entries = {1, 2}
    Marker <- RequestAndApproval
    Brokers = {dispatcher, direct}
    Direct = {direct}
    CrashAt = {"stage", "commented", "set", "event"}
    MaxAttempts = 1
    MaxGates = 1
    MaxBlocks = 0
    MaxHeads = 0
    MaxOutages = 1
    MaxCrashes = 1
SPECIFICATION FairSpec
CHECK_DEADLOCK FALSE
PROPERTIES
    RefinesPublication
    Drains
