CONSTANTS
    dispatcher = dispatcher
    direct = direct
    Entries = {1, 2, 3}
    Marker <- RequestApprovalRequest
    Brokers = {dispatcher}
    Direct = {}
    CrashAt = {"stage", "bind", "commented", "set", "event", "receipt", "archive"}
    MaxAttempts = 2
    MaxGates = 1
    MaxBlocks = 1
    MaxHeads = 1
    MaxOutages = 0
    MaxCrashes = 1
SPECIFICATION Spec
CHECK_DEADLOCK FALSE
INVARIANTS
    JournalTruth
PROPERTIES
    EffectsUnheld
    RequestsMoveTheirAttempt
    ApprovalsAreCurrent
    RejectedForCause
