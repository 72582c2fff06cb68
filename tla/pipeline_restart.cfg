CONSTANTS
    cmdPrompt = cmdPrompt
    cmdCancel = cmdCancel
    cmdLifecycle = cmdLifecycle
    cmdBatch = cmdBatch
    cmdDelete = cmdDelete
    cmdFirst = cmdFirst
    cmdSecond = cmdSecond
    NoCommand = NoCommand
    Commands = {cmdPrompt, cmdBatch}
    Resent = {}
    Versioned = {}
    Refusals = TRUE
    Distrusts = {}
    MaxCrashes = 1
    MaxSeals = 0
    StagingFails = TRUE
    Op <- MCOp
    Key <- MCKey
    Keys <- MCKeys
    Target <- MCTarget
    Deliveries <- MCDeliveries
    TaskIds <- MCTaskIds
SPECIFICATION Spec
CHECK_DEADLOCK FALSE
INVARIANTS TypeOK NoReplayAfterRestart NoStrandedCommand
PROPERTY JournalForward
