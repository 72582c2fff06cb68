CONSTANTS
    cmdPrompt = cmdPrompt
    cmdCancel = cmdCancel
    cmdLifecycle = cmdLifecycle
    cmdBatch = cmdBatch
    cmdDelete = cmdDelete
    cmdFirst = cmdFirst
    cmdSecond = cmdSecond
    NoCommand = NoCommand
    Commands = {cmdFirst, cmdSecond}
    Resent = {cmdSecond}
    Versioned = {}
    Refusals = FALSE
    Distrusts = {}
    MaxCrashes = 0
    MaxSeals = 0
    StagingFails = FALSE
    Op <- MCOp
    Key <- MCKey
    Keys <- MCKeys
    Target <- MCTarget
    Deliveries <- MCDeliveries
    TaskIds <- MCTaskIds
SPECIFICATION Spec
CHECK_DEADLOCK FALSE
INVARIANT AtMostOnce
