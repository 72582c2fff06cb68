CONSTANTS
    cmdPrompt = cmdPrompt
    cmdCancel = cmdCancel
    cmdLifecycle = cmdLifecycle
    cmdBatch = cmdBatch
    cmdDelete = cmdDelete
    cmdFirst = cmdFirst
    cmdSecond = cmdSecond
    NoCommand = NoCommand
    Commands = {cmdFirst}
    Resent = {cmdFirst}
    Versioned = {cmdFirst}
    Refusals = TRUE
    Distrusts = {"expired"}
    MaxCrashes = 1
    MaxSeals = 1
    StagingFails = FALSE
    Op <- MCOp
    Key <- MCKey
    Keys <- MCKeys
    Target <- MCTarget
    Deliveries <- MCDeliveries
    TaskIds <- MCTaskIds
SPECIFICATION FairSpec
CHECK_DEADLOCK FALSE
PROPERTY EveryCommandAnswered
