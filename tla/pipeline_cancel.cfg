CONSTANTS
    cmdPrompt = cmdPrompt
    cmdCancel = cmdCancel
    cmdLifecycle = cmdLifecycle
    cmdBatch = cmdBatch
    cmdDelete = cmdDelete
    cmdFirst = cmdFirst
    cmdSecond = cmdSecond
    NoCommand = NoCommand
    Commands = {cmdPrompt, cmdCancel}
    Resent = {cmdPrompt}
    Versioned = {}
    Refusals = FALSE
    Distrusts = {}
    MaxCrashes = 0
    MaxSeals = 0
    StagingFails = FALSE
    Op <- MCOp
    Key <- MCKey
    Keys <- MCKeys
    Target <- MCTarget
    Deliveries <- MCDeliveries
    TaskIds <- MCTaskIds
SPECIFICATION FairSpec
CHECK_DEADLOCK FALSE
PROPERTIES CancelEndsTurn EveryCommandAnswered
