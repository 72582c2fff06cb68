CONSTANTS
    cmdPrompt = cmdPrompt
    cmdCancel = cmdCancel
    cmdLifecycle = cmdLifecycle
    cmdBatch = cmdBatch
    cmdDelete = cmdDelete
    cmdFirst = cmdFirst
    cmdSecond = cmdSecond
    NoCommand = NoCommand
    Commands = {cmdLifecycle, cmdFirst}
    Resent = {}
    Versioned = {}
    Refusals = FALSE
    Distrusts = {}
    MaxCrashes = 1
    MaxSeals = 1
    StagingFails = FALSE
    Op <- MCOp
    Key <- MCKey
    Keys <- MCKeys
    Target <- MCTarget
    Deliveries <- MCDeliveries
    TaskIds <- MCTaskIds
SPECIFICATION Spec
CHECK_DEADLOCK FALSE
INVARIANTS InterruptedHasNoEffect ExecutionIsJournaled SessionSerial TerminalBeforeEvent
