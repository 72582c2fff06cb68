SPECIFICATION FairSpec
CONSTANTS
    itemA = itemA
    itemB = itemB
    Work <- TwoItems
    RepairNodes <- EveryNode
    MaxUpdates = 2
    MaxCrashes = 2
    MaxFails = 2
    MaxPromotions = 2
CHECK_DEADLOCK FALSE
INVARIANTS
    TypeOK
    NoWorkLost
    RetiredStaysRetired
    AtMostTwoDeployments
PROPERTY TransactionEnds
