SPECIFICATION FairSpec
CONSTANTS
    itemA = itemA
    itemB = itemB
    Work <- OneItem
    RepairNodes <- EveryNode
    MaxUpdates = 1
    MaxCrashes = 1
    MaxFails = 0
    MaxPromotions = 1
CHECK_DEADLOCK FALSE
PROPERTY KilledCoordinatorRecovers
