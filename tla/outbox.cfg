CONSTANTS
    roomA = roomA
    roomB = roomB
    old = old
    new = new
    result = result
    pointer1 = pointer1
    pointer2 = pointer2
    wsA = wsA
    wsB = wsB
    NoKey = NoKey
    NoDelivery = NoDelivery
    Rooms = {roomA, roomB}
    Deliveries = {old, new, pointer1}
    Restaged = {}
    Refusable = {pointer1}
    MaxFails = 1
    MaxCrashes = 1
    Room <- MCRoom
    Kind <- MCKind
    Key <- MCKey
    Version <- MCVersion
    Priority <- MCPriority
    MaxCalls <- MCCalls
SPECIFICATION FairSpec
CHECK_DEADLOCK FALSE
INVARIANTS TypeOK NoStrandedDelivery
PROPERTIES KeepsPromise EveryDeliverySettles EveryConfirmationSettles
