CONSTANTS
    roomA = roomA
    roomB = roomB
    old = old
    new = new
    result = result
    pointer1 = pointer1
    pointer2 = pointer2
    wsA = wsA
    wsB = wsB
    NoKey = NoKey
    NoDelivery = NoDelivery
    Rooms = {roomA, roomB}
    Deliveries = {wsA, wsB}
    Restaged = {}
    Refusable = {}
    MaxFails = 1
    MaxCrashes = 0
    Room <- MCRoom
    Kind <- MCKind
    Key <- MCKey
    Version <- MCVersion
    Priority <- MCPriority
    MaxCalls <- MCCalls
SPECIFICATION Spec
CHECK_DEADLOCK FALSE
PROPERTY KeepsPromise
