CONSTANTS
    b1 = b1
    b2 = b2
    u1 = u1
    e1 = e1
    r1 = r1
    n2 = n2
    x1 = x1
    x2 = x2
    x3 = x3
    Conns <- MCConns
    Kind <- MCKind
    Basic <- MCBasic
    Reserved <- MCReserved
    Period <- MCPeriod
    Codes <- MCCodes
    Requests <- MCRequests
    SlotCapacity = 2
    GENERIC_HEADER_SIZE = 2
    UlSlots = 12
    RangingSlots = {0, 6}
SPECIFICATION Spec
CHECK_DEADLOCK FALSE
INVARIANTS ExitOnlyWhenShort
