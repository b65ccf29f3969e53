CONSTANTS
    None = None
    IfqLimit = 3
    QueueLength = 2
    MaxPackets = 5
SPECIFICATION Spec
INVARIANTS
    NothingVanishes
    InOrder
CHECK_DEADLOCK FALSE
