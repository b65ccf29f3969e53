CONSTANTS
    Station = {s1}
    Flows <- Up
    None = None
    MaxCid = 4
    MaxReg = 2
    MaxLost = 0
    MaxHandover = 0
SPECIFICATION Spec
INVARIANT NoOrphan
CHECK_DEADLOCK FALSE
