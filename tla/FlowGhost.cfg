CONSTANTS
    Station = {s1}
    Flows <- UpArq
    None = None
    MaxCid = 4
    MaxReg = 1
    MaxLost = 0
    MaxHandover = 0
SPECIFICATION Spec
INVARIANT NoGhostTimer
CHECK_DEADLOCK FALSE
