CONSTANTS
    Station = {s1, s2}
    Flows <- DownArq
    None = None
    MaxCid = 4
    MaxReg = 2
    MaxLost = 0
    MaxHandover = 1
SPECIFICATION Spec
INVARIANT SenderTimersRun
CHECK_DEADLOCK FALSE
