CONSTANTS
    Station = {s1}
    Flows <- Up
    None = None
    MaxCid = 4
    MaxReg = 1
    MaxLost = 1
    MaxHandover = 0
SPECIFICATION FairSpec
PROPERTY FlowsSetUp
CHECK_DEADLOCK FALSE
