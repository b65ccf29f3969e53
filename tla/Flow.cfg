CONSTANTS
    Station = {s1}
    Flows <- BothArq
    None = None
    MaxCid = 6
    MaxReg = 3
    MaxLost = 1
    MaxHandover = 2
SPECIFICATION FairSpec
INVARIANTS DataAccepted FlowsAgree SenderTimersRun
PROPERTY FlowsSetUpUnlessLost
CHECK_DEADLOCK FALSE
