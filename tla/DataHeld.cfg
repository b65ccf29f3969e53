CONSTANTS
    None = None
    IfqLimit = 3
    QueueLength = 2
    MaxPackets = 2
SPECIFICATION FairSpec
PROPERTY UpperLayerResumes
CHECK_DEADLOCK FALSE
