CONSTANTS
    MAX_SEQ = 16
    arq_max_window_ = 3
    ack_period_ = 1
    MAX_NUM_ACK = 100
    queue_length = 4
    Word = 64
    Sdus <- LongPackets
    Lossy = {"pdu", "feedback"}
    MaxBlocks = 5
    MaxFlight = 1
    MaxPack = 4
    MaxHeld = 3
SPECIFICATION Spec
INVARIANTS ArqTypeOK InOrderDelivery NeverAborts RetransmitsSent
PROPERTIES ImplementsWindow
