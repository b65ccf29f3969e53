CONSTANTS
    MAX_SEQ = 16
    arq_max_window_ = 2
    ack_period_ = 1
    MAX_NUM_ACK = 100
    queue_length = 5
    Word = 64
    Sdus <- OneBlock
    Lossy = {"pdu"}
    MaxBlocks = 7
    MaxFlight = 2
    MaxPack = 1
    MaxHeld = 3
SPECIFICATION FairSpec
PROPERTIES EventuallyDelivered FeedbackDequeues
