CONSTANTS
    MAX_SEQ = 16
    arq_max_window_ = 2
    ack_period_ = 1
    MAX_NUM_ACK = 100
    queue_length = 4
    Word = 64
    Sdus <- OneBlock
    Lossy = {}
    MaxBlocks = 4
    MaxFlight = 1
    MaxPack = 2
    MaxHeld = 2
SPECIFICATION Spec
PROPERTIES FeedbackDequeues
