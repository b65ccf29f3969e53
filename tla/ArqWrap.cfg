CONSTANTS
    MAX_SEQ = 8
    arq_max_window_ = 3
    ack_period_ = 1
    MAX_NUM_ACK = 100
    queue_length = 4
    Word = 64
    Sdus <- OneBlock
    Lossy = {}
    MaxBlocks = 12
    MaxFlight = 1
    MaxPack = 1
    MaxHeld = 2
SPECIFICATION Spec
PROPERTIES FeedbackDequeues
