CONSTANTS
    MAX_SEQ = 16
    arq_max_window_ = 3
    ack_period_ = 1
    MAX_NUM_ACK = 100
    queue_length = 5
    Word = 64
    Sdus <- Mixed
    Lossy = {}
    MaxBlocks = 4
    MaxFlight = 1
    MaxPack = 3
    MaxHeld = 2
SPECIFICATION Spec
INVARIANTS InOrderDelivery
