CONSTANTS
    MAX_SEQ = 8
    arq_max_window_ = 4
    ack_period_ = 1
    MAX_NUM_ACK = 100
    queue_length = 4
    Word = 64
    Sdus <- OneBlock
    Lossy = {"pdu"}
    MaxBlocks = 8
    MaxFlight = 1
    MaxPack = 2
    MaxHeld = 4
SPECIFICATION Spec
INVARIANTS NothingForgotten
