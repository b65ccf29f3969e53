SPECIFICATION Spec
CONSTANTS
  HDR_MAC802_16_SIZE = 6
  HDR_MAC802_16_FRAGSUB_SIZE = 2
  FsnMod = 4
  SlotCapacity = 6
  FragEnable = TRUE
  Sizes = {8, 16, 30}
  Rooms = {6, 12, 18, 24}
  MaxPackets = 3
  MaxFlight = 4
  MaxLost = 3
INVARIANTS FragTypeOK IntactDelivered DeliveredInOrder OneLossIsNoticed
CHECK_DEADLOCK FALSE
