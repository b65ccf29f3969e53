SPECIFICATION Spec
CONSTANTS
  HDR_MAC802_16_SIZE = 6
  HDR_MAC802_16_FRAGSUB_SIZE = 2
  FsnMod = 8
  SlotCapacity = 6
  FragEnable = TRUE
  Sizes = {8, 24}
  Rooms = {18}
  MaxPackets = 3
  MaxFlight = 3
  MaxLost = 2
INVARIANTS WholePackets
CHECK_DEADLOCK FALSE
