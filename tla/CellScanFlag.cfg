SPECIFICATION CellSpec
CONSTANTS
  b1 = b1
  b2 = b2
  None = None
  FreqOf <- MCFreqOf
  Frame <- ScanBeacons
  BS = {b1}
  Cid = {1}
  NbFreq = 2
  RegReqRetry = 2
  ScanReqRetry = 0
  ScanIteration = 1
  Interleaving = 0
  StartFrame = 0
  HandoffFrames = 0
  Delayed = {}
  MaxRx = 0
  Levels = {"without"}
  MaxUp = 1
  MaxDown = 3
CHECK_DEADLOCK FALSE
INVARIANT ScanFlagMeansScan
