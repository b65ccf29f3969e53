SPECIFICATION Spec
CONSTANTS
  b1 = b1
  b2 = b2
  c1 = c1
  c2 = c2
  BS = {b1, b2}
  Cid = {c1, c2}
  None = None
  NbFreq = 2
  FreqOf <- MCFreqOf
  Frame <- EntryFrames
  RegReqRetry = 2
  ScanReqRetry = 0
  ScanIteration = 1
  Interleaving = 0
  StartFrame = 0
  HandoffFrames = 0
  Delayed = {"RNG_RSP", "REG_RSP"}
  MaxRx = 2
CHECK_DEADLOCK FALSE
INVARIANTS TypeOK RetriesBounded
