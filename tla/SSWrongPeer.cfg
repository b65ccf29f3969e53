SPECIFICATION Spec
CONSTANTS
  b1 = b1
  b2 = b2
  c1 = c1
  c2 = c2
  BS = {b1, b2}
  Cid = {c1}
  None = None
  NbFreq = 2
  FreqOf <- MCFreqOf
  Frame <- HandoverFrames
  RegReqRetry = 1
  ScanReqRetry = 0
  ScanIteration = 1
  Interleaving = 0
  StartFrame = 0
  HandoffFrames = 0
  Delayed = {}
  MaxRx = 0
CHECK_DEADLOCK FALSE
INVARIANT ListensToPeer
