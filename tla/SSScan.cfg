SPECIFICATION FairSpec
CONSTANTS
  b1 = b1
  b2 = b2
  c1 = c1
  c2 = c2
  BS = {b1, b2}
  Cid = {c1}
  None = None
  NbFreq = 3
  FreqOf <- MCFreqOf
  Frame <- LiveFrames
  RegReqRetry = 1
  ScanReqRetry = 0
  ScanIteration = 2
  Interleaving = 1
  StartFrame = 0
  HandoffFrames = 0
  Delayed = {}
  MaxRx = 0
CHECK_DEADLOCK FALSE
INVARIANTS ScanFlagCoversScan ScanKeepsLink PausedScanIsSound ListensToPeer
PROPERTIES ImplementsLink EventuallySynchronised ScanEnds
