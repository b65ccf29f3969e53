SPECIFICATION FairSpec
CONSTANTS
  Stations = {1, 2}
  InitCodes = {2}
  BwCodes = {0}
  init_contention_size = 1
  backoff_start = 0
  backoff_stop = 1
  reg_req_retry = 1
  CDMA_TIMEOUT = 2
  t6time = 2
  Opportunities = 1
  Lossy = {"map", "rng", "synch"}
  None = None
INVARIANTS ContentionTypeOK CollisionsNotGranted
PROPERTIES OwnerAnswers RequestEnds
