SPECIFICATION Spec
CONSTANTS
  Stations = {1, 2}
  InitCodes = {2}
  BwCodes = {0}
  init_contention_size = 2
  backoff_start = 1
  backoff_stop = 2
  reg_req_retry = 1
  CDMA_TIMEOUT = 2
  t6time = 2
  Opportunities = 2
  Lossy = {}
  None = None
INVARIANT OneStationPerOpportunity
