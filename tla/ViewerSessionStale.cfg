SPECIFICATION Spec
CONSTANTS
  MaxConnects = 2
  Devices = {desk}
  Keys = {k1, k2}
  None = None
  MAX_RECONNECT_ATTEMPTS = 1
  RelayMayFail = FALSE
INVARIANTS
  OkMeansUserOrHost
CHECK_DEADLOCK FALSE
