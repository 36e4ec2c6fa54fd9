SPECIFICATION FairSpec
CONSTANTS
  MaxConnects = 3
  Devices = {desk}
  Keys = {k1, k2}
  None = None
  MAX_RECONNECT_ATTEMPTS = 1
  RelayMayFail = TRUE
INVARIANTS
  SlotIsLive
  TrustIsConfirmed
PROPERTIES
  PinnedKeyStays
  CancelledLeaves
CHECK_DEADLOCK FALSE
