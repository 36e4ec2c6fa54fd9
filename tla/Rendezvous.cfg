SPECIFICATION FairSpec
CONSTANTS
  h1 = h1
  h2 = h2
  v = v
  desk = desk
  k1 = k1
  k2 = k2
  None = None
  Keys = {k1, k2}
  ShardOf <- OneShard
  Conns = {h1, h2, v}
  Devices = {desk}
  MayRegister <- SameDevice
  KeyOf <- AllSigned
  QUEUE = 2
  max_devices = 1
  require_signed_register = FALSE
  MaxRequests <- HostTwice
  MaxTokens = 1
INVARIANTS
  SoleRegistrationStays
PROPERTIES
  OfferedEntryStable
  DownEndsOrDeadlocks
CHECK_DEADLOCK FALSE
