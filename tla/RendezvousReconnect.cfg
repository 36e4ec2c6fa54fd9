SPECIFICATION Spec
CONSTANTS
  h1 = h1
  h2 = h2
  v = v
  desk = desk
  k1 = k1
  k2 = k2
  None = None
  Keys = {k1, k2}
  ShardOf <- OneShard
  Conns = {h1, h2, v}
  Devices = {desk}
  MayRegister <- SameDevice
  KeyOf <- AllSigned
  QUEUE = 1
  max_devices = 2
  require_signed_register = FALSE
  MaxRequests <- Once
  MaxTokens = 1
INVARIANTS
  AckedIsReachable
CHECK_DEADLOCK FALSE
