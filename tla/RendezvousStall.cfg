SPECIFICATION FairSpec
CONSTANTS
  h1 = h1
  h2 = h2
  v = v
  desk = desk
  k1 = k1
  k2 = k2
  None = None
  Keys = {k1, k2}
  ShardOf <- OneShard
  Conns = {h1, h2, v}
  Devices = {desk}
  MayRegister <- OneHost
  KeyOf <- AllSigned
  QUEUE = 2
  max_devices = 2
  require_signed_register = FALSE
  MaxRequests <- Once
  MaxTokens = 2
PROPERTIES
  CleanupNeverStalls
CHECK_DEADLOCK FALSE
