SPECIFICATION RelayFairSpec
CONSTANTS
  h = h
  v = v
  g = g
  None = None
  Conns = {h, v, g}
  Tokens = {1, 2}
  TokenOf <- TokenOf3
  RoleOf <- RoleOf3
  MaxFrames <- Frames3
  FWD = 1
  max_relay_sessions = 1
INVARIANTS
  PairedByToken
  NoGaps
PROPERTIES
  SlotsAreFreed
CHECK_DEADLOCK FALSE
