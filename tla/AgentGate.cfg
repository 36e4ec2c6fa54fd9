SPECIFICATION GateSpec
CONSTANTS
  Writers = {w1}
  MaxAppends = 3
  t1 = t1
  s1 = s1
  s2 = s2
  long = long
  Tokens = {t1}
  Scopes = {s1, s2, long}
  LongScopes = {long}
  GRANT_SECS = 1
  MAX_AUTO_APPROVE_ENTRIES = 1
  MAX_TTL_SECS = 2
  MaxTime = 2
  Granted <- MCGranted
  Ttl <- MCTtl
  KnownTokens <- MCKnownTokens
  Requests <- MCRequests
INVARIANTS
  AllowedIsOnRecord
  DangerIsConfirmed
  LateIsRefused
  ChainIntact
CHECK_DEADLOCK FALSE
