SPECIFICATION Spec
CONSTANTS
  Caps = {"KeyCombo"}
  burst = 1
  refill_every = 2
  daily_max = 1
  Day = 1
  MaxLines = 2
  MaxClip = 2
  Cap128 = 1
INVARIANTS
  NothingLeftPressed
  ReadIsNews
  LazyRefillIsExact
PROPERTIES
  RequestsAreAnswered
CHECK_DEADLOCK FALSE
