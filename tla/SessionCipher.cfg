SPECIFICATION Spec
CONSTANTS
  U64_MAX = 6
  REPLAY_WINDOW = 3
  MaxCalls = 10
INVARIANTS
  ReuseTakesTwoRefusals
  FreshIsExact
PROPERTIES
  ImplementsOnceChannel
