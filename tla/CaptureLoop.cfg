SPECIFICATION FairSpec
CONSTANTS
  QUEUE = 2
  MAX_IN_FLIGHT = 2
  MaxThreads = 2
  MaxSeq = 6
  None = None
  HostCodecs = {{"Vp9", "Jpeg"}, {"Jpeg"}}
  ViewerCodecs = {{"Vp9", "Jpeg"}, {"Vp9"}}
INVARIANTS
  InFlightBounded
PROPERTIES
  DecodableStream
  ReplacedThreadExits
CHECK_DEADLOCK FALSE
