SPECIFICATION FairSpec
CONSTANTS
  QUEUE = 2
  MAX_IN_FLIGHT = 2
  MaxThreads = 1
  MaxSeq = 4
  None = None
  HostCodecs = {{"Vp9", "Jpeg"}, {"Jpeg"}}
  ViewerCodecs = {{"Vp9", "Jpeg"}, {"Vp9"}}
PROPERTIES
  ThreadExitsAfterTeardown
CHECK_DEADLOCK FALSE
