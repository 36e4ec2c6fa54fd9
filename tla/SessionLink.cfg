CHECK_DEADLOCK FALSE
SPECIFICATION LinkSpec
CONSTANTS
    Cap = 1
    Cmds = 1
INVARIANTS
    ReadInItsCipher
PROPERTIES
    ViewerGoneIsNoticed
    NobodyWaitsForEver
    CancelIsHeard
