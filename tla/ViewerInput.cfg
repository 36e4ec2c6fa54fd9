SPECIFICATION InputSpec
CONSTANTS
    Keys = {ctrl, w}
    Ctrl = ctrl
    BLOCKED_LETTERS = {w}
    Chords = {c1, c2}
    MaxPosition = 3
INVARIANTS
    MovesNeverGoBack
    PressIsAccounted
    LingeringIsBlocked
    TouchPressIsOwned
