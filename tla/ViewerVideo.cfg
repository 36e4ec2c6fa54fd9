SPECIFICATION VideoSpec
CONSTANTS
    InFlight = 2
    MaxFrames = 2
    MaxClicks = 2
INVARIANTS
    FirstIsKey
    IndexIsExact
PROPERTIES
    PictureComes
