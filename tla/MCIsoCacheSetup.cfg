CONSTANTS
    Size = 6
    MaxRead = 5
    None = None
    Num = 3
    Cap = 4
    Align = 2
    Sector = 2
    Threshold = 3
    MaxAhead = 1
    MaxAge = 3
SPECIFICATION SetupSpec
INVARIANTS ConfiguredCacheIsOn
