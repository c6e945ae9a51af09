CONSTANTS
    File = {fa, fb}
    Handle = {h1, h2}
    MaxLen = 3
    Closed = Closed
    Blank = Blank
    Idle = Idle
    CacheSize = 2
    OneFile = TRUE
    Serial = TRUE
SYMMETRY Interchangeable
SPECIFICATION Spec
INVARIANTS CacheMatches
PROPERTIES ImplementsPlainFiles
