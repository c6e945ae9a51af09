CONSTANTS
    File = {fa}
    Slot = {1}
    MaxLen = 2
    MaxOpens = 1
    MaxSaved = 1
    Cell = {hole, x, y}
    Hole = hole
    Junk = hole
    None = None
SPECIFICATION Spec
PROPERTY WrittenStays
