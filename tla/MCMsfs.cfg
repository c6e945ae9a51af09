CONSTANTS
    File = {fa}
    Slot = {1, 2}
    MaxLen = 2
    MaxOpens = 2
    MaxSaved = 1
    Cell = {hole, x}
    Hole = hole
    Junk = hole
    None = None
SPECIFICATION Spec
INVARIANT AsideKept
PROPERTIES  ImplementsPspFiles
