CONSTANTS
    Threads = {t1, t2}
    Mount = mount
    Nobody = nobody
    Slots = {0}
    Sectors = 2
    IdSector = 1
    AfterMount = TRUE
    MaxLen = 2
    Directly = {1}
    MaxRetries = 2
    MaxFaults = 2
SPECIFICATION FairSpec
INVARIANTS ReadsRight HandlesKept
PROPERTIES CallsReturn
CHECK_DEADLOCK FALSE
