CONSTANTS
    Slot = {0, 1}
    MaxMoment = 3
    MaxCrashes = 1
    MaxModules = 2
    Lost = Lost
    Empty = Empty
    None = None
SPECIFICATION Spec
INVARIANTS StorageAlone  CardIsOurs
PROPERTIES PspWakesUp ImplementsStateSlots
