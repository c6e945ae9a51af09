CONSTANTS
    NoState = NoState
    Pads <- OneButton
    Entries <- QuietEntries
    Apps <- EveryApp
    MaxRequests = 2
    HumanPace = TRUE
    EpiPrompt = FALSE
    BootBehindMenu = FALSE
SPECIFICATION Spec
INVARIANTS StateRuns
