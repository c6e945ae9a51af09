CONSTANTS
    NoState = NoState
    Pads <- CancelEnter
    Entries <- JustList
    Apps <- JustGame
    MaxRequests = 2
    HumanPace = FALSE
    EpiPrompt = FALSE
    BootBehindMenu = TRUE
SPECIFICATION FairSpec
INVARIANTS ShellNotStuck NoLostWakeup
PROPERTIES ClosedMenuReturns  PauseOnce
