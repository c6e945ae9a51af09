CONSTANTS
    NoState = NoState
    Pads <- OneButton
    Entries <- QuietEntries
    Apps <- EveryApp
    MaxRequests = 2
    HumanPace = TRUE
    EpiPrompt = TRUE
    BootBehindMenu = FALSE
SPECIFICATION FairSpec
INVARIANTS   PowerLocked PopsHeld  StatesFollowMenu
  
