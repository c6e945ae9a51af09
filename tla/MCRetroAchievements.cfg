CONSTANTS
    Title = {g1, g2, homebrew}
    Listed = {g1, g2}
    Poller = {p1, p2, p3}
    AtBoot = {p1, p2}
    Draw = draw
    None = None
    MaxPrograms = 2
    MaxFailures = 1
SPECIFICATION Spec
 
PROPERTIES NoGameDropped GameGetsLoaded
CHECK_DEADLOCK FALSE
