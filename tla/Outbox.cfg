SPECIFICATION FairSpec
CONSTANTS
    x = x
    y = y
    Peers = {x, y}
    OwnSide = {x}
    Targeted = TRUE
    Scenarios <- SomeScenarios
    gc_depth = 1
    k = 1
    MaxTraffic = 2
    StartHeight = 3
    Heights = {3}
    Slots = {4}
    MaxBreaks = 1
INVARIANT AckedIsTaken
PROPERTIES
    ImplementsDelivery
    EveryoneIsServed
CHECK_DEADLOCK FALSE
