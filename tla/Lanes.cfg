SPECIFICATION FairSpec
CONSTANTS
    r1 = r1  r2 = r2  r3 = r3  r4 = r4
    Authorities <- FourReplicas
    Authors = {r1}
    MaxHeight <- TwoHeaders
    LateBatches <- Second
    Leaders = {r1}
    CutCondition = 1
    MayCrash = {r1, r2}
    OptimisticTips = TRUE
INVARIANTS
    CutsAreObtainable
PROPERTIES
    ImplementsChains
    OneHeaderPerHeight
    LanesGrow
    CutsAreVoted
    CutsSpread
CHECK_DEADLOCK FALSE
