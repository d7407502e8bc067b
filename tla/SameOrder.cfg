SPECIFICATION Spec
CONSTANTS
    l1 = l1
    l2 = l2
    l3 = l3
    Lanes = {l1, l2, l3}
    MaxHeight = 2
    MaxSlot = 2
    Cuts <- SomeCuts
    Messages <- SameOrder
    Lost <- AllButSecond
    LateBatches <- Second
    FastSync = FALSE
    OptimisticTips = TRUE
INVARIANT CommitsAreReprocessed
CHECK_DEADLOCK FALSE
