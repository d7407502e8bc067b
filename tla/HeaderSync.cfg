SPECIFICATION FairSpec
CONSTANTS
    l1 = l1
    l2 = l2
    l3 = l3
    Lanes = {l1, l2, l3}
    MaxHeight = 2
    MaxSlot = 2
    Cuts <- SomeCuts
    Messages <- TwoSlots
    Lost <- AllButSecond
    LateBatches <- Second
    FastSync = FALSE
    OptimisticTips = TRUE
INVARIANTS
    StoreIsClosed
    NextSlotIsReady
    CommitsAreKept
PROPERTIES
    ImplementsLog
    EveryCutIsExecuted
    EveryPrepareIsVoted
CHECK_DEADLOCK FALSE
