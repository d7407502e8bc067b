SPECIFICATION Spec
CONSTANTS
    r1 = r1
    r2 = r2
    r3 = r3
    r4 = r4
    None = None
    Authorities <- TwoReplicas
    MaxSlot = 5
    K = 1
    EpochSlots = 3
    AppliedBegin = 2
    Signals <- UpAndDown
    Expiring = {4}
    Crashed = {}
INVARIANTS
    TypeOK
    PendingIsAhead
    SlotsAreOpened
PROPERTIES
    UpdatedOnSchedule
CHECK_DEADLOCK FALSE
