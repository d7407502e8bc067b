SPECIFICATION FairSpec
CONSTANTS
    r1 = r1
    r2 = r2
    r3 = r3
    r4 = r4
    None = None
    Authorities <- FourReplicas
    MaxSlot = 4
    K = 2
    EpochSlots = 4
    AppliedBegin = 2
    Signals = {}
    Expiring = {3, 4}
    Crashed = {r1}
INVARIANTS
    TicketStartsTimer
    ProposerVotes
PROPERTIES
    KeepsWindow
    EverySlotCommits
CHECK_DEADLOCK FALSE
