SPECIFICATION Spec
CONSTANTS
    r1 = r1
    r2 = r2
    r3 = r3
    r4 = r4
    None = None
    Authorities <- FourReplicas
    Slot = 1
    MaxView = 2
    FastPath = {}
    Switching = {}
    SlowSync = {}
    Expiring <- OthersInView1
    Reach <- ToNextLeader
    Uncovered = {}
    Crashed = {}
INVARIANT CommittedCutsAreKept
CHECK_DEADLOCK FALSE
