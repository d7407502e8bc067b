SPECIFICATION Spec
CONSTANTS
    r1 = r1
    r2 = r2
    r3 = r3
    r4 = r4
    None = None
    Authorities <- FourReplicas
    Slot = 1
    MaxView = 3
    FastPath = {}
    Switching = {}
    SlowSync = {}
    Expiring <- TwiceInThree
    Reach <- NoConfirms
    Uncovered = {}
    Crashed = {r2}
INVARIANT HighestQCWins
CHECK_DEADLOCK FALSE
VIEW OrderOfView1
