SPECIFICATION FairSpec
CONSTANTS
    r1 = r1
    r2 = r2
    r3 = r3
    r4 = r4
    None = None
    Authorities <- FourReplicas
    Slot = 1
    MaxView = 2
    FastPath <- All
    Switching = {}
    SlowSync = {}
    Expiring <- OthersInView1
    Reach <- FirstLeaderLate
    Uncovered = {r3}
    Crashed = {r3}
INVARIANTS
    OneCutPerView
PROPERTIES
    EveryoneCommits
    QuorumIsUsed
CHECK_DEADLOCK FALSE
