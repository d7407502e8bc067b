SPECIFICATION Spec
CONSTANTS
    r1 = r1
    r2 = r2
    r3 = r3
    r4 = r4
    None = None
    Authorities <- FourReplicas
    Slot = 2
    MaxView = 2
    FastPath <- All
    Switching = {r4}
    SlowSync = {r4}
    Expiring <- OthersInView1OfSlot2
    Reach <- WithoutFirstLeader
    Uncovered = {}
    Crashed = {}
INVARIANTS
    TypeOK
    CertificatesJustified
    RecoversReportedVotes
    OnePathPerView
PROPERTIES
    NeverGoesBack
SYMMETRY Followers
CHECK_DEADLOCK FALSE
