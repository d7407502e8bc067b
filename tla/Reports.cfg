SPECIFICATION FairSpec
CONSTANTS
    a = a
    b = b
    c = c
    d = d
    Replicas = {a, b, c, d}
    Cores = {a, b}
    Polluters = {d}
    Reward <- Rewarded
    PollutedReward <- Polluted
    epoch_slots = 2
    window_size = 1
    MaxSlot = 2
    Instances <- SomeInstances
    Leader <- SomeLeader
INVARIANT RewardIsRobust
PROPERTIES
    CertificateStays
    ReportsAreAggregated
CHECK_DEADLOCK FALSE
