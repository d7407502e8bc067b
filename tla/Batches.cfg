SPECIFICATION FairSpec
CONSTANTS
    r1 = r1
    r2 = r2
    Replicas = {r1, r2}
    Makers = {r1}
    Side <- Alone
    BatchSizes = {1, 2}
    MaxTxs = 2
    MaxEvents = 1
INVARIANTS
    MakerHasBatch
    AcceptedIsStored
PROPERTIES
    SuspendedHeadersResume
    TransactionsAreProposed
CHECK_DEADLOCK FALSE
