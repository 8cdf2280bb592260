SPECIFICATION FairSpec
CONSTANTS
    good = good
    bad = bad
    Payments = {p1, p2}
    Slips = {good, bad}
    Genuine = {good}
    NoSlip = NoSlip
    MaxChecks = 2
    QueueFails = TRUE
    EarlyJobs = TRUE
    Restarts = TRUE
INVARIANTS
    SettleInv
    TransferBellHasPayment
PROPERTIES
    SettledIsFinal
    PendingEnds
