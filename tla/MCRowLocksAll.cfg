SPECIFICATION Spec
SYMMETRY MCSymmetry
CONSTANTS
    t1 = t1
    t2 = t2
    l1 = l1
    l2 = l2
    l3 = l3
    Procs = {p1, p2, p3}
    TicketRows = {t1, t2}
    Lines = {l1, l2, l3}
    TicketRowOf <- MCTicketRowOf
    Seed = t1
    Kinds = {"place", "pay", "cash", "close", "adjust", "soldout", "ticket", "settle", "account"}
INVARIANTS
    RowsInv
    QrIsCurrent
    SoldOutReachesAll
    OnlyAdjustmentsDeadlock
PROPERTIES
    CommitsAreBillingSteps
