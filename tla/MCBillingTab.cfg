SPECIFICATION Spec
SYMMETRY MCSymmetry
CONSTANTS
    v1 = v1
    v2 = v2
    o1 = o1
    o2 = o2
    l1 = l1
    l2 = l2
    l3 = l3
    l4 = l4
    beer = beer
    fries = fries
    fee = fee
    NoVisit = NoVisit
    OrderOf <- MCOrderOf
    ItemOf <- MCItemOf
    FoodLines <- MCFood
    ChargeLines <- MCCharge
    FreeLines = {l2}
    SeatKind <- MCSeatKind
    Visits = {v1}
    Orders = {o1, o2}
    Lines = {l1, l2, l4}
    Items = {beer, fries, fee}
    Payments = {p1, p2}
CHECK_DEADLOCK FALSE
INVARIANTS
    NoDoubleCharge
    PendingFrozen
    PaidCoversBill
    CancelledIffEmpty
PROPERTIES
    ClosedBillFinal
    ImplementsLedger
