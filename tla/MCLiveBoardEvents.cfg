SPECIFICATION BoardSpec
CONSTANTS
    Seats = {sofa, bar}
    Tickets = {t1}
    Staff = {w1, w2}
    MaxTime = 1
    Loads <- MCLoads
    MaxFaults = 1
SYMMETRY Symmetry
INVARIANTS
    OrdersAreCurrent
    BellsAreCurrent
