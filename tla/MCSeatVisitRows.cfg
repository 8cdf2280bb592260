SPECIFICATION FairSpec
CONSTANTS
    Seats = {s1}
    Visits = {v1, v2}
    Procs = {p1, p2, p3}
    NoSeat = NoSeat
    NoVisit = NoVisit
    Nobody = Nobody
INVARIANTS
    OneLivePerSeat
    NoGuestsOnDarkSeat
PROPERTIES
    ClosedStaysClosed
    AllAnswered
