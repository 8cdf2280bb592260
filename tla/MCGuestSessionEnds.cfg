SPECIFICATION Spec
CONSTANTS
    Phones = {g1}
    Requests = {r1, r2}
    MaxVisits = 3
    NoPhone = NoPhone
INVARIANTS
    EndsWithVisit
