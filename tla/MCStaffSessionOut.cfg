SPECIFICATION Spec
CONSTANTS
    u1 = u1
    f1 = f1
    c1 = c1
    c2 = c2
    Users = {u1}
    Families = {f1}
    OwnerOf <- MCOwnerOf
    Mobile = {f1}
    Calls = {c1, c2}
    Tabs = {t1, t2}
    Managers = {m1}
    MaxToken = 2
    MaxVersion = 2
    MaxFaults = 1
CHECK_DEADLOCK FALSE
SYMMETRY Symmetry
INVARIANTS
    FamilyInv
    ReplayEndsFamily
    OnePageKeepsItsFamily
    CacheIsFresh
    InactiveIsRefused
    OnlyStraddlersSurvive
