SPECIFICATION Spec
CONSTANTS
    u1 = u1
    f1 = f1
    c1 = c1
    c2 = c2
    Users = {u1}
    Families = {f1}
    OwnerOf <- MCOwnerOf
    Mobile = {}
    Calls = {c1, c2}
    Tabs = {t1}
    Managers = {m1}
    MaxToken = 1
    MaxVersion = 1
    MaxFaults = 1
PROPERTIES
    InactiveIsOutInTheEnd
CHECK_DEADLOCK FALSE
