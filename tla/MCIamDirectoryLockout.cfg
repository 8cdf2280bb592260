SPECIFICATION Spec
CONSTANTS
    m1 = m1
    m2 = m2
    People = {p1, p2}
    Founder = p1
    Groups = {owner, bar}
    Owner = owner
    Policies = {all, menu}
    All = all
    Pins = {x}
    Writers = {m1, m2}
    Savers = {s1}
    Nobody = Nobody
    NoPin = NoPin
    MaxWrites = 4
SYMMETRY Symmetry
CHECK_DEADLOCK FALSE
INVARIANTS
    DirectoryInv
    ManagerRemains
    ApprovedOnce
    PinTellsApprover
