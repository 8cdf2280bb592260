SPECIFICATION Spec
CONSTANTS
    Items = {beer}
    Categories = {drinks}
    Groups = {syrup}
    Variants = {glass, jug}
    Photos = {p1, p2}
    NoPhoto = none
    Managers = {m1, m2}
    MaxEdits = 3
    MaxFaults = 1
SYMMETRY Symmetry
INVARIANTS
    MenuInv
    PhotosMatchRows
PROPERTIES
    NoLostEdit
