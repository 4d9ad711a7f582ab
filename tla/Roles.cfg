SPECIFICATION Spec
CONSTANTS
    ann = ann
    bob = bob
    cat = cat
    p1 = p1
    p2 = p2
    NoGroup = NoGroup
    NoRow = NoRow
    Nobody = Nobody
    Users = {ann, bob, cat}
    Founder = ann
    Procs = {p1, p2}
    Names = {"old", "new"}
    MaxRow = 4
PROPERTY OnlyStaleSavesBreakRules
SYMMETRY Symmetry
CHECK_DEADLOCK FALSE
