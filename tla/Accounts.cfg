SPECIFICATION Spec
CONSTANTS
    s1 = s1
    s2 = s2
    l1 = l1
    l2 = l2
    l3 = l3
    p1 = p1
    p2 = p2
    NoUser = NoUser
    Sessions = {s1, s2}
    Links = {l1, l2, l3}
    Procs = {p1, p2}
    MaxPassword = 3
INVARIANTS
    OnlyVerifiedInside
    LinksAreFew
    TokensEndWithSessions
PROPERTIES
    OnlyStaleSavesUndo
SYMMETRY Symmetry
CHECK_DEADLOCK FALSE
