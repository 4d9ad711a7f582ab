SPECIFICATION Spec
CONSTANTS
    m1 = m1
    p1 = p1
    p2 = p2
    Users = {"ann", "bob"}
    Creator = "ann"
    Quitters = {"bob"}
    Messages = {m1}
    Procs = {p1, p2}
    Unsent = Unsent
    Dropped = Dropped
    Unseen = Unseen
INVARIANTS
    LinksWork
    NoFileIsForgotten
    ScreensAgree
    DeletedAccountsAreCutOff
PROPERTIES
    OnlyOutdatedSavesRestore
SYMMETRY Symmetry
CHECK_DEADLOCK FALSE
