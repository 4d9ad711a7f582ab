SPECIFICATION Spec
CONSTANTS
    ann = ann
    bob = bob
    cat = cat
    p1 = p1
    p2 = p2
    Users = {ann, bob, cat}
    Owner = ann
    Admins = {ann}
    Planner = bob
    Procs = {p1, p2}
    MaxTime = 2
    Budgets = {"none", "costs"}
    NoBudget = "none"
    Keep = Keep
    Unplanned = Unplanned
    Cancelled = Cancelled
INVARIANTS
    ChangesAreAnnounced
    CancellationsAreTrue
PROPERTIES
    CancellationsAreHeard
SYMMETRY Symmetry
