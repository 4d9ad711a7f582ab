SPECIFICATION Spec
CONSTANTS
    u1 = u1
    u2 = u2
    u3 = u3
    m1 = m1
    p1 = p1
    p2 = p2
    NoRow = NoRow
    NoMessage = NoMessage
    Users = {u1, u2, u3}
    Procs = {p1, p2}
    Messages = {m1}
    MaxRow = 3
INVARIANTS
    PairHasOneRow
PROPERTIES
    OnlyFriendsTalk
    RequestsAreDecidedByTheTwo
    MessagesOnlySettle
SYMMETRY Symmetry
