SPECIFICATION Spec
CONSTANTS
    Users = {1, 2, 3}
    Creator = 1
    e1 = e1
    e2 = e2
    s1 = s1
    p1 = p1
    p2 = p2
    NoExpense = NoExpense
    NoSettlement = NoSettlement
    Procs = {p1, p2}
    Expenses = {e1}
    Settlements = {s1}
    Amounts = {3}
    Splits <- SplitsOfThree
PROPERTIES
    OnlyStaleEditsUnbalance
    OutsidersLeftAlone
    LeaversNeverPay
    PaymentsNeverOvershoot
SYMMETRY Symmetry
