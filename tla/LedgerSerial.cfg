SPECIFICATION Spec
CONSTANTS
    Users = {1, 2, 3}
    Creator = 1
    e1 = e1
    e2 = e2
    s1 = s1
    p1 = p1
    p2 = p2
    NoExpense = NoExpense
    NoSettlement = NoSettlement
    Procs = {p1}
    Expenses = {e1, e2}
    Settlements = {s1}
    Amounts = {4}
    Splits <- SplitsOfFour
INVARIANTS
    SharesFollowRows
    ListCountsPaymentsBackwards
    ExpenseRemindersFollowDebts
    RemindedCanPay
PROPERTY ImplementsAccounts
SYMMETRY Symmetry
