---------------------------- MODULE FriendBalances ----------------------------
(***************************************************************************)
(* What two friends see of each other's debts: the list of friends and the *)
(* page of one friend each compute a balance of their own from the rows of *)
(* the groups both are in.  Here there is one such group, the Ledger's, and *)
(* all its users are friends.                                              *)
(***************************************************************************)
EXTENDS Ledger

(* The debtor's shares of what the payer paid. *)
ShareIn(payer, debtor) ==
    SumFunction([e \in Expenses |->
        IF expense[e] # NoExpense /\ expense[e].paidBy = payer /\ debtor \in DOMAIN shares[e]
        THEN shares[e][debtor] ELSE 0])

PaidTo(from, to) ==
    SumFunction([s \in Settlements |->
        IF settlement[s] # NoSettlement /\ settlement[s].from = from /\ settlement[s].to = to
        THEN settlement[s].amount ELSE 0])

Others(u) == Users \ {u}

(* The list takes in every group that u shares with any friend. *)
SharesGroup(u) == u \in members /\ Others(u) \intersect members # {}

(* Mutated form: what u paid to the friend is forgotten. *)
ListBalanceOneWay(u, f) ==
    IF SharesGroup(u) THEN ShareIn(u, f) - ShareIn(f, u) + PaidTo(f, u) ELSE 0

(* FriendListView: positive when f is shown as owing to u. *)
ListBalance(u, f) ==
    IF SharesGroup(u)
    THEN ShareIn(u, f) - ShareIn(f, u) + PaidTo(f, u) - PaidTo(u, f)
    ELSE 0

(* FriendDetailView, with the same reading. *)
DetailBalance(u, f) ==
    LET friendNet == Paid(f) - Owed(f) + PaidTo(f, u) - PaidTo(u, f)
        userNet   == Paid(u) - Owed(u) + PaidTo(u, f) - PaidTo(f, u)
    IN  IF {u, f} \subseteq members THEN friendNet - userNet ELSE 0

-----------------------------------------------------------------------------
(* While rows and shares agree, the friends list is the group's own balance
   of u split up by friend, leavers included, but for one thing: recorded
   payments count the other way (views.py:1149 adds what f has paid to u to
   what f owes), so it is off by exactly twice the payments. *)
ListCountsPaymentsBackwards ==
    \A u \in Users : SharesGroup(u) =>
        SumFunction([f \in Others(u) |-> ListBalance(u, f)])
            = NetBalances[u] - 2 * (PaidBack(u) - GotBack(u))

(* What the code says of itself and does not keep.  views.py:1287: the balance
   of the page is "what friend owes user - what user owes friend". *)
DetailIsWhatFriendOwes ==
    \A u \in members : \A f \in members \ {u} :
        DetailBalance(u, f) =
            (ShareIn(u, f) - PaidTo(f, u)) - (ShareIn(f, u) - PaidTo(u, f))

=============================================================================
