--------------------------- MODULE ReminderTargets ---------------------------
(***************************************************************************)
(* When a reminder about an expense or a pending settlement still has a    *)
(* reason: Reminder.target_is_active, from the rows of the Ledger's group. *)
(* (An event's has until the event starts.)                                *)
(*                                                                         *)
(* What debtors have paid to the payer of an expense is counted towards    *)
(* the payer's expenses from the oldest on: by the day of the row's        *)
(* insertion, which a stale save may repeat, and by id within a day.  The  *)
(* rows of the Ledger have neither; place is any order they may have.      *)
(***************************************************************************)
EXTENDS FriendBalances

Orders == {place \in [Expenses -> 1..Cardinality(Expenses)] : IsInjective(place)}

(* Mutated form: the expense itself is counted as a prior one. *)
PriorOrSame(e, place) ==
    {d \in Expenses :
        /\ expense[d] # NoExpense
        /\ expense[d].paidBy = expense[e].paidBy
        /\ place[d] <= place[e]}

Prior(e, place) ==
    {d \in Expenses :
        /\ expense[d] # NoExpense
        /\ expense[d].paidBy = expense[e].paidBy
        /\ place[d] < place[e]}

StillDue(amount, paid) == IF amount > paid THEN amount - paid ELSE 0

ExpenseIsDue(e, place) ==
    LET payer == expense[e].paidBy
    IN  \E u \in DOMAIN shares[e] \ {payer} :
            LET before == SumFunction([d \in Prior(e, place) |->
                              IF u \in DOMAIN shares[d] THEN shares[d][u] ELSE 0])
                paid   == PaidTo(u, payer)
            IN  StillDue(before + shares[e][u], paid) > StillDue(before, paid)

(* Mutated form: payments made are not counted. *)
SettlementIsDueUnpaid(u) == u \in members /\ Paid(u) < Owed(u)

SettlementIsDue(u) == u \in members /\ NetBalances[u] < 0

-----------------------------------------------------------------------------
(* Whatever the order of the expenses of a payer, one of them has a reminder
   to send exactly as long as somebody has not paid the payer back in full: no
   share is counted twice or skipped, so reminders neither stop early nor go on
   for ever.  One thing keeps a reminder going for a debt that is settled: a
   negative PERCENT share, which takes back later what an expense added. *)
ExpenseRemindersFollowDebts ==
    \A place \in Orders, v \in Users :
        LET reminded == \E e \in Expenses : /\ expense[e] # NoExpense /\ expense[e].paidBy = v
                                           /\ ExpenseIsDue(e, place)
            inDebt(u) == ShareIn(v, u) > PaidTo(u, v)
        IN  /\ (\E u \in Users \ {v} : inDebt(u)) => reminded
            /\ reminded => \E u \in Users \ {v} : inDebt(u) \/ NegativeShares(u)

(* Whom a settlement reminder asks to pay is shown a member to pay.  It fails
   for two kinds of debts only: one to somebody who has left, whom no view lets
   anybody pay, and one so small that the matching ignores it (the reminder
   compares the balance with zero, the suggestions with the float 0.01). *)
RemindedCanPay ==
    \A u \in Users : SettlementIsDue(u) =>
        \/ \E v \in members : SuggestedAmount(NetBalances, u, v) > 0
        \/ \E v \in Users \ members : NetBalances[v] > 0
        \/ -NetBalances[u] \in 1..(Cardinality(Users) - 1)

=============================================================================
