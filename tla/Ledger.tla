------------------------------- MODULE Ledger -------------------------------
(***************************************************************************)
(* The ledger of one group: its members, expenses, expense shares and      *)
(* settlements, and the HTTP handlers that change them.                    *)
(*                                                                         *)
(* Procs are the server's workers.  A handler that reads everything it     *)
(* relies on after taking the lock on the group's row (select_for_update)  *)
(* is one step of a worker that is free.  Editing and deleting an expense  *)
(* take two: the expense is read and checked before the lock is taken and  *)
(* is not read again, so the worker goes on with the row as it was.        *)
(*                                                                         *)
(* Amounts are in cents.  The chat messages and notifications written by   *)
(* the same transactions are left out: nothing here reads them.            *)
(***************************************************************************)
EXTENDS SplitShares, DebtMatching

CONSTANTS
    Creator,      \* creator and owner of the group
    Procs,        \* workers that serve requests
    Expenses,     \* ids of Expense rows: as many as a behaviour may create
    Settlements,  \* slots for Settlement rows: as many as may exist at a time
    Amounts,      \* amounts a request may ask for
    Splits,       \* the [type, data] splits a request may ask for
    NoExpense,    \* no row with this id
    NoSettlement

ExpenseRows == [amount : Int, paidBy : Users, type : SplitTypes, data : Seq(Items)]

SettlementRows == [from : Users, to : Users, amount : Int]

ASSUME LedgerConstants ==
    /\ IsFiniteSet(Expenses) /\ IsFiniteSet(Settlements)
    /\ Creator \in Users
    /\ Amounts \subseteq Int
    /\ Splits \subseteq [type : SplitTypes, data : Seq(Items)]
    /\ NoExpense \notin ExpenseRows
    /\ NoSettlement \notin SettlementRows

VARIABLES
    members,     \* users with a GroupMembership row
    issued,      \* expense ids handed out so far: the database never reuses one
    expense,     \* Expense rows by id
    shares,      \* ExpenseShare rows by expense: what each participant owes
    settlement,  \* Settlement rows by slot
    request      \* what each worker carries from its unlocked reads

vars == <<members, issued, expense, shares, settlement, request>>

Idle == [op |-> "idle"]

Edits   == [op : {"edit"}, id : Expenses, row : ExpenseRows, recalculate : BOOLEAN]
Deletes == [op : {"delete"}, id : Expenses, row : ExpenseRows]

Free == \E p \in Procs : request[p] = Idle

NoShares == [u \in {} |-> 0]

-----------------------------------------------------------------------------
(* Balances: group_net_balances. *)

Paid(u) ==
    SumFunction([e \in Expenses |->
        IF expense[e] # NoExpense /\ expense[e].paidBy = u THEN expense[e].amount ELSE 0])

Owed(u) ==
    SumFunction([e \in Expenses |-> IF u \in DOMAIN shares[e] THEN shares[e][u] ELSE 0])

PaidBack(u) ==
    SumFunction([s \in Settlements |->
        IF settlement[s] # NoSettlement /\ settlement[s].from = u THEN settlement[s].amount ELSE 0])

GotBack(u) ==
    SumFunction([s \in Settlements |->
        IF settlement[s] # NoSettlement /\ settlement[s].to = u THEN settlement[s].amount ELSE 0])

NetBalances == [u \in Users |-> Paid(u) - Owed(u) + PaidBack(u) - GotBack(u)]

-----------------------------------------------------------------------------
Init == /\ members = {Creator}
        /\ issued = {}
        /\ expense = [e \in Expenses |-> NoExpense]
        /\ shares = [e \in Expenses |-> NoShares]
        /\ settlement = [s \in Settlements |-> NoSettlement]
        /\ request = [p \in Procs |-> Idle]

(* u joins with the group's code, or is added by an admin. *)
AddMember(u) ==
    /\ Free
    /\ u \notin members
    /\ members' = members \union {u}
    /\ UNCHANGED <<issued, expense, shares, settlement, request>>

(* Mutated form: the balance is not looked at. *)
RemoveMemberInDebt(u) ==
    /\ Free
    /\ u \in members
    /\ u # Creator
    /\ members' = members \ {u}
    /\ UNCHANGED <<issued, expense, shares, settlement, request>>

(* u leaves, or is removed by an admin; the creator cannot. *)
RemoveMember(u) ==
    /\ Free
    /\ u \in members
    /\ u # Creator
    /\ NetBalances[u] = 0
    /\ members' = members \ {u}
    /\ UNCHANGED <<issued, expense, shares, settlement, request>>

(* u records an expense that u paid.  The serializer refuses a custom split
   without data; what the split rules refuse is rolled back. *)
CreateExpense(u, e, amount, split) ==
    /\ Free
    /\ u \in members
    /\ e \notin issued
    /\ Accepts(members, amount, split.type, split.data)
    /\ issued' = issued \union {e}
    /\ expense' = [expense EXCEPT ![e] =
           [amount |-> amount, paidBy |-> u, type |-> split.type,
            data |-> StoredSplit(members, split.type, split.data)]]
    /\ shares' = [shares EXCEPT ![e] = Shares(members, amount, split.type, split.data)]
    /\ UNCHANGED <<members, settlement, request>>

-----------------------------------------------------------------------------
(* Editing an expense, first half: the payer's request is checked against the
   row as it is now.  Each field of the payload is the set of what it gives,
   empty for a key the payload leaves out; the row to be saved starts from
   the one that was read. *)
Given(field, default) == IF field = {} THEN default ELSE CHOOSE x \in field : TRUE

BeginEdit(p, e, amount, type, data) ==
    LET row == [expense[e] EXCEPT !.amount = Given(amount, @),
                                  !.type   = Given(type, @),
                                  !.data   = Given(data, @)]
    IN  /\ request[p] = Idle
        /\ expense[e] # NoExpense
        /\ expense[e].paidBy \in members
        /\ row.amount > 0
        /\ row.type # "EQUAL" => row.data # << >>
        /\ request' = [request EXCEPT ![p] =
               [op |-> "edit", id |-> e, row |-> row,
                recalculate |-> amount # {} \/ type # {} \/ data # {}]]
        /\ UNCHANGED <<members, issued, expense, shares, settlement>>

(* Mutated form: the membership check under the lock is forgotten. *)
CanCommitEditAsOutsider(r) ==
    r.recalculate => Accepts(members, r.row.amount, r.row.type, r.row.data)

(* Second half, under the group lock: membership is checked again, the row is
   not.  save() writes every column of the row in hand, and inserts it when
   there is no longer a row to update. *)
CanCommitEdit(r) ==
    /\ r.row.paidBy \in members
    /\ r.recalculate => Accepts(members, r.row.amount, r.row.type, r.row.data)

(* Mutated form: the shares are not computed again. *)
CommitEditKeepingShares(p) ==
    LET r == request[p]
    IN  /\ r.op = "edit"
        /\ CanCommitEdit(r)
        /\ expense' = [expense EXCEPT ![r.id] = r.row]
        /\ request' = [request EXCEPT ![p] = Idle]
        /\ UNCHANGED <<members, issued, shares, settlement>>

CommitEdit(p) ==
    LET r == request[p]
    IN  /\ r.op = "edit"
        /\ CanCommitEdit(r)
        /\ expense' = [expense EXCEPT ![r.id] = r.row]
        /\ shares' = IF r.recalculate
                     THEN [shares EXCEPT ![r.id] =
                              Shares(members, r.row.amount, r.row.type, r.row.data)]
                     ELSE shares
        /\ request' = [request EXCEPT ![p] = Idle]
        /\ UNCHANGED <<members, issued, settlement>>

(* 403: no longer a member; 400: the split no longer fits the group. *)
RefuseEdit(p) ==
    /\ request[p].op = "edit"
    /\ ~CanCommitEdit(request[p])
    /\ request' = [request EXCEPT ![p] = Idle]
    /\ UNCHANGED <<members, issued, expense, shares, settlement>>

-----------------------------------------------------------------------------
(* Deleting an expense, in the same two halves. *)
BeginDelete(p, e) ==
    /\ request[p] = Idle
    /\ expense[e] # NoExpense
    /\ expense[e].paidBy \in members
    /\ request' = [request EXCEPT ![p] = [op |-> "delete", id |-> e, row |-> expense[e]]]
    /\ UNCHANGED <<members, issued, expense, shares, settlement>>

(* The shares go with the expense (ON DELETE CASCADE); if it is gone already
   nothing is deleted.  403 when the payer has left in between. *)
CommitDelete(p) ==
    LET r == request[p]
    IN  /\ r.op = "delete"
        /\ IF r.row.paidBy \in members
           THEN /\ expense' = [expense EXCEPT ![r.id] = NoExpense]
                /\ shares' = [shares EXCEPT ![r.id] = NoShares]
           ELSE UNCHANGED <<expense, shares>>
        /\ request' = [request EXCEPT ![p] = Idle]
        /\ UNCHANGED <<members, issued, settlement>>

-----------------------------------------------------------------------------
(* Mutated form: the limit is off by one cent. *)
RecordSettlementOffByOne(u, v, s) ==
    /\ Free
    /\ {u, v} \subseteq members
    /\ u # v
    /\ settlement[s] = NoSettlement
    /\ SuggestedAmount(NetBalances, u, v) > 0
    /\ \E amount \in 1..(SuggestedAmount(NetBalances, u, v) + 1) :
           settlement' = [settlement EXCEPT ![s] = [from |-> u, to |-> v, amount |-> amount]]
    /\ UNCHANGED <<members, issued, expense, shares, request>>

(* u records having paid amount to v: no more than is suggested to the pair. *)
RecordSettlement(u, v, s) ==
    /\ Free
    /\ {u, v} \subseteq members
    /\ u # v
    /\ settlement[s] = NoSettlement
    /\ \E amount \in 1..SuggestedAmount(NetBalances, u, v) :
           settlement' = [settlement EXCEPT ![s] = [from |-> u, to |-> v, amount |-> amount]]
    /\ UNCHANGED <<members, issued, expense, shares, request>>

(* Mutated form: the payer may have left the group. *)
DeleteSettlementAfterLeaving(s) ==
    /\ Free
    /\ settlement[s] # NoSettlement
    /\ settlement' = [settlement EXCEPT ![s] = NoSettlement]
    /\ UNCHANGED <<members, issued, expense, shares, request>>

(* The payer, if still a member, takes a recorded settlement back. *)
DeleteSettlement(s) ==
    /\ Free
    /\ settlement[s] # NoSettlement
    /\ settlement[s].from \in members
    /\ settlement' = [settlement EXCEPT ![s] = NoSettlement]
    /\ UNCHANGED <<members, issued, expense, shares, request>>

-----------------------------------------------------------------------------
Optional(S) == {{}} \union {{x} : x \in S}

Next ==
    \/ \E u \in Users : AddMember(u) \/ RemoveMember(u)
    \/ \E u \in Users, e \in Expenses, a \in Amounts, split \in Splits :
           CreateExpense(u, e, a, split)
    \/ \E p \in Procs, e \in Expenses :
           \/ \E amount \in Optional(Amounts),
                 type \in Optional({split.type : split \in Splits}),
                 data \in Optional({split.data : split \in Splits}) :
                     BeginEdit(p, e, amount, type, data)
           \/ BeginDelete(p, e)
    \/ \E p \in Procs : CommitEdit(p) \/ RefuseEdit(p) \/ CommitDelete(p)
    \/ \E u, v \in Users, s \in Settlements : RecordSettlement(u, v, s)
    \/ \E s \in Settlements : DeleteSettlement(s)

Spec == Init /\ [][Next]_vars

-----------------------------------------------------------------------------
(* Properties.                                                             *)

(* Rows hold users and integers, only ids that were handed out have rows, and
   the shares of an expense go when it goes. *)
TypeOK ==
    /\ members \subseteq Users
    /\ issued \subseteq Expenses
    /\ expense \in [Expenses -> ExpenseRows \union {NoExpense}]
    /\ DOMAIN shares = Expenses
    /\ \A e \in Expenses : DOMAIN shares[e] \subseteq Users
    /\ settlement \in [Settlements -> SettlementRows \union {NoSettlement}]
    /\ request \in [Procs -> {Idle} \union Edits \union Deletes]
    /\ \A e \in Expenses : expense[e] # NoExpense => e \in issued
    /\ \A e \in Expenses : expense[e] = NoExpense => shares[e] = NoShares

(* The shares of e are those calculate_expense_shares gives for the row of e,
   for the members of some moment, and so add up to its amount. *)
Follows(e) ==
    \E m \in SUBSET Users, d \in {expense[e].data, << >>} :
        /\ expense[e].data \in {d, StoredSplit(m, expense[e].type, d)}
        /\ Accepts(m, expense[e].amount, expense[e].type, d)
        /\ shares[e] = Shares(m, expense[e].amount, expense[e].type, d)

(* Every expense is fully shared out, by the rules of its own split
   (CreateExpenseView.post, ExpenseDetailView.patch).  Holds while one request
   is served at a time; balances then sum to zero, whichever they are computed
   from (tests.py:197 ..._balances_sum_to_zero). *)
SharesFollowRows == \A e \in Expenses : expense[e] # NoExpense => Follows(e)

(* A worker about to save a row nobody else wrote since it was read. *)
Fresh(r) == /\ expense[r.id] # NoExpense
            /\ r.recalculate \/ r.row = expense[r.id]

(* Whatever the number of workers, there is one way to leave an expense with
   shares that are not its own: an edit that leaves amount and split alone,
   saved over a row that changed or went after it was read. *)
OnlyStaleEditsUnbalance ==
    [][\A e \in Expenses :
          /\ expense[e] # NoExpense => Follows(e)
          /\ expense'[e] # NoExpense
          /\ ~Follows(e)'
          => \E p \in Procs :
                /\ request[p].op = "edit" /\ request[p].id = e
                /\ ~request[p].recalculate
                /\ ~Fresh(request[p])]_vars

(* The tables after a step, as far as a user outside the group is concerned. *)
ExpenseLeftAlone(u, e) ==
    /\ u \in DOMAIN shares'[e] => u \in DOMAIN shares[e] /\ shares'[e][u] = shares[e][u]
    /\ (expense[e] # NoExpense /\ expense[e].paidBy = u)
          \/ (expense'[e] # NoExpense /\ expense'[e].paidBy = u)
        => expense'[e] = expense[e]

SettlementLeftAlone(u, s) ==
    /\ settlement'[s] # NoSettlement /\ settlement'[s].to = u
          => settlement'[s] = settlement[s]
    /\ (settlement[s] # NoSettlement /\ settlement[s].from = u)
          \/ (settlement'[s] # NoSettlement /\ settlement'[s].from = u)
        => settlement'[s] = settlement[s]

(* Nobody is charged behind their back: rows that name a user outside the
   group are never added or altered, only removed, and what that user paid for
   or paid back stays as it was (each handler checks members under the lock). *)
OutsidersLeftAlone ==
    [][\A u \in Users \ members :
          /\ \A e \in Expenses : ExpenseLeftAlone(u, e)
          /\ \A s \in Settlements : SettlementLeftAlone(u, s)]_vars

(* Somebody who left owes the group nothing but the cents of a negative
   PERCENT share that was withdrawn: a member leaves even, and from then on
   only what they owed can be cancelled. *)
NegativeShares(u) == \E e \in Expenses : u \in DOMAIN shares[e] /\ shares[e][u] < 0

LeaversNeverPay ==
    [][\A u \in Users \ members :
          NetBalances'[u] < NetBalances[u] => NegativeShares(u)]_vars

(* A recorded payment moves payer and recipient towards zero and never past
   it, even on books that a stale edit has unbalanced. *)
PaymentsNeverOvershoot ==
    [][\A s \in Settlements :
          settlement[s] = NoSettlement /\ settlement'[s] # NoSettlement =>
              /\ NetBalances'[settlement'[s].from] <= 0
              /\ NetBalances'[settlement'[s].to] >= 0]_vars

(* The ledger keeps the promises of GroupAccounts. *)
Accounts == INSTANCE GroupAccounts WITH balance <- NetBalances

ImplementsAccounts == Accounts!Spec

=============================================================================
