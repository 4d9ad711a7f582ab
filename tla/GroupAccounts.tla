---------------------------- MODULE GroupAccounts ----------------------------
(***************************************************************************)
(* What the ledger of a group promises its users, without the rows it is   *)
(* kept in: who is in the group and what everybody is owed.                *)
(***************************************************************************)
EXTENDS Integers, FiniteSets, Functions

CONSTANTS Users, Creator

VARIABLES members, balance

accounts == <<members, balance>>

Init == members = {Creator} /\ balance = [u \in Users |-> 0]

Join == /\ \E u \in Users \ members : members' = members \union {u}
        /\ UNCHANGED balance

(* Only someone who is even leaves, and the creator never does. *)
Leave == /\ \E u \in members \ {Creator} : balance[u] = 0 /\ members' = members \ {u}
         /\ UNCHANGED balance

(* Money moves from v's claim to u's debt. *)
Transfer(u, v, amount) ==
    balance' = [balance EXCEPT ![u] = @ + amount, ![v] = @ - amount]

(* A member pays another one no more than the one owes and the other is owed. *)
Settle == \E u, v \in members :
    /\ balance'[u] > balance[u]
    /\ balance'[u] <= 0
    /\ balance'[v] >= 0
    /\ Transfer(u, v, balance'[u] - balance[u])
    /\ UNCHANGED members

(* A member takes back a payment; the other party may have left since. *)
TakeBack == \E u \in members, v \in Users :
    /\ balance'[u] < balance[u]
    /\ Transfer(u, v, balance'[u] - balance[u])
    /\ UNCHANGED members

(* An expense is added, edited or deleted: the books stay balanced, somebody's
   debt being somebody's claim. *)
Rebook == /\ balance' \in [Users -> Int]
          /\ SumFunction(balance') = 0
          /\ UNCHANGED members

Next == Join \/ Leave \/ Settle \/ TakeBack \/ Rebook

Spec == Init /\ [][Next]_accounts

=============================================================================
