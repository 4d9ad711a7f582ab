------------------------------ MODULE MCLedger ------------------------------
(* Instances of Ledger, FriendBalances and ReminderTargets small enough for TLC. *)
EXTENDS ReminderTargets, TLC

CONSTANTS e1, e2, s1, p1, p2

Equal(who)   == [type |-> "EQUAL", data |-> [i \in DOMAIN who |-> Item(who[i], "id", 0)]]
Exact(parts) == [type |-> "EXACT",
                 data |-> [i \in DOMAIN parts |-> Item(i, "amount", parts[i])]]
Percent(parts) == [type |-> "PERCENT",
                   data |-> [i \in DOMAIN parts |-> Item(i, "percentage", parts[i])]]

(* Three cents: shared by everybody; one and two cents; and percentages whose
   rounding leaves the last of three users with -1. *)
SplitsOfThree == {Equal(<< >>), Exact(<<10, 20>>), Percent(<<50000, 50000, 0>>)}

(* Four cents, and an exact split that fits no other amount. *)
SplitsOfFour == {Equal(<< >>), Exact(<<10, 30>>)}

Symmetry == Permutations({e1, e2}) \union Permutations({p1, p2})

=============================================================================
