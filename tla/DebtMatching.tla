---------------------------- MODULE DebtMatching ----------------------------
(***************************************************************************)
(* The greedy debtor/creditor matching behind "suggested settlements"      *)
(* (_match_debts and suggested_settlement_amount).  The module is pure.    *)
(*                                                                         *)
(* Balances are in cents, positive when the user is owed money, one for    *)
(* every user id; a user the code's dictionary leaves out has balance 0.   *)
(*                                                                         *)
(* The code compares Decimal balances with the float 0.01, which is a      *)
(* little more than one cent.  A balance of a single cent is therefore     *)
(* neither below -0.01 nor above 0.01, and a residue of a single cent is   *)
(* below 0.01: in cents, only balances of two or more take part.           *)
(***************************************************************************)
EXTENDS Integers, Sequences, FiniteSets

CONSTANT Users

ASSUME UserIds == Users \subseteq Int /\ IsFiniteSet(Users)

Balances == [Users -> Int]

Abs(n) == IF n < 0 THEN -n ELSE n

Smaller(m, n) == IF m < n THEN m ELSE n

-----------------------------------------------------------------------------
(* Mutated forms. *)

DebtorsByWholeUnits(b) == {u \in Users : b[u] < -100}

-----------------------------------------------------------------------------
Debtors(b)   == {u \in Users : b[u] < -1}
Creditors(b) == {u \in Users : b[u] > 1}

(* The last element of pool once sorted by [amount, user_id]. *)
Largest(pool, b) ==
    CHOOSE u \in pool :
        \A v \in pool : \/ Abs(b[v]) < Abs(b[u])
                        \/ Abs(b[v]) = Abs(b[u]) /\ v <= u

(* What a payment of a cents from d to c does to the balances. *)
Settled(b, d, c, a) == [b EXCEPT ![d] = @ + a, ![c] = @ - a]

(* Mutated form of the next: the credit is not looked at. *)
SuggestWholeDebt(b) ==
    LET d == Largest(Debtors(b), b)
        c == Largest(Creditors(b), b)
    IN  [from |-> d, to |-> c, amount |-> Abs(b[d])]

(* One round of the loop: the largest debt against the largest credit. *)
TopMatch(b) ==
    LET d == Largest(Debtors(b), b)
        c == Largest(Creditors(b), b)
    IN  [from |-> d, to |-> c, amount |-> Smaller(Abs(b[d]), b[c])]

(* The list of suggested settlements. *)
MatchDebts[b \in Balances] ==
    IF Debtors(b) = {} \/ Creditors(b) = {}
    THEN << >>
    ELSE LET m == TopMatch(b)
         IN  <<m>> \o MatchDebts[Settled(b, m.from, m.to, m.amount)]

(* The suggested amount for this exact pair, zero if it is not suggested. *)
SuggestedAmount(b, debtor, creditor) ==
    LET list  == MatchDebts[b]
        found == {i \in DOMAIN list : list[i].from = debtor /\ list[i].to = creditor}
    IN  IF found = {} THEN 0
        ELSE list[CHOOSE i \in found : \A j \in found : i <= j].amount

=============================================================================
