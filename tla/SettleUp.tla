------------------------------ MODULE SettleUp ------------------------------
(***************************************************************************)
(* A group whose expenses no longer change, settling its debts one recorded*)
(* payment at a time.  Every payment is checked against suggestions        *)
(* computed afresh (RecordSettlementView.post under the group lock), so a  *)
(* partial payment may change who is matched with whom.                    *)
(***************************************************************************)
EXTENDS DebtMatching, Functions

CONSTANT MaxBalance    \* bound on the balances a behaviour starts from, in cents

ASSUME BalanceBound == MaxBalance \in Nat

VARIABLE balances

-----------------------------------------------------------------------------
(* Mutated form: the pair is checked, the amount is not. *)
RecordAnyAmount(u, v) ==
    /\ u # v
    /\ SuggestedAmount(balances, u, v) > 0
    /\ \E a \in 1..MaxBalance : balances' = Settled(balances, u, v, a)

-----------------------------------------------------------------------------
SettleInit == balances \in {b \in [Users -> -MaxBalance..MaxBalance] : SumFunction(b) = 0}

(* u records a payment to v of at most what is suggested to this pair. *)
Record(u, v) ==
    /\ u # v
    /\ \E a \in 1..SuggestedAmount(balances, u, v) :
           balances' = Settled(balances, u, v, a)

SettleNext == \E u, v \in Users : Record(u, v)

(* Members keep paying what is suggested to them. *)
SettleSpec == SettleInit /\ [][SettleNext]_balances /\ WF_balances(SettleNext)

-----------------------------------------------------------------------------
Suggestions == MatchDebts[balances]

(* The suggestions are a plan: no pair appears twice (RecordSettlementView
   looks a pair up with next()), there are fewer of them than users who are
   not even, and carried out together they never take anyone past zero. *)
SuggestionsArePlan ==
    LET list == Suggestions
        paid(u) == SumFunction([i \in DOMAIN list |-> IF list[i].from = u THEN list[i].amount ELSE 0])
        got(u)  == SumFunction([i \in DOMAIN list |-> IF list[i].to = u THEN list[i].amount ELSE 0])
    IN  /\ \A i, j \in DOMAIN list :
               i # j => <<list[i].from, list[i].to>> # <<list[j].from, list[j].to>>
        /\ list # << >> => Len(list) < Cardinality({u \in Users : balances[u] # 0})
        /\ \A u \in Users :
               LET after == balances[u] + paid(u) - got(u)
               IN  Abs(after) <= Abs(balances[u]) /\ after * balances[u] >= 0

(* Whatever is left unsuggested is small change: when there is nothing to
   suggest, nobody is off by more cents than there are other users. *)
OnlySmallChangeLeft ==
    Suggestions = << >> =>
        \A u \in Users : Abs(balances[u]) < Cardinality(Users)

(* What is owed altogether. *)
Outstanding(b) == SumFunction([u \in Users |-> IF b[u] < 0 THEN -b[u] ELSE 0])

(* Every payment, full or partial and whoever is matched with whom afterwards,
   leaves the group owing less altogether, and drags nobody who is even back
   in. The plan itself may become longer, from five users on: a part payment
   can take away a match that settled two users at once. *)
EveryPaymentSettles ==
    [][/\ Outstanding(balances') < Outstanding(balances)
       /\ \A u \in Users : balances[u] = 0 => balances'[u] = 0]_balances

(* Following the suggestions settles the group: payments come to an end. *)
SettlesInTheEnd == <>(Suggestions = << >>)

=============================================================================
