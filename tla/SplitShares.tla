---------------------------- MODULE SplitShares ----------------------------
(***************************************************************************)
(* How an amount is divided between the participants of a group expense    *)
(* (calculate_expense_shares).  The module is pure: operators only.        *)
(*                                                                         *)
(* Amounts are in cents.  A split is a sequence of items, in the order the *)
(* request lists them: the user it names, the key it carries ("id" for a   *)
(* bare user id, "amount" or "percentage") and its value.  Values are in   *)
(* thousandths, one digit finer than the code accepts, so that a third     *)
(* decimal can be refused.  A user that is not a natural number stands for *)
(* every user_id that is not made of digits.                               *)
(***************************************************************************)
EXTENDS Integers, Sequences, FiniteSets, Functions

SplitTypes == {"EQUAL", "EXACT", "PERCENT"}

Item(user, key, value) == [user |-> user, key |-> key, value |-> value]

Items == [user : Int, key : {"id", "amount", "percentage"}, value : Int]

(* Two decimals at most, and not negative. *)
IsMinorUnits(value) == value >= 0 /\ value % 10 = 0

(***************************************************************************)
(* n / d in whole cents, a tie going to the even cent: what                *)
(* Decimal.quantize does under the default context.                        *)
(***************************************************************************)
HalfEven(n, d) ==
    LET q == n \div d
        r == n % d
    IN  IF 2 * r > d \/ (2 * r = d /\ q % 2 = 1) THEN q + 1 ELSE q

(* sorted(S): its i-th element is the one with i - 1 elements below it. *)
InOrder(S) ==
    [i \in 1..Cardinality(S) |->
        CHOOSE u \in S : Cardinality({v \in S : v < u}) = i - 1]

(* The users who share the expense, in order of the split. *)
Participants(members, type, data) ==
    IF type = "EQUAL" /\ data = <<>>
    THEN InOrder(members)
    ELSE [i \in DOMAIN data |-> data[i].user]

Carries(data, key) == \A i \in DOMAIN data : /\ data[i].key = key
                                             /\ IsMinorUnits(data[i].value)

TotalValue(data) == SumFunction([i \in DOMAIN data |-> data[i].value])

-----------------------------------------------------------------------------
(* Mutated forms: each drops or bends one rule of the definition after it. *)

AcceptsAnyTotal(members, amount, type, data) ==
    LET who == Participants(members, type, data)
    IN  /\ amount > 0
        /\ \A i \in DOMAIN data : data[i].user \in Nat
        /\ who # <<>>
        /\ IsInjective(who)
        /\ Range(who) \subseteq members
        /\ type = "EXACT" => Carries(data, "amount")
        /\ type = "PERCENT" => Carries(data, "percentage")

FloorPercent(amount, data) ==
    LET n == Len(data)
        rounded == [i \in 1..n |-> (amount * data[i].value) \div 100000]
    IN  [rounded EXCEPT ![n] = @ + amount - SumFunction(rounded)]

StoredVerbatim(members, type, data) == data

-----------------------------------------------------------------------------
(* When calculate_expense_shares does not raise. *)
Accepts(members, amount, type, data) ==
    LET who == Participants(members, type, data)
    IN  /\ amount > 0
        /\ \A i \in DOMAIN data : data[i].user \in Nat
        /\ who # <<>>
        /\ IsInjective(who)
        /\ Range(who) \subseteq members
        /\ type = "EXACT"   => /\ Carries(data, "amount")
                               /\ TotalValue(data) = 10 * amount
        /\ type = "PERCENT" => /\ Carries(data, "percentage")
                               /\ TotalValue(data) = 100000

(* The cents each position of the split gets. *)
EqualCents(n, amount) ==
    [i \in 1..n |-> amount \div n + (IF i <= amount % n THEN 1 ELSE 0)]

ExactCents(data) == [i \in DOMAIN data |-> data[i].value \div 10]

PercentCents(amount, data) ==
    LET n == Len(data)
        rounded == [i \in 1..n |-> HalfEven(amount * data[i].value, 100000)]
    IN  [rounded EXCEPT ![n] = @ + amount - SumFunction(rounded)]

Cents(n, amount, type, data) ==
    CASE type = "EQUAL"   -> EqualCents(n, amount)
      [] type = "EXACT"   -> ExactCents(data)
      [] type = "PERCENT" -> PercentCents(amount, data)

(* The share of every participant, by user. *)
Shares(members, amount, type, data) ==
    LET who   == Participants(members, type, data)
        cents == Cents(Len(who), amount, type, data)
    IN  [u \in Range(who) |-> cents[CHOOSE i \in DOMAIN who : who[i] = u]]

(* The split kept with a new expense: the one asked for, or, when none is  *)
(* given, the members who were charged.                                    *)
StoredSplit(members, type, data) ==
    IF data # <<>> THEN data
    ELSE LET who == Participants(members, type, data)
         IN  [i \in DOMAIN who |-> Item(who[i], "id", 0)]

=============================================================================
