--------------------------- MODULE SplitRequests ---------------------------
(***************************************************************************)
(* calculate_expense_shares called with whatever a request may ask for: a  *)
(* call is made, then answered with shares or refused.                     *)
(***************************************************************************)
EXTENDS SplitShares

CONSTANTS
    Members,    \* of the group
    Outsiders,  \* users who may join it later
    Calls       \* the arguments the function is called with

ASSUME SplitConstants ==
    /\ IsFiniteSet(Members) /\ Members \subseteq Nat /\ Outsiders \subseteq Nat
    /\ Calls \subseteq [amount : Int, type : SplitTypes, data : Seq(Items)]

VARIABLES call,    \* the arguments of the call
          status,  \* asked, accepted or refused
          answer   \* the shares returned, by user

SplitInit == call \in Calls /\ status = "asked" /\ answer = << >>

(* The call returns the shares ... *)
Accept ==
    /\ status = "asked"
    /\ Accepts(Members, call.amount, call.type, call.data)
    /\ status' = "accepted"
    /\ answer' = Shares(Members, call.amount, call.type, call.data)
    /\ UNCHANGED call

(* ... or raises ValueError. *)
Refuse ==
    /\ status = "asked"
    /\ ~Accepts(Members, call.amount, call.type, call.data)
    /\ status' = "refused"
    /\ UNCHANGED <<call, answer>>

SplitNext == Accept \/ Refuse

SplitSpec == SplitInit /\ [][SplitNext]_<<call, status, answer>>

Accepted == status = "accepted"

-----------------------------------------------------------------------------
(* An accepted split hands out the amount of the expense, to the cent, to
   current members (README.md: "split totals must equal the expense total"),
   and refuses to hand out a negative EQUAL or EXACT share. *)
SharesAddUp ==
    Accepted => /\ SumFunction(answer) = call.amount
                /\ DOMAIN answer \subseteq Members
                /\ call.type # "PERCENT" => \A u \in DOMAIN answer : answer[u] >= 0

(* The cents by which the share of item i misses its percentage, times 100000. *)
Error(i) == answer[call.data[i].user] * 100000 - call.amount * call.data[i].value
AbsError(i) == IF Error(i) < 0 THEN -Error(i) ELSE Error(i)

(* Rounding is fair.  EQUAL shares differ by at most a cent, and those who pay
   the extra cent come first in the split: leftover cents are distributed, never
   piled up.  A PERCENT share misses its percentage by half a cent at most,
   except the last one, which takes the rounding of all the others and no more:
   half a cent for each of them. *)
RoundingIsFair ==
    Accepted =>
        CASE call.type = "EQUAL" ->
                LET who == Participants(Members, "EQUAL", call.data)
                IN  \A i, j \in DOMAIN who :
                        i < j => answer[who[i]] - answer[who[j]] \in {0, 1}
          [] call.type = "PERCENT" ->
                LET n == Len(call.data)
                IN  \A i \in 1..n :
                        2 * AbsError(i) <= 100000 * (IF i < n THEN 1 ELSE n - 1)
          [] OTHER -> TRUE

(* The split stored with an expense can be replayed: whoever joins the group
   later, recomputing it for the same amount charges the same users the same
   cents (an amount edit reuses the stored split). *)
StoredSplitReplays ==
    Accepted =>
        LET stored == StoredSplit(Members, call.type, call.data)
        IN  \A joined \in SUBSET Outsiders :
                LET later == Members \union joined
                IN  /\ Accepts(later, call.amount, call.type, stored)
                    /\ Shares(later, call.amount, call.type, stored) = answer

=============================================================================
