--------------------------- MODULE MCSplitShares ---------------------------
(* SplitRequests with every small request. *)
EXTENDS SplitRequests, SequencesExt

(* Users 1 to 3 are the members, 4 is another user, -1 an id that is not
   made of digits. *)
Named     == {-1} \union 1..4
MaxAmount == 7          \* the largest amount asked, in cents

(* Values tried, in thousandths: negative, three decimals, zero, and enough
   to reach, miss and exceed the totals. *)
ExactValues   == {-10, 0, 10, 15, 20, 30, 40, 70}
PercentValues == {-50000, 0, 33330, 33335, 33340, 25000, 50000, 100000}

Keyed(key, values) == {Item(u, key, v) : u \in Named, v \in values}

(* At most three items; lists that mix keys are the EXACT and PERCENT
   requests made with bare ids. *)
Lists == UNION { BoundedSeq(Keyed("id", {0}), 3),
                 BoundedSeq(Keyed("amount", ExactValues), 2),
                 {[i \in 1..3 |-> Item(i, "percentage", p[i])] : p \in [1..3 -> PercentValues]},
                 BoundedSeq(Keyed("percentage", {0, 100000, 50000}), 2) }

SmallCalls == [amount : 0..MaxAmount, type : SplitTypes, data : Lists]

=============================================================================
