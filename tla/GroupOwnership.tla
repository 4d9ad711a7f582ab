--------------------------- MODULE GroupOwnership ---------------------------
(***************************************************************************)
(* Who runs a group, as its users understand it: one owner, who may hand   *)
(* the group over, appoint and dismiss admins and dissolve the group.      *)
(***************************************************************************)
CONSTANTS Users, Founder, Nobody

VARIABLES owner, admins, others

ownership == <<owner, admins, others>>

Everybody == {owner} \union admins \union others

Init == owner = Founder /\ admins = {} /\ others = {}

Enter == \E u \in Users \ Everybody :
    /\ owner # Nobody
    /\ others' = others \union {u}
    /\ UNCHANGED <<owner, admins>>

(* The owner does not leave. *)
Leave == \E u \in admins \union others :
    /\ admins' = admins \ {u}
    /\ others' = others \ {u}
    /\ UNCHANGED owner

Appoint == \E u \in others :
    /\ admins' = admins \union {u}
    /\ others' = others \ {u}
    /\ UNCHANGED owner

Dismiss == \E u \in admins :
    /\ admins' = admins \ {u}
    /\ others' = others \union {u}
    /\ UNCHANGED owner

(* The former owner stays as an admin. *)
HandOver == \E u \in admins \union others :
    /\ owner' = u
    /\ admins' = (admins \ {u}) \union {owner}
    /\ others' = others \ {u}

Dissolve == owner' = Nobody /\ admins' = {} /\ others' = {}

Next == Enter \/ Leave \/ Appoint \/ Dismiss \/ HandOver \/ Dissolve

Spec == Init /\ [][Next]_ownership

=============================================================================
