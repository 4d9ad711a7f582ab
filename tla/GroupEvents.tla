----------------------------- MODULE GroupEvents -----------------------------
(***************************************************************************)
(* One event of a group, its budget, and the notifications about it:       *)
(* GroupEventListCreateView and GroupEventDetailView.  Nobody locks: an    *)
(* edit saves the whole row it read, and a cancellation tells the members  *)
(* one by one, each in a commit of its own, before it deletes the event.   *)
(*                                                                         *)
(* A row is what the members are told of when it changes; of its columns   *)
(* the two times stay, which must fit each other.  Budget items are        *)
(* replaced all at once, under the lock that saving the row takes.  Who is *)
(* an admin is GroupRoles' business; here roles stand still.               *)
(***************************************************************************)
EXTENDS Naturals, FiniteSets

CONSTANTS
    Users,
    Owner,      \* of the group, who stays a member
    Admins,     \* of the group, the owner included
    Planner,    \* who plans the event
    Procs,      \* workers that serve requests
    MaxTime,    \* bound on the times of the event
    Budgets,    \* lists of budget items
    NoBudget,   \* the empty one
    Keep,       \* a payload without budget items
    Unplanned,  \* no event yet
    Cancelled   \* its row is deleted

Times == 0..MaxTime

Rows == {row \in [starts : Times, ends : Times] : row.starts < row.ends}

ASSUME EventConstants ==
    /\ Admins \subseteq Users /\ Owner \in Admins /\ Planner \in Users
    /\ MaxTime \in Nat
    /\ NoBudget \in Budgets /\ Keep \notin Budgets
    /\ Unplanned \notin Rows /\ Cancelled \notin Rows /\ Unplanned # Cancelled

VARIABLES
    members,
    event,          \* the GroupEvent row
    budget,         \* its GroupEventBudgetItem rows
    toldCancelled,  \* users with a notification that the event is cancelled
    request,        \* what each worker carries
    unaware,        \* history: members who have neither made, nor seen by
                    \* joining, nor been notified since the last change
    excused,        \* history: those of them whom a worker died before
                    \* notifying, or whose change was an outdated read, saved as it was
    untrue,         \* history: since it was last deleted, the event was inserted
                    \* again, or a worker died before deleting it
    late            \* history: members who joined while others were being told
                    \* of a cancellation

awareness == <<unaware, excused>>

vars == <<members, event, budget, toldCancelled, request, awareness, untrue, late>>

Idle == [op |-> "idle"]

(* "tell" and "cancel" notify those in "to"; "cancel" then deletes. *)
Requests ==
    {Idle}
    \union [op : {"update"}, by : Users, read : Rows, row : Rows, budget : Budgets \union {Keep}]
    \union [op : {"tell"}, to : SUBSET Users]
    \union [op : {"cancel"}, by : Users, to : SUBSET Users]

Exists == event \notin {Unplanned, Cancelled}

(* _get_event and _can_manage. *)
CanManage(u) == u \in members /\ (u = Planner \/ u \in Admins)

Take(p, r) == request[p] = Idle /\ request' = [request EXCEPT ![p] = r]

Cancelling(ps) == \E p \in ps : request[p].op = "cancel"

Done(p) == request' = [request EXCEPT ![p] = Idle]

Init ==
    /\ members = Users
    /\ event = Unplanned
    /\ budget = NoBudget
    /\ toldCancelled = {}
    /\ request = [p \in Procs |-> Idle]
    /\ unaware = {} /\ excused = {}
    /\ untrue = FALSE
    /\ late = {}

-----------------------------------------------------------------------------
Join(u) ==
    /\ u \notin members
    /\ members' = members \union {u}
    /\ late' = IF Cancelling(Procs) THEN late \union {u} ELSE late
    /\ UNCHANGED <<event, budget, toldCancelled, request, awareness, untrue>>

Leave(u) ==
    /\ u \in members \ {Owner}
    /\ members' = members \ {u}
    /\ unaware' = unaware \ {u} /\ excused' = excused \ {u} /\ late' = late \ {u}
    /\ UNCHANGED <<event, budget, toldCancelled, request, untrue>>

(* GroupEventListCreateView.post: the row and its items in one transaction. *)
Plan(p, row, items) ==
    /\ event = Unplanned
    /\ Planner \in members
    /\ event' = row
    /\ budget' = items
    /\ unaware' = members \ {Planner} /\ excused' = {}
    /\ Take(p, [op |-> "tell", to |-> members \ {Planner}])
    /\ UNCHANGED <<members, toldCancelled, untrue, late>>

(* GroupEventDetailView.patch and put: what the payload leaves out is as read,
   and the serializer asks for an end after the start. *)
BeginUpdate(p, u, starts, ends, items) ==
    LET row == [event EXCEPT !.starts = starts, !.ends = ends]
    IN  /\ Exists
        /\ CanManage(u)
        /\ row \in Rows
        /\ Take(p, [op |-> "update", by |-> u, read |-> event, row |-> row, budget |-> items])
        /\ UNCHANGED <<members, event, budget, toldCancelled, awareness, untrue, late>>

(* Mutated form: previous_event is taken after the save. *)
NeverAnnounces(r) == FALSE

(* What the row in hand was changed to, and not what is stored, decides whether
   the members are notified. *)
Announces(r) == r.row # r.read

NewBudget(r) == IF r.budget = Keep THEN budget ELSE r.budget

(* save() writes every column as it was read or given, and inserts the row
   again if it is gone.  The database would refuse one that ends before it starts
   (the constraint event_end_after_start), which the serializer has seen to. *)
Save(p) ==
    LET r      == request[p]
        others == members \ {r.by}
    IN  /\ r.op = "update"
        /\ r.row \in Rows
        /\ event' = r.row
        /\ budget' = NewBudget(r)
        /\ unaware' = (IF r.row = event THEN unaware ELSE others) \ {r.by}
        /\ excused' = CASE r.row # r.read -> {}
                        [] event # r.read -> unaware'
                        [] OTHER -> excused \ {r.by}
        /\ untrue' = (untrue \/ ~Exists)
        /\ request' = [request EXCEPT ![p] =
               IF Announces(r) THEN [op |-> "tell", to |-> others] ELSE Idle]
        /\ UNCHANGED <<members, toldCancelled, late>>

(* emit_notification of a plan or an update, to one member after the other. *)
Tell(p, u) ==
    /\ request[p].op = "tell" /\ u \in request[p].to
    /\ request' = [request EXCEPT ![p].to = @ \ {u}]
    /\ unaware' = unaware \ {u} /\ excused' = excused \ {u}
    /\ UNCHANGED <<members, event, budget, toldCancelled, untrue, late>>

Told(p) ==
    /\ request[p].op = "tell" /\ request[p].to = {}
    /\ Done(p)
    /\ UNCHANGED <<members, event, budget, toldCancelled, awareness, untrue, late>>

-----------------------------------------------------------------------------
(* GroupEventDetailView.delete: the members are told... *)
BeginCancel(p, u) ==
    /\ Exists
    /\ CanManage(u)
    /\ Take(p, [op |-> "cancel", by |-> u, to |-> members \ {u}])
    /\ UNCHANGED <<members, event, budget, toldCancelled, awareness, untrue, late>>

(* ... once each, whatever is cancelled twice: the dedupe key is the event's... *)
TellCancelled(p, u) ==
    /\ request[p].op = "cancel" /\ u \in request[p].to
    /\ request' = [request EXCEPT ![p].to = @ \ {u}]
    /\ toldCancelled' = toldCancelled \union {u}
    /\ UNCHANGED <<members, event, budget, awareness, untrue, late>>

(* Mutated form: the row is deleted first and the members are told then. *)
DeleteFirst(p) ==
    /\ request[p].op = "cancel"
    /\ event' = Cancelled
    /\ budget' = NoBudget
    /\ untrue' = FALSE
    /\ IF request[p].to = {} THEN Done(p) ELSE UNCHANGED request
    /\ UNCHANGED <<members, toldCancelled, awareness, late>>

(* Mutated form: only who planned the event may, and is asked last. *)
DeleteOwn(p) ==
    /\ request[p].op = "cancel" /\ request[p].to = {}
    /\ IF request[p].by = Planner
       THEN event' = Cancelled /\ budget' = NoBudget
       ELSE UNCHANGED <<event, budget>>
    /\ Done(p)
    /\ UNCHANGED <<members, toldCancelled, awareness, untrue, late>>

(* ... and then the row is deleted, with its budget, if it is there. *)
Delete(p) ==
    /\ request[p].op = "cancel" /\ request[p].to = {}
    /\ event' = Cancelled
    /\ budget' = NoBudget
    /\ untrue' = FALSE
    /\ late' = IF Cancelling(Procs \ {p}) THEN late ELSE {}
    /\ Done(p)
    /\ UNCHANGED <<members, toldCancelled, awareness>>

(* A worker dies, or the database fails it. *)
Crash(p) ==
    LET r == request[p]
    IN  /\ r # Idle
        /\ excused' = IF r.op = "tell" THEN excused \union (r.to \intersect unaware) ELSE excused
        /\ untrue' = (untrue \/ r.op = "cancel")
        /\ late' = IF Cancelling(Procs \ {p}) THEN late ELSE {}
        /\ Done(p)
        /\ UNCHANGED <<members, event, budget, toldCancelled, unaware>>

Next ==
    \/ \E u \in Users : Join(u) \/ Leave(u)
    \/ \E p \in Procs, row \in Rows, items \in Budgets : Plan(p, row, items)
    \/ \E p \in Procs, u \in Users :
           \/ \E starts, ends \in Times, items \in Budgets \union {Keep} :
                  BeginUpdate(p, u, starts, ends, items)
           \/ BeginCancel(p, u) \/ Tell(p, u) \/ TellCancelled(p, u)
    \/ \E p \in Procs : Save(p) \/ Told(p) \/ Delete(p) \/ Crash(p)

Spec == Init /\ [][Next]_vars

-----------------------------------------------------------------------------
(* Rows and requests keep their types, and an event that is gone has no budget. *)
TypeOK ==
    /\ members \subseteq Users /\ unaware \subseteq members
    /\ event \in Rows \union {Unplanned, Cancelled}
    /\ budget \in Budgets
    /\ request \in [Procs -> Requests]
    /\ toldCancelled \subseteq Users /\ excused \subseteq unaware
    /\ untrue \in BOOLEAN /\ late \subseteq members
    /\ ~Exists => budget = NoBudget

(* Every member has heard of the last change of the event, or is about to.  Two
   things only leave one without word: a worker that died between saving and
   notifying, which nothing repeats, and an edit that put back what another had
   changed, whose own changes the view compares with its outdated read. *)
ChangesAreAnnounced ==
    \A u \in unaware :
        \/ \E p \in Procs : request[p].op = "tell" /\ u \in request[p].to
        \/ u \in excused

(* Who was told that the event is cancelled was told the truth, or will have
   been once a worker deletes it.  The exceptions are a worker that died before
   it did (the notifications are committed one by one) and an edit that
   inserted the deleted row again. *)
CancellationsAreTrue ==
    toldCancelled # {} =>
        \/ event = Cancelled
        \/ \E p \in Procs : request[p].op = "cancel"
        \/ untrue

(* Whoever is a member when the event is deleted has been told that it is
   cancelled, cancels it, or has joined since the members were listed: they are
   told before the row goes, a worker that dies in between deletes nothing, and
   another's cancellation that came first has told the same people.  (Who was told
   of an earlier cancellation that did not come to pass is not told anew: the
   dedupe key is the event's.) *)
CancellationsAreHeard ==
    [][event' = Cancelled /\ event # Cancelled =>
          \E p \in Procs :
              /\ request[p].op = "cancel"
              /\ members \subseteq toldCancelled \union {request[p].by} \union late]_vars

=============================================================================
