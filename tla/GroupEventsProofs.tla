-------------------------- MODULE GroupEventsProofs --------------------------
(***************************************************************************)
(* Proofs about GroupEvents, for any users, admins, workers and budgets,   *)
(* and any bound on time.  Its invariants are inductive together.          *)
(***************************************************************************)
EXTENDS GroupEvents, TLAPS

(* While a worker cancels the event, every member has been told, is going to be
   told by it, is the one who cancels, or came late. *)
Hearing ==
    \A p \in Procs : request[p].op = "cancel" =>
        members \subseteq toldCancelled \union request[p].to \union {request[p].by} \union late

IInv == TypeOK /\ ChangesAreAnnounced /\ CancellationsAreTrue /\ Hearing

LEMMA RequestFields ==
    ASSUME TypeOK, NEW p \in Procs
    PROVE  /\ request[p].op = "update" =>
                 /\ request[p].by \in Users
                 /\ request[p].read \in Rows /\ request[p].row \in Rows
                 /\ request[p].budget \in Budgets \union {Keep}
           /\ request[p].op = "tell" =>
                 request[p].to \subseteq Users /\ request[p] = [op |-> "tell", to |-> request[p].to]
           /\ request[p].op = "cancel" =>
                 /\ request[p].by \in Users /\ request[p].to \subseteq Users
                 /\ request[p] = [op |-> "cancel", by |-> request[p].by, to |-> request[p].to]
<1>1. request[p] \in Requests
  BY DEF TypeOK
<1> QED  BY <1>1 DEF Requests, Idle

(* What a step does to one worker's request, the others' being as they were. *)
LEMMA OneRequest ==
    ASSUME TypeOK, NEW p \in Procs, NEW r, request' = [request EXCEPT ![p] = r]
    PROVE  request'[p] = r /\ \A q \in Procs \ {p} : request'[q] = request[q]
BY DEF TypeOK

LEMMA RowsExist == \A row \in Rows : row # Unplanned /\ row # Cancelled
BY EventConstants

LEMMA InitIInv == Init => IInv
<1> SUFFICES ASSUME Init PROVE IInv
  OBVIOUS
<1>1. TypeOK
  BY EventConstants DEF Init, TypeOK, Requests
<1> QED  BY <1>1 DEF Init, IInv, ChangesAreAnnounced, CancellationsAreTrue, Hearing, Idle

-----------------------------------------------------------------------------
LEMMA TypeStep ==
    ASSUME TypeOK, [Next]_vars
    PROVE  TypeOK'
<1> USE DEF TypeOK, Exists, awareness
<1>1. CASE UNCHANGED vars
  BY <1>1 DEF vars
<1>2. ASSUME NEW u \in Users, Join(u) \/ Leave(u) PROVE TypeOK'
  <2>1. late' \subseteq members'
    BY <1>2 DEF Join, Leave
  <2> QED  BY <1>2, <2>1 DEF Join, Leave
<1>3. ASSUME NEW p \in Procs, NEW row \in Rows, NEW items \in Budgets, Plan(p, row, items)
      PROVE  TypeOK'
  <2>1. [op |-> "tell", to |-> members \ {Planner}] \in Requests
    BY DEF Requests
  <2>2. request' \in [Procs -> Requests]
    BY <1>3, <2>1 DEF Plan, Take
  <2> QED  BY <1>3, <2>2, RowsExist DEF Plan
<1>4. ASSUME NEW p \in Procs, NEW u \in Users, NEW starts \in Times, NEW ends \in Times,
             NEW items \in Budgets \union {Keep}, BeginUpdate(p, u, starts, ends, items)
      PROVE  TypeOK'
  <2> DEFINE row == [event EXCEPT !.starts = starts, !.ends = ends]
             r == [op |-> "update", by |-> u, read |-> event, row |-> row, budget |-> items]
  <2>1. event \in Rows /\ row \in Rows
    BY <1>4 DEF BeginUpdate
  <2>2. r \in Requests
    BY <2>1 DEF Requests
  <2>3. request' = [request EXCEPT ![p] = r]
    BY <1>4 DEF BeginUpdate, Take
  <2>4. request' \in [Procs -> Requests]
    BY <2>2, <2>3
  <2> QED  BY <1>4, <2>4 DEF BeginUpdate
<1>5. ASSUME NEW p \in Procs, Save(p) PROVE TypeOK'
  <2> DEFINE r == request[p]
             others == members \ {r.by}
             new == IF Announces(r) THEN [op |-> "tell", to |-> others] ELSE Idle
  <2>1. r.row \in Rows /\ r.read \in Rows /\ r.budget \in Budgets \union {Keep}
    BY <1>5, RequestFields DEF Save
  <2>2. request' = [request EXCEPT ![p] = new]
    BY <1>5 DEF Save
  <2>3. new \in Requests
    BY DEF Requests
  <2>4. request' \in [Procs -> Requests]
    BY <2>2, <2>3
  <2>5. event' \in Rows /\ budget' \in Budgets /\ members' = members
    BY <1>5, <2>1 DEF Save, NewBudget
  <2>6. unaware' \subseteq members' /\ excused' \subseteq unaware'
    BY <1>5 DEF Save
  <2>7. untrue' \in BOOLEAN /\ toldCancelled' = toldCancelled /\ late' = late
    BY <1>5 DEF Save
  <2> QED  BY <2>4, <2>5, <2>6, <2>7, RowsExist
<1>6. ASSUME NEW p \in Procs, NEW u \in Users, Tell(p, u) \/ TellCancelled(p, u) PROVE TypeOK'
  <2> DEFINE r == [request[p] EXCEPT !.to = @ \ {u}]
  <2>1. request' = [request EXCEPT ![p] = r]
    BY <1>6 DEF Tell, TellCancelled
  <2>2. r \in Requests
    <3>1. CASE request[p].op = "tell"
      BY <3>1, RequestFields DEF Requests
    <3>2. CASE request[p].op = "cancel"
      BY <3>2, RequestFields DEF Requests
    <3> QED  BY <1>6, <3>1, <3>2 DEF Tell, TellCancelled
  <2>3. request' \in [Procs -> Requests]
    BY <2>1, <2>2
  <2> QED  BY <1>6, <2>3 DEF Tell, TellCancelled
<1>7. ASSUME NEW p \in Procs, Told(p) \/ Delete(p) \/ Crash(p) PROVE TypeOK'
  <2>1. request' \in [Procs -> Requests]
    BY <1>7 DEF Told, Delete, Crash, Done, Requests
  <2> QED  BY <1>7, <2>1, EventConstants DEF Told, Delete, Crash
<1>8. ASSUME NEW p \in Procs, NEW u \in Users, BeginCancel(p, u) PROVE TypeOK'
  <2>1. [op |-> "cancel", by |-> u, to |-> members \ {u}] \in Requests
    BY DEF Requests
  <2>2. request' \in [Procs -> Requests]
    BY <1>8, <2>1 DEF BeginCancel, Take
  <2> QED  BY <1>8, <2>2 DEF BeginCancel
<1> QED  BY <1>1, <1>2, <1>3, <1>4, <1>5, <1>6, <1>7, <1>8 DEF Next

-----------------------------------------------------------------------------
(* A notification that a worker still has to send is on its way. *)
OnItsWay(u) == \E p \in Procs : request[p].op = "tell" /\ u \in request[p].to

LEMMA AnnouncedStep ==
    ASSUME TypeOK, ChangesAreAnnounced, [Next]_vars
    PROVE  ChangesAreAnnounced'
<1> SUFFICES ASSUME NEW v \in unaware'
             PROVE  OnItsWay(v)' \/ v \in excused'
  BY DEF ChangesAreAnnounced, OnItsWay
<1>1. v \in unaware => OnItsWay(v) \/ v \in excused
  BY DEF ChangesAreAnnounced, OnItsWay
<1> USE DEF OnItsWay, awareness
<1>2. CASE UNCHANGED vars
  BY <1>1, <1>2 DEF vars
<1>3. ASSUME NEW u \in Users, Join(u) \/ Leave(u) PROVE OnItsWay(v)' \/ v \in excused'
  BY <1>1, <1>3 DEF Join, Leave
<1>4. ASSUME NEW p \in Procs, NEW row \in Rows, NEW items \in Budgets, Plan(p, row, items)
      PROVE  OnItsWay(v)'
  <2>1. request'[p] = [op |-> "tell", to |-> members \ {Planner}]
    BY <1>4, OneRequest DEF Plan, Take
  <2> QED  BY <1>4, <2>1 DEF Plan
<1>5. ASSUME NEW p \in Procs, request[p].op # "tell", UNCHANGED awareness,
             \A q \in Procs \ {p} : request'[q] = request[q]
      PROVE  OnItsWay(v)' \/ v \in excused'
  BY <1>1, <1>5
<1>6. ASSUME NEW p \in Procs, NEW u \in Users, NEW starts \in Times, NEW ends \in Times,
             NEW items \in Budgets \union {Keep}, BeginUpdate(p, u, starts, ends, items)
      PROVE  OnItsWay(v)' \/ v \in excused'
  BY <1>5, <1>6, OneRequest DEF BeginUpdate, Take, Idle
<1>7. ASSUME NEW p \in Procs, NEW u \in Users, BeginCancel(p, u)
      PROVE  OnItsWay(v)' \/ v \in excused'
  BY <1>5, <1>7, OneRequest DEF BeginCancel, Take, Idle
<1>8. ASSUME NEW p \in Procs, NEW u \in Users, TellCancelled(p, u)
      PROVE  OnItsWay(v)' \/ v \in excused'
  BY <1>5, <1>8, OneRequest DEF TellCancelled
<1>9. ASSUME NEW p \in Procs, Delete(p) PROVE OnItsWay(v)' \/ v \in excused'
  BY <1>5, <1>9, OneRequest DEF Delete, Done
<1>10. ASSUME NEW p \in Procs, Save(p) PROVE OnItsWay(v)' \/ v \in excused'
  <2> DEFINE r == request[p]
             others == members \ {r.by}
  <2>1. v \in others
    BY <1>10 DEF Save, TypeOK
  <2>2. CASE r.row # r.read
    <3>1. request'[p] = [op |-> "tell", to |-> others]
      BY <1>10, <2>2, OneRequest DEF Save, Announces
    <3> QED  BY <2>1, <3>1
  <2>3. CASE r.row = r.read /\ event # r.read
    BY <1>10, <2>3 DEF Save
  <2>4. CASE r.row = r.read /\ event = r.read
    <3>1. v \in unaware /\ v # r.by /\ excused' = excused \ {r.by}
      BY <1>10, <2>4 DEF Save
    <3>2. \A q \in Procs \ {p} : request'[q] = request[q]
      BY <1>10, OneRequest DEF Save
    <3> QED  BY <1>1, <1>10, <3>1, <3>2 DEF Save
  <2> QED  BY <2>2, <2>3, <2>4
<1>11. ASSUME NEW p \in Procs, NEW u \in Users, Tell(p, u) PROVE OnItsWay(v)' \/ v \in excused'
  <2>1. v # u /\ v \in unaware /\ excused' = excused \ {u}
    BY <1>11 DEF Tell
  <2>2. request'[p] = [op |-> "tell", to |-> request[p].to \ {u}]
    <3>1. request'[p] = [request[p] EXCEPT !.to = @ \ {u}]
      BY <1>11 DEF Tell, TypeOK
    <3> QED  BY <1>11, <3>1, RequestFields DEF Tell
  <2>3. \A q \in Procs \ {p} : request'[q] = request[q]
    BY <1>11, OneRequest DEF Tell
  <2> QED  BY <1>1, <2>1, <2>2, <2>3
<1>12. ASSUME NEW p \in Procs, Told(p) PROVE OnItsWay(v)' \/ v \in excused'
  <2>1. request[p].to = {} /\ v \in unaware /\ excused' = excused
    BY <1>12 DEF Told
  <2>2. \A q \in Procs \ {p} : request'[q] = request[q]
    BY <1>12, OneRequest DEF Told, Done
  <2> QED  BY <1>1, <2>1, <2>2
<1>13. ASSUME NEW p \in Procs, Crash(p) PROVE OnItsWay(v)' \/ v \in excused'
  <2>1. v \in unaware /\ (v \in excused => v \in excused')
    BY <1>13 DEF Crash
  <2>2. request[p].op = "tell" /\ v \in request[p].to => v \in excused'
    BY <1>13, <2>1 DEF Crash
  <2>3. \A q \in Procs \ {p} : request'[q] = request[q]
    BY <1>13, OneRequest DEF Crash, Done
  <2> QED  BY <1>1, <2>1, <2>2, <2>3
<1> QED
  BY <1>2, <1>3, <1>4, <1>6, <1>7, <1>8, <1>9, <1>10, <1>11, <1>12, <1>13 DEF Next

-----------------------------------------------------------------------------
LEMMA TruthStep ==
    ASSUME TypeOK, CancellationsAreTrue, [Next]_vars
    PROVE  CancellationsAreTrue'
<1> USE DEF CancellationsAreTrue, awareness
<1>1. ASSUME NEW p \in Procs, request[p].op # "cancel", UNCHANGED <<event, toldCancelled, untrue>>,
             \A q \in Procs \ {p} : request'[q] = request[q]
      PROVE  CancellationsAreTrue'
  BY <1>1
<1>2. CASE UNCHANGED vars
  BY <1>2 DEF vars
<1>3. ASSUME NEW u \in Users, Join(u) \/ Leave(u) PROVE CancellationsAreTrue'
  BY <1>3 DEF Join, Leave
<1>4. ASSUME NEW p \in Procs, NEW row \in Rows, NEW items \in Budgets, Plan(p, row, items)
      PROVE  CancellationsAreTrue'
  <2>1. event # Cancelled /\ request[p].op # "cancel"
    BY <1>4, EventConstants DEF Plan, Take, Idle
  <2>2. \A q \in Procs \ {p} : request'[q] = request[q]
    BY <1>4, OneRequest DEF Plan, Take
  <2> QED  BY <1>4, <2>1, <2>2 DEF Plan
<1>5. ASSUME NEW p \in Procs, NEW u \in Users, NEW starts \in Times, NEW ends \in Times,
             NEW items \in Budgets \union {Keep}, BeginUpdate(p, u, starts, ends, items)
      PROVE  CancellationsAreTrue'
  BY <1>1, <1>5, OneRequest DEF BeginUpdate, Take, Idle
<1>6. ASSUME NEW p \in Procs, NEW u \in Users, BeginCancel(p, u) PROVE CancellationsAreTrue'
  BY <1>1, <1>6, OneRequest DEF BeginCancel, Take, Idle
<1>7. ASSUME NEW p \in Procs, NEW u \in Users, Tell(p, u) PROVE CancellationsAreTrue'
  BY <1>1, <1>7, OneRequest DEF Tell
<1>8. ASSUME NEW p \in Procs, NEW u \in Users, TellCancelled(p, u) PROVE CancellationsAreTrue'
  <2>1. request'[p].op = "cancel"
    BY <1>8, RequestFields, OneRequest DEF TellCancelled
  <2> QED  BY <2>1
<1>9. ASSUME NEW p \in Procs, Delete(p) PROVE CancellationsAreTrue'
  BY <1>9 DEF Delete
<1>10. ASSUME NEW p \in Procs, Told(p) PROVE CancellationsAreTrue'
  BY <1>1, <1>10, OneRequest DEF Told, Done
<1>11. ASSUME NEW p \in Procs, Save(p) PROVE CancellationsAreTrue'
  <2>1. event = Cancelled => untrue'
    BY <1>11 DEF Save, Exists
  <2>2. request[p].op # "cancel" /\ (untrue => untrue') /\ toldCancelled' = toldCancelled
    BY <1>11 DEF Save
  <2>3. \A q \in Procs \ {p} : request'[q] = request[q]
    BY <1>11, OneRequest DEF Save
  <2> QED  BY <2>1, <2>2, <2>3
<1>12. ASSUME NEW p \in Procs, Crash(p) PROVE CancellationsAreTrue'
  <2>1. /\ request[p].op = "cancel" => untrue'
        /\ untrue => untrue'
        /\ toldCancelled' = toldCancelled /\ event' = event
    BY <1>12 DEF Crash
  <2>2. \A q \in Procs \ {p} : request'[q] = request[q]
    BY <1>12, OneRequest DEF Crash, Done
  <2> QED  BY <2>1, <2>2
<1> QED
  BY <1>2, <1>3, <1>4, <1>5, <1>6, <1>7, <1>8, <1>9, <1>10, <1>11, <1>12 DEF Next

-----------------------------------------------------------------------------
LEMMA HeardStep ==
    ASSUME TypeOK, Hearing, [Next]_vars
    PROVE  Hearing'
<1> DEFINE Heard(q) == members \subseteq toldCancelled \union request[q].to \union {request[q].by}
                                            \union late
<1> SUFFICES ASSUME NEW q \in Procs, (request[q].op = "cancel")'
             PROVE  Heard(q)'
  BY DEF Hearing
<1>1. request[q].op = "cancel" => Heard(q)
  BY DEF Hearing
<1>2. ASSUME request'[q] = request[q], UNCHANGED <<members, toldCancelled, late>> PROVE Heard(q)'
  BY <1>1, <1>2
<1>3. CASE UNCHANGED vars
  BY <1>2, <1>3 DEF vars
<1>4. ASSUME NEW u \in Users, Join(u) PROVE Heard(q)'
  <2>1. request' = request /\ toldCancelled' = toldCancelled /\ members' = members \union {u}
    BY <1>4 DEF Join
  <2>2. late' = late \union {u}
    BY <1>4, <2>1 DEF Join, Cancelling
  <2> QED  BY <1>1, <2>1, <2>2
<1>5. ASSUME NEW u \in Users, Leave(u) PROVE Heard(q)'
  <2>1. /\ request' = request /\ toldCancelled' = toldCancelled
        /\ members' = members \ {u} /\ late' = late \ {u}
    BY <1>5 DEF Leave
  <2> QED  BY <1>1, <2>1
<1>6. ASSUME NEW p \in Procs, NEW row \in Rows, NEW items \in Budgets, Plan(p, row, items)
      PROVE  Heard(q)'
  <2>1. request'[p] = [op |-> "tell", to |-> members \ {Planner}]
    BY <1>6, OneRequest DEF Plan, Take
  <2>2. request'[q] = request[q]
    BY <1>6, <2>1, OneRequest DEF Plan, Take
  <2> QED  BY <1>2, <1>6, <2>2 DEF Plan
<1>7. ASSUME NEW p \in Procs, NEW u \in Users, NEW starts \in Times, NEW ends \in Times,
             NEW items \in Budgets \union {Keep}, BeginUpdate(p, u, starts, ends, items)
      PROVE  Heard(q)'
  <2> DEFINE row == [event EXCEPT !.starts = starts, !.ends = ends]
  <2>1. request' = [request EXCEPT ![p] =
            [op |-> "update", by |-> u, read |-> event, row |-> row, budget |-> items]]
    BY <1>7 DEF BeginUpdate, Take
  <2>2. request'[q] = request[q]
    BY <2>1 DEF TypeOK
  <2> QED  BY <1>2, <1>7, <2>2 DEF BeginUpdate
<1>8. ASSUME NEW p \in Procs, NEW u \in Users, BeginCancel(p, u) PROVE Heard(q)'
  <2>1. /\ request'[p] = [op |-> "cancel", by |-> u, to |-> members \ {u}]
        /\ \A w \in Procs \ {p} : request'[w] = request[w]
        /\ UNCHANGED <<members, toldCancelled, late>>
    BY <1>8, OneRequest DEF BeginCancel, Take
  <2> QED  BY <1>2, <2>1
<1>9. ASSUME NEW p \in Procs, NEW u \in Users, Tell(p, u) PROVE Heard(q)'
  <2>1. request'[p] = [request[p] EXCEPT !.to = @ \ {u}] /\ request[p].op = "tell"
    BY <1>9, OneRequest DEF Tell
  <2>2. request'[p].op = "tell"
    BY <2>1, RequestFields
  <2>3. request'[q] = request[q]
    BY <1>9, <2>2, OneRequest DEF Tell
  <2> QED  BY <1>2, <1>9, <2>3 DEF Tell
<1>10. ASSUME NEW p \in Procs, NEW u \in Users, TellCancelled(p, u) PROVE Heard(q)'
  <2>1. /\ request[p].op = "cancel"
        /\ request'[p] = [request[p] EXCEPT !.to = @ \ {u}]
        /\ \A w \in Procs \ {p} : request'[w] = request[w]
        /\ toldCancelled' = toldCancelled \union {u}
        /\ UNCHANGED <<members, late>>
    BY <1>10, OneRequest DEF TellCancelled
  <2>2. request'[p].by = request[p].by /\ request'[p].to = request[p].to \ {u}
    BY <2>1, RequestFields
  <2>3. CASE q = p
    BY <1>1, <2>1, <2>2, <2>3
  <2>4. CASE q # p
    <3>1. request'[q] = request[q]
      BY <2>1, <2>4
    <3> QED  BY <1>1, <2>1, <3>1
  <2> QED  BY <2>3, <2>4
<1>11. ASSUME NEW p \in Procs, Done(p), UNCHANGED <<members, toldCancelled>>,
              late' = late \/ late' = IF Cancelling(Procs \ {p}) THEN late ELSE {}
       PROVE  Heard(q)'
  <2>1. request'[p] = Idle /\ \A w \in Procs \ {p} : request'[w] = request[w]
    BY <1>11, OneRequest DEF Done
  <2>2. q # p /\ request'[q] = request[q]
    BY <2>1 DEF Idle
  <2>3. request[q].op = "cancel"
    BY <2>2
  <2>4. late' = late
    BY <1>11, <2>2, <2>3 DEF Cancelling
  <2> QED  BY <1>2, <1>11, <2>2, <2>4
<1>12. ASSUME NEW p \in Procs, Told(p) \/ Delete(p) \/ Crash(p) PROVE Heard(q)'
  BY <1>11, <1>12 DEF Told, Delete, Crash
<1>13. ASSUME NEW p \in Procs, Save(p) PROVE Heard(q)'
  <2> DEFINE next == IF Announces(request[p])
                     THEN [op |-> "tell", to |-> members \ {request[p].by}] ELSE Idle
  <2>1. request' = [request EXCEPT ![p] = next]
    BY <1>13 DEF Save
  <2>2. request'[q] = request[q]
    BY <2>1 DEF Idle, TypeOK
  <2> QED  BY <1>2, <1>13, <2>2 DEF Save
<1> QED
  BY <1>3, <1>4, <1>5, <1>6, <1>7, <1>8, <1>9, <1>10, <1>12, <1>13 DEF Next

-----------------------------------------------------------------------------
LEMMA NextIInv == IInv /\ [Next]_vars => IInv'
BY TypeStep, AnnouncedStep, TruthStep, HeardStep DEF IInv

(* Rows and requests keep their types, and an event that is gone has no budget. *)
THEOREM TypeCorrect == Spec => []TypeOK
<1>1. IInv => TypeOK
  BY DEF IInv
<1> QED  BY <1>1, InitIInv, NextIInv, PTL DEF Spec

(* Changes reach every member, but for a worker's death and the save of an
   outdated read without changes of its own. *)
THEOREM ChangesAnnounced == Spec => []ChangesAreAnnounced
<1>1. IInv => ChangesAreAnnounced
  BY DEF IInv
<1> QED  BY <1>1, InitIInv, NextIInv, PTL DEF Spec

(* Cancellations are true, but for a worker's death and the save of a read that
   the deletion has outdated. *)
THEOREM CancellationsTrue == Spec => []CancellationsAreTrue
<1>1. IInv => CancellationsAreTrue
  BY DEF IInv
<1> QED  BY <1>1, InitIInv, NextIInv, PTL DEF Spec

(* No event is deleted before its members have heard, but for those who joined
   while the others were told. *)
THEOREM CancellationsHeard == Spec => CancellationsAreHeard
<1> DEFINE Heard == event' = Cancelled /\ event # Cancelled =>
               \E p \in Procs :
                   /\ request[p].op = "cancel"
                   /\ members \subseteq toldCancelled \union {request[p].by} \union late
<1>1. ASSUME IInv, Next PROVE Heard
  <2>1. ASSUME NEW p \in Procs, Delete(p) PROVE Heard
    BY <1>1, <2>1 DEF Delete, IInv, Hearing
  <2>2. ASSUME NEW p \in Procs, Save(p) PROVE Heard
    BY <2>2, EventConstants DEF Save
  <2>3. ASSUME NEW p \in Procs, NEW row \in Rows, NEW items \in Budgets, Plan(p, row, items)
        PROVE  Heard
    BY <2>3, EventConstants DEF Plan
  <2>4. ASSUME UNCHANGED event PROVE Heard
    BY <2>4
  <2> HIDE DEF Heard
  <2> QED
    BY <1>1, <2>1, <2>2, <2>3, <2>4 DEF Next, Join, Leave, BeginUpdate, BeginCancel, Tell,
       TellCancelled, Told, Crash
<1>2. IInv /\ [Next]_vars => [Heard]_vars
  <2> HIDE DEF Heard
  <2> QED  BY <1>1
<1> QED  BY <1>2, InitIInv, NextIInv, PTL DEF Spec, CancellationsAreHeard

=============================================================================
