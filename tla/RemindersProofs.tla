--------------------------- MODULE RemindersProofs ---------------------------
(***************************************************************************)
(* Proofs about Reminders, for any users, subjects, reminders and workers, *)
(* any batch size and any bounds on time and on tasks.                     *)
(***************************************************************************)
EXTENDS Reminders, TLAPS

Types ==
    /\ now \in Times
    /\ things \subseteq Things
    /\ reminder \in [Reminders -> ReminderRows \union {Unscheduled, Deleted}]
    /\ queued \in [Reminders -> 0..MaxQueued]
    /\ notice \in [Reminders -> [Users -> Notices \union {NoNotice}]]
    /\ request \in [Procs -> Requests]
    /\ overtaken \subseteq Reminders
    /\ postponed \subseteq Reminders

(* What a user was told is what the reminder says, or a view has overtaken it. *)
Truth(r) ==
    \A u \in Users : Exists(r) /\ Told(r, u) =>
        \/ r \in overtaken
        \/ HasStatus(r, "sent") /\ notice[r][u].about = reminder[r].about

(* A task waits for what is due, or was put off meanwhile. *)
QueuedForAReason(r) ==
    queued[r] > 0 /\ Pending(r) => reminder[r].at <= now \/ r \in postponed

(* Nothing is told or queued of a reminder that was never scheduled. *)
FreshIsUntouched(r) ==
    reminder[r] = Unscheduled => queued[r] = 0 /\ \A u \in Users : ~Told(r, u)

ReminderOK(r) ==
    /\ Exists(r) => RowExists(reminder[r].about)
    /\ Truth(r)
    /\ QueuedForAReason(r)
    /\ FreshIsUntouched(r)

(* A worker that edits a reminder has read it pending. *)
ReadPending == \A p \in Procs : request[p].op = "patch" => request[p].row.status = "pending"

IInv == Types /\ ReadPending /\ \A r \in Reminders : ReminderOK(r)

-----------------------------------------------------------------------------
LEMMA RequestFields ==
    ASSUME Types, NEW p \in Procs
    PROVE  /\ request[p].op = "patch" => request[p].id \in Reminders /\ request[p].row \in ReminderRows
           /\ request[p].op = "cancel" => request[p].id \in Reminders
           /\ request[p] # Idle => request[p].id \in Reminders
<1>1. request[p] \in Requests
  BY DEF Types
<1> QED  BY <1>1 DEF Requests, Idle

LEMMA RowIsThere ==
    ASSUME Types, NEW r \in Reminders, Exists(r)
    PROVE  reminder[r] \in ReminderRows
BY DEF Types, Exists

LEMMA RowIsReal ==
    ASSUME NEW row \in ReminderRows
    PROVE  row # Unscheduled /\ row # Deleted
BY ReminderConstants

LEMMA ExistsBy ==
    ASSUME NEW r \in Reminders
    PROVE  Exists(r) <=> reminder[r] # Unscheduled /\ reminder[r] # Deleted
BY DEF Exists

(* A step that leaves a reminder, its tasks and its notices alone. *)
LEMMA Untouched ==
    ASSUME Types, Types', NEW r \in Reminders, ReminderOK(r),
           reminder'[r] = reminder[r], queued'[r] = queued[r], notice'[r] = notice[r],
           now <= now',
           \A s \in Subjects : Exists(r) /\ s = reminder[r].about /\ RowExists(s) => RowExists(s)',
           r \in overtaken => r \in overtaken',
           r \in postponed => r \in postponed'
    PROVE  ReminderOK(r)'
<1>1. Exists(r)' <=> Exists(r)
  BY DEF Exists
<1>2. Exists(r) => reminder[r].about \in Subjects /\ reminder[r].at \in Nat
  <2>1. ASSUME Exists(r) PROVE reminder[r].about \in Subjects /\ reminder[r].at \in Nat
    <3>1. reminder[r] \in ReminderRows
      BY <2>1, RowIsThere
    <3> QED  BY <3>1, ReminderConstants DEF ReminderRows, Times
  <2> QED  BY <2>1
<1>3. now \in Nat /\ now' \in Nat
  BY ReminderConstants DEF Types, Times
<1>4. (Exists(r) => RowExists(reminder[r].about))'
  <2> SUFFICES ASSUME Exists(r)' PROVE RowExists(reminder[r].about)'
    OBVIOUS
  <2>1. PICK s \in Subjects : s = reminder[r].about
    BY <1>1, <1>2
  <2>2. RowExists(s)
    BY <1>1, <2>1 DEF ReminderOK
  <2>3. RowExists(s)'
    BY <1>1, <2>1, <2>2
  <2> QED  BY <2>1, <2>3 DEF RowExists
<1>5. Truth(r)'
  BY <1>1 DEF ReminderOK, Truth, HasStatus, Told
<1>6. QueuedForAReason(r)'
  BY <1>1, <1>2, <1>3 DEF ReminderOK, QueuedForAReason, Pending, HasStatus
<1>7. FreshIsUntouched(r)'
  BY DEF ReminderOK, FreshIsUntouched, Told
<1> QED  BY <1>4, <1>5, <1>6, <1>7 DEF ReminderOK

LEMMA NowGrows ==
    ASSUME Types
    PROVE  /\ now \in Nat
           /\ UNCHANGED now => now <= now'
BY ReminderConstants DEF Types, Times

LEMMA InitIInv == Init => IInv
<1> SUFFICES ASSUME Init PROVE IInv
  OBVIOUS
<1>1. Types
  BY ReminderConstants DEF Init, Types, Times, Requests
<1>2. ReadPending
  BY DEF Init, ReadPending, Idle
<1>3. ASSUME NEW r \in Reminders PROVE ReminderOK(r)
  BY <1>3, ReminderConstants DEF Init, ReminderOK, Truth, QueuedForAReason, FreshIsUntouched,
     Exists, Told, Pending, HasStatus
<1> QED  BY <1>1, <1>2, <1>3 DEF IInv

(* A step of a view that only takes or drops a request. *)
LEMMA RowsAlone ==
    ASSUME IInv, request' \in [Procs -> Requests], ReadPending',
           UNCHANGED <<now, things, reminder, queued, notice, overtaken, postponed>>
    PROVE  IInv'
<1>1. Types'
  BY DEF IInv, Types
<1>2. ASSUME NEW r \in Reminders PROVE ReminderOK(r)'
  <2>1. now <= now'
    BY NowGrows DEF IInv
  <2> QED  BY <1>1, <2>1, Untouched DEF IInv, RowExists
<1> QED  BY <1>1, <1>2 DEF IInv

LEMMA RequestTaken ==
    ASSUME IInv, NEW p \in Procs, NEW c \in Requests, Take(p, c),
           c.op = "patch" => c.row.status = "pending"
    PROVE  request' \in [Procs -> Requests] /\ ReadPending'
BY DEF IInv, Types, ReadPending, Take

LEMMA RequestDone ==
    ASSUME IInv, NEW p \in Procs, Done(p)
    PROVE  request' \in [Procs -> Requests] /\ ReadPending'
BY DEF IInv, Types, ReadPending, Done, Requests, Idle

LEMMA RequestsAlone ==
    ASSUME IInv, UNCHANGED request
    PROVE  request' \in [Procs -> Requests] /\ ReadPending'
BY DEF IInv, Types, ReadPending

-----------------------------------------------------------------------------
LEMMA ScheduleStep ==
    ASSUME IInv, NEW r \in Reminders, NEW s \in Subjects, NEW at \in Times, Schedule(r, s, at)
    PROVE  IInv'
<1> DEFINE row == [about |-> s, at |-> at, status |-> "pending"]
<1>1. row \in ReminderRows /\ row # Unscheduled /\ row # Deleted
  BY ReminderConstants DEF ReminderRows
<1>2. /\ reminder[r] = Unscheduled /\ RowExists(s)
      /\ reminder' = [reminder EXCEPT ![r] = row]
      /\ UNCHANGED <<now, things, queued, notice, request, overtaken, postponed>>
  BY DEF Schedule
<1>3. row.about = s
  OBVIOUS
<1> HIDE DEF row
<1>4. Types'
  BY <1>1, <1>2 DEF IInv, Types
<1>5. reminder'[r] = row
  BY <1>2 DEF IInv, Types
<1>6. queued[r] = 0 /\ \A u \in Users : ~Told(r, u)
  BY <1>2 DEF IInv, ReminderOK, FreshIsUntouched
<1>7. ReminderOK(r)'
  BY <1>1, <1>2, <1>3, <1>5, <1>6 DEF ReminderOK, Truth, QueuedForAReason, FreshIsUntouched,
     RowExists, Told
<1>8. ASSUME NEW q \in Reminders, q # r PROVE ReminderOK(q)'
  <2>1. now <= now' /\ reminder'[q] = reminder[q]
    BY <1>2, <1>8, NowGrows DEF IInv, Types
  <2> QED  BY <1>2, <1>4, <2>1, Untouched DEF IInv, RowExists
<1> QED  BY <1>2, <1>4, <1>7, <1>8, RequestsAlone DEF IInv

LEMMA BeginPatchStep ==
    ASSUME IInv, NEW p \in Procs, NEW r \in Reminders, NEW s \in Subjects, NEW at \in Times,
           BeginPatch(p, r, s, at)
    PROVE  IInv'
<1> DEFINE c == [op |-> "patch", id |-> r, row |-> [reminder[r] EXCEPT !.about = s, !.at = at]]
<1>1. reminder[r] \in ReminderRows /\ reminder[r].status = "pending"
  BY RowIsThere DEF IInv, BeginPatch, Pending, HasStatus
<1>2. c \in Requests /\ c.row.status = "pending"
  BY <1>1 DEF Requests, ReminderRows
<1>3. Take(p, c)
  BY DEF BeginPatch
<1> HIDE DEF c
<1>4. request' \in [Procs -> Requests] /\ ReadPending'
  BY <1>2, <1>3, RequestTaken
<1> QED  BY <1>4, RowsAlone DEF BeginPatch

LEMMA BeginCancelStep ==
    ASSUME IInv, NEW p \in Procs, NEW r \in Reminders, BeginCancel(p, r)
    PROVE  IInv'
<1> DEFINE c == [op |-> "cancel", id |-> r]
<1>1. c \in Requests /\ c.op # "patch"
  BY DEF Requests
<1>2. Take(p, c)
  BY DEF BeginCancel
<1> HIDE DEF c
<1>3. request' \in [Procs -> Requests] /\ ReadPending'
  BY <1>1, <1>2, RequestTaken
<1> QED  BY <1>3, RowsAlone DEF BeginCancel

LEMMA CrashStep ==
    ASSUME IInv, NEW p \in Procs, Crash(p)
    PROVE  IInv'
<1>1. request' \in [Procs -> Requests] /\ ReadPending'
  BY RequestDone DEF Crash
<1> QED  BY <1>1, RowsAlone DEF Crash

(* The row in hand is pending: if the stored one is not, the save overtakes
   it, and if a task waits, the save puts the reminder off. *)
LEMMA CommitPatchStep ==
    ASSUME IInv, NEW p \in Procs, CommitPatch(p)
    PROVE  IInv'
<1>1. PICK id, row : id = request[p].id /\ row = request[p].row
  OBVIOUS
<1>2. id \in Reminders /\ row \in ReminderRows /\ row.status = "pending"
  BY <1>1, RequestFields DEF IInv, ReadPending, CommitPatch
<1>3. row.about \in Subjects /\ row.at \in Times /\ row # Unscheduled /\ row # Deleted
  BY <1>2, RowIsReal DEF ReminderRows
<1>4. request' \in [Procs -> Requests] /\ ReadPending'
  BY RequestDone DEF CommitPatch
<1>5. UNCHANGED <<now, things, queued, notice>>
  BY DEF CommitPatch
<1>6. ASSUME RowExists(row.about)
      PROVE  IInv'
  <2>1. /\ reminder' = [reminder EXCEPT ![id] = row]
        /\ overtaken' = IF HasStatus(id, row.status) THEN overtaken ELSE overtaken \union {id}
        /\ postponed' = IF queued[id] > 0 /\ row.at > now THEN postponed \union {id} ELSE postponed
    BY <1>1, <1>6 DEF CommitPatch
  <2>2. Types'
    BY <1>2, <1>4, <1>5, <2>1 DEF IInv, Types
  <2>3. reminder'[id] = row /\ \A q \in Reminders : q # id => reminder'[q] = reminder[q]
    BY <1>2, <2>1 DEF IInv, Types
  <2>4. Truth(id)'
    <3>1. CASE HasStatus(id, "pending")
      <4>1. \A u \in Users : Told(id, u) => id \in overtaken
        BY <1>2, <3>1 DEF IInv, ReminderOK, Truth, HasStatus
      <4> QED  BY <1>2, <1>5, <2>1, <3>1, <4>1 DEF Truth, Told
    <3>2. CASE ~HasStatus(id, "pending")
      BY <1>2, <2>1, <3>2 DEF Truth
    <3> QED  BY <3>1, <3>2
  <2>5. QueuedForAReason(id)'
    <3>1. now \in Nat /\ row.at \in Nat
      BY <1>3, ReminderConstants DEF IInv, Types, Times
    <3> QED  BY <1>5, <2>1, <2>3, <3>1 DEF QueuedForAReason
  <2>6. FreshIsUntouched(id)'
    BY <1>3, <2>3 DEF FreshIsUntouched
  <2>7. ReminderOK(id)'
    BY <1>5, <1>6, <2>3, <2>4, <2>5, <2>6 DEF ReminderOK, RowExists
  <2>8. ASSUME NEW q \in Reminders, q # id PROVE ReminderOK(q)'
    <3>1. now <= now'
      BY <1>5, NowGrows DEF IInv
    <3>2. reminder'[q] = reminder[q] /\ queued'[q] = queued[q] /\ notice'[q] = notice[q]
      BY <1>5, <2>3, <2>8
    <3>3. (q \in overtaken => q \in overtaken') /\ (q \in postponed => q \in postponed')
      BY <2>1
    <3>4. \A s \in Subjects : RowExists(s) => RowExists(s)'
      BY <1>5 DEF RowExists
    <3> QED  BY <2>2, <3>1, <3>2, <3>3, <3>4, Untouched DEF IInv
  <2> QED  BY <1>4, <2>2, <2>7, <2>8 DEF IInv
<1>7. ASSUME ~RowExists(row.about)
      PROVE  IInv'
  <2>1. UNCHANGED <<reminder, overtaken, postponed>>
    BY <1>1, <1>7 DEF CommitPatch
  <2> QED  BY <1>4, <1>5, <2>1, RowsAlone
<1> QED  BY <1>6, <1>7

LEMMA CommitCancelStep ==
    ASSUME IInv, NEW p \in Procs, CommitCancel(p)
    PROVE  IInv'
<1>1. PICK id : id = request[p].id
  OBVIOUS
<1>2. id \in Reminders
  BY <1>1, RequestFields DEF IInv, CommitCancel
<1>3. request' \in [Procs -> Requests] /\ ReadPending'
  BY RequestDone DEF CommitCancel
<1>4. UNCHANGED <<now, things, queued, notice, postponed>>
  BY DEF CommitCancel
<1>5. ASSUME Exists(id)
      PROVE  IInv'
  <2>1. /\ reminder' = [reminder EXCEPT ![id].status = "cancelled"]
        /\ overtaken' = IF HasStatus(id, "sent") THEN overtaken \union {id} ELSE overtaken
    BY <1>1, <1>5 DEF CommitCancel
  <2>2. reminder[id] \in ReminderRows
    BY <1>2, <1>5, RowIsThere DEF IInv
  <2>3. PICK row \in ReminderRows : row = [reminder[id] EXCEPT !.status = "cancelled"]
    BY <2>2 DEF ReminderRows
  <2>4. row.about = reminder[id].about /\ row.status = "cancelled"
    BY <2>2, <2>3 DEF ReminderRows
  <2>5. reminder'[id] = row /\ \A q \in Reminders : q # id => reminder'[q] = reminder[q]
    BY <1>2, <2>1, <2>3 DEF IInv, Types
  <2>6. reminder' = [reminder EXCEPT ![id] = row]
    BY <2>1, <2>3
  <2>7. Types'
    BY <1>2, <1>3, <1>4, <2>1, <2>6 DEF IInv, Types
  <2>8. ReminderOK(id)
    BY <1>2 DEF IInv
  <2>9. Truth(id)'
    <3>1. CASE HasStatus(id, "sent")
      BY <1>2, <2>1, <3>1 DEF Truth
    <3>2. CASE ~HasStatus(id, "sent")
      <4>1. \A u \in Users : Told(id, u) => id \in overtaken
        BY <1>5, <2>8, <3>2 DEF ReminderOK, Truth
      <4> QED  BY <1>4, <2>1, <4>1 DEF Truth, Told
    <3> QED  BY <3>1, <3>2
  <2>10. row # Unscheduled /\ row # Deleted
    BY RowIsReal
  <2>11. ReminderOK(id)'
    BY <1>4, <1>5, <2>4, <2>5, <2>8, <2>9, <2>10
       DEF ReminderOK, RowExists, QueuedForAReason, FreshIsUntouched, Pending, HasStatus
  <2>12. ASSUME NEW q \in Reminders, q # id PROVE ReminderOK(q)'
    <3>1. now <= now'
      BY <1>4, NowGrows DEF IInv
    <3>2. reminder'[q] = reminder[q] /\ queued'[q] = queued[q] /\ notice'[q] = notice[q]
      BY <1>4, <2>5, <2>12
    <3>3. (q \in overtaken => q \in overtaken') /\ (q \in postponed => q \in postponed')
      BY <1>4, <2>1
    <3>4. \A s \in Subjects : RowExists(s) => RowExists(s)'
      BY <1>4 DEF RowExists
    <3> QED  BY <2>7, <3>1, <3>2, <3>3, <3>4, Untouched DEF IInv
  <2> QED  BY <1>3, <2>7, <2>11, <2>12 DEF IInv
<1>6. ASSUME ~Exists(id)
      PROVE  IInv'
  <2>1. UNCHANGED <<reminder, overtaken>>
    BY <1>1, <1>6 DEF CommitCancel
  <2> QED  BY <1>3, <1>4, <2>1, RowsAlone
<1> QED  BY <1>5, <1>6

-----------------------------------------------------------------------------
(* Tasks are queued for due reminders only. *)
LEMMA SweepStep ==
    ASSUME IInv, NEW rs \in SUBSET Reminders, Sweep(rs)
    PROVE  IInv'
<1>1. rs \subseteq {r \in Reminders : Due(r)}
  BY DEF Sweep, OldestBatch
<1>2. UNCHANGED <<now, things, reminder, notice, request, overtaken, postponed>>
  BY DEF Sweep
<1>3. ASSUME NEW r \in Reminders
      PROVE  /\ queued'[r] \in 0..MaxQueued
             /\ queued'[r] = queued[r] \/ r \in rs
  BY ReminderConstants DEF Sweep, Enqueue, IInv, Types
<1>4. queued' \in [Reminders -> 0..MaxQueued]
  BY <1>3 DEF Sweep, Enqueue
<1>5. Types'
  BY <1>2, <1>4 DEF IInv, Types
<1>6. now <= now'
  BY <1>2, NowGrows DEF IInv
<1>7. ASSUME NEW r \in Reminders PROVE ReminderOK(r)'
  <2>1. CASE queued'[r] = queued[r]
    BY <1>2, <1>5, <1>6, <2>1, Untouched DEF IInv, RowExists
  <2>2. CASE r \in rs
    <3>1. Due(r) /\ reminder[r] # Unscheduled
      BY <1>1, <2>2 DEF Due, Pending, HasStatus, Exists
    <3> QED  BY <1>2, <3>1 DEF IInv, ReminderOK, RowExists, Truth, QueuedForAReason, FreshIsUntouched,
                 Due, Exists, Told, HasStatus
  <2> QED  BY <1>3, <2>1, <2>2
<1> QED  BY <1>2, <1>5, <1>7, RequestsAlone DEF IInv

LEMMA DequeueFacts ==
    ASSUME Types, NEW r \in Reminders, Dequeue(r)
    PROVE  /\ queued' \in [Reminders -> 0..MaxQueued]
           /\ postponed' \subseteq Reminders
           /\ queued[r] > 0
           /\ queued'[r] > 0 => (r \in postponed => r \in postponed')
           /\ \A q \in Reminders : q # r =>
                 /\ queued'[q] = queued[q]
                 /\ q \in postponed => q \in postponed'
<1>1. queued[r] \in 0..MaxQueued /\ queued[r] > 0
  BY DEF Types, Dequeue
<1>2. queued[r] - 1 \in 0..MaxQueued
  BY <1>1, ReminderConstants
<1> QED  BY <1>1, <1>2, ReminderConstants DEF Types, Dequeue

(* What becomes of the other reminders when the task of one is run. *)
LEMMA OthersKept ==
    ASSUME IInv, Types', NEW r \in Reminders, Dequeue(r), ReminderOK(r)',
           UNCHANGED <<now, things, request, overtaken>>,
           \A q \in Reminders : q # r => reminder'[q] = reminder[q] /\ notice'[q] = notice[q]
    PROVE  IInv'
<1>1. now <= now'
  BY NowGrows DEF IInv
<1>2. ASSUME NEW q \in Reminders, q # r PROVE ReminderOK(q)'
  <2>1. queued'[q] = queued[q] /\ (q \in postponed => q \in postponed')
    BY <1>2, DequeueFacts DEF IInv
  <2> QED  BY <1>1, <1>2, <2>1, Untouched DEF IInv, RowExists
<1> QED  BY <1>2, RequestsAlone DEF IInv

LEMMA TaskGone ==
    ASSUME IInv, NEW r \in Reminders, Dequeue(r),
           UNCHANGED <<now, things, reminder, notice, request, overtaken>>
    PROVE  IInv'
<1>1. Types'
  BY DequeueFacts DEF IInv, Types
<1>2. ReminderOK(r)
  BY DEF IInv
<1>3. queued'[r] > 0 => queued[r] > 0 /\ (r \in postponed => r \in postponed')
  BY DequeueFacts DEF IInv
<1>4. reminder[r] # Unscheduled
  <2>1. queued[r] > 0 /\ queued[r] # 0
    BY DequeueFacts DEF IInv
  <2> QED  BY <1>2, <2>1 DEF ReminderOK, FreshIsUntouched
<1>5. ReminderOK(r)'
  BY <1>2, <1>3, <1>4 DEF ReminderOK, RowExists, Truth, QueuedForAReason, FreshIsUntouched,
     Exists, Told, Pending, HasStatus
<1> QED  BY <1>1, <1>5, OthersKept

LEMMA DeliverCancelledStep ==
    ASSUME IInv, NEW r \in Reminders, DeliverCancelled(r)
    PROVE  IInv'
<1>1. /\ Dequeue(r) /\ Pending(r)
      /\ reminder' = [reminder EXCEPT ![r].status = "cancelled"]
      /\ UNCHANGED <<now, things, notice, request, overtaken>>
  BY DEF DeliverCancelled
<1>2. reminder[r] \in ReminderRows /\ Exists(r) /\ reminder[r].status = "pending"
  BY <1>1, RowIsThere DEF IInv, Pending, HasStatus
<1>3. PICK row \in ReminderRows : row = [reminder[r] EXCEPT !.status = "cancelled"]
  BY <1>2 DEF ReminderRows
<1>4. row.about = reminder[r].about /\ row.status = "cancelled"
  BY <1>2, <1>3 DEF ReminderRows
<1>5. row # Unscheduled /\ row # Deleted
  BY RowIsReal
<1>6. reminder' = [reminder EXCEPT ![r] = row]
  BY <1>1, <1>3
<1>7. reminder'[r] = row /\ \A q \in Reminders : q # r => reminder'[q] = reminder[q]
  BY <1>6 DEF IInv, Types
<1>8. Types'
  BY <1>1, <1>6, DequeueFacts DEF IInv, Types
<1>9. ReminderOK(r)
  BY DEF IInv
<1>10. \A u \in Users : Told(r, u) => r \in overtaken
  BY <1>2, <1>9 DEF ReminderOK, Truth, HasStatus
<1>11. ReminderOK(r)'
  BY <1>1, <1>2, <1>4, <1>5, <1>7, <1>9, <1>10
     DEF ReminderOK, RowExists, Truth, QueuedForAReason, FreshIsUntouched, Told, Pending, HasStatus
<1> QED  BY <1>1, <1>7, <1>8, <1>11, OthersKept

(* Who is told now had not been told, unless the reminder was overtaken. *)
LEMMA DeliverSentStep ==
    ASSUME IInv, NEW r \in Reminders, NEW to \in SUBSET Users, DeliverSent(r, to)
    PROVE  IInv'
<1>1. /\ Dequeue(r) /\ Pending(r)
      /\ reminder' = [reminder EXCEPT ![r].status = "sent"]
      /\ Notify(r, to)
      /\ UNCHANGED <<now, things, request, overtaken>>
  BY DEF DeliverSent
<1>2. reminder[r] \in ReminderRows /\ Exists(r) /\ reminder[r].status = "pending"
  BY <1>1, RowIsThere DEF IInv, Pending, HasStatus
<1>3. PICK row \in ReminderRows : row = [reminder[r] EXCEPT !.status = "sent"]
  BY <1>2 DEF ReminderRows
<1>4. row.about = reminder[r].about /\ row.status = "sent"
  BY <1>2, <1>3 DEF ReminderRows
<1>5. row # Unscheduled /\ row # Deleted
  BY RowIsReal
<1>6. reminder' = [reminder EXCEPT ![r] = row]
  BY <1>1, <1>3
<1>7. reminder'[r] = row /\ \A q \in Reminders : q # r => reminder'[q] = reminder[q]
  BY <1>6 DEF IInv, Types
<1>8. PICK new \in Notices : new = [about |-> reminder[r].about, read |-> FALSE]
  BY <1>2 DEF Notices, ReminderRows
<1>9. new.about = reminder[r].about
  BY <1>8
<1>10. PICK told : told = [u \in Users |-> IF u \in to /\ ~Told(r, u) THEN new ELSE notice[r][u]]
  OBVIOUS
<1>11. notice' = [notice EXCEPT ![r] = told]
  BY <1>1, <1>8, <1>10 DEF Notify
<1>12. told \in [Users -> Notices \union {NoNotice}]
  BY <1>10 DEF IInv, Types
<1>13. /\ notice'[r] = told
       /\ notice' \in [Reminders -> [Users -> Notices \union {NoNotice}]]
       /\ \A q \in Reminders : q # r => notice'[q] = notice[q]
  <2>1. notice \in [Reminders -> [Users -> Notices \union {NoNotice}]]
    BY DEF IInv, Types
  <2> HIDE DEF Notices
  <2> QED  BY <1>11, <1>12, <2>1
<1>14. Types'
  <2>1. reminder' \in [Reminders -> ReminderRows \union {Unscheduled, Deleted}]
    BY <1>6 DEF IInv, Types
  <2>2. queued' \in [Reminders -> 0..MaxQueued] /\ postponed' \subseteq Reminders
    BY <1>1, DequeueFacts DEF IInv
  <2> QED  BY <1>1, <1>13, <2>1, <2>2 DEF IInv, Types
<1>15. ReminderOK(r)
  BY DEF IInv
<1>16. \A u \in Users : Told(r, u) => r \in overtaken
  BY <1>2, <1>15 DEF ReminderOK, Truth, HasStatus
<1>17. ASSUME NEW u \in Users PROVE told[u] = new \/ told[u] = NoNotice \/ r \in overtaken
  BY <1>10, <1>16 DEF Told
<1>18. Truth(r)'
  BY <1>1, <1>4, <1>5, <1>7, <1>9, <1>13, <1>17 DEF Truth, Told, HasStatus, Exists
<1>19. ReminderOK(r)'
  BY <1>1, <1>2, <1>4, <1>5, <1>7, <1>15, <1>18
     DEF ReminderOK, RowExists, QueuedForAReason, FreshIsUntouched, Pending, HasStatus
<1> QED  BY <1>1, <1>7, <1>13, <1>14, <1>19, OthersKept

LEMMA DeliverStep ==
    ASSUME IInv, NEW r \in Reminders, Deliver(r) \/ LoseTask(r)
    PROVE  IInv'
<1>1. ASSUME DeliverNothing(r) PROVE IInv'
  BY <1>1, TaskGone DEF DeliverNothing
<1>2. ASSUME LoseTask(r) PROVE IInv'
  BY <1>2, TaskGone DEF LoseTask
<1>3. ASSUME NEW to \in SUBSET Users, DeliverFailed(r, to) PROVE IInv'
  BY <1>3, TaskGone DEF DeliverFailed
<1> QED  BY <1>1, <1>2, <1>3, DeliverCancelledStep, DeliverSentStep DEF Deliver

-----------------------------------------------------------------------------
(* A step that only marks notices read. *)
LEMMA NoticesRead ==
    ASSUME IInv, notice' \in [Reminders -> [Users -> Notices \union {NoNotice}]],
           \A r \in Reminders, u \in Users :
               /\ notice'[r][u] = NoNotice <=> notice[r][u] = NoNotice
               /\ notice[r][u] # NoNotice => notice'[r][u].about = notice[r][u].about,
           UNCHANGED <<now, things, reminder, queued, request, overtaken, postponed>>
    PROVE  IInv'
<1>1. Types'
  BY DEF IInv, Types
<1>2. ASSUME NEW r \in Reminders PROVE ReminderOK(r)'
  <2>1. ReminderOK(r)
    BY DEF IInv
  <2> QED  BY <2>1 DEF ReminderOK, RowExists, Truth, QueuedForAReason, FreshIsUntouched,
               Exists, Told, Pending, HasStatus
<1> QED  BY <1>1, <1>2, RequestsAlone DEF IInv

(* What both read marks do to the notices. *)
LEMMA ReadFacts ==
    ASSUME IInv, NEW v \in Users, (\E q \in Reminders : Read(q, v)) \/ ReadAll(v)
    PROVE  /\ notice' \in [Reminders -> [Users -> Notices \union {NoNotice}]]
           /\ \A r \in Reminders, u \in Users :
                 \/ notice'[r][u] = notice[r][u]
                 \/ /\ notice[r][u] \in Notices
                    /\ notice'[r][u] = [notice[r][u] EXCEPT !.read = TRUE]
           /\ UNCHANGED <<now, things, reminder, queued, request, overtaken, postponed>>
<1>1. /\ notice \in [Reminders -> [Users -> Notices \union {NoNotice}]]
      /\ \A r \in Reminders, u \in Users : Told(r, u) => notice[r][u] \in Notices
  BY DEF IInv, Types, Told
<1>2. \A n \in Notices : [n EXCEPT !.read = TRUE] \in Notices
  BY DEF Notices
<1>3. ASSUME NEW q \in Reminders, Read(q, v)
      PROVE  /\ notice' \in [Reminders -> [Users -> Notices \union {NoNotice}]]
             /\ \A r \in Reminders, u \in Users :
                   \/ notice'[r][u] = notice[r][u]
                   \/ /\ notice[r][u] \in Notices
                      /\ notice'[r][u] = [notice[r][u] EXCEPT !.read = TRUE]
             /\ UNCHANGED <<now, things, reminder, queued, request, overtaken, postponed>>
  BY <1>1, <1>2, <1>3 DEF Read
<1>4. ASSUME ReadAll(v)
      PROVE  /\ notice' \in [Reminders -> [Users -> Notices \union {NoNotice}]]
             /\ \A r \in Reminders, u \in Users :
                   \/ notice'[r][u] = notice[r][u]
                   \/ /\ notice[r][u] \in Notices
                      /\ notice'[r][u] = [notice[r][u] EXCEPT !.read = TRUE]
             /\ UNCHANGED <<now, things, reminder, queued, request, overtaken, postponed>>
  <2>1. \A r \in Reminders : notice'[r] \in [Users -> Notices \union {NoNotice}]
    BY <1>1, <1>2, <1>4 DEF ReadAll
  <2>2. notice' \in [Reminders -> [Users -> Notices \union {NoNotice}]]
    BY <1>4, <2>1 DEF ReadAll
  <2>3. \A r \in Reminders, u \in Users :
            \/ notice'[r][u] = notice[r][u]
            \/ /\ notice[r][u] \in Notices
               /\ notice'[r][u] = [notice[r][u] EXCEPT !.read = TRUE]
    BY <1>1, <1>4 DEF ReadAll
  <2> QED  BY <1>4, <2>2, <2>3 DEF ReadAll
<1> QED  BY <1>3, <1>4

LEMMA ReadStep ==
    ASSUME IInv, NEW v \in Users, (\E q \in Reminders : Read(q, v)) \/ ReadAll(v)
    PROVE  IInv'
<1>1. \A n \in Notices : /\ [n EXCEPT !.read = TRUE] \in Notices
                        /\ [n EXCEPT !.read = TRUE].about = n.about
                        /\ n # NoNotice
  BY ReminderConstants DEF Notices
<1>2. \A r \in Reminders, u \in Users :
          /\ notice'[r][u] = NoNotice <=> notice[r][u] = NoNotice
          /\ notice[r][u] # NoNotice => notice'[r][u].about = notice[r][u].about
  <2> TAKE r \in Reminders, u \in Users
  <2>1. CASE notice'[r][u] = notice[r][u]
    BY <2>1
  <2>2. CASE /\ notice[r][u] \in Notices
             /\ notice'[r][u] = [notice[r][u] EXCEPT !.read = TRUE]
    BY <1>1, <2>2
  <2> QED  BY <2>1, <2>2, ReadFacts
<1> QED  BY <1>2, ReadFacts, NoticesRead

LEMMA DeleteThingStep ==
    ASSUME IInv, NEW t \in Things, DeleteThing(t)
    PROVE  IInv'
<1>1. /\ things' = things \ {t}
      /\ reminder' = [r \in Reminders |->
             IF Exists(r) /\ reminder[r].about = t THEN Deleted ELSE reminder[r]]
      /\ UNCHANGED <<now, queued, notice, request, overtaken, postponed>>
  BY DEF DeleteThing
<1>2. Types'
  BY <1>1 DEF IInv, Types
<1>3. ASSUME NEW r \in Reminders PROVE ReminderOK(r)'
  <2>1. CASE Exists(r) /\ reminder[r].about = t
    BY <1>1, <2>1, ReminderConstants DEF ReminderOK, Truth, QueuedForAReason, FreshIsUntouched,
       Exists, Pending, HasStatus
  <2>2. CASE ~(Exists(r) /\ reminder[r].about = t)
    <3>1. reminder'[r] = reminder[r]
      BY <1>1, <2>2
    <3>2. \A s \in Subjects : Exists(r) /\ s = reminder[r].about /\ RowExists(s) => RowExists(s)'
      BY <1>1, <2>2 DEF RowExists
    <3>3. now <= now'
      BY <1>1, NowGrows DEF IInv
    <3> QED  BY <1>1, <1>2, <3>1, <3>2, <3>3, Untouched DEF IInv
  <2> QED  BY <2>1, <2>2
<1> QED  BY <1>1, <1>2, <1>3, RequestsAlone DEF IInv

LEMMA TickStep ==
    ASSUME IInv, Tick
    PROVE  IInv'
<1>1. /\ now < MaxTime /\ now' = now + 1
      /\ UNCHANGED <<things, reminder, queued, notice, request, overtaken, postponed>>
  BY DEF Tick
<1>2. now \in 0..MaxTime /\ now <= now' /\ now' \in 0..MaxTime
  BY <1>1, ReminderConstants DEF IInv, Types, Times
<1>3. Types'
  BY <1>1, <1>2 DEF IInv, Types, Times
<1>4. ASSUME NEW r \in Reminders PROVE ReminderOK(r)'
  BY <1>1, <1>2, <1>3, Untouched DEF IInv, RowExists
<1> QED  BY <1>1, <1>3, <1>4, RequestsAlone DEF IInv

LEMMA InvariantIInv == Spec => []IInv
<1>1. IInv /\ [Next]_vars => IInv'
  <2> SUFFICES ASSUME IInv, [Next]_vars PROVE IInv'
    OBVIOUS
  <2>1. ASSUME UNCHANGED vars PROVE IInv'
    <3>1. request' \in [Procs -> Requests] /\ ReadPending'
      BY <2>1, RequestsAlone DEF vars
    <3> QED  BY <2>1, <3>1, RowsAlone DEF vars
  <2>2. ASSUME Next PROVE IInv'
    BY <2>2, ScheduleStep, BeginPatchStep, CommitPatchStep, BeginCancelStep, CommitCancelStep,
       CrashStep, SweepStep, DeliverStep, ReadStep, DeleteThingStep, TickStep DEF Next
  <2> QED  BY <2>1, <2>2
<1> QED  BY <1>1, InitIInv, PTL DEF Spec

-----------------------------------------------------------------------------
(* For any users, subjects, reminders, workers and bounds: rows, tasks and
   requests keep their types, and what a reminder is about exists. *)
THEOREM TypeCorrect == Spec => []TypeOK
<1>1. IInv => TypeOK
  BY DEF IInv, Types, ReminderOK, TypeOK
<1> QED  BY <1>1, InvariantIInv, PTL

(* Unless a view has saved it after it had ended, what a reminder's status says
   is what users were told. *)
THEOREM StatusIsTrue == Spec => []StatusTellsTruth
<1>1. IInv => StatusTellsTruth
  BY DEF IInv, ReminderOK, Truth, StatusTellsTruth
<1> QED  BY <1>1, InvariantIInv, PTL

(* A user is told of a reminder once: what was told stays as it was, and what
   was read stays read, through revivals and second deliveries. *)
THEOREM ToldOnce == Spec => NoticesOnlySettle
<1> DEFINE Settle == \A r \in Reminders, u \in Users : Told(r, u) =>
                        /\ Told(r, u)'
                        /\ notice'[r][u].about = notice[r][u].about
                        /\ notice[r][u].read => notice'[r][u].read
<1>1. ASSUME IInv, UNCHANGED notice PROVE Settle
  BY <1>1 DEF Told
<1>2. ASSUME IInv, NEW q \in Reminders, NEW to \in SUBSET Users, DeliverSent(q, to) PROVE Settle
  <2> SUFFICES ASSUME NEW r \in Reminders, NEW u \in Users, Told(r, u)
               PROVE  notice'[r][u] = notice[r][u]
    BY DEF Told
  <2>1. notice \in [Reminders -> [Users -> Notices \union {NoNotice}]]
    BY <1>2 DEF IInv, Types
  <2>2. CASE r = q
    <3>1. notice'[r] = [v \in Users |->
              IF v \in to /\ ~Told(r, v) THEN [about |-> reminder[r].about, read |-> FALSE]
              ELSE notice[r][v]]
      BY <1>2, <2>1, <2>2 DEF DeliverSent, Notify
    <3> QED  BY <3>1
  <2>3. CASE r # q
    BY <1>2, <2>1, <2>3 DEF DeliverSent, Notify
  <2> QED  BY <2>2, <2>3
<1>3. ASSUME IInv, NEW v \in Users, (\E q \in Reminders : Read(q, v)) \/ ReadAll(v) PROVE Settle
  <2>1. \A n \in Notices : /\ [n EXCEPT !.read = TRUE].about = n.about
                          /\ [n EXCEPT !.read = TRUE].read
                          /\ [n EXCEPT !.read = TRUE] # NoNotice
    BY ReminderConstants DEF Notices
  <2> SUFFICES ASSUME NEW r \in Reminders, NEW u \in Users, Told(r, u)
               PROVE  /\ Told(r, u)'
                      /\ notice'[r][u].about = notice[r][u].about
                      /\ notice[r][u].read => notice'[r][u].read
    OBVIOUS
  <2>2. CASE notice'[r][u] = notice[r][u]
    BY <2>2 DEF Told
  <2>3. CASE /\ notice[r][u] \in Notices
             /\ notice'[r][u] = [notice[r][u] EXCEPT !.read = TRUE]
    BY <2>1, <2>3 DEF Told
  <2> QED  BY <1>3, <2>2, <2>3, ReadFacts
<1>4. ASSUME IInv, Next PROVE Settle
  <2>1. ASSUME NEW r \in Reminders, Deliver(r) \/ LoseTask(r) PROVE Settle
    <3>1. UNCHANGED notice \/ \E to \in SUBSET Users : DeliverSent(r, to)
      BY <2>1 DEF Deliver, DeliverNothing, DeliverCancelled, DeliverFailed, LoseTask
    <3> HIDE DEF Settle
    <3> QED  BY <1>1, <1>2, <1>4, <3>1
  <2>2. ASSUME NEW r \in Reminders, NEW s \in Subjects, NEW at \in Times,
               Schedule(r, s, at) \/ \E p \in Procs : BeginPatch(p, r, s, at)
        PROVE  UNCHANGED notice
    BY <2>2 DEF Schedule, BeginPatch
  <2>3. ASSUME NEW p \in Procs,
               \/ CommitPatch(p) \/ CommitCancel(p) \/ Crash(p)
               \/ \E r \in Reminders : BeginCancel(p, r)
        PROVE  UNCHANGED notice
    BY <2>3 DEF CommitPatch, CommitCancel, Crash, BeginCancel
  <2>4. ASSUME Tick \/ (\E t \in Things : DeleteThing(t)) \/ \E rs \in SUBSET Reminders : Sweep(rs)
        PROVE  UNCHANGED notice
    BY <2>4 DEF Tick, DeleteThing, Sweep
  <2> HIDE DEF Settle
  <2> QED  BY <1>1, <1>3, <1>4, <2>1, <2>2, <2>3, <2>4 DEF Next
<1>5. IInv /\ [Next]_vars => [Settle]_vars
  <2> HIDE DEF Settle
  <2> QED  BY <1>4
<1> QED  BY <1>5, InvariantIInv, PTL DEF Spec, NoticesOnlySettle

(* Nobody is reminded before the time, but for reminders put off with a task
   waiting: a queue holds what was due. *)
THEOREM RemindedInTime == Spec => NeverEarly
<1> DEFINE InTime == \A r \in Reminders :
               Pending(r) /\ HasStatus(r, "sent")' => reminder[r].at <= now \/ r \in postponed
<1>1. ASSUME IInv, NEW r \in Reminders, Pending(r), queued[r] > 0
      PROVE  reminder[r].at <= now \/ r \in postponed
  BY <1>1 DEF IInv, ReminderOK, QueuedForAReason
<1>2. ASSUME IInv, Next, NEW r \in Reminders, Pending(r), HasStatus(r, "sent")'
      PROVE  queued[r] > 0
  <2>1. reminder[r].status = "pending"
    BY <1>2 DEF Pending, HasStatus
  <2>2. reminder'[r] # reminder[r] /\ reminder'[r] # Unscheduled /\ reminder'[r] # Deleted
    BY <1>2, <2>1 DEF HasStatus, Exists
  <2>3. ASSUME NEW q \in Reminders, Deliver(q) \/ LoseTask(q) PROVE queued[r] > 0
    <3>1. ASSUME q # r PROVE reminder'[r] = reminder[r]
      BY <2>3, <3>1, <1>2 DEF Deliver, LoseTask, DeliverNothing, DeliverCancelled, DeliverSent,
         DeliverFailed, IInv, Types
    <3>2. queued[q] > 0
      BY <2>3 DEF Deliver, LoseTask, DeliverNothing, DeliverCancelled, DeliverSent,
         DeliverFailed, Dequeue
    <3> QED  BY <2>2, <3>1, <3>2
  <2>4. ASSUME NEW p \in Procs, CommitPatch(p) PROVE FALSE
    <3>1. request[p].row.status = "pending" /\ request[p].id \in Reminders
      BY <1>2, <2>4, RequestFields DEF CommitPatch, IInv, ReadPending
    <3>2. reminder' = [reminder EXCEPT ![request[p].id] = request[p].row] \/ UNCHANGED reminder
      BY <2>4 DEF CommitPatch
    <3> QED  BY <1>2, <2>1, <2>2, <3>1, <3>2 DEF IInv, Types, HasStatus
  <2>5. ASSUME NEW p \in Procs, CommitCancel(p) PROVE FALSE
    <3>1. request[p].id \in Reminders
      BY <1>2, <2>5, RequestFields DEF CommitCancel, IInv
    <3>2. \/ UNCHANGED reminder
          \/ Exists(request[p].id)
             /\ reminder' = [reminder EXCEPT ![request[p].id].status = "cancelled"]
      BY <2>5 DEF CommitCancel
    <3>3. Exists(request[p].id) => reminder[request[p].id] \in ReminderRows
      BY <1>2, <3>1, RowIsThere DEF IInv
    <3>4. ASSUME NEW i \in Reminders, i = request[p].id, Exists(i), reminder[i] \in ReminderRows,
                 reminder' = [reminder EXCEPT ![i].status = "cancelled"]
          PROVE  FALSE
      <4>1. reminder'[i].status = "cancelled"
        BY <1>2, <3>4 DEF IInv, Types, ReminderRows
      <4>2. i = r
        BY <1>2, <2>2, <3>4 DEF IInv, Types
      <4> QED  BY <1>2, <4>1, <4>2 DEF HasStatus
    <3> QED  BY <2>2, <3>1, <3>2, <3>3, <3>4
  <2>6. ASSUME NEW q \in Reminders, NEW s \in Subjects, NEW at \in Times,
               Schedule(q, s, at) \/ \E p \in Procs : BeginPatch(p, q, s, at)
        PROVE  reminder'[r] = reminder[r]
    BY <1>2, <2>6 DEF Schedule, BeginPatch, IInv, Types, Pending, HasStatus, Exists
  <2>7. ASSUME NEW t \in Things, DeleteThing(t)
        PROVE  reminder'[r] = reminder[r] \/ reminder'[r] = Deleted
    BY <2>7 DEF DeleteThing
  <2>8. ASSUME \/ Tick
               \/ \E rs \in SUBSET Reminders : Sweep(rs)
               \/ \E p \in Procs : Crash(p) \/ \E q \in Reminders : BeginCancel(p, q)
               \/ \E u \in Users : ReadAll(u) \/ \E q \in Reminders : Read(q, u)
        PROVE  UNCHANGED reminder
    BY <2>8 DEF Tick, Sweep, Crash, BeginCancel, ReadAll, Read
  <2> QED  BY <1>2, <2>2, <2>3, <2>4, <2>5, <2>6, <2>7, <2>8 DEF Next
<1>3. ASSUME IInv, UNCHANGED vars PROVE InTime
  BY <1>3 DEF vars, Pending, HasStatus
<1>4. ASSUME IInv, Next PROVE InTime
  BY <1>1, <1>2, <1>4
<1>5. IInv /\ [Next]_vars => [InTime]_vars
  <2> HIDE DEF InTime
  <2> QED  BY <1>4
<1> QED  BY <1>5, InvariantIInv, PTL DEF Spec, NeverEarly

(* An ended reminder is changed by no task, sweep or second request: only the
   save of a view that had read it before. *)
THEOREM EndedIsUndoneByViewsOnly == Spec => OnlyStaleSavesUndo
<1> DEFINE Undone(r) == \E p \in Procs : /\ request[p] # Idle /\ request[p].id = r
                                         /\ request'[p] = Idle
                                         /\ reminder'[r].status \in {"pending", "cancelled"}
           Undo == \A r \in Reminders : Ended(r) /\ Exists(r)' /\ reminder'[r] # reminder[r] =>
                       \E p \in Procs : /\ request[p] # Idle /\ request[p].id = r
                                         /\ request'[p] = Idle
                                         /\ reminder'[r].status \in {"pending", "cancelled"}
<1>1. ASSUME IInv, Next, NEW r \in Reminders, Ended(r), Exists(r)', reminder'[r] # reminder[r]
      PROVE  Undone(r)
  <2>1. /\ reminder[r].status # "pending" /\ ~Pending(r)
        /\ reminder[r] # Unscheduled /\ reminder[r] # Deleted
    BY <1>1 DEF Ended, Pending, HasStatus, Exists
  <2>2. ASSUME NEW p \in Procs, CommitPatch(p) PROVE Undone(r)
    <3>1. /\ request[p].row.status = "pending" /\ request[p].id \in Reminders
          /\ request[p] # Idle
      BY <1>1, <2>2, RequestFields DEF CommitPatch, IInv, ReadPending, Idle
    <3>2. reminder' = [reminder EXCEPT ![request[p].id] = request[p].row] \/ UNCHANGED reminder
      BY <2>2 DEF CommitPatch
    <3>3. request[p].id = r /\ reminder'[r] = request[p].row
      BY <1>1, <3>1, <3>2 DEF IInv, Types
    <3>4. request'[p] = Idle
      <4>1. request' = [request EXCEPT ![p] = Idle]
        BY <2>2 DEF CommitPatch, Done
      <4> QED  BY <1>1, <4>1 DEF IInv, Types
    <3> QED  BY <1>1, <3>1, <3>3, <3>4
  <2>3. ASSUME NEW p \in Procs, CommitCancel(p) PROVE Undone(r)
    <3>1. request[p].id \in Reminders /\ request[p] # Idle
      BY <1>1, <2>3, RequestFields DEF CommitCancel, IInv, Idle
    <3>2. \/ UNCHANGED reminder
          \/ Exists(request[p].id)
             /\ reminder' = [reminder EXCEPT ![request[p].id].status = "cancelled"]
      BY <2>3 DEF CommitCancel
    <3>3. Exists(request[p].id) => reminder[request[p].id] \in ReminderRows
      BY <1>1, <3>1, RowIsThere DEF IInv
    <3>4. request'[p] = Idle
      BY <1>1, <2>3 DEF CommitCancel, Done, IInv, Types
    <3>5. ASSUME NEW i \in Reminders, i = request[p].id, Exists(i), reminder[i] \in ReminderRows,
                 reminder' = [reminder EXCEPT ![i].status = "cancelled"]
          PROVE  i = r /\ reminder'[r].status = "cancelled"
      <4>1. i = r
        BY <1>1, <3>5 DEF IInv, Types
      <4> QED  BY <1>1, <3>5, <4>1 DEF IInv, Types, ReminderRows
    <3> QED  BY <1>1, <3>1, <3>2, <3>3, <3>4, <3>5
  <2>4. ASSUME NEW q \in Reminders, Deliver(q) \/ LoseTask(q) PROVE reminder'[r] = reminder[r]
    BY <1>1, <2>1, <2>4 DEF Deliver, LoseTask, DeliverNothing, DeliverCancelled, DeliverSent,
       DeliverFailed, IInv, Types
  <2>5. ASSUME NEW q \in Reminders, NEW s \in Subjects, NEW at \in Times,
               Schedule(q, s, at) \/ \E p \in Procs : BeginPatch(p, q, s, at)
        PROVE  reminder'[r] = reminder[r]
    BY <1>1, <2>1, <2>5 DEF Schedule, BeginPatch, IInv, Types
  <2>6. ASSUME NEW t \in Things, DeleteThing(t)
        PROVE  reminder'[r] = reminder[r] \/ reminder'[r] = Deleted
    BY <2>6 DEF DeleteThing
  <2>7. ASSUME \/ Tick
               \/ \E rs \in SUBSET Reminders : Sweep(rs)
               \/ \E p \in Procs : Crash(p) \/ \E q \in Reminders : BeginCancel(p, q)
               \/ \E u \in Users : ReadAll(u) \/ \E q \in Reminders : Read(q, u)
        PROVE  UNCHANGED reminder
    BY <2>7 DEF Tick, Sweep, Crash, BeginCancel, ReadAll, Read
  <2>8. reminder'[r] # Deleted
    BY <1>1 DEF Exists
  <2> HIDE DEF Undone
  <2> QED  BY <1>1, <2>2, <2>3, <2>4, <2>5, <2>6, <2>7, <2>8 DEF Next
<1>2. ASSUME IInv, Next PROVE Undo
  BY <1>1, <1>2
<1>3. IInv /\ [Next]_vars => [Undo]_vars
  <2> HIDE DEF Undo
  <2> QED  BY <1>2
<1> QED  BY <1>3, InvariantIInv, PTL DEF Spec, OnlyStaleSavesUndo

=============================================================================
