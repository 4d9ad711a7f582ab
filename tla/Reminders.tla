------------------------------ MODULE Reminders ------------------------------
(***************************************************************************)
(* Reminders that a user schedules for a group: about an expense, an event *)
(* or the pending settlement of a member.  Every minute a sweep queues     *)
(* those that are due; a Celery task for each turns it into notifications. *)
(*                                                                         *)
(* The task holds the lock of the reminder's row.  The views that edit and *)
(* cancel hold none: they read a pending row and save it later, by when    *)
(* the row may have been sent, cancelled or deleted.                       *)
(***************************************************************************)
EXTENDS Naturals, FiniteSets

CONSTANTS
    Users,
    Debtors,      \* users who may owe the group something
    Things,       \* expenses and events of the group
    LongTitles,   \* those whose title is too long for a Notification row
    Reminders,
    Procs,        \* workers that serve the owner's requests
    BatchSize,    \* reminders one sweep queues
    MaxTime,      \* bound on the clock
    MaxQueued,    \* bound on the tasks waiting for one reminder
    Unscheduled,  \* no reminder yet
    Deleted,      \* the row went with the expense or event it was about
    NoNotice      \* no Notification row with this dedupe key

Subjects == Things \union Debtors  \* a debtor: their pending settlement

Times == 0..MaxTime

ReminderRows == [about : Subjects, at : Times, status : {"pending", "sent", "cancelled"}]

Notices == [about : Subjects, read : BOOLEAN]

ASSUME ReminderConstants ==
    /\ Debtors \subseteq Users
    /\ Things \intersect Users = {}
    /\ LongTitles \subseteq Things
    /\ BatchSize \in Nat \ {0}
    /\ MaxTime \in Nat
    /\ MaxQueued \in Nat \ {0}
    /\ Unscheduled \notin ReminderRows /\ Deleted \notin ReminderRows
    /\ Unscheduled # Deleted
    /\ NoNotice \notin Notices

VARIABLES
    now,
    things,     \* the expenses and events that exist
    reminder,   \* Reminder rows
    queued,     \* tasks waiting for each reminder
    notice,     \* Notification rows by reminder and user: the dedupe key
    request,    \* what each worker carries from its read
    overtaken,  \* history: reminders a view saved after they had ended
    postponed   \* history: reminders put off with a task for them waiting

vars == <<now, things, reminder, queued, notice, request, overtaken, postponed>>

Idle == [op |-> "idle"]

Requests ==
    {Idle}
    \union [op : {"patch"}, id : Reminders, row : ReminderRows]
    \union [op : {"cancel"}, id : Reminders]

Take(p, r) == request[p] = Idle /\ request' = [request EXCEPT ![p] = r]

Done(p) == request' = [request EXCEPT ![p] = Idle]

-----------------------------------------------------------------------------
Exists(r) == reminder[r] \notin {Unscheduled, Deleted}

HasStatus(r, status) == Exists(r) /\ reminder[r].status = status

Pending(r) == HasStatus(r, "pending")

Ended(r) == HasStatus(r, "sent") \/ HasStatus(r, "cancelled")

Due(r) == Pending(r) /\ reminder[r].at <= now

Told(r, u) == notice[r][u] # NoNotice

(* The subject's row is there, as a foreign key asks; users always are. *)
RowExists(s) == s \in things \union Debtors

Init ==
    /\ now = 0
    /\ things = Things
    /\ reminder = [r \in Reminders |-> Unscheduled]
    /\ queued = [r \in Reminders |-> 0]
    /\ notice = [r \in Reminders |-> [u \in Users |-> NoNotice]]
    /\ request = [p \in Procs |-> Idle]
    /\ overtaken = {}
    /\ postponed = {}

(* ReminderListCreateView.post. *)
Schedule(r, s, at) ==
    /\ reminder[r] = Unscheduled
    /\ RowExists(s)
    /\ at > now
    /\ reminder' = [reminder EXCEPT ![r] = [about |-> s, at |-> at, status |-> "pending"]]
    /\ UNCHANGED <<now, things, queued, notice, request, overtaken, postponed>>

(* Mutated form: any reminder of the owner can be edited. *)
BeginPatchAny(p, r, s, at) ==
    /\ Exists(r)
    /\ RowExists(s)
    /\ at > now
    /\ Take(p, [op |-> "patch", id |-> r, row |-> [reminder[r] EXCEPT !.about = s, !.at = at]])
    /\ UNCHANGED <<now, things, reminder, queued, notice, overtaken, postponed>>

(* ReminderDetailView.patch and the serializer's validation: a pending reminder
   is read and gets a new subject, a new time or both.  A subject that stays is
   not looked up again. *)
BeginPatch(p, r, s, at) ==
    /\ Pending(r)
    /\ RowExists(s)
    /\ at > now
    /\ Take(p, [op |-> "patch", id |-> r, row |-> [reminder[r] EXCEPT !.about = s, !.at = at]])
    /\ UNCHANGED <<now, things, reminder, queued, notice, overtaken, postponed>>

(* save() writes the whole row, pending as it was read, whatever has become of
   it, and inserts it again if it is gone; the database refuses a subject that
   no longer exists. *)
CommitPatch(p) ==
    LET id  == request[p].id
        row == request[p].row
    IN  /\ request[p].op = "patch"
        /\ IF RowExists(row.about)
           THEN /\ reminder' = [reminder EXCEPT ![id] = row]
                /\ overtaken' = IF HasStatus(id, row.status) THEN overtaken
                                ELSE overtaken \union {id}
                /\ postponed' = IF queued[id] > 0 /\ row.at > now
                                THEN postponed \union {id} ELSE postponed
           ELSE UNCHANGED <<reminder, overtaken, postponed>>
        /\ Done(p)
        /\ UNCHANGED <<now, things, queued, notice>>

(* ReminderDetailView.delete: a pending reminder is read... *)
BeginCancel(p, r) ==
    /\ Pending(r)
    /\ Take(p, [op |-> "cancel", id |-> r])
    /\ UNCHANGED <<now, things, reminder, queued, notice, overtaken, postponed>>

(* ... and its status saved, which fails if the row is gone. *)
CommitCancel(p) ==
    LET id == request[p].id
    IN  /\ request[p].op = "cancel"
        /\ IF Exists(id)
           THEN /\ reminder' = [reminder EXCEPT ![id].status = "cancelled"]
                /\ overtaken' = IF HasStatus(id, "sent") THEN overtaken \union {id} ELSE overtaken
           ELSE UNCHANGED <<reminder, overtaken>>
        /\ Done(p)
        /\ UNCHANGED <<now, things, queued, notice, postponed>>

-----------------------------------------------------------------------------
(* The oldest of the due reminders, up to a batch. *)
OldestBatch(due, rs) ==
    /\ rs \subseteq due
    /\ \/ Cardinality(rs) = BatchSize
       \/ Cardinality(rs) < BatchSize /\ rs = due
    /\ \A r \in rs, q \in due \ rs : reminder[r].at <= reminder[q].at

Enqueue(rs) ==
    queued' = [r \in Reminders |->
        IF r \in rs /\ queued[r] < MaxQueued THEN queued[r] + 1 ELSE queued[r]]

(* Mutated form: whatever is pending. *)
SweepAnyPending(rs) ==
    /\ OldestBatch({r \in Reminders : Pending(r)}, rs)
    /\ Enqueue(rs)
    /\ UNCHANGED <<now, things, reminder, notice, request, overtaken, postponed>>


(* deliver_pending_reminders, its first half. *)
Sweep(rs) ==
    /\ OldestBatch({r \in Reminders : Due(r)}, rs)
    /\ Enqueue(rs)
    /\ UNCHANGED <<now, things, reminder, notice, request, overtaken, postponed>>

Dequeue(r) ==
    /\ queued[r] > 0
    /\ queued' = [queued EXCEPT ![r] = @ - 1]
    /\ postponed' = IF queued[r] = 1 THEN postponed \ {r} ELSE postponed

(* deliver_reminder_task is one transaction under the row's lock.  A reminder
   that is not pending is left alone... *)
DeliverNothing(r) ==
    /\ Dequeue(r)
    /\ ~Pending(r)
    /\ UNCHANGED <<now, things, reminder, notice, request, overtaken>>

(* ... one whose owner has left, or whose subject is no longer active, is
   cancelled... *)
DeliverCancelled(r) ==
    /\ Dequeue(r)
    /\ Pending(r)
    /\ reminder' = [reminder EXCEPT ![r].status = "cancelled"]
    /\ UNCHANGED <<now, things, notice, request, overtaken>>

Recipients(s) == IF s \in Debtors THEN {s} ELSE Users

(* Mutated form: update_or_create. *)
NotifyAnew(r, to) ==
    notice' = [notice EXCEPT ![r] = [u \in Users |->
        IF u \in to THEN [about |-> reminder[r].about, read |-> FALSE] ELSE notice[r][u]]]

(* get_or_create by the dedupe key: who has the notification keeps it. *)
Notify(r, to) ==
    notice' = [notice EXCEPT ![r] = [u \in Users |->
        IF u \in to /\ ~Told(r, u) THEN [about |-> reminder[r].about, read |-> FALSE]
        ELSE notice[r][u]]]

TooLong(r, to) == reminder[r].about \in LongTitles /\ \E u \in to : ~Told(r, u)

(* ... and else those of its recipients who want to hear of reminders (to) are
   notified. *)
DeliverSent(r, to) ==
    /\ Dequeue(r)
    /\ Pending(r)
    /\ to \subseteq Recipients(reminder[r].about)
    /\ ~TooLong(r, to)
    /\ Notify(r, to)
    /\ reminder' = [reminder EXCEPT ![r].status = "sent"]
    /\ UNCHANGED <<now, things, request, overtaken>>

(* A title the column cannot hold: the transaction is rolled back, and the
   reminder is pending as before. *)
DeliverFailed(r, to) ==
    /\ Dequeue(r)
    /\ Pending(r)
    /\ to \subseteq Recipients(reminder[r].about)
    /\ TooLong(r, to)
    /\ UNCHANGED <<now, things, reminder, notice, request, overtaken>>

(* A worker dies with the task, or a query of its transaction fails. *)
LoseTask(r) ==
    /\ Dequeue(r)
    /\ UNCHANGED <<now, things, reminder, notice, request, overtaken>>

-----------------------------------------------------------------------------
(* NotificationReadView.patch: only read_at is saved, and never cleared. *)
Read(r, u) ==
    /\ Told(r, u)
    /\ notice' = [notice EXCEPT ![r][u].read = TRUE]
    /\ UNCHANGED <<now, things, reminder, queued, request, overtaken, postponed>>

(* NotificationReadAllView.post. *)
ReadAll(u) ==
    /\ notice' = [r \in Reminders |->
           IF Told(r, u) THEN [notice[r] EXCEPT ![u].read = TRUE] ELSE notice[r]]
    /\ UNCHANGED <<now, things, reminder, queued, request, overtaken, postponed>>

(* An expense or an event is deleted, and what reminds of it with it. *)
DeleteThing(t) ==
    /\ t \in things
    /\ things' = things \ {t}
    /\ reminder' = [r \in Reminders |->
           IF Exists(r) /\ reminder[r].about = t THEN Deleted ELSE reminder[r]]
    /\ UNCHANGED <<now, queued, notice, request, overtaken, postponed>>

Tick ==
    /\ now < MaxTime
    /\ now' = now + 1
    /\ UNCHANGED <<things, reminder, queued, notice, request, overtaken, postponed>>

(* A worker dies, or its connection to the database fails, before it saves. *)
Crash(p) ==
    /\ request[p] # Idle
    /\ Done(p)
    /\ UNCHANGED <<now, things, reminder, queued, notice, overtaken, postponed>>

Deliver(r) ==
    \/ DeliverNothing(r) \/ DeliverCancelled(r)
    \/ \E to \in SUBSET Users : DeliverSent(r, to) \/ DeliverFailed(r, to)

Next ==
    \/ \E r \in Reminders, s \in Subjects, at \in Times :
           Schedule(r, s, at) \/ \E p \in Procs : BeginPatch(p, r, s, at)
    \/ \E p \in Procs :
           \/ CommitPatch(p) \/ CommitCancel(p) \/ Crash(p)
           \/ \E r \in Reminders : BeginCancel(p, r)
    \/ \E rs \in SUBSET Reminders : Sweep(rs)
    \/ \E r \in Reminders : Deliver(r) \/ LoseTask(r) \/ \E u \in Users : Read(r, u)
    \/ \E u \in Users : ReadAll(u)
    \/ \E t \in Things : DeleteThing(t)
    \/ Tick

Spec == Init /\ [][Next]_vars

(* Beat goes on, and a task that is queued again and again is once taken by a
   worker that lives to finish it, whatever comes of it. *)
FairSpec ==
    /\ Spec
    /\ WF_vars(\E rs \in SUBSET Reminders : Sweep(rs))
    /\ \A r \in Reminders : SF_vars(Deliver(r))

-----------------------------------------------------------------------------
(* Rows, tasks and requests keep their types, and a reminder is about something
   that exists. *)
TypeOK ==
    /\ now \in Times
    /\ things \subseteq Things
    /\ reminder \in [Reminders -> ReminderRows \union {Unscheduled, Deleted}]
    /\ queued \in [Reminders -> 0..MaxQueued]
    /\ notice \in [Reminders -> [Users -> Notices \union {NoNotice}]]
    /\ request \in [Procs -> Requests]
    /\ overtaken \subseteq Reminders
    /\ postponed \subseteq Reminders
    /\ \A r \in Reminders : Exists(r) => RowExists(reminder[r].about)

(* The status tells the truth: a pending or cancelled reminder has told nobody,
   a sent one has told what it says.  The only exceptions are reminders that a
   view saved after they had ended (ReminderDetailView saves without a lock what
   deliver_reminder_task has overtaken); no retry, second task, rollback or
   edit does it. *)
StatusTellsTruth ==
    \A r \in Reminders, u \in Users : Exists(r) /\ Told(r, u) =>
        \/ r \in overtaken
        \/ HasStatus(r, "sent") /\ notice[r][u].about = reminder[r].about

(* Whatever happens to a reminder, a user is told once and of one thing, and
   what was read stays read: a reminder that comes back to life and is
   delivered again repeats nothing (emit_notification's dedupe keys). *)
NoticesOnlySettle ==
    [][\A r \in Reminders, u \in Users : Told(r, u) =>
          /\ Told(r, u)'
          /\ notice'[r][u].about = notice[r][u].about
          /\ notice[r][u].read => notice'[r][u].read]_vars

(* Nobody is reminded before the time, unless the reminder was put off while a
   task for it was waiting: deliver_reminder_task does not look at the time
   again. *)
NeverEarly ==
    [][\A r \in Reminders :
          Pending(r) /\ HasStatus(r, "sent")' => reminder[r].at <= now \/ r \in postponed]_vars

(* An ended reminder is changed by nothing but the save of a view that read it
   before it ended. *)
OnlyStaleSavesUndo ==
    [][\A r \in Reminders : Ended(r) /\ Exists(r)' /\ reminder'[r] # reminder[r] =>
          \E p \in Procs : /\ request[p] # Idle /\ request[p].id = r
                            /\ request'[p] = Idle
                            /\ reminder'[r].status \in {"pending", "cancelled"}]_vars

(* So many due reminders that cannot be told that a sweep may see no other. *)
Clogged ==
    Cardinality({r \in Reminders : Due(r) /\ reminder[r].about \in LongTitles}) >= BatchSize


=============================================================================
