---------------------------- MODULE EmailDelivery ----------------------------
(***************************************************************************)
(* Emails that must go out: EmailDelivery rows, the broker's queue, the    *)
(* Celery workers that claim a row, hand the mail to the SMTP server and   *)
(* record it, and the task that beat runs every minute to sweep up what    *)
(* was left behind.                                                        *)
(*                                                                         *)
(* A claim is a transaction under the row's lock; the mail goes out after  *)
(* it, and what came of it is recorded by an update of its own.  A worker  *)
(* may die between any two of these, or take longer than the ten minutes   *)
(* after which the sweep gives its claim to another.                       *)
(***************************************************************************)
EXTENDS Naturals, FiniteSets

CONSTANTS
    Mails,       \* dedupe keys
    Workers,
    MaxRetries,  \* retries of a task, after which the sweep is left
    BatchSize,   \* deliveries one sweep queues
    MaxFaults,   \* bound on the mishaps of one mail that may cost a second copy
    NoDelivery   \* no row has been written for the mail

Statuses == {"pending", "sending", "sent"}

(* A row, and how its timestamps compare with the sweep's clock. *)
DeliveryRows ==
    [status : Statuses,
     old    : BOOLEAN,   \* created more than two minutes ago
     late   : BOOLEAN]   \* claimed more than ten minutes ago

ASSUME DeliveryConstants ==
    /\ IsFiniteSet(Workers)
    /\ MaxRetries \in Nat
    /\ BatchSize \in Nat \ {0}
    /\ MaxFaults \in Nat
    /\ NoDelivery \notin DeliveryRows

VARIABLES
    delivery,  \* EmailDelivery rows by mail
    tasks,     \* messages in the queue; two that are alike are kept once
    job,       \* what each worker is doing
    copies,    \* copies of each mail the SMTP server accepted
    faults     \* per mail: deaths after the mail was accepted, errors for a mail
               \* that was accepted, claims outlived by their worker

vars == <<delivery, tasks, job, copies, faults>>

Tasks == [mail : Mails, tries : 0..MaxRetries]

Idle == [stage |-> "idle"]

Jobs == {Idle} \union [stage : {"sending", "accepted", "refused"}, task : Tasks]

-----------------------------------------------------------------------------
Written(m) == delivery[m] # NoDelivery

HasStatus(m, status) == Written(m) /\ delivery[m].status = status

WorksOn(w, m) == job[w] # Idle /\ job[w].task.mail = m

WithStatus(m, status) == [delivery EXCEPT ![m].status = status]

(* .delay and retry fail when the broker is out of reach. *)
Queue(new) == tasks' = tasks \/ tasks' = tasks \union new

Fault(m) == /\ faults[m] < MaxFaults
            /\ faults' = [faults EXCEPT ![m] = @ + 1]

-----------------------------------------------------------------------------
Init ==
    /\ delivery = [m \in Mails |-> NoDelivery]
    /\ tasks = {}
    /\ job = [w \in Workers |-> Idle]
    /\ copies = [m \in Mails |-> 0]
    /\ faults = [m \in Mails |-> 0]

(* emit_notification: get_or_create of the row, and on commit a task for it.
   A second emission with the same key finds the row and does nothing. *)
Emit(m) ==
    /\ ~Written(m)
    /\ delivery' = [delivery EXCEPT ![m] =
           [status |-> "pending", old |-> FALSE, late |-> FALSE]]
    /\ Queue({[mail |-> m, tries |-> 0]})
    /\ UNCHANGED <<job, copies, faults>>

(* Mutated form: a delivery that is being sent may be claimed too. *)
ClaimAnyUnsent(w, t) ==
    /\ job[w] = Idle
    /\ t \in tasks
    /\ tasks' = tasks \ {t}
    /\ IF HasStatus(t.mail, "pending") \/ HasStatus(t.mail, "sending")
       THEN /\ delivery' = [delivery EXCEPT ![t.mail].status = "sending",
                                            ![t.mail].late = FALSE]
            /\ job' = [job EXCEPT ![w] = [stage |-> "sending", task |-> t]]
       ELSE UNCHANGED <<delivery, job>>
    /\ UNCHANGED <<copies, faults>>

(* deliver_email_task up to the end of its transaction: under the row's lock, a
   pending delivery becomes the worker's, any other is left alone. *)
Claim(w, t) ==
    /\ job[w] = Idle
    /\ t \in tasks
    /\ tasks' = tasks \ {t}
    /\ IF HasStatus(t.mail, "pending")
       THEN /\ delivery' = [delivery EXCEPT ![t.mail].status = "sending",
                                            ![t.mail].late = FALSE]
            /\ job' = [job EXCEPT ![w] = [stage |-> "sending", task |-> t]]
       ELSE UNCHANGED <<delivery, job>>
    /\ UNCHANGED <<copies, faults>>

(* A worker dies with a task it has taken and not yet acted on. *)
LoseTask(t) ==
    /\ t \in tasks
    /\ tasks' = tasks \ {t}
    /\ UNCHANGED <<delivery, job, copies, faults>>

Reach(w, stage) == job' = [job EXCEPT ![w].stage = stage]

(* send_mail returns. *)
Accepted(w) ==
    /\ job[w].stage = "sending"
    /\ Reach(w, "accepted")
    /\ copies' = [copies EXCEPT ![job[w].task.mail] = @ + 1]
    /\ UNCHANGED <<delivery, tasks, faults>>

(* send_mail raises an OSError or an SMTPException... *)
Refused(w) ==
    /\ job[w].stage = "sending"
    /\ Reach(w, "refused")
    /\ UNCHANGED <<delivery, tasks, copies, faults>>

(* ... and may do so for a mail that went out, when the connection breaks
   before the server's answer arrives. *)
AcceptedUnheard(w) ==
    /\ job[w].stage = "sending"
    /\ Reach(w, "refused")
    /\ copies' = [copies EXCEPT ![job[w].task.mail] = @ + 1]
    /\ Fault(job[w].task.mail)
    /\ UNCHANGED <<delivery, tasks>>

RecordSent(w) ==
    LET m == job[w].task.mail
    IN  /\ job[w].stage = "accepted"
        /\ delivery' = IF HasStatus(m, "sending") THEN WithStatus(m, "sent") ELSE delivery
        /\ job' = [job EXCEPT ![w] = Idle]
        /\ UNCHANGED <<tasks, copies, faults>>

(* Celery queues the task again while it has retries left. *)
Retry(t) ==
    IF t.tries < MaxRetries THEN Queue({[t EXCEPT !.tries = @ + 1]}) ELSE UNCHANGED tasks

(* Mutated form: the update does not ask for the status. *)
RecordRefusedAnyway(w) ==
    LET t == job[w].task
    IN  /\ job[w].stage = "refused"
        /\ delivery' = WithStatus(t.mail, "pending")
        /\ job' = [job EXCEPT ![w] = Idle]
        /\ Retry(t)
        /\ UNCHANGED <<copies, faults>>

(* The claim is given back, whoever's claim it is by now, and the task fails:
   autoretry. *)
RecordRefused(w) ==
    LET t == job[w].task
    IN  /\ job[w].stage = "refused"
        /\ delivery' = IF HasStatus(t.mail, "sending")
                       THEN WithStatus(t.mail, "pending") ELSE delivery
        /\ job' = [job EXCEPT ![w] = Idle]
        /\ Retry(t)
        /\ UNCHANGED <<copies, faults>>

(* The worker dies, or send_mail raises something the task does not expect:
   the row stays as it is. *)
Crash(w) ==
    /\ job[w] # Idle
    /\ job' = [job EXCEPT ![w] = Idle]
    /\ IF job[w].stage = "accepted" THEN Fault(job[w].task.mail) ELSE UNCHANGED faults
    /\ UNCHANGED <<delivery, tasks, copies>>

-----------------------------------------------------------------------------
TwoMinutesPass(m) ==
    /\ Written(m)
    /\ ~delivery[m].old
    /\ delivery' = [delivery EXCEPT ![m].old = TRUE]
    /\ UNCHANGED <<tasks, job, copies, faults>>

(* A claim has its ten minutes, whether a worker is still busy or not. *)
TenMinutesPass(m) ==
    /\ HasStatus(m, "sending")
    /\ ~delivery[m].late
    /\ delivery' = [delivery EXCEPT ![m].old = TRUE, ![m].late = TRUE]
    /\ IF \E w \in Workers : WorksOn(w, m) THEN Fault(m) ELSE UNCHANGED faults
    /\ UNCHANGED <<tasks, job, copies>>

(* Mutated form: claims are never taken back. *)
SweepPendingOnly(ms) ==
    LET due == {m \in Mails : HasStatus(m, "pending") /\ delivery[m].old}
    IN  /\ ms \subseteq due
        /\ \/ Cardinality(ms) = BatchSize
           \/ Cardinality(ms) < BatchSize /\ ms = due
        /\ tasks' = tasks \union [mail : ms, tries : {0}]
        /\ UNCHANGED <<delivery, job, copies, faults>>

(* deliver_pending_reminders, its second half: late claims are taken back, and
   what has been pending for long is queued (once more), up to a batch of it.
   One step: a row claimed between the two queries only leaves a task that
   finds nothing to do, and a broker that fails half-way is LoseTask. *)
Sweep(ms) ==
    LET late == {m \in Mails : HasStatus(m, "sending") /\ delivery[m].late}
        due  == late \union {m \in Mails : HasStatus(m, "pending") /\ delivery[m].old}
    IN  /\ ms \subseteq due
        /\ \/ Cardinality(ms) = BatchSize
           \/ Cardinality(ms) < BatchSize /\ ms = due
        /\ delivery' = [m \in Mails |->
               IF m \in late THEN [delivery[m] EXCEPT !.status = "pending"] ELSE delivery[m]]
        /\ tasks' = tasks \union [mail : ms, tries : {0}]
        /\ UNCHANGED <<job, copies, faults>>

-----------------------------------------------------------------------------
Next ==
    \/ \E m \in Mails : Emit(m) \/ TwoMinutesPass(m) \/ TenMinutesPass(m)
    \/ \E t \in Tasks : LoseTask(t) \/ \E w \in Workers : Claim(w, t)
    \/ \E w \in Workers :
           \/ Accepted(w) \/ Refused(w) \/ AcceptedUnheard(w)
           \/ RecordSent(w) \/ RecordRefused(w) \/ Crash(w)
    \/ \E ms \in SUBSET Mails : Sweep(ms)

Spec == Init /\ [][Next]_vars

(* Beat and the workers go on; the SMTP server does not refuse a mail for ever
   and not every worker that takes a task dies with it; time passes. *)
Fairness ==
    /\ \A m \in Mails :
          /\ WF_vars(TwoMinutesPass(m))
          /\ WF_vars(TenMinutesPass(m))
          /\ SF_vars(\E w \in Workers : Claim(w, [mail |-> m, tries |-> 0]))
          /\ SF_vars(\E w \in Workers : WorksOn(w, m) /\ Accepted(w))
    /\ \A w \in Workers :
          /\ WF_vars(RecordSent(w))
          /\ WF_vars(RecordRefused(w))
    /\ WF_vars(\E ms \in SUBSET Mails : Sweep(ms))

FairSpec == Spec /\ Fairness

-----------------------------------------------------------------------------
TypeOK ==
    /\ delivery \in [Mails -> DeliveryRows \union {NoDelivery}]
    /\ tasks \subseteq Tasks
    /\ job \in [Workers -> Jobs]
    /\ copies \in [Mails -> Nat]
    /\ faults \in [Mails -> 0..MaxFaults]

(* A mail goes out once, but for what no sender can prevent: each further copy
   is paid for by a worker that died between sending and recording, an error
   for a mail that was accepted, or a claim that was outlived.  Retries, tasks
   queued by several sweeps, and late workers that give back a claim that is no
   longer theirs add none (deliver_email_task, deliver_pending_reminders). *)
CopiesArePaidFor == \A m \in Mails : copies[m] <= 1 + faults[m]

(* A delivery recorded as sent is out, and nobody takes that back: neither the
   sweep nor a worker whose own attempt failed (the conditional updates of
   deliver_email_task). *)
SentIsFinal ==
    [][\A m \in Mails :
          /\ HasStatus(m, "sent") => HasStatus(m, "sent")'
          /\ HasStatus(m, "sent")' => copies[m] > 0]_vars

(* No delivery is forgotten: whatever tasks, workers or broker are lost on the
   way, a mail once written is recorded as sent in the end. *)
NoMailIsLost == \A m \in Mails : Written(m) ~> HasStatus(m, "sent")

=============================================================================
