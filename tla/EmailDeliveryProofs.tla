------------------------- MODULE EmailDeliveryProofs -------------------------
(***************************************************************************)
(* Proofs about EmailDelivery, for any mails, number of workers and bounds *)
(* on retries, batches and faults.                                         *)
(***************************************************************************)
EXTENDS EmailDelivery, FiniteSetTheorems, TLAPS

(* Workers that may still put a copy out, or give the claim back. *)
Busy(m) == {w \in Workers : job[w].stage \in {"sending", "refused"} /\ job[w].task.mail = m}

(* A worker may claim the mail, now or after the next sweep. *)
Claimable(m) ==
    IF HasStatus(m, "pending") \/ (HasStatus(m, "sending") /\ delivery[m].late) THEN 1 ELSE 0

(* Every copy that is out, every worker that may put one out and the claim that
   may yet be made are paid for. *)
CostPaid(m) == copies[m] + Cardinality(Busy(m)) + Claimable(m) <= 1 + faults[m]

(* A claim nobody works on any more has been given up before a mail went out,
   or by a fault. *)
AbandonedPaid(m) ==
    HasStatus(m, "sending") /\ ~delivery[m].late /\ (\A w \in Workers : ~WorksOn(w, m))
        => copies[m] <= faults[m]

Untouched(m) == ~Written(m) => copies[m] = 0 /\ \A w \in Workers : ~WorksOn(w, m)

SentIsOut(m) ==
    /\ HasStatus(m, "sent") => copies[m] > 0
    /\ \A w \in Workers : job[w].stage = "accepted" /\ job[w].task.mail = m => copies[m] > 0

MailInv(m) == CostPaid(m) /\ AbandonedPaid(m) /\ Untouched(m) /\ SentIsOut(m)

IInv == TypeOK /\ \A m \in Mails : MailInv(m)

-----------------------------------------------------------------------------
LEMMA WorkerJob ==
    ASSUME TypeOK, NEW w \in Workers
    PROVE  /\ job[w] \in Jobs
           /\ job[w] = Idle <=> job[w].stage = "idle"
           /\ job[w] # Idle => /\ job[w].stage \in {"sending", "accepted", "refused"}
                               /\ job[w].task \in Tasks
                               /\ job[w].task.mail \in Mails
                               /\ job[w].task.tries \in 0..MaxRetries
<1>1. job[w] \in Jobs
  BY DEF TypeOK
<1> QED  BY <1>1 DEF Jobs, Idle, Tasks

LEMMA BusyCount ==
    ASSUME TypeOK, NEW m \in Mails
    PROVE  /\ IsFiniteSet(Busy(m))
           /\ Cardinality(Busy(m)) \in Nat
           /\ \A w \in Workers : w \in Busy(m) => WorksOn(w, m)
           /\ Busy(m) # {} => Cardinality(Busy(m)) > 0
           /\ Busy(m) = {} => Cardinality(Busy(m)) = 0
<1>1. IsFiniteSet(Busy(m))
  BY DeliveryConstants, FS_Subset DEF Busy
<1>2. Cardinality(Busy(m)) \in Nat
  BY <1>1, FS_CardinalityType
<1>3. \A w \in Workers : w \in Busy(m) => WorksOn(w, m)
  BY WorkerJob DEF Busy, WorksOn
<1>4. Cardinality(Busy(m)) = 0 <=> Busy(m) = {}
  BY <1>1, FS_EmptySet
<1> QED  BY <1>1, <1>2, <1>3, <1>4

(* What one worker's step does to the number of busy workers. *)
LEMMA BusyChange ==
    ASSUME TypeOK, NEW w \in Workers, NEW j \in Jobs, job' = [job EXCEPT ![w] = j],
           NEW m \in Mails
    PROVE  LET comes == j.stage \in {"sending", "refused"} /\ j.task.mail = m
           IN  Cardinality(Busy(m)') = Cardinality(Busy(m))
                   + (IF comes THEN 1 ELSE 0) - (IF w \in Busy(m) THEN 1 ELSE 0)
<1> DEFINE comes == j.stage \in {"sending", "refused"} /\ j.task.mail = m
<1>1. \A v \in Workers : job'[v] = IF v = w THEN j ELSE job[v]
  BY DEF TypeOK
<1>2. IsFiniteSet(Busy(m)) /\ Cardinality(Busy(m)) \in Nat
  BY BusyCount
<1>3. CASE comes
  <2>1. Busy(m)' = Busy(m) \union {w}
    BY <1>1, <1>3 DEF Busy
  <2>2. Cardinality(Busy(m) \union {w})
            = IF w \in Busy(m) THEN Cardinality(Busy(m)) ELSE Cardinality(Busy(m)) + 1
    BY <1>2, FS_AddElement
  <2> QED  BY <1>2, <1>3, <2>1, <2>2
<1>4. CASE ~comes
  <2>1. Busy(m)' = Busy(m) \ {w}
    BY <1>1, <1>4 DEF Busy
  <2>2. Cardinality(Busy(m) \ {w})
            = IF w \in Busy(m) THEN Cardinality(Busy(m)) - 1 ELSE Cardinality(Busy(m))
    BY <1>2, FS_RemoveElement
  <2> QED  BY <1>2, <1>4, <2>1, <2>2
<1> QED  BY <1>3, <1>4

LEMMA BusySame ==
    ASSUME UNCHANGED job, NEW m \in Mails
    PROVE  Busy(m)' = Busy(m)
BY DEF Busy

-----------------------------------------------------------------------------
LEMMA InitIInv == Init => IInv
<1> SUFFICES ASSUME Init PROVE IInv
  OBVIOUS
<1>1. TypeOK
  BY DeliveryConstants DEF Init, TypeOK, Jobs
<1>2. ASSUME NEW m \in Mails PROVE MailInv(m)
  <2>1. Busy(m) = {}
    BY DEF Init, Busy, Idle
  <2>2. Cardinality(Busy(m)) = 0
    BY <1>1, <2>1, BusyCount
  <2> QED
    BY <2>2 DEF Init, MailInv, CostPaid, AbandonedPaid, Untouched, SentIsOut, Claimable,
                HasStatus, Written, WorksOn, Idle
<1> QED  BY <1>1, <1>2 DEF IInv

-----------------------------------------------------------------------------
(* Types. *)
LEMMA RowType ==
    ASSUME TypeOK, NEW m \in Mails, Written(m)
    PROVE  /\ delivery[m] \in DeliveryRows
           /\ delivery[m].status \in Statuses
           /\ delivery[m].old \in BOOLEAN
           /\ delivery[m].late \in BOOLEAN
BY DEF TypeOK, Written, DeliveryRows

LEMMA QueueType ==
    ASSUME TypeOK, NEW new \in SUBSET Tasks, Queue(new)
    PROVE  tasks' \subseteq Tasks
BY DEF TypeOK, Queue

LEMMA FaultType ==
    ASSUME TypeOK, NEW m \in Mails, Fault(m)
    PROVE  /\ faults' \in [Mails -> 0..MaxFaults]
           /\ \A k \in Mails : faults'[k] = IF k = m THEN faults[k] + 1 ELSE faults[k]
<1>1. faults[m] \in 0..MaxFaults /\ faults[m] < MaxFaults /\ MaxFaults \in Nat
  BY DeliveryConstants DEF TypeOK, Fault
<1> QED  BY <1>1 DEF TypeOK, Fault

LEMMA CopyType ==
    ASSUME TypeOK, NEW m \in Mails, copies' = [copies EXCEPT ![m] = @ + 1]
    PROVE  /\ copies' \in [Mails -> Nat]
           /\ \A k \in Mails : copies'[k] = IF k = m THEN copies[k] + 1 ELSE copies[k]
BY DEF TypeOK

(* A worker that reaches the next stage keeps its task. *)
LEMMA ReachType ==
    ASSUME TypeOK, NEW w \in Workers, job[w].stage = "sending",
           NEW stage \in {"accepted", "refused"}, Reach(w, stage)
    PROVE  LET j == [stage |-> stage, task |-> job[w].task]
           IN  j \in Jobs /\ job' = [job EXCEPT ![w] = j] /\ job' \in [Workers -> Jobs]
<1> DEFINE j == [stage |-> stage, task |-> job[w].task]
<1>1. job[w].task \in Tasks /\ job[w] \in [stage : {"sending", "accepted", "refused"}, task : Tasks]
  BY WorkerJob DEF Jobs, Idle
<1>2. [job[w] EXCEPT !.stage = stage] = j
  BY <1>1
<1>3. j \in Jobs
  BY <1>1 DEF Jobs
<1> QED  BY <1>2, <1>3 DEF Reach, TypeOK

LEMMA TypeStep == TypeOK /\ [Next]_vars => TypeOK'
<1> SUFFICES ASSUME TypeOK, [Next]_vars PROVE TypeOK'
  OBVIOUS
<1>1. ASSUME NEW m \in Mails, Emit(m) PROVE TypeOK'
  <2>1. [mail |-> m, tries |-> 0] \in Tasks
    BY DeliveryConstants DEF Tasks
  <2>2. tasks' \subseteq Tasks
    BY <1>1, <2>1, QueueType DEF Emit
  <2> QED  BY <1>1, <2>2 DEF Emit, TypeOK, DeliveryRows, Statuses
<1>2. ASSUME NEW m \in Mails, TwoMinutesPass(m) PROVE TypeOK'
  <2>1. delivery[m] \in DeliveryRows
    BY <1>2, RowType DEF TwoMinutesPass
  <2> QED  BY <1>2, <2>1 DEF TwoMinutesPass, TypeOK, DeliveryRows
<1>3. ASSUME NEW m \in Mails, TenMinutesPass(m) PROVE TypeOK'
  <2>1. delivery[m] \in DeliveryRows
    BY <1>3, RowType DEF TenMinutesPass, HasStatus
  <2>2. faults' \in [Mails -> 0..MaxFaults]
    BY <1>3, FaultType DEF TenMinutesPass, TypeOK
  <2> QED  BY <1>3, <2>1, <2>2 DEF TenMinutesPass, TypeOK, DeliveryRows
<1>4. ASSUME NEW t \in Tasks, LoseTask(t) PROVE TypeOK'
  BY <1>4 DEF LoseTask, TypeOK
<1>5. ASSUME NEW w \in Workers, NEW t \in Tasks, Claim(w, t) PROVE TypeOK'
  <2>1. tasks' \subseteq Tasks /\ UNCHANGED <<copies, faults>>
    BY <1>5 DEF Claim, TypeOK
  <2>2. CASE HasStatus(t.mail, "pending")
    <3>1. t.mail \in Mails
      BY DEF Tasks
    <3>2. delivery[t.mail] \in DeliveryRows
      BY <2>2, <3>1, RowType DEF HasStatus
    <3>3. [stage |-> "sending", task |-> t] \in Jobs
      BY DEF Jobs
    <3> QED  BY <1>5, <2>1, <2>2, <3>1, <3>2, <3>3 DEF Claim, TypeOK, DeliveryRows, Statuses
  <2>3. CASE ~HasStatus(t.mail, "pending")
    BY <1>5, <2>1, <2>3 DEF Claim, TypeOK
  <2> QED  BY <2>2, <2>3
<1>6. ASSUME NEW w \in Workers, Accepted(w) PROVE TypeOK'
  BY <1>6, ReachType, CopyType, WorkerJob DEF Accepted, TypeOK, Idle
<1>7. ASSUME NEW w \in Workers, Refused(w) PROVE TypeOK'
  BY <1>7, ReachType DEF Refused, TypeOK
<1>8. ASSUME NEW w \in Workers, AcceptedUnheard(w) PROVE TypeOK'
  BY <1>8, ReachType, CopyType, FaultType, WorkerJob DEF AcceptedUnheard, TypeOK, Idle
<1>9. ASSUME NEW w \in Workers, NEW m \in Mails, HasStatus(m, "sending"),
             NEW status \in Statuses
      PROVE  WithStatus(m, status) \in [Mails -> DeliveryRows \union {NoDelivery}]
  <2>1. delivery[m] \in DeliveryRows
    BY <1>9, RowType DEF HasStatus
  <2> QED  BY <2>1 DEF WithStatus, TypeOK, DeliveryRows
<1>10. ASSUME NEW w \in Workers, RecordSent(w) PROVE TypeOK'
  <2>1. job[w].task.mail \in Mails
    BY <1>10, WorkerJob DEF RecordSent, Idle
  <2>2. delivery' \in [Mails -> DeliveryRows \union {NoDelivery}]
    BY <1>9, <1>10, <2>1 DEF RecordSent, TypeOK, Statuses
  <2> QED  BY <1>10, <2>2 DEF RecordSent, TypeOK, Jobs
<1>11. ASSUME NEW w \in Workers, RecordRefused(w) PROVE TypeOK'
  <2> DEFINE t == job[w].task
  <2>1. t \in Tasks /\ t.mail \in Mails /\ t.tries \in 0..MaxRetries
    BY <1>11, WorkerJob DEF RecordRefused, Idle
  <2>2. delivery' \in [Mails -> DeliveryRows \union {NoDelivery}]
    BY <1>9, <1>11, <2>1 DEF RecordRefused, TypeOK, Statuses
  <2>3. t.tries < MaxRetries => [t EXCEPT !.tries = @ + 1] \in Tasks
    BY <2>1, DeliveryConstants DEF Tasks
  <2>4. Retry(t)
    BY <1>11 DEF RecordRefused
  <2>5. tasks' \subseteq Tasks
    BY <2>3, <2>4, QueueType DEF Retry, TypeOK
  <2> QED  BY <1>11, <2>2, <2>5 DEF RecordRefused, TypeOK, Jobs
<1>12. ASSUME NEW w \in Workers, Crash(w) PROVE TypeOK'
  <2>1. faults' \in [Mails -> 0..MaxFaults]
    BY <1>12, WorkerJob, FaultType DEF Crash, TypeOK
  <2> QED  BY <1>12, <2>1 DEF Crash, TypeOK, Jobs
<1>13. ASSUME NEW ms \in SUBSET Mails, Sweep(ms) PROVE TypeOK'
  <2>1. [mail : ms, tries : {0}] \subseteq Tasks
    BY DeliveryConstants DEF Tasks
  <2>2. ASSUME NEW m \in Mails, HasStatus(m, "sending")
        PROVE  [delivery[m] EXCEPT !.status = "pending"] \in DeliveryRows
    BY <2>2, RowType DEF HasStatus, DeliveryRows, Statuses
  <2>3. delivery' \in [Mails -> DeliveryRows \union {NoDelivery}]
    BY <1>13, <2>2 DEF Sweep, TypeOK
  <2> QED  BY <1>13, <2>1, <2>3 DEF Sweep, TypeOK
<1>14. CASE UNCHANGED vars
  BY <1>14 DEF vars, TypeOK
<1> QED
  BY <1>1, <1>2, <1>3, <1>4, <1>5, <1>6, <1>7, <1>8, <1>10, <1>11, <1>12, <1>13, <1>14
  DEF Next

-----------------------------------------------------------------------------
(* The mail of a step is the one whose costs it shifts, for all others nothing
   changes.  A mail nobody touches: its row, copies, faults and workers. *)
LEMMA Bystander ==
    ASSUME TypeOK, NEW m \in Mails, MailInv(m),
           UNCHANGED <<delivery[m], copies[m], faults[m]>>,
           NEW w \in Workers, NEW j \in Jobs, job' = [job EXCEPT ![w] = j],
           ~WorksOn(w, m), j # Idle => j.task.mail # m
    PROVE  MailInv(m)'
<1>1. \A v \in Workers : job'[v] = IF v = w THEN j ELSE job[v]
  BY DEF TypeOK
<1>2. j = Idle \/ j.stage \in {"sending", "accepted", "refused"}
  BY DEF Jobs
<1>3. \A v \in Workers : WorksOn(v, m)' <=> WorksOn(v, m)
  BY <1>1 DEF WorksOn
<1>4. \A v \in Workers : job'[v].stage = "accepted" /\ job'[v].task.mail = m
                            => job[v].stage = "accepted" /\ job[v].task.mail = m
  BY <1>1 DEF Idle
<1>5. w \notin Busy(m)
  BY BusyCount
<1>6. ~(j.stage \in {"sending", "refused"} /\ j.task.mail = m)
  BY DEF Idle
<1>7. Cardinality(Busy(m)) \in Nat
  BY BusyCount
<1>8. Cardinality(Busy(m)') = Cardinality(Busy(m)) + 0 - 0
  BY <1>5, <1>6, BusyChange
<1> QED
  BY <1>3, <1>4, <1>7, <1>8
  DEF MailInv, CostPaid, AbandonedPaid, Untouched, SentIsOut, Claimable, HasStatus, Written

(* Types of the numbers in CostPaid. *)
LEMMA Counts ==
    ASSUME TypeOK, NEW m \in Mails
    PROVE  /\ copies[m] \in Nat
           /\ faults[m] \in Nat
           /\ Cardinality(Busy(m)) \in Nat
           /\ Claimable(m) \in {0, 1}
<1>1. faults[m] \in 0..MaxFaults /\ MaxFaults \in Nat
  BY DeliveryConstants DEF TypeOK
<1> QED  BY <1>1, BusyCount DEF TypeOK, Claimable

(* Steps of the environment. *)
LEMMA NoWorkerStep ==
    ASSUME IInv, UNCHANGED job, NEW m \in Mails,
           \/ UNCHANGED <<delivery[m], copies[m], faults[m]>>
           \/ Emit(m)
           \/ TwoMinutesPass(m)
           \/ TenMinutesPass(m)
           \/ /\ HasStatus(m, "sending") /\ delivery[m].late
              /\ delivery' [m] = [delivery[m] EXCEPT !.status = "pending"]
              /\ UNCHANGED <<copies[m], faults[m]>>
    PROVE  MailInv(m)'
<1> USE DEF IInv
<1>1. /\ Busy(m)' = Busy(m)
      /\ \A w \in Workers : WorksOn(w, m)' <=> WorksOn(w, m)
      /\ \A w \in Workers : w \in Busy(m) => WorksOn(w, m)
      /\ Busy(m) = {} => Cardinality(Busy(m)) = 0
  BY BusyCount DEF Busy, WorksOn
<1>2. MailInv(m) /\ TypeOK
  OBVIOUS
<1>3. copies[m] \in Nat /\ faults[m] \in Nat /\ Cardinality(Busy(m)) \in Nat
  BY Counts
<1>4. CASE UNCHANGED <<delivery[m], copies[m], faults[m]>>
  BY <1>1, <1>2, <1>4
  DEF MailInv, CostPaid, AbandonedPaid, Untouched, SentIsOut, Claimable, HasStatus,
      Written, WorksOn
<1>5. CASE Emit(m)
  <2>1. delivery'[m] = [status |-> "pending", old |-> FALSE, late |-> FALSE]
    BY <1>5 DEF Emit, TypeOK
  <2>2. delivery'[m] # NoDelivery /\ copies'[m] = 0 /\ faults'[m] = faults[m]
    <3>1. [status |-> "pending", old |-> FALSE, late |-> FALSE] \in DeliveryRows
      BY DEF DeliveryRows, Statuses
    <3>2. ~Written(m) /\ copies' = copies /\ faults' = faults
      BY <1>5 DEF Emit
    <3> QED  BY <1>2, <2>1, <3>1, <3>2, DeliveryConstants DEF MailInv, Untouched
  <2>3. Busy(m) = {}
    BY <1>1, <1>2, <1>5 DEF Emit, MailInv, Untouched, Busy
  <2>4. \A w \in Workers : ~WorksOn(w, m)
    BY <1>2, <1>5 DEF Emit, MailInv, Untouched
  <2>5. \A w \in Workers : ~(job[w].stage = "accepted" /\ job[w].task.mail = m)
    BY <2>4 DEF WorksOn, Idle
  <2> QED
    BY <1>1, <1>3, <1>5, <2>1, <2>2, <2>3, <2>4, <2>5
    DEF Emit, MailInv, CostPaid, AbandonedPaid, Untouched, SentIsOut, Claimable, HasStatus, Written
<1>6. CASE TwoMinutesPass(m)
  <2>1. delivery[m] \in DeliveryRows /\ Written(m)
    BY <1>6, RowType DEF TwoMinutesPass
  <2>2. delivery'[m] = [delivery[m] EXCEPT !.old = TRUE]
    BY <1>6 DEF TwoMinutesPass, TypeOK
  <2>3. /\ delivery'[m].status = delivery[m].status
        /\ delivery'[m].late = delivery[m].late
        /\ delivery'[m] # NoDelivery
    BY <2>1, <2>2, DeliveryConstants DEF DeliveryRows
  <2> QED
    BY <1>1, <1>2, <1>6, <2>1, <2>3
    DEF TwoMinutesPass, MailInv, CostPaid, AbandonedPaid, Untouched, SentIsOut, Claimable,
        HasStatus, Written, WorksOn
<1>7. CASE TenMinutesPass(m)
  <2>1. delivery[m] \in DeliveryRows /\ HasStatus(m, "sending") /\ ~delivery[m].late
    BY <1>7, RowType DEF TenMinutesPass, HasStatus
  <2>2. delivery'[m] = [delivery[m] EXCEPT !.old = TRUE, !.late = TRUE]
    BY <1>7 DEF TenMinutesPass, TypeOK
  <2>3. /\ delivery'[m].status = "sending"
        /\ delivery'[m].late = TRUE
        /\ delivery'[m] # NoDelivery
    BY <2>1, <2>2, DeliveryConstants DEF DeliveryRows, HasStatus
  <2>4. copies'[m] = copies[m]
    BY <1>7 DEF TenMinutesPass
  <2>5. copies[m] + Cardinality(Busy(m)) <= 1 + faults[m]
    BY <1>2, <1>3, <2>1 DEF MailInv, CostPaid, Claimable, HasStatus
  <2>6. copies[m] + Cardinality(Busy(m)) + 1 <= 1 + faults'[m]
    <3>1. CASE \E w \in Workers : WorksOn(w, m)
      BY <1>3, <1>7, <2>5, <3>1, FaultType DEF TenMinutesPass
    <3>2. CASE ~\E w \in Workers : WorksOn(w, m)
      <4>1. copies[m] <= faults[m]
        BY <1>2, <2>1, <3>2 DEF MailInv, AbandonedPaid
      <4>2. Cardinality(Busy(m)) = 0
        BY <1>1, <3>2 DEF Busy
      <4> QED  BY <1>3, <1>7, <3>2, <4>1, <4>2 DEF TenMinutesPass
    <3> QED  BY <3>1, <3>2
  <2> QED
    BY <1>1, <1>2, <2>3, <2>4, <2>6, <2>1
    DEF MailInv, CostPaid, AbandonedPaid, Untouched, SentIsOut, Claimable, HasStatus, Written,
        WorksOn
<1>8. CASE /\ HasStatus(m, "sending") /\ delivery[m].late
           /\ delivery' [m] = [delivery[m] EXCEPT !.status = "pending"]
           /\ UNCHANGED <<copies[m], faults[m]>>
  <2>1. delivery[m] \in DeliveryRows
    BY <1>8, RowType DEF HasStatus
  <2>2. delivery'[m].status = "pending" /\ delivery'[m] # NoDelivery
    BY <1>8, <2>1, DeliveryConstants DEF DeliveryRows, Statuses
  <2> QED
    BY <1>1, <1>2, <1>8, <2>2
    DEF MailInv, CostPaid, AbandonedPaid, Untouched, SentIsOut, Claimable, HasStatus, Written,
        WorksOn
<1> QED  BY <1>4, <1>5, <1>6, <1>7, <1>8

(* Steps of a worker, as far as the mail it works on is concerned. *)
LEMMA ClaimStep ==
    ASSUME IInv, NEW w \in Workers, NEW t \in Tasks, Claim(w, t), HasStatus(t.mail, "pending")
    PROVE  MailInv(t.mail)'
<1> DEFINE m == t.mail
           j == [stage |-> "sending", task |-> t]
<1>1. m \in Mails /\ j \in Jobs /\ TypeOK /\ MailInv(m)
  BY DEF Tasks, Jobs, IInv
<1>2. delivery[m] \in DeliveryRows /\ delivery[m].status = "pending"
  BY <1>1, RowType DEF HasStatus
<1>3. delivery'[m].status = "sending" /\ delivery'[m].late = FALSE /\ delivery'[m] # NoDelivery
  <2>1. delivery'[m] = [delivery[m] EXCEPT !.status = "sending", !.late = FALSE]
    BY <1>1 DEF Claim, TypeOK
  <2> QED  BY <1>2, <2>1, DeliveryConstants DEF DeliveryRows, Statuses
<1>4. job' = [job EXCEPT ![w] = j] /\ job[w] = Idle /\ UNCHANGED <<copies, faults>>
  BY DEF Claim
<1>5. \A v \in Workers : job'[v] = IF v = w THEN j ELSE job[v]
  BY <1>1, <1>4 DEF TypeOK
<1>6. WorksOn(w, m)'
  BY <1>5 DEF WorksOn, Idle
<1>7. w \notin Busy(m)
  BY <1>4 DEF Busy, Idle
<1>8. Cardinality(Busy(m)') = Cardinality(Busy(m)) + 1 - 0
  BY <1>1, <1>4, <1>7, BusyChange
<1>9. copies[m] \in Nat /\ faults[m] \in Nat /\ Cardinality(Busy(m)) \in Nat
  BY <1>1, Counts
<1>10. copies[m] + Cardinality(Busy(m)) + 1 <= 1 + faults[m]
  BY <1>1, <1>2 DEF MailInv, CostPaid, Claimable, HasStatus
<1>11. CostPaid(m)'
  BY <1>3, <1>4, <1>8, <1>9, <1>10 DEF CostPaid, Claimable, HasStatus
<1>12. SentIsOut(m)'
  BY <1>1, <1>3, <1>4, <1>5 DEF MailInv, SentIsOut, HasStatus
<1> QED
  BY <1>3, <1>6, <1>11, <1>12 DEF MailInv, AbandonedPaid, Untouched, HasStatus, Written

(* A worker that goes on to another stage: its mail gains a copy, a fault or
   neither, and it was busy before. *)
LEMMA ReachStep ==
    ASSUME IInv, NEW w \in Workers, NEW m \in Mails, job[w].task.mail = m,
           NEW stage \in {"accepted", "refused"},
           \/ Accepted(w) /\ stage = "accepted"
           \/ Refused(w) /\ stage = "refused"
           \/ AcceptedUnheard(w) /\ stage = "refused"
    PROVE  MailInv(m)'
<1> DEFINE j == [stage |-> stage, task |-> job[w].task]
<1>1. job[w].stage = "sending" /\ TypeOK /\ UNCHANGED delivery
  BY DEF Accepted, Refused, AcceptedUnheard, IInv
<1>2. MailInv(m)
  BY DEF IInv
<1>3. job' = [job EXCEPT ![w] = j] /\ j \in Jobs
  BY <1>1, ReachType DEF Accepted, Refused, AcceptedUnheard
<1>4. \A v \in Workers : job'[v] = IF v = w THEN j ELSE job[v]
  BY <1>1, <1>3 DEF TypeOK
<1>5. WorksOn(w, m)' /\ WorksOn(w, m)
  BY <1>1, <1>4 DEF WorksOn, Idle
<1>6. w \in Busy(m)
  BY <1>1 DEF Busy
<1>7. Cardinality(Busy(m)') = Cardinality(Busy(m)) + (IF stage = "refused" THEN 1 ELSE 0) - 1
  BY <1>1, <1>2, <1>3, <1>6, BusyChange
<1>8. copies[m] \in Nat /\ faults[m] \in Nat /\ Cardinality(Busy(m)) \in Nat
  BY <1>1, <1>2, Counts
<1>9. Written(m)
  BY <1>2, <1>5 DEF MailInv, Untouched
<1>10. /\ copies'[m] \in Nat
       /\ faults'[m] \in Nat
       /\ copies'[m] >= copies[m]
       /\ copies'[m] + (IF stage = "refused" THEN 1 ELSE 0) - 1 - faults'[m] <= copies[m] - faults[m]
       /\ stage = "accepted" => copies'[m] > 0
  <2>1. CASE Accepted(w) /\ stage = "accepted"
    <3>1. copies'[m] = copies[m] + 1 /\ faults' = faults
      BY <1>1, <2>1, CopyType DEF Accepted
    <3> QED  BY <1>8, <2>1, <3>1
  <2>2. CASE Refused(w) /\ stage = "refused"
    BY <1>8, <2>2 DEF Refused
  <2>3. CASE AcceptedUnheard(w) /\ stage = "refused"
    <3>1. copies' = [copies EXCEPT ![m] = @ + 1] /\ Fault(m)
      BY <2>3 DEF AcceptedUnheard
    <3>2. copies'[m] = copies[m] + 1
      BY <1>1, <3>1, CopyType
    <3>3. faults'[m] = faults[m] + 1
      BY <1>1, <3>1, FaultType
    <3> QED  BY <1>8, <2>3, <3>2, <3>3
  <2> QED  BY <2>1, <2>2, <2>3
<1>11. Claimable(m)' = Claimable(m) /\ Claimable(m) \in {0, 1}
  BY <1>1 DEF Claimable, HasStatus, Written
<1>12. CostPaid(m)'
  <2>1. copies[m] + Cardinality(Busy(m)) + Claimable(m) <= 1 + faults[m]
    BY <1>2 DEF MailInv, CostPaid
  <2> QED  BY <1>7, <1>8, <1>10, <1>11, <2>1 DEF CostPaid
<1>13. SentIsOut(m)'
  <2>1. HasStatus(m, "sent") => copies'[m] > 0
    BY <1>2, <1>8, <1>10 DEF MailInv, SentIsOut
  <2>2. ASSUME NEW v \in Workers, job'[v].stage = "accepted", job'[v].task.mail = m
        PROVE  copies'[m] > 0
    BY <1>2, <1>4, <1>8, <1>10, <2>2 DEF MailInv, SentIsOut
  <2> QED  BY <1>1, <2>1, <2>2 DEF SentIsOut, HasStatus, Written
<1> QED
  BY <1>1, <1>5, <1>9, <1>12, <1>13 DEF MailInv, AbandonedPaid, Untouched, Written

(* A worker that is done with its task, or dead. *)
LEMMA LeaveStep ==
    ASSUME IInv, NEW w \in Workers, NEW m \in Mails, job[w] # Idle, job[w].task.mail = m,
           RecordSent(w) \/ RecordRefused(w) \/ Crash(w)
    PROVE  MailInv(m)'
<1>1. TypeOK /\ MailInv(m) /\ Idle \in Jobs
  BY DEF IInv, Jobs
<1>2. job' = [job EXCEPT ![w] = Idle] /\ UNCHANGED copies
  BY DEF RecordSent, RecordRefused, Crash
<1>3. \A v \in Workers : job'[v] = IF v = w THEN Idle ELSE job[v]
  BY <1>1, <1>2 DEF TypeOK
<1>4. WorksOn(w, m) /\ Written(m)
  BY <1>1 DEF WorksOn, MailInv, Untouched
<1>5. delivery[m] \in DeliveryRows /\ delivery[m].status \in Statuses /\ delivery[m].late \in BOOLEAN
  BY <1>1, <1>4, RowType
<1>6. copies[m] \in Nat /\ faults[m] \in Nat /\ Cardinality(Busy(m)) \in Nat
  BY <1>1, Counts
<1>7. w \in Busy(m) <=> job[w].stage \in {"sending", "refused"}
  BY DEF Busy
<1>8. Cardinality(Busy(m)') = Cardinality(Busy(m)) + 0 - (IF w \in Busy(m) THEN 1 ELSE 0)
  BY <1>1, <1>2, BusyChange DEF Idle
<1>9. copies[m] + Cardinality(Busy(m)) + Claimable(m) <= 1 + faults[m]
  BY <1>1 DEF MailInv, CostPaid
<1>10. w \in Busy(m) => Cardinality(Busy(m)) > 0
  BY <1>1, BusyCount
<1>11. \A v \in Workers : job'[v].stage = "accepted" => v # w /\ job[v].stage = "accepted"
  BY <1>3 DEF Idle
<1>12. \A v \in Workers : job'[v].stage = "accepted" /\ job'[v].task.mail = m => copies[m] > 0
  BY <1>1, <1>3, <1>11 DEF MailInv, SentIsOut
<1>13. CASE RecordSent(w)
  <2>1. job[w].stage = "accepted" /\ UNCHANGED faults
    BY <1>13 DEF RecordSent
  <2>2. copies[m] > 0
    BY <1>1, <2>1 DEF MailInv, SentIsOut
  <2>3. CASE HasStatus(m, "sending")
    <3>1. delivery' = WithStatus(m, "sent")
      BY <1>13, <2>3 DEF RecordSent
    <3>2. delivery'[m].status = "sent" /\ delivery'[m] # NoDelivery
      BY <1>1, <1>5, <3>1, DeliveryConstants DEF WithStatus, TypeOK, DeliveryRows, Statuses
    <3>3. CostPaid(m)'
      BY <1>2, <1>6, <1>7, <1>8, <1>9, <2>1, <3>2 DEF CostPaid, Claimable, HasStatus
    <3> QED
      BY <1>2, <1>12, <2>2, <3>2, <3>3
      DEF MailInv, AbandonedPaid, Untouched, SentIsOut, HasStatus, Written
  <2>4. CASE ~HasStatus(m, "sending")
    <3>1. UNCHANGED delivery
      BY <1>13, <2>4 DEF RecordSent
    <3>2. CostPaid(m)'
      BY <1>2, <1>6, <1>7, <1>8, <1>9, <2>1, <3>1
      DEF CostPaid, Claimable, HasStatus, Written
    <3> QED
      BY <1>2, <1>4, <1>12, <2>2, <2>4, <3>1, <3>2
      DEF MailInv, AbandonedPaid, Untouched, SentIsOut, HasStatus, Written
  <2> QED  BY <2>3, <2>4
<1>14. CASE RecordRefused(w)
  <2>1. job[w].stage = "refused" /\ UNCHANGED faults
    BY <1>14 DEF RecordRefused
  <2>2. Claimable(m) \in {0, 1}
    BY DEF Claimable
  <2>3. CASE HasStatus(m, "sending")
    <3>1. delivery' = WithStatus(m, "pending")
      BY <1>14, <2>3 DEF RecordRefused
    <3>2. delivery'[m].status = "pending" /\ delivery'[m] # NoDelivery
      BY <1>1, <1>5, <3>1, DeliveryConstants DEF WithStatus, TypeOK, DeliveryRows, Statuses
    <3>3. CostPaid(m)'
      BY <1>2, <1>6, <1>7, <1>8, <1>9, <2>1, <2>2, <3>2 DEF CostPaid, Claimable, HasStatus, Written
    <3> QED
      BY <1>2, <1>12, <3>2, <3>3
      DEF MailInv, AbandonedPaid, Untouched, SentIsOut, HasStatus, Written
  <2>4. CASE ~HasStatus(m, "sending")
    <3>1. UNCHANGED delivery
      BY <1>14, <2>4 DEF RecordRefused
    <3>2. Claimable(m)' = Claimable(m)
      BY <3>1 DEF Claimable, HasStatus, Written
    <3>3. CostPaid(m)'
      BY <1>2, <1>6, <1>7, <1>8, <1>9, <2>1, <2>2, <3>2 DEF CostPaid
    <3> QED
      BY <1>1, <1>2, <1>4, <1>12, <2>4, <3>1, <3>3
      DEF MailInv, AbandonedPaid, Untouched, SentIsOut, HasStatus, Written
  <2> QED  BY <2>3, <2>4
<1>15. CASE Crash(w)
  <2>1. UNCHANGED delivery
    BY <1>15 DEF Crash
  <2>2. Claimable(m)' = Claimable(m) /\ Claimable(m) \in {0, 1}
    BY <2>1 DEF Claimable, HasStatus, Written
  <2>3. faults'[m] = faults[m] + (IF w \in Busy(m) THEN 0 ELSE 1)
    <3>1. CASE job[w].stage = "accepted"
      BY <1>1, <1>6, <1>7, <1>15, <3>1, FaultType DEF Crash
    <3>2. CASE job[w].stage # "accepted"
      <4>1. w \in Busy(m) /\ UNCHANGED faults
        BY <1>1, <1>7, <1>15, <3>2, WorkerJob DEF Crash
      <4> QED  BY <1>6, <4>1
    <3> QED  BY <3>1, <3>2
  <2>4. CostPaid(m)'
    BY <1>2, <1>6, <1>8, <1>9, <2>2, <2>3 DEF CostPaid
  <2>5. copies[m] <= faults'[m]
    BY <1>6, <1>9, <1>10, <2>2, <2>3
  <2>6. SentIsOut(m)'
    BY <1>1, <1>2, <1>12, <2>1 DEF MailInv, SentIsOut, HasStatus, Written
  <2> QED
    BY <1>2, <1>4, <2>1, <2>4, <2>5, <2>6 DEF MailInv, AbandonedPaid, Untouched, Written
<1> QED  BY <1>13, <1>14, <1>15

-----------------------------------------------------------------------------
LEMMA Step == IInv /\ [Next]_vars => IInv'
<1> SUFFICES ASSUME IInv, [Next]_vars, NEW m \in Mails PROVE MailInv(m)'
  BY TypeStep DEF IInv
<1>1. TypeOK /\ MailInv(m)
  BY DEF IInv
<1>2. ASSUME NEW k \in Mails, Emit(k) \/ TwoMinutesPass(k) \/ TenMinutesPass(k)
      PROVE  MailInv(m)'
  <2>1. CASE k = m
    BY <1>2, <2>1, NoWorkerStep DEF Emit, TwoMinutesPass, TenMinutesPass
  <2>2. CASE k # m
    <3>1. UNCHANGED <<job, copies>> /\ delivery'[m] = delivery[m]
      BY <1>1, <1>2, <2>2 DEF Emit, TwoMinutesPass, TenMinutesPass, TypeOK
    <3>2. faults'[m] = faults[m]
      BY <1>1, <1>2, <2>2, FaultType DEF Emit, TwoMinutesPass, TenMinutesPass
    <3> QED  BY <3>1, <3>2, NoWorkerStep
  <2> QED  BY <2>1, <2>2
<1>3. ASSUME NEW t \in Tasks, LoseTask(t) PROVE MailInv(m)'
  BY <1>3, NoWorkerStep DEF LoseTask
<1>4. ASSUME NEW w \in Workers, NEW t \in Tasks, Claim(w, t) PROVE MailInv(m)'
  <2> DEFINE j == [stage |-> "sending", task |-> t]
  <2>1. CASE ~HasStatus(t.mail, "pending")
    BY <1>4, <2>1, NoWorkerStep DEF Claim
  <2>2. CASE HasStatus(t.mail, "pending") /\ t.mail = m
    BY <1>4, <2>2, ClaimStep
  <2>3. CASE HasStatus(t.mail, "pending") /\ t.mail # m
    <3>1. job' = [job EXCEPT ![w] = j] /\ j \in Jobs /\ job[w] = Idle /\ j.task.mail # m
      BY <1>4, <2>3 DEF Claim, Jobs
    <3>2. UNCHANGED <<delivery[m], copies[m], faults[m]>>
      BY <1>1, <1>4, <2>3 DEF Claim, TypeOK, Tasks
    <3>3. ~WorksOn(w, m)
      BY <3>1 DEF WorksOn
    <3> QED  BY <1>1, <3>1, <3>2, <3>3, Bystander
  <2> QED  BY <2>1, <2>2, <2>3
<1>5. ASSUME NEW w \in Workers, Accepted(w) \/ Refused(w) \/ AcceptedUnheard(w)
      PROVE  MailInv(m)'
  <2>1. PICK stage \in {"accepted", "refused"} :
            \/ Accepted(w) /\ stage = "accepted"
            \/ Refused(w) /\ stage = "refused"
            \/ AcceptedUnheard(w) /\ stage = "refused"
    BY <1>5
  <2>2. job[w].stage = "sending"
    BY <1>5 DEF Accepted, Refused, AcceptedUnheard
  <2>3. CASE job[w].task.mail = m
    BY <2>1, <2>3, ReachStep
  <2>4. CASE job[w].task.mail # m
    <3> DEFINE j == [stage |-> stage, task |-> job[w].task]
    <3>1. job' = [job EXCEPT ![w] = j] /\ j \in Jobs
      BY <1>1, <2>1, <2>2, ReachType DEF Accepted, Refused, AcceptedUnheard
    <3>2. job[w].task.mail \in Mails
      BY <1>1, <2>2, WorkerJob
    <3>3. UNCHANGED <<delivery[m], copies[m]>>
      BY <1>1, <1>5, <2>4, <3>2, CopyType DEF Accepted, Refused, AcceptedUnheard
    <3>4. faults'[m] = faults[m]
      BY <1>1, <1>5, <2>4, <3>2, FaultType DEF Accepted, Refused, AcceptedUnheard
    <3>5. ~WorksOn(w, m) /\ j.task.mail # m
      BY <2>4 DEF WorksOn
    <3> QED  BY <1>1, <3>1, <3>3, <3>4, <3>5, Bystander
  <2> QED  BY <2>3, <2>4
<1>6. ASSUME NEW w \in Workers, RecordSent(w) \/ RecordRefused(w) \/ Crash(w)
      PROVE  MailInv(m)'
  <2>1. job[w] # Idle
    BY <1>6 DEF RecordSent, RecordRefused, Crash, Idle
  <2>2. CASE job[w].task.mail = m
    BY <1>6, <2>1, <2>2, LeaveStep
  <2>3. CASE job[w].task.mail # m
    <3>1. job' = [job EXCEPT ![w] = Idle] /\ Idle \in Jobs /\ UNCHANGED copies
      BY <1>6 DEF RecordSent, RecordRefused, Crash, Jobs
    <3>2. job[w].task.mail \in Mails
      BY <1>1, <2>1, WorkerJob
    <3>3. delivery'[m] = delivery[m]
      BY <1>1, <1>6, <2>3 DEF RecordSent, RecordRefused, Crash, WithStatus, TypeOK
    <3>4. faults'[m] = faults[m]
      BY <1>1, <1>6, <2>3, <3>2, FaultType DEF RecordSent, RecordRefused, Crash
    <3>5. ~WorksOn(w, m)
      BY <2>3 DEF WorksOn
    <3> QED  BY <1>1, <3>1, <3>3, <3>4, <3>5, Bystander
  <2> QED  BY <2>2, <2>3
<1>7. ASSUME NEW ms \in SUBSET Mails, Sweep(ms) PROVE MailInv(m)'
  BY <1>7, NoWorkerStep DEF Sweep
<1>8. CASE UNCHANGED vars
  BY <1>8, NoWorkerStep DEF vars
<1> QED
  BY <1>2, <1>3, <1>4, <1>5, <1>6, <1>7, <1>8 DEF Next

(* Rows, tasks and jobs are what EmailDelivery says they are. *)
THEOREM TypeCorrect == Spec => []TypeOK
<1>1. IInv => TypeOK
  BY DEF IInv
<1> QED  BY <1>1, InitIInv, Step, PTL DEF Spec

(* Copies beyond the first are paid for by faults, one each, whatever the
   number of workers, retries and sweeps. *)
THEOREM NoUnpaidCopies == Spec => []CopiesArePaidFor
<1>1. IInv => CopiesArePaidFor
  <2> SUFFICES ASSUME IInv, NEW m \in Mails PROVE copies[m] <= 1 + faults[m]
    BY DEF CopiesArePaidFor
  <2>1. copies[m] + Cardinality(Busy(m)) + Claimable(m) <= 1 + faults[m]
    BY DEF IInv, MailInv, CostPaid
  <2> QED  BY <2>1, Counts DEF IInv
<1> QED  BY <1>1, InitIInv, Step, PTL DEF Spec

(* A delivery recorded as sent is out and stays recorded. *)
THEOREM SentStaysSent == Spec => SentIsFinal
<1>1. ASSUME IInv, [Next]_vars, NEW m \in Mails, HasStatus(m, "sent")
      PROVE  HasStatus(m, "sent")'
  <2>1. TypeOK /\ delivery[m].status = "sent" /\ delivery[m] # NoDelivery /\ delivery[m] \in DeliveryRows
    BY <1>1, RowType DEF IInv, HasStatus, Written
  <2>2. \A k \in Mails : Emit(k) => delivery'[m] = delivery[m]
    BY <2>1 DEF Emit, Written, TypeOK
  <2>3. \A k \in Mails : TenMinutesPass(k) => delivery'[m] = delivery[m]
    BY <2>1 DEF TenMinutesPass, HasStatus, TypeOK
  <2>4. ASSUME NEW k \in Mails, TwoMinutesPass(k) PROVE HasStatus(m, "sent")'
    <3>1. \/ delivery'[m] = delivery[m]
          \/ delivery'[m] = [delivery[m] EXCEPT !.old = TRUE]
      BY <2>1, <2>4 DEF TwoMinutesPass, TypeOK
    <3>2. delivery'[m].status = "sent" /\ delivery'[m] \in DeliveryRows
      BY <2>1, <3>1 DEF DeliveryRows
    <3> QED  BY <3>2, DeliveryConstants DEF HasStatus, Written
  <2>5. ASSUME NEW w \in Workers, NEW t \in Tasks, Claim(w, t) PROVE delivery'[m] = delivery[m]
    BY <2>1, <2>5 DEF Claim, HasStatus, TypeOK
  <2>6. \A t \in Tasks : LoseTask(t) => delivery'[m] = delivery[m]
    BY DEF LoseTask
  <2>7. ASSUME NEW w \in Workers,
               \/ Accepted(w) \/ Refused(w) \/ AcceptedUnheard(w)
               \/ RecordSent(w) \/ RecordRefused(w) \/ Crash(w)
        PROVE  delivery'[m] = delivery[m]
    <3>1. ASSUME NEW k, HasStatus(k, "sending"), NEW status \in Statuses
          PROVE  WithStatus(k, status)[m] = delivery[m]
      BY <2>1, <3>1 DEF WithStatus, HasStatus, TypeOK
    <3> QED
      BY <2>7, <3>1
      DEF Accepted, Refused, AcceptedUnheard, RecordSent, RecordRefused, Crash, Statuses
  <2>8. \A ms \in SUBSET Mails : Sweep(ms) => delivery'[m] = delivery[m]
    BY <2>1 DEF Sweep, HasStatus
  <2>9. (UNCHANGED vars) => delivery'[m] = delivery[m]
    BY DEF vars
  <2> QED
    BY <1>1, <2>2, <2>3, <2>4, <2>5, <2>6, <2>7, <2>8, <2>9 DEF Next, HasStatus, Written
<1>2. ASSUME IInv, [Next]_vars, NEW m \in Mails, HasStatus(m, "sent")'
      PROVE  copies[m] > 0
  <2>1. CASE HasStatus(m, "sent")
    BY <1>2, <2>1 DEF IInv, MailInv, SentIsOut
  <2>2. CASE ~HasStatus(m, "sent")
    <3>1. TypeOK /\ (Written(m) => delivery[m] \in DeliveryRows)
      BY <1>2, RowType DEF IInv
    <3>2. \A k \in Mails : ~Emit(k)
          \/ delivery'[m] = delivery[m]
          \/ delivery'[m] = [status |-> "pending", old |-> FALSE, late |-> FALSE]
      BY <3>1 DEF Emit, TypeOK
    <3>3. ASSUME NEW k \in Mails, TwoMinutesPass(k) \/ TenMinutesPass(k)
          PROVE  ~HasStatus(m, "sent")'
      <4>1. \/ delivery'[m] = delivery[m]
            \/ Written(m) /\ delivery'[m] = [delivery[m] EXCEPT !.old = TRUE]
            \/ Written(m) /\ delivery'[m] = [delivery[m] EXCEPT !.old = TRUE, !.late = TRUE]
        BY <3>1, <3>3 DEF TwoMinutesPass, TenMinutesPass, HasStatus, TypeOK
      <4>2. delivery'[m] = delivery[m] \/ (Written(m) /\ delivery'[m].status = delivery[m].status)
        BY <3>1, <4>1 DEF DeliveryRows
      <4> QED  BY <2>2, <4>2 DEF HasStatus, Written
    <3>4. ASSUME NEW w \in Workers, NEW t \in Tasks, Claim(w, t) PROVE ~HasStatus(m, "sent")'
      <4>1. \/ delivery'[m] = delivery[m]
            \/ Written(m) /\ delivery'[m] = [delivery[m] EXCEPT !.status = "sending", !.late = FALSE]
        BY <3>1, <3>4 DEF Claim, HasStatus, TypeOK
      <4>2. delivery'[m] = delivery[m] \/ delivery'[m].status = "sending"
        BY <3>1, <4>1 DEF DeliveryRows
      <4> QED  BY <2>2, <4>2 DEF HasStatus, Written
    <3>5. ASSUME NEW w \in Workers, RecordRefused(w) PROVE ~HasStatus(m, "sent")'
      <4>1. \/ delivery'[m] = delivery[m]
            \/ Written(m) /\ delivery'[m] = [delivery[m] EXCEPT !.status = "pending"]
        BY <3>1, <3>5 DEF RecordRefused, WithStatus, HasStatus, TypeOK
      <4>2. delivery'[m] = delivery[m] \/ delivery'[m].status = "pending"
        BY <3>1, <4>1 DEF DeliveryRows
      <4> QED  BY <2>2, <4>2 DEF HasStatus, Written
    <3>6. ASSUME NEW ms \in SUBSET Mails, Sweep(ms) PROVE ~HasStatus(m, "sent")'
      <4>1. \/ delivery'[m] = delivery[m]
            \/ Written(m) /\ delivery'[m] = [delivery[m] EXCEPT !.status = "pending"]
        BY <3>1, <3>6 DEF Sweep, HasStatus
      <4>2. delivery'[m] = delivery[m] \/ delivery'[m].status = "pending"
        BY <3>1, <4>1 DEF DeliveryRows
      <4> QED  BY <2>2, <4>2 DEF HasStatus, Written
    <3>7. ASSUME NEW w \in Workers, RecordSent(w) PROVE copies[m] > 0
      <4>1. job[w].stage = "accepted" /\ job[w].task.mail \in Mails
        BY <3>1, <3>7, WorkerJob DEF RecordSent, Idle
      <4>2. job[w].task.mail = m
        BY <1>2, <2>2, <3>1, <3>7 DEF RecordSent, WithStatus, HasStatus, Written, TypeOK
      <4> QED  BY <1>2, <4>1, <4>2 DEF IInv, MailInv, SentIsOut
    <3>8. ASSUME \/ \E t \in Tasks : LoseTask(t)
                 \/ \E w \in Workers : Accepted(w) \/ Refused(w) \/ AcceptedUnheard(w) \/ Crash(w)
                 \/ UNCHANGED vars
          PROVE  ~HasStatus(m, "sent")'
      BY <2>2, <3>8
      DEF LoseTask, Accepted, Refused, AcceptedUnheard, Crash, vars, HasStatus, Written
    <3>9. ASSUME NEW k \in Mails, Emit(k) PROVE ~HasStatus(m, "sent")'
      BY <2>2, <3>2, <3>9 DEF HasStatus, Written
    <3> QED
      BY <1>2, <3>3, <3>4, <3>5, <3>6, <3>7, <3>8, <3>9 DEF Next
  <2> QED  BY <2>1, <2>2
<1>3. IInv /\ [Next]_vars
        => [\A m \in Mails : /\ HasStatus(m, "sent") => HasStatus(m, "sent")'
                             /\ HasStatus(m, "sent")' => copies[m] > 0]_vars
  BY <1>1, <1>2
<1> QED  BY <1>3, InitIInv, Step, PTL DEF Spec, SentIsFinal
=============================================================================
