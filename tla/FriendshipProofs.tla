--------------------------- MODULE FriendshipProofs ---------------------------
(***************************************************************************)
(* Proofs about Friendship, for any users, workers and messages.           *)
(***************************************************************************)
EXTENDS Friendship, TLAPS

(* The rows, apart from what workers carry. *)
RowsOK ==
    /\ friendship \in [1..MaxRow -> FriendshipRows \union {NoRow}]
    /\ lastRow \in 0..MaxRow
    /\ message \in [Messages -> MessageRows \union {NoMessage}]
    /\ \A i \in 1..MaxRow : friendship[i] # NoRow => i <= lastRow /\ friendship[i].from # friendship[i].to
    /\ \A m \in Messages : message[m] # NoMessage => message[m].from # message[m].to
    /\ PairHasOneRow

(* A request in hand fits the rows: it is between two users, the row to be
   removed is no request any more, and the message to be saved exists. *)
Fits(r) ==
    /\ r \in Requests
    /\ r.op \in {"send", "message"} => r.from # r.to
    /\ r.op = "remove" => r.id <= lastRow /\ ~Pending(r.id)
    /\ r.op \in {"mark", "delete"} => message[r.message] # NoMessage

IInv ==
    /\ RowsOK
    /\ request \in [Procs -> Requests]
    /\ \A p \in Procs : Fits(request[p])

(* What no step takes back.  An id that is no request will never be one. *)
Grows ==
    /\ lastRow <= lastRow'
    /\ \A i \in 1..MaxRow : i <= lastRow /\ ~Pending(i) => ~Pending(i)'
    /\ \A m \in Messages : message[m] # NoMessage => message'[m] # NoMessage

(* What a request in hand is made of. *)
LEMMA RequestFields ==
    ASSUME NEW r \in Requests
    PROVE  /\ r.op \in {"send", "message", "conversation"} => r.from \in Users /\ r.to \in Users
           /\ r.op = "remove" => r.id \in 1..MaxRow /\ r.row \in FriendshipRows
           /\ r.op \in {"mark", "delete"} => r.message \in Messages /\ r.row \in MessageRows
BY DEF Requests, Idle

LEMMA IdleFits == Fits(Idle)
BY DEF Fits, Requests, Idle

(* A request goes on fitting the rows while these only grow. *)
LEMMA FitsStill ==
    ASSUME RowsOK, RowsOK', Grows, NEW r, Fits(r)
    PROVE  Fits(r)'
<1>1. /\ r \in Requests
      /\ r.op \in {"send", "message"} => r.from # r.to
  BY DEF Fits, Grows
<1>2. ASSUME r.op = "remove" PROVE r.id <= lastRow' /\ ~Pending(r.id)'
  <2>1. r.id \in 1..MaxRow /\ r.id <= lastRow /\ ~Pending(r.id)
    BY <1>2, RequestFields DEF Fits
  <2>2. lastRow \in Nat /\ lastRow' \in Nat /\ lastRow <= lastRow'
    BY FriendshipConstants DEF RowsOK, Grows
  <2>3. r.id <= lastRow'
    BY <2>1, <2>2
  <2>4. ~Pending(r.id)'
    BY <2>1 DEF Grows
  <2> QED  BY <2>3, <2>4
<1>3. ASSUME r.op \in {"mark", "delete"} PROVE message'[r.message] # NoMessage
  BY <1>3, RequestFields DEF Fits, Grows
<1> QED  BY <1>1, <1>2, <1>3 DEF Fits

(* A step that keeps the rows in order and changes one worker's request, or
   none. *)
LEMMA OneRequest ==
    ASSUME IInv, RowsOK', Grows, NEW p \in Procs, NEW r, Fits(r)',
           request' = [request EXCEPT ![p] = r]
    PROVE  IInv'
<1>1. r \in Requests
  BY DEF Fits
<1>2. request' \in [Procs -> Requests]
  BY <1>1 DEF IInv
<1>3. ASSUME NEW q \in Procs PROVE Fits(request[q])'
  <2>1. CASE q = p
    BY <2>1 DEF IInv
  <2>2. CASE q # p
    <3>1. PICK c : c = request[q]
      OBVIOUS
    <3>2. request'[q] = c /\ Fits(c) /\ RowsOK
      BY <2>2, <3>1 DEF IInv
    <3>3. Fits(c)'
      BY <3>2, FitsStill
    <3> QED  BY <3>2, <3>3 DEF Fits
  <2> QED  BY <2>1, <2>2
<1> QED  BY <1>2, <1>3 DEF IInv

LEMMA NoRequest ==
    ASSUME IInv, RowsOK', Grows, UNCHANGED request
    PROVE  IInv'
<1>1. ASSUME NEW q \in Procs PROVE Fits(request[q])'
  <2>1. PICK c : c = request[q]
    OBVIOUS
  <2>2. request'[q] = c /\ Fits(c) /\ RowsOK
    BY <2>1 DEF IInv
  <2>3. Fits(c)'
    BY <2>2, FitsStill
  <2> QED  BY <2>2, <2>3 DEF Fits
<1> QED  BY <1>1 DEF IInv

LEMMA RequestDone ==
    ASSUME IInv, RowsOK', Grows, NEW p \in Procs, Done(p)
    PROVE  IInv'
<1>1. Fits(Idle)'
  BY IdleFits DEF Fits, Idle
<1> QED  BY <1>1, OneRequest DEF Done

(* A step that leaves the rows alone. *)
LEMMA SameRows ==
    ASSUME IInv, UNCHANGED <<friendship, lastRow, message>>
    PROVE  RowsOK' /\ Grows
<1>1. RowsOK'
  BY DEF IInv, RowsOK, PairHasOneRow, Between
<1>2. lastRow <= lastRow'
  BY FriendshipConstants DEF IInv, RowsOK
<1>3. Grows
  BY <1>2 DEF Grows, Pending
<1> QED  BY <1>1, <1>3

LEMMA RequestTaken ==
    ASSUME IInv, UNCHANGED <<friendship, lastRow, message>>,
           NEW p \in Procs, NEW r, Fits(r), Take(p, r)
    PROVE  IInv'
<1>1. RowsOK /\ RowsOK' /\ Grows
  BY SameRows DEF IInv
<1>2. Fits(r)'
  BY <1>1, FitsStill
<1> QED  BY <1>1, <1>2, OneRequest DEF Take

-----------------------------------------------------------------------------
(* A row that appears under a new id, of a pair that had none. *)
LEMMA RowCreated ==
    ASSUME IInv, NEW u \in Users, NEW v \in Users, u # v,
           RowsBetween(u, v) = {}, lastRow < MaxRow,
           lastRow' = lastRow + 1,
           friendship' = [friendship EXCEPT ![lastRow'] =
               [from |-> u, to |-> v, status |-> "pending"]],
           UNCHANGED message
    PROVE  RowsOK' /\ Grows
<1> DEFINE n   == lastRow + 1
           row == [from |-> u, to |-> v, status |-> "pending"]
<1>1. /\ n \in 1..MaxRow /\ lastRow \in Nat /\ lastRow < n
      /\ row \in FriendshipRows /\ row # NoRow
      /\ row.from = u /\ row.to = v /\ row.status = "pending"
  BY FriendshipConstants DEF IInv, RowsOK, FriendshipRows
<1>2. /\ friendship \in [1..MaxRow -> FriendshipRows \union {NoRow}]
      /\ \A i \in 1..MaxRow : friendship[i] # NoRow => i <= lastRow /\ friendship[i].from # friendship[i].to
      /\ friendship' = [friendship EXCEPT ![n] = row]
  BY DEF IInv, RowsOK
<1>3. \A i \in 1..MaxRow : friendship[i] # NoRow => ~Between(friendship[i], u, v)
  BY DEF RowsBetween
<1> HIDE DEF n, row
<1>4. /\ friendship'[n] = row
      /\ \A i \in 1..MaxRow : i # n => friendship'[i] = friendship[i]
      /\ friendship' \in [1..MaxRow -> FriendshipRows \union {NoRow}]
  BY <1>1, <1>2
<1>5. PairHasOneRow'
  <2> SUFFICES ASSUME NEW i \in 1..MaxRow, NEW j \in 1..MaxRow,
                      friendship'[i] # NoRow, friendship'[j] # NoRow,
                      {friendship'[i].from, friendship'[i].to} = {friendship'[j].from, friendship'[j].to}
               PROVE  i = j
    BY DEF PairHasOneRow, Between
  <2>1. ASSUME i # n, j # n PROVE i = j
    <3>1. friendship'[i] = friendship[i] /\ friendship'[j] = friendship[j]
      BY <2>1, <1>4
    <3> QED  BY <3>1 DEF IInv, RowsOK, PairHasOneRow, Between
  <2>2. ASSUME i = n, j # n PROVE FALSE
    BY <2>2, <1>1, <1>3, <1>4 DEF Between
  <2>3. ASSUME i # n, j = n PROVE FALSE
    BY <2>3, <1>1, <1>3, <1>4 DEF Between
  <2> QED  BY <2>1, <2>2, <2>3
<1>6. \A i \in 1..MaxRow : friendship'[i] # NoRow => i <= lastRow' /\ friendship'[i].from # friendship'[i].to
  <2> TAKE i \in 1..MaxRow
  <2>1. CASE i = n
    BY <2>1, <1>1, <1>4 DEF n
  <2>2. CASE i # n
    BY <2>2, <1>1, <1>2, <1>4 DEF n
  <2> QED  BY <2>1, <2>2
<1>7. lastRow' \in 0..MaxRow
  BY <1>1, FriendshipConstants DEF n
<1>8. RowsOK'
  BY <1>4, <1>5, <1>6, <1>7 DEF IInv, RowsOK
<1>9. \A i \in 1..MaxRow : i <= lastRow /\ ~Pending(i) => ~Pending(i)'
  <2> SUFFICES ASSUME NEW i \in 1..MaxRow, i <= lastRow, ~Pending(i) PROVE ~Pending(i)'
    OBVIOUS
  <2>1. i # n
    BY <1>1
  <2> QED  BY <2>1, <1>4 DEF Pending
<1> QED  BY <1>1, <1>8, <1>9 DEF Grows, n

(* A row that goes, or becomes a friendship. *)
LEMMA RowSettled ==
    ASSUME IInv, NEW i \in 1..MaxRow, NEW new,
           friendship' = [friendship EXCEPT ![i] = new],
           \/ new = NoRow
           \/ /\ friendship[i] # NoRow
              /\ new = [friendship[i] EXCEPT !.status = "accepted"],
           UNCHANGED <<lastRow, message>>
    PROVE  RowsOK' /\ Grows
<1>1. /\ friendship \in [1..MaxRow -> FriendshipRows \union {NoRow}]
      /\ friendship'[i] = new
      /\ \A j \in 1..MaxRow : j # i => friendship'[j] = friendship[j]
  BY DEF IInv, RowsOK
<1>2. new # NoRow =>
          /\ friendship[i] # NoRow /\ new \in FriendshipRows
          /\ new.from = friendship[i].from /\ new.to = friendship[i].to
          /\ new.status = "accepted"
  <2> SUFFICES ASSUME new # NoRow PROVE
          /\ friendship[i] # NoRow /\ new \in FriendshipRows
          /\ new.from = friendship[i].from /\ new.to = friendship[i].to
          /\ new.status = "accepted"
    OBVIOUS
  <2>1. friendship[i] \in FriendshipRows
    BY <1>1
  <2> QED  BY <2>1 DEF FriendshipRows
<1>3. friendship' \in [1..MaxRow -> FriendshipRows \union {NoRow}]
  BY <1>1, <1>2
<1>4. \A j \in 1..MaxRow : friendship'[j] # NoRow =>
          /\ friendship[j] # NoRow
          /\ friendship'[j].from = friendship[j].from /\ friendship'[j].to = friendship[j].to
  BY <1>1, <1>2
<1>5. PairHasOneRow'
  <2> SUFFICES ASSUME NEW j \in 1..MaxRow, NEW k \in 1..MaxRow,
                      friendship'[j] # NoRow, friendship'[k] # NoRow,
                      {friendship'[j].from, friendship'[j].to} = {friendship'[k].from, friendship'[k].to}
               PROVE  j = k
    BY DEF PairHasOneRow, Between
  <2>1. {friendship[j].from, friendship[j].to} = {friendship[k].from, friendship[k].to}
    BY <1>4
  <2> QED  BY <2>1, <1>4 DEF IInv, RowsOK, PairHasOneRow, Between
<1>6. \A j \in 1..MaxRow : friendship'[j] # NoRow => j <= lastRow' /\ friendship'[j].from # friendship'[j].to
  BY <1>4 DEF IInv, RowsOK
<1>7. RowsOK'
  BY <1>3, <1>5, <1>6 DEF IInv, RowsOK
<1>8. \A j \in 1..MaxRow : j <= lastRow /\ ~Pending(j) => ~Pending(j)'
  BY <1>1, <1>2 DEF Pending
<1>9. lastRow <= lastRow'
  BY FriendshipConstants DEF IInv, RowsOK
<1> QED  BY <1>7, <1>8, <1>9 DEF Grows

(* A step on messages alone, between two users each. *)
LEMMA MessagesOnly ==
    ASSUME IInv, UNCHANGED <<friendship, lastRow>>,
           message' \in [Messages -> MessageRows \union {NoMessage}],
           \A m \in Messages : message[m] # NoMessage => message'[m] # NoMessage,
           \A m \in Messages : message'[m] # NoMessage => message'[m].from # message'[m].to
    PROVE  RowsOK' /\ Grows
<1>1. PairHasOneRow'
  BY DEF IInv, RowsOK, PairHasOneRow, Between
<1>2. RowsOK'
  BY <1>1 DEF IInv, RowsOK
<1>3. lastRow <= lastRow'
  BY FriendshipConstants DEF IInv, RowsOK
<1>4. Grows
  BY <1>3 DEF Grows, Pending
<1> QED  BY <1>2, <1>4

(* A message that is marked or deleted: same parties, nothing undone. *)
Settled(m) ==
    /\ message'[m] \in MessageRows
    /\ message'[m].from = message[m].from /\ message'[m].to = message[m].to
    /\ message[m].read => message'[m].read
    /\ message[m].deleted => message'[m].deleted

LEMMA MessagesSettle ==
    ASSUME IInv, UNCHANGED <<friendship, lastRow>>,
           message' \in [Messages -> MessageRows \union {NoMessage}],
           \A m \in Messages : IF message[m] = NoMessage THEN message'[m] = NoMessage ELSE Settled(m)
    PROVE  RowsOK' /\ Grows
<1>1. \A m \in Messages : message[m] # NoMessage => message'[m] # NoMessage
  BY FriendshipConstants DEF Settled
<1>2. \A m \in Messages : message'[m] # NoMessage => message'[m].from # message'[m].to
  BY DEF Settled, IInv, RowsOK
<1> QED  BY <1>1, <1>2, MessagesOnly

-----------------------------------------------------------------------------
(* A row's value is a constant to the provers once it is named. *)
LEMMA RowValue ==
    ASSUME IInv, NEW i \in 1..MaxRow, friendship[i] # NoRow
    PROVE  \E row \in FriendshipRows : row = friendship[i]
BY DEF IInv, RowsOK

LEMMA SendKeepsInv ==
    ASSUME IInv, NEW p \in Procs, CommitSend(p)
    PROVE  IInv'
<1>1. PICK r : r = request[p]
  OBVIOUS
<1>2. r \in Requests /\ r.op = "send" /\ r.from # r.to
  BY <1>1 DEF IInv, Fits, CommitSend
<1>3. r.from \in Users /\ r.to \in Users
  BY <1>2, RequestFields
<1>4. RowsOK' /\ Grows
  <2>1. CASE RowsBetween(r.from, r.to) = {}
    <3>1. PICK u \in Users, v \in Users : u = r.from /\ v = r.to
      BY <1>3
    <3>2. /\ u # v /\ RowsBetween(u, v) = {} /\ lastRow < MaxRow
          /\ lastRow' = lastRow + 1
          /\ friendship' = [friendship EXCEPT ![lastRow'] =
                 [from |-> u, to |-> v, status |-> "pending"]]
          /\ UNCHANGED message
      BY <1>1, <1>2, <2>1, <3>1 DEF CommitSend
    <3> QED  BY <3>2, RowCreated
  <2>2. CASE RowsBetween(r.from, r.to) # {}
    <3>1. UNCHANGED <<friendship, lastRow, message>>
      BY <1>1, <2>2 DEF CommitSend
    <3> QED  BY <3>1, SameRows
  <2> QED  BY <2>1, <2>2
<1> QED  BY <1>4, RequestDone DEF CommitSend

LEMMA DecisionKeepsInv ==
    ASSUME IInv, NEW u \in Users, NEW i \in 1..MaxRow,
           Accept(u, i) \/ Reject(u, i) \/ Cancel(u, i)
    PROVE  IInv'
<1>1. RowsOK' /\ Grows
  <2>1. CASE Accept(u, i)
    <3>1. PICK row \in FriendshipRows : row = friendship[i]
      BY <2>1, RowValue DEF Accept, Pending
    <3> DEFINE new == [row EXCEPT !.status = "accepted"]
    <3>2. /\ friendship \in [1..MaxRow -> FriendshipRows \union {NoRow}]
          /\ row # NoRow /\ row.from \in Users /\ row.to = u
      BY <2>1, <3>1, FriendshipConstants DEF IInv, RowsOK, Accept, FriendshipRows
    <3>3. friendship' = [friendship EXCEPT ![i] = new]
      BY <2>1, <3>1, <3>2 DEF Accept
    <3>4. UNCHANGED <<lastRow, message>>
      BY <2>1, <3>1, <3>2 DEF Accept
    <3> QED  BY <3>1, <3>2, <3>3, <3>4, RowSettled
  <2>2. CASE Reject(u, i) \/ Cancel(u, i)
    <3>1. /\ friendship' = [friendship EXCEPT ![i] = NoRow]
          /\ UNCHANGED <<lastRow, message>>
      BY <2>2 DEF Reject, Cancel, IInv, RowsOK
    <3> QED  BY <3>1, RowSettled
  <2> QED  BY <2>1, <2>2
<1>2. UNCHANGED request
  BY DEF Accept, Reject, Cancel
<1> QED  BY <1>1, <1>2, NoRequest

LEMMA RemovalKeepsInv ==
    ASSUME IInv, NEW p \in Procs, CommitRemove(p)
    PROVE  IInv'
<1>1. PICK r : r = request[p]
  OBVIOUS
<1>2. r \in Requests /\ r.op = "remove"
  BY <1>1 DEF IInv, CommitRemove
<1>3. PICK i \in 1..MaxRow : i = r.id
  BY <1>2, RequestFields
<1>4. /\ friendship' = [friendship EXCEPT ![i] = NoRow]
      /\ UNCHANGED <<lastRow, message>>
  BY <1>1, <1>3 DEF CommitRemove, IInv, RowsOK
<1>5. RowsOK' /\ Grows
  BY <1>4, RowSettled
<1> QED  BY <1>5, RequestDone DEF CommitRemove

(* A worker begins a request about two users, or about a row it has read. *)
LEMMA PairTaken ==
    ASSUME IInv, NEW p \in Procs, NEW u \in Users, NEW v \in Users,
           BeginSend(p, u, v) \/ BeginMessage(p, u, v) \/ BeginConversation(p, u, v)
    PROVE  IInv'
<1>1. CASE BeginSend(p, u, v)
  <2> DEFINE r == [op |-> "send", from |-> u, to |-> v]
  <2>1. Fits(r)
    BY <1>1 DEF BeginSend, Fits, Requests
  <2> QED  BY <1>1, <2>1, RequestTaken DEF BeginSend
<1>2. CASE BeginMessage(p, u, v)
  <2> DEFINE r == [op |-> "message", from |-> u, to |-> v]
  <2>1. PICK i \in 1..MaxRow : /\ friendship[i] # NoRow
                               /\ {friendship[i].from, friendship[i].to} = {u, v}
                               /\ friendship[i].status = "accepted"
    BY <1>2 DEF BeginMessage, Friends, RowsBetween, Between
  <2>2. u # v
    <3>1. friendship[i].from # friendship[i].to
      BY <2>1 DEF IInv, RowsOK
    <3> QED  BY <2>1, <3>1
  <2>3. Fits(r)
    BY <2>2 DEF Fits, Requests
  <2> QED  BY <1>2, <2>3, RequestTaken DEF BeginMessage
<1>3. CASE BeginConversation(p, u, v)
  <2> DEFINE r == [op |-> "conversation", from |-> v, to |-> u]
  <2>1. Fits(r)
    BY <1>3 DEF Fits, Requests
  <2> QED  BY <1>3, <2>1, RequestTaken DEF BeginConversation
<1> QED  BY <1>1, <1>2, <1>3

LEMMA RemovalTaken ==
    ASSUME IInv, NEW p \in Procs, NEW u \in Users, NEW v \in Users, BeginRemove(p, u, v)
    PROVE  IInv'
<1>1. PICK i \in RowsBetween(u, v) :
          /\ friendship[i].status = "accepted"
          /\ Take(p, [op |-> "remove", id |-> i, row |-> friendship[i]])
          /\ UNCHANGED <<friendship, lastRow, message>>
  BY DEF BeginRemove
<1>2. i \in 1..MaxRow /\ friendship[i] # NoRow
  BY <1>1 DEF RowsBetween
<1>3. PICK row \in FriendshipRows : row = friendship[i]
  BY <1>2, RowValue
<1> DEFINE r == [op |-> "remove", id |-> i, row |-> row]
<1>4. r \in Requests
  BY <1>2, <1>3 DEF Requests
<1>5. i <= lastRow /\ ~Pending(i)
  BY <1>1, <1>2 DEF Pending, IInv, RowsOK
<1>6. Fits(r)
  BY <1>4, <1>5 DEF Fits
<1>7. Take(p, r)
  BY <1>1, <1>3
<1> QED  BY <1>1, <1>6, <1>7, RequestTaken

LEMMA MessageTaken ==
    ASSUME IInv, NEW p \in Procs, NEW u \in Users, NEW m \in Messages,
           BeginMark(p, u, m) \/ BeginDelete(p, u, m)
    PROVE  IInv'
<1>1. message[m] # NoMessage
  BY DEF BeginMark, BeginDelete
<1>2. PICK row \in MessageRows : row = message[m]
  BY <1>1 DEF IInv, RowsOK
<1>3. PICK op \in {"mark", "delete"} : Take(p, [op |-> op, message |-> m, row |-> row])
  BY <1>2 DEF BeginMark, BeginDelete
<1> DEFINE r == [op |-> op, message |-> m, row |-> row]
<1>4. r \in Requests
  BY <1>2 DEF Requests
<1>5. Fits(r)
  BY <1>1, <1>4 DEF Fits
<1>6. UNCHANGED <<friendship, lastRow, message>>
  BY DEF BeginMark, BeginDelete
<1> QED  BY <1>3, <1>5, <1>6, RequestTaken

LEMMA CreationKeepsInv ==
    ASSUME IInv, NEW p \in Procs, CommitMessage(p)
    PROVE  IInv'
<1>1. PICK r : r = request[p]
  OBVIOUS
<1>2. /\ r \in Requests /\ r.op = "message"
      /\ r.from # r.to
  BY <1>1 DEF IInv, Fits, CommitMessage
<1>3. r.from \in Users /\ r.to \in Users
  BY <1>2, RequestFields
<1> DEFINE row == [from |-> r.from, to |-> r.to, read |-> FALSE, deleted |-> FALSE]
<1>4. row \in MessageRows /\ row.from = r.from /\ row.to = r.to
  BY <1>3 DEF MessageRows
<1>5. PICK m \in Messages : message[m] = NoMessage /\ message' = [message EXCEPT ![m] = row]
  BY <1>1 DEF CommitMessage
<1> HIDE DEF row
<1>6. /\ message \in [Messages -> MessageRows \union {NoMessage}]
      /\ \A k \in Messages : message'[k] = IF k = m THEN row ELSE message[k]
  BY <1>5 DEF IInv, RowsOK
<1>7. message' \in [Messages -> MessageRows \union {NoMessage}]
  BY <1>4, <1>5, <1>6
<1>8. \A k \in Messages : message[k] # NoMessage => message'[k] # NoMessage
  BY <1>5, <1>6
<1>9. \A k \in Messages : message'[k] # NoMessage => message'[k].from # message'[k].to
  BY <1>2, <1>4, <1>6 DEF IInv, RowsOK
<1>10. UNCHANGED <<friendship, lastRow>>
  BY DEF CommitMessage
<1>11. RowsOK' /\ Grows
  BY <1>7, <1>8, <1>9, <1>10, MessagesOnly
<1> QED  BY <1>11, RequestDone DEF CommitMessage

(* Marking, deleting and opening a conversation settle messages. *)
LEMMA MessageSteps ==
    ASSUME IInv, NEW p \in Procs, CommitConversation(p) \/ CommitMark(p) \/ CommitDelete(p)
    PROVE  /\ UNCHANGED <<friendship, lastRow>> /\ Done(p)
           /\ message' \in [Messages -> MessageRows \union {NoMessage}]
           /\ \A m \in Messages :
                 IF message[m] = NoMessage THEN message'[m] = NoMessage ELSE Settled(m)
<1>1. PICK r : r = request[p]
  OBVIOUS
<1>2. r \in Requests /\ Fits(r)
  BY <1>1 DEF IInv
<1>3. message \in [Messages -> MessageRows \union {NoMessage}]
  BY DEF IInv, RowsOK
<1>4. CASE CommitConversation(p)
  <2>1. \A m \in Messages : message'[m] =
            IF message[m] # NoMessage /\ message[m].from = r.from /\ message[m].to = r.to
            THEN [message[m] EXCEPT !.read = TRUE] ELSE message[m]
    BY <1>1, <1>4 DEF CommitConversation
  <2>2. message' = [m \in Messages |-> message'[m]]
    BY <1>1, <1>4 DEF CommitConversation
  <2>3. \A m \in Messages : IF message[m] = NoMessage THEN message'[m] = NoMessage ELSE Settled(m)
    BY <1>3, <2>1 DEF Settled, MessageRows
  <2>4. \A m \in Messages : message'[m] \in MessageRows \union {NoMessage}
    BY <2>3 DEF Settled
  <2> QED  BY <1>4, <2>2, <2>3, <2>4 DEF CommitConversation
<1>5. CASE CommitMark(p) \/ CommitDelete(p)
  <2>1. PICK m \in Messages : m = r.message /\ message[m] # NoMessage
    BY <1>1, <1>2, <1>5, RequestFields DEF Fits, CommitMark, CommitDelete
  <2>2. PICK row \in MessageRows : row = message[m]
    BY <1>3, <2>1
  <2>3. PICK new \in MessageRows :
            /\ message' = [message EXCEPT ![m] = new]
            /\ new.from = row.from /\ new.to = row.to
            /\ row.read => new.read
            /\ row.deleted => new.deleted
    <3>1. CASE CommitMark(p)
      <4> DEFINE new == [row EXCEPT !.read = TRUE]
      <4>1. new \in MessageRows /\ new.from = row.from /\ new.to = row.to /\ new.read = TRUE
            /\ new.deleted = row.deleted
        BY DEF MessageRows
      <4>2. message' = [message EXCEPT ![m] = new]
        BY <1>1, <1>3, <2>1, <2>2, <3>1 DEF CommitMark
      <4> QED  BY <4>1, <4>2
    <3>2. CASE CommitDelete(p)
      <4> DEFINE new == [row EXCEPT !.deleted = TRUE]
      <4>1. new \in MessageRows /\ new.from = row.from /\ new.to = row.to /\ new.deleted = TRUE
            /\ new.read = row.read
        BY DEF MessageRows
      <4>2. message' = [message EXCEPT ![m] = new]
        BY <1>1, <1>3, <2>1, <2>2, <3>2 DEF CommitDelete
      <4> QED  BY <4>1, <4>2
    <3> QED  BY <1>5, <3>1, <3>2
  <2>4. \A k \in Messages : message'[k] = IF k = m THEN new ELSE message[k]
    BY <1>3, <2>3
  <2>5. message' \in [Messages -> MessageRows \union {NoMessage}]
    BY <1>3, <2>3
  <2>6. \A k \in Messages : IF message[k] = NoMessage THEN message'[k] = NoMessage ELSE Settled(k)
    BY <1>3, <2>1, <2>2, <2>3, <2>4 DEF Settled
  <2> QED  BY <1>5, <2>5, <2>6 DEF CommitMark, CommitDelete
<1> QED  BY <1>4, <1>5

-----------------------------------------------------------------------------
LEMMA InitIInv == Init => IInv
<1> SUFFICES ASSUME Init PROVE IInv
  OBVIOUS
<1>1. RowsOK
  BY FriendshipConstants DEF Init, RowsOK, PairHasOneRow
<1>2. \A p \in Procs : request[p] = Idle
  BY DEF Init
<1>3. request \in [Procs -> Requests]
  BY DEF Init, Requests
<1>4. \A p \in Procs : Fits(request[p])
  BY <1>2, IdleFits
<1> QED  BY <1>1, <1>3, <1>4 DEF IInv

LEMMA NextIInv == IInv /\ [Next]_vars => IInv'
<1> SUFFICES ASSUME IInv, [Next]_vars PROVE IInv'
  OBVIOUS
<1>1. ASSUME NEW u \in Users, NEW i \in 1..MaxRow,
             Accept(u, i) \/ Reject(u, i) \/ Cancel(u, i)
      PROVE  IInv'
  BY <1>1, DecisionKeepsInv
<1>2. ASSUME NEW p \in Procs, NEW u \in Users, NEW v \in Users,
             BeginSend(p, u, v) \/ BeginMessage(p, u, v) \/ BeginConversation(p, u, v)
      PROVE  IInv'
  BY <1>2, PairTaken
<1>3. ASSUME NEW p \in Procs, NEW u \in Users, NEW v \in Users, BeginRemove(p, u, v)
      PROVE  IInv'
  BY <1>3, RemovalTaken
<1>4. ASSUME NEW p \in Procs, NEW u \in Users, NEW m \in Messages,
             BeginMark(p, u, m) \/ BeginDelete(p, u, m)
      PROVE  IInv'
  BY <1>4, MessageTaken
<1>5. ASSUME NEW p \in Procs, CommitSend(p) PROVE IInv'
  BY <1>5, SendKeepsInv
<1>6. ASSUME NEW p \in Procs, CommitRemove(p) PROVE IInv'
  BY <1>6, RemovalKeepsInv
<1>7. ASSUME NEW p \in Procs, CommitMessage(p) PROVE IInv'
  BY <1>7, CreationKeepsInv
<1>8. ASSUME NEW p \in Procs, CommitConversation(p) \/ CommitMark(p) \/ CommitDelete(p)
      PROVE  IInv'
  <2>1. RowsOK' /\ Grows
    BY <1>8, MessageSteps, MessagesSettle
  <2> QED  BY <1>8, <2>1, MessageSteps, RequestDone
<1>9. ASSUME NEW p \in Procs, Crash(p) PROVE IInv'
  BY <1>9, SameRows, RequestDone DEF Crash
<1>10. CASE UNCHANGED vars
  BY <1>10, SameRows, NoRequest DEF vars
<1> QED
  BY <1>1, <1>2, <1>3, <1>4, <1>5, <1>6, <1>7, <1>8, <1>9, <1>10 DEF Next

LEMMA InvariantIInv == Spec => []IInv
BY InitIInv, NextIInv, PTL DEF Spec

-----------------------------------------------------------------------------
(* A worker with a message in hand: its sender and receiver are friends, or
   have stopped being friends since it asked. *)
TalkOK ==
    /\ overtaken \subseteq Procs
    /\ \A p \in Procs : \A u, v \in Users :
          request[p] = [op |-> "message", from |-> u, to |-> v] => Friends(u, v) \/ p \in overtaken

(* A friendship lasts while its row is left alone, and new rows go under new
   ids. *)
LEMMA FriendsStill ==
    ASSUME NEW u \in Users, NEW v \in Users, Friends(u, v),
           \A i \in 1..MaxRow : friendship[i] # NoRow /\ friendship[i].status = "accepted" =>
               friendship'[i] = friendship[i]
    PROVE  Friends(u, v)'
BY DEF Friends, RowsBetween, Between

(* Steps that leave the friendships alone and take up no message. *)
LEMMA TalkStill ==
    ASSUME TalkOK, UNCHANGED overtaken,
           \A i \in 1..MaxRow : friendship[i] # NoRow /\ friendship[i].status = "accepted" =>
               friendship'[i] = friendship[i],
           \A q \in Procs : request'[q].op = "message" => request'[q] = request[q]
    PROVE  TalkOK'
<1>1. ASSUME NEW q \in Procs, NEW u \in Users, NEW v \in Users,
             request'[q] = [op |-> "message", from |-> u, to |-> v]
      PROVE  Friends(u, v)' \/ q \in overtaken'
  <2>1. request'[q].op = "message"
    BY <1>1
  <2>2. Friends(u, v) \/ q \in overtaken
    BY <1>1, <2>1 DEF TalkOK
  <2> QED  BY <2>2, FriendsStill
<1> QED  BY <1>1 DEF TalkOK

(* A worker puts its message down, or removes a friendship. *)
LEMMA TalkDropped ==
    ASSUME IInv, TalkOK, NEW p \in Procs, Done(p), UNCHANGED friendship,
           overtaken' = overtaken \ {p}
    PROVE  TalkOK'
<1>1. ASSUME NEW q \in Procs, NEW u \in Users, NEW v \in Users,
             request'[q] = [op |-> "message", from |-> u, to |-> v]
      PROVE  Friends(u, v)' \/ q \in overtaken'
  <2>1. q # p /\ request'[q] = request[q]
    BY <1>1 DEF Done, Idle, IInv
  <2>2. Friends(u, v) \/ q \in overtaken
    BY <1>1, <2>1 DEF TalkOK
  <2> QED  BY <2>1, <2>2, FriendsStill
<1> QED  BY <1>1 DEF TalkOK

LEMMA TalkCutOff ==
    ASSUME IInv, TalkOK, NEW p \in Procs, CommitRemove(p)
    PROVE  TalkOK'
<1>1. ASSUME NEW q \in Procs, NEW u \in Users, NEW v \in Users,
             request'[q] = [op |-> "message", from |-> u, to |-> v]
      PROVE  Friends(u, v)' \/ q \in overtaken'
  <2>1. request[q] = [op |-> "message", from |-> u, to |-> v]
    BY <1>1 DEF CommitRemove, Done, Idle, IInv
  <2>2. Friends(u, v) \/ q \in overtaken
    BY <2>1 DEF TalkOK
  <2>3. overtaken' = overtaken \union CutOff
    BY DEF CommitRemove
  <2>4. Friends(u, v) /\ ~Friends(u, v)' => q \in CutOff
    BY <2>1 DEF CutOff
  <2> QED  BY <2>2, <2>3, <2>4
<1>2. overtaken' \subseteq Procs
  BY DEF CommitRemove, CutOff, TalkOK
<1> QED  BY <1>1, <1>2 DEF TalkOK

LEMMA TalkTaken ==
    ASSUME IInv, TalkOK, NEW p \in Procs, NEW w \in Users, NEW x \in Users, BeginMessage(p, w, x)
    PROVE  TalkOK'
<1>1. ASSUME NEW q \in Procs, NEW u \in Users, NEW v \in Users,
             request'[q] = [op |-> "message", from |-> u, to |-> v]
      PROVE  Friends(u, v)' \/ q \in overtaken'
  <2>1. UNCHANGED <<friendship, overtaken>> /\ Friends(w, x)
    BY DEF BeginMessage
  <2>2. CASE q = p
    <3>1. request'[q] = [op |-> "message", from |-> w, to |-> x]
      BY <2>2 DEF BeginMessage, Take, IInv
    <3>2. u = w /\ v = x
      BY <1>1, <3>1
    <3> QED  BY <2>1, <3>2, FriendsStill
  <2>3. CASE q # p
    <3>1. request'[q] = request[q]
      BY <2>3 DEF BeginMessage, Take, IInv
    <3>2. Friends(u, v) \/ q \in overtaken
      BY <1>1, <3>1 DEF TalkOK
    <3> QED  BY <2>1, <3>2, FriendsStill
  <2> QED  BY <2>2, <2>3
<1>2. overtaken' \subseteq Procs
  BY DEF BeginMessage, TalkOK
<1> QED  BY <1>1, <1>2 DEF TalkOK

(* The other steps: an accepted row is not touched, and nobody takes up a
   message. *)
LEMMA TalkRest ==
    ASSUME IInv, TalkOK,
           \/ \E u \in Users, i \in 1..MaxRow : Accept(u, i) \/ Reject(u, i) \/ Cancel(u, i)
           \/ \E p \in Procs :
                  \/ \E u, v \in Users :
                         BeginSend(p, u, v) \/ BeginRemove(p, u, v) \/ BeginConversation(p, u, v)
                  \/ \E u \in Users, m \in Messages : BeginMark(p, u, m) \/ BeginDelete(p, u, m)
                  \/ CommitSend(p) \/ CommitConversation(p) \/ CommitMark(p) \/ CommitDelete(p)
    PROVE  TalkOK'
<1>1. ASSUME NEW u \in Users, NEW i \in 1..MaxRow, Accept(u, i) \/ Reject(u, i) \/ Cancel(u, i)
      PROVE  TalkOK'
  <2>1. UNCHANGED <<request, overtaken>>
    BY <1>1 DEF Accept, Reject, Cancel
  <2>2. friendship[i].status = "pending"
    BY <1>1 DEF Accept, Reject, Cancel, Pending
  <2>3. \A j \in 1..MaxRow : j # i => friendship'[j] = friendship[j]
    BY <1>1 DEF Accept, Reject, Cancel, IInv, RowsOK
  <2> QED  BY <2>1, <2>2, <2>3, TalkStill
<1>2. ASSUME NEW p \in Procs, CommitSend(p) PROVE TalkOK'
  <2>1. UNCHANGED overtaken
    BY <1>2 DEF CommitSend
  <2>2. \A q \in Procs : request'[q].op = "message" => request'[q] = request[q]
    BY <1>2 DEF CommitSend, Done, Idle, IInv
  <2>3. \/ UNCHANGED friendship
        \/ \E row : friendship' = [friendship EXCEPT ![lastRow + 1] = row]
    BY <1>2 DEF CommitSend
  <2>4. lastRow \in Nat
    BY FriendshipConstants DEF IInv, RowsOK
  <2>5. ASSUME NEW i \in 1..MaxRow, friendship[i] # NoRow PROVE friendship'[i] = friendship[i]
    <3>1. i <= lastRow
      BY <2>5 DEF IInv, RowsOK
    <3>2. i # lastRow + 1
      BY <2>4, <3>1
    <3> QED  BY <2>3, <3>2 DEF IInv, RowsOK
  <2> QED  BY <2>1, <2>2, <2>5, TalkStill
<1>3. ASSUME NEW p \in Procs, CommitConversation(p) \/ CommitMark(p) \/ CommitDelete(p)
      PROVE  TalkOK'
  <2>1. UNCHANGED <<friendship, overtaken>> /\ Done(p)
    BY <1>3 DEF CommitConversation, CommitMark, CommitDelete
  <2>2. \A q \in Procs : request'[q].op = "message" => request'[q] = request[q]
    BY <2>1 DEF Done, Idle, IInv
  <2> QED  BY <2>1, <2>2, TalkStill
<1>4. ASSUME NEW p \in Procs, NEW u \in Users, NEW v \in Users,
             BeginSend(p, u, v) \/ BeginRemove(p, u, v) \/ BeginConversation(p, u, v)
      PROVE  TalkOK'
  <2>1. UNCHANGED <<friendship, overtaken>>
    BY <1>4 DEF BeginSend, BeginRemove, BeginConversation
  <2>2. \E r : r.op # "message" /\ request' = [request EXCEPT ![p] = r]
    <3>1. CASE BeginSend(p, u, v)
      <4> DEFINE r == [op |-> "send", from |-> u, to |-> v]
      <4>1. r.op # "message" /\ request' = [request EXCEPT ![p] = r]
        BY <3>1 DEF BeginSend, Take
      <4> QED  BY <4>1
    <3>2. CASE BeginConversation(p, u, v)
      <4> DEFINE r == [op |-> "conversation", from |-> v, to |-> u]
      <4>1. r.op # "message" /\ request' = [request EXCEPT ![p] = r]
        BY <3>2 DEF BeginConversation, Take
      <4> QED  BY <4>1
    <3>3. CASE BeginRemove(p, u, v)
      <4>1. PICK i \in RowsBetween(u, v) :
                Take(p, [op |-> "remove", id |-> i, row |-> friendship[i]])
        BY <3>3 DEF BeginRemove
      <4> DEFINE r == [op |-> "remove", id |-> i, row |-> friendship[i]]
      <4>2. r.op # "message" /\ request' = [request EXCEPT ![p] = r]
        BY <4>1 DEF Take
      <4> QED  BY <4>2
    <3> QED  BY <1>4, <3>1, <3>2, <3>3
  <2>3. \A q \in Procs : request'[q].op = "message" => request'[q] = request[q]
    BY <2>2 DEF IInv
  <2> QED  BY <2>1, <2>3, TalkStill
<1>5. ASSUME NEW p \in Procs, NEW u \in Users, NEW m \in Messages,
             BeginMark(p, u, m) \/ BeginDelete(p, u, m)
      PROVE  TalkOK'
  <2>1. UNCHANGED <<friendship, overtaken>>
    BY <1>5 DEF BeginMark, BeginDelete
  <2>2. PICK op \in {"mark", "delete"} : Take(p, [op |-> op, message |-> m, row |-> message[m]])
    BY <1>5 DEF BeginMark, BeginDelete
  <2> DEFINE r == [op |-> op, message |-> m, row |-> message[m]]
  <2>3. r.op # "message" /\ request' = [request EXCEPT ![p] = r]
    BY <2>2 DEF Take
  <2> HIDE DEF r
  <2>4. \A q \in Procs : request'[q].op = "message" => request'[q] = request[q]
    BY <2>3 DEF IInv
  <2> QED  BY <2>1, <2>4, TalkStill
<1> QED  BY <1>1, <1>2, <1>3, <1>4, <1>5

LEMMA NextTalk == IInv /\ TalkOK /\ [Next]_vars => TalkOK'
<1> SUFFICES ASSUME IInv, TalkOK, [Next]_vars PROVE TalkOK'
  OBVIOUS
<1>1. ASSUME NEW p \in Procs, CommitMessage(p) \/ Crash(p) PROVE TalkOK'
  BY <1>1, TalkDropped DEF CommitMessage, Crash
<1>2. ASSUME NEW p \in Procs, CommitRemove(p) PROVE TalkOK'
  BY <1>2, TalkCutOff
<1>3. ASSUME NEW p \in Procs, NEW u \in Users, NEW v \in Users, BeginMessage(p, u, v)
      PROVE  TalkOK'
  BY <1>3, TalkTaken
<1>4. CASE UNCHANGED vars
  BY <1>4, TalkStill DEF vars
<1> QED  BY <1>1, <1>2, <1>3, <1>4, TalkRest DEF Next

LEMMA InvariantTalk == Spec => []TalkOK
<1>1. Init => TalkOK
  BY DEF Init, TalkOK, Idle
<1> QED  BY <1>1, NextTalk, InvariantIInv, PTL DEF Spec

(* For any users, workers and messages: rows and requests keep their types,
   and nobody befriends or writes to themselves. *)
THEOREM TypeCorrect == Spec => []TypeOK
<1>1. IInv /\ TalkOK => TypeOK
  BY DEF IInv, RowsOK, TalkOK, TypeOK
<1> QED  BY <1>1, InvariantIInv, InvariantTalk, PTL

(* However requests cross and removals linger, two users have one row at most:
   the lock on the two users makes up for what the table does not forbid. *)
THEOREM OneRowPerPair == Spec => []PairHasOneRow
<1>1. IInv => PairHasOneRow
  BY DEF IInv, RowsOK
<1> QED  BY <1>1, InvariantIInv, PTL

(* A message appears between friends only, or its sender's request had found
   them friends and the friendship ended before it was created. *)
THEOREM FriendsOnly == Spec => OnlyFriendsTalk
<1> DEFINE Allowed(m) ==
               \/ Friends(message'[m].from, message'[m].to)
               \/ \E p \in overtaken :
                     /\ request[p] = [op |-> "message", from |-> message'[m].from, to |-> message'[m].to]
                     /\ request'[p] = Idle
           Talk == \A m \in Messages : message[m] = NoMessage /\ message'[m] # NoMessage => Allowed(m)
<1>1. ASSUME IInv, UNCHANGED message PROVE Talk
  BY <1>1
<1>2. ASSUME IInv, TalkOK, NEW p \in Procs, CommitMessage(p) PROVE Talk
  <2> SUFFICES ASSUME NEW m \in Messages, message[m] = NoMessage, message'[m] # NoMessage
               PROVE  Allowed(m)
    OBVIOUS
  <2>1. PICK r \in Requests : r = request[p]
    BY <1>2 DEF IInv
  <2>2. r.op = "message"
    BY <1>2, <2>1 DEF CommitMessage
  <2>3. PICK u \in Users, v \in Users : r = [op |-> "message", from |-> u, to |-> v]
    BY <2>2 DEF Requests, Idle
  <2> DEFINE row == [from |-> u, to |-> v, read |-> FALSE, deleted |-> FALSE]
  <2>4. row.from = u /\ row.to = v
    OBVIOUS
  <2>5. PICK k \in Messages : message' = [message EXCEPT ![k] = row]
    <3>1. r.from = u /\ r.to = v
      BY <2>3
    <3> QED  BY <1>2, <2>1, <3>1 DEF CommitMessage
  <2> HIDE DEF row
  <2>6. message'[m] = row
    BY <1>2, <2>5 DEF IInv, RowsOK
  <2>7. request'[p] = Idle
    BY <1>2 DEF CommitMessage, Done, IInv
  <2>8. Friends(u, v) \/ p \in overtaken
    BY <1>2, <2>1, <2>3 DEF TalkOK
  <2> QED  BY <2>1, <2>3, <2>4, <2>6, <2>7, <2>8
<1>3. ASSUME IInv, NEW p \in Procs, CommitConversation(p) \/ CommitMark(p) \/ CommitDelete(p)
      PROVE  Talk
  BY <1>3, MessageSteps
<1>4. ASSUME IInv, TalkOK, Next PROVE Talk
  <2>1. ASSUME NEW u \in Users, NEW j \in 1..MaxRow, Accept(u, j) \/ Reject(u, j) \/ Cancel(u, j)
        PROVE  UNCHANGED message
    BY <2>1 DEF Accept, Reject, Cancel
  <2>2. ASSUME NEW p \in Procs, NEW u \in Users, NEW v \in Users,
               \/ BeginSend(p, u, v) \/ BeginMessage(p, u, v) \/ BeginConversation(p, u, v)
               \/ BeginRemove(p, u, v)
        PROVE  UNCHANGED message
    BY <2>2 DEF BeginSend, BeginMessage, BeginConversation, BeginRemove
  <2>3. ASSUME NEW p \in Procs, NEW u \in Users, NEW m \in Messages,
               BeginMark(p, u, m) \/ BeginDelete(p, u, m)
        PROVE  UNCHANGED message
    BY <2>3 DEF BeginMark, BeginDelete
  <2>4. ASSUME NEW p \in Procs, CommitSend(p) \/ CommitRemove(p) \/ Crash(p)
        PROVE  UNCHANGED message
    BY <2>4 DEF CommitSend, CommitRemove, Crash
  <2> HIDE DEF Talk
  <2> QED  BY <1>1, <1>2, <1>3, <1>4, <2>1, <2>2, <2>3, <2>4 DEF Next
<1>5. IInv /\ TalkOK /\ [Next]_vars => [Talk]_vars
  <2> HIDE DEF Talk
  <2> QED  BY <1>4
<1> QED  BY <1>5, InvariantIInv, InvariantTalk, PTL DEF Spec, OnlyFriendsTalk

(* A late removal spares a request made since: the row it found was a
   friendship, and an id that is no request will never be one. *)
THEOREM LateRemovalsSpareRequests == Spec => RequestsAreDecidedByTheTwo
<1> DEFINE Spared == \A i \in 1..MaxRow : Pending(i) /\ friendship'[i] # friendship[i] => UNCHANGED request
<1>1. ASSUME IInv, Next PROVE Spared
  <2> SUFFICES ASSUME NEW i \in 1..MaxRow, Pending(i), friendship'[i] # friendship[i]
               PROVE  UNCHANGED request
    OBVIOUS
  <2>1. ASSUME NEW p \in Procs, CommitSend(p) PROVE FALSE
    <3>1. friendship' # friendship
      OBVIOUS
    <3>2. /\ lastRow < MaxRow /\ lastRow' = lastRow + 1
          /\ \E row \in [from : {request[p].from}, to : {request[p].to}, status : {"pending"}] :
                friendship' = [friendship EXCEPT ![lastRow'] = row]
      BY <2>1, <3>1 DEF CommitSend
    <3>3. lastRow \in Nat /\ friendship \in [1..MaxRow -> FriendshipRows \union {NoRow}]
      BY <1>1, FriendshipConstants DEF IInv, RowsOK
    <3>4. i = lastRow + 1
      BY <3>2, <3>3
    <3>5. i <= lastRow
      BY <1>1 DEF IInv, RowsOK, Pending
    <3> QED  BY <3>3, <3>4, <3>5
  <2>2. ASSUME NEW p \in Procs, CommitRemove(p) PROVE FALSE
    <3>1. request[p].op = "remove" /\ Fits(request[p])
      BY <1>1, <2>2 DEF CommitRemove, IInv
    <3>2. request[p].id = i
      BY <1>1, <2>2 DEF CommitRemove, IInv, RowsOK
    <3> QED  BY <3>1, <3>2 DEF Fits
  <2>3. ASSUME UNCHANGED friendship PROVE FALSE
    BY <2>3
  <2>4. ASSUME NEW u \in Users, NEW j \in 1..MaxRow, Accept(u, j) \/ Reject(u, j) \/ Cancel(u, j)
        PROVE  UNCHANGED request
    BY <2>4 DEF Accept, Reject, Cancel
  <2>5. ASSUME NEW p \in Procs, NEW u \in Users, NEW v \in Users,
               \/ BeginSend(p, u, v) \/ BeginMessage(p, u, v) \/ BeginConversation(p, u, v)
               \/ BeginRemove(p, u, v)
        PROVE  UNCHANGED friendship
    BY <2>5 DEF BeginSend, BeginMessage, BeginConversation, BeginRemove
  <2>6. ASSUME NEW p \in Procs, NEW u \in Users, NEW m \in Messages,
               BeginMark(p, u, m) \/ BeginDelete(p, u, m)
        PROVE  UNCHANGED friendship
    BY <2>6 DEF BeginMark, BeginDelete
  <2>7. ASSUME NEW p \in Procs,
               \/ CommitMessage(p) \/ CommitConversation(p) \/ CommitMark(p)
               \/ CommitDelete(p) \/ Crash(p)
        PROVE  UNCHANGED friendship
    BY <2>7 DEF CommitMessage, CommitConversation, CommitMark, CommitDelete, Crash
  <2> QED  BY <1>1, <2>1, <2>2, <2>3, <2>4, <2>5, <2>6, <2>7 DEF Next
<1>2. ASSUME UNCHANGED vars PROVE Spared
  BY <1>2 DEF vars
<1>3. IInv /\ [Next]_vars => Spared
  BY <1>1, <1>2
<1>4. IInv /\ [Next]_vars => [Spared]_vars
  BY <1>3
<1> QED  BY <1>4, InvariantIInv, PTL DEF Spec, RequestsAreDecidedByTheTwo

(* Whatever an older read of a message says, what was read stays read and what
   was deleted stays deleted. *)
THEOREM NothingIsTakenBack == Spec => MessagesOnlySettle
<1> DEFINE Kept   == \A m \in Messages : message[m] # NoMessage => Settled(m)
           Settle == \A m \in Messages : message[m] # NoMessage =>
                        /\ message'[m] \in MessageRows
                        /\ message'[m].from = message[m].from /\ message'[m].to = message[m].to
                        /\ message[m].read => message'[m].read
                        /\ message[m].deleted => message'[m].deleted
<1>1. ASSUME IInv, UNCHANGED message PROVE Kept
  BY <1>1 DEF IInv, RowsOK, Settled
<1>2. ASSUME IInv, Next PROVE Kept
  <2>1. ASSUME NEW p \in Procs, CommitConversation(p) \/ CommitMark(p) \/ CommitDelete(p)
        PROVE  Kept
    BY <1>2, <2>1, MessageSteps
  <2>2. ASSUME NEW p \in Procs, CommitMessage(p) PROVE Kept
    <3>1. \A m \in Messages : message[m] # NoMessage => message'[m] = message[m]
      BY <1>2, <2>2 DEF CommitMessage, IInv, RowsOK
    <3> QED  BY <1>2, <3>1 DEF IInv, RowsOK, Settled
  <2>3. ASSUME NEW u \in Users, NEW j \in 1..MaxRow, Accept(u, j) \/ Reject(u, j) \/ Cancel(u, j)
        PROVE  UNCHANGED message
    BY <2>3 DEF Accept, Reject, Cancel
  <2>4. ASSUME NEW p \in Procs, NEW u \in Users, NEW v \in Users,
               \/ BeginSend(p, u, v) \/ BeginMessage(p, u, v) \/ BeginConversation(p, u, v)
               \/ BeginRemove(p, u, v)
        PROVE  UNCHANGED message
    BY <2>4 DEF BeginSend, BeginMessage, BeginConversation, BeginRemove
  <2>5. ASSUME NEW p \in Procs, NEW u \in Users, NEW m \in Messages,
               BeginMark(p, u, m) \/ BeginDelete(p, u, m)
        PROVE  UNCHANGED message
    BY <2>5 DEF BeginMark, BeginDelete
  <2>6. ASSUME NEW p \in Procs, CommitSend(p) \/ CommitRemove(p) \/ Crash(p)
        PROVE  UNCHANGED message
    BY <2>6 DEF CommitSend, CommitRemove, Crash
  <2> HIDE DEF Kept
  <2> QED  BY <1>1, <1>2, <2>1, <2>2, <2>3, <2>4, <2>5, <2>6 DEF Next
<1>3. Kept => Settle
  BY DEF Settled
<1>4. IInv /\ [Next]_vars => [Settle]_vars
  <2> HIDE DEF Kept, Settle
  <2> QED  BY <1>2, <1>3
<1> QED  BY <1>4, InvariantIInv, PTL DEF Spec, MessagesOnlySettle

=============================================================================
