------------------------------ MODULE Friendship ------------------------------
(***************************************************************************)
(* Friend requests, friendships and the personal messages between friends. *)
(*                                                                         *)
(* A friendship is one row, from the user who asked to the user who was    *)
(* asked, pending until it is accepted.  Sending a request locks the two   *)
(* users, deciding on one locks its row; removing a friend and everything  *)
(* about messages lock nothing.                                            *)
(***************************************************************************)
EXTENDS Naturals

CONSTANTS
    Users,
    Procs,     \* workers that serve requests and WebSocket connections
    Messages,  \* ids of PersonalMessage rows
    MaxRow,    \* bound on the number of Friendship rows created
    NoRow,     \* no Friendship row with this id
    NoMessage  \* no PersonalMessage row with this id

FriendshipRows == [from : Users, to : Users, status : {"pending", "accepted"}]

MessageRows == [from : Users, to : Users, read : BOOLEAN, deleted : BOOLEAN]

ASSUME FriendshipConstants ==
    /\ MaxRow \in Nat
    /\ NoRow \notin FriendshipRows
    /\ NoMessage \notin MessageRows

VARIABLES
    friendship,  \* Friendship rows by id; ids are never reused
    lastRow,     \* the newest id
    message,     \* PersonalMessage rows by id
    request,     \* what each worker carries from its unlocked reads
    overtaken    \* history: workers whose sender and receiver stopped being
                 \* friends after they had asked

vars == <<friendship, lastRow, message, request, overtaken>>

Idle == [op |-> "idle"]

Requests ==
    {Idle}
    \union [op : {"send", "message", "conversation"}, from : Users, to : Users]
    \union [op : {"remove"}, id : 1..MaxRow, row : FriendshipRows]
    \union [op : {"mark", "delete"}, message : Messages, row : MessageRows]

Take(p, r) == request[p] = Idle /\ request' = [request EXCEPT ![p] = r]

Done(p) == request' = [request EXCEPT ![p] = Idle]

Free == \E p \in Procs : request[p] = Idle

-----------------------------------------------------------------------------
Between(row, u, v) == {row.from, row.to} = {u, v}

RowsBetween(u, v) == {i \in 1..MaxRow : friendship[i] # NoRow /\ Between(friendship[i], u, v)}

(* are_friends. *)
Friends(u, v) == \E i \in RowsBetween(u, v) : friendship[i].status = "accepted"

Init ==
    /\ friendship = [i \in 1..MaxRow |-> NoRow]
    /\ lastRow = 0
    /\ message = [m \in Messages |-> NoMessage]
    /\ request = [p \in Procs |-> Idle]
    /\ overtaken = {}

(* SendFriendRequestView.post.  The serializer refuses a pair that has a
   row... *)
BeginSend(p, u, v) ==
    /\ u # v
    /\ RowsBetween(u, v) = {}
    /\ Take(p, [op |-> "send", from |-> u, to |-> v])
    /\ UNCHANGED <<friendship, lastRow, message, overtaken>>

(* Mutated form: the pair is not looked up again; the rows are unique by
   direction. *)
CommitSendOneWay(p) ==
    LET r == request[p]
    IN  /\ r.op = "send"
        /\ \/ /\ \A i \in RowsBetween(r.from, r.to) : friendship[i].from # r.from
              /\ lastRow < MaxRow
              /\ lastRow' = lastRow + 1
              /\ friendship' = [friendship EXCEPT ![lastRow'] =
                     [from |-> r.from, to |-> r.to, status |-> "pending"]]
           \/ /\ \E i \in RowsBetween(r.from, r.to) : friendship[i].from = r.from
              /\ UNCHANGED <<friendship, lastRow>>
        /\ Done(p)
        /\ UNCHANGED <<message, overtaken>>

(* ... and the view does again, with both users locked. *)
CommitSend(p) ==
    LET r == request[p]
    IN  /\ r.op = "send"
        /\ \/ /\ RowsBetween(r.from, r.to) = {}
              /\ lastRow < MaxRow
              /\ lastRow' = lastRow + 1
              /\ friendship' = [friendship EXCEPT ![lastRow'] =
                     [from |-> r.from, to |-> r.to, status |-> "pending"]]
           \/ /\ RowsBetween(r.from, r.to) # {}
              /\ UNCHANGED <<friendship, lastRow>>
        /\ Done(p)
        /\ UNCHANGED <<message, overtaken>>

(* The three decisions on a request lock its row and ask that it be pending. *)
Pending(i) == friendship[i] # NoRow /\ friendship[i].status = "pending"

(* AcceptFriendRequestView.post. *)
Accept(u, i) ==
    /\ Free
    /\ Pending(i) /\ friendship[i].to = u
    /\ friendship' = [friendship EXCEPT ![i].status = "accepted"]
    /\ UNCHANGED <<lastRow, message, request, overtaken>>

(* RejectFriendRequestView.post. *)
Reject(u, i) ==
    /\ Free
    /\ Pending(i) /\ friendship[i].to = u
    /\ friendship' = [friendship EXCEPT ![i] = NoRow]
    /\ UNCHANGED <<lastRow, message, request, overtaken>>

(* CancelFriendRequestView.post. *)
Cancel(u, i) ==
    /\ Free
    /\ Pending(i) /\ friendship[i].from = u
    /\ friendship' = [friendship EXCEPT ![i] = NoRow]
    /\ UNCHANGED <<lastRow, message, request, overtaken>>

(* RemoveFriendView.delete finds the accepted row... *)
BeginRemove(p, u, v) ==
    \E i \in RowsBetween(u, v) :
        /\ friendship[i].status = "accepted"
        /\ Take(p, [op |-> "remove", id |-> i, row |-> friendship[i]])
        /\ UNCHANGED <<friendship, lastRow, message, overtaken>>

(* History: the workers with a message in hand whose sender and receiver stop
   being friends in this step. *)
CutOff ==
    {p \in Procs : \E u, v \in Users :
        /\ request[p] = [op |-> "message", from |-> u, to |-> v]
        /\ Friends(u, v) /\ ~Friends(u, v)'}

(* Mutated form: whatever row the pair has is deleted. *)
CommitRemovePair(p) ==
    /\ request[p].op = "remove"
    /\ LET row == request[p].row
       IN  friendship' = [i \in 1..MaxRow |->
               IF i \in RowsBetween(row.from, row.to) THEN NoRow ELSE friendship[i]]
    /\ overtaken' = overtaken \union CutOff
    /\ Done(p)
    /\ UNCHANGED <<lastRow, message>>

(* ... and deletes the row with that id, if it is still there. *)
CommitRemove(p) ==
    /\ request[p].op = "remove"
    /\ friendship' = [friendship EXCEPT ![request[p].id] = NoRow]
    /\ overtaken' = overtaken \union CutOff
    /\ Done(p)
    /\ UNCHANGED <<lastRow, message>>

-----------------------------------------------------------------------------
(* Mutated form: a pending request will do. *)
BeginMessageToAsked(p, u, v) ==
    /\ u # v
    /\ RowsBetween(u, v) # {}
    /\ Take(p, [op |-> "message", from |-> u, to |-> v])
    /\ UNCHANGED <<friendship, lastRow, message, overtaken>>

(* PersonalMessageListCreateView.post and save_message of the WebSocket
   consumer ask are_friends... *)
BeginMessage(p, u, v) ==
    /\ Friends(u, v)
    /\ Take(p, [op |-> "message", from |-> u, to |-> v])
    /\ UNCHANGED <<friendship, lastRow, message, overtaken>>

(* ... and create the message. *)
CommitMessage(p) ==
    LET r == request[p]
    IN  /\ r.op = "message"
        /\ \E m \in Messages :
              /\ message[m] = NoMessage
              /\ message' = [message EXCEPT ![m] =
                     [from |-> r.from, to |-> r.to, read |-> FALSE, deleted |-> FALSE]]
        /\ overtaken' = overtaken \ {p}
        /\ Done(p)
        /\ UNCHANGED <<friendship, lastRow>>

(* PersonalMessageListCreateView.get with a friend, and
   mark_conversation_read: are_friends, and one update of the friend's
   unread messages. *)
BeginConversation(p, u, v) ==
    /\ Friends(u, v)
    /\ Take(p, [op |-> "conversation", from |-> v, to |-> u])
    /\ UNCHANGED <<friendship, lastRow, message, overtaken>>

CommitConversation(p) ==
    LET r == request[p]
    IN  /\ r.op = "conversation"
        /\ message' = [m \in Messages |->
               IF message[m] # NoMessage /\ message[m].from = r.from /\ message[m].to = r.to
               THEN [message[m] EXCEPT !.read = TRUE]
               ELSE message[m]]
        /\ Done(p)
        /\ UNCHANGED <<friendship, lastRow, overtaken>>

(* PersonalMessageDetailView reads the message: patch is for the receiver of
   an unread one, delete for the sender, as delete_message is. *)
BeginMark(p, u, m) ==
    /\ message[m] # NoMessage
    /\ message[m].to = u /\ ~message[m].read
    /\ Take(p, [op |-> "mark", message |-> m, row |-> message[m]])
    /\ UNCHANGED <<friendship, lastRow, message, overtaken>>

BeginDelete(p, u, m) ==
    /\ message[m] # NoMessage
    /\ message[m].from = u
    /\ Take(p, [op |-> "delete", message |-> m, row |-> message[m]])
    /\ UNCHANGED <<friendship, lastRow, message, overtaken>>

(* Mutated form: save() without update_fields. *)
CommitMarkWholeRow(p) ==
    LET r == request[p]
    IN  /\ r.op = "mark"
        /\ message' = [message EXCEPT ![r.message] = [r.row EXCEPT !.read = TRUE]]
        /\ Done(p)
        /\ UNCHANGED <<friendship, lastRow, overtaken>>

(* Each saves its own column. *)
CommitMark(p) ==
    /\ request[p].op = "mark"
    /\ message' = [message EXCEPT ![request[p].message].read = TRUE]
    /\ Done(p)
    /\ UNCHANGED <<friendship, lastRow, overtaken>>

CommitDelete(p) ==
    /\ request[p].op = "delete"
    /\ message' = [message EXCEPT ![request[p].message].deleted = TRUE]
    /\ Done(p)
    /\ UNCHANGED <<friendship, lastRow, overtaken>>

(* A worker dies, or its connection to the database fails, between two
   queries. *)
Crash(p) ==
    /\ request[p] # Idle
    /\ overtaken' = overtaken \ {p}
    /\ Done(p)
    /\ UNCHANGED <<friendship, lastRow, message>>

Next ==
    \/ \E u \in Users, i \in 1..MaxRow : Accept(u, i) \/ Reject(u, i) \/ Cancel(u, i)
    \/ \E p \in Procs :
           \/ \E u, v \in Users :
                  \/ BeginSend(p, u, v) \/ BeginRemove(p, u, v)
                  \/ BeginMessage(p, u, v) \/ BeginConversation(p, u, v)
           \/ \E u \in Users, m \in Messages : BeginMark(p, u, m) \/ BeginDelete(p, u, m)
           \/ CommitSend(p) \/ CommitRemove(p) \/ CommitMessage(p) \/ CommitConversation(p)
           \/ CommitMark(p) \/ CommitDelete(p) \/ Crash(p)

Spec == Init /\ [][Next]_vars

-----------------------------------------------------------------------------
(* Rows and requests keep their types, nobody befriends or writes to
   themselves, and ids run up to the newest. *)
TypeOK ==
    /\ friendship \in [1..MaxRow -> FriendshipRows \union {NoRow}]
    /\ lastRow \in 0..MaxRow
    /\ message \in [Messages -> MessageRows \union {NoMessage}]
    /\ request \in [Procs -> Requests]
    /\ overtaken \subseteq Procs
    /\ \A i \in 1..MaxRow : friendship[i] # NoRow => i <= lastRow /\ friendship[i].from # friendship[i].to
    /\ \A m \in Messages : message[m] # NoMessage => message[m].from # message[m].to

(* Two users never have two rows, in either direction, though the table only
   forbids two in the same: requests that cross, or that follow a rejection or
   a removal still under way (SendFriendRequestView). *)
PairHasOneRow ==
    \A i, j \in 1..MaxRow :
        /\ friendship[i] # NoRow /\ friendship[j] # NoRow
        /\ Between(friendship[i], friendship[j].from, friendship[j].to)
        => i = j

(* Removing a friend takes no lock and can be late, but what it deletes is a
   friendship, never a request that the two have made since: only its
   recipient and its sender decide on a request. *)
RequestsAreDecidedByTheTwo ==
    [][\A i \in 1..MaxRow : Pending(i) /\ friendship'[i] # friendship[i] => UNCHANGED request]_vars

(* A message is written between friends, unless the friendship ended after
   its sender's request had asked for it and before it created the message
   (save_message): a request pending, rejected or made again is not enough, nor
   is a friendship that had ended before. *)
OnlyFriendsTalk ==
    [][\A m \in Messages : message[m] = NoMessage /\ message'[m] # NoMessage =>
          \/ Friends(message'[m].from, message'[m].to)
          \/ \E p \in overtaken :
                /\ request[p] = [op |-> "message", from |-> message'[m].from, to |-> message'[m].to]
                /\ request'[p] = Idle]_vars

(* What was deleted stays deleted and what was read stays read, whoever marks,
   lists or deletes at the same time from an older read of the row. *)
MessagesOnlySettle ==
    [][\A m \in Messages : message[m] # NoMessage =>
          /\ message'[m] \in MessageRows
          /\ message'[m].from = message[m].from /\ message'[m].to = message[m].to
          /\ message[m].read => message'[m].read
          /\ message[m].deleted => message'[m].deleted]_vars

=============================================================================
