------------------------------ MODULE GroupChat ------------------------------
(***************************************************************************)
(* The chat of one group: GroupChatView over HTTP and GroupChatConsumer    *)
(* over web sockets.  Both read a message, change it, save the whole row   *)
(* and then tell the sockets in the room what they saved; neither locks.   *)
(* The attachment is a file on the storage that the row links.             *)
(*                                                                         *)
(* A message stands for its row and its upload.  Its text is left out, and *)
(* with it replies and forwards, which only copy or point to text.  A      *)
(* user's sockets are seen as one, which hears each broadcast at once.     *)
(* The group's creator is a member for as long as there is the group; a    *)
(* group that a stale rename inserts again (GroupRoles) is left out.       *)
(***************************************************************************)
EXTENDS Naturals, FiniteSets

CONSTANTS
    Users,
    Creator,     \* of the group, who stays a member
    Quitters,    \* a bound: users who may delete their account
    Messages,
    Procs,       \* workers that serve views and sockets
    Unsent,      \* no row yet
    Dropped,     \* the row went with its group
    Unseen       \* a screen does not show the message

Rows == [sender : Users, pinned : BOOLEAN, deleted : BOOLEAN, file : BOOLEAN]

ASSUME ChatConstants ==
    /\ Creator \in Users /\ Quitters \subseteq Users
    /\ Unsent \notin Rows /\ Dropped \notin Rows /\ Unseen \notin Rows
    /\ Unsent # Dropped

VARIABLES
    account,    \* users' accounts: "cut off" when the sockets heard of the deletion
    members,    \* users in the group
    dialing,    \* users whose socket is about to open
    room,       \* users with an open socket
    rows,       \* GroupMessage rows
    files,      \* messages whose upload is on the storage
    screen,     \* what each socket was last told of each message
    request,    \* what each worker carries
    overtaken,  \* history: messages saved from a read another save had outdated
    halfErased, \* history: messages whose worker died between file and row
    kept,       \* history: messages deleted over a socket, with their upload left there
    untold      \* messages of which the sockets were told last something outdated, or nothing

chat == <<rows, files, screen, request, overtaken, halfErased, kept, untold>>

vars == <<account, members, dialing, room, chat>>

Idle == [op |-> "idle"]

Edits == {"pin", "unpin", "delete", "erase"}

(* "tell": the row is saved and not yet announced. *)
Requests == {Idle} \union [op : {"post", "tell"} \union Edits, id : Messages, row : Rows]

Sent(m) == rows[m] \notin {Unsent, Dropped}

Shows(u, m) == screen[u][m] # Unseen

Visible(m) == Sent(m) /\ ~rows[m].deleted

Active(u) == account[u] = "active"

GroupExists == Creator \in members

Take(p, op, m, row) ==
    /\ request[p] = Idle
    /\ request' = [request EXCEPT ![p] = [op |-> op, id |-> m, row |-> row]]

Done(p) == request' = [request EXCEPT ![p] = Idle]

Blank == [m \in Messages |-> Unseen]

Init ==
    /\ account = [u \in Users |-> "active"]
    /\ members = Users
    /\ dialing = {}
    /\ room = {}
    /\ rows = [m \in Messages |-> Unsent]
    /\ files = {}
    /\ screen = [u \in Users |-> Blank]
    /\ request = [p \in Procs |-> Idle]
    /\ overtaken = {}
    /\ halfErased = {}
    /\ kept = {}
    /\ untold = {}

-----------------------------------------------------------------------------
(* Members come and go; a socket that is open is not closed. *)
Join(u) ==
    /\ GroupExists /\ u \notin members
    /\ members' = members \union {u}
    /\ UNCHANGED <<account, dialing, room, chat>>

Leave(u) ==
    /\ u \in members \ {Creator}
    /\ members' = members \ {u}
    /\ UNCHANGED <<account, dialing, room, chat>>

(* GroupChatConsumer.connect: a member with an active account passes... *)
Dial(u) ==
    /\ Active(u) /\ u \in members \ (room \union dialing)
    /\ dialing' = dialing \union {u}
    /\ UNCHANGED <<account, members, room, chat>>

(* Mutated form: the account is not looked at again. *)
EnterUnchecked(u) ==
    /\ u \in dialing
    /\ dialing' = dialing \ {u}
    /\ room' = room \union {u}
    /\ UNCHANGED <<account, members, chat>>

(* ... and once in the user's inbox, where a deletion is announced, the socket
   looks at the account again before it joins the room. *)
Enter(u) ==
    /\ u \in dialing
    /\ dialing' = dialing \ {u}
    /\ room' = IF Active(u) THEN room \union {u} ELSE room
    /\ UNCHANGED <<account, members, chat>>

HangUp(us) ==
    /\ room' = room \ us
    /\ screen' = [u \in Users |-> IF u \in us THEN Blank ELSE screen[u]]

(* The client leaves, or sends from a deleted account (receive). *)
Disconnect(u) ==
    /\ u \in room
    /\ HangUp({u})
    /\ UNCHANGED <<account, members, dialing, rows, files, request, overtaken, halfErased, kept, untold>>

(* AccountDeletionView.delete: the account is saved as deleted... *)
DeleteAccount(u) ==
    /\ Active(u) /\ u \in Quitters
    /\ account' = [account EXCEPT ![u] = "deleted"]
    /\ UNCHANGED <<members, dialing, room, chat>>

(* ... and then announced in the user's inbox, which may fail. *)
CutOff(u) ==
    /\ account[u] = "deleted"
    /\ account' = [account EXCEPT ![u] = "cut off"]
    /\ HangUp({u})
    /\ UNCHANGED <<members, dialing, rows, files, request, overtaken, halfErased, kept, untold>>

(* GroupDetailView.delete: the sockets are warned, which closes those of deleted
   accounts, and the group goes with all its rows.  No upload is removed. *)
DeleteGroup ==
    /\ GroupExists /\ Active(Creator)
    /\ members' = {}
    /\ rows' = [m \in Messages |-> IF Sent(m) THEN Dropped ELSE rows[m]]
    /\ HangUp({u \in Users : ~Active(u)})
    /\ UNCHANGED <<account, dialing, files, request, overtaken, halfErased, kept, untold>>

-----------------------------------------------------------------------------
(* The view asks for membership, the consumer has asked when it connected. *)
Reaches(u) == Active(u) /\ u \in members \union room

Fresh(m) ==
    /\ rows[m] = Unsent /\ m \notin files
    /\ \A p \in Procs : request[p] # Idle => request[p].id # m

NewRow(u, file) == [sender |-> u, pinned |-> FALSE, deleted |-> FALSE, file |-> file]

(* GroupChatView.post and the consumer's send_message: an upload, which only
   the view accepts, is stored before the row is inserted. *)
Post(p, u, m, file) ==
    /\ Active(u) /\ GroupExists
    /\ u \in members \/ (u \in room /\ ~file)
    /\ Fresh(m)
    /\ files' = IF file THEN files \union {m} ELSE files
    /\ Take(p, "post", m, NewRow(u, file))
    /\ UNCHANGED <<account, members, dialing, room, rows, screen, overtaken, halfErased, kept, untold>>

(* patch with "pin" or "unpin", toggle_pin_message. *)
Pin(p, u, m, op) ==
    /\ Reaches(u) /\ Sent(m)
    /\ op \in {"pin", "unpin"}
    /\ Take(p, op, m, rows[m])
    /\ UNCHANGED <<account, members, dialing, room, rows, files, screen, overtaken, halfErased, kept, untold>>

MayDelete(u, m) == u = rows[m].sender \/ u = Creator

(* delete_message of the consumer, which leaves the attachment; patch with
   "delete" of a message that has none. *)
Delete(p, u, m) ==
    /\ Active(u) /\ Sent(m)
    /\ u \in room \/ (u \in members /\ ~rows[m].file)
    /\ MayDelete(u, m)
    /\ Take(p, "delete", m, rows[m])
    /\ UNCHANGED <<account, members, dialing, room, rows, files, screen, overtaken, halfErased, kept, untold>>

(* Mutated form: the file goes before the sender is looked at. *)
EraseFileFirst(p, u, m) ==
    /\ Active(u) /\ u \in members /\ Sent(m) /\ rows[m].file
    /\ files' = files \ {m}
    /\ IF MayDelete(u, m) THEN Take(p, "erase", m, rows[m]) ELSE UNCHANGED request
    /\ UNCHANGED <<account, members, dialing, room, rows, screen, overtaken, halfErased, kept, untold>>

(* Mutated form: the link is dropped and the file forgotten. *)
EraseLinkOnly(p, u, m) ==
    /\ Active(u) /\ u \in members /\ Sent(m) /\ rows[m].file
    /\ MayDelete(u, m)
    /\ Take(p, "erase", m, rows[m])
    /\ UNCHANGED <<account, members, dialing, room, rows, files, screen, overtaken, halfErased, kept, untold>>

(* patch with "delete": the file is removed at once, the row saved later. *)
Erase(p, u, m) ==
    /\ Active(u) /\ u \in members /\ Sent(m) /\ rows[m].file
    /\ MayDelete(u, m)
    /\ files' = files \ {m}
    /\ Take(p, "erase", m, rows[m])
    /\ UNCHANGED <<account, members, dialing, room, rows, screen, overtaken, halfErased, kept, untold>>

-----------------------------------------------------------------------------
(* Mutated form: deleting a deleted message brings it back. *)
EditedToggling(op, row) ==
    [row EXCEPT
        !.pinned  = IF op \in {"pin", "unpin"} THEN op = "pin" ELSE @,
        !.deleted = IF op \in {"delete", "erase"} THEN ~@ ELSE @,
        !.file    = @ /\ op # "erase"]

(* What a request makes of the row it has read. *)
Edited(op, row) ==
    [row EXCEPT
        !.pinned  = IF op \in {"pin", "unpin"} THEN op = "pin" ELSE @,
        !.deleted = @ \/ op \in {"delete", "erase"},
        !.file    = @ /\ op # "erase"]

(* save() writes every column as read, whatever the row is by now; the row of a
   group that is gone is refused (a Crash).  Only a socket deletes a message that
   has a file and leaves the file. *)
Save(p) ==
    LET op == request[p].op   id == request[p].id   row == request[p].row
    IN  /\ op \in {"post"} \union Edits /\ GroupExists
        /\ rows' = [rows EXCEPT ![id] = Edited(op, row)]
        /\ request' = [request EXCEPT ![p].op = "tell", ![p].row = Edited(op, row)]
        /\ overtaken' = IF op = "post" \/ rows[id] = row THEN overtaken
                        ELSE overtaken \union {id}
        /\ kept' = IF op = "delete" /\ row.file THEN kept \union {id} ELSE kept
        /\ UNCHANGED <<account, members, dialing, room, files, screen, halfErased, untold>>

(* Mutated form: a socket hears of a message once. *)
TellOnce(p) ==
    LET id == request[p].id   row == request[p].row
    IN  /\ request[p].op = "tell"
        /\ screen' = [u \in Users |->
               IF u \in room /\ ~Shows(u, id) THEN [screen[u] EXCEPT ![id] = row] ELSE screen[u]]
        /\ untold' = IF rows[id] = row THEN untold \ {id} ELSE untold \union {id}
        /\ Done(p)
        /\ UNCHANGED <<account, members, dialing, room, rows, files, overtaken, halfErased, kept>>

(* _broadcast_to_sockets, group_send and room_event: every socket in the room
   is told the row in the worker's hand; those of deleted accounts close. *)
Tell(p) ==
    LET id == request[p].id   row == request[p].row
    IN  /\ request[p].op = "tell"
        /\ room' = {u \in room : Active(u)}
        /\ screen' = [u \in Users |->
               IF u \in room' THEN [screen[u] EXCEPT ![id] = row] ELSE Blank]
        /\ untold' = IF rows[id] = row THEN untold \ {id} ELSE untold \union {id}
        /\ Done(p)
        /\ UNCHANGED <<account, members, dialing, rows, files, overtaken, halfErased, kept>>

(* A worker dies; the database or the channel layer fails it. *)
Crash(p) ==
    LET op == request[p].op   id == request[p].id
    IN  /\ request[p] # Idle
        /\ halfErased' = IF op = "erase" THEN halfErased \union {id} ELSE halfErased
        /\ untold' = IF op = "tell" THEN untold \union {id} ELSE untold
        /\ Done(p)
        /\ UNCHANGED <<account, members, dialing, room, rows, files, screen, overtaken, kept>>

Next ==
    \/ \E u \in Users :
           \/ Join(u) \/ Leave(u) \/ DeleteAccount(u) \/ CutOff(u)
           \/ Dial(u) \/ Enter(u) \/ Disconnect(u)
    \/ DeleteGroup
    \/ \E p \in Procs, u \in Users, m \in Messages :
           \/ \E file \in BOOLEAN : Post(p, u, m, file)
           \/ \E op \in {"pin", "unpin"} : Pin(p, u, m, op)
           \/ Delete(p, u, m) \/ Erase(p, u, m)
    \/ \E p \in Procs : Save(p) \/ Tell(p) \/ Crash(p)

Spec == Init /\ [][Next]_vars

-----------------------------------------------------------------------------
(* Rows and requests keep their types, and nothing is shown or edited that was
   not sent. *)
TypeOK ==
    /\ account \in [Users -> {"active", "deleted", "cut off"}]
    /\ members \subseteq Users /\ dialing \subseteq Users /\ room \subseteq Users
    /\ rows \in [Messages -> Rows \union {Unsent, Dropped}]
    /\ files \subseteq Messages
    /\ screen \in [Users -> [Messages -> Rows \union {Unseen}]]
    /\ request \in [Procs -> Requests]
    /\ overtaken \union halfErased \union kept \union untold \subseteq Messages
    /\ \A m \in Messages : rows[m] = Unsent =>
          /\ \A u \in Users : ~Shows(u, m)
          /\ \A p \in Procs : request[p] # Idle /\ request[p].id = m => request[p].op = "post"

(* A visible message links a file that is there, while no worker is between
   removing one and saving the row.  Only a worker that died there
   (GroupChatView.patch removes the file first) or the save of an outdated read
   (pin and delete lock nothing) leaves a broken link. *)
LinksWork ==
    \A m \in Messages : Visible(m) /\ rows[m].file =>
        \/ m \in files
        \/ m \in overtaken \union halfErased
        \/ \E p \in Procs : request[p].op = "erase" /\ request[p].id = m

(* Every file on the storage is the attachment of a visible message, however
   edits interleave and workers die: who deletes a message over HTTP removes its
   file (groups/tests.py:185).  What is left behind is the upload of a post that
   died before its row was inserted, that of a message deleted over a socket
   (delete_message does not touch it), and those of a group that was deleted. *)
NoFileIsForgotten ==
    \A m \in files :
        \/ Visible(m) /\ rows[m].file
        \/ rows[m] \in {Unsent, Dropped}
        \/ m \in kept

(* What a socket in the room was last told of a message is the row, unless a
   save is still to be announced, or was announced late or never (broadcasts come
   in no order but that of the workers), or the group was deleted, of which its
   open sockets are only warned. *)
ScreensAgree ==
    \A u \in room, m \in Messages : Shows(u, m) =>
        \/ screen[u][m] = rows[m] \/ rows[m] = Dropped
        \/ m \in untold
        \/ \E p \in Procs : request[p].op = "tell" /\ request[p].id = m

(* Once a deletion was announced, the account has no open socket, though one may
   have been opening meanwhile (connect joins the inbox before it looks at the
   account for the last time). *)
DeletedAccountsAreCutOff == \A u \in room : account[u] # "cut off"

(* A deleted message stays deleted but for the save of an outdated read. *)
OnlyOutdatedSavesRestore ==
    [][\A m \in Messages : Sent(m) /\ rows[m].deleted =>
          ~Visible(m)' \/ m \in overtaken']_vars

=============================================================================
