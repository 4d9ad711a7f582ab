--------------------------- MODULE GroupChatProofs ---------------------------
(***************************************************************************)
(* Proofs about GroupChat, for any users, messages and workers.            *)
(***************************************************************************)
EXTENDS GroupChat, TLAPS

Types ==
    /\ account \in [Users -> {"active", "deleted", "cut off"}]
    /\ members \subseteq Users /\ dialing \subseteq Users /\ room \subseteq Users
    /\ rows \in [Messages -> Rows \union {Unsent, Dropped}]
    /\ files \subseteq Messages
    /\ screen \in [Users -> [Messages -> Rows \union {Unseen}]]
    /\ request \in [Procs -> Requests]
    /\ overtaken \subseteq Messages /\ halfErased \subseteq Messages
    /\ kept \subseteq Messages /\ untold \subseteq Messages

(* The row was inserted once, though it may have gone with its group. *)
Begun(m) == rows[m] # Unsent

(* A post is the first to touch its message, and the only one until it is
   saved; everything else is about a message that was sent. *)
PostsComeFirst ==
    \A p \in Procs : request[p] # Idle =>
        IF request[p].op = "post"
        THEN /\ ~Begun(request[p].id)
             /\ \A q \in Procs \ {p} : request[q] = Idle \/ request[q].id # request[p].id
        ELSE Begun(request[p].id)

(* What a worker will save links the file exactly as far as there is one, and
   is not deleted unless a socket has deleted the message. *)
HandsKnowFiles ==
    \A p \in Procs : request[p] # Idle =>
        /\ request[p].op # "tell" /\ request[p].id \in files =>
              /\ request[p].row.file /\ request[p].op # "erase"
              /\ request[p].row.deleted => request[p].id \in kept
        /\ request[p].op = "post" /\ request[p].row.file => request[p].id \in files

(* A file is linked by its row, be it deleted over a socket. *)
FilesLinked ==
    \A m \in files : Sent(m) => rows[m].file /\ (rows[m].deleted => m \in kept)

(* Nothing is on the screen of a socket that is not open, or of a message that
   was not sent. *)
ScreensAreOpen ==
    \A u \in Users, m \in Messages : Shows(u, m) => u \in room /\ Begun(m)

IInv ==
    /\ Types
    /\ PostsComeFirst
    /\ HandsKnowFiles
    /\ ScreensAreOpen
    /\ LinksWork
    /\ FilesLinked
    /\ ScreensAgree
    /\ DeletedAccountsAreCutOff

-----------------------------------------------------------------------------
LEMMA RequestFields ==
    ASSUME Types, NEW p \in Procs
    PROVE  /\ request[p] # Idle =>
                 /\ request[p].id \in Messages
                 /\ request[p].row \in Rows
                 /\ request[p].op \in {"post", "tell", "pin", "unpin", "delete", "erase"}
           /\ request[p] = Idle => request[p].op = "idle"
<1>1. request[p] \in Requests
  BY DEF Types
<1> QED  BY <1>1 DEF Requests, Idle, Edits

LEMMA RowsAreReal ==
    ASSUME NEW row \in Rows
    PROVE  row # Unsent /\ row # Dropped /\ row # Unseen
BY ChatConstants

LEMMA EditedRow ==
    ASSUME NEW row \in Rows, NEW op
    PROVE  /\ Edited(op, row) \in Rows
           /\ Edited(op, row).deleted = (row.deleted \/ op \in {"delete", "erase"})
           /\ Edited(op, row).file = (row.file /\ op # "erase")
BY DEF Rows, Edited

LEMMA TakenRequest ==
    ASSUME Types, NEW p \in Procs, NEW op \in {"post", "tell"} \union Edits, NEW m \in Messages,
           NEW row \in Rows, Take(p, op, m, row)
    PROVE  /\ request' \in [Procs -> Requests]
           /\ request[p] = Idle
           /\ request'[p] # Idle /\ request'[p].op = op /\ request'[p].id = m /\ request'[p].row = row
           /\ \A q \in Procs \ {p} : request'[q] = request[q]
<1> DEFINE c == [op |-> op, id |-> m, row |-> row]
<1>1. c \in Requests /\ c # Idle /\ c.op = op /\ c.id = m /\ c.row = row
  BY DEF Requests, Idle, Edits
<1>2. request[p] = Idle /\ request' = [request EXCEPT ![p] = c]
  BY DEF Take
<1> HIDE DEF c
<1> QED  BY <1>1, <1>2 DEF Types

LEMMA RequestDone ==
    ASSUME Types, NEW p \in Procs, Done(p)
    PROVE  /\ request' \in [Procs -> Requests]
           /\ request'[p] = Idle
           /\ \A q \in Procs \ {p} : request'[q] = request[q]
BY DEF Types, Done, Requests

LEMMA InitIInv == Init => IInv
<1> SUFFICES ASSUME Init PROVE IInv
  OBVIOUS
<1>1. Types
  BY DEF Init, Types, Requests, Blank
<1>2. \A m \in Messages : ~Begun(m) /\ ~Sent(m) /\ \A u \in Users : ~Shows(u, m)
  BY DEF Init, Begun, Sent, Shows, Blank
<1>3. PostsComeFirst /\ HandsKnowFiles
  BY DEF Init, PostsComeFirst, HandsKnowFiles
<1>4. ScreensAreOpen /\ LinksWork /\ FilesLinked /\ ScreensAgree
  BY <1>2 DEF Init, ScreensAreOpen, LinksWork, Visible, FilesLinked, ScreensAgree
<1>5. DeletedAccountsAreCutOff
  BY DEF Init, DeletedAccountsAreCutOff
<1> QED  BY <1>1, <1>3, <1>4, <1>5 DEF IInv

-----------------------------------------------------------------------------
(* Users come and go, accounts are deleted, sockets open and close: sockets
   that close are blank, and those that open belong to active accounts. *)
LEMMA SocketsMove ==
    ASSUME IInv, UNCHANGED <<rows, files, request, overtaken, halfErased, kept, untold>>,
           account' \in [Users -> {"active", "deleted", "cut off"}],
           members' \subseteq Users, dialing' \subseteq Users, room' \subseteq Users,
           \A u \in room' : account'[u] # "cut off",
           screen' \in [Users -> [Messages -> Rows \union {Unseen}]],
           \A u \in Users : \/ screen'[u] = screen[u] /\ (u \in room => u \in room')
                            \/ screen'[u] = Blank
    PROVE  IInv'
<1>1. Types'
  BY DEF IInv, Types
<1>2. (PostsComeFirst /\ HandsKnowFiles /\ LinksWork /\ FilesLinked)'
  BY DEF IInv, PostsComeFirst, HandsKnowFiles, LinksWork, FilesLinked, Visible, Sent, Begun
<1>3. \A u \in Users, m \in Messages :
          Shows(u, m)' => screen'[u] = screen[u] /\ Shows(u, m) /\ u \in room /\ u \in room' /\ Begun(m)
  BY DEF IInv, ScreensAreOpen, Shows, Blank
<1>4. (ScreensAreOpen /\ ScreensAgree)'
  <2>1. ScreensAreOpen'
    BY <1>3 DEF ScreensAreOpen, Begun
  <2>2. ASSUME NEW v \in room', NEW n \in Messages, Shows(v, n)'
        PROVE  (\/ screen[v][n] = rows[n] \/ rows[n] = Dropped
                \/ n \in untold
                \/ \E q \in Procs : request[q].op = "tell" /\ request[q].id = n)'
    <3>1. screen'[v] = screen[v] /\ Shows(v, n) /\ v \in room
      BY <1>3, <2>2
    <3> QED  BY <3>1 DEF IInv, ScreensAgree
  <2>3. ScreensAgree'
    BY <2>2 DEF ScreensAgree
  <2> QED  BY <2>1, <2>3
<1>5. DeletedAccountsAreCutOff'
  BY DEF DeletedAccountsAreCutOff
<1> QED  BY <1>1, <1>2, <1>4, <1>5 DEF IInv

LEMMA UsersStep ==
    ASSUME IInv, NEW u \in Users,
           \/ Join(u) \/ Leave(u) \/ DeleteAccount(u) \/ CutOff(u)
           \/ Dial(u) \/ Enter(u) \/ Disconnect(u)
    PROVE  IInv'
<1>1. Blank \in [Messages -> Rows \union {Unseen}]
  BY DEF Blank
<1>2. Types /\ \A v \in room : account[v] # "cut off"
  BY DEF IInv, DeletedAccountsAreCutOff
<1>3. CASE Join(u) \/ Leave(u) \/ Dial(u)
  BY <1>2, <1>3, SocketsMove DEF Join, Leave, Dial, chat, Types
<1>4. CASE DeleteAccount(u)
  BY <1>2, <1>4, SocketsMove DEF DeleteAccount, chat, Types
<1>5. CASE CutOff(u)
  BY <1>1, <1>2, <1>5, SocketsMove DEF CutOff, HangUp, Types
<1>6. CASE Enter(u)
  BY <1>2, <1>6, SocketsMove DEF Enter, Active, chat, Types
<1>7. CASE Disconnect(u)
  BY <1>1, <1>2, <1>7, SocketsMove DEF Disconnect, HangUp, Types
<1> QED  BY <1>3, <1>4, <1>5, <1>6, <1>7

-----------------------------------------------------------------------------
LEMMA PostStep ==
    ASSUME IInv, NEW p \in Procs, NEW u \in Users, NEW m \in Messages, NEW file \in BOOLEAN,
           Post(p, u, m, file)
    PROVE  IInv'
<1>1. PICK row \in Rows : row = NewRow(u, file)
  BY DEF NewRow, Rows
<1>2. row.file = file
  BY <1>1 DEF NewRow
<1>3. /\ ~Begun(m) /\ ~Sent(m) /\ m \notin files
      /\ \A q \in Procs : request[q] # Idle => request[q].id # m
      /\ files' = IF file THEN files \union {m} ELSE files
      /\ Take(p, "post", m, row)
      /\ UNCHANGED <<account, members, dialing, room, rows, screen, overtaken, halfErased, kept, untold>>
  BY <1>1 DEF Post, Fresh, Begun, Sent
<1>4. /\ request' \in [Procs -> Requests]
      /\ request[p] = Idle
      /\ request'[p] # Idle /\ request'[p].op = "post" /\ request'[p].id = m /\ request'[p].row = row
      /\ \A q \in Procs \ {p} : request'[q] = request[q]
  BY <1>3, TakenRequest DEF IInv
<1>5. Types'
  BY <1>3, <1>4 DEF IInv, Types
<1>6. \A n \in Messages : Sent(n)' = Sent(n) /\ Begun(n)' = Begun(n)
  BY <1>3 DEF Sent, Begun
<1>7. \A q \in Procs : request[q] # Idle => request[q].id \in Messages
  BY RequestFields DEF IInv
<1>8. PostsComeFirst'
  BY <1>3, <1>4, <1>6, <1>7 DEF IInv, PostsComeFirst
<1>9. HandsKnowFiles'
  BY <1>1, <1>2, <1>3, <1>4 DEF IInv, HandsKnowFiles, NewRow
<1>10. LinksWork'
  <2> SUFFICES ASSUME NEW n \in Messages, Visible(n)', rows'[n].file
               PROVE  (\/ n \in files
                       \/ n \in overtaken \union halfErased
                       \/ \E q \in Procs : request[q].op = "erase" /\ request[q].id = n)'
    BY DEF LinksWork
  <2>1. Visible(n) /\ rows[n].file
    BY <1>3 DEF Visible, Sent
  <2>2. CASE n \in files \/ n \in overtaken \union halfErased
    BY <1>3, <2>2
  <2>3. CASE \E q \in Procs : request[q].op = "erase" /\ request[q].id = n
    BY <1>4, <2>3 DEF Idle
  <2> QED  BY <2>1, <2>2, <2>3 DEF IInv, LinksWork
<1>11. FilesLinked'
  BY <1>3, <1>6 DEF IInv, Types, FilesLinked
<1>12. ScreensAreOpen'
  BY <1>3, <1>6 DEF IInv, ScreensAreOpen, Shows
<1>13. ScreensAgree'
  <2> SUFFICES ASSUME NEW v \in room, NEW n \in Messages, Shows(v, n)
               PROVE  (\/ screen[v][n] = rows[n] \/ rows[n] = Dropped
                       \/ n \in untold
                       \/ \E q \in Procs : request[q].op = "tell" /\ request[q].id = n)'
    BY <1>3 DEF ScreensAgree, Shows
  <2>1. CASE screen[v][n] = rows[n] \/ rows[n] = Dropped \/ n \in untold
    BY <1>3, <2>1
  <2>2. CASE \E q \in Procs : request[q].op = "tell" /\ request[q].id = n
    BY <1>4, <2>2 DEF Idle
  <2> QED  BY <2>1, <2>2 DEF IInv, ScreensAgree
<1>14. DeletedAccountsAreCutOff'
  BY <1>3 DEF IInv, DeletedAccountsAreCutOff
<1> QED  BY <1>5, <1>8, <1>9, <1>10, <1>11, <1>12, <1>13, <1>14 DEF IInv

(* A message that was sent is taken in hand as it is; "erase" has removed its
   file. *)
LEMMA EditTaken ==
    ASSUME IInv, NEW p \in Procs, NEW m \in Messages, NEW op \in Edits,
           Sent(m), Take(p, op, m, rows[m]),
           files' = IF op = "erase" THEN files \ {m} ELSE files,
           UNCHANGED <<account, members, dialing, room, rows, screen, overtaken, halfErased, kept, untold>>
    PROVE  IInv'
<1>1. PICK row \in Rows : row = rows[m]
  BY DEF IInv, Types, Sent
<1>2. op # "post" /\ op # "tell" /\ op \in {"post", "tell"} \union Edits
  BY DEF Edits
<1>3. /\ request' \in [Procs -> Requests]
      /\ request[p] = Idle
      /\ request'[p] # Idle /\ request'[p].op = op /\ request'[p].id = m /\ request'[p].row = row
      /\ \A q \in Procs \ {p} : request'[q] = request[q]
  BY <1>1, <1>2, TakenRequest DEF IInv
<1>4. Types'
  BY <1>3 DEF IInv, Types
<1>5. \A n \in Messages : Sent(n)' = Sent(n) /\ Begun(n)' = Begun(n)
  BY DEF Sent, Begun
<1>6. \A q \in Procs : request[q] # Idle => request[q].id \in Messages
  BY RequestFields DEF IInv
<1>7. /\ Begun(m)
      /\ \A q \in Procs : request[q] # Idle /\ request[q].op = "post" => request[q].id # m
  BY DEF IInv, PostsComeFirst, Begun, Sent
<1>8. PostsComeFirst'
  BY <1>2, <1>3, <1>5, <1>6, <1>7 DEF IInv, PostsComeFirst
<1>9. HandsKnowFiles'
  BY <1>1, <1>2, <1>3, <1>7 DEF IInv, HandsKnowFiles, FilesLinked
<1>10. LinksWork'
  <2> SUFFICES ASSUME NEW n \in Messages, Visible(n)', rows'[n].file
               PROVE  (\/ n \in files
                       \/ n \in overtaken \union halfErased
                       \/ \E q \in Procs : request[q].op = "erase" /\ request[q].id = n)'
    BY DEF LinksWork
  <2>1. Visible(n) /\ rows[n].file
    BY DEF Visible, Sent
  <2>2. CASE op = "erase" /\ n = m
    BY <1>3, <2>2
  <2>3. CASE (n \in files /\ ~(op = "erase" /\ n = m)) \/ n \in overtaken \union halfErased
    BY <2>3
  <2>4. CASE \E q \in Procs : request[q].op = "erase" /\ request[q].id = n
    BY <1>3, <2>4 DEF Idle
  <2> QED  BY <2>1, <2>2, <2>3, <2>4 DEF IInv, LinksWork
<1>11. FilesLinked'
  BY <1>5 DEF IInv, Types, FilesLinked
<1>12. ScreensAreOpen'
  BY <1>5 DEF IInv, ScreensAreOpen, Shows
<1>13. ScreensAgree'
  <2> SUFFICES ASSUME NEW v \in room, NEW n \in Messages, Shows(v, n)
               PROVE  (\/ screen[v][n] = rows[n] \/ rows[n] = Dropped
                       \/ n \in untold
                       \/ \E q \in Procs : request[q].op = "tell" /\ request[q].id = n)'
    BY DEF ScreensAgree, Shows
  <2>1. CASE screen[v][n] = rows[n] \/ rows[n] = Dropped \/ n \in untold
    BY <2>1
  <2>2. CASE \E q \in Procs : request[q].op = "tell" /\ request[q].id = n
    BY <1>3, <2>2 DEF Idle
  <2> QED  BY <2>1, <2>2 DEF IInv, ScreensAgree
<1>14. DeletedAccountsAreCutOff'
  BY DEF IInv, DeletedAccountsAreCutOff
<1> QED  BY <1>4, <1>8, <1>9, <1>10, <1>11, <1>12, <1>13, <1>14 DEF IInv

LEMMA EditStep ==
    ASSUME IInv, NEW p \in Procs, NEW u \in Users, NEW m \in Messages,
           (\E op \in {"pin", "unpin"} : Pin(p, u, m, op)) \/ Delete(p, u, m) \/ Erase(p, u, m)
    PROVE  IInv'
<1>1. ASSUME NEW op \in {"pin", "unpin"}, Pin(p, u, m, op) PROVE IInv'
  BY <1>1, EditTaken DEF Pin, Edits
<1>2. CASE Delete(p, u, m)
  BY <1>2, EditTaken DEF Delete, Edits
<1>3. CASE Erase(p, u, m)
  BY <1>3, EditTaken DEF Erase, Edits
<1> QED  BY <1>1, <1>2, <1>3

-----------------------------------------------------------------------------
(* The saved row is either as the stored one was but for the edit, or the
   message has been overtaken. *)
LEMMA SaveStep ==
    ASSUME IInv, NEW p \in Procs, Save(p)
    PROVE  IInv'
<1>1. PICK op, id, row : op = request[p].op /\ id = request[p].id /\ row = request[p].row
  OBVIOUS
<1>2. request[p] # Idle /\ op # "tell" /\ op # "idle"
  BY <1>1 DEF Save, Idle, Edits
<1>3. id \in Messages /\ row \in Rows
  BY <1>1, <1>2, RequestFields DEF IInv
<1>4. PICK new \in Rows : new = Edited(op, row)
  BY <1>3, EditedRow
<1>5. /\ new.deleted = (row.deleted \/ op \in {"delete", "erase"})
      /\ new.file = (row.file /\ op # "erase")
      /\ new # Unsent /\ new # Dropped
  BY <1>3, <1>4, EditedRow, RowsAreReal
<1>6. /\ rows' = [rows EXCEPT ![id] = new]
      /\ request' = [request EXCEPT ![p].op = "tell", ![p].row = new]
      /\ overtaken' = IF op = "post" \/ rows[id] = row THEN overtaken ELSE overtaken \union {id}
      /\ kept' = IF op = "delete" /\ row.file THEN kept \union {id} ELSE kept
      /\ UNCHANGED <<account, members, dialing, room, files, screen, halfErased, untold>>
  BY <1>1, <1>4 DEF Save
<1>7. PICK c \in Requests : c = [request[p] EXCEPT !.op = "tell", !.row = new]
  <2>1. request[p] \in [op : {"post", "tell"} \union Edits, id : Messages, row : Rows]
    BY <1>2 DEF IInv, Types, Requests
  <2> QED  BY <2>1 DEF Requests
<1>8. c # Idle /\ c.op = "tell" /\ c.id = id /\ c.row = new
  <2>1. request[p] \in [op : {"post", "tell"} \union Edits, id : Messages, row : Rows]
    BY <1>2 DEF IInv, Types, Requests
  <2> QED  BY <1>1, <1>7, <2>1 DEF Idle
<1>9. request' = [request EXCEPT ![p] = c]
  BY <1>6, <1>7
<1>10. request'[p] = c /\ \A q \in Procs \ {p} : request'[q] = request[q]
  BY <1>9 DEF IInv, Types
<1>11. rows'[id] = new /\ \A n \in Messages \ {id} : rows'[n] = rows[n]
  BY <1>3, <1>6 DEF IInv, Types
<1>12. Types'
  BY <1>3, <1>6, <1>7, <1>9 DEF IInv, Types
<1>13. \A n \in Messages : (Sent(n)' <=> Sent(n) \/ n = id) /\ (Begun(n)' <=> Begun(n) \/ n = id)
  BY <1>5, <1>11 DEF Sent, Begun
<1>14. \A q \in Procs : request[q] # Idle => request[q].id \in Messages
  BY RequestFields DEF IInv
<1>15. \A q \in Procs \ {p} : request[q] # Idle /\ request[q].op = "post" => request[q].id # id
  BY <1>1, <1>2 DEF IInv, PostsComeFirst
<1>16. PostsComeFirst'
  BY <1>3, <1>8, <1>10, <1>13, <1>14, <1>15 DEF IInv, PostsComeFirst
<1>17. HandsKnowFiles'
  <2> SUFFICES ASSUME NEW q \in Procs, request'[q] # Idle
               PROVE  /\ request'[q].op # "tell" /\ request'[q].id \in files =>
                            /\ request'[q].row.file /\ request'[q].op # "erase"
                            /\ request'[q].row.deleted => request'[q].id \in kept'
                      /\ request'[q].op = "post" /\ request'[q].row.file => request'[q].id \in files
    BY <1>6 DEF HandsKnowFiles
  <2>1. CASE q = p
    BY <1>8, <1>10, <2>1
  <2>2. CASE q # p
    <3>1. files' = files /\ \A n \in kept : n \in kept'
      BY <1>6
    <3>2. request'[q] = request[q]
      BY <1>10, <2>2
    <3> QED  BY <3>1, <3>2 DEF IInv, HandsKnowFiles
  <2> QED  BY <2>1, <2>2
<1>18. LinksWork'
  <2> SUFFICES ASSUME NEW n \in Messages, Visible(n)', rows'[n].file
               PROVE  (\/ n \in files
                       \/ n \in overtaken \union halfErased
                       \/ \E q \in Procs : request[q].op = "erase" /\ request[q].id = n)'
    BY DEF LinksWork
  <2>1. ASSUME Visible(n), rows[n].file, n # id \/ op # "erase"
        PROVE  (\/ n \in files
                \/ n \in overtaken \union halfErased
                \/ \E q \in Procs : request[q].op = "erase" /\ request[q].id = n)'
    <3>1. CASE n \in files \/ n \in overtaken \union halfErased
      BY <1>6, <3>1
    <3>2. CASE \E q \in Procs : request[q].op = "erase" /\ request[q].id = n
      BY <1>1, <1>10, <2>1, <3>2
    <3> QED  BY <2>1, <3>1, <3>2 DEF IInv, LinksWork
  <2>2. CASE n # id
    BY <1>11, <2>1, <2>2 DEF Visible, Sent
  <2>3. CASE n = id /\ op = "post"
    <3>1. row.file
      BY <1>5, <1>11, <2>3
    <3> QED  BY <1>1, <1>2, <1>6, <2>3, <3>1 DEF IInv, HandsKnowFiles
  <2>4. CASE n = id /\ op # "post" /\ rows[id] = row
    <3>1. ~row.deleted /\ row.file /\ op # "erase"
      BY <1>5, <1>11, <2>4 DEF Visible
    <3>2. Visible(n) /\ rows[n].file
      BY <1>3, <2>4, <3>1, RowsAreReal DEF Visible, Sent
    <3> QED  BY <2>1, <3>1, <3>2
  <2>5. CASE n = id /\ op # "post" /\ rows[id] # row
    BY <1>6, <2>5
  <2> QED  BY <2>2, <2>3, <2>4, <2>5
<1>19. FilesLinked'
  <2>1. id \in files => /\ row.file /\ op # "erase"
                        /\ row.deleted => id \in kept
    BY <1>1, <1>2 DEF IInv, HandsKnowFiles
  <2>2. id \in files => new.file /\ (new.deleted => id \in kept')
    BY <1>5, <1>6, <2>1
  <2> QED  BY <1>6, <1>11, <1>13, <2>2 DEF IInv, Types, FilesLinked
<1>20. ScreensAreOpen'
  BY <1>6, <1>13 DEF IInv, ScreensAreOpen, Shows
<1>21. ScreensAgree'
  <2> SUFFICES ASSUME NEW v \in room, NEW n \in Messages, Shows(v, n)
               PROVE  (\/ screen[v][n] = rows[n] \/ rows[n] = Dropped
                       \/ n \in untold
                       \/ \E q \in Procs : request[q].op = "tell" /\ request[q].id = n)'
    BY <1>6 DEF ScreensAgree, Shows
  <2>1. CASE n = id
    BY <1>8, <1>10, <2>1
  <2>2. CASE n # id /\ (screen[v][n] = rows[n] \/ rows[n] = Dropped \/ n \in untold)
    BY <1>6, <1>11, <2>2
  <2>3. CASE \E q \in Procs : request[q].op = "tell" /\ request[q].id = n
    BY <1>1, <1>2, <1>10, <2>3
  <2> QED  BY <2>1, <2>2, <2>3 DEF IInv, ScreensAgree
<1>22. DeletedAccountsAreCutOff'
  BY <1>6 DEF IInv, DeletedAccountsAreCutOff
<1> QED  BY <1>12, <1>16, <1>17, <1>18, <1>19, <1>20, <1>21, <1>22 DEF IInv

(* A request that ends, told or not. *)
LEMMA RequestEnds ==
    ASSUME IInv, NEW p \in Procs, Done(p), UNCHANGED <<rows, files, kept>>
    PROVE  /\ request' \in [Procs -> Requests]
           /\ request'[p] = Idle
           /\ \A q \in Procs \ {p} : request'[q] = request[q]
           /\ (PostsComeFirst /\ HandsKnowFiles /\ FilesLinked)'
<1>1. /\ request' \in [Procs -> Requests]
      /\ request'[p] = Idle
      /\ \A q \in Procs \ {p} : request'[q] = request[q]
  BY RequestDone DEF IInv
<1>2. PostsComeFirst'
  BY <1>1 DEF IInv, PostsComeFirst, Begun
<1>3. HandsKnowFiles'
  BY <1>1 DEF IInv, HandsKnowFiles
<1>4. FilesLinked'
  BY DEF IInv, Types, FilesLinked, Sent
<1> QED  BY <1>1, <1>2, <1>3, <1>4

LEMMA TellStep ==
    ASSUME IInv, NEW p \in Procs, Tell(p)
    PROVE  IInv'
<1>1. PICK id, row : id = request[p].id /\ row = request[p].row
  OBVIOUS
<1>2. request[p] # Idle /\ request[p].op = "tell"
  BY DEF Tell, Idle
<1>3. id \in Messages /\ row \in Rows /\ Begun(id)
  BY <1>1, <1>2, RequestFields DEF IInv, PostsComeFirst
<1>4. /\ room' = {u \in room : Active(u)}
      /\ screen' = [u \in Users |->
             IF u \in room' THEN [screen[u] EXCEPT ![id] = row] ELSE Blank]
      /\ untold' = IF rows[id] = row THEN untold \ {id} ELSE untold \union {id}
      /\ Done(p)
      /\ UNCHANGED <<account, members, dialing, rows, files, overtaken, halfErased, kept>>
  BY <1>1 DEF Tell
<1>5. /\ request' \in [Procs -> Requests]
      /\ request'[p] = Idle
      /\ \A q \in Procs \ {p} : request'[q] = request[q]
      /\ (PostsComeFirst /\ HandsKnowFiles /\ FilesLinked)'
  BY <1>4, RequestEnds
<1>6. \A u \in Users : screen[u] \in [Messages -> Rows \union {Unseen}]
  BY DEF IInv, Types
<1>7. screen' \in [Users -> [Messages -> Rows \union {Unseen}]]
  BY <1>3, <1>4, <1>6 DEF Blank
<1>8. Types'
  BY <1>3, <1>4, <1>5, <1>7 DEF IInv, Types
<1>9. \A u \in Users, n \in Messages : Shows(u, n)' =>
          /\ u \in room /\ u \in room'
          /\ IF n = id THEN screen'[u][n] = row ELSE screen'[u][n] = screen[u][n] /\ Shows(u, n)
  BY <1>4, <1>6 DEF Shows, Blank
<1>10. ScreensAreOpen'
  BY <1>3, <1>4, <1>9 DEF IInv, ScreensAreOpen, Begun
<1>11. ScreensAgree'
  <2> SUFFICES ASSUME NEW v \in room', NEW n \in Messages, Shows(v, n)'
               PROVE  (\/ screen[v][n] = rows[n] \/ rows[n] = Dropped
                       \/ n \in untold
                       \/ \E q \in Procs : request[q].op = "tell" /\ request[q].id = n)'
    BY DEF ScreensAgree
  <2>1. v \in Users /\ v \in room
    BY <1>4 DEF IInv, Types
  <2>2. CASE n = id
    BY <1>4, <1>9, <2>1, <2>2
  <2>3. CASE n # id
    <3>1. screen'[v][n] = screen[v][n] /\ Shows(v, n)
      BY <1>9, <2>1, <2>3
    <3>2. CASE screen[v][n] = rows[n] \/ rows[n] = Dropped \/ n \in untold
      BY <1>4, <2>3, <3>1, <3>2
    <3>3. CASE \E q \in Procs : request[q].op = "tell" /\ request[q].id = n
      BY <1>1, <1>5, <2>3, <3>3
    <3> QED  BY <2>1, <3>1, <3>2, <3>3 DEF IInv, ScreensAgree
  <2> QED  BY <2>2, <2>3
<1>12. LinksWork'
  <2> SUFFICES ASSUME NEW n \in Messages, Visible(n)', rows'[n].file
               PROVE  (\/ n \in files
                       \/ n \in overtaken \union halfErased
                       \/ \E q \in Procs : request[q].op = "erase" /\ request[q].id = n)'
    BY DEF LinksWork
  <2>1. Visible(n) /\ rows[n].file
    BY <1>4 DEF Visible, Sent
  <2>2. CASE \E q \in Procs : request[q].op = "erase" /\ request[q].id = n
    BY <1>2, <1>5, <2>2
  <2> QED  BY <1>4, <2>1, <2>2 DEF IInv, LinksWork
<1>13. DeletedAccountsAreCutOff'
  BY <1>4 DEF IInv, DeletedAccountsAreCutOff
<1> QED  BY <1>5, <1>8, <1>10, <1>11, <1>12, <1>13 DEF IInv

LEMMA CrashStep ==
    ASSUME IInv, NEW p \in Procs, Crash(p)
    PROVE  IInv'
<1>1. PICK op, id : op = request[p].op /\ id = request[p].id
  OBVIOUS
<1>2. /\ request[p] # Idle
      /\ halfErased' = IF op = "erase" THEN halfErased \union {id} ELSE halfErased
      /\ untold' = IF op = "tell" THEN untold \union {id} ELSE untold
      /\ Done(p)
      /\ UNCHANGED <<account, members, dialing, room, rows, files, screen, overtaken, kept>>
  BY <1>1 DEF Crash
<1>3. id \in Messages
  BY <1>1, <1>2, RequestFields DEF IInv
<1>4. /\ request' \in [Procs -> Requests]
      /\ request'[p] = Idle
      /\ \A q \in Procs \ {p} : request'[q] = request[q]
      /\ (PostsComeFirst /\ HandsKnowFiles /\ FilesLinked)'
  BY <1>2, RequestEnds
<1>5. Types'
  BY <1>2, <1>3, <1>4 DEF IInv, Types
<1>6. LinksWork'
  <2> SUFFICES ASSUME NEW n \in Messages, Visible(n)', rows'[n].file
               PROVE  (\/ n \in files
                       \/ n \in overtaken \union halfErased
                       \/ \E q \in Procs : request[q].op = "erase" /\ request[q].id = n)'
    BY DEF LinksWork
  <2>1. Visible(n) /\ rows[n].file
    BY <1>2 DEF Visible, Sent
  <2>2. CASE \E q \in Procs : request[q].op = "erase" /\ request[q].id = n
    BY <1>1, <1>2, <1>4, <2>2
  <2> QED  BY <1>2, <2>1, <2>2 DEF IInv, LinksWork
<1>7. ScreensAgree'
  <2> SUFFICES ASSUME NEW v \in room, NEW n \in Messages, Shows(v, n)
               PROVE  (\/ screen[v][n] = rows[n] \/ rows[n] = Dropped
                       \/ n \in untold
                       \/ \E q \in Procs : request[q].op = "tell" /\ request[q].id = n)'
    BY <1>2 DEF ScreensAgree, Shows
  <2>1. CASE \E q \in Procs : request[q].op = "tell" /\ request[q].id = n
    BY <1>1, <1>2, <1>4, <2>1
  <2> QED  BY <1>2, <2>1 DEF IInv, ScreensAgree
<1>8. (ScreensAreOpen /\ DeletedAccountsAreCutOff)'
  BY <1>2 DEF IInv, ScreensAreOpen, DeletedAccountsAreCutOff, Shows, Begun
<1> QED  BY <1>4, <1>5, <1>6, <1>7, <1>8 DEF IInv

(* The rows go, and sockets of deleted accounts close. *)
LEMMA DeleteGroupStep ==
    ASSUME IInv, DeleteGroup
    PROVE  IInv'
<1>1. /\ members' = {}
      /\ rows' = [m \in Messages |-> IF Sent(m) THEN Dropped ELSE rows[m]]
      /\ room' = room \ {u \in Users : ~Active(u)}
      /\ screen' = [u \in Users |-> IF ~Active(u) THEN Blank ELSE screen[u]]
      /\ UNCHANGED <<account, dialing, files, request, overtaken, halfErased, kept, untold>>
  BY DEF DeleteGroup, HangUp
<1>2. \A m \in Messages : rows'[m] \in {Unsent, Dropped} /\ Begun(m)' = Begun(m) /\ ~Sent(m)'
  BY <1>1, ChatConstants DEF Begun, Sent
<1>3. Types'
  BY <1>1 DEF IInv, Types, Blank
<1>4. PostsComeFirst'
  <2>1. \A q \in Procs : request[q] # Idle => request[q].id \in Messages
    BY RequestFields DEF IInv
  <2> QED  BY <1>1, <1>2, <2>1 DEF IInv, PostsComeFirst
<1>5. (HandsKnowFiles /\ LinksWork /\ FilesLinked)'
  <2>1. HandsKnowFiles'
    BY <1>1 DEF IInv, HandsKnowFiles
  <2>2. LinksWork'
    BY <1>2 DEF LinksWork, Visible
  <2>3. FilesLinked'
    BY <1>1, <1>2 DEF IInv, Types, FilesLinked
  <2> QED  BY <2>1, <2>2, <2>3
<1>6. \A u \in Users, m \in Messages : Shows(u, m)' => u \in room' /\ Shows(u, m) /\ Begun(m)
  BY <1>1 DEF IInv, ScreensAreOpen, Shows, Blank
<1>7. (ScreensAreOpen /\ ScreensAgree)'
  <2>1. ScreensAreOpen'
    BY <1>2, <1>6 DEF ScreensAreOpen
  <2>2. ASSUME NEW v \in room', NEW n \in Messages, Shows(v, n)'
        PROVE  rows'[n] = Dropped
    <3>1. v \in Users
      BY <1>3 DEF Types
    <3>2. Begun(n)
      BY <1>6, <2>2, <3>1
    <3> QED  BY <1>2, <3>2 DEF Begun
  <2>3. ScreensAgree'
    BY <2>2 DEF ScreensAgree
  <2> QED  BY <2>1, <2>3
<1>8. DeletedAccountsAreCutOff'
  BY <1>1 DEF IInv, DeletedAccountsAreCutOff
<1> QED  BY <1>3, <1>4, <1>5, <1>7, <1>8 DEF IInv

LEMMA InvariantIInv == Spec => []IInv
<1>1. IInv /\ [Next]_vars => IInv'
  <2> SUFFICES ASSUME IInv, [Next]_vars PROVE IInv'
    OBVIOUS
  <2>1. ASSUME UNCHANGED vars PROVE IInv'
    BY <2>1, SocketsMove DEF vars, chat, IInv, Types, DeletedAccountsAreCutOff
  <2>2. ASSUME Next PROVE IInv'
    BY <2>2, UsersStep, DeleteGroupStep, PostStep, EditStep, SaveStep, TellStep, CrashStep DEF Next
  <2> QED  BY <2>1, <2>2
<1> QED  BY <1>1, InitIInv, PTL DEF Spec

-----------------------------------------------------------------------------
(* For any users, messages and workers: rows and requests keep their types, and
   nothing is shown or edited that was not sent. *)
THEOREM TypeCorrect == Spec => []TypeOK
<1>1. IInv => TypeOK
  BY DEF IInv, Types, PostsComeFirst, ScreensAreOpen, Begun, TypeOK
<1> QED  BY <1>1, InvariantIInv, PTL

(* A visible message's attachment is there, but for workers that are or died
   between file and row, and saves of outdated reads. *)
THEOREM AttachmentsAreThere == Spec => []LinksWork
<1>1. IInv => LinksWork
  BY DEF IInv
<1> QED  BY <1>1, InvariantIInv, PTL

(* No sequence of deletions, saves and crashes leaves a file behind that no
   visible message links, but for posts that die before their row, messages
   deleted over a socket and groups that were deleted. *)
THEOREM FilesAreLinked == Spec => []NoFileIsForgotten
<1>1. IInv => NoFileIsForgotten
  BY DEF IInv, FilesLinked, NoFileIsForgotten, Visible, Sent
<1> QED  BY <1>1, InvariantIInv, PTL

(* Sockets show what is stored, but for announcements that are due, late or
   lost. *)
THEOREM SocketsShowTheRows == Spec => []ScreensAgree
<1>1. IInv => ScreensAgree
  BY DEF IInv
<1> QED  BY <1>1, InvariantIInv, PTL

(* No socket of an account outlives the announcement of its deletion. *)
THEOREM NoSocketOutlivesItsAccount == Spec => []DeletedAccountsAreCutOff
<1>1. IInv => DeletedAccountsAreCutOff
  BY DEF IInv
<1> QED  BY <1>1, InvariantIInv, PTL

(* Only the save of an outdated read brings a deleted message back. *)
THEOREM DeletionsLast == Spec => OnlyOutdatedSavesRestore
<1> DEFINE Lasts == \A m \in Messages : Sent(m) /\ rows[m].deleted =>
                        ~Visible(m)' \/ m \in overtaken'
<1>1. ASSUME IInv, UNCHANGED rows \/ \A m \in Messages : ~Sent(m)' PROVE Lasts
  BY <1>1 DEF Visible, Sent
<1>2. ASSUME IInv, NEW p \in Procs, Save(p) PROVE Lasts
  <2>1. PICK op, id, row : op = request[p].op /\ id = request[p].id /\ row = request[p].row
    OBVIOUS
  <2>2. request[p] # Idle /\ op # "tell"
    BY <1>2, <2>1 DEF Save, Idle, Edits
  <2>3. id \in Messages /\ row \in Rows
    BY <1>2, <2>1, <2>2, RequestFields DEF IInv
  <2>4. /\ rows' = [rows EXCEPT ![id] = Edited(op, row)]
        /\ overtaken' = IF op = "post" \/ rows[id] = row THEN overtaken ELSE overtaken \union {id}
    BY <1>2, <2>1 DEF Save
  <2>5. Edited(op, row).deleted = (row.deleted \/ op \in {"delete", "erase"})
    BY <2>3, EditedRow
  <2>6. op = "post" => ~Sent(id)
    BY <1>2, <2>1, <2>2 DEF IInv, PostsComeFirst, Begun, Sent
  <2> QED  BY <1>2, <2>3, <2>4, <2>5, <2>6 DEF IInv, Types, Visible, Sent
<1>3. ASSUME IInv, Next PROVE Lasts
  <2>1. UNCHANGED rows \/ DeleteGroup \/ \E p \in Procs : Save(p)
    BY <1>3 DEF Next, Join, Leave, DeleteAccount, CutOff, Dial, Enter, Disconnect, Post, Pin,
       Delete, Erase, Tell, Crash, chat
  <2>2. DeleteGroup => \A m \in Messages : ~Sent(m)'
    BY ChatConstants DEF DeleteGroup, Sent
  <2> HIDE DEF Lasts
  <2> QED  BY <1>1, <1>2, <1>3, <2>1, <2>2
<1>4. IInv /\ [Next]_vars => [Lasts]_vars
  <2> HIDE DEF Lasts
  <2> QED  BY <1>3
<1> QED  BY <1>4, InvariantIInv, PTL DEF Spec, OnlyOutdatedSavesRestore

=============================================================================
