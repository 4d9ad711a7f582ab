--------------------------- MODULE GroupRolesProofs ---------------------------
(***************************************************************************)
(* Proofs about GroupRoles, for any users, names and number of workers.    *)
(***************************************************************************)
EXTENDS GroupRoles, TLAPS

(* What a worker carries, by the kind of request. *)
LEMMA Carried ==
    ASSUME TypeOK, NEW p \in Procs
    PROVE  /\ request[p] \in Requests
           /\ request[p].op = "rename" => request[p].row \in GroupRows
           /\ request[p].op = "role" =>
                 /\ request[p].target \in Users
                 /\ request[p].row \in [id : 1..MaxRow, role : {"admin", "member"}]
           /\ request[p].op = "transfer" =>
                 /\ request[p].by \in Users /\ request[p].target \in Users
                 /\ request[p].name \in Names
<1>1. request[p] \in Requests
  BY DEF TypeOK
<1> QED  BY <1>1 DEF Requests, Idle

(* The type invariant needs to know more of the ids of membership rows: all
   were handed out, and an id some worker carries belongs to its target only,
   so that inserting the row again repeats nobody's id. *)
IdsIssued == \A u \in Users : IsMember(u) => membership[u].id <= lastRow

CarriedIds == \A p \in Procs : request[p].op = "role" =>
    /\ request[p].row.id <= lastRow
    /\ \A v \in Users :
          IsMember(v) /\ membership[v].id = request[p].row.id => v = request[p].target
    /\ \A q \in Procs :
          request[q].op = "role" /\ request[q].row.id = request[p].row.id
             => request[q].target = request[p].target

(* A transfer in hand is to somebody else. *)
TransfersMove == \A p \in Procs : request[p].op = "transfer" => request[p].target # request[p].by

IInv == TypeOK /\ IdsIssued /\ CarriedIds /\ TransfersMove

LEMMA InitIInv == Init => IInv
<1> SUFFICES ASSUME Init PROVE IInv
  OBVIOUS
<1>1. group \in GroupRows
  BY RolesConstants DEF Init, GroupRows
<1>2. membership \in [Users -> MembershipRows \union {NoRow}]
  BY RolesConstants DEF Init, MembershipRows, Roles
<1>3. \A u \in Users : IsMember(u) => u = Founder /\ membership[u].id = 1
  BY DEF Init, IsMember
<1> QED
  BY <1>1, <1>2, <1>3, RolesConstants
  DEF Init, IInv, TypeOK, IdsIssued, CarriedIds, TransfersMove, Requests, Idle

(* Steps that leave membership rows alone and at most free a worker or take a
   request that is not a change of role. *)
LEMMA IdsKept ==
    ASSUME IInv, UNCHANGED <<membership, lastRow>>,
           group' \in GroupRows \union {NoGroup},
           NEW p \in Procs, NEW r \in Requests, r.op # "role",
           r.op = "transfer" => r.target # r.by,
           request' = [request EXCEPT ![p] = r]
    PROVE  IInv'
<1>1. \A q \in Procs : request'[q] = IF q = p THEN r ELSE request[q]
  BY DEF IInv, TypeOK
<1> QED  BY <1>1 DEF IInv, TypeOK, IdsIssued, CarriedIds, TransfersMove, IsMember

(* Steps that take membership rows away, or change roles and not ids. *)
LEMMA IdsFewer ==
    ASSUME IInv, UNCHANGED lastRow,
           group' \in GroupRows \union {NoGroup},
           membership' \in [Users -> MembershipRows \union {NoRow}],
           \A u \in Users : membership'[u] # NoRow =>
               membership[u] # NoRow /\ membership'[u].id = membership[u].id,
           request' \in [Procs -> Requests],
           \A p \in Procs : request'[p] # Idle => request'[p] = request[p]
    PROVE  IInv'
<1>1. \A p \in Procs : request'[p].op \in {"role", "transfer"} => request'[p] = request[p]
  BY DEF Idle
<1>2. TypeOK' /\ IdsIssued'
  BY DEF IInv, TypeOK, IdsIssued, IsMember
<1>3. CarriedIds'
  BY <1>1 DEF IInv, CarriedIds, IsMember
<1>4. TransfersMove'
  BY <1>1 DEF IInv, TransfersMove
<1> QED  BY <1>2, <1>3, <1>4 DEF IInv

LEMMA EnterIInv ==
    ASSUME IInv, NEW u \in Users, Enter(u)
    PROVE  IInv'
<1> DEFINE row == [id |-> lastRow + 1, role |-> "member"]
<1>1. /\ row \in MembershipRows
      /\ row # NoRow
      /\ row.id = lastRow + 1
  BY RolesConstants DEF Enter, IInv, TypeOK, MembershipRows, Roles
<1>2. /\ membership' = [membership EXCEPT ![u] = row]
      /\ lastRow' = lastRow + 1
      /\ lastRow' \in 1..MaxRow
      /\ UNCHANGED <<group, request>>
      /\ lastRow \in Nat
  BY RolesConstants DEF Enter, IInv, TypeOK
<1> HIDE DEF row
<1>3. \A v \in Users : membership'[v] = IF v = u THEN row ELSE membership[v]
  BY <1>2 DEF IInv, TypeOK
<1>4. \A v \in Users : IsMember(v) => membership[v].id \in Nat /\ membership[v].id <= lastRow
  BY DEF IInv, TypeOK, IdsIssued, IsMember, MembershipRows
<1>5. \A p \in Procs : request[p].op = "role" =>
         request[p].row.id \in Nat /\ request[p].row.id <= lastRow
  BY Carried DEF IInv, CarriedIds
<1>6. TypeOK'
  <2>1. membership' \in [Users -> MembershipRows \union {NoRow}]
    BY <1>1, <1>2 DEF IInv, TypeOK
  <2>2. \A v, w \in Users :
           IsMember(v)' /\ IsMember(w)' /\ membership'[v].id = membership'[w].id => v = w
    BY <1>1, <1>2, <1>3, <1>4 DEF IInv, TypeOK, IsMember
  <2> QED  BY <1>2, <2>1, <2>2 DEF IInv, TypeOK
<1>7. IdsIssued'
  BY <1>1, <1>2, <1>3, <1>4 DEF IdsIssued, IsMember
<1>8. CarriedIds'
  <2>1. \A p \in Procs, v \in Users :
           request[p].op = "role" /\ IsMember(v)' /\ membership'[v].id = request[p].row.id
             => v = request[p].target
    BY <1>1, <1>2, <1>3, <1>5 DEF IInv, CarriedIds, IsMember
  <2>2. \A p \in Procs : request[p].op = "role" => request[p].row.id <= lastRow + 1
    BY <1>2, <1>5
  <2> QED  BY <1>2, <2>1, <2>2 DEF IInv, CarriedIds
<1> QED  BY <1>2, <1>6, <1>7, <1>8 DEF IInv, TransfersMove

LEMMA BeginRoleIInv ==
    ASSUME IInv, NEW p \in Procs, NEW by \in Users, NEW u \in Users,
           NEW role \in {"admin", "member"}, BeginUpdateRole(p, by, u, role)
    PROVE  IInv'
<1> DEFINE row == [membership[u] EXCEPT !.role = role]
           r == [op |-> "role", target |-> u, row |-> row]
<1>1. membership[u] \in MembershipRows
  BY DEF BeginUpdateRole, IsMember, IInv, TypeOK
<1>2. /\ row \in [id : 1..MaxRow, role : {"admin", "member"}]
      /\ row.id = membership[u].id
  BY <1>1 DEF MembershipRows
<1>3. /\ request' = [request EXCEPT ![p] = r]
      /\ UNCHANGED <<group, membership, lastRow>>
      /\ IsMember(u)
  BY DEF BeginUpdateRole
<1> HIDE DEF row
<1>4. r \in Requests /\ r.op = "role" /\ r.target = u /\ r.row.id = membership[u].id
  BY <1>2 DEF Requests
<1> HIDE DEF r
<1>5. \A q \in Procs : request'[q] = IF q = p THEN r ELSE request[q]
  BY <1>3 DEF IInv, TypeOK
<1>6. TypeOK'
  BY <1>3, <1>4 DEF IInv, TypeOK, IsMember
<1>7. CarriedIds'
  <2>1. \A v \in Users : IsMember(v) /\ membership[v].id = r.row.id => v = u
    BY <1>3, <1>4 DEF IInv, TypeOK
  <2>2. \A q \in Procs : request[q].op = "role" /\ request[q].row.id = r.row.id
           => request[q].target = u
    BY <1>3, <1>4 DEF IInv, CarriedIds
  <2>3. r.row.id <= lastRow
    BY <1>3, <1>4 DEF IInv, IdsIssued
  <2> QED
    BY <1>3, <1>4, <1>5, <2>1, <2>2, <2>3 DEF IInv, CarriedIds, IsMember
<1>8. TransfersMove'
  BY <1>4, <1>5 DEF IInv, TransfersMove
<1> QED  BY <1>3, <1>6, <1>7, <1>8 DEF IInv, IdsIssued, IsMember

LEMMA CommitRoleIInv ==
    ASSUME IInv, NEW p \in Procs, CommitUpdateRole(p)
    PROVE  IInv'
<1> DEFINE r == request[p]
<1>1. /\ r.target \in Users
      /\ r.row \in MembershipRows
      /\ r.row # NoRow
      /\ r.op = "role"
  BY Carried, RolesConstants DEF CommitUpdateRole, IInv, MembershipRows, Roles
<1>2. /\ request' = [request EXCEPT ![p] = Idle]
      /\ UNCHANGED <<group, lastRow>>
      /\ membership' = membership \/ membership' = [membership EXCEPT ![r.target] = r.row]
  BY DEF CommitUpdateRole
<1>3. /\ Idle \in Requests /\ Idle.op # "role" /\ Idle.op # "transfer"
      /\ \A q \in Procs : request'[q] = IF q = p THEN Idle ELSE request[q]
  BY <1>2 DEF Requests, Idle, IInv, TypeOK
<1>4. CASE membership' = membership
  BY <1>2, <1>3, <1>4, IdsKept DEF IInv, TypeOK
<1>5. CASE membership' = [membership EXCEPT ![r.target] = r.row]
  <2>1. \A v \in Users : membership'[v] = IF v = r.target THEN r.row ELSE membership[v]
    BY <1>5 DEF IInv, TypeOK
  <2>2. \A v \in Users : IsMember(v) /\ membership[v].id = r.row.id => v = r.target
    BY <1>1 DEF IInv, CarriedIds
  <2>3. \A q \in Procs : request[q].op = "role" /\ request[q].row.id = r.row.id
           => request[q].target = r.target
    BY <1>1 DEF IInv, CarriedIds
  <2>4. r.row.id <= lastRow
    BY <1>1 DEF IInv, CarriedIds
  <2> HIDE DEF r
  <2>5. TypeOK'
    <3>1. membership' \in [Users -> MembershipRows \union {NoRow}]
      BY <1>1, <1>5 DEF IInv, TypeOK
    <3>2. \A v, w \in Users :
             IsMember(v)' /\ IsMember(w)' /\ membership'[v].id = membership'[w].id => v = w
      BY <2>1, <2>2 DEF IInv, TypeOK, IsMember
    <3>3. request' \in [Procs -> Requests]
      BY <1>2, <1>3 DEF IInv, TypeOK
    <3> QED  BY <1>2, <3>1, <3>2, <3>3 DEF IInv, TypeOK
  <2>6. IdsIssued'
    BY <1>2, <2>1, <2>4 DEF IInv, IdsIssued, IsMember
  <2>7. CarriedIds'
    BY <1>2, <1>3, <2>1, <2>3 DEF IInv, CarriedIds, IsMember
  <2>8. TransfersMove'
    BY <1>3 DEF IInv, TransfersMove
  <2> QED  BY <2>5, <2>6, <2>7, <2>8 DEF IInv
<1> QED  BY <1>2, <1>4, <1>5

LEMMA CommitTransferIInv ==
    ASSUME IInv, NEW p \in Procs, CommitTransfer(p)
    PROVE  IInv'
<1> DEFINE r == request[p]
<1>1. /\ r.by \in Users /\ r.target \in Users
      /\ [creator |-> r.target, name |-> r.name] \in GroupRows
  BY Carried DEF CommitTransfer, IInv, GroupRows
<1>2. request' \in [Procs -> Requests]
  BY DEF CommitTransfer, IInv, TypeOK, Requests
<1>3. \A q \in Procs : request'[q] # Idle => request'[q] = request[q]
  BY DEF CommitTransfer, IInv, TypeOK, Idle
<1>4. CASE ~(IsMember(r.by) /\ IsMember(r.target))
  BY <1>2, <1>3, <1>4, IdsFewer DEF CommitTransfer, IInv, TypeOK
<1>5. CASE IsMember(r.by) /\ IsMember(r.target)
  <2> DEFINE half == WithRole(membership, r.by, "admin")
  <2>1. /\ group' \in GroupRows
        /\ membership' = WithRole(half, r.target, "owner")
        /\ UNCHANGED lastRow
    BY <1>1, <1>5 DEF CommitTransfer
  <2>2. /\ half \in [Users -> MembershipRows \union {NoRow}]
        /\ \A u \in Users : half[u] # NoRow <=> membership[u] # NoRow
        /\ \A u \in Users : half[u] # NoRow => half[u].id = membership[u].id
    <3>1. membership[r.by] \in MembershipRows
      BY <1>1, <1>5 DEF IInv, TypeOK, IsMember
    <3>2. /\ [membership[r.by] EXCEPT !.role = "admin"] \in MembershipRows
          /\ [membership[r.by] EXCEPT !.role = "admin"].id = membership[r.by].id
      BY <3>1 DEF MembershipRows, Roles
    <3>3. NoRow \notin MembershipRows
      BY RolesConstants DEF MembershipRows, Roles
    <3>4. half = [membership EXCEPT ![r.by] = [membership[r.by] EXCEPT !.role = "admin"]]
      BY <1>1 DEF WithRole, IInv, TypeOK
    <3> QED  BY <1>1, <3>1, <3>2, <3>3, <3>4 DEF IInv, TypeOK
  <2> HIDE DEF half
  <2>3. /\ membership' \in [Users -> MembershipRows \union {NoRow}]
        /\ \A u \in Users : membership'[u] # NoRow =>
              membership[u] # NoRow /\ membership'[u].id = membership[u].id
    <3>1. half[r.target] \in MembershipRows
      BY <1>1, <1>5, <2>2 DEF IsMember
    <3>2. /\ [half[r.target] EXCEPT !.role = "owner"] \in MembershipRows
          /\ [half[r.target] EXCEPT !.role = "owner"].id = half[r.target].id
      BY <3>1 DEF MembershipRows, Roles
    <3>3. membership' = [half EXCEPT ![r.target] = [half[r.target] EXCEPT !.role = "owner"]]
      BY <1>1, <2>1, <2>2 DEF WithRole
    <3>4. NoRow \notin MembershipRows
      BY RolesConstants DEF MembershipRows, Roles
    <3> QED  BY <1>1, <2>2, <3>1, <3>2, <3>3, <3>4
  <2> QED  BY <1>2, <1>3, <2>1, <2>3, IdsFewer
<1> QED  BY <1>4, <1>5

LEMMA NextIInv == IInv /\ [Next]_vars => IInv'
<1> SUFFICES ASSUME IInv, [Next]_vars PROVE IInv'
  OBVIOUS
<1>1. ASSUME NEW u \in Users, JoinGroup(u) PROVE IInv'
  BY <1>1, EnterIInv DEF JoinGroup
<1>2. ASSUME NEW by \in Users, NEW u \in Users, AddGroupMember(by, u) PROVE IInv'
  BY <1>2, EnterIInv DEF AddGroupMember
<1>3. ASSUME NEW by \in Users, NEW u \in Users, RemoveGroupMember(by, u) PROVE IInv'
  <2>1. membership' \in [Users -> MembershipRows \union {NoRow}]
    BY <1>3 DEF RemoveGroupMember, IInv, TypeOK
  <2>2. \A v \in Users : membership'[v] # NoRow =>
           membership[v] # NoRow /\ membership'[v].id = membership[v].id
    BY <1>3 DEF RemoveGroupMember, IInv, TypeOK
  <2> QED  BY <1>3, <2>1, <2>2, IdsFewer DEF RemoveGroupMember, IInv, TypeOK
<1>4. ASSUME NEW p \in Procs, NEW by \in Users, NEW name \in Names, BeginRename(p, by, name)
      PROVE  IInv'
  <2> DEFINE row == [group EXCEPT !.name = name]
             r == [op |-> "rename", row |-> row]
  <2>1. row \in GroupRows
    BY <1>4 DEF BeginRename, IInv, TypeOK, GroupRows
  <2> HIDE DEF row
  <2>2. r \in Requests /\ r.op # "role" /\ (r.op = "transfer" => r.target # r.by)
    BY <2>1 DEF Requests
  <2>3. request' = [request EXCEPT ![p] = r] /\ UNCHANGED <<group, membership, lastRow>>
    BY <1>4 DEF BeginRename, row
  <2> HIDE DEF r
  <2> QED  BY <2>2, <2>3, IdsKept DEF IInv, TypeOK
<1>5. ASSUME NEW p \in Procs, NEW by \in Users, NEW u \in Users,
             NEW role \in {"admin", "member"}, BeginUpdateRole(p, by, u, role)
      PROVE  IInv'
  BY <1>5, BeginRoleIInv
<1>6. ASSUME NEW p \in Procs, NEW by \in Users, NEW u \in Users, BeginTransfer(p, by, u)
      PROVE  IInv'
  <2> DEFINE r == [op |-> "transfer", by |-> by, target |-> u, name |-> group.name]
  <2>1. group \in GroupRows
    BY <1>6 DEF BeginTransfer, IsOwner, IInv, TypeOK
  <2>2. r \in Requests /\ r.op # "role" /\ (r.op = "transfer" => r.target # r.by)
    BY <1>6, <2>1 DEF BeginTransfer, Requests, GroupRows
  <2>3. request' = [request EXCEPT ![p] = r] /\ UNCHANGED <<group, membership, lastRow>>
    BY <1>6 DEF BeginTransfer
  <2> HIDE DEF r
  <2> QED  BY <2>2, <2>3, IdsKept DEF IInv, TypeOK
<1>7. ASSUME NEW p \in Procs, NEW by \in Users, BeginDeleteGroup(p, by) PROVE IInv'
  <2> DEFINE r == [op |-> "delete"]
  <2>1. r \in Requests /\ r.op # "role" /\ (r.op = "transfer" => r.target # r.by)
    BY DEF Requests
  <2>2. request' = [request EXCEPT ![p] = r] /\ UNCHANGED <<group, membership, lastRow>>
    BY <1>7 DEF BeginDeleteGroup
  <2> HIDE DEF r
  <2> QED  BY <2>1, <2>2, IdsKept DEF IInv, TypeOK
<1>8. ASSUME NEW p \in Procs, CommitRename(p) PROVE IInv'
  <2>1. Idle \in Requests /\ Idle.op # "role" /\ Idle.op # "transfer"
    BY DEF Requests, Idle
  <2>2. group' \in GroupRows
    BY <1>8, Carried DEF CommitRename, IInv
  <2> QED  BY <1>8, <2>1, <2>2, IdsKept DEF CommitRename
<1>9. ASSUME NEW p \in Procs, CommitUpdateRole(p) PROVE IInv'
  BY <1>9, CommitRoleIInv
<1>10. ASSUME NEW p \in Procs, CommitTransfer(p) PROVE IInv'
  BY <1>10, CommitTransferIInv
<1>11. ASSUME NEW p \in Procs, CommitDeleteGroup(p) PROVE IInv'
  <2>1. request' \in [Procs -> Requests]
    BY <1>11 DEF CommitDeleteGroup, IInv, TypeOK, Requests
  <2>2. \A q \in Procs : request'[q] # Idle => request'[q] = request[q]
    BY <1>11 DEF CommitDeleteGroup, IInv, TypeOK, Idle
  <2> QED  BY <1>11, <2>1, <2>2, IdsFewer DEF CommitDeleteGroup
<1>12. CASE UNCHANGED vars
  BY <1>12 DEF vars, IInv, TypeOK, IdsIssued, CarriedIds, TransfersMove, IsMember
<1> QED
  BY <1>1, <1>2, <1>3, <1>4, <1>5, <1>6, <1>7, <1>8, <1>9, <1>10, <1>11, <1>12 DEF Next

(* The tables keep their types, and no two users share a membership row. *)
THEOREM TypeCorrect == Spec => []TypeOK
<1>1. IInv => TypeOK
  BY DEF IInv
<1> QED  BY <1>1, InitIInv, NextIInv, PTL DEF Spec

-----------------------------------------------------------------------------
(* How a step treats the two places that say who owns the group.  Commits of
   requests that still say what is so keep them in agreement. *)
Completes(p) == request[p].op # "idle" /\ request'[p] = Idle

(* The two role changes of a transfer between two members. *)
LEMMA TwoRolesSet ==
    ASSUME TypeOK, NEW by \in Users, NEW u \in Users, IsMember(by), IsMember(u), by # u,
           membership' = WithRole(WithRole(membership, by, "admin"), u, "owner")
    PROVE  \A v \in Users :
              /\ v # by /\ v # u => membership'[v] = membership[v]
              /\ v = by => membership'[v] # NoRow /\ membership'[v].role = "admin"
              /\ v = u => membership'[v] # NoRow /\ membership'[v].role = "owner"
<1> DEFINE half == WithRole(membership, by, "admin")
<1>1. membership[by] \in MembershipRows /\ membership[u] \in MembershipRows
  BY DEF TypeOK, IsMember
<1>2. NoRow \notin MembershipRows
  BY RolesConstants DEF MembershipRows, Roles
<1>3. /\ half \in [Users -> MembershipRows \union {NoRow}]
      /\ half[by] \in MembershipRows /\ half[by].role = "admin"
      /\ \A v \in Users : v # by => half[v] = membership[v]
  <2> DEFINE row == [membership[by] EXCEPT !.role = "admin"]
  <2>1. row \in MembershipRows /\ row.role = "admin"
    BY <1>1 DEF MembershipRows, Roles
  <2>2. half = [membership EXCEPT ![by] = row]
    BY DEF WithRole, TypeOK
  <2> HIDE DEF row, half
  <2> QED  BY <2>1, <2>2 DEF TypeOK
<1>4. membership' = WithRole(half, u, "owner")
  OBVIOUS
<1> HIDE DEF half
<1>5. /\ membership'[u] \in MembershipRows /\ membership'[u].role = "owner"
      /\ \A v \in Users : v # u => membership'[v] = half[v]
  <2> DEFINE row == [half[u] EXCEPT !.role = "owner"]
  <2>1. half[u] \in MembershipRows
    BY <1>1, <1>3
  <2>2. row \in MembershipRows /\ row.role = "owner"
    BY <2>1 DEF MembershipRows, Roles
  <2>3. membership' = [half EXCEPT ![u] = row]
    BY <1>3, <1>4 DEF WithRole
  <2> HIDE DEF row
  <2> QED  BY <1>3, <2>2, <2>3
<1> QED  BY <1>2, <1>3, <1>5

LEMMA OwnerKept ==
    ASSUME IInv, OneOwner, [Next]_vars,
           \A p \in Procs : Completes(p) => ~Stale(request[p])
    PROVE  OneOwner'
<1>1. ASSUME NEW u \in Users, Enter(u) PROVE OneOwner'
  <2>1. /\ UNCHANGED group /\ group # NoGroup
        /\ \A v \in Users : v # u => membership'[v] = membership[v]
        /\ membership'[u] = [id |-> lastRow + 1, role |-> "member"]
        /\ ~IsMember(u)
    BY <1>1 DEF Enter, IInv, TypeOK
  <2>2. \A v \in Users : HasRole(v, "owner")' <=> HasRole(v, "owner")
    BY <2>1 DEF HasRole, IsMember
  <2> QED  BY <2>1, <2>2 DEF OneOwner
<1>2. ASSUME NEW by \in Users, NEW u \in Users, RemoveGroupMember(by, u) PROVE OneOwner'
  <2>1. /\ UNCHANGED group /\ group # NoGroup /\ u # group.creator
        /\ membership' = [membership EXCEPT ![u] = NoRow]
    BY <1>2 DEF RemoveGroupMember, IsOwner
  <2>2. \A v \in Users : HasRole(v, "owner")' <=> HasRole(v, "owner") /\ v # u
    BY <2>1 DEF HasRole, IsMember, IInv, TypeOK
  <2> QED  BY <2>1, <2>2 DEF OneOwner
<1>3. ASSUME UNCHANGED <<group, membership>> PROVE OneOwner'
  BY <1>3 DEF OneOwner, HasRole, IsMember
<1>4. ASSUME NEW p \in Procs, CommitRename(p) PROVE OneOwner'
  <2>1. Completes(p)
    BY <1>4 DEF CommitRename, Completes, IInv, TypeOK
  <2>2. /\ group # NoGroup /\ group'.creator = group.creator
        /\ group' # NoGroup
        /\ UNCHANGED membership
    BY <1>4, <2>1, Carried, RolesConstants DEF CommitRename, Stale, IInv, GroupRows
  <2> QED  BY <2>2 DEF OneOwner, HasRole, IsMember
<1>5. ASSUME NEW p \in Procs, CommitUpdateRole(p), membership' # membership PROVE OneOwner'
  <2> DEFINE r == request[p]
  <2>1. Completes(p)
    BY <1>5 DEF CommitUpdateRole, Completes, IInv, TypeOK
  <2>2. /\ r.op = "role" /\ r.target \in Users /\ r.row.role # "owner"
        /\ r.row \in MembershipRows
    BY <1>5, Carried DEF CommitUpdateRole, IInv, MembershipRows, Roles
  <2>3. /\ group # NoGroup /\ r.target # group.creator /\ UNCHANGED group
        /\ membership' = [membership EXCEPT ![r.target] = r.row]
    BY <1>5, <2>1, <2>2 DEF CommitUpdateRole, Stale
  <2> HIDE DEF r
  <2>4. \A v \in Users : membership'[v] = IF v = r.target THEN r.row ELSE membership[v]
    BY <2>3 DEF IInv, TypeOK
  <2>5. \A v \in Users : HasRole(v, "owner")' <=> HasRole(v, "owner")
    BY <2>2, <2>3, <2>4 DEF OneOwner, HasRole, IsMember
  <2> QED  BY <2>3, <2>5 DEF OneOwner
<1>6. ASSUME NEW p \in Procs, CommitTransfer(p), group' # group \/ membership' # membership
      PROVE  OneOwner'
  <2> DEFINE r == request[p]
  <2>1. Completes(p)
    BY <1>6 DEF CommitTransfer, Completes, IInv, TypeOK
  <2>2. /\ r.by \in Users /\ r.target \in Users /\ r.op = "transfer" /\ r.name \in Names
        /\ r.target # r.by
    BY <1>6, Carried DEF CommitTransfer, IInv, TransfersMove
  <2>3. /\ group # NoGroup /\ r.by = group.creator
        /\ IsMember(r.by) /\ IsMember(r.target)
        /\ group' = [creator |-> r.target, name |-> r.name]
        /\ membership' = WithRole(WithRole(membership, r.by, "admin"), r.target, "owner")
    BY <1>6, <2>1, <2>2 DEF CommitTransfer, Stale
  <2> HIDE DEF r
  <2>4. group' # NoGroup /\ group'.creator = r.target
    BY <2>2, <2>3, RolesConstants
  <2>5. \A v \in Users : HasRole(v, "owner")' <=> v = r.target
    BY <2>2, <2>3, TwoRolesSet DEF IInv, OneOwner, HasRole, IsMember
  <2> QED  BY <2>4, <2>5 DEF OneOwner
<1>7. ASSUME NEW p \in Procs, CommitDeleteGroup(p) PROVE OneOwner'
  BY <1>7 DEF CommitDeleteGroup, OneOwner, IsMember
<1> QED
  BY <1>1, <1>2, <1>3, <1>4, <1>5, <1>6, <1>7
  DEF Next, vars, JoinGroup, AddGroupMember, BeginRename, BeginUpdateRole, BeginTransfer,
      BeginDeleteGroup, CommitUpdateRole, CommitTransfer

(* With any number of workers, the creator and the role of owner only part
   when somebody saves what was read before ownership moved. *)
THEOREM OwnershipSplitOnlyByStaleSaves == Spec => OnlyStaleSavesSplitOwnership
<1>1. IInv /\ [Next]_vars =>
        [OneOwner /\ ~OneOwner' =>
            \E p \in Procs : request[p].op # "idle" /\ Stale(request[p]) /\ request'[p] = Idle]_vars
  BY OwnerKept DEF Completes
<1> QED  BY <1>1, InitIInv, NextIInv, PTL DEF Spec, OnlyStaleSavesSplitOwnership

-----------------------------------------------------------------------------
(* One worker: its request stays true until it is done, since everybody else
   waits. *)
NothingStale == \A p \in Procs : request[p].op # "idle" => ~Stale(request[p])

RowsStay == \A p \in Procs : request[p].op = "role" => IsMember(request[p].target)

SerialInv == IInv /\ OneOwner /\ NothingStale /\ RowsStay

LEMMA InitSerialInv == Init => SerialInv
<1> SUFFICES ASSUME Init PROVE SerialInv
  OBVIOUS
<1>1. group \in GroupRows /\ group # NoGroup /\ group.creator = Founder
  BY RolesConstants DEF Init, GroupRows
<1>2. \A u \in Users : HasRole(u, "owner") <=> u = Founder
  <2>1. [id |-> 1, role |-> "owner"] # NoRow
    BY RolesConstants
  <2> QED  BY <2>1 DEF Init, HasRole, IsMember
<1> QED  BY <1>1, <1>2, InitIInv DEF Init, SerialInv, OneOwner, NothingStale, RowsStay, Idle

LEMMA NextSerialInv ==
    ASSUME \A p, q \in Procs : p = q, SerialInv, [Next]_vars
    PROVE  SerialInv'
<1>1. IInv'
  BY NextIInv DEF SerialInv
<1>2. OneOwner'
  BY OwnerKept DEF SerialInv, NothingStale, Completes
<1>3. NothingStale'
  <2> SUFFICES ASSUME NEW p \in Procs, request'[p].op # "idle" PROVE ~Stale(request[p])'
    BY DEF NothingStale, Stale
  <2>1. CASE UNCHANGED <<group, request>>
    BY <2>1 DEF SerialInv, NothingStale, Stale
  <2>2. ASSUME Free, UNCHANGED request PROVE FALSE
    BY <2>2 DEF Free, Idle
  <2>3. ASSUME NEW q \in Procs, request' = [request EXCEPT ![q] = Idle] PROVE FALSE
    BY <2>3 DEF SerialInv, IInv, TypeOK, Idle
  <2>4. ASSUME NEW q \in Procs, NEW by \in Users, NEW name \in Names, BeginRename(q, by, name)
        PROVE  ~Stale(request[p])'
    <3> DEFINE row == [group EXCEPT !.name = name]
    <3>1. group \in GroupRows /\ group # NoGroup
      BY <2>4 DEF BeginRename, SerialInv, IInv, TypeOK
    <3>2. row.creator = group.creator
      BY <3>1 DEF GroupRows
    <3>3. request'[p] = [op |-> "rename", row |-> row] /\ UNCHANGED group
      BY <2>4, p = q DEF BeginRename, SerialInv, IInv, TypeOK
    <3> HIDE DEF row
    <3> QED  BY <3>1, <3>2, <3>3 DEF Stale
  <2>5. ASSUME NEW q \in Procs, NEW by \in Users, NEW u \in Users,
               NEW role \in {"admin", "member"}, BeginUpdateRole(q, by, u, role)
        PROVE  ~Stale(request[p])'
    <3>1. /\ request'[p].op = "role" /\ request'[p].target = u
          /\ UNCHANGED group /\ group # NoGroup /\ u # group.creator
      BY <2>5, p = q DEF BeginUpdateRole, IsOwner, SerialInv, IInv, TypeOK
    <3> QED  BY <3>1 DEF Stale
  <2>6. ASSUME NEW q \in Procs, NEW by \in Users, NEW u \in Users, BeginTransfer(q, by, u)
        PROVE  ~Stale(request[p])'
    <3>1. /\ request'[p].op = "transfer" /\ request'[p].by = by
          /\ UNCHANGED group /\ group # NoGroup /\ by = group.creator
      BY <2>6, p = q DEF BeginTransfer, IsOwner, SerialInv, IInv, TypeOK
    <3> QED  BY <3>1 DEF Stale
  <2>7. ASSUME NEW q \in Procs, NEW by \in Users, BeginDeleteGroup(q, by)
        PROVE  ~Stale(request[p])'
    <3>1. request'[p].op = "delete" /\ UNCHANGED group /\ group # NoGroup
      BY <2>7, p = q DEF BeginDeleteGroup, IsOwner, SerialInv, IInv, TypeOK
    <3> QED  BY <3>1 DEF Stale
  <2> QED
    BY <2>1, <2>2, <2>3, <2>4, <2>5, <2>6, <2>7
    DEF Next, vars, JoinGroup, AddGroupMember, Enter, RemoveGroupMember,
        CommitRename, CommitUpdateRole, CommitTransfer, CommitDeleteGroup
<1>4. RowsStay'
  <2> SUFFICES ASSUME NEW p \in Procs, request'[p].op = "role" PROVE IsMember(request[p].target)'
    BY DEF RowsStay, IsMember
  <2>1. CASE UNCHANGED <<membership, request>>
    BY <2>1 DEF SerialInv, RowsStay, IsMember
  <2>2. ASSUME Free, UNCHANGED request PROVE FALSE
    BY <2>2 DEF Free, Idle
  <2>3. ASSUME NEW q \in Procs, NEW r, r.op # "role", request' = [request EXCEPT ![q] = r]
        PROVE  FALSE
    BY <2>3 DEF SerialInv, IInv, TypeOK
  <2>4. ASSUME NEW q \in Procs, NEW by \in Users, NEW u \in Users,
               NEW role \in {"admin", "member"}, BeginUpdateRole(q, by, u, role)
        PROVE  IsMember(request[p].target)'
    <3>1. request'[p].target = u /\ IsMember(u) /\ UNCHANGED membership
      BY <2>4, p = q DEF BeginUpdateRole, SerialInv, IInv, TypeOK
    <3> QED  BY <3>1 DEF IsMember
  <2>5. ASSUME NEW q \in Procs, NEW by \in Users, NEW name \in Names, BeginRename(q, by, name)
        PROVE  FALSE
    BY <2>5, <2>3 DEF BeginRename
  <2>6. ASSUME NEW q \in Procs, NEW by \in Users, NEW u \in Users, BeginTransfer(q, by, u)
        PROVE  FALSE
    BY <2>6, <2>3 DEF BeginTransfer
  <2>7. ASSUME NEW q \in Procs, NEW by \in Users, BeginDeleteGroup(q, by) PROVE FALSE
    BY <2>7, <2>3 DEF BeginDeleteGroup
  <2>8. ASSUME NEW q \in Procs, request' = [request EXCEPT ![q] = Idle] PROVE FALSE
    BY <2>8, <2>3 DEF Idle
  <2> QED
    BY <2>1, <2>2, <2>4, <2>5, <2>6, <2>7, <2>8
    DEF Next, vars, JoinGroup, AddGroupMember, Enter, RemoveGroupMember,
        CommitRename, CommitUpdateRole, CommitTransfer, CommitDeleteGroup
<1> QED  BY <1>1, <1>2, <1>3, <1>4 DEF SerialInv

(* While one request is served at a time, the creator and nobody else has the
   role of owner. *)
THEOREM SerialOneOwner ==
    ASSUME \A p, q \in Procs : p = q
    PROVE  Spec => []OneOwner
<1>1. SerialInv => OneOwner
  BY DEF SerialInv
<1> QED  BY <1>1, InitSerialInv, NextSerialInv, PTL DEF Spec

-----------------------------------------------------------------------------
(* Each step, seen as a step of GroupOwnership. *)
LEMMA RolesSeen ==
    ASSUME NEW u \in Users, IInv, OneOwner
    PROVE  /\ u \in Admins <=> HasRole(u, "admin")
           /\ u \in Others <=> HasRole(u, "member")
           /\ u = Owner <=> HasRole(u, "owner")
           /\ IsMember(u) <=> u \in Admins \union Others \union {Owner}
           /\ group = NoGroup => Admins = {} /\ Others = {}
<1>1. IsMember(u) => membership[u].role \in Roles
  BY DEF IInv, TypeOK, IsMember, MembershipRows
<1>2. u = Owner <=> HasRole(u, "owner")
  BY RolesConstants DEF OneOwner, Owner, HasRole
<1>3. group = NoGroup => Admins = {} /\ Others = {}
  BY DEF OneOwner, Admins, Others, HasRole
<1> QED  BY <1>1, <1>2, <1>3 DEF Admins, Others, HasRole, Roles

(* The request that ends with this step, if any, is still true. *)
EndsTruly ==
    \A p \in Procs : request[p] # Idle /\ request'[p] = Idle =>
        ~Stale(request[p]) /\ ~BringsBack(request[p])

(* From a state with one owner, a step that saves nothing outdated is a step of
   GroupOwnership. *)
LEMMA TrueStepAllowed ==
    ASSUME IInv, OneOwner, [Next]_vars, EndsTruly
    PROVE  [Ownership!Next]_(Ownership!ownership)
<1> USE DEF Ownership!ownership
<1>1. ASSUME NEW p \in Procs,
             CommitRename(p) \/ CommitUpdateRole(p) \/ CommitTransfer(p)
      PROVE  ~Stale(request[p]) /\ ~BringsBack(request[p])
  <2>1. request[p].op # "idle" /\ request'[p] = Idle
    BY <1>1 DEF CommitRename, CommitUpdateRole, CommitTransfer, IInv, TypeOK
  <2> QED  BY <2>1 DEF EndsTruly, Idle
<1>2. ASSUME UNCHANGED <<group, membership>>
      PROVE  UNCHANGED <<Owner, Admins, Others>>
  BY <1>2 DEF Owner, Admins, Others, HasRole, IsMember
<1>3. ASSUME NEW u \in Users, Enter(u) PROVE Ownership!Enter
  <2>1. /\ UNCHANGED group /\ group # NoGroup /\ ~IsMember(u)
        /\ \A v \in Users : v # u => membership'[v] = membership[v]
        /\ membership'[u] = [id |-> lastRow + 1, role |-> "member"]
    BY <1>3 DEF Enter, IInv, TypeOK
  <2>2. membership'[u] # NoRow
    BY <2>1, RolesConstants, <1>3 DEF Enter, IInv, TypeOK
  <2>3. Admins' = Admins /\ Others' = Others \union {u}
    BY <2>1, <2>2 DEF Admins, Others, HasRole, IsMember
  <2>4. Owner' = Owner /\ Owner # Nobody
    BY <2>1, RolesConstants DEF Owner, IInv, TypeOK, GroupRows
  <2>5. u \notin Ownership!Everybody
    BY <2>1, RolesSeen DEF Ownership!Everybody
  <2> QED  BY <2>3, <2>4, <2>5 DEF Ownership!Enter
<1>4. ASSUME NEW by \in Users, NEW u \in Users, RemoveGroupMember(by, u)
      PROVE  Ownership!Leave
  <2>1. /\ UNCHANGED group /\ IsMember(u) /\ u # group.creator /\ group # NoGroup
        /\ \A v \in Users : membership'[v] = IF v = u THEN NoRow ELSE membership[v]
    BY <1>4 DEF RemoveGroupMember, IsOwner, IInv, TypeOK
  <2>2. Admins' = Admins \ {u} /\ Others' = Others \ {u} /\ Owner' = Owner
    BY <2>1 DEF Admins, Others, Owner, HasRole, IsMember
  <2>3. u \in Admins \union Others
    BY <2>1, RolesSeen DEF Owner
  <2> QED  BY <2>2, <2>3 DEF Ownership!Leave
<1>5. ASSUME NEW p \in Procs, CommitRename(p) PROVE UNCHANGED <<Owner, Admins, Others>>
  <2>1. /\ group # NoGroup /\ group' # NoGroup /\ group'.creator = group.creator
        /\ UNCHANGED membership
    BY <1>1, <1>5, Carried, RolesConstants
    DEF CommitRename, Stale, IInv, GroupRows
  <2> QED  BY <2>1 DEF Owner, Admins, Others, HasRole, IsMember
<1>6. ASSUME NEW p \in Procs, CommitUpdateRole(p), membership' # membership
      PROVE  Ownership!Appoint \/ Ownership!Dismiss \/ UNCHANGED <<Owner, Admins, Others>>
  <2> DEFINE r == request[p]
             u == r.target
  <2>1. /\ r.op = "role" /\ u \in Users /\ r.row.role \in {"admin", "member"}
        /\ r.row \in MembershipRows
    BY <1>6, Carried DEF CommitUpdateRole, IInv, MembershipRows, Roles
  <2>2. /\ group # NoGroup /\ u # group.creator /\ UNCHANGED group
        /\ membership' = [membership EXCEPT ![u] = r.row]
    BY <1>1, <1>6, <2>1 DEF CommitUpdateRole, Stale
  <2>3. r.row # NoRow
    BY <2>1, RolesConstants DEF MembershipRows, Roles
  <2> HIDE DEF r
  <2>4. \A v \in Users : membership'[v] = IF v = u THEN r.row ELSE membership[v]
    BY <2>2 DEF IInv, TypeOK
  <2>5. IsMember(u)
    BY <1>1, <1>6, <2>1 DEF r, BringsBack
  <2>6. u \in Admins \/ u \in Others
    BY <2>1, <2>2, <2>5, RolesSeen DEF Owner
  <2>7. ~(u \in Admins /\ u \in Others)
    BY DEF Admins, Others, HasRole
  <2>8. /\ Owner' = Owner
        /\ r.row.role = "admin" => Admins' = Admins \union {u} /\ Others' = Others \ {u}
        /\ r.row.role = "member" => Others' = Others \union {u} /\ Admins' = Admins \ {u}
    BY <2>1, <2>2, <2>3, <2>4 DEF Owner, Admins, Others, HasRole, IsMember
  <2> HIDE DEF u
  <2> QED  BY <2>1, <2>6, <2>7, <2>8 DEF Ownership!Appoint, Ownership!Dismiss
<1>7. ASSUME NEW p \in Procs, CommitTransfer(p), group' # group \/ membership' # membership
      PROVE  Ownership!HandOver
  <2> DEFINE r == request[p]
  <2>1. /\ r.by \in Users /\ r.target \in Users /\ r.op = "transfer" /\ r.name \in Names
    BY <1>7, Carried DEF CommitTransfer, IInv
  <2>2. /\ group # NoGroup /\ r.by = group.creator
        /\ IsMember(r.by) /\ IsMember(r.target)
        /\ group' = [creator |-> r.target, name |-> r.name]
        /\ membership' = WithRole(WithRole(membership, r.by, "admin"), r.target, "owner")
    BY <1>1, <1>7, <2>1 DEF CommitTransfer, Stale
  <2>3. r.target # r.by
    BY <2>1 DEF IInv, TransfersMove
  <2> HIDE DEF r
  <2>4. Owner = r.by /\ Owner' = r.target
    BY <2>1, <2>2, RolesConstants DEF Owner
  <2>5. \A v \in Users :
          /\ v # r.by /\ v # r.target => membership'[v] = membership[v]
          /\ v = r.by => membership'[v] # NoRow /\ membership'[v].role = "admin"
          /\ v = r.target => membership'[v] # NoRow /\ membership'[v].role = "owner"
    BY <2>1, <2>2, <2>3, TwoRolesSet DEF IInv
  <2>6. Admins' = (Admins \ {r.target}) \union {r.by} /\ Others' = Others \ {r.target}
    <3>1. \A v \in Users : HasRole(v, "admin")' <=> (HasRole(v, "admin") /\ v # r.target) \/ v = r.by
      BY <2>3, <2>5 DEF HasRole, IsMember
    <3>2. \A v \in Users : HasRole(v, "member")' <=> HasRole(v, "member") /\ v # r.target
      <4>1. ~HasRole(r.by, "member")
        BY <2>1, <2>2 DEF OneOwner, HasRole
      <4> QED  BY <2>3, <2>5, <4>1 DEF HasRole, IsMember
    <3> QED  BY <2>1, <3>1, <3>2 DEF Admins, Others
  <2>7. r.target \in Admins \union Others
    BY <2>1, <2>2, <2>3, <2>4, RolesSeen
  <2> QED  BY <2>4, <2>6, <2>7 DEF Ownership!HandOver
<1>8. ASSUME NEW p \in Procs, CommitDeleteGroup(p) PROVE Ownership!Dissolve
  BY <1>8 DEF CommitDeleteGroup, Ownership!Dissolve, Owner, Admins, Others, HasRole, IsMember
<1> QED
  BY <1>2, <1>3, <1>4, <1>5, <1>6, <1>7, <1>8
  DEF Next, vars, Ownership!Next, JoinGroup, AddGroupMember, BeginRename, BeginUpdateRole,
      BeginTransfer, BeginDeleteGroup, CommitUpdateRole, CommitTransfer

(* Whatever the number of workers, the group is run by the rules of
   GroupOwnership but for requests that no longer say what is so. *)
THEOREM RulesBrokenOnlyByStaleSaves == Spec => OnlyStaleSavesBreakRules
<1>1. IInv /\ [Next]_vars =>
        [OneOwner =>
            \/ Ownership!Next
            \/ UNCHANGED <<Owner, Admins, Others>>
            \/ \E p \in Procs :
                  /\ request[p] # Idle /\ request'[p] = Idle
                  /\ Stale(request[p]) \/ BringsBack(request[p])]_vars
  BY TrueStepAllowed DEF EndsTruly, Ownership!ownership
<1> QED  BY <1>1, InitIInv, NextIInv, PTL DEF Spec, OnlyStaleSavesBreakRules

LEMMA SerialStepAllowed ==
    ASSUME \A p, q \in Procs : p = q, SerialInv, [Next]_vars
    PROVE  [Ownership!Next]_(Ownership!ownership)
<1>1. EndsTruly
  <2> SUFFICES ASSUME NEW p \in Procs, request[p] # Idle
               PROVE  ~Stale(request[p]) /\ ~BringsBack(request[p])
    BY DEF EndsTruly
  <2>1. request[p].op # "idle"
    BY DEF SerialInv, IInv, TypeOK, Requests, Idle
  <2> QED  BY <2>1 DEF SerialInv, NothingStale, RowsStay, BringsBack
<1> QED  BY <1>1, TrueStepAllowed DEF SerialInv

(* While one request is served at a time, the handlers run the group the way
   GroupOwnership describes. *)
THEOREM SerialImplementsOwnership ==
    ASSUME \A p, q \in Procs : p = q
    PROVE  Spec => ImplementsOwnership
<1>1. Init => Ownership!Init
  <2> SUFFICES ASSUME Init PROVE Ownership!Init
    OBVIOUS
  <2>1. SerialInv
    BY InitSerialInv
  <2>2. Owner = Founder
    BY RolesConstants DEF Init, Owner
  <2>3. Admins = {} /\ Others = {}
    BY DEF Init, Admins, Others, HasRole, IsMember
  <2> QED  BY <2>2, <2>3 DEF Ownership!Init
<1>2. SerialInv /\ [Next]_vars => [Ownership!Next]_(Ownership!ownership)
  BY SerialStepAllowed
<1> QED
  BY <1>1, <1>2, InitSerialInv, NextSerialInv, PTL DEF Spec, ImplementsOwnership, Ownership!Spec

=============================================================================
