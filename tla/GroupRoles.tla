------------------------------ MODULE GroupRoles ------------------------------
(***************************************************************************)
(* The row of one group, its membership rows with their roles, and the     *)
(* handlers that change them.  Who owns the group is written twice: as     *)
(* Group.creator and as the role "owner" of a membership.                  *)
(*                                                                         *)
(* Joining, adding and removing members check everything under the lock on *)
(* the group's row: one step of a free worker.  Renaming the group,        *)
(* changing a role, transferring ownership and deleting the group take no  *)
(* lock: a worker reads and checks first, and then saves or deletes what   *)
(* it read, every column of it.                                            *)
(***************************************************************************)
EXTENDS Naturals, FiniteSets

CONSTANTS
    Users,
    Founder,   \* who created the group
    Procs,     \* workers that serve requests
    Names,     \* names of the group (its other columns behave the same way)
    MaxRow,    \* bound on the ids of membership rows, hence on joins
    NoGroup,   \* the group has no row
    NoRow,     \* the user has no membership row
    Nobody     \* the owner of a group that does not exist

ASSUME RolesConstants ==
    /\ Founder \in Users
    /\ Nobody \notin Users
    /\ MaxRow \in Nat \ {0}
    /\ NoGroup \notin [creator : Users, name : Names]
    /\ NoRow \notin [id : 1..MaxRow, role : {"owner", "admin", "member"}]

VARIABLES
    group,       \* the Group row: creator and name
    membership,  \* GroupMembership rows by user
    lastRow,     \* the last membership id handed out: none is used twice
    request      \* what each worker carries from its reads

vars == <<group, membership, lastRow, request>>

Roles == {"owner", "admin", "member"}

GroupRows == [creator : Users, name : Names]

MembershipRows == [id : 1..MaxRow, role : Roles]

Idle == [op |-> "idle"]

Requests ==
    {Idle}
    \union [op : {"rename"}, row : GroupRows]
    \union [op : {"role"}, target : Users,
            row : [id : 1..MaxRow, role : {"admin", "member"}]]
    \union [op : {"transfer"}, by : Users, target : Users, name : Names]
    \union [op : {"delete"}]

Free == \E p \in Procs : request[p] = Idle

-----------------------------------------------------------------------------
IsMember(u) == membership[u] # NoRow

HasRole(u, role) == IsMember(u) /\ membership[u].role = role

(* is_owner and is_admin, for a group that exists. *)
IsOwner(u) == group # NoGroup /\ group.creator = u

IsAdmin(u) == HasRole(u, "owner") \/ HasRole(u, "admin") \/ IsOwner(u)

WithRole(rows, u, role) == [rows EXCEPT ![u].role = role]

-----------------------------------------------------------------------------
(* The group is created with its founder as owner. *)
Init ==
    /\ group \in [creator : {Founder}, name : Names]
    /\ membership = [u \in Users |->
           IF u = Founder THEN [id |-> 1, role |-> "owner"] ELSE NoRow]
    /\ lastRow = 1
    /\ request = [p \in Procs |-> Idle]

(* get_or_create of a membership with the role of a member. *)
Enter(u) ==
    /\ Free
    /\ group # NoGroup
    /\ ~IsMember(u)
    /\ lastRow < MaxRow
    /\ membership' = [membership EXCEPT ![u] = [id |-> lastRow + 1, role |-> "member"]]
    /\ lastRow' = lastRow + 1
    /\ UNCHANGED <<group, request>>

JoinGroup(u) == Enter(u)

AddGroupMember(by, u) == IsAdmin(by) /\ Enter(u)

(* An admin removes anyone but the owner, a member leaves.  That the balance
   of who goes is zero is the business of the ledger; here anybody may be
   even. *)
RemoveGroupMember(by, u) ==
    /\ Free
    /\ group # NoGroup
    /\ IsMember(u)
    /\ ~IsOwner(u)
    /\ IsAdmin(by) \/ by = u
    /\ membership' = [membership EXCEPT ![u] = NoRow]
    /\ UNCHANGED <<group, lastRow, request>>

-----------------------------------------------------------------------------
(* GroupDetailView.patch. *)
BeginRename(p, by, name) ==
    /\ request[p] = Idle
    /\ group # NoGroup
    /\ IsMember(by)
    /\ IsAdmin(by)
    /\ request' = [request EXCEPT ![p] =
           [op |-> "rename", row |-> [group EXCEPT !.name = name]]]
    /\ UNCHANGED <<group, membership, lastRow>>

(* save() writes the creator that was read along with the name, and inserts
   the row if it is gone. *)
CommitRename(p) ==
    /\ request[p].op = "rename"
    /\ group' = request[p].row
    /\ request' = [request EXCEPT ![p] = Idle]
    /\ UNCHANGED <<membership, lastRow>>

-----------------------------------------------------------------------------
(* UpdateMemberRoleView.patch: the owner makes another member an admin or a
   plain member. *)
BeginUpdateRole(p, by, u, role) ==
    /\ request[p] = Idle
    /\ IsOwner(by)
    /\ ~IsOwner(u)
    /\ IsMember(u)
    /\ request' = [request EXCEPT ![p] =
           [op |-> "role", target |-> u,
            row |-> [membership[u] EXCEPT !.role = role]]]
    /\ UNCHANGED <<group, membership, lastRow>>

(* save() updates the row that was read, or inserts it when it is gone.  The
   insertion fails if the group is gone too or the user has a newer row. *)
CanSaveRole(r) ==
    IF IsMember(r.target) THEN membership[r.target].id = r.row.id ELSE group # NoGroup

CommitUpdateRole(p) ==
    LET r == request[p]
    IN  /\ r.op = "role"
        /\ membership' = IF CanSaveRole(r)
                         THEN [membership EXCEPT ![r.target] = r.row]
                         ELSE membership
        /\ request' = [request EXCEPT ![p] = Idle]
        /\ UNCHANGED <<group, lastRow>>

-----------------------------------------------------------------------------
(* TransferOwnershipView.post. *)
BeginTransfer(p, by, u) ==
    /\ request[p] = Idle
    /\ IsOwner(by)
    /\ IsMember(u)
    /\ u # by
    /\ request' = [request EXCEPT ![p] =
           [op |-> "transfer", by |-> by, target |-> u, name |-> group.name]]
    /\ UNCHANGED <<group, membership, lastRow>>

(* Mutated form: the former owner's membership is not touched. *)
CommitTransferKeepingRole(p) ==
    LET r == request[p]
    IN  /\ r.op = "transfer"
        /\ IF IsMember(r.by) /\ IsMember(r.target)
           THEN /\ group' = [creator |-> r.target, name |-> r.name]
                /\ membership' = WithRole(membership, r.target, "owner")
           ELSE UNCHANGED <<group, membership>>
        /\ request' = [request EXCEPT ![p] = Idle]
        /\ UNCHANGED lastRow

(* One transaction: the group's row and both memberships, or nothing when one
   of the two is no longer a member. *)
CommitTransfer(p) ==
    LET r == request[p]
    IN  /\ r.op = "transfer"
        /\ IF IsMember(r.by) /\ IsMember(r.target)
           THEN /\ group' = [creator |-> r.target, name |-> r.name]
                /\ membership' =
                       WithRole(WithRole(membership, r.by, "admin"), r.target, "owner")
           ELSE UNCHANGED <<group, membership>>
        /\ request' = [request EXCEPT ![p] = Idle]
        /\ UNCHANGED lastRow

-----------------------------------------------------------------------------
(* GroupDetailView.delete. *)
BeginDeleteGroup(p, by) ==
    /\ request[p] = Idle
    /\ IsOwner(by)
    /\ request' = [request EXCEPT ![p] = [op |-> "delete"]]
    /\ UNCHANGED <<group, membership, lastRow>>

(* The memberships go with the group. *)
CommitDeleteGroup(p) ==
    /\ request[p].op = "delete"
    /\ group' = NoGroup
    /\ membership' = [u \in Users |-> NoRow]
    /\ request' = [request EXCEPT ![p] = Idle]
    /\ UNCHANGED lastRow

-----------------------------------------------------------------------------
Next ==
    \/ \E u \in Users : JoinGroup(u)
    \/ \E by, u \in Users : AddGroupMember(by, u) \/ RemoveGroupMember(by, u)
    \/ \E p \in Procs, by \in Users :
           \/ \E name \in Names : BeginRename(p, by, name)
           \/ \E u \in Users, role \in {"admin", "member"} : BeginUpdateRole(p, by, u, role)
           \/ \E u \in Users : BeginTransfer(p, by, u)
           \/ BeginDeleteGroup(p, by)
    \/ \E p \in Procs :
           \/ CommitRename(p)
           \/ CommitUpdateRole(p)
           \/ CommitTransfer(p)
           \/ CommitDeleteGroup(p)

Spec == Init /\ [][Next]_vars

-----------------------------------------------------------------------------
(* Rows hold users, names and roles; ids of membership rows are never used for
   two users, nor is one in a worker's hands that was not handed out. *)
TypeOK ==
    /\ group \in GroupRows \union {NoGroup}
    /\ membership \in [Users -> MembershipRows \union {NoRow}]
    /\ lastRow \in 1..MaxRow
    /\ request \in [Procs -> Requests]
    /\ \A u, v \in Users :
          IsMember(u) /\ IsMember(v) /\ membership[u].id = membership[v].id => u = v

(* The two places that say who owns the group agree: the creator, and nobody
   else, has the role of owner, and a group that is gone has no members
   (is_owner reads one place, is_admin and the member list the other).  Holds
   while one request is served at a time. *)
OneOwner ==
    IF group = NoGroup
    THEN \A u \in Users : ~IsMember(u)
    ELSE \A u \in Users : HasRole(u, "owner") <=> u = group.creator

(* A request that no longer says what is so: the group or its owner is not the
   one that was read, or the target has become the owner. *)
Stale(r) ==
    \/ group = NoGroup
    \/ r.op = "rename"   /\ r.row.creator # group.creator
    \/ r.op = "role"     /\ r.target = group.creator
    \/ r.op = "transfer" /\ r.by # group.creator

(* Whatever the number of workers, the two places only part when a worker saves
   what it read before ownership moved: no handler that checks under the lock
   and no request that is still true does it (RemoveGroupMemberView protects
   the owner, TransferOwnershipView writes all three rows or none). *)
OnlyStaleSavesSplitOwnership ==
    [][OneOwner /\ ~OneOwner' =>
          \E p \in Procs : request[p].op # "idle" /\ Stale(request[p]) /\ request'[p] = Idle]_vars

Owner  == IF group = NoGroup THEN Nobody ELSE group.creator
Admins == {u \in Users : HasRole(u, "admin")}
Others == {u \in Users : HasRole(u, "member")}

Ownership == INSTANCE GroupOwnership WITH owner <- Owner, admins <- Admins, others <- Others

(* The group is run as GroupOwnership says, as long as one request is served at
   a time: seen through is_owner and the role column, every handler is one of
   its steps or none. *)
ImplementsOwnership == Ownership!Spec

(* A role for a member who has left: save() inserts the row again. *)
BringsBack(r) == r.op = "role" /\ ~IsMember(r.target)

(* However many requests overlap, a group with one owner is run as
   GroupOwnership says but for requests that no longer say what is so.  What
   UpdateMemberRoleView and TransferOwnershipView leave to chance between check
   and save is thereby named completely: outside these, nobody becomes owner or
   admin, joins or leaves but as the users understand it. *)
OnlyStaleSavesBreakRules ==
    [][OneOwner =>
          \/ Ownership!Next
          \/ UNCHANGED <<Owner, Admins, Others>>
          \/ \E p \in Procs :
                /\ request[p] # Idle /\ request'[p] = Idle
                /\ Stale(request[p]) \/ BringsBack(request[p])]_vars

=============================================================================
