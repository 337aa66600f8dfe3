----------------------------- MODULE Accounts -----------------------------
(***************************************************************************)
(* The users of one tenant (users_service.py), what logins and             *)
(* invitations change of them (auth_service.py), and what the platform's   *)
(* administrators do to tenant and users (platform_admin.py, billing.py).  *)
(* A request that decides on what it has read begins in one step and       *)
(* commits in a later one; nothing is locked in between.                   *)
(***************************************************************************)
EXTENDS Naturals, FiniteSets

CONSTANTS
  Users,       \* one per e-mail address
  Founder,     \* the administrator of the signup
  Limits,      \* user limits of the plans and the custom ones
  Plans,
  NoRow,
  NoPlan,
  Requests,    \* slots of overlapping requests
  Reactivates, \* inactive users become active again
  Platform     \* the platform deletes and restores

Roles == {"ADMIN", "QA"}

Statuses == {"INVITED", "ACTIVE", "INACTIVE"}

User == [role : Roles, status : Statuses, deleted : BOOLEAN]

AccountsAssumption ==
  /\ Founder \in Users
  /\ Limits \subseteq Nat \ {0} /\ Limits # {}
  /\ NoRow \notin User
  /\ NoPlan \notin Plans
  /\ Reactivates \in BOOLEAN /\ Platform \in BOOLEAN

VARIABLES
  user,    \* users
  tenant,  \* the tenant's user limit, pendingPlan and deletedAt
  request  \* what a request has loaded and will write

vars == <<user, tenant, request>>

Tenant == [limit : Limits, pending : Plans \cup {NoPlan}, deleted : BOOLEAN]

Idle == [op |-> "idle"]

Rows == {u \in Users : user[u] # NoRow}

\* Invited users count, and deleted ones.
Seats == {u \in Rows : user[u].status # "INACTIVE"}

ActiveAdmins == {u \in Rows : user[u].role = "ADMIN" /\ user[u].status = "ACTIVE"}

\* SQLAlchemy writes the columns that differ from what was loaded.
Written(loaded, new, current) ==
  [c \in DOMAIN current |-> IF new[c] = loaded[c] THEN current[c] ELSE new[c]]

Begin(r, record) ==
  /\ request[r] = Idle
  /\ request' = [request EXCEPT ![r] = record]
  /\ UNCHANGED <<user, tenant>>

End(r) == request' = [request EXCEPT ![r] = Idle]

\* A request whose steps nothing can come between.
Once(r) == request[r] = Idle /\ UNCHANGED request

-----------------------------------------------------------------------------
(* create_user and invite_user *)

HasSeat == Cardinality(Seats) < tenant.limit

BeginAdd(r, u, role, status) ==
  /\ status \in {"ACTIVE", "INVITED"}
  /\ user[u] = NoRow
  /\ HasSeat
  /\ Begin(r, [op |-> "add", user |-> u,
               new |-> [role |-> role, status |-> status, deleted |-> FALSE]])

\* The e-mail address is unique in the tenant.
CommitAdd(r) ==
  LET q == request[r] IN
  /\ q.op = "add"
  /\ user' = [user EXCEPT ![q.user] = IF @ = NoRow THEN q.new ELSE @]
  /\ End(r)
  /\ UNCHANGED tenant

-----------------------------------------------------------------------------
(* update_user and deactivate_user *)

\* Mutant: the administrators are not counted.
MayLose_Always(u) == TRUE

\* What takes an administrator's role or status needs a second active one.
MayLose(u) == user[u].role = "ADMIN" => Cardinality(ActiveAdmins) > 1

BeginUpdate(r, u, role, status) ==
  /\ u \in Rows
  /\ role # "ADMIN" \/ status # "ACTIVE" => MayLose(u)
  /\ Reactivates \/ user[u].status # "INACTIVE" \/ status = "INACTIVE"
  /\ Begin(r, [op |-> "update", user |-> u, loaded |-> user[u],
               new |-> [user[u] EXCEPT !.role = role, !.status = status]])

BeginDeactivate(r, u) ==
  /\ u \in Rows
  /\ MayLose(u)
  /\ Begin(r, [op |-> "update", user |-> u, loaded |-> user[u],
               new |-> [user[u] EXCEPT !.status = "INACTIVE"]])

CommitUpdate(r) ==
  LET q == request[r] IN
  /\ q.op = "update"
  /\ user' = [user EXCEPT ![q.user] = Written(q.loaded, q.new, @)]
  /\ End(r)
  /\ UNCHANGED tenant

-----------------------------------------------------------------------------
(* login and accept_invite, as far as they change the user *)

Reactivate(r, u) ==
  /\ Reactivates
  /\ u \in Rows /\ user[u].status = "INACTIVE" /\ ~user[u].deleted
  /\ Once(r)
  /\ user' = [user EXCEPT ![u].status = "ACTIVE"]
  /\ UNCHANGED tenant

AcceptInvite(r, u) ==
  /\ u \in Rows /\ user[u].status = "INVITED"
  /\ Once(r)
  /\ user' = [user EXCEPT ![u].status = "ACTIVE"]
  /\ UNCHANGED tenant

-----------------------------------------------------------------------------
(* The platform: delete_user, restore_user, delete_tenant, restore_tenant *)

SetDeleted(r, u, deleted) ==
  /\ Platform
  /\ u \in Rows
  /\ Once(r)
  /\ user' = [user EXCEPT ![u].deleted = deleted]
  /\ UNCHANGED tenant

\* Deletion and restoration cascade to every user there is.
SetTenantDeleted(r, deleted) ==
  /\ Platform
  /\ Once(r)
  /\ tenant' = [tenant EXCEPT !.deleted = deleted]
  /\ user' = [u \in Users |->
       IF u \in Rows THEN [user[u] EXCEPT !.deleted = deleted] ELSE NoRow]

-----------------------------------------------------------------------------
(* change_plan of the tenant, update_tenant_plan of the platform *)

RequestUpgrade(r, plan) ==
  /\ Once(r)
  /\ tenant' = [tenant EXCEPT !.pending = plan]
  /\ UNCHANGED user

BeginPlan(r, limit) ==
  Begin(r, [op |-> "plan", loaded |-> tenant,
            new |-> [tenant EXCEPT !.limit = limit, !.pending = NoPlan]])

CommitPlan(r) ==
  /\ request[r].op = "plan"
  /\ tenant' = Written(request[r].loaded, request[r].new, tenant)
  /\ End(r)
  /\ UNCHANGED user

-----------------------------------------------------------------------------
Init ==
  /\ user = [u \in Users |->
       IF u = Founder THEN [role |-> "ADMIN", status |-> "ACTIVE", deleted |-> FALSE]
       ELSE NoRow]
  /\ tenant \in [limit : Limits, pending : {NoPlan}, deleted : {FALSE}]
  /\ request = [r \in Requests |-> Idle]

UserRequest(r) ==
  \/ \E u \in Users, role \in Roles, status \in Statuses :
       BeginAdd(r, u, role, status) \/ BeginUpdate(r, u, role, status)
  \/ \E u \in Users : BeginDeactivate(r, u) \/ Reactivate(r, u) \/ AcceptInvite(r, u)
  \/ CommitAdd(r) \/ CommitUpdate(r)

PlatformRequest(r) ==
  \/ \E deleted \in BOOLEAN :
       SetTenantDeleted(r, deleted) \/ \E u \in Users : SetDeleted(r, u, deleted)
  \/ \E plan \in Plans : RequestUpgrade(r, plan)
  \/ \E limit \in Limits : BeginPlan(r, limit)
  \/ CommitPlan(r)

Next == \E r \in Requests : UserRequest(r) \/ PlatformRequest(r)

Spec == Init /\ [][Next]_vars

-----------------------------------------------------------------------------
(* Properties *)

\* Users and tenant are rows of their tables, and a request of a known kind.
TypeOK ==
  /\ user \in [Users -> User \cup {NoRow}]
  /\ tenant \in Tenant
  /\ \A r \in Requests : request[r].op \in {"idle", "add", "update", "plan"}

\* "Cannot change role or deactivate the only active admin".
AdminRemains == ActiveAdmins # {}

\* "User limit of ... reached": a step that takes another seat stays within the
\* limit.
SeatsWithinLimit ==
  Cardinality(Seats') > Cardinality(Seats) => Cardinality(Seats') <= tenant.limit

\* "Update the database so Super Admin sees it in notifications": a pending
\* upgrade ends with a plan change that has seen it.
UpgradesAreSeen ==
  tenant.pending # NoPlan /\ tenant'.pending = NoPlan =>
    \E r \in Requests : /\ request[r].op = "plan"
                        /\ request[r].loaded.pending = tenant.pending

\* Whatever overlaps: a tenant is deleted and restored by the platform's own
\* requests only, and a user once there stays, deleted or not.
DeletionIsExplicit ==
  /\ tenant'.deleted # tenant.deleted => UNCHANGED request
  /\ \A u \in Rows : user'[u] # NoRow

\* One request at a time.
OneSlot == \A r, q \in Requests : r = q

\* However requests overlap, rows are rows; one at a time, an administrator stays.
AccountsHold == TypeOK /\ (OneSlot => AdminRemains)

\* One request at a time; who has been deactivated comes back without a check.
AccountStepsHold ==
  /\ DeletionIsExplicit
  /\ OneSlot => UpgradesAreSeen
  /\ OneSlot /\ ~Reactivates => SeatsWithinLimit
=============================================================================
