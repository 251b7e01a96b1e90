------------------------------ MODULE Platform ------------------------------
(***************************************************************************)
(* Who administers: the superadmins of the platform and the admins of a    *)
(* tenant, changed by each other, and the tenants, which superadmins make  *)
(* and remove.                                                             *)
(*                                                                         *)
(* A request is admitted by the guards, reads the rows it is about, goes   *)
(* to the identity provider and then writes the row.  Nothing locks the    *)
(* requester's own row meanwhile.  What happens at the provider is in      *)
(* Identity.  The roles are those of the seed: a body that names a role is *)
(* refused by the validation pipe, so none is made or renamed, and those   *)
(* four are never deleted; `isPlatformRole` can be changed.                *)
(***************************************************************************)
EXTENDS Office

VARIABLES
    user,           \* User: role, isActive and tenantId
    tenant,         \* Tenant: whether there is a row
    isPlatformRole, \* of each role
    req             \* handlers in flight

vars == <<user, tenant, isPlatformRole, req>>

State == {"unborn", "live", "removed"}
User == [state : State, role : Roles, isActive : BOOLEAN, tenantId : Tenants \cup {None}]

Removed == [state |-> "removed", role |-> "user", isActive |-> FALSE, tenantId |-> None]

Pc == {"idle", "create", "update", "updateRole", "delete", "role",
       "tenantCreate", "tenantDelete"}

\* With which role somebody asks, about which user or tenant, and whether users or roles have been
\* written by others since.
Request == [pc : Pc, as : Roles \cup {None}, id : Users \cup Tenants \cup {None},
            dto : Body, stale : BOOLEAN]

TypeOK ==
    /\ user \in [Users -> User]
    /\ tenant \in [Tenants -> State]
    /\ isPlatformRole \in [Roles -> BOOLEAN]
    /\ req \in [Handlers -> Request]

NoBody == [roleId |-> None, isActive |-> "same"]
NoRequest == [pc |-> "idle", as |-> None, id |-> None, dto |-> NoBody,
              stale |-> FALSE]

Init ==
    /\ user = [u \in Users |-> [state |-> IF u = Root THEN "live" ELSE "unborn",
                                role |-> "superadmin", isActive |-> TRUE, tenantId |-> None]]
    /\ tenant = [t \in Tenants |-> "unborn"]
    /\ isPlatformRole = [r \in Roles |-> r = "superadmin"]
    /\ req = [h \in Handlers |-> NoRequest]

-----------------------------------------------------------------------------
At(h, pc) == req[h].pc = pc
Ends(h) == req' = [req EXCEPT ![h] = NoRequest]
GoesTo(h, pc) == req' = [req EXCEPT ![h].pc = pc]
Reads == UNCHANGED <<user, tenant, isPlatformRole>>

Live(u) == user[u].state = "live"

\* JwtAuthGuard asks for an active user, RolesGuard lets a superadmin anywhere.
Enters(u, required) ==
    /\ Live(u) /\ user[u].isActive
    /\ user[u].role \in {required, "superadmin"}

Begins(h, pc, u, i, dto) ==
    /\ At(h, "idle")
    /\ req' = [req EXCEPT ![h] = [pc |-> pc, as |-> user[u].role, id |-> i,
                                  dto |-> dto, stale |-> FALSE]]
    /\ Reads

\* `h` has written and ends.
Wrote(h) ==
    req' = [g \in Handlers |-> IF g = h THEN NoRequest
                               ELSE [req[g] EXCEPT !.stale = ~ At(g, "idle")]]

\* An administrator may neither inactivate himself nor exchange his role.
\* Mutant: he may exchange his role.
SparesOnlyEntry(u, i, dto) == u = i => dto.isActive # "no"
SparesSelf(u, i, dto) ==
    u = i => /\ dto.isActive # "no"
             /\ dto.roleId \in {None, user[i].role}

Dto(row, dto) ==
    [state |-> row.state,
     role |-> IF dto.roleId = None THEN row.role ELSE dto.roleId,
     isActive |-> IF dto.isActive = "same" THEN row.isActive ELSE dto.isActive = "yes",
     tenantId |-> row.tenantId]

-----------------------------------------------------------------------------
(* The platform's endpoints. *)

\* A user of the platform, or of a tenant there is.
Placed(i) == TenantOf[i] # None => tenant[TenantOf[i]] = "live"

\* A role of the platform for its users, another for those of a tenant.
CreateRead(h, u, i, r) ==
    /\ Enters(u, "superadmin")
    /\ user[i].state = "unborn" /\ Placed(i)
    /\ isPlatformRole[r] <=> TenantOf[i] = None
    /\ Begins(h, "create", u, i, [NoBody EXCEPT !.roleId = r])

CreateWrite(h) ==
    LET r == req[h] IN
    /\ At(h, "create")
    /\ user[r.id].state = "unborn" /\ Placed(r.id)
    /\ user' = [user EXCEPT ![r.id] = [state |-> "live", role |-> r.dto.roleId, isActive |-> TRUE,
                                       tenantId |-> TenantOf[r.id]]]
    /\ Wrote(h)
    /\ UNCHANGED <<tenant, isPlatformRole>>

\* Any role may be given, to any user.
UpdatePlatformRead(h, u, i, dto) ==
    /\ Enters(u, "superadmin")
    /\ user[u].role = "superadmin"
    /\ Live(i)
    /\ SparesSelf(u, i, dto)
    /\ Begins(h, "update", u, i, dto)

DeletePlatformRead(h, u, i) ==
    /\ Enters(u, "superadmin")
    /\ user[u].role = "superadmin"
    /\ Live(i) /\ u # i
    /\ Begins(h, "delete", u, i, NoBody)

RoleRead(h, u) ==
    /\ Enters(u, "superadmin")
    /\ Begins(h, "role", u, None, NoBody)

RoleWrite(h, r) ==
    /\ At(h, "role")
    /\ isPlatformRole' = [isPlatformRole EXCEPT ![r] = ~ @]
    /\ Wrote(h)
    /\ UNCHANGED <<user, tenant>>

\* TenantService, which asks for the requester's role once more.
TenantRead(h, u, pc, t) ==
    /\ Enters(u, "superadmin")
    /\ Begins(h, pc, u, t, NoBody)

TenantCreate(h) ==
    LET t == req[h].id IN
    /\ At(h, "tenantCreate")
    /\ tenant[t] = "unborn"
    /\ tenant' = [tenant EXCEPT ![t] = "live"]
    /\ Wrote(h)
    /\ UNCHANGED <<user, isPlatformRole>>

\* Drivers, orders and the like refuse it (Dies); the tenant's users do not,
\* whom the foreign key leaves without a tenant.
TenantDelete(h) ==
    LET t == req[h].id IN
    /\ At(h, "tenantDelete")
    /\ tenant[t] = "live"
    /\ tenant' = [tenant EXCEPT ![t] = "removed"]
    /\ user' = [u \in Users |-> IF user[u].tenantId = t THEN [user[u] EXCEPT !.tenantId = None]
                                ELSE user[u]]
    /\ Wrote(h)
    /\ UNCHANGED isPlatformRole

-----------------------------------------------------------------------------
(* The endpoints of a tenant's admins, for users of the same tenant. *)

SameTenant(u, i) == user[u].tenantId # None /\ user[i].tenantId = user[u].tenantId

UpdateTenantRead(h, u, i, dto) ==
    /\ Enters(u, "admin")
    /\ SameTenant(u, i) /\ Live(i)
    /\ SparesSelf(u, i, dto)
    /\ Begins(h, "updateRole", u, i, dto)

UpdateTenantRole(h) ==
    LET r == req[h].dto.roleId IN
    /\ At(h, "updateRole")
    /\ IF r # None /\ isPlatformRole[r] THEN Ends(h) ELSE GoesTo(h, "update")
    /\ Reads

DeleteTenantRead(h, u, i) ==
    /\ Enters(u, "admin")
    /\ SameTenant(u, i) /\ Live(i) /\ u # i
    /\ Begins(h, "delete", u, i, NoBody)

-----------------------------------------------------------------------------
UpdateWrite(h) ==
    LET i == req[h].id IN
    /\ At(h, "update")
    /\ Live(i)
    /\ user' = [user EXCEPT ![i] = Dto(@, req[h].dto)]
    /\ Wrote(h)
    /\ UNCHANGED <<tenant, isPlatformRole>>

DeleteWrite(h) ==
    LET i == req[h].id IN
    /\ At(h, "delete")
    /\ Live(i) /\ i \notin Inviters
    /\ user' = [user EXCEPT ![i] = Removed]
    /\ Wrote(h)
    /\ UNCHANGED <<tenant, isPlatformRole>>

\* The provider or the database refuses, or the process goes down.
Dies(h) == ~ At(h, "idle") /\ Ends(h) /\ Reads

PlatformCall(h, u) ==
    \/ \E i \in Users, r \in Roles : CreateRead(h, u, i, r)
    \/ \E i \in Users, dto \in Bodies : UpdatePlatformRead(h, u, i, dto)
    \/ \E i \in Users : DeletePlatformRead(h, u, i)
    \/ RoleRead(h, u)
    \/ \E t \in Tenants, pc \in {"tenantCreate", "tenantDelete"} : TenantRead(h, u, pc, t)

TenantCall(h, u) ==
    \/ \E i \in Users, dto \in Bodies : UpdateTenantRead(h, u, i, dto)
    \/ \E i \in Users : DeleteTenantRead(h, u, i)

PlatformStep(h) ==
    \/ CreateWrite(h) \/ UpdateTenantRole(h) \/ UpdateWrite(h) \/ DeleteWrite(h)
    \/ \E r \in Roles : RoleWrite(h, r)
    \/ TenantCreate(h) \/ TenantDelete(h)
    \/ Dies(h)

Next ==
    \E h \in Handlers :
      \/ PlatformStep(h)
      \/ \E u \in Users : PlatformCall(h, u) \/ TenantCall(h, u)

Spec == Init /\ [][Next]_vars

-----------------------------------------------------------------------------
(* Properties. *)

Holders(r, t) ==
    {u \in Users : Live(u) /\ user[u].isActive /\ user[u].role = r /\ user[u].tenantId = t}
Superadmins == {u \in Users : Live(u) /\ user[u].isActive /\ user[u].role = "superadmin"}

\* The platform loses its last active superadmin, and a tenant its last active
\* admin, only by a request that overlapped with another's write, or that came
\* from the other side: an admin's, who has a superadmin in his tenant, or a
\* superadmin's.
LosesLast(holders, r) ==
    holders # {} /\ holders' = {} =>
      \E h \in Handlers : /\ ~ At(h, "idle") /\ At(h, "idle")'
                          /\ req[h].stale \/ req[h].as # r

LastOneStays ==
    [][/\ LosesLast(Superadmins, "superadmin")
       /\ \A t \in Tenants : LosesLast(Holders("admin", t), "admin")]_vars
=============================================================================
