------------------------------- MODULE Fleet --------------------------------
(***************************************************************************)
(* Drivers, vehicles and categories of the tenants, and the sequences that *)
(* number them.                                                            *)
(*                                                                         *)
(* A handler checks by queries of its own and writes afterwards; what is   *)
(* then still kept is kept by the unique and foreign keys of the schema.   *)
(* A new driver or vehicle draws its number in the transaction that        *)
(* inserts it: the sequence's row stays locked until that one ends.        *)
(***************************************************************************)
EXTENDS Office

VARIABLES
    driver, vehicle, category,  \* rows
    user,       \* the role of each row of User
    sequence,   \* Sequence.nextValue, and the transaction that holds the row
    req         \* handlers in flight

vars == <<driver, vehicle, category, user, sequence, req>>

Rows == Drivers \cup Vehicles \cup Categories \cup Users

State == {"unborn", "live", "removed"}
Driver == [state : State, cpf : Keys \cup {None}, userId : Users \cup {None}, code : Nat]
Vehicle == [state : State, plate : Keys \cup {None}, driverId : Drivers \cup {None},
            categoryId : Categories \cup {None}, code : Nat]
Category == [state : State, name : Keys \cup {None}]
Kinds == {"DRIVER", "VEHICLE"}
Sequence == [nextValue : Nat, holder : Handlers \cup {None}]

Pc == {"idle", "driverDraw", "driverInsert", "driverUpdate", "driverRemove",
       "vehicleDraw", "vehicleInsert", "vehicleUpdate", "vehicleRemove",
       "categoryInsert", "categoryUpdate", "categoryRemove"}

\* What a handler will write where; None in a field is a field left out.
Request == [pc : Pc, tenant : Tenants \cup {None}, id : Rows \cup {None},
            key : Keys \cup {None}, userId : Users \cup {None},
            driverId : Drivers \cup {None}, categoryId : Categories \cup {None},
            registers : BOOLEAN]

TypeOK ==
    /\ driver \in [Drivers -> Driver]
    /\ vehicle \in [Vehicles -> Vehicle]
    /\ category \in [Categories -> Category]
    /\ user \in [Users -> {"unborn", "driver", "other", "removed"}]
    /\ sequence \in [Kinds \X Tenants -> Sequence]
    /\ req \in [Handlers -> Request]

NoRequest == [pc |-> "idle", tenant |-> None, id |-> None, key |-> None, userId |-> None,
              driverId |-> None, categoryId |-> None, registers |-> FALSE]

Init ==
    /\ driver = [d \in Drivers |->
                   [state |-> "unborn", cpf |-> None, userId |-> None, code |-> 0]]
    /\ vehicle = [v \in Vehicles |->
                   [state |-> "unborn", plate |-> None, driverId |-> None,
                    categoryId |-> None, code |-> 0]]
    /\ category = [c \in Categories |-> [state |-> "unborn", name |-> None]]
    /\ user \in [Users -> {"unborn", "driver", "other"}]
    /\ sequence = [s \in Kinds \X Tenants |-> [nextValue |-> 1, holder |-> None]]
    /\ req = [h \in Handlers |-> NoRequest]

-----------------------------------------------------------------------------
At(h, pc) == req[h].pc = pc
Ends(h) == req' = [req EXCEPT ![h] = NoRequest]
GoesTo(h, pc) == req' = [req EXCEPT ![h].pc = pc]
Begins(h, r) == req' = [req EXCEPT ![h] = r]
tables == <<driver, vehicle, category, user>>
Reads == UNCHANGED <<driver, vehicle, category, user, sequence>>

DriversOf(t) == {d \in Drivers : driver[d].state = "live" /\ TenantOf[d] = t}
VehiclesOf(t) == {v \in Vehicles : vehicle[v].state = "live" /\ TenantOf[v] = t}
CategoriesOf(t) == {c \in Categories : category[c].state = "live" /\ TenantOf[c] = t}
UsersOf(t) == {u \in Users : user[u] \in {"driver", "other"} /\ TenantOf[u] = t}

Or(new, old) == IF new = None THEN old ELSE new

\* The schema: unique keys, and foreign keys that are checked at the write.
CpfFree(t, k, d) == \A e \in DriversOf(t) \ {d} : driver[e].cpf # k
PlateFree(t, k, v) == \A w \in VehiclesOf(t) \ {v} : vehicle[w].plate # k
NameFree(t, k, c) == \A b \in CategoriesOf(t) \ {c} : category[b].name # k
UserFree(u, d) == \A e \in Drivers \ {d} : driver[e].state = "live" => driver[e].userId # u
UserExists(u) == user[u] \in {"driver", "other"}
Referenced(x) == \E v \in Vehicles : vehicle[v].state = "live"
                                       /\ x \in {vehicle[v].driverId, vehicle[v].categoryId}

\* generateTenantCode: an upsert, whose row is locked until the end.
Draw(h, kind, pc, next) ==
    LET s == <<kind, req[h].tenant>> IN
    /\ At(h, pc)
    /\ sequence[s].holder = None
    /\ sequence' = [sequence EXCEPT ![s].holder = h]
    /\ GoesTo(h, next)
    /\ UNCHANGED tables

Drawn(h, kind) == sequence[<<kind, req[h].tenant>>].nextValue

Commits(h, kind) ==
    LET s == <<kind, req[h].tenant>> IN
    sequence' = [sequence EXCEPT ![s] = [nextValue |-> @.nextValue + 1, holder |-> None]]

\* A query fails, a key refuses the row, the transaction times out or the
\* process goes down: a number that was drawn is rolled back.
\* Mutant: the number was drawn outside of the transaction.
RolledForward(h) ==
    [s \in Kinds \X Tenants |->
       IF sequence[s].holder = h THEN [nextValue |-> sequence[s].nextValue + 1, holder |-> None]
       ELSE sequence[s]]
RolledBack(h) ==
    [s \in Kinds \X Tenants |->
       IF sequence[s].holder = h THEN [sequence[s] EXCEPT !.holder = None] ELSE sequence[s]]

Dies(h) ==
    /\ ~ At(h, "idle")
    /\ sequence' = RolledBack(h)
    /\ Ends(h)
    /\ UNCHANGED tables

-----------------------------------------------------------------------------
(* DriversService. *)

\* A driver's user is of the tenant, has the role and no other driver.
\* Mutant: a user of any tenant will do.
MayDriveAnywhere(t, u, d) == UserExists(u) /\ user[u] = "driver" /\ UserFree(u, d)
MayDrive(t, u, d) == u \in UsersOf(t) /\ user[u] = "driver" /\ UserFree(u, d)

DriverCreateRead(h, t, cpf, u) ==
    /\ At(h, "idle")
    /\ CpfFree(t, cpf, None)
    /\ u # None => MayDrive(t, u, None)
    /\ Begins(h, [NoRequest EXCEPT !.pc = "driverDraw", !.tenant = t, !.key = cpf, !.userId = u])
    /\ Reads

\* createFromInvite: user and driver in one transaction, nothing looked up.  An
\* invite without a tenant is refused before.
RegisterRead(h, cpf, u) ==
    /\ At(h, "idle")
    /\ user[u] = "unborn" /\ TenantOf[u] # None
    /\ Begins(h, [NoRequest EXCEPT !.pc = "driverDraw", !.tenant = TenantOf[u], !.key = cpf,
                                   !.userId = u, !.registers = TRUE])
    /\ Reads

DriverInsert(h) ==
    LET r == req[h] IN
    /\ At(h, "driverInsert")
    /\ CpfFree(r.tenant, r.key, None)
    /\ r.userId # None => IF r.registers THEN user[r.userId] = "unborn"
                          ELSE UserExists(r.userId) /\ UserFree(r.userId, None)
    /\ \E d \in Drivers :
         /\ driver[d].state = "unborn" /\ TenantOf[d] = r.tenant
         /\ driver' = [driver EXCEPT ![d] = [state |-> "live", cpf |-> r.key, userId |-> r.userId,
                                             code |-> Drawn(h, "DRIVER")]]
    /\ user' = IF r.registers THEN [user EXCEPT ![r.userId] = "driver"] ELSE user
    /\ Commits(h, "DRIVER")
    /\ Ends(h)
    /\ UNCHANGED <<vehicle, category>>

DriverUpdateRead(h, t, d, cpf, u) ==
    /\ At(h, "idle")
    /\ d \in DriversOf(t)
    /\ cpf \notin {None, driver[d].cpf} => CpfFree(t, cpf, d)
    /\ u # None => MayDrive(t, u, d)
    /\ Begins(h, [NoRequest EXCEPT !.pc = "driverUpdate", !.tenant = t, !.id = d, !.key = cpf,
                                   !.userId = u])
    /\ Reads

DriverUpdateWrite(h) ==
    LET r == req[h]  row == driver[r.id] IN
    /\ At(h, "driverUpdate")
    /\ driver[r.id].state = "live"
    /\ r.key # None => CpfFree(r.tenant, r.key, r.id)
    /\ r.userId # None => UserExists(r.userId) /\ UserFree(r.userId, r.id)
    /\ driver' = [driver EXCEPT ![r.id] = [@ EXCEPT !.cpf = Or(r.key, row.cpf),
                                                   !.userId = Or(r.userId, row.userId)]]
    /\ Ends(h)
    /\ UNCHANGED <<vehicle, category, user, sequence>>

DriverRemoveRead(h, t, d) ==
    /\ At(h, "idle")
    /\ d \in DriversOf(t)
    /\ \A v \in VehiclesOf(t) : vehicle[v].driverId # d
    /\ Begins(h, [NoRequest EXCEPT !.pc = "driverRemove", !.tenant = t, !.id = d])
    /\ Reads

DriverRemoveWrite(h) ==
    LET d == req[h].id IN
    /\ At(h, "driverRemove")
    /\ driver[d].state = "live" /\ ~ Referenced(d)
    /\ driver' = [driver EXCEPT ![d] = [@ EXCEPT !.state = "removed", !.cpf = None, !.userId = None]]
    /\ Ends(h)
    /\ UNCHANGED <<vehicle, category, user, sequence>>

-----------------------------------------------------------------------------
(* VehiclesService. *)

Belong(t, d, c) ==
    /\ d # None => d \in DriversOf(t)
    /\ c # None => c \in CategoriesOf(t)

\* The foreign keys of Vehicle.
References(d, c) ==
    /\ d # None => driver[d].state = "live"
    /\ c # None => category[c].state = "live"

VehicleCreateRead(h, t, plate, d, c) ==
    /\ At(h, "idle")
    /\ Belong(t, d, c)
    /\ PlateFree(t, plate, None)
    /\ Begins(h, [NoRequest EXCEPT !.pc = "vehicleDraw", !.tenant = t, !.key = plate,
                                   !.driverId = d, !.categoryId = c])
    /\ Reads

VehicleInsert(h) ==
    LET r == req[h] IN
    /\ At(h, "vehicleInsert")
    /\ PlateFree(r.tenant, r.key, None)
    /\ References(r.driverId, r.categoryId)
    /\ \E v \in Vehicles :
         /\ vehicle[v].state = "unborn" /\ TenantOf[v] = r.tenant
         /\ vehicle' = [vehicle EXCEPT ![v] = [state |-> "live", plate |-> r.key,
                                               driverId |-> r.driverId, categoryId |-> r.categoryId,
                                               code |-> Drawn(h, "VEHICLE")]]
    /\ Commits(h, "VEHICLE")
    /\ Ends(h)
    /\ UNCHANGED <<driver, category, user>>

VehicleUpdateRead(h, t, v, plate, d, c) ==
    /\ At(h, "idle")
    /\ v \in VehiclesOf(t)
    /\ Belong(t, d, c)
    /\ plate \notin {None, vehicle[v].plate} => PlateFree(t, plate, v)
    /\ Begins(h, [NoRequest EXCEPT !.pc = "vehicleUpdate", !.tenant = t, !.id = v, !.key = plate,
                                   !.driverId = d, !.categoryId = c])
    /\ Reads

VehicleUpdateWrite(h) ==
    LET r == req[h]  row == vehicle[r.id] IN
    /\ At(h, "vehicleUpdate")
    /\ vehicle[r.id].state = "live"
    /\ r.key # None => PlateFree(r.tenant, r.key, r.id)
    /\ References(r.driverId, r.categoryId)
    /\ vehicle' = [vehicle EXCEPT ![r.id] = [@ EXCEPT !.plate = Or(r.key, row.plate),
                                 !.driverId = Or(r.driverId, row.driverId),
                                 !.categoryId = Or(r.categoryId, row.categoryId)]]
    /\ Ends(h)
    /\ UNCHANGED <<driver, category, user, sequence>>

VehicleRemoveRead(h, t, v) ==
    /\ At(h, "idle")
    /\ v \in VehiclesOf(t)
    /\ Begins(h, [NoRequest EXCEPT !.pc = "vehicleRemove", !.tenant = t, !.id = v])
    /\ Reads

VehicleRemoveWrite(h) ==
    LET v == req[h].id IN
    /\ At(h, "vehicleRemove")
    /\ vehicle[v].state = "live"
    /\ vehicle' = [vehicle EXCEPT ![v] = [state |-> "removed", plate |-> None, driverId |-> None,
                                          categoryId |-> None, code |-> @.code]]
    /\ Ends(h)
    /\ UNCHANGED <<driver, category, user, sequence>>

-----------------------------------------------------------------------------
(* CategoryService. *)

CategoryCreateRead(h, t, name) ==
    /\ At(h, "idle")
    /\ NameFree(t, name, None)
    /\ Begins(h, [NoRequest EXCEPT !.pc = "categoryInsert", !.tenant = t, !.key = name])
    /\ Reads

CategoryInsert(h) ==
    LET r == req[h] IN
    /\ At(h, "categoryInsert")
    /\ NameFree(r.tenant, r.key, None)
    /\ \E c \in Categories :
         /\ category[c].state = "unborn" /\ TenantOf[c] = r.tenant
         /\ category' = [category EXCEPT ![c] = [state |-> "live", name |-> r.key]]
    /\ Ends(h)
    /\ UNCHANGED <<driver, vehicle, user, sequence>>

CategoryUpdateRead(h, t, c, name) ==
    /\ At(h, "idle")
    /\ c \in CategoriesOf(t)
    /\ NameFree(t, name, c)
    /\ Begins(h, [NoRequest EXCEPT !.pc = "categoryUpdate", !.tenant = t, !.id = c, !.key = name])
    /\ Reads

CategoryUpdateWrite(h) ==
    LET r == req[h] IN
    /\ At(h, "categoryUpdate")
    /\ category[r.id].state = "live"
    /\ NameFree(r.tenant, r.key, r.id)
    /\ category' = [category EXCEPT ![r.id].name = r.key]
    /\ Ends(h)
    /\ UNCHANGED <<driver, vehicle, user, sequence>>

CategoryRemoveRead(h, t, c) ==
    /\ At(h, "idle")
    /\ c \in CategoriesOf(t)
    /\ \A v \in VehiclesOf(t) : vehicle[v].categoryId # c
    /\ Begins(h, [NoRequest EXCEPT !.pc = "categoryRemove", !.tenant = t, !.id = c])
    /\ Reads

CategoryRemoveWrite(h) ==
    LET c == req[h].id IN
    /\ At(h, "categoryRemove")
    /\ category[c].state = "live" /\ ~ Referenced(c)
    /\ category' = [category EXCEPT ![c] = [state |-> "removed", name |-> None]]
    /\ Ends(h)
    /\ UNCHANGED <<driver, vehicle, user, sequence>>

-----------------------------------------------------------------------------
(* Users are changed elsewhere: a role is exchanged, a user leaves, and the *)
(* schema then clears Driver.userId.                                        *)

UserRoleChanges(u) ==
    /\ UserExists(u)
    /\ user' = [user EXCEPT ![u] = IF @ = "driver" THEN "other" ELSE "driver"]
    /\ UNCHANGED <<driver, vehicle, category, sequence, req>>

UserLeaves(u) ==
    /\ UserExists(u)
    /\ user' = [user EXCEPT ![u] = "removed"]
    /\ driver' = [d \in Drivers |-> IF driver[d].userId = u THEN [driver[d] EXCEPT !.userId = None]
                                    ELSE driver[d]]
    /\ UNCHANGED <<vehicle, category, sequence, req>>

-----------------------------------------------------------------------------
DriverCall(h) ==
    \/ \E t \in Tenants, k \in Keys, u \in Users \cup {None} : DriverCreateRead(h, t, k, u)
    \/ \E k \in Keys, u \in Users : RegisterRead(h, k, u)
    \/ \E t \in Tenants, d \in Drivers, k \in Keys \cup {None}, u \in Users \cup {None} :
         DriverUpdateRead(h, t, d, k, u)
    \/ \E t \in Tenants, d \in Drivers : DriverRemoveRead(h, t, d)

VehicleCall(h) ==
    \/ \E t \in Tenants, k \in Keys, d \in Drivers, c \in Categories :
         VehicleCreateRead(h, t, k, d, c)
    \/ \E t \in Tenants, v \in Vehicles, k \in Keys \cup {None}, d \in Drivers \cup {None},
          c \in Categories \cup {None} : VehicleUpdateRead(h, t, v, k, d, c)
    \/ \E t \in Tenants, v \in Vehicles : VehicleRemoveRead(h, t, v)

CategoryCall(h) ==
    \/ \E t \in Tenants, k \in Keys : CategoryCreateRead(h, t, k)
    \/ \E t \in Tenants, c \in Categories, k \in Keys : CategoryUpdateRead(h, t, c, k)
    \/ \E t \in Tenants, c \in Categories : CategoryRemoveRead(h, t, c)

FleetStep(h) ==
    \/ Draw(h, "DRIVER", "driverDraw", "driverInsert") \/ DriverInsert(h)
    \/ DriverUpdateWrite(h) \/ DriverRemoveWrite(h)
    \/ Draw(h, "VEHICLE", "vehicleDraw", "vehicleInsert") \/ VehicleInsert(h)
    \/ VehicleUpdateWrite(h) \/ VehicleRemoveWrite(h)
    \/ CategoryInsert(h) \/ CategoryUpdateWrite(h) \/ CategoryRemoveWrite(h)
    \/ Dies(h)

Next ==
    \/ \E h \in Handlers : DriverCall(h) \/ VehicleCall(h) \/ CategoryCall(h) \/ FleetStep(h)
    \/ \E u \in Users : UserRoleChanges(u) \/ UserLeaves(u)

Spec == Init /\ [][Next]_vars

-----------------------------------------------------------------------------
(* Properties. *)

\* However handlers of two tenants overlap, fail and die, a vehicle's driver
\* and category are there and of the vehicle's tenant, and so is the user of a
\* driver, who is nobody else's.
FleetIsWhole ==
    /\ \A v \in Vehicles : vehicle[v].state = "live" =>
         /\ vehicle[v].driverId \in DriversOf(TenantOf[v])
         /\ vehicle[v].categoryId \in CategoriesOf(TenantOf[v])
    /\ \A d \in Drivers : driver[d].state = "live" /\ driver[d].userId # None =>
         driver[d].userId \in UsersOf(TenantOf[d]) /\ UserFree(driver[d].userId, d)

\* The numbers below nextValue have each gone to one row of the tenant and to no
\* other, removed rows included: none is given twice, none is lost by a create
\* that failed.
Numbered(ids, code, next) ==
    /\ {code[i] : i \in ids} = 1 .. (next - 1)
    /\ \A i, j \in ids : code[i] = code[j] => i = j
CodesAreConsecutive ==
    \A t \in Tenants :
      /\ Numbered({d \in Drivers : driver[d].state # "unborn" /\ TenantOf[d] = t},
                  [d \in Drivers |-> driver[d].code], sequence[<<"DRIVER", t>>].nextValue)
      /\ Numbered({v \in Vehicles : vehicle[v].state # "unborn" /\ TenantOf[v] = t},
                  [v \in Vehicles |-> vehicle[v].code], sequence[<<"VEHICLE", t>>].nextValue)
=============================================================================
