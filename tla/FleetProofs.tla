----------------------------- MODULE FleetProofs -----------------------------
(***************************************************************************)
(* For any tenants, rows and handlers: a vehicle's driver and category,    *)
(* and a driver's user, are there and of the same tenant; and the numbers  *)
(* a sequence has given out have each gone to one row.                     *)
(*                                                                         *)
(* A handler looks its references up and writes them later, so the         *)
(* argument splits: that they exist and are free is the schema's to check  *)
(* at the write, and to keep afterwards by refusing to remove what is      *)
(* referenced; that they are of the tenant is what the handler has found   *)
(* and no step can undo (`Aims`), since no row ever changes its tenant.    *)
(***************************************************************************)
EXTENDS OfficeSystem, TLAPS

\* A reference a handler carries is to something of its own tenant.
Aims(h) ==
    LET r == fleetReq[h] IN
    /\ r.pc \in {"driverDraw", "driverInsert", "driverUpdate"} =>
         /\ r.userId # None => r.userId \in Users /\ TenantOf[r.userId] = r.tenant
         /\ r.registers => r.userId # None
    /\ r.pc \in {"driverDraw", "driverInsert", "vehicleDraw", "vehicleInsert"} =>
         r.tenant \in Tenants
    /\ r.pc = "driverUpdate" => r.id \in Drivers /\ TenantOf[r.id] = r.tenant
    /\ r.pc = "driverRemove" => r.id \in Drivers
    /\ r.pc \in {"vehicleDraw", "vehicleInsert"} => r.driverId # None /\ r.categoryId # None
    /\ r.pc \in {"vehicleDraw", "vehicleInsert", "vehicleUpdate"} =>
         /\ r.driverId # None => r.driverId \in Drivers /\ TenantOf[r.driverId] = r.tenant
         /\ r.categoryId # None => r.categoryId \in Categories /\ TenantOf[r.categoryId] = r.tenant
    /\ r.pc = "vehicleUpdate" => r.id \in Vehicles /\ TenantOf[r.id] = r.tenant
    /\ r.pc = "vehicleRemove" => r.id \in Vehicles
    /\ r.pc \in {"categoryUpdate", "categoryRemove"} => r.id \in Categories

HandlersAim == \A h \in Handlers : Aims(h)

-----------------------------------------------------------------------------
(* Types. *)

LEMMA TypeInit == F!Init => F!TypeOK
<1> SUFFICES ASSUME F!Init
             PROVE  F!TypeOK
  OBVIOUS
<1>1. F!NoRequest \in F!Request
  BY DEF F!NoRequest, F!Request, F!Pc
<1>2. sequence \in [F!Kinds \X Tenants -> F!Sequence]
  BY DEF F!Init, F!Sequence
<1>3. QED
  BY <1>1, <1>2 DEF F!Init, F!TypeOK, F!Driver, F!Vehicle, F!Category, F!State

\* A handler that reads has put a request on record, or gone on, or ended.
Asks(h) ==
    /\ fleetReq' \in [Handlers -> F!Request]
    /\ UNCHANGED <<driver, vehicle, category, fleetUser, sequence>>

LEMMA RequestsAreTyped ==
    ASSUME F!TypeOK, NEW h \in Handlers
    PROVE  /\ F!NoRequest \in F!Request
           /\ fleetReq[h] \in F!Request
           /\ \A pc \in F!Pc : [fleetReq[h] EXCEPT !.pc = pc] \in F!Request
<1>1. F!NoRequest \in F!Request
  BY DEF F!NoRequest, F!Request, F!Pc
<1>2. fleetReq[h] \in F!Request
  BY DEF F!TypeOK
<1>3. \A pc \in F!Pc : [fleetReq[h] EXCEPT !.pc = pc] \in F!Request
  BY <1>2 DEF F!Request
<1>4. QED
  BY <1>1, <1>2, <1>3

LEMMA BeginStep ==
    ASSUME F!TypeOK, NEW h \in Handlers, NEW r \in F!Request, F!Begins(h, r), F!Reads,
           HandlersAim, Aims(h)'
    PROVE  Asks(h) /\ HandlersAim'
<1>1. Asks(h)
  BY DEF Asks, F!TypeOK, F!Begins, F!Reads
<1>2. \A g \in Handlers \ {h} : Aims(g)'
  BY DEF HandlersAim, Aims, F!TypeOK, F!Begins
<1>3. QED
  BY <1>1, <1>2 DEF HandlersAim

LEMMA DriverCallStep ==
    ASSUME F!TypeOK, HandlersAim, NEW h \in Handlers, F!DriverCall(h)
    PROVE  Asks(h) /\ HandlersAim'
<1>1. ASSUME NEW t \in Tenants, NEW k \in Keys, NEW u \in Users \cup {None},
             F!DriverCreateRead(h, t, k, u)
      PROVE  Asks(h) /\ HandlersAim'
  <2> DEFINE r == [F!NoRequest EXCEPT !.pc = "driverDraw", !.tenant = t, !.key = k, !.userId = u]
  <2>1. r \in F!Request
    BY DEF F!NoRequest, F!Request, F!Pc
  <2>2. fleetReq'[h] = r
    BY <1>1 DEF F!DriverCreateRead, F!Begins, F!TypeOK
  <2>3. Aims(h)'
    BY <1>1, <2>2 DEF Aims, F!NoRequest, F!DriverCreateRead, F!MayDrive, F!UsersOf
  <2>4. QED
    BY <1>1, <2>1, <2>3, BeginStep DEF F!DriverCreateRead
<1>2. ASSUME NEW k \in Keys, NEW u \in Users, F!RegisterRead(h, k, u)
      PROVE  Asks(h) /\ HandlersAim'
  <2> DEFINE r == [F!NoRequest EXCEPT !.pc = "driverDraw", !.tenant = TenantOf[u], !.key = k,
                                      !.userId = u, !.registers = TRUE]
  <2>1. TenantOf[u] \in Tenants /\ u # None
    BY <1>2, RowsConfig DEF F!RegisterRead
  <2>2. r \in F!Request
    BY <2>1 DEF F!NoRequest, F!Request, F!Pc
  <2>3. fleetReq'[h] = r
    BY <1>2 DEF F!RegisterRead, F!Begins, F!TypeOK
  <2>4. Aims(h)'
    BY <1>2, <2>1, <2>3 DEF Aims, F!NoRequest
  <2>5. QED
    BY <1>2, <2>2, <2>4, BeginStep DEF F!RegisterRead
<1>3. ASSUME NEW t \in Tenants, NEW d \in Drivers, NEW k \in Keys \cup {None},
             NEW u \in Users \cup {None}, F!DriverUpdateRead(h, t, d, k, u)
      PROVE  Asks(h) /\ HandlersAim'
  <2> DEFINE r == [F!NoRequest EXCEPT !.pc = "driverUpdate", !.tenant = t, !.id = d, !.key = k,
                                      !.userId = u]
  <2>1. r \in F!Request
    BY DEF F!NoRequest, F!Request, F!Pc, F!Rows
  <2>2. fleetReq'[h] = r
    BY <1>3 DEF F!DriverUpdateRead, F!Begins, F!TypeOK
  <2>3. Aims(h)'
    BY <1>3, <2>2 DEF Aims, F!NoRequest, F!DriverUpdateRead, F!MayDrive, F!UsersOf,
           F!DriversOf
  <2>4. QED
    BY <1>3, <2>1, <2>3, BeginStep DEF F!DriverUpdateRead
<1>4. ASSUME NEW t \in Tenants, NEW d \in Drivers, F!DriverRemoveRead(h, t, d)
      PROVE  Asks(h) /\ HandlersAim'
  <2> DEFINE r == [F!NoRequest EXCEPT !.pc = "driverRemove", !.tenant = t, !.id = d]
  <2>1. r \in F!Request
    BY DEF F!NoRequest, F!Request, F!Pc, F!Rows
  <2>2. fleetReq'[h] = r
    BY <1>4 DEF F!DriverRemoveRead, F!Begins, F!TypeOK
  <2>3. Aims(h)'
    BY <2>2 DEF Aims, F!NoRequest
  <2>4. QED
    BY <1>4, <2>1, <2>3, BeginStep DEF F!DriverRemoveRead
<1>5. QED
  BY <1>1, <1>2, <1>3, <1>4 DEF F!DriverCall

LEMMA VehicleCallStep ==
    ASSUME F!TypeOK, HandlersAim, NEW h \in Handlers, F!VehicleCall(h)
    PROVE  Asks(h) /\ HandlersAim'
<1>1. ASSUME NEW t \in Tenants, NEW k \in Keys, NEW d \in Drivers, NEW c \in Categories,
             F!VehicleCreateRead(h, t, k, d, c)
      PROVE  Asks(h) /\ HandlersAim'
  <2> DEFINE r == [F!NoRequest EXCEPT !.pc = "vehicleDraw", !.tenant = t, !.key = k,
                                      !.driverId = d, !.categoryId = c]
  <2>1. r \in F!Request
    BY DEF F!NoRequest, F!Request, F!Pc, F!Rows
  <2>2. fleetReq'[h] = r
    BY <1>1 DEF F!VehicleCreateRead, F!Begins, F!TypeOK
  <2>3. Aims(h)'
    BY <1>1, <2>2, RowsConfig DEF Aims, F!NoRequest, F!VehicleCreateRead, F!Belong,
           F!DriversOf, F!CategoriesOf
  <2>4. QED
    BY <1>1, <2>1, <2>3, BeginStep DEF F!VehicleCreateRead
<1>2. ASSUME NEW t \in Tenants, NEW v \in Vehicles, NEW k \in Keys \cup {None},
             NEW d \in Drivers \cup {None}, NEW c \in Categories \cup {None},
             F!VehicleUpdateRead(h, t, v, k, d, c)
      PROVE  Asks(h) /\ HandlersAim'
  <2> DEFINE r == [F!NoRequest EXCEPT !.pc = "vehicleUpdate", !.tenant = t, !.id = v,
                                      !.key = k, !.driverId = d, !.categoryId = c]
  <2>1. r \in F!Request
    BY DEF F!NoRequest, F!Request, F!Pc, F!Rows
  <2>2. fleetReq'[h] = r
    BY <1>2 DEF F!VehicleUpdateRead, F!Begins, F!TypeOK
  <2>3. Aims(h)'
    BY <1>2, <2>2 DEF Aims, F!NoRequest, F!VehicleUpdateRead, F!Belong, F!DriversOf,
           F!CategoriesOf, F!VehiclesOf
  <2>4. QED
    BY <1>2, <2>1, <2>3, BeginStep DEF F!VehicleUpdateRead
<1>3. ASSUME NEW t \in Tenants, NEW v \in Vehicles,
             F!VehicleRemoveRead(h, t, v)
      PROVE  Asks(h) /\ HandlersAim'
  <2> DEFINE r == [F!NoRequest EXCEPT !.pc = "vehicleRemove", !.tenant = t, !.id = v]
  <2>1. r \in F!Request
    BY DEF F!NoRequest, F!Request, F!Pc, F!Rows
  <2>2. fleetReq'[h] = r
    BY <1>3 DEF F!VehicleRemoveRead, F!Begins, F!TypeOK
  <2>3. Aims(h)'
    BY <1>3, <2>2 DEF Aims, F!NoRequest, F!VehicleRemoveRead
  <2>4. QED
    BY <1>3, <2>1, <2>3, BeginStep DEF F!VehicleRemoveRead
<1>4. QED
  BY <1>1, <1>2, <1>3 DEF F!VehicleCall

LEMMA CategoryCallStep ==
    ASSUME F!TypeOK, HandlersAim, NEW h \in Handlers, F!CategoryCall(h)
    PROVE  Asks(h) /\ HandlersAim'
<1>1. ASSUME NEW t \in Tenants, NEW k \in Keys,
             F!CategoryCreateRead(h, t, k)
      PROVE  Asks(h) /\ HandlersAim'
  <2> DEFINE r == [F!NoRequest EXCEPT !.pc = "categoryInsert", !.tenant = t, !.key = k]
  <2>1. r \in F!Request
    BY DEF F!NoRequest, F!Request, F!Pc, F!Rows
  <2>2. fleetReq'[h] = r
    BY <1>1 DEF F!CategoryCreateRead, F!Begins, F!TypeOK
  <2>3. Aims(h)'
    BY <1>1, <2>2 DEF Aims, F!NoRequest, F!CategoryCreateRead
  <2>4. QED
    BY <1>1, <2>1, <2>3, BeginStep DEF F!CategoryCreateRead
<1>2. ASSUME NEW t \in Tenants, NEW c \in Categories, NEW k \in Keys,
             F!CategoryUpdateRead(h, t, c, k)
      PROVE  Asks(h) /\ HandlersAim'
  <2> DEFINE r == [F!NoRequest EXCEPT !.pc = "categoryUpdate", !.tenant = t, !.id = c,
                                      !.key = k]
  <2>1. r \in F!Request
    BY DEF F!NoRequest, F!Request, F!Pc, F!Rows
  <2>2. fleetReq'[h] = r
    BY <1>2 DEF F!CategoryUpdateRead, F!Begins, F!TypeOK
  <2>3. Aims(h)'
    BY <1>2, <2>2 DEF Aims, F!NoRequest, F!CategoryUpdateRead
  <2>4. QED
    BY <1>2, <2>1, <2>3, BeginStep DEF F!CategoryUpdateRead
<1>3. ASSUME NEW t \in Tenants, NEW c \in Categories,
             F!CategoryRemoveRead(h, t, c)
      PROVE  Asks(h) /\ HandlersAim'
  <2> DEFINE r == [F!NoRequest EXCEPT !.pc = "categoryRemove", !.tenant = t, !.id = c]
  <2>1. r \in F!Request
    BY DEF F!NoRequest, F!Request, F!Pc, F!Rows
  <2>2. fleetReq'[h] = r
    BY <1>3 DEF F!CategoryRemoveRead, F!Begins, F!TypeOK
  <2>3. Aims(h)'
    BY <1>3, <2>2 DEF Aims, F!NoRequest, F!CategoryRemoveRead
  <2>4. QED
    BY <1>3, <2>1, <2>3, BeginStep DEF F!CategoryRemoveRead
<1>4. QED
  BY <1>1, <1>2, <1>3 DEF F!CategoryCall

-----------------------------------------------------------------------------
(* Writes: the handler ends, the others go on with what they carry.        *)

LEMMA EndStep ==
    ASSUME F!TypeOK, HandlersAim, NEW h \in Handlers, F!Ends(h)
    PROVE  /\ fleetReq' \in [Handlers -> F!Request]
           /\ HandlersAim'
<1>1. F!NoRequest \in F!Request
  BY RequestsAreTyped
<1>2. \A g \in Handlers \ {h} : Aims(g)'
  BY DEF HandlersAim, Aims, F!TypeOK, F!Ends
<1>3. Aims(h)'
  BY DEF Aims, F!TypeOK, F!Ends, F!NoRequest
<1>4. QED
  BY <1>1, <1>2, <1>3 DEF HandlersAim, F!Ends, F!TypeOK

LEMMA DrawStep ==
    ASSUME F!TypeOK, HandlersAim, NEW h \in Handlers,
           \/ F!Draw(h, "DRIVER", "driverDraw", "driverInsert")
           \/ F!Draw(h, "VEHICLE", "vehicleDraw", "vehicleInsert")
    PROVE  /\ F!TypeOK' /\ HandlersAim' /\ UNCHANGED F!tables
           /\ \A s \in F!Kinds \X Tenants : sequence'[s].nextValue = sequence[s].nextValue
<1>1. PICK kind \in F!Kinds, pc \in F!Pc, next \in F!Pc :
         /\ F!Draw(h, kind, pc, next)
         /\ <<pc, next>> \in {<<"driverDraw", "driverInsert">>, <<"vehicleDraw", "vehicleInsert">>}
  BY DEF F!Kinds, F!Pc
<1>2. /\ fleetReq[h] \in F!Request /\ fleetReq[h].pc = pc
      /\ fleetReq' = [fleetReq EXCEPT ![h].pc = next]
      /\ UNCHANGED F!tables
  BY <1>1, RequestsAreTyped DEF F!Draw, F!At, F!GoesTo
<1>3. fleetReq' \in [Handlers -> F!Request]
  BY <1>2, RequestsAreTyped DEF F!TypeOK
<1>4. Aims(h) /\ Aims(h)'
  <2>1. Aims(h)
    BY DEF HandlersAim
  <2>2. fleetReq'[h] = [fleetReq[h] EXCEPT !.pc = next]
    BY <1>2 DEF F!TypeOK
  <2>3. /\ fleetReq'[h].pc = next /\ fleetReq'[h].tenant = fleetReq[h].tenant
        /\ fleetReq'[h].userId = fleetReq[h].userId
        /\ fleetReq'[h].registers = fleetReq[h].registers
        /\ fleetReq'[h].driverId = fleetReq[h].driverId
        /\ fleetReq'[h].categoryId = fleetReq[h].categoryId
    BY <1>2, <2>2 DEF F!Request
  <2>4. Aims(h)'
    BY <1>1, <1>2, <2>1, <2>3 DEF Aims
  <2>5. QED
    BY <2>1, <2>4
<1>5. HandlersAim'
  <2>1. \A g \in Handlers \ {h} : Aims(g)'
    BY <1>2 DEF HandlersAim, Aims, F!TypeOK
  <2>2. QED
    BY <1>4, <2>1 DEF HandlersAim
<1>6. fleetReq[h].tenant \in Tenants
  BY <1>1, <1>2, <1>4 DEF Aims
<1>7. PICK s \in F!Kinds \X Tenants : sequence' = [sequence EXCEPT ![s].holder = h]
  BY <1>1, <1>6 DEF F!Draw
<1>8. /\ sequence' \in [F!Kinds \X Tenants -> F!Sequence]
      /\ \A q \in F!Kinds \X Tenants : sequence'[q].nextValue = sequence[q].nextValue
  BY <1>7 DEF F!TypeOK, F!Sequence
<1>9. QED
  BY <1>2, <1>3, <1>5, <1>8 DEF F!TypeOK, F!tables

LEMMA DiesStep ==
    ASSUME F!TypeOK, HandlersAim, NEW h \in Handlers, F!Dies(h)
    PROVE  /\ F!TypeOK' /\ HandlersAim' /\ UNCHANGED F!tables
           /\ \A s \in F!Kinds \X Tenants : sequence'[s].nextValue = sequence[s].nextValue
<1>1. fleetReq' \in [Handlers -> F!Request] /\ HandlersAim'
  BY EndStep DEF F!Dies
<1>2. \A s \in F!Kinds \X Tenants :
         sequence[s] \in F!Sequence /\ [sequence[s] EXCEPT !.holder = None] \in F!Sequence
  BY DEF F!TypeOK, F!Sequence
<1>3. \A s \in F!Kinds \X Tenants :
         [sequence[s] EXCEPT !.holder = None].nextValue = sequence[s].nextValue
  BY <1>2 DEF F!Sequence
<1>4. sequence' = F!RolledBack(h)
  BY DEF F!Dies
<1>5. /\ sequence' \in [F!Kinds \X Tenants -> F!Sequence]
      /\ \A s \in F!Kinds \X Tenants : sequence'[s].nextValue = sequence[s].nextValue
  BY <1>2, <1>3, <1>4 DEF F!RolledBack
<1>6. QED
  BY <1>1, <1>5 DEF F!Dies, F!tables, F!TypeOK

LEMMA CommitStep ==
    ASSUME F!TypeOK, NEW h \in Handlers, NEW kind \in F!Kinds, fleetReq[h].tenant \in Tenants,
           F!Commits(h, kind)
    PROVE  LET s == <<kind, fleetReq[h].tenant>> IN
           /\ sequence' \in [F!Kinds \X Tenants -> F!Sequence]
           /\ sequence'[s].nextValue = sequence[s].nextValue + 1
           /\ \A q \in (F!Kinds \X Tenants) \ {s} : sequence'[q] = sequence[q]
           /\ F!Drawn(h, kind) \in Nat
<1> DEFINE s == <<kind, fleetReq[h].tenant>>
<1>1. s \in F!Kinds \X Tenants
  OBVIOUS
<1>2. sequence[s].nextValue \in Nat
  BY <1>1 DEF F!TypeOK, F!Sequence
<1>3. sequence' = [sequence EXCEPT ![s] = [nextValue |-> sequence[s].nextValue + 1,
                                           holder |-> None]]
  BY <1>1 DEF F!Commits, F!TypeOK
<1>4. [nextValue |-> sequence[s].nextValue + 1, holder |-> None] \in F!Sequence
  BY <1>2 DEF F!Sequence
<1>5. QED
  BY <1>1, <1>2, <1>3, <1>4 DEF F!TypeOK, F!Drawn

LEMMA DriverInsertTypes ==
    ASSUME F!TypeOK, HandlersAim, NEW h \in Handlers, F!DriverInsert(h)
    PROVE  F!TypeOK' /\ HandlersAim'
<1>1. fleetReq' \in [Handlers -> F!Request] /\ HandlersAim'
  BY EndStep DEF F!DriverInsert
<1>2. Aims(h) /\ fleetReq[h] \in F!Request /\ fleetReq[h].pc = "driverInsert"
  BY RequestsAreTyped DEF HandlersAim, F!DriverInsert, F!At
<1>3. sequence' \in [F!Kinds \X Tenants -> F!Sequence] /\ F!Drawn(h, "DRIVER") \in Nat
  BY <1>2, CommitStep DEF F!DriverInsert, Aims, F!Kinds
<1>4. driver' \in [Drivers -> F!Driver]
  <2>1. [state |-> "live", cpf |-> fleetReq[h].key, userId |-> fleetReq[h].userId,
         code |-> F!Drawn(h, "DRIVER")] \in F!Driver
    BY <1>2, <1>3 DEF F!Driver, F!State, F!Request
  <2>2. QED
    BY <2>1 DEF F!DriverInsert, F!TypeOK
<1>5. fleetUser' \in [Users -> {"unborn", "driver", "other", "removed"}]
  BY DEF F!DriverInsert, F!TypeOK
<1>6. QED
  BY <1>1, <1>3, <1>4, <1>5 DEF F!DriverInsert, F!TypeOK

LEMMA VehicleInsertTypes ==
    ASSUME F!TypeOK, HandlersAim, NEW h \in Handlers, F!VehicleInsert(h)
    PROVE  F!TypeOK' /\ HandlersAim'
<1>1. fleetReq' \in [Handlers -> F!Request] /\ HandlersAim'
  BY EndStep DEF F!VehicleInsert
<1>2. Aims(h) /\ fleetReq[h] \in F!Request /\ fleetReq[h].pc = "vehicleInsert"
  BY RequestsAreTyped DEF HandlersAim, F!VehicleInsert, F!At
<1>3. sequence' \in [F!Kinds \X Tenants -> F!Sequence] /\ F!Drawn(h, "VEHICLE") \in Nat
  BY <1>2, CommitStep DEF F!VehicleInsert, Aims, F!Kinds
<1>4. vehicle' \in [Vehicles -> F!Vehicle]
  <2>1. [state |-> "live", plate |-> fleetReq[h].key, driverId |-> fleetReq[h].driverId,
         categoryId |-> fleetReq[h].categoryId, code |-> F!Drawn(h, "VEHICLE")] \in F!Vehicle
    BY <1>2, <1>3 DEF F!Vehicle, F!State, F!Request
  <2>2. QED
    BY <2>1 DEF F!VehicleInsert, F!TypeOK
<1>5. QED
  BY <1>1, <1>3, <1>4 DEF F!VehicleInsert, F!TypeOK

LEMMA CategoryInsertTypes ==
    ASSUME F!TypeOK, HandlersAim, NEW h \in Handlers, F!CategoryInsert(h)
    PROVE  F!TypeOK' /\ HandlersAim'
<1>1. fleetReq' \in [Handlers -> F!Request] /\ HandlersAim'
  BY EndStep DEF F!CategoryInsert
<1>2. fleetReq[h] \in F!Request
  BY RequestsAreTyped
<1>3. category' \in [Categories -> F!Category]
  BY <1>2 DEF F!CategoryInsert, F!TypeOK, F!Category, F!State, F!Request
<1>4. QED
  BY <1>1, <1>3 DEF F!CategoryInsert, F!TypeOK

\* What the writes to a row that is there do to it.
LEMMA DriverWritesTypes ==
    ASSUME F!TypeOK, HandlersAim, NEW h \in Handlers, F!DriverUpdateWrite(h) \/ F!DriverRemoveWrite(h)
    PROVE  F!TypeOK' /\ HandlersAim'
<1>1. fleetReq' \in [Handlers -> F!Request] /\ HandlersAim'
  BY EndStep DEF F!DriverUpdateWrite, F!DriverRemoveWrite
<1>2. fleetReq[h] \in F!Request
  BY RequestsAreTyped
<1>3. driver' \in [Drivers -> F!Driver]
  <2>1. ASSUME NEW d \in Drivers
        PROVE  /\ [driver[d] EXCEPT !.cpf = F!Or(fleetReq[h].key, driver[d].cpf),
                                   !.userId = F!Or(fleetReq[h].userId, driver[d].userId)]
                    \in F!Driver
               /\ [driver[d] EXCEPT !.state = "removed", !.cpf = None, !.userId = None] \in F!Driver
    <3>1. driver[d] \in F!Driver
      BY DEF F!TypeOK
    <3>2. /\ F!Or(fleetReq[h].key, driver[d].cpf) \in Keys \cup {None}
          /\ F!Or(fleetReq[h].userId, driver[d].userId) \in Users \cup {None}
      BY <1>2, <3>1 DEF F!Driver, F!Request, F!Or
    <3>3. QED
      BY <3>1, <3>2 DEF F!Driver, F!State
  <2>2. driver \in [Drivers -> F!Driver]
    BY DEF F!TypeOK
  <2>3. CASE F!DriverUpdateWrite(h)
    <3> DEFINE i == fleetReq[h].id
               row == [driver[i] EXCEPT !.cpf = F!Or(fleetReq[h].key, driver[i].cpf),
                             !.userId = F!Or(fleetReq[h].userId, driver[i].userId)]
    <3>1. driver' = [driver EXCEPT ![i] = row]
      BY <2>3 DEF F!DriverUpdateWrite
    <3>2. i \in Drivers
      BY <2>3 DEF F!DriverUpdateWrite, HandlersAim, Aims, F!At
    <3>3. row \in F!Driver
      BY <2>1, <3>2
    <3> HIDE DEF i, row
    <3>4. QED
      BY <2>2, <3>1, <3>3
  <2>4. CASE F!DriverRemoveWrite(h)
    BY <2>1, <2>2, <2>4 DEF F!DriverRemoveWrite
  <2>5. QED
    BY <2>3, <2>4
<1>4. QED
  BY <1>1, <1>3 DEF F!DriverUpdateWrite, F!DriverRemoveWrite, F!TypeOK

LEMMA VehicleWritesTypes ==
    ASSUME F!TypeOK, HandlersAim, NEW h \in Handlers, F!VehicleUpdateWrite(h) \/ F!VehicleRemoveWrite(h)
    PROVE  F!TypeOK' /\ HandlersAim'
<1>1. fleetReq' \in [Handlers -> F!Request] /\ HandlersAim'
  BY EndStep DEF F!VehicleUpdateWrite, F!VehicleRemoveWrite
<1>2. fleetReq[h] \in F!Request
  BY RequestsAreTyped
<1>3. vehicle' \in [Vehicles -> F!Vehicle]
  <2>1. ASSUME NEW v \in Vehicles
        PROVE  /\ [vehicle[v] EXCEPT !.plate = F!Or(fleetReq[h].key, vehicle[v].plate),
                                     !.driverId = F!Or(fleetReq[h].driverId, vehicle[v].driverId),
                                     !.categoryId = F!Or(fleetReq[h].categoryId, vehicle[v].categoryId)] \in F!Vehicle
               /\ [state |-> "removed", plate |-> None, driverId |-> None, categoryId |-> None,
                   code |-> vehicle[v].code] \in F!Vehicle
    <3>1. vehicle[v] \in F!Vehicle
      BY DEF F!TypeOK
    <3>2. /\ F!Or(fleetReq[h].key, vehicle[v].plate) \in Keys \cup {None}
          /\ F!Or(fleetReq[h].driverId, vehicle[v].driverId) \in Drivers \cup {None}
          /\ F!Or(fleetReq[h].categoryId, vehicle[v].categoryId) \in Categories \cup {None}
      BY <1>2, <3>1 DEF F!Vehicle, F!Request, F!Or
    <3>3. QED
      BY <3>1, <3>2 DEF F!Vehicle, F!State
  <2>2. vehicle \in [Vehicles -> F!Vehicle]
    BY DEF F!TypeOK
  <2>3. CASE F!VehicleUpdateWrite(h)
    <3> DEFINE i == fleetReq[h].id
               row == [vehicle[i] EXCEPT !.plate = F!Or(fleetReq[h].key, vehicle[i].plate),
                             !.driverId = F!Or(fleetReq[h].driverId, vehicle[i].driverId),
                             !.categoryId = F!Or(fleetReq[h].categoryId, vehicle[i].categoryId)]
    <3>1. vehicle' = [vehicle EXCEPT ![i] = row]
      BY <2>3 DEF F!VehicleUpdateWrite
    <3>2. i \in Vehicles
      BY <2>3 DEF F!VehicleUpdateWrite, HandlersAim, Aims, F!At
    <3>3. row \in F!Vehicle
      BY <2>1, <3>2
    <3> HIDE DEF i, row
    <3>4. QED
      BY <2>2, <3>1, <3>3
  <2>4. CASE F!VehicleRemoveWrite(h)
    BY <2>1, <2>2, <2>4 DEF F!VehicleRemoveWrite
  <2>5. QED
    BY <2>3, <2>4
<1>4. QED
  BY <1>1, <1>3 DEF F!VehicleUpdateWrite, F!VehicleRemoveWrite, F!TypeOK

LEMMA CategoryWritesTypes ==
    ASSUME F!TypeOK, HandlersAim, NEW h \in Handlers,
           F!CategoryUpdateWrite(h) \/ F!CategoryRemoveWrite(h)
    PROVE  F!TypeOK' /\ HandlersAim'
<1>1. fleetReq' \in [Handlers -> F!Request] /\ HandlersAim'
  BY EndStep DEF F!CategoryUpdateWrite, F!CategoryRemoveWrite
<1>2. fleetReq[h] \in F!Request
  BY RequestsAreTyped
<1>3. category' \in [Categories -> F!Category]
  BY <1>2 DEF F!CategoryUpdateWrite, F!CategoryRemoveWrite, F!TypeOK, F!Category,
         F!State, F!Request
<1>4. QED
  BY <1>1, <1>3 DEF F!CategoryUpdateWrite, F!CategoryRemoveWrite, F!TypeOK

LEMMA UserTypes ==
    ASSUME F!TypeOK, HandlersAim, NEW u \in Users, F!UserRoleChanges(u) \/ F!UserLeaves(u)
    PROVE  F!TypeOK' /\ HandlersAim'
<1>1. HandlersAim'
  BY DEF F!UserRoleChanges, F!UserLeaves, HandlersAim, Aims
<1>2. CASE F!UserRoleChanges(u)
  BY <1>1, <1>2 DEF F!UserRoleChanges, F!TypeOK
<1>3. CASE F!UserLeaves(u)
  BY <1>1, <1>3 DEF F!UserLeaves, F!TypeOK, F!Driver
<1>4. QED
  BY <1>2, <1>3

-----------------------------------------------------------------------------
(* FleetIsWhole, in its two parts.                                         *)

VehiclesAreWhole ==
    \A v \in Vehicles : vehicle[v].state = "live" =>
      /\ vehicle[v].driverId \in F!DriversOf(TenantOf[v])
      /\ vehicle[v].categoryId \in F!CategoriesOf(TenantOf[v])

DriversAreWhole ==
    \A d \in Drivers : driver[d].state = "live" /\ driver[d].userId # None =>
      driver[d].userId \in F!UsersOf(TenantOf[d]) /\ F!UserFree(driver[d].userId, d)

\* What refers to vehicles is untouched when no row that is referenced goes away.
LEMMA ReferencedStay ==
    ASSUME VehiclesAreWhole, vehicle' = vehicle,
           \A d \in Drivers : driver[d].state = "live" /\ F!Referenced(d) => driver'[d].state = "live",
           \A c \in Categories :
             category[c].state = "live" /\ F!Referenced(c) => category'[c].state = "live"
    PROVE  VehiclesAreWhole'
BY DEF VehiclesAreWhole, F!DriversOf, F!CategoriesOf, F!Referenced

\* A row that is written as a vehicle, and what its foreign keys have checked.
LEMMA VehicleWritten ==
    ASSUME VehiclesAreWhole, NEW i \in Vehicles, driver' = driver, category' = category,
           \A v \in Vehicles \ {i} : vehicle'[v] = vehicle[v],
           vehicle'[i].state = "live" =>
             /\ vehicle'[i].driverId \in F!DriversOf(TenantOf[i])
             /\ vehicle'[i].categoryId \in F!CategoriesOf(TenantOf[i])
    PROVE  VehiclesAreWhole'
BY DEF VehiclesAreWhole, F!DriversOf, F!CategoriesOf

\* A row that is written as a driver, with a user that is free.
LEMMA DriverWritten ==
    ASSUME DriversAreWhole, NEW i \in Drivers,
           \A u \in Users : F!UserExists(u) => F!UserExists(u)',
           \A d \in Drivers \ {i} : driver'[d] = driver[d],
           driver'[i].state = "live" /\ driver'[i].userId # None =>
             /\ driver'[i].userId \in F!UsersOf(TenantOf[i])'
             /\ F!UserFree(driver'[i].userId, i)
    PROVE  DriversAreWhole'
<1>1. ASSUME NEW d \in Drivers, driver'[d].state = "live", driver'[d].userId # None
      PROVE  driver'[d].userId \in F!UsersOf(TenantOf[d])' /\ F!UserFree(driver[d].userId, d)'
  <2>1. CASE d = i
    BY <1>1, <2>1 DEF F!UserFree
  <2>2. CASE d # i
    <3>1. /\ driver[d].userId \in F!UsersOf(TenantOf[d])
          /\ F!UserFree(driver[d].userId, d)
          /\ driver'[d] = driver[d]
      BY <1>1, <2>2 DEF DriversAreWhole
    <3>2. driver'[d].userId \in F!UsersOf(TenantOf[d])'
      BY <3>1 DEF F!UsersOf, F!UserExists
    <3>3. driver'[i].state = "live" => driver'[i].userId # driver[d].userId
      BY <1>1, <2>2, <3>1 DEF F!UserFree
    <3>4. F!UserFree(driver[d].userId, d)'
      BY <2>2, <3>1, <3>3 DEF F!UserFree
    <3>5. QED
      BY <3>2, <3>4
  <2>3. QED
    BY <2>1, <2>2
<1>2. QED
  BY <1>1 DEF DriversAreWhole

LEMMA DriverInsertWhole ==
    ASSUME F!TypeOK, HandlersAim, VehiclesAreWhole, DriversAreWhole,
           NEW h \in Handlers, F!DriverInsert(h)
    PROVE  VehiclesAreWhole' /\ DriversAreWhole'
<1>0. PICK u : u = fleetReq[h].userId
  OBVIOUS
<1>1. Aims(h) /\ fleetReq[h] \in F!Request /\ fleetReq[h].pc = "driverInsert"
  BY RequestsAreTyped DEF HandlersAim, F!DriverInsert, F!At
<1>2. PICK i \in Drivers :
        /\ driver[i].state = "unborn" /\ TenantOf[i] = fleetReq[h].tenant
        /\ driver' = [driver EXCEPT ![i] = [state |-> "live", cpf |-> fleetReq[h].key,
                                            userId |-> fleetReq[h].userId,
                                            code |-> F!Drawn(h, "DRIVER")]]
  BY DEF F!DriverInsert
<1>3. /\ driver'[i].state = "live" /\ driver'[i].userId = u
      /\ \A d \in Drivers \ {i} : driver'[d] = driver[d]
  BY <1>0, <1>2 DEF F!TypeOK
<1>4. VehiclesAreWhole'
  <2>1. \A d \in Drivers : driver[d].state = "live" => driver'[d].state = "live"
    BY <1>3
  <2>2. QED
    BY <2>1, ReferencedStay DEF F!DriverInsert
<1>5. DriversAreWhole'
  <2>1. CASE fleetReq[h].registers
    <3>1. u \in Users /\ TenantOf[u] = TenantOf[i] /\ u # None
      BY <1>0, <1>1, <1>2, <2>1 DEF Aims
    <3>2. fleetUser[u] = "unborn" /\ fleetUser' = [fleetUser EXCEPT ![u] = "driver"]
      BY <1>0, <2>1, <3>1 DEF F!DriverInsert
    <3>3. F!UserFree(u, i)
      BY <3>1, <3>2 DEF DriversAreWhole, F!UsersOf, F!UserFree
    <3>4. u \in F!UsersOf(TenantOf[i])'
      BY <3>1, <3>2 DEF F!UsersOf, F!TypeOK
    <3>5. \A w \in Users : F!UserExists(w) => F!UserExists(w)'
      BY <3>1, <3>2 DEF F!UserExists, F!TypeOK
    <3>6. QED
      BY <1>3, <3>3, <3>4, <3>5, DriverWritten
  <2>2. CASE ~ fleetReq[h].registers
    <3>1. fleetUser' = fleetUser
      BY <2>2 DEF F!DriverInsert
    <3>2. u # None => /\ F!UserFree(u, None) /\ F!UserExists(u) /\ u \in Users
                      /\ TenantOf[u] = TenantOf[i]
      BY <1>0, <1>1, <1>2, <2>2 DEF F!DriverInsert, Aims
    <3>3. u # None => u \in F!UsersOf(TenantOf[i])' /\ F!UserFree(u, i)
      BY <3>1, <3>2, RowsConfig DEF F!UsersOf, F!UserExists, F!UserFree
    <3>4. QED
      BY <1>3, <3>1, <3>3, DriverWritten DEF F!UserExists
  <2>3. QED
    BY <2>1, <2>2
<1>6. QED
  BY <1>4, <1>5

LEMMA DriverUpdateWhole ==
    ASSUME F!TypeOK, HandlersAim, VehiclesAreWhole, DriversAreWhole,
           NEW h \in Handlers, F!DriverUpdateWrite(h)
    PROVE  VehiclesAreWhole' /\ DriversAreWhole'
<1>1. PICK i \in Drivers, u \in Users \cup {None} :
      /\ i = fleetReq[h].id /\ u = fleetReq[h].userId /\ TenantOf[i] = fleetReq[h].tenant
      /\ u # None => u \in Users /\ TenantOf[u] = fleetReq[h].tenant
  BY DEF HandlersAim, Aims, F!DriverUpdateWrite, F!At
<1>2. driver[i] \in F!Driver
  BY <1>1 DEF F!TypeOK
<1>3. /\ driver'[i].state = "live" /\ driver'[i].userId = F!Or(u, driver[i].userId)
      /\ \A d \in Drivers \ {i} : driver'[d] = driver[d]
  BY <1>1, <1>2 DEF F!DriverUpdateWrite, F!TypeOK, F!Driver
<1>4. VehiclesAreWhole'
  <2>1. \A d \in Drivers : driver[d].state = "live" => driver'[d].state = "live"
    BY <1>3
  <2>2. QED
    BY <2>1, ReferencedStay DEF F!DriverUpdateWrite
<1>5. fleetUser' = fleetUser
  BY DEF F!DriverUpdateWrite
<1>6. driver'[i].userId # None =>
        driver'[i].userId \in F!UsersOf(TenantOf[i])' /\ F!UserFree(driver'[i].userId, i)
  <2>1. CASE u = None
    BY <1>1, <1>3, <1>5, <2>1 DEF DriversAreWhole, F!UsersOf, F!Or, F!DriverUpdateWrite
  <2>2. CASE u # None
    BY <1>1, <1>3, <1>5, <2>2 DEF F!UsersOf, F!UserExists, F!Or, F!DriverUpdateWrite
  <2>3. QED
    BY <2>1, <2>2
<1>7. DriversAreWhole'
  BY <1>1, <1>3, <1>5, <1>6, DriverWritten DEF F!UserExists
<1>8. QED
  BY <1>4, <1>7

LEMMA DriverRemoveWhole ==
    ASSUME F!TypeOK, HandlersAim, VehiclesAreWhole, DriversAreWhole,
           NEW h \in Handlers, F!DriverRemoveWrite(h)
    PROVE  VehiclesAreWhole' /\ DriversAreWhole'
<1>1. PICK i \in Drivers : i = fleetReq[h].id /\ ~ F!Referenced(i)
  BY DEF HandlersAim, Aims, F!DriverRemoveWrite, F!At
<1>2. driver[i] \in F!Driver
  BY <1>1 DEF F!TypeOK
<1>3. /\ driver'[i].state = "removed"
      /\ \A d \in Drivers \ {i} : driver'[d] = driver[d]
  BY <1>1, <1>2 DEF F!DriverRemoveWrite, F!TypeOK, F!Driver
<1>4. VehiclesAreWhole'
  <2>1. \A d \in Drivers : driver[d].state = "live" /\ F!Referenced(d) => driver'[d].state = "live"
    BY <1>1, <1>3
  <2>2. QED
    BY <2>1, ReferencedStay DEF F!DriverRemoveWrite
<1>5. DriversAreWhole'
  BY <1>1, <1>3, DriverWritten DEF F!UserExists, F!DriverRemoveWrite
<1>6. QED
  BY <1>4, <1>5

\* Vehicles do not concern the users of drivers.
LEMMA UsersUntouched ==
    ASSUME DriversAreWhole, driver' = driver, fleetUser' = fleetUser
    PROVE  DriversAreWhole'
BY DEF DriversAreWhole, F!UsersOf, F!UserFree

LEMMA VehicleInsertWhole ==
    ASSUME F!TypeOK, HandlersAim, VehiclesAreWhole, DriversAreWhole,
           NEW h \in Handlers, F!VehicleInsert(h)
    PROVE  VehiclesAreWhole' /\ DriversAreWhole'
<1>1. PICK t \in Tenants, d \in Drivers, c \in Categories :
        /\ t = fleetReq[h].tenant /\ d = fleetReq[h].driverId /\ c = fleetReq[h].categoryId
        /\ TenantOf[d] = t /\ TenantOf[c] = t
  BY DEF HandlersAim, Aims, F!VehicleInsert, F!At
<1>2. d \in F!DriversOf(t) /\ c \in F!CategoriesOf(t)
  BY <1>1, RowsConfig DEF F!VehicleInsert, F!References, F!DriversOf, F!CategoriesOf
<1>3. PICK i \in Vehicles :
        /\ TenantOf[i] = fleetReq[h].tenant
        /\ vehicle' = [vehicle EXCEPT ![i] =
                         [state |-> "live", plate |-> fleetReq[h].key, driverId |-> fleetReq[h].driverId,
                          categoryId |-> fleetReq[h].categoryId, code |-> F!Drawn(h, "VEHICLE")]]
  BY DEF F!VehicleInsert
<1>4. /\ vehicle'[i].driverId = d /\ vehicle'[i].categoryId = c
      /\ \A v \in Vehicles \ {i} : vehicle'[v] = vehicle[v]
  BY <1>1, <1>3 DEF F!TypeOK
<1>5. VehiclesAreWhole'
  BY <1>1, <1>2, <1>3, <1>4, VehicleWritten DEF F!VehicleInsert
<1>6. QED
  BY <1>5, UsersUntouched DEF F!VehicleInsert

LEMMA VehicleUpdateWhole ==
    ASSUME F!TypeOK, HandlersAim, VehiclesAreWhole, DriversAreWhole,
           NEW h \in Handlers, F!VehicleUpdateWrite(h)
    PROVE  VehiclesAreWhole' /\ DriversAreWhole'
<1>1. PICK i \in Vehicles, d \in Drivers \cup {None}, c \in Categories \cup {None} :
        /\ i = fleetReq[h].id /\ d = fleetReq[h].driverId /\ c = fleetReq[h].categoryId
        /\ d # None => d \in Drivers /\ TenantOf[d] = TenantOf[i]
        /\ c # None => c \in Categories /\ TenantOf[c] = TenantOf[i]
  BY DEF HandlersAim, Aims, F!VehicleUpdateWrite, F!At
<1>2. /\ d # None => d \in F!DriversOf(TenantOf[i])
      /\ c # None => c \in F!CategoriesOf(TenantOf[i])
  BY <1>1 DEF F!VehicleUpdateWrite, F!References, F!DriversOf, F!CategoriesOf
<1>3. vehicle[i] \in F!Vehicle
  BY DEF F!TypeOK
<1>4. /\ vehicle[i].state = "live"
      /\ vehicle'[i].driverId = F!Or(d, vehicle[i].driverId)
      /\ vehicle'[i].categoryId = F!Or(c, vehicle[i].categoryId)
      /\ \A v \in Vehicles \ {i} : vehicle'[v] = vehicle[v]
  BY <1>1, <1>3 DEF F!VehicleUpdateWrite, F!TypeOK, F!Vehicle
<1>5. /\ vehicle'[i].driverId \in F!DriversOf(TenantOf[i])
      /\ vehicle'[i].categoryId \in F!CategoriesOf(TenantOf[i])
  BY <1>2, <1>4 DEF VehiclesAreWhole, F!Or
<1>6. VehiclesAreWhole'
  BY <1>4, <1>5, VehicleWritten DEF F!VehicleUpdateWrite
<1>7. QED
  BY <1>6, UsersUntouched DEF F!VehicleUpdateWrite

LEMMA VehicleRemoveWhole ==
    ASSUME F!TypeOK, HandlersAim, VehiclesAreWhole, DriversAreWhole,
           NEW h \in Handlers, F!VehicleRemoveWrite(h)
    PROVE  VehiclesAreWhole' /\ DriversAreWhole'
<1>1. PICK i \in Vehicles : i = fleetReq[h].id
  BY DEF HandlersAim, Aims, F!VehicleRemoveWrite, F!At
<1>2. /\ vehicle'[i].state = "removed"
      /\ \A v \in Vehicles \ {i} : vehicle'[v] = vehicle[v]
  BY <1>1 DEF F!VehicleRemoveWrite, F!TypeOK
<1>3. VehiclesAreWhole'
  BY <1>2, VehicleWritten DEF F!VehicleRemoveWrite
<1>4. QED
  BY <1>3, UsersUntouched DEF F!VehicleRemoveWrite

LEMMA CategoryWhole ==
    ASSUME F!TypeOK, HandlersAim, VehiclesAreWhole, DriversAreWhole, NEW h \in Handlers,
           F!CategoryInsert(h) \/ F!CategoryUpdateWrite(h) \/ F!CategoryRemoveWrite(h)
    PROVE  VehiclesAreWhole' /\ DriversAreWhole'
<1>1. \A c \in Categories :
        category[c].state = "live" /\ F!Referenced(c) => category'[c].state = "live"
  <2>1. CASE F!CategoryInsert(h)
    BY <2>1 DEF F!CategoryInsert, F!TypeOK, F!Category
  <2>2. CASE F!CategoryUpdateWrite(h)
    BY <2>2 DEF F!CategoryUpdateWrite, F!TypeOK, F!Category
  <2>3. CASE F!CategoryRemoveWrite(h)
    BY <2>3 DEF F!CategoryRemoveWrite, F!TypeOK, F!Category
  <2>4. QED
    BY <2>1, <2>2, <2>3
<1>2. driver' = driver /\ vehicle' = vehicle /\ fleetUser' = fleetUser
  BY DEF F!CategoryInsert, F!CategoryUpdateWrite, F!CategoryRemoveWrite
<1>3. QED
  BY <1>1, <1>2, ReferencedStay, UsersUntouched

LEMMA UserRoleWhole ==
    ASSUME F!TypeOK, VehiclesAreWhole, DriversAreWhole, NEW u \in Users, F!UserRoleChanges(u)
    PROVE  VehiclesAreWhole' /\ DriversAreWhole'
<1>1. VehiclesAreWhole'
  BY ReferencedStay DEF F!UserRoleChanges
<1>2. \A w \in Users : F!UserExists(w) => F!UserExists(w)'
  BY DEF F!UserRoleChanges, F!UserExists, F!TypeOK
<1>3. DriversAreWhole'
  BY <1>2 DEF DriversAreWhole, F!UsersOf, F!UserFree, F!UserExists, F!UserRoleChanges
<1>4. QED
  BY <1>1, <1>3

\* The schema clears the reference before it could dangle.
LEMMA UserLeavesWhole ==
    ASSUME F!TypeOK, VehiclesAreWhole, DriversAreWhole, NEW u \in Users, F!UserLeaves(u)
    PROVE  VehiclesAreWhole' /\ DriversAreWhole'
<1>1. ASSUME NEW d \in Drivers
      PROVE  /\ driver'[d].state = driver[d].state
             /\ driver'[d].userId = IF driver[d].userId = u THEN None ELSE driver[d].userId
  <2>1. driver[d] \in F!Driver
    BY DEF F!TypeOK
  <2>2. driver'[d] = IF driver[d].userId = u THEN [driver[d] EXCEPT !.userId = None]
                     ELSE driver[d]
    BY DEF F!UserLeaves
  <2>3. QED
    BY <2>1, <2>2 DEF F!Driver
<1>2. VehiclesAreWhole'
  BY <1>1, ReferencedStay DEF F!UserLeaves
<1>3. \A w \in Users \ {u} : F!UserExists(w) => F!UserExists(w)'
  BY DEF F!UserLeaves, F!UserExists, F!TypeOK
<1>4. ASSUME NEW d \in Drivers, driver'[d].state = "live", driver'[d].userId # None
      PROVE  driver'[d].userId \in F!UsersOf(TenantOf[d])' /\ F!UserFree(driver[d].userId, d)'
  <2>1. /\ driver[d].userId \in F!UsersOf(TenantOf[d]) /\ F!UserFree(driver[d].userId, d)
        /\ driver'[d].userId = driver[d].userId /\ driver[d].userId # u
    BY <1>1, <1>4 DEF DriversAreWhole
  <2>2. driver'[d].userId \in F!UsersOf(TenantOf[d])'
    BY <1>3, <2>1 DEF F!UsersOf, F!UserExists
  <2>3. F!UserFree(driver[d].userId, d)'
    BY <1>1, <1>4, <2>1 DEF F!UserFree
  <2>4. QED
    BY <2>2, <2>3
<1>5. DriversAreWhole'
  BY <1>4 DEF DriversAreWhole
<1>6. QED
  BY <1>2, <1>5

-----------------------------------------------------------------------------
(* The theorem. *)

FleetInv == F!TypeOK /\ HandlersAim /\ VehiclesAreWhole /\ DriversAreWhole

LEMMA FleetInit == F!Init => FleetInv
<1> SUFFICES ASSUME F!Init
             PROVE  FleetInv
  OBVIOUS
<1>1. F!TypeOK
  BY TypeInit
<1>2. HandlersAim
  BY DEF F!Init, F!NoRequest, HandlersAim, Aims
<1>3. VehiclesAreWhole /\ DriversAreWhole
  BY DEF F!Init, VehiclesAreWhole, DriversAreWhole
<1>4. QED
  BY <1>1, <1>2, <1>3 DEF FleetInv

\* What leaves the tables alone leaves them whole.
LEMMA TablesUntouched ==
    ASSUME VehiclesAreWhole, DriversAreWhole, UNCHANGED F!tables
    PROVE  VehiclesAreWhole' /\ DriversAreWhole'
<1>1. driver' = driver /\ vehicle' = vehicle /\ category' = category /\ fleetUser' = fleetUser
  BY DEF F!tables
<1>2. QED
  BY <1>1, ReferencedStay, UsersUntouched

LEMMA FleetStepKeeps ==
    ASSUME FleetInv, NEW h \in Handlers, F!FleetStep(h)
    PROVE  FleetInv'
<1>1. CASE \/ F!Draw(h, "DRIVER", "driverDraw", "driverInsert")
           \/ F!Draw(h, "VEHICLE", "vehicleDraw", "vehicleInsert")
  BY <1>1, DrawStep, TablesUntouched DEF FleetInv
<1>2. CASE F!DriverInsert(h)
  BY <1>2, DriverInsertTypes, DriverInsertWhole DEF FleetInv
<1>3. CASE F!DriverUpdateWrite(h)
  BY <1>3, DriverWritesTypes, DriverUpdateWhole DEF FleetInv
<1>4. CASE F!DriverRemoveWrite(h)
  BY <1>4, DriverWritesTypes, DriverRemoveWhole DEF FleetInv
<1>5. CASE F!VehicleInsert(h)
  BY <1>5, VehicleInsertTypes, VehicleInsertWhole DEF FleetInv
<1>6. CASE F!VehicleUpdateWrite(h)
  BY <1>6, VehicleWritesTypes, VehicleUpdateWhole DEF FleetInv
<1>7. CASE F!VehicleRemoveWrite(h)
  BY <1>7, VehicleWritesTypes, VehicleRemoveWhole DEF FleetInv
<1>8. CASE F!CategoryInsert(h)
  BY <1>8, CategoryInsertTypes, CategoryWhole DEF FleetInv
<1>9. CASE F!CategoryUpdateWrite(h) \/ F!CategoryRemoveWrite(h)
  BY <1>9, CategoryWritesTypes, CategoryWhole DEF FleetInv
<1>10. CASE F!Dies(h)
  BY <1>10, DiesStep, TablesUntouched DEF FleetInv
<1>11. QED
  BY <1>1, <1>2, <1>3, <1>4, <1>5, <1>6, <1>7, <1>8, <1>9, <1>10 DEF F!FleetStep

LEMMA FleetNext == FleetInv /\ [F!Next]_F!vars => FleetInv'
<1> SUFFICES ASSUME FleetInv, [F!Next]_F!vars
             PROVE  FleetInv'
  OBVIOUS
<1>1. CASE UNCHANGED F!vars
  BY <1>1 DEF F!vars, FleetInv, F!TypeOK, HandlersAim, Aims, VehiclesAreWhole,
         DriversAreWhole,
              F!DriversOf, F!CategoriesOf, F!UsersOf, F!UserFree
<1>2. ASSUME NEW h \in Handlers, F!DriverCall(h) \/ F!VehicleCall(h) \/ F!CategoryCall(h)
      PROVE  FleetInv'
  <2>1. Asks(h) /\ HandlersAim'
    BY <1>2, DriverCallStep, VehicleCallStep, CategoryCallStep DEF FleetInv
  <2>2. F!TypeOK'
    BY <2>1 DEF Asks, FleetInv, F!TypeOK
  <2>3. VehiclesAreWhole' /\ DriversAreWhole'
    BY <2>1, TablesUntouched DEF Asks, FleetInv, F!tables
  <2>4. QED
    BY <2>1, <2>2, <2>3 DEF FleetInv
<1>3. ASSUME NEW h \in Handlers, F!FleetStep(h)
      PROVE  FleetInv'
  BY <1>3, FleetStepKeeps
<1>4. ASSUME NEW u \in Users, F!UserRoleChanges(u) \/ F!UserLeaves(u)
      PROVE  FleetInv'
  BY <1>4, UserTypes, UserRoleWhole, UserLeavesWhole DEF FleetInv
<1>5. QED
  BY <1>1, <1>2, <1>3, <1>4 DEF F!Next

LEMMA FleetInvariant == F!Spec => []FleetInv
BY FleetInit, FleetNext, PTL DEF F!Spec

\* However handlers of any tenants overlap, fail and die, every reference of a
\* vehicle or driver is to a row that is there and of the same tenant, and no
\* user drives twice.
THEOREM ReferencesHold == F!Spec => []FleetIsWhole
<1>1. FleetInv => FleetIsWhole
  BY DEF FleetInv, VehiclesAreWhole, DriversAreWhole, FleetIsWhole, F!FleetIsWhole
<1>2. QED
  BY <1>1, FleetInvariant, PTL

-----------------------------------------------------------------------------
(* Numbers. *)

Begun == \A s \in F!Kinds \X Tenants : sequence[s].nextValue >= 1

DriverCodes ==
    \A t \in Tenants :
      F!Numbered({d \in Drivers : driver[d].state # "unborn" /\ TenantOf[d] = t},
               [d \in Drivers |-> driver[d].code], sequence[<<"DRIVER", t>>].nextValue)
VehicleCodes ==
    \A t \in Tenants :
      F!Numbered({v \in Vehicles : vehicle[v].state # "unborn" /\ TenantOf[v] = t},
               [v \in Vehicles |-> vehicle[v].code], sequence[<<"VEHICLE", t>>].nextValue)

CodesInv == FleetInv /\ Begun /\ DriverCodes /\ VehicleCodes

\* One more row takes the next number.
LEMMA NumberedNext ==
    ASSUME NEW ids, NEW code, NEW code2, NEW n \in Nat, n >= 1, F!Numbered(ids, code, n),
           NEW i, i \notin ids, code2[i] = n, \A j \in ids : code2[j] = code[j]
    PROVE  F!Numbered(ids \cup {i}, code2, n + 1)
<1>1. {code2[j] : j \in ids} = 1 .. (n - 1)
  BY DEF F!Numbered
<1>2. {code2[j] : j \in ids \cup {i}} = {code2[j] : j \in ids} \cup {n}
  OBVIOUS
<1>3. 1 .. (n - 1) \cup {n} = 1 .. ((n + 1) - 1)
  OBVIOUS
<1>4. ASSUME NEW j \in ids
      PROVE  code2[j] # n
  <2>1. code2[j] \in 1 .. (n - 1)
    BY <1>1
  <2>2. QED
    BY <2>1
<1>5. ASSUME NEW j \in ids \cup {i}, NEW k \in ids \cup {i}, code2[j] = code2[k]
      PROVE  j = k
  BY <1>4, <1>5 DEF F!Numbered
<1>6. QED
  BY <1>1, <1>2, <1>3, <1>5 DEF F!Numbered

LEMMA NumberedSame ==
    ASSUME NEW ids, NEW code, NEW code2, NEW n, F!Numbered(ids, code, n),
           \A j \in ids : code2[j] = code[j]
    PROVE  F!Numbered(ids, code2, n)
BY DEF F!Numbered

\* A step that numbers no driver, and one that numbers no vehicle.
LEMMA DriverCodesStay ==
    ASSUME DriverCodes,
           \A d \in Drivers : /\ driver'[d].state = "unborn" <=> driver[d].state = "unborn"
                             /\ driver'[d].code = driver[d].code,
           \A t \in Tenants : sequence'[<<"DRIVER", t>>].nextValue
                                = sequence[<<"DRIVER", t>>].nextValue
    PROVE  DriverCodes'
<1>1. [d \in Drivers |-> driver[d].code]' = [d \in Drivers |-> driver[d].code]
  OBVIOUS
<1>2. \A t \in Tenants : {d \in Drivers : driver'[d].state # "unborn" /\ TenantOf[d] = t}
                         = {d \in Drivers : driver[d].state # "unborn" /\ TenantOf[d] = t}
  OBVIOUS
<1>3. QED
  BY <1>1, <1>2 DEF DriverCodes

LEMMA VehicleCodesStay ==
    ASSUME VehicleCodes,
           \A v \in Vehicles : /\ vehicle'[v].state = "unborn" <=> vehicle[v].state = "unborn"
                              /\ vehicle'[v].code = vehicle[v].code,
           \A t \in Tenants : sequence'[<<"VEHICLE", t>>].nextValue
                                = sequence[<<"VEHICLE", t>>].nextValue
    PROVE  VehicleCodes'
<1>1. [v \in Vehicles |-> vehicle[v].code]' = [v \in Vehicles |-> vehicle[v].code]
  OBVIOUS
<1>2. \A t \in Tenants : {v \in Vehicles : vehicle'[v].state # "unborn" /\ TenantOf[v] = t}
                         = {v \in Vehicles : vehicle[v].state # "unborn" /\ TenantOf[v] = t}
  OBVIOUS
<1>3. QED
  BY <1>1, <1>2 DEF VehicleCodes

LEMMA DriverInsertCodes ==
    ASSUME CodesInv, NEW h \in Handlers, F!DriverInsert(h)
    PROVE  Begun' /\ DriverCodes' /\ VehicleCodes'
<1>1. PICK t \in Tenants : t = fleetReq[h].tenant
  BY DEF CodesInv, FleetInv, HandlersAim, Aims, F!DriverInsert, F!At
<1>2. PICK i \in Drivers :
        /\ driver[i].state = "unborn" /\ TenantOf[i] = t
        /\ driver' = [driver EXCEPT ![i] = [state |-> "live", cpf |-> fleetReq[h].key,
                                            userId |-> fleetReq[h].userId,
                                            code |-> F!Drawn(h, "DRIVER")]]
  BY <1>1 DEF F!DriverInsert
<1>3. PICK n \in Nat : n = sequence[<<"DRIVER", t>>].nextValue /\ n >= 1
  BY DEF CodesInv, FleetInv, F!TypeOK, F!Sequence, Begun, F!Kinds
<1>4. /\ sequence'[<<"DRIVER", t>>].nextValue = n + 1
      /\ \A q \in (F!Kinds \X Tenants) \ {<<"DRIVER", t>>} : sequence'[q] = sequence[q]
  BY <1>1, <1>3, CommitStep DEF CodesInv, FleetInv, F!DriverInsert, F!Kinds
<1>5. /\ driver'[i].state = "live" /\ driver'[i].code = n
      /\ \A d \in Drivers \ {i} : driver'[d] = driver[d]
  BY <1>1, <1>2, <1>3 DEF CodesInv, FleetInv, F!TypeOK, F!Drawn
<1>6. Begun'
  BY <1>3, <1>4 DEF CodesInv, Begun
<1>7. VehicleCodes'
  BY <1>4, VehicleCodesStay DEF CodesInv, F!DriverInsert, F!Kinds
<1>8. ASSUME NEW o \in Tenants
      PROVE  F!Numbered({d \in Drivers : driver'[d].state # "unborn" /\ TenantOf[d] = o},
                      [d \in Drivers |-> driver'[d].code], sequence'[<<"DRIVER", o>>].nextValue)
  <2> DEFINE ids == {d \in Drivers : driver[d].state # "unborn" /\ TenantOf[d] = o}
             ids2 == {d \in Drivers : driver'[d].state # "unborn" /\ TenantOf[d] = o}
             code == [d \in Drivers |-> driver[d].code]
             code2 == [d \in Drivers |-> driver'[d].code]
  <2>1. F!Numbered(ids, code, sequence[<<"DRIVER", o>>].nextValue)
    BY DEF CodesInv, DriverCodes
  <2>2. \A j \in ids : code2[j] = code[j]
    BY <1>2, <1>5
  <2>3. CASE o = t
    <3>1. ids2 = ids \cup {i} /\ i \notin ids /\ code2[i] = n
      BY <1>2, <1>5, <2>3
    <3>2. F!Numbered(ids, code, n)
      BY <1>3, <2>1, <2>3
    <3> HIDE DEF ids, ids2, code, code2
    <3>3. F!Numbered(ids \cup {i}, code2, n + 1)
      BY <1>3, <2>2, <3>1, <3>2, NumberedNext
    <3>4. QED
      BY <1>4, <2>3, <3>1, <3>3 DEF ids2, code2
  <2>4. CASE o # t
    <3>1. ids2 = ids
      BY <1>2, <1>5, <2>4
    <3>2. sequence'[<<"DRIVER", o>>].nextValue = sequence[<<"DRIVER", o>>].nextValue
      BY <1>4, <2>4 DEF F!Kinds
    <3> HIDE DEF ids, ids2, code, code2
    <3>3. F!Numbered(ids, code2, sequence[<<"DRIVER", o>>].nextValue)
      BY <2>1, <2>2, NumberedSame
    <3>4. QED
      BY <3>1, <3>2, <3>3 DEF ids2, code2
  <2>5. QED
    BY <2>3, <2>4
<1>9. DriverCodes'
  BY <1>8 DEF DriverCodes
<1>10. QED
  BY <1>6, <1>7, <1>9

LEMMA VehicleInsertCodes ==
    ASSUME CodesInv, NEW h \in Handlers, F!VehicleInsert(h)
    PROVE  Begun' /\ VehicleCodes' /\ DriverCodes'
<1>1. PICK t \in Tenants : t = fleetReq[h].tenant
  BY DEF CodesInv, FleetInv, HandlersAim, Aims, F!VehicleInsert, F!At
<1>2. PICK i \in Vehicles :
        /\ vehicle[i].state = "unborn" /\ TenantOf[i] = t
        /\ vehicle' = [vehicle EXCEPT ![i] =
                         [state |-> "live", plate |-> fleetReq[h].key, driverId |-> fleetReq[h].driverId,
                          categoryId |-> fleetReq[h].categoryId, code |-> F!Drawn(h, "VEHICLE")]]
  BY <1>1 DEF F!VehicleInsert
<1>3. PICK n \in Nat : n = sequence[<<"VEHICLE", t>>].nextValue /\ n >= 1
  BY DEF CodesInv, FleetInv, F!TypeOK, F!Sequence, Begun, F!Kinds
<1>4. /\ sequence'[<<"VEHICLE", t>>].nextValue = n + 1
      /\ \A q \in (F!Kinds \X Tenants) \ {<<"VEHICLE", t>>} : sequence'[q] = sequence[q]
  BY <1>1, <1>3, CommitStep DEF CodesInv, FleetInv, F!VehicleInsert, F!Kinds
<1>5. /\ vehicle'[i].state = "live" /\ vehicle'[i].code = n
      /\ \A v \in Vehicles \ {i} : vehicle'[v] = vehicle[v]
  BY <1>1, <1>2, <1>3 DEF CodesInv, FleetInv, F!TypeOK, F!Drawn
<1>6. Begun'
  BY <1>3, <1>4 DEF CodesInv, Begun
<1>7. DriverCodes'
  BY <1>4, DriverCodesStay DEF CodesInv, F!VehicleInsert, F!Kinds
<1>8. ASSUME NEW o \in Tenants
      PROVE  F!Numbered({v \in Vehicles : vehicle'[v].state # "unborn" /\ TenantOf[v] = o},
                      [v \in Vehicles |-> vehicle'[v].code], sequence'[<<"VEHICLE", o>>].nextValue)
  <2> DEFINE ids == {v \in Vehicles : vehicle[v].state # "unborn" /\ TenantOf[v] = o}
             ids2 == {v \in Vehicles : vehicle'[v].state # "unborn" /\ TenantOf[v] = o}
             code == [v \in Vehicles |-> vehicle[v].code]
             code2 == [v \in Vehicles |-> vehicle'[v].code]
  <2>1. F!Numbered(ids, code, sequence[<<"VEHICLE", o>>].nextValue)
    BY DEF CodesInv, VehicleCodes
  <2>2. \A j \in ids : code2[j] = code[j]
    BY <1>2, <1>5
  <2>3. CASE o = t
    <3>1. ids2 = ids \cup {i} /\ i \notin ids /\ code2[i] = n
      BY <1>2, <1>5, <2>3
    <3>2. F!Numbered(ids, code, n)
      BY <1>3, <2>1, <2>3
    <3> HIDE DEF ids, ids2, code, code2
    <3>3. F!Numbered(ids \cup {i}, code2, n + 1)
      BY <1>3, <2>2, <3>1, <3>2, NumberedNext
    <3>4. QED
      BY <1>4, <2>3, <3>1, <3>3 DEF ids2, code2
  <2>4. CASE o # t
    <3>1. ids2 = ids
      BY <1>2, <1>5, <2>4
    <3>2. sequence'[<<"VEHICLE", o>>].nextValue = sequence[<<"VEHICLE", o>>].nextValue
      BY <1>4, <2>4 DEF F!Kinds
    <3> HIDE DEF ids, ids2, code, code2
    <3>3. F!Numbered(ids, code2, sequence[<<"VEHICLE", o>>].nextValue)
      BY <2>1, <2>2, NumberedSame
    <3>4. QED
      BY <3>1, <3>2, <3>3 DEF ids2, code2
  <2>5. QED
    BY <2>3, <2>4
<1>9. VehicleCodes'
  BY <1>8 DEF VehicleCodes
<1>10. QED
  BY <1>6, <1>7, <1>9

\* The other writes of rows keep the number and whether there is one.
LEMMA RowWritesKeepCodes ==
    ASSUME CodesInv, NEW h \in Handlers,
           \/ F!DriverUpdateWrite(h) \/ F!DriverRemoveWrite(h)
           \/ F!VehicleUpdateWrite(h) \/ F!VehicleRemoveWrite(h)
    PROVE  Begun' /\ DriverCodes' /\ VehicleCodes'
<1>1. PICK i : i = fleetReq[h].id
  OBVIOUS
<1>2. \A d \in Drivers : /\ driver'[d].state = "unborn" <=> driver[d].state = "unborn"
                        /\ driver'[d].code = driver[d].code
  <2>1. CASE F!DriverUpdateWrite(h) \/ F!DriverRemoveWrite(h)
    <3>1. i \in Drivers /\ driver[i].state = "live"
      BY <1>1, <2>1 DEF CodesInv, FleetInv, HandlersAim, Aims, F!At, F!DriverUpdateWrite,
                        F!DriverRemoveWrite
    <3>2. driver[i] \in F!Driver
      BY <3>1 DEF CodesInv, FleetInv, F!TypeOK
    <3>3. driver'[i].state \in {"live", "removed"} /\ driver'[i].code = driver[i].code
      <4>1. driver \in [Drivers -> F!Driver]
        BY DEF CodesInv, FleetInv, F!TypeOK
      <4>2. CASE F!DriverUpdateWrite(h)
        BY <1>1, <3>1, <3>2, <4>1, <4>2 DEF F!DriverUpdateWrite, F!Driver
      <4>3. CASE F!DriverRemoveWrite(h)
        BY <1>1, <3>1, <3>2, <4>1, <4>3 DEF F!DriverRemoveWrite, F!Driver
      <4>4. QED
        BY <2>1, <4>2, <4>3
    <3>4. \A d \in Drivers \ {i} : driver'[d] = driver[d]
      BY <1>1, <2>1 DEF F!DriverUpdateWrite, F!DriverRemoveWrite, CodesInv, FleetInv,
             F!TypeOK
    <3>5. QED
      BY <3>1, <3>3, <3>4
  <2>2. CASE F!VehicleUpdateWrite(h) \/ F!VehicleRemoveWrite(h)
    BY <2>2 DEF F!VehicleUpdateWrite, F!VehicleRemoveWrite
  <2>3. QED
    BY <2>1, <2>2
<1>3. \A v \in Vehicles : /\ vehicle'[v].state = "unborn" <=> vehicle[v].state = "unborn"
                         /\ vehicle'[v].code = vehicle[v].code
  <2>1. CASE F!VehicleUpdateWrite(h) \/ F!VehicleRemoveWrite(h)
    <3>1. i \in Vehicles /\ vehicle[i].state = "live"
      BY <1>1, <2>1 DEF CodesInv, FleetInv, HandlersAim, Aims, F!At, F!VehicleUpdateWrite,
                        F!VehicleRemoveWrite
    <3>2. vehicle[i] \in F!Vehicle
      BY <3>1 DEF CodesInv, FleetInv, F!TypeOK
    <3>3. vehicle'[i].state \in {"live", "removed"} /\ vehicle'[i].code = vehicle[i].code
      <4>1. vehicle \in [Vehicles -> F!Vehicle]
        BY DEF CodesInv, FleetInv, F!TypeOK
      <4>2. CASE F!VehicleUpdateWrite(h)
        BY <1>1, <3>1, <3>2, <4>1, <4>2 DEF F!VehicleUpdateWrite, F!Vehicle
      <4>3. CASE F!VehicleRemoveWrite(h)
        BY <1>1, <3>1, <3>2, <4>1, <4>3 DEF F!VehicleRemoveWrite, F!Vehicle
      <4>4. QED
        BY <2>1, <4>2, <4>3
    <3>4. \A v \in Vehicles \ {i} : vehicle'[v] = vehicle[v]
      BY <1>1, <2>1 DEF F!VehicleUpdateWrite, F!VehicleRemoveWrite, CodesInv, FleetInv,
             F!TypeOK
    <3>5. QED
      BY <3>1, <3>3, <3>4
  <2>2. CASE F!DriverUpdateWrite(h) \/ F!DriverRemoveWrite(h)
    BY <2>2 DEF F!DriverUpdateWrite, F!DriverRemoveWrite
  <2>3. QED
    BY <2>1, <2>2
<1>4. sequence' = sequence
  BY DEF F!DriverUpdateWrite, F!DriverRemoveWrite, F!VehicleUpdateWrite,
         F!VehicleRemoveWrite
<1>5. QED
  BY <1>2, <1>3, <1>4, DriverCodesStay, VehicleCodesStay DEF CodesInv, Begun

\* A row of another table, a number drawn and not yet given, one rolled back.
LEMMA OthersKeepCodes ==
    ASSUME CodesInv, driver' = driver, vehicle' = vehicle,
           \A s \in F!Kinds \X Tenants : sequence'[s].nextValue = sequence[s].nextValue
    PROVE  Begun' /\ DriverCodes' /\ VehicleCodes'
BY DriverCodesStay, VehicleCodesStay DEF CodesInv, Begun, F!Kinds

LEMMA UserLeavesKeepsCodes ==
    ASSUME CodesInv, NEW u \in Users, F!UserLeaves(u)
    PROVE  Begun' /\ DriverCodes' /\ VehicleCodes'
<1>1. ASSUME NEW d \in Drivers
      PROVE  driver'[d].state = driver[d].state /\ driver'[d].code = driver[d].code
  <2>1. driver[d] \in F!Driver
    BY DEF CodesInv, FleetInv, F!TypeOK
  <2>2. driver'[d] = IF driver[d].userId = u THEN [driver[d] EXCEPT !.userId = None]
                     ELSE driver[d]
    BY DEF F!UserLeaves
  <2>3. QED
    BY <2>1, <2>2 DEF F!Driver
<1>2. sequence' = sequence /\ vehicle' = vehicle
  BY DEF F!UserLeaves
<1>3. QED
  BY <1>1, <1>2, DriverCodesStay, VehicleCodesStay DEF CodesInv, Begun

LEMMA CodesInit == F!Init => CodesInv
<1> SUFFICES ASSUME F!Init
             PROVE  CodesInv
  OBVIOUS
<1>1. FleetInv
  BY FleetInit
<1>2. \A s \in F!Kinds \X Tenants : sequence[s].nextValue = 1
  BY DEF F!Init
<1>3. F!Numbered({}, [d \in Drivers |-> driver[d].code], 1)
  BY DEF F!Numbered
<1>4. F!Numbered({}, [v \in Vehicles |-> vehicle[v].code], 1)
  BY DEF F!Numbered
<1>5. DriverCodes
  BY <1>2, <1>3 DEF F!Init, DriverCodes, F!Kinds
<1>6. VehicleCodes
  BY <1>2, <1>4 DEF F!Init, VehicleCodes, F!Kinds
<1>7. QED
  BY <1>1, <1>2, <1>5, <1>6 DEF CodesInv, Begun

LEMMA CodesNext == CodesInv /\ [F!Next]_F!vars => CodesInv'
<1> SUFFICES ASSUME CodesInv, [F!Next]_F!vars
             PROVE  CodesInv'
  OBVIOUS
<1>1. FleetInv /\ FleetInv'
  BY FleetNext DEF CodesInv
<1>2. CASE UNCHANGED F!vars
  BY <1>1, <1>2, OthersKeepCodes DEF F!vars, CodesInv
<1>3. ASSUME NEW h \in Handlers, F!DriverCall(h) \/ F!VehicleCall(h) \/ F!CategoryCall(h)
      PROVE  CodesInv'
  <2>1. Asks(h)
    BY <1>1, <1>3, DriverCallStep, VehicleCallStep, CategoryCallStep DEF FleetInv
  <2>2. QED
    BY <1>1, <2>1, OthersKeepCodes DEF Asks, CodesInv
<1>4. ASSUME NEW h \in Handlers, F!FleetStep(h)
      PROVE  CodesInv'
  <2>1. CASE \/ F!Draw(h, "DRIVER", "driverDraw", "driverInsert")
             \/ F!Draw(h, "VEHICLE", "vehicleDraw", "vehicleInsert") \/ F!Dies(h)
    BY <1>1, <2>1, DrawStep, DiesStep, OthersKeepCodes DEF CodesInv, FleetInv, F!tables
  <2>2. CASE F!DriverInsert(h)
    BY <1>1, <2>2, DriverInsertCodes DEF CodesInv
  <2>3. CASE F!VehicleInsert(h)
    BY <1>1, <2>3, VehicleInsertCodes DEF CodesInv
  <2>4. CASE \/ F!DriverUpdateWrite(h) \/ F!DriverRemoveWrite(h)
             \/ F!VehicleUpdateWrite(h) \/ F!VehicleRemoveWrite(h)
    BY <1>1, <2>4, RowWritesKeepCodes DEF CodesInv
  <2>5. CASE F!CategoryInsert(h) \/ F!CategoryUpdateWrite(h) \/ F!CategoryRemoveWrite(h)
    BY <1>1, <2>5, OthersKeepCodes DEF CodesInv, F!CategoryInsert, F!CategoryUpdateWrite,
                                       F!CategoryRemoveWrite
  <2>6. QED
    BY <1>4, <2>1, <2>2, <2>3, <2>4, <2>5 DEF F!FleetStep
<1>5. ASSUME NEW u \in Users, F!UserRoleChanges(u) \/ F!UserLeaves(u)
      PROVE  CodesInv'
  <2>1. CASE F!UserRoleChanges(u)
    BY <1>1, <2>1, OthersKeepCodes DEF CodesInv, F!UserRoleChanges
  <2>2. CASE F!UserLeaves(u)
    BY <1>1, <2>2, UserLeavesKeepsCodes DEF CodesInv
  <2>3. QED
    BY <1>5, <2>1, <2>2
<1>6. QED
  BY <1>2, <1>3, <1>4, <1>5 DEF F!Next

\* Whatever dies between the draw of a number and the insert, the rows of a
\* tenant, removed ones included, carry the numbers from 1 up to the last one
\* drawn for good, each number once.
THEOREM NumbersHaveNoGaps == F!Spec => []CodesAreConsecutive
<1>1. F!Spec => []CodesInv
  BY CodesInit, CodesNext, PTL DEF F!Spec
<1>2. CodesInv => CodesAreConsecutive
  BY DEF CodesInv, DriverCodes, VehicleCodes, CodesAreConsecutive, F!CodesAreConsecutive
<1>3. QED
  BY <1>1, <1>2, PTL
=============================================================================
