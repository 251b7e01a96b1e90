------------------------------ MODULE MCOffice ------------------------------
(***************************************************************************)
(* The modules about a tenant's records, explored by one run.  A behaviour *)
(* stays at the desk it begins at: the states explored are the sum of the  *)
(* desks' and not their product.                                           *)
(***************************************************************************)
EXTENDS OfficeSystem, TLC

CONSTANTS
    tA, tB,                 \* tenants
    s1, a1, a2, b1,         \* users: of the platform, of tA twice, of tB
    d1, d2, d3, v1, v2, c1, c2, r1, r2, o1, o2,
    Desks

VARIABLE desk

regionsVars == <<region, tenant, regionsReq, quote, raced>>
fleetVars == <<driver, vehicle, category, fleetUser, sequence, fleetReq>>
platformVars == <<user, company, isPlatformRole, platformReq>>
intakeVars == <<order, upload>>
noticeVars == <<socket, connectedUsers, note, received>>
proofVars == <<now, carrier, cloudinary, disk, deliveryProof, proofReq>>
vars == <<desk, regionsVars, fleetVars, platformVars, intakeVars, noticeVars, proofVars>>

-----------------------------------------------------------------------------
(* Values of the constants. *)

MCTenantOf == [x \in {r1, r2, d1, d2, v1, v2, c1, a1, a2} |-> tA]
              @@ [x \in {d3, c2, b1} |-> tB] @@ s1 :> None

MCNames == {"sul", "Sul", "norte"}
MCFold == "sul" :> "sul" @@ "Sul" :> "sul" @@ "norte" :> "norte"
MCCeps == 1 .. 3
MCText == [c \in MCCeps |-> c]

Region(name, from, to, value) ==
    [regiao |-> name, rangeInicio |-> from, rangeFim |-> to, valorDirecao |-> value]
MCDrafts == {Region("sul", 1, 2, 1), Region("Sul", 3, 3, 2), Region("norte", 2, 3, 2)}
MCPatches == {Region("norte", None, 2, None), Region(None, 3, None, 1)}
MCBaskets == {<<1, 3>>, <<2>>}
MCValor == [c \in MCCeps |-> 4 * c]
MCPeso == [c \in MCCeps |-> c]
Row(type, fee, perKm, percentage, value, orders, weight) ==
    [freightType |-> type, pricePerDelivery |-> fee, pricePerKm |-> perKm,
     minDeliveryPercentage |-> percentage, minValue |-> value, minOrders |-> orders,
     minPeso |-> weight]
MCSettings == {Row("DIRECTION_AND_CATEGORY", None, None, 60, None, 2, 3)}
MCSettingsPatches ==
    {[freightType |-> "DIRECTION_AND_DELIVERY_FEE", minOrders |-> None],
     [pricePerDelivery |-> 2, minValue |-> 9], [pricePerDelivery |-> None],
     [freightType |-> "DISTANCE_BASED", pricePerKm |-> 1]}

MCBodies == {[roleId |-> r, isActive |-> "same"] : r \in {"superadmin", "admin"}}
            \cup {[roleId |-> None, isActive |-> "no"]}

LineOf(numero, data, storable) ==
    [numero |-> numero, data |-> data, storable |-> storable, isNull |-> FALSE]
Good(n) == LineOf(n, "valid", TRUE)
NullLine == [LineOf(None, "missing", FALSE) EXCEPT !.isNull = TRUE]
MCFiles == {<<>>, <<Good(1), Good(2)>>, <<Good(2), Good(1), Good(3)>>, <<Good(1), Good(1)>>,
            <<Good(3), NullLine>>, <<LineOf(2, "valid", FALSE), LineOf(None, "valid", TRUE)>>,
            <<LineOf(1, "invalid", TRUE), Good(2)>>}

MCUid == s1 :> "uid-s1" @@ a1 :> "uid-a1" @@ a2 :> "uid-a2" @@ b1 :> "uid-b1"

HandlersAreAlike == Permutations(Handlers)

-----------------------------------------------------------------------------
(* The desks, and what is left out at each to keep it small. *)

\* At the drivers' desk a1 may or may not be a driver, b1 is one.
FleetUsers ==
    /\ fleetUser[s1] = "unborn" /\ fleetUser[a2] = "unborn"
    /\ IF desk = "drivers" THEN fleetUser[b1] = "driver"
       ELSE \A u \in {a1, b1} : fleetUser[u] = "other"

Init ==
    /\ desk \in Desks
    /\ R!Init /\ F!Init /\ P!Init /\ I!Init /\ N!Init /\ U!Init
    /\ FleetUsers
    /\ \A o \in Orders : carrier[o] \in {d1, None}
    /\ desk # "proofs" => \A o \in Orders : carrier[o] = None

Begun(pc) == {h \in Handlers : fleetReq[h].pc = "idle" /\ fleetReq'[h].pc = pc}

\* Vehicles: no second driver of tA, no user of a driver, one name of categories;
\* tB only makes its driver and category.
VehiclesDesk ==
    /\ \E h \in Handlers : \/ F!DriverCall(h) \/ F!VehicleCall(h) \/ F!CategoryCall(h)
                          \/ F!FleetStep(h)
    /\ driver'[d2].state = "unborn" /\ fleetUser' = fleetUser
    /\ Begun("driverUpdate") = {} /\ Begun("categoryUpdate") = {}
    /\ \A h \in Handlers :
         LET r == fleetReq'[h] IN
         /\ r.userId = None
         /\ r.key = 2 => r.pc \in {"vehicleDraw", "vehicleInsert", "vehicleUpdate"}
         /\ r.tenant = tB => r.pc \in {"driverDraw", "driverInsert", "categoryInsert"}

\* Drivers: tA and its user, and the user of tB as one who does not belong.
DriversDesk ==
    /\ \/ \E h \in Handlers : F!DriverCall(h) \/ F!FleetStep(h)
       \/ \E u \in {a1, b1} : F!UserRoleChanges(u) \/ F!UserLeaves(u)
    /\ driver'[d3].state = "unborn"
    /\ \A h \in Handlers : fleetReq'[h].tenant # tB /\ fleetReq'[h].userId # a2

\* The categories of tA by themselves.
CategoriesDesk ==
    /\ \E h \in Handlers : F!CategoryCall(h) \/ F!FleetStep(h)
    /\ \A h \in Handlers : fleetReq'[h].tenant # tB

\* The platform: with tA once made; "admin" may be turned into a role of the
\* platform and back while a2 is not there, and is, or superadmin, whom one makes.
PlatformDesk ==
    /\ \A r \in {"superadmin", "user", "driver"} : isPlatformRole'[r] = isPlatformRole[r]
    /\ isPlatformRole'["admin"] => user'[a2].state = "unborn"
    /\ company[tA] = "unborn" => user' = user /\ isPlatformRole' = isPlatformRole
    /\ company'[tA] # "removed"
    /\ \A h \in Handlers :
         LET r == platformReq'[h] IN
         /\ r.pc = "create" => r.dto.roleId \in {"superadmin", "admin"}
         /\ r.pc # "tenantDelete"
         /\ r.pc = "tenantCreate" => company[tA] = "unborn"

\* Tenants: made and removed, with one user besides the superadmin.
TenantsDesk ==
    /\ user'[a2].state = "unborn" /\ isPlatformRole' = isPlatformRole
    /\ \A h \in Handlers : platformReq'[h].pc # "role"

OneAtATime == \E h \in Handlers : \A g \in Handlers \ {h} : regionsReq'[g].pc = "idle"

\* Freight: the regions change while a route is priced, the settings do not.
FreightDesk ==
    /\ OneAtATime /\ UNCHANGED tenant
    /\ \A q \in Quoters : quote'[q].purpose = "update" \/ quote'[q].pc = "idle"

\* Approval: over regions made beforehand the settings change, once during a route.
ApprovalDesk ==
    /\ OneAtATime
    /\ \A h \in Handlers : regionsReq'[h].pc \in {"idle", "createRange", "createWrite"}
    /\ (\E h \in Handlers : regionsReq'[h].pc # "idle") =>
         tenant' = tenant /\ \A q \in Quoters : quote'[q].pc = "idle"
    /\ tenant' # tenant => \A q \in Quoters : ~ quote[q].stale

RegionsStep ==
    /\ \/ desk = "regions" /\ UNCHANGED <<tenant, quote>> /\ R!RegionsNext
       \/ desk = "freight" /\ (R!RegionsNext \/ R!QuoteNext) /\ FreightDesk
       \/ desk = "approval" /\ R!Next /\ ApprovalDesk
    /\ \A h \in Handlers : regionsReq'[h].tenant # tB
    /\ tenant'[tB] = tenant[tB] /\ \A q \in Quoters : quote'[q].tenant # tB

FleetStep ==
    \/ desk = "vehicles" /\ VehiclesDesk
    \/ desk = "drivers" /\ DriversDesk
    \/ desk = "categories" /\ CategoriesDesk

PlatformStep ==
    /\ P!Next
    /\ user'[b1].state = "unborn" /\ company'[tB] = "unborn"
    /\ \A h \in Handlers : platformReq'[h].id \notin {b1, tB}
    /\ \/ desk = "platform" /\ PlatformDesk
       \/ desk = "tenants" /\ TenantsDesk

IntakeStep == desk = "intake" /\ I!Next

\* Two users of tA, one of whom is sent notices.
NotificationsStep ==
    /\ desk = "notifications" /\ N!Next
    /\ \A s \in Sockets : socket'[s].uid \notin {Uid[s1], Uid[b1]}
    /\ \A n \in Notes : note'[n].userId \in {a1, None}

\* Two drivers of tA; the route of one order changes.
ProofsStep ==
    /\ desk = "proofs" /\ U!Next
    /\ carrier'[o1] # d3 /\ carrier'[o2] = carrier[o2]
    /\ \A h \in Handlers : proofReq'[h].driver # d3

Next ==
    /\ UNCHANGED desk
    /\ \/ desk \in {"regions", "freight", "approval"} /\ UNCHANGED <<fleetVars, platformVars, intakeVars, noticeVars, proofVars>> /\ RegionsStep
       \/ desk \in {"vehicles", "drivers", "categories"} /\ UNCHANGED <<regionsVars, platformVars, intakeVars, noticeVars, proofVars>> /\ FleetStep
       \/ desk \in {"platform", "tenants"} /\ UNCHANGED <<regionsVars, fleetVars, intakeVars, noticeVars, proofVars>> /\ PlatformStep
       \/ desk \in {"intake"} /\ UNCHANGED <<regionsVars, fleetVars, platformVars, noticeVars, proofVars>> /\ IntakeStep
       \/ desk \in {"notifications"} /\ UNCHANGED <<regionsVars, fleetVars, platformVars, intakeVars, proofVars>> /\ NotificationsStep
       \/ desk \in {"proofs"} /\ UNCHANGED <<regionsVars, fleetVars, platformVars, intakeVars, noticeVars>> /\ ProofsStep

Spec == Init /\ [][Next]_vars
=============================================================================
