------------------------------- MODULE Office -------------------------------
(***************************************************************************)
(* What the modules about a tenant's records share: the rows there may be, *)
(* the requests that may be in flight, and the bodies they carry.          *)
(*                                                                         *)
(* Regions, Fleet, Platform, Intake, Notifications and ProofUpload each    *)
(* take from here the constants they are about.                            *)
(***************************************************************************)
EXTENDS Naturals, Sequences

CONSTANTS
    Handlers,               \* requests that write
    Quoters,                \* requests that compute a freight
    Tenants, Users,
    Drivers, Vehicles, Categories, Ids,     \* rows; Ids are those of Directions
    TenantOf,               \* of each row and user: no DTO names a tenant
    None

ASSUME RowsConfig ==
    /\ TenantOf \in [Ids \cup Drivers \cup Vehicles \cup Categories \cup Users
                       -> Tenants \cup {None}]
    /\ \A x \in Ids \cup Drivers \cup Vehicles \cup Categories : TenantOf[x] # None
    /\ None \notin Handlers /\ None \notin Tenants /\ None \notin Users
    /\ None \notin Drivers /\ None \notin Vehicles /\ None \notin Categories /\ None \notin Ids

-----------------------------------------------------------------------------
(* Regions and freight. *)

CONSTANTS
    Names, Fold,            \* names of regions, and the same in lower case
    Ceps, Text, Number,     \* CEPs as strings are ordered, and as parseInt reads them
    Drafts, Patches,        \* bodies of POST and PATCH; None is a field left out
    Baskets,                \* CEPs of the orders of a route
    Valor, Peso,            \* of an order, by its CEP
    CategoryValue,          \* of the vehicle's category
    Distances,              \* of a route, as the provider of maps answers
    Settings, SettingsPatches   \* of tenants, and bodies of PUT: what a body leaves out
                                \* is not in its domain

Patch == [regiao : Names \cup {None}, rangeInicio : Ceps \cup {None},
          rangeFim : Ceps \cup {None}, valorDirecao : Nat \cup {None}]

FreightTypes == {"DIRECTION_AND_CATEGORY", "DIRECTION_AND_DELIVERY_FEE", "DISTANCE_BASED"}

\* What freight and approval depend on; pricePerKm is None without an address too.
TenantRow == [freightType : FreightTypes,
              pricePerDelivery : Nat \cup {None}, pricePerKm : Nat \cup {None},
              minDeliveryPercentage : Nat \cup {None}, minValue : Nat \cup {None},
              minOrders : Nat \cup {None}, minPeso : Nat \cup {None}]

Amounts == {"pricePerDelivery", "pricePerKm", "minDeliveryPercentage", "minValue",
            "minOrders", "minPeso"}

ASSUME RegionsConfig ==
    /\ Fold \in [Names -> Names]
    /\ Text \in [Ceps -> Nat] /\ Number \in [Ceps -> Nat]
    /\ Drafts \subseteq Patch /\ Patches \subseteq Patch
    /\ \A d \in Drafts : /\ d.regiao # None /\ d.rangeInicio # None
                         /\ d.rangeFim # None /\ d.valorDirecao # None
    /\ Baskets \subseteq Seq(Ceps)
    /\ Valor \in [Ceps -> Nat] /\ Peso \in [Ceps -> Nat]
    /\ CategoryValue \in Nat /\ Distances \subseteq Nat
    /\ Settings \subseteq TenantRow
    /\ \A p \in SettingsPatches :
         /\ DOMAIN p \subseteq Amounts \cup {"freightType"}
         /\ \A f \in DOMAIN p : IF f = "freightType" THEN p[f] \in FreightTypes
                                ELSE p[f] \in Nat \cup {None}
    /\ None \notin Names /\ None \notin Ceps /\ None \notin Nat

-----------------------------------------------------------------------------
(* Drivers, vehicles and categories. *)

CONSTANT Keys               \* CPFs, plates and names of categories

ASSUME FleetConfig == None \notin Keys

-----------------------------------------------------------------------------
(* Administrators. *)

CONSTANTS
    Root,                   \* the superadmin of the seed
    Bodies,                 \* bodies of PATCH; None and "same" are a field left out
    Inviters                \* users named by an invite, whom the schema does not let go

Roles == {"superadmin", "admin", "user", "driver"}
Body == [roleId : Roles \cup {None}, isActive : {"yes", "no", "same"}]

ASSUME PlatformConfig ==
    /\ Root \in Inviters /\ Inviters \subseteq Users /\ TenantOf[Root] = None
    /\ Bodies \subseteq Body
    /\ None \notin Roles

-----------------------------------------------------------------------------
(* Upload of orders. *)

CONSTANTS
    Numbers,                \* numero
    Files                   \* bodies: sequences of lines

\* What a line lacks, whether the database would take it, whether it is null.
Line == [numero : Numbers \cup {None}, data : {"valid", "invalid", "missing"},
         storable : BOOLEAN, isNull : BOOLEAN]

ASSUME IntakeConfig == Files \subseteq Seq(Line) /\ None \notin Numbers

-----------------------------------------------------------------------------
(* Notices and proofs of delivery. *)

CONSTANTS
    Sockets, Notes,
    Uid,                    \* keys of the users at the identity provider
    Orders,
    Extensions,             \* of the original names of pictures
    LastMoment              \* bound: milliseconds that pass

Uids == {Uid[u] : u \in Users}

ASSUME NotificationsConfig ==
    /\ DOMAIN Uid = Users
    /\ \A u, v \in Users : Uid[u] = Uid[v] => u = v
    /\ None \notin Uids

ASSUME ProofUploadConfig == LastMoment \in Nat /\ None \notin Orders /\ None \notin Extensions
=============================================================================
