--------------------------- MODULE DeliveryState ---------------------------
(***************************************************************************)
(* The tables that DeliveryService and PaymentsService read and write, and *)
(* the HTTP requests that are in flight over them.                         *)
(*                                                                         *)
(* One Node process serves every request, and a handler gives up the       *)
(* processor at each await on Prisma.  A request is therefore a record     *)
(* that holds where its handler stands (pc) and what it has read so far;   *)
(* each read that a later write relies on, each single write and each      *)
(* prisma.$transaction is one step.  PostgreSQL runs at its default READ   *)
(* COMMITTED level and no handler locks a row, so nothing but the          *)
(* transaction itself is atomic.                                           *)
(***************************************************************************)
EXTENDS Naturals, FiniteSets

CONSTANTS
    Orders,       \* ids of the uploaded orders of one tenant
    Deliveries,   \* ids a delivery may get; an id is used once
    Payments,     \* ids an accounts-payable row may get; an id is used once
    Drivers,      \* drivers of the tenant
    Requests,     \* request slots: how many handlers may be in flight at once
    Endpoints,    \* which endpoints the clients of this instance call
    MayFail,      \* may a handler die between two awaits (database error, crash)
    Stranger,     \* an id of no driver, that a request may name as one
    None          \* the NULL of an optional column

OrderStatus == {"SEM_ROTA", "EM_ROTA_AGUARDANDO_LIBERACAO", "EM_ROTA",
                "EM_ENTREGA", "ENTREGUE", "NAO_ENTREGUE"}
DeliveryStatus == {"A_LIBERAR", "INICIADO", "FINALIZADO", "REJEITADO"}
PaymentStatus == {"PENDENTE", "PAGO", "CANCELADO"}
ApprovalAction == {"APPROVED", "REJECTED"}
Finished == {"ENTREGUE", "NAO_ENTREGUE"}

ASSUME NoneIsNoId == None \notin Orders \cup Deliveries \cup Payments \cup Drivers
ASSUME StrangerIsNoDriver == Stranger \notin Drivers \cup {None}
ASSUME MayFailIsBoolean == MayFail \in BOOLEAN
\* A table holds finitely many rows (the statistics count them).
ASSUME TablesAreFinite == IsFiniteSet(Orders) /\ IsFiniteSet(Deliveries)

VARIABLES
    orderStatus,      \* Order.status
    orderDelivery,    \* Order.deliveryId
    deliveryStatus,   \* Delivery.status, "absent" before and "deleted" after the row
    deliveryDriver,   \* Delivery.driverId
    charged,          \* orders that totalPeso, totalValor and valorFrete were computed from
    approvals,        \* actions of the delivery's Approval rows
    payStatus,        \* AccountsPayable.status, "absent" before the row
    payFor,           \* the delivery its PaymentDelivery row links it to
    payDriver,        \* AccountsPayable.driverId
    payBasis,         \* orders whose freight is AccountsPayable.amount
    req               \* the handlers in flight

routeVars == <<orderStatus, orderDelivery, deliveryStatus, deliveryDriver,
               charged, approvals>>
payVars == <<payStatus, payFor, payDriver, payBasis>>
vars == <<routeVars, payVars, req>>

\* Where a handler waits: the name is the step it takes next.
Step == {"idle", "createCommit", "liberarCommit", "rejeitarCommit",
         "statusWrite", "statusCount", "statusFinalize",
         "updateOrders", "updateReread", "removeOrderWrite",
         "recalcHold", "recalcWrite", "removeCommit",
         "payRead", "payCheck", "payCommit",
         "markPaidWrite", "payStatusWrite", "payRevertWrite"}

Request == [pc     : Step,
            d      : Deliveries \cup {None},
            o      : Orders \cup {None},
            refs   : SUBSET Orders,                    \* orders named in the body
            seen   : SUBSET Orders,                    \* orders read with the delivery
            was    : DeliveryStatus \cup {None},       \* delivery status read
            to     : OrderStatus \cup PaymentStatus \cup {None},  \* status to write
            driver : Drivers \cup {Stranger, None},
            hold   : BOOLEAN,                          \* rules ask for approval
            pays   : SUBSET Payments]

Idle == [pc |-> "idle", d |-> None, o |-> None, refs |-> {}, seen |-> {},
         was |-> None, to |-> None, driver |-> None, hold |-> FALSE, pays |-> {}]

TypeOK ==
    /\ orderStatus \in [Orders -> OrderStatus]
    /\ orderDelivery \in [Orders -> Deliveries \cup {None}]
    /\ deliveryStatus \in [Deliveries -> DeliveryStatus \cup {"absent", "deleted"}]
    /\ deliveryDriver \in [Deliveries -> Drivers \cup {None}]
    /\ charged \in [Deliveries -> SUBSET Orders]
    /\ approvals \in [Deliveries -> SUBSET ApprovalAction]
    /\ payStatus \in [Payments -> PaymentStatus \cup {"absent"}]
    /\ payFor \in [Payments -> Deliveries \cup {None}]
    /\ payDriver \in [Payments -> Drivers \cup {None}]
    /\ payBasis \in [Payments -> SUBSET Orders]
    /\ req \in [Requests -> Request]

\* Every order of the tenant has been uploaded and none is routed.
Init ==
    /\ orderStatus = [o \in Orders |-> "SEM_ROTA"]
    /\ orderDelivery = [o \in Orders |-> None]
    /\ deliveryStatus = [d \in Deliveries |-> "absent"]
    /\ deliveryDriver = [d \in Deliveries |-> None]
    /\ charged = [d \in Deliveries |-> {}]
    /\ approvals = [d \in Deliveries |-> {}]
    /\ payStatus = [p \in Payments |-> "absent"]
    /\ payFor = [p \in Payments |-> None]
    /\ payDriver = [p \in Payments |-> None]
    /\ payBasis = [p \in Payments |-> {}]
    /\ req = [r \in Requests |-> Idle]

-----------------------------------------------------------------------------
(* What the rows say. *)

Exists(d) == deliveryStatus[d] \in DeliveryStatus
OrdersOf(d) == {o \in Orders : orderDelivery[o] = d}
\* Mutant: an order still to leave does not count as unfinished.
UnfinishedUnderWay(d) == {o \in OrdersOf(d) : orderStatus[o] = "EM_ENTREGA"}
Unfinished(d) == {o \in OrdersOf(d) : orderStatus[o] \notin Finished}
LinksOf(d) == {p \in Payments : payFor[p] = d}

-----------------------------------------------------------------------------
(* The life of a request. *)

At(r, step) == req[r].pc = step
Quiet == \A r \in Requests : At(r, "idle")

\* Calls do not overlap: there is but one request slot.
OneAtATime == \A r, s \in Requests : r = s

\* An idle slot takes a call of the endpoint and leaves its handler at f.pc.
Starts(r, endpoint, f) ==
    /\ endpoint \in Endpoints
    /\ At(r, "idle")
    /\ req' = [req EXCEPT ![r] = f]

Continues(r, f) == req' = [req EXCEPT ![r] = f]
Ends(r) == req' = [req EXCEPT ![r] = Idle]

\* The write steps that Prisma rejects when the delivery row is gone (P2025
\* or a foreign key); the handler ends with what it wrote before left in place.
Fails(r) == Ends(r) /\ UNCHANGED <<routeVars, payVars>>

\* A database error, a deadlock victim or a crash of the process ends a
\* handler between two awaits; nothing resumes or undoes it.
Die(r) ==
    /\ MayFail
    /\ ~At(r, "idle")
    /\ Ends(r)
    /\ UNCHANGED <<routeVars, payVars>>

=============================================================================
