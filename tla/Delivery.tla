------------------------------ MODULE Delivery ------------------------------
(***************************************************************************)
(* DeliveryService (delivery.service.ts): creating a delivery from free    *)
(* orders, releasing or rejecting it, the driver's order updates that end  *)
(* in its finalisation, and its edition and removal.                       *)
(*                                                                         *)
(* What the tenant's rules answer (TenantApprovalValidator over totals and *)
(* freight) is left open: each place that asks them takes both answers.    *)
(* Whether the freight can be computed is left open as well: it is refused *)
(* for a price or a distance that is missing, which Regions goes into.     *)
(* Sorting, dates, notes, audit and notifications change no guard.         *)
(***************************************************************************)
EXTENDS DeliveryState

\* No other create in flight has been given this id.
FreshDelivery(d) ==
    /\ deliveryStatus[d] = "absent"
    /\ \A r \in Requests : At(r, "createCommit") => req[r].d # d

\* create, up to its transaction: the orders were free when they were read.
CreateRead(r, d, refs, driver, hold) ==
    /\ FreshDelivery(d)
    /\ refs # {}
    /\ \A o \in refs : orderStatus[o] = "SEM_ROTA"
    /\ Starts(r, "create", [Idle EXCEPT !.pc = "createCommit", !.d = d,
                            !.refs = refs, !.driver = driver, !.hold = hold])
    /\ UNCHANGED <<routeVars, payVars>>

\* The transaction writes the orders by id, without looking at them again.
CreateCommit(r) ==
    LET q == req[r] IN
    /\ At(r, "createCommit")
    /\ deliveryStatus' = [deliveryStatus EXCEPT ![q.d] =
                            IF q.hold THEN "A_LIBERAR" ELSE "INICIADO"]
    /\ deliveryDriver' = [deliveryDriver EXCEPT ![q.d] = q.driver]
    /\ charged' = [charged EXCEPT ![q.d] = q.refs]
    /\ orderStatus' = [o \in Orders |->
                         IF o \notin q.refs THEN orderStatus[o]
                         ELSE IF q.hold THEN "EM_ROTA_AGUARDANDO_LIBERACAO"
                         ELSE "EM_ROTA"]
    /\ orderDelivery' = [o \in Orders |->
                           IF o \in q.refs THEN q.d ELSE orderDelivery[o]]
    /\ Ends(r)
    /\ UNCHANGED <<approvals, payVars>>

-----------------------------------------------------------------------------
(* Release and rejection. *)

\* Mutant: liberar does not ask whether the delivery waits for it.
LiberarReadAnyStatus(r, d) ==
    /\ Exists(d)
    /\ Starts(r, "liberar", [Idle EXCEPT !.pc = "liberarCommit", !.d = d])
    /\ UNCHANGED <<routeVars, payVars>>

LiberarRead(r, d) ==
    /\ deliveryStatus[d] = "A_LIBERAR"
    /\ Starts(r, "liberar", [Idle EXCEPT !.pc = "liberarCommit", !.d = d])
    /\ UNCHANGED <<routeVars, payVars>>

LiberarCommit(r) ==
    LET d == req[r].d IN
    /\ At(r, "liberarCommit")
    /\ Exists(d)
    /\ deliveryStatus' = [deliveryStatus EXCEPT ![d] = "INICIADO"]
    /\ orderStatus' = [o \in Orders |->
                         IF /\ o \in OrdersOf(d)
                            /\ orderStatus[o] = "EM_ROTA_AGUARDANDO_LIBERACAO"
                         THEN "EM_ROTA" ELSE orderStatus[o]]
    /\ approvals' = [approvals EXCEPT ![d] = @ \cup {"APPROVED"}]
    /\ Ends(r)
    /\ UNCHANGED <<orderDelivery, deliveryDriver, charged, payVars>>

RejeitarRead(r, d) ==
    /\ deliveryStatus[d] = "A_LIBERAR"
    /\ Starts(r, "rejeitar", [Idle EXCEPT !.pc = "rejeitarCommit", !.d = d])
    /\ UNCHANGED <<routeVars, payVars>>

\* Mutant: the rejection is recorded as a release.
RejeitarCommitAsApproved(r) ==
    LET d == req[r].d IN
    /\ At(r, "rejeitarCommit")
    /\ Exists(d)
    /\ deliveryStatus' = [deliveryStatus EXCEPT ![d] = "REJEITADO"]
    /\ orderDelivery' = [o \in Orders |->
                           IF o \in OrdersOf(d) THEN None ELSE orderDelivery[o]]
    /\ approvals' = [approvals EXCEPT ![d] = @ \cup {"APPROVED"}]
    /\ Ends(r)
    /\ UNCHANGED <<orderStatus, deliveryDriver, charged, payVars>>

\* `orders: { set: [] }` of the transaction's first statement disconnects the
\* orders; the updateMany after it looks for orders by that deliveryId and
\* finds none, so their status stays what it was.
RejeitarCommit(r) ==
    LET d == req[r].d IN
    /\ At(r, "rejeitarCommit")
    /\ Exists(d)
    /\ deliveryStatus' = [deliveryStatus EXCEPT ![d] = "REJEITADO"]
    /\ orderDelivery' = [o \in Orders |->
                           IF o \in OrdersOf(d) THEN None ELSE orderDelivery[o]]
    /\ approvals' = [approvals EXCEPT ![d] = @ \cup {"REJECTED"}]
    /\ Ends(r)
    /\ UNCHANGED <<orderStatus, deliveryDriver, charged, payVars>>

-----------------------------------------------------------------------------
(* updateOrderStatus: the driver moves one order of his delivery. *)

isValidOrderStatusTransition(from, to) ==
    \/ from = "EM_ROTA" /\ to = "EM_ENTREGA"
    \/ from = "EM_ENTREGA" /\ to \in Finished

\* Mutant: the transition is not checked.
StatusReadUnchecked(r, driver, o, to) ==
    LET d == orderDelivery[o] IN
    /\ d # None
    /\ deliveryDriver[d] = driver
    /\ deliveryStatus[d] = "INICIADO"
    /\ Starts(r, "updateOrderStatus",
              [Idle EXCEPT !.pc = "statusWrite", !.d = d, !.o = o, !.to = to])
    /\ UNCHANGED <<routeVars, payVars>>

\* Mutant: the status to write gets lost on the way.
StatusReadForgets(r, driver, o, to) ==
    LET d == orderDelivery[o] IN
    /\ d # None
    /\ deliveryDriver[d] = driver
    /\ deliveryStatus[d] = "INICIADO"
    /\ isValidOrderStatusTransition(orderStatus[o], to)
    /\ Starts(r, "updateOrderStatus",
              [Idle EXCEPT !.pc = "statusWrite", !.d = d, !.o = o])
    /\ UNCHANGED <<routeVars, payVars>>

StatusRead(r, driver, o, to) ==
    LET d == orderDelivery[o] IN
    /\ d # None
    /\ deliveryDriver[d] = driver
    /\ deliveryStatus[d] = "INICIADO"
    /\ isValidOrderStatusTransition(orderStatus[o], to)
    /\ Starts(r, "updateOrderStatus",
              [Idle EXCEPT !.pc = "statusWrite", !.d = d, !.o = o, !.to = to])
    /\ UNCHANGED <<routeVars, payVars>>

StatusWrite(r) ==
    /\ At(r, "statusWrite")
    /\ orderStatus' = [orderStatus EXCEPT ![req[r].o] = req[r].to]
    /\ Continues(r, [Idle EXCEPT !.pc = "statusCount", !.d = req[r].d])
    /\ UNCHANGED <<orderDelivery, deliveryStatus, deliveryDriver, charged,
                   approvals, payVars>>

\* Mutant: an order that could not be delivered counts as unfinished.
StatusCountDelivered(r) ==
    LET d == req[r].d IN
    /\ At(r, "statusCount")
    /\ IF \A o \in OrdersOf(d) : orderStatus[o] = "ENTREGUE"
       THEN Continues(r, [Idle EXCEPT !.pc = "statusFinalize", !.d = d])
       ELSE Ends(r)
    /\ UNCHANGED <<routeVars, payVars>>

\* The orders that count are those of the delivery read at the start.
StatusCount(r) ==
    LET d == req[r].d IN
    /\ At(r, "statusCount")
    /\ IF Unfinished(d) = {}
       THEN Continues(r, [Idle EXCEPT !.pc = "statusFinalize", !.d = d])
       ELSE Ends(r)
    /\ UNCHANGED <<routeVars, payVars>>

\* Mutant: finalisation without the payment.
StatusFinalizeUnpaid(r) ==
    LET d == req[r].d IN
    /\ At(r, "statusFinalize")
    /\ Exists(d)
    /\ deliveryStatus' = [deliveryStatus EXCEPT ![d] = "FINALIZADO"]
    /\ Ends(r)
    /\ UNCHANGED <<orderStatus, orderDelivery, deliveryDriver, charged,
                   approvals, payVars>>

\* The handler goes on into PaymentsService.create, whose errors it swallows.
StatusFinalize(r) ==
    LET d == req[r].d IN
    /\ At(r, "statusFinalize")
    /\ Exists(d)
    /\ deliveryStatus' = [deliveryStatus EXCEPT ![d] = "FINALIZADO"]
    /\ Continues(r, [Idle EXCEPT !.pc = "payRead", !.d = d])
    /\ UNCHANGED <<orderStatus, orderDelivery, deliveryDriver, charged,
                   approvals, payVars>>

-----------------------------------------------------------------------------
(* update and removeOrderFromDelivery share their last two writes: orders   *)
(* held for approval, then totals, driver and status of the delivery.       *)

\* Mutant: totals of the orders the request read, not of those it left in place.
RecalculatesFromRead(r, q, orders, needsApproval) ==
    LET hold == q.was = "INICIADO" /\ needsApproval IN
    Continues(r, [Idle EXCEPT !.pc = IF hold THEN "recalcHold" ELSE "recalcWrite",
                              !.d = q.d, !.driver = q.driver,
                              !.seen = q.seen, !.hold = hold])

\* The handler knows the orders it will charge for; only a delivery that was
\* running when it was read can be sent back for approval.
Recalculates(r, q, orders, needsApproval) ==
    LET hold == q.was = "INICIADO" /\ needsApproval IN
    Continues(r, [Idle EXCEPT !.pc = IF hold THEN "recalcHold" ELSE "recalcWrite",
                              !.d = q.d, !.driver = q.driver,
                              !.seen = orders, !.hold = hold])

\* Mutant: finalised deliveries can be edited.
EditableUnlessRejected(d) == deliveryStatus[d] \in DeliveryStatus \ {"REJEITADO"}

Editable(d) == deliveryStatus[d] \in DeliveryStatus \ {"FINALIZADO", "REJEITADO"}

\* update with a list of orders.  Unlike create, it does not look the driver up.
UpdateRead(r, d, refs, driver) ==
    /\ Editable(d)
    /\ refs # {}
    /\ Starts(r, "update",
              [Idle EXCEPT !.pc = "updateOrders", !.d = d, !.refs = refs,
                           !.driver = driver, !.was = deliveryStatus[d],
                           !.seen = OrdersOf(d)])
    /\ UNCHANGED <<routeVars, payVars>>

\* update without one: vehicle, driver or note only; the rules are asked again.
UpdateReadNoOrders(r, d, driver, needsApproval) ==
    /\ "update" \in Endpoints
    /\ At(r, "idle")
    /\ Editable(d)
    /\ Recalculates(r, [Idle EXCEPT !.d = d, !.driver = driver,
                                    !.was = deliveryStatus[d]],
                    OrdersOf(d), needsApproval)
    /\ UNCHANGED <<routeVars, payVars>>

\* Orders are freed and taken by id: what was read decides which, and nothing
\* asks whether an added order is free or belongs to another delivery.
UpdateOrders(r) ==
    LET q == req[r]
        freed == q.seen \ q.refs
        added == q.refs \ q.seen
    IN
    /\ At(r, "updateOrders")
    /\ added # {} => Exists(q.d)
    /\ orderStatus' = [o \in Orders |->
                         CASE o \in freed -> "SEM_ROTA"
                           [] o \in added ->
                                IF q.was = "A_LIBERAR"
                                THEN "EM_ROTA_AGUARDANDO_LIBERACAO" ELSE "EM_ROTA"
                           [] OTHER -> orderStatus[o]]
    /\ orderDelivery' = [o \in Orders |->
                           CASE o \in freed -> None
                             [] o \in added -> q.d
                             [] OTHER -> orderDelivery[o]]
    /\ Continues(r, [q EXCEPT !.pc = "updateReread", !.refs = {}, !.seen = {}])
    /\ UNCHANGED <<deliveryStatus, deliveryDriver, charged, approvals, payVars>>

UpdateReread(r, needsApproval) ==
    /\ At(r, "updateReread")
    /\ Recalculates(r, req[r], OrdersOf(req[r].d), needsApproval)
    /\ UNCHANGED <<routeVars, payVars>>

\* The freight of the new list is refused; the list has been written.
FreightRefused(r) == At(r, "updateReread") /\ Fails(r)

RemoveOrderRead(r, d, o) ==
    /\ Exists(d)
    /\ o \in OrdersOf(d)
    /\ Starts(r, "removeOrder",
              [Idle EXCEPT !.pc = "removeOrderWrite", !.d = d, !.o = o,
                           !.was = deliveryStatus[d], !.seen = OrdersOf(d)])
    /\ UNCHANGED <<routeVars, payVars>>

\* Mutant: the order is freed but keeps its delivery.
FreesItsStatus(r) ==
    LET q == req[r] IN
    /\ At(r, "removeOrderWrite")
    /\ orderStatus' = [orderStatus EXCEPT ![q.o] = "SEM_ROTA"]
    /\ UNCHANGED <<orderDelivery, deliveryStatus, deliveryDriver, charged, approvals, payVars>>

FreesItsOrder(r) ==
    LET q == req[r] IN
    /\ At(r, "removeOrderWrite")
    /\ orderStatus' = [orderStatus EXCEPT ![q.o] = "SEM_ROTA"]
    /\ orderDelivery' = [orderDelivery EXCEPT ![q.o] = None]
    /\ UNCHANGED <<deliveryStatus, deliveryDriver, charged, approvals, payVars>>

RemoveOrderWrite(r, needsApproval) ==
    /\ FreesItsOrder(r)
    /\ Recalculates(r, req[r], req[r].seen \ {req[r].o}, needsApproval)

\* The freight of what remains is refused; the order is free, the totals stay.
RemoveOrderUnfinished(r) == FreesItsOrder(r) /\ Ends(r)

\* Every order of the delivery goes back to waiting, delivered ones included.
RecalcHold(r) ==
    LET q == req[r] IN
    /\ At(r, "recalcHold")
    /\ orderStatus' = [o \in Orders |->
                         IF o \in OrdersOf(q.d)
                         THEN "EM_ROTA_AGUARDANDO_LIBERACAO" ELSE orderStatus[o]]
    /\ Continues(r, [q EXCEPT !.pc = "recalcWrite"])
    /\ UNCHANGED <<orderDelivery, deliveryStatus, deliveryDriver, charged,
                   approvals, payVars>>

RecalcWrite(r) ==
    LET q == req[r] IN
    /\ At(r, "recalcWrite")
    /\ Exists(q.d)
    /\ q.driver # Stranger
    /\ charged' = [charged EXCEPT ![q.d] = q.seen]
    /\ deliveryStatus' = [deliveryStatus EXCEPT ![q.d] =
                            IF q.hold THEN "A_LIBERAR" ELSE @]
    /\ deliveryDriver' = [deliveryDriver EXCEPT ![q.d] =
                            IF q.driver = None THEN @ ELSE q.driver]
    /\ Ends(r)
    /\ UNCHANGED <<orderStatus, orderDelivery, approvals, payVars>>

\* `connect` finds no such driver (P2025), whatever has been written before.
DriverUnknown(r) == At(r, "recalcWrite") /\ req[r].driver = Stranger /\ Fails(r)

-----------------------------------------------------------------------------
(* remove. *)

RemoveRead(r, d) ==
    /\ Exists(d)
    /\ ~ /\ deliveryStatus[d] = "INICIADO"
         /\ \E o \in OrdersOf(d) : orderStatus[o] = "EM_ENTREGA"
    /\ Starts(r, "remove", [Idle EXCEPT !.pc = "removeCommit", !.d = d])
    /\ UNCHANGED <<routeVars, payVars>>

\* Mutant: the payments go with the row.
RemoveCommitWithPayments(r) ==
    LET d == req[r].d IN
    /\ At(r, "removeCommit")
    /\ Exists(d)
    /\ deliveryStatus' = [deliveryStatus EXCEPT ![d] = "deleted"]
    /\ deliveryDriver' = [deliveryDriver EXCEPT ![d] = None]
    /\ charged' = [charged EXCEPT ![d] = {}]
    /\ approvals' = [approvals EXCEPT ![d] = {}]
    /\ orderStatus' = [o \in Orders |->
                         IF o \in OrdersOf(d) THEN "SEM_ROTA" ELSE orderStatus[o]]
    /\ orderDelivery' = [o \in Orders |->
                           IF o \in OrdersOf(d) THEN None ELSE orderDelivery[o]]
    /\ payFor' = [p \in Payments |-> IF payFor[p] = d THEN None ELSE payFor[p]]
    /\ payStatus' = [p \in Payments |-> IF payFor[p] = d THEN "absent" ELSE payStatus[p]]
    /\ Ends(r)
    /\ UNCHANGED <<payDriver, payBasis>>

\* The payment links and approvals go with the row, the payments stay.
RemoveCommit(r) ==
    LET d == req[r].d IN
    /\ At(r, "removeCommit")
    /\ Exists(d)
    /\ deliveryStatus' = [deliveryStatus EXCEPT ![d] = "deleted"]
    /\ deliveryDriver' = [deliveryDriver EXCEPT ![d] = None]
    /\ charged' = [charged EXCEPT ![d] = {}]
    /\ approvals' = [approvals EXCEPT ![d] = {}]
    /\ orderStatus' = [o \in Orders |->
                         IF o \in OrdersOf(d) THEN "SEM_ROTA" ELSE orderStatus[o]]
    /\ orderDelivery' = [o \in Orders |->
                           IF o \in OrdersOf(d) THEN None ELSE orderDelivery[o]]
    /\ payFor' = [p \in Payments |-> IF payFor[p] = d THEN None ELSE payFor[p]]
    /\ Ends(r)
    /\ UNCHANGED <<payStatus, payDriver, payBasis>>

\* A write that names the delivery row finds it deleted.
DeliveryGone(r) ==
    /\ \/ req[r].pc \in {"liberarCommit", "rejeitarCommit", "statusFinalize",
                         "recalcWrite", "removeCommit"}
       \/ At(r, "updateOrders") /\ ~(req[r].refs \subseteq req[r].seen)
    /\ ~Exists(req[r].d)
    /\ Fails(r)

-----------------------------------------------------------------------------
(* What a handler of this service does once it has started. *)
DeliveryStep(r) ==
    \/ CreateCommit(r)
    \/ LiberarCommit(r)
    \/ RejeitarCommit(r)
    \/ StatusWrite(r)
    \/ StatusCount(r)
    \/ StatusFinalize(r)
    \/ UpdateOrders(r)
    \/ RecalcHold(r)
    \/ RecalcWrite(r)
    \/ RemoveCommit(r)
    \/ \E needsApproval \in BOOLEAN :
          UpdateReread(r, needsApproval) \/ RemoveOrderWrite(r, needsApproval)

\* Where it is refused, once it has started, with nothing more written.
DeliveryRefused(r) == DeliveryGone(r) \/ DriverUnknown(r) \/ FreightRefused(r)

DeliveryCall(r) ==
    \/ \E d \in Deliveries, refs \in SUBSET Orders, driver \in Drivers, hold \in BOOLEAN :
          CreateRead(r, d, refs, driver, hold)
    \/ \E d \in Deliveries : LiberarRead(r, d) \/ RejeitarRead(r, d) \/ RemoveRead(r, d)
    \/ \E driver \in Drivers, o \in Orders, to \in OrderStatus : StatusRead(r, driver, o, to)
    \/ \E d \in Deliveries, refs \in SUBSET Orders, driver \in Drivers \cup {Stranger, None} :
          UpdateRead(r, d, refs, driver)
    \/ \E d \in Deliveries, driver \in Drivers \cup {Stranger, None}, needsApproval \in BOOLEAN :
          UpdateReadNoOrders(r, d, driver, needsApproval)
    \/ \E d \in Deliveries, o \in Orders : RemoveOrderRead(r, d, o)

=============================================================================
