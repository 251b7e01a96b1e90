--------------------------- MODULE DeliverySystem ---------------------------
(***************************************************************************)
(* DeliveryService and PaymentsService over one database, with as many     *)
(* handlers in flight as there are request slots.                          *)
(*                                                                         *)
(* The first group of properties holds however the handlers interleave and *)
(* whichever of them stops half way.  The second group is what the guards  *)
(* are there for.  Handlers that overlap or stop can break it; it says     *)
(* that nothing else does: a delivery that disagrees with its orders or    *)
(* its payment has been written by a handler that went by what was no      *)
(* longer so (raced), or left by one between two writes (abandoned).       *)
(***************************************************************************)
EXTENDS Delivery, Payments, Views, Interference

\* A handler takes a call, or its next step.
Works(r) == DeliveryCall(r) \/ DeliveryStep(r) \/ PaymentCall(r) \/ PaymentStep(r)

\* It is refused, or dies, with nothing more written.
Stops(r) == DeliveryRefused(r) \/ PayGone(r) \/ Die(r)

Handles(r) ==
    /\ \/ Works(r) /\ Races(r) /\ UNCHANGED abandoned
       \/ RemoveOrderUnfinished(r) /\ Races(r) /\ Abandons(r)
       \/ Stops(r) /\ Abandons(r) /\ UNCHANGED raced
    /\ Overtakes(r)
    /\ Begins(r)

Next == \E r \in Requests : Handles(r)

systemVars == <<vars, histories>>

Spec == Init /\ HistoriesInit /\ [][Next]_systemVars

-----------------------------------------------------------------------------
(* Under any interleaving. *)

\* An order that may be routed (create asks for SEM_ROTA) is on no delivery:
\* the status and the foreign key are always written together on the way out,
\* and no handler writes SEM_ROTA to an order it leaves on a route.
FreeOrdersAreOffRoute ==
    \A o \in Orders : orderStatus[o] = "SEM_ROTA" => orderDelivery[o] = None

\* A rejected delivery carries its rejection in the approval history, which
\* only its removal erases.
RejectionIsOnRecord ==
    \A d \in Deliveries : deliveryStatus[d] = "REJEITADO" => "REJECTED" \in approvals[d]

\* A payment is owed to a driver, and what it was computed from does not move
\* once it is in the books, whatever happens to the delivery afterwards.
BooksAreFixed ==
    [][\A p \in Payments : payStatus[p] # "absent" =>
          /\ payStatus'[p] # "absent"
          /\ payDriver'[p] = payDriver[p] /\ payDriver[p] \in Drivers
          /\ payBasis'[p] = payBasis[p]
          /\ payFor'[p] \in {payFor[p], None}]_systemVars

-----------------------------------------------------------------------------
(* Unless in a race, or where a handler stopped half way. *)

Settled(d) == d \notin raced \cup abandoned

\* Where an order stands agrees with where its delivery stands.  (An edition can
\* be refused after it has held the orders: they then wait on a running route.)
OrdersFollowTheirDelivery ==
    \A o \in Orders : (Quiet /\ orderDelivery[o] # None /\ orderDelivery[o] \notin raced) =>
        CASE deliveryStatus[orderDelivery[o]] = "A_LIBERAR" ->
               orderStatus[o] = "EM_ROTA_AGUARDANDO_LIBERACAO"
          [] deliveryStatus[orderDelivery[o]] = "INICIADO" ->
               \/ orderStatus[o] \in {"EM_ROTA", "EM_ENTREGA"} \cup Finished
               \/ /\ orderStatus[o] = "EM_ROTA_AGUARDANDO_LIBERACAO"
                  /\ orderDelivery[o] \in abandoned
          [] deliveryStatus[orderDelivery[o]] = "FINALIZADO" ->
               orderStatus[o] \in Finished
          [] OTHER -> FALSE

\* What a driver is paid for covers every order the delivery carries: totals
\* and freight were computed from at least those.
CarriedOrdersAreCharged ==
    \A d \in Deliveries : (Quiet /\ Exists(d) /\ Settled(d)) => OrdersOf(d) \subseteq charged[d]

\* A delivery has at most one payment, and a finalised one has it.
PaidOnce ==
    Quiet => \A d \in Deliveries \ raced :
        /\ Cardinality(LinksOf(d)) <= 1
        /\ deliveryStatus[d] = "FINALIZADO" /\ d \notin abandoned => LinksOf(d) # {}

\* A finalised delivery's payment goes to the driver who is on record for it,
\* for an amount computed from every order still on it.  (Payments made by
\* hand, before the end of the route, promise neither.)
PaymentMatchesDelivery ==
    \A p \in Payments : (Quiet /\ payFor[p] # None /\ payFor[p] \notin raced) =>
        /\ payDriver[p] = deliveryDriver[payFor[p]]
        /\ payFor[p] \notin abandoned => OrdersOf(payFor[p]) \subseteq payBasis[p]

\* A delivery once rejected or finalised never comes back, one that waits for
\* release leaves that state by a decision or by removal, only a running one is
\* finalised, and it is not removed while its driver is leaving with an order.
LifecycleIsRespected ==
    [][\A d \in Deliveries : (deliveryStatus'[d] # deliveryStatus[d] /\ d \notin raced') =>
          CASE deliveryStatus[d] = "absent" -> deliveryStatus'[d] \in {"A_LIBERAR", "INICIADO"}
            [] deliveryStatus[d] = "A_LIBERAR" ->
                 deliveryStatus'[d] \in {"INICIADO", "REJEITADO", "deleted"}
            [] deliveryStatus[d] = "INICIADO" ->
                 \/ deliveryStatus'[d] \in {"A_LIBERAR", "FINALIZADO"}
                 \/ /\ deliveryStatus'[d] = "deleted"
                    /\ \A o \in OrdersOf(d) : orderStatus[o] # "EM_ENTREGA"
            [] OTHER -> deliveryStatus'[d] = "deleted"]_systemVars

\* A delivery that was rejected does not run.
RejectedNeverRuns ==
    \A d \in Deliveries \ raced :
        "REJECTED" \in approvals[d] => deliveryStatus[d] = "REJEITADO"

\* Once booked, a payment is settled while pending and reverted while paid; any
\* other change is one that updateStatus was asked for.
PaymentsChangeAsAsked ==
    [][\A p \in Payments \ raced' :
          (payStatus[p] # "absent" /\ payStatus'[p] # payStatus[p]) =>
             \/ payStatus[p] = "PENDENTE" /\ payStatus'[p] = "PAGO"
             \/ payStatus[p] = "PAGO" /\ payStatus'[p] = "PENDENTE"
             \/ \E r \in Requests : /\ At(r, "payStatusWrite") /\ p \in req[r].pays
                                    /\ req[r].to = payStatus'[p]]_systemVars

\* An order is put on a delivery only while it is free, as create's message
\* says of the orders it refuses.
OnlyFreeOrdersAreRouted ==
    [][\A o \in Orders : (orderDelivery'[o] # orderDelivery[o] /\ orderDelivery'[o] # None)
          => orderStatus[o] = "SEM_ROTA"]_systemVars

\* What a driver is told he will receive is what the books owe him: the finalised
\* deliveries with a payment to him that is not paid, and for each of them no
\* order that the payment was not computed from.
ReceivablesAreInTheBooks ==
    \A v \in Drivers :
        /\ {d \in getDriverReceivables(v) : Settled(d)} =
             {d \in Deliveries :
                 Settled(d) /\ \E p \in LinksOf(d) : payDriver[p] = v /\ payStatus[p] # "PAGO"}
        /\ \A d \in getDriverReceivables(v) :
              Settled(d) => \A p \in LinksOf(d) : charged[d] \subseteq payBasis[p]

\* What the back office counts is what the drivers see: each delivery under way
\* or finalised is on one driver's list, with every order that is counted as in
\* route or delivered, and an order that is counted as pending is on nobody's.
StatisticsCountTheRoutes ==
    LET seen(v) == getDriverRoutes(v, TRUE)
        shown(v) == UNION {getRouteDetails(v, d) : d \in seen(v)}
    IN
    /\ deliveriesCount("INICIADO", None) + deliveriesCount("FINALIZADO", None)
         = Cardinality(UNION {seen(v) : v \in Drivers}) - deliveriesCount("A_LIBERAR", None)
    /\ \A v, w \in Drivers : v # w => shown(v) \cap shown(w) = {}
    /\ ordersCount("EM_ROTA", None) + ordersCount("ENTREGUE", None)
         = Cardinality({o \in UNION {shown(v) : v \in Drivers} :
                          orderStatus[o] \in {"EM_ROTA", "ENTREGUE"}})
    /\ \A o \in Orders, v \in Drivers : orderStatus[o] = "SEM_ROTA" => getDeliveryDetails(v, o) = {}

\* Application, statistics and books tell the same story.
ViewsAgree == Quiet => ReceivablesAreInTheBooks /\ (raced = {} => StatisticsCountTheRoutes)

\* A rejection gives its orders back: an order on no delivery can be routed.
OffRouteOrdersAreFree ==
    \A o \in Orders : (Quiet /\ orderDelivery[o] = None) => orderStatus[o] = "SEM_ROTA"

\* What a finalised delivery carries stays closed, and nothing is added to it.
FinalisedIsClosed ==
    [][\A d \in Deliveries :
           /\ deliveryStatus[d] = "FINALIZADO" /\ deliveryStatus'[d] = "FINALIZADO"
           /\ d \notin raced'
          => (OrdersOf(d))' \subseteq OrdersOf(d)]_systemVars
=============================================================================
