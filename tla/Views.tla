-------------------------------- MODULE Views --------------------------------
(***************************************************************************)
(* What is read back of deliveries, orders and payments: by the drivers'   *)
(* application (MobileService) and by the statistics of the back office    *)
(* (StatisticsService).                                                    *)
(*                                                                         *)
(* A view is a function of one state.  Its queries run outside of a        *)
(* transaction, so this is what a reader is told while nobody writes.      *)
(* Sums of freight, value and weight are represented by the rows they are  *)
(* sums over, and the period asked for is the whole of time.               *)
(***************************************************************************)
EXTENDS DeliveryState

-----------------------------------------------------------------------------
(* The drivers' application. *)

\* Mutant: whatever is no longer pending has been paid.
IsSettled(d) == \E p \in LinksOf(d) : payStatus[p] # "PENDENTE"
\* paymentStatus 'pago'.
IsPaid(d) == \E p \in LinksOf(d) : payStatus[p] = "PAGO"

RoutesOf(driver, statuses) ==
    {d \in Deliveries : deliveryStatus[d] \in statuses /\ deliveryDriver[d] = driver}

getDriverRoutes(driver, includeHistory) ==
    RoutesOf(driver, {"A_LIBERAR", "INICIADO"}
                     \cup (IF includeHistory THEN {"FINALIZADO"} ELSE {}))

getDriverHistory(driver) == RoutesOf(driver, {"FINALIZADO"})

\* The deliveries whose freight makes up totalAmount.
getDriverReceivables(driver) == {d \in RoutesOf(driver, {"FINALIZADO"}) : ~ IsPaid(d)}

\* Details are given of any route that is the driver's, rejected ones too.
getRouteDetails(driver, d) ==
    IF d \in RoutesOf(driver, DeliveryStatus) THEN OrdersOf(d) ELSE {}

\* Of an order that is on a route of the driver's: the route and its status.
getDeliveryDetails(driver, o) ==
    {d \in RoutesOf(driver, DeliveryStatus) : o \in OrdersOf(d)}

-----------------------------------------------------------------------------
(* Statistics; `driver` is None when none is asked for. *)

\* Order.driverId is asked for, which nothing sets.
ordersCount(status, driver) ==
    Cardinality({o \in Orders : orderStatus[o] = status /\ driver = None})

freightsCount(status, driver) ==
    Cardinality({p \in Payments : payStatus[p] = status /\ driver \in {None, payDriver[p]}})

deliveriesCount(status, driver) ==
    Cardinality({d \in Deliveries : /\ deliveryStatus[d] = status
                                    /\ driver \in {None, deliveryDriver[d]}})

\* groupBy driverId: what becomes of the deliveries does not matter.
deliveriesByDriver == [driver \in Drivers |-> Cardinality(RoutesOf(driver, DeliveryStatus))]

\* Orders, their value and their weight, each over the number of deliveries.
avgPerDriver(driver) ==
    [sum |-> {o \in Orders : orderDelivery[o] \in RoutesOf(driver, DeliveryStatus)},
     over |-> Cardinality(RoutesOf(driver, DeliveryStatus))]

=============================================================================
