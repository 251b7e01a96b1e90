---------------------------- MODULE RouteContract ----------------------------
(***************************************************************************)
(* What the back office and the driver are promised of a route under way:  *)
(* an order leaves for delivery and comes back delivered or not, and the   *)
(* outcome of the last one closes the route and owes its driver one        *)
(* payment, all in that one instant.  DeliveryService and PaymentsService  *)
(* need up to six database calls for it; Completion says when they keep    *)
(* the promise.                                                            *)
(***************************************************************************)
CONSTANTS Orders, Deliveries, Drivers

VARIABLES
    stage,     \* stage of each order
    route,     \* the route each order is on
    driver,    \* the driver of each route
    closed,    \* the routes that are over
    due        \* payments promised for each route: the drivers they go to

contractVars == <<stage, route, driver, closed, due>>

Outcome == {"ENTREGUE", "NAO_ENTREGUE"}

Init ==
    /\ stage = [o \in Orders |-> "EM_ROTA"]
    /\ route \in [Orders -> Deliveries]
    /\ driver \in [Deliveries -> Drivers]
    /\ closed = {}
    /\ due = [d \in Deliveries |-> {}]

Depart(o) ==
    /\ stage[o] = "EM_ROTA"
    /\ stage' = [stage EXCEPT ![o] = "EM_ENTREGA"]
    /\ UNCHANGED <<route, driver, closed, due>>

\* The outcome of an order closes its route when it is the last one.
Conclude(o, outcome) ==
    LET d == route[o]
        last == \A x \in Orders \ {o} : route[x] = d => stage[x] \in Outcome
    IN
    /\ stage[o] = "EM_ENTREGA"
    /\ stage' = [stage EXCEPT ![o] = outcome]
    /\ closed' = IF last THEN closed \cup {d} ELSE closed
    /\ due' = IF last THEN [due EXCEPT ![d] = {driver[d]}] ELSE due
    /\ UNCHANGED <<route, driver>>

Next == \E o \in Orders : Depart(o) \/ \E outcome \in Outcome : Conclude(o, outcome)

Spec == Init /\ [][Next]_contractVars
=============================================================================
