----------------------------- MODULE Completion -----------------------------
(***************************************************************************)
(* A route under way and nobody editing it: the only calls are those of    *)
(* the drivers' application, updateOrderStatus, and what it does at the    *)
(* end, finalisation and payment.  The handlers are those of Delivery and  *)
(* Payments; here none of them dies half way.                              *)
(*                                                                         *)
(* The interesting case is several orders of one route concluded at once:  *)
(* each handler writes its order and counts the unfinished ones in another *)
(* statement.                                                              *)
(***************************************************************************)
EXTENDS Delivery, Payments

\* Deliveries created from these orders with no approval needed.
InitUnderway ==
    /\ orderStatus = [o \in Orders |-> "EM_ROTA"]
    /\ orderDelivery \in [Orders -> Deliveries]
    /\ deliveryStatus = [d \in Deliveries |->
                           IF OrdersOf(d) = {} THEN "absent" ELSE "INICIADO"]
    /\ deliveryDriver \in [Deliveries -> Drivers]
    /\ charged = [d \in Deliveries |-> OrdersOf(d)]
    /\ approvals = [d \in Deliveries |-> {}]
    /\ payStatus = [p \in Payments |-> "absent"]
    /\ payFor = [p \in Payments |-> None]
    /\ payDriver = [p \in Payments |-> None]
    /\ payBasis = [p \in Payments |-> {}]
    /\ req = [r \in Requests |-> Idle]

\* The handler of one call, from its first write to its end.
Proceed(r) ==
    \/ StatusWrite(r)
    \/ StatusCount(r)
    \/ StatusFinalize(r)
    \/ PayRead(r)
    \/ PayCheck(r)
    \/ \E p \in Payments : PayCommit(r, p)

DriverCall(r) ==
    \E driver \in Drivers, o \in Orders, to \in OrderStatus : StatusRead(r, driver, o, to)

NextUnderway == \E r \in Requests : DriverCall(r) \/ Proceed(r)

SpecUnderway == InitUnderway /\ [][NextUnderway]_vars

\* Node's event loop resumes every handler whose database call has answered;
\* drivers are under no obligation.
FairUnderway == SpecUnderway /\ \A r \in Requests : WF_vars(Proceed(r))

-----------------------------------------------------------------------------
Under(d) == deliveryStatus[d] = "INICIADO" /\ OrdersOf(d) # {}
Finalising(r, d) == req[r].pc \in {"statusCount", "statusFinalize"} /\ req[r].d = d
Paying(r, d) == req[r].pc \in {"payRead", "payCheck", "payCommit"} /\ req[r].d = d

\* The last conclusion is never overlooked: when no order of a running delivery
\* is unfinished, some handler still has its count or its finalisation to do.
\* (Each handler counts after it has written, so of several concurrent ones the
\* last to write sees them all.)
LastConclusionIsSeen ==
    \A d \in Deliveries : (Under(d) /\ Unfinished(d) = {}) =>
        \E r \in Requests : Finalising(r, d)

\* A finalised delivery is paid for, or its payment is on the way.
FinalisedIsPaidOrPaying ==
    \A d \in Deliveries : deliveryStatus[d] = "FINALIZADO" =>
        LinksOf(d) # {} \/ \E r \in Requests : Paying(r, d)

\* A delivery with every order concluded gets finalised, unless a late write
\* of another handler reopens one of them.
ConcludedGetsFinalised ==
    \A d \in Deliveries : (Under(d) /\ Unfinished(d) = {}) ~>
        (deliveryStatus[d] = "FINALIZADO" \/ Unfinished(d) # {})

\* A finalised delivery gets its payment.
FinalisedGetsPaid ==
    \A d \in Deliveries : deliveryStatus[d] = "FINALIZADO" ~> LinksOf(d) # {}

\* isValidOrderStatusTransition, of the row itself and not of what was read.
OrderStepsAreValid ==
    [][\A o \in Orders : orderStatus'[o] # orderStatus[o] =>
          isValidOrderStatusTransition(orderStatus[o], orderStatus'[o])]_vars

\* One delivery, one payment: the message of PaymentsService.create.
OnePaymentPerDelivery == \A d \in Deliveries : Cardinality(LinksOf(d)) <= 1

-----------------------------------------------------------------------------
(* With one call at a time the handlers implement the contract: a route is *)
(* closed, and its payment promised, from the write of the last order on.  *)

Concluding(d) ==
    \/ deliveryStatus[d] = "FINALIZADO"
    \/ Unfinished(d) = {} /\ \E r \in Requests : Finalising(r, d)

PromisedTo(d) ==
    {payDriver[p] : p \in LinksOf(d)} \cup
    (IF \E r \in Requests : \/ Paying(r, d)
                            \/ Finalising(r, d) /\ Unfinished(d) = {}
     THEN {deliveryDriver[d]} ELSE {})

Contract == INSTANCE RouteContract
                WITH stage <- orderStatus, route <- orderDelivery,
                     driver <- deliveryDriver,
                     closed <- {d \in Deliveries : Concluding(d)},
                     due <- [d \in Deliveries |-> PromisedTo(d)]

KeepsContract == Contract!Spec
=============================================================================
