--------------------------- MODULE CompletionProofs ---------------------------
(***************************************************************************)
(* A route under way, for any number of orders, routes, drivers and        *)
(* handlers in flight: the conclusion of the last order is never           *)
(* overlooked, and what is finalised is paid or being paid.  With one call *)
(* at a time the handlers do more: they implement RouteContract.           *)
(*                                                                         *)
(* The argument rests on UnderwayInv: a handler that is about to write an  *)
(* order holds that order's own delivery, so a write disturbs the          *)
(* unfinished orders of no delivery but the one it will count; and a       *)
(* payment not yet made has no link that making it would overwrite.        *)
(***************************************************************************)
EXTENDS Completion, TLAPS

PcUnderway == {"idle", "statusWrite", "statusCount", "statusFinalize",
               "payRead", "payCheck", "payCommit"}

UnderwayTypes ==
    /\ orderStatus \in [Orders -> OrderStatus]
    /\ orderDelivery \in [Orders -> Deliveries]
    /\ deliveryStatus \in [Deliveries -> DeliveryStatus \cup {"absent", "deleted"}]
    /\ payStatus \in [Payments -> PaymentStatus \cup {"absent"}]
    /\ payFor \in [Payments -> Deliveries \cup {None}]
    /\ DOMAIN req = Requests

Holds(q) ==
    /\ DOMAIN q = DOMAIN Idle
    /\ q.pc \in PcUnderway
    /\ q.pc # "idle" => q.d \in Deliveries
    /\ q.pc = "statusWrite" => /\ q.o \in Orders
                               /\ orderDelivery[q.o] = q.d
                               /\ q.to \in {"EM_ENTREGA"} \cup Finished

HandlersHold == \A r \in Requests : Holds(req[r])

UnmadeHaveNoLink == \A p \in Payments : payStatus[p] = "absent" => payFor[p] = None

UnderwayInv == UnderwayTypes /\ HandlersHold /\ UnmadeHaveNoLink

\* A step of one handler leaves every other record as it was and gives its
\* own a new one.
LEMMA OthersWait ==
    ASSUME UnderwayTypes, NEW r \in Requests, NEW f, req' = [req EXCEPT ![r] = f]
    PROVE  /\ DOMAIN req' = Requests
           /\ req'[r] = f
           /\ \A x \in Requests \ {r} : req'[x] = req[x]
BY DEF UnderwayTypes

\* The records a handler of updateOrderStatus passes through.
LEMMA FieldsOf ==
    ASSUME NEW pc, NEW d, NEW o, NEW to
    PROVE  /\ [Idle EXCEPT !.pc = pc, !.d = d].pc = pc
           /\ [Idle EXCEPT !.pc = pc, !.d = d].d = d
           /\ [Idle EXCEPT !.pc = pc, !.d = d, !.o = o, !.to = to].pc = pc
           /\ [Idle EXCEPT !.pc = pc, !.d = d, !.o = o, !.to = to].d = d
           /\ [Idle EXCEPT !.pc = pc, !.d = d, !.o = o, !.to = to].o = o
           /\ [Idle EXCEPT !.pc = pc, !.d = d, !.o = o, !.to = to].to = to
           /\ DOMAIN [Idle EXCEPT !.pc = pc, !.d = d] = DOMAIN Idle
           /\ DOMAIN [Idle EXCEPT !.pc = pc, !.d = d, !.o = o, !.to = to] = DOMAIN Idle
           /\ Idle.pc = "idle"
BY DEF Idle

\* A handler that goes on with nothing but its delivery.
LEMMA GoesOnWith ==
    ASSUME UnderwayTypes, NEW r \in Requests, NEW pc, NEW d,
           req' = [req EXCEPT ![r] = [Idle EXCEPT !.pc = pc, !.d = d]]
    PROVE  req'[r].pc = pc /\ req'[r].d = d
<1> DEFINE f == [Idle EXCEPT !.pc = pc, !.d = d]
<1>1. f.pc = pc /\ f.d = d
  BY FieldsOf
<1>2. req'[r] = f
  BY DEF UnderwayTypes
<1>3. QED
  BY <1>1, <1>2

\* A handler that goes on with its own record, in another place.
LEMMA FieldsKept ==
    ASSUME NEW q, DOMAIN q = DOMAIN Idle, NEW pc, NEW driver, NEW seen
    PROVE  /\ [q EXCEPT !.pc = pc].pc = pc
           /\ [q EXCEPT !.pc = pc].d = q.d /\ [q EXCEPT !.pc = pc].driver = q.driver
           /\ DOMAIN [q EXCEPT !.pc = pc] = DOMAIN Idle
           /\ [q EXCEPT !.pc = pc, !.driver = driver, !.seen = seen].pc = pc
           /\ [q EXCEPT !.pc = pc, !.driver = driver, !.seen = seen].d = q.d
           /\ [q EXCEPT !.pc = pc, !.driver = driver, !.seen = seen].driver = driver
           /\ DOMAIN [q EXCEPT !.pc = pc, !.driver = driver, !.seen = seen] = DOMAIN Idle
BY DEF Idle

-----------------------------------------------------------------------------
(* UnderwayInv is inductive.                                               *)

LEMMA UnderwayInit == InitUnderway => UnderwayInv
<1> SUFFICES ASSUME InitUnderway
             PROVE  UnderwayInv
  OBVIOUS
<1>1. UnderwayTypes
  BY DEF InitUnderway, UnderwayTypes, OrderStatus, DeliveryStatus, PaymentStatus
<1>2. HandlersHold
  BY FieldsOf DEF InitUnderway, HandlersHold, Holds, PcUnderway
<1>3. QED
  BY <1>1, <1>2 DEF InitUnderway, UnderwayInv, UnmadeHaveNoLink

\* What a step does to the tables: every order keeps its delivery.
LEMMA UnderwayTablesStep ==
    ASSUME UnderwayInv, [NextUnderway]_vars
    PROVE  /\ UnderwayTypes' /\ UnmadeHaveNoLink'
           /\ orderDelivery' = orderDelivery
<1> USE DEF UnderwayInv
<1>1. CASE UNCHANGED vars
  BY <1>1 DEF UnderwayTypes, UnmadeHaveNoLink, vars, routeVars, payVars
<1>2. ASSUME NEW r \in Requests, DriverCall(r)
      PROVE  /\ UnderwayTypes' /\ UnmadeHaveNoLink'
             /\ orderDelivery' = orderDelivery
  BY <1>2 DEF DriverCall, StatusRead, Starts, UnderwayTypes, UnmadeHaveNoLink,
       routeVars, payVars
<1>3. ASSUME NEW r \in Requests, Proceed(r)
      PROVE  /\ UnderwayTypes' /\ UnmadeHaveNoLink'
             /\ orderDelivery' = orderDelivery
  <2>q. Holds(req[r])
    BY DEF HandlersHold
  <2>1. CASE StatusWrite(r)
    <3>1. req[r].to \in OrderStatus
      BY <2>q, <2>1 DEF StatusWrite, At, Holds, OrderStatus, Finished
    <3>2. QED
      BY <2>1, <3>1 DEF StatusWrite, Continues, UnderwayTypes, UnmadeHaveNoLink, payVars
  <2>2. CASE StatusCount(r) \/ PayRead(r) \/ PayCheck(r)
    BY <2>2 DEF StatusCount, PayRead, PayCheck, Continues, Ends, UnderwayTypes,
         UnmadeHaveNoLink, routeVars, payVars
  <2>3. CASE StatusFinalize(r)
    BY <2>3 DEF StatusFinalize, Continues, UnderwayTypes, DeliveryStatus,
         UnmadeHaveNoLink, payVars
  <2>4. ASSUME NEW new \in Payments, PayCommit(r, new)
        PROVE  /\ UnderwayTypes' /\ UnmadeHaveNoLink'
               /\ orderDelivery' = orderDelivery
    <3>1. req[r].d \in Deliveries
      BY <2>q, <2>4 DEF PayCommit, At, Holds
    <3>2. UnderwayTypes'
      BY <2>4, <3>1 DEF PayCommit, Ends, UnderwayTypes, PaymentStatus, routeVars
    <3>3. UnmadeHaveNoLink'
      BY <2>4, <3>1 DEF PayCommit, UnderwayTypes, UnmadeHaveNoLink
    <3>4. QED
      BY <2>4, <3>2, <3>3 DEF PayCommit, routeVars
  <2>5. QED
    BY <1>3, <2>1, <2>2, <2>3, <2>4 DEF Proceed
<1>4. QED
  BY <1>1, <1>2, <1>3 DEF NextUnderway

\* A handler whose record is replaced by one that holds.
LEMMA HandlersGoOn ==
    ASSUME UnderwayInv, NEW r \in Requests, NEW f, Holds(f),
           req' = [req EXCEPT ![r] = f], orderDelivery' = orderDelivery
    PROVE  HandlersHold'
BY OthersWait DEF UnderwayInv, HandlersHold, Holds

LEMMA UnderwayHandlersStep ==
    ASSUME UnderwayInv, [NextUnderway]_vars
    PROVE  HandlersHold'
<1>0. orderDelivery' = orderDelivery
  BY UnderwayTablesStep
<1>1. CASE UNCHANGED vars
  BY <1>1 DEF UnderwayInv, HandlersHold, Holds, vars, routeVars
<1>2. ASSUME NEW r \in Requests, NEW driver \in Drivers, NEW o \in Orders,
             NEW to \in OrderStatus, StatusRead(r, driver, o, to)
      PROVE  HandlersHold'
  <2>1. to \in {"EM_ENTREGA"} \cup Finished /\ orderDelivery[o] \in Deliveries
    BY <1>2 DEF StatusRead, isValidOrderStatusTransition, UnderwayInv, UnderwayTypes
  <2>2. Holds([Idle EXCEPT !.pc = "statusWrite", !.d = orderDelivery[o],
                           !.o = o, !.to = to])
    BY <2>1, FieldsOf DEF Holds, PcUnderway
  <2>3. QED
    BY <1>0, <1>2, <2>2, HandlersGoOn DEF StatusRead, Starts
<1>3. ASSUME NEW r \in Requests, Proceed(r)
      PROVE  HandlersHold'
  <2>q. Holds(req[r])
    BY DEF UnderwayInv, HandlersHold
  <2>i. Holds(Idle)
    BY FieldsOf DEF Holds, PcUnderway
  <2>n. \A pc \in {"statusCount", "statusFinalize", "payRead"}, d \in Deliveries :
            Holds([Idle EXCEPT !.pc = pc, !.d = d])
    BY FieldsOf DEF Holds, PcUnderway
  <2>d. ~At(r, "idle") => req[r].d \in Deliveries
    BY <2>q DEF Holds, At
  <2>1. CASE StatusWrite(r)
    BY <1>0, <2>1, <2>d, <2>n, HandlersGoOn DEF StatusWrite, At, Continues
  <2>2. CASE StatusCount(r)
    BY <1>0, <2>2, <2>d, <2>n, <2>i, HandlersGoOn DEF StatusCount, At, Continues, Ends,
         routeVars
  <2>3. CASE StatusFinalize(r)
    BY <1>0, <2>3, <2>d, <2>n, HandlersGoOn DEF StatusFinalize, At, Continues
  <2>4. CASE PayRead(r)
    <3>1. Holds([req[r] EXCEPT !.pc = "payCheck", !.driver = deliveryDriver[req[r].d],
                               !.seen = charged[req[r].d]])
      BY <2>q, <2>d, <2>4, FieldsKept DEF PayRead, At, Holds, PcUnderway
    <3>2. QED
      BY <1>0, <2>4, <3>1, HandlersGoOn DEF PayRead, Continues, routeVars
  <2>5. CASE PayCheck(r)
    <3>1. Holds([req[r] EXCEPT !.pc = "payCommit"])
      BY <2>q, <2>d, <2>5, FieldsKept DEF PayCheck, At, Holds, PcUnderway
    <3>2. QED
      BY <1>0, <2>5, <2>i, <3>1, HandlersGoOn DEF PayCheck, Continues, Ends
  <2>6. ASSUME NEW new \in Payments, PayCommit(r, new)
        PROVE  HandlersHold'
    BY <1>0, <2>6, <2>i, HandlersGoOn DEF PayCommit, Ends
  <2>7. QED
    BY <1>3, <2>1, <2>2, <2>3, <2>4, <2>5, <2>6 DEF Proceed
<1>4. QED
  BY <1>1, <1>2, <1>3 DEF NextUnderway, DriverCall

LEMMA UnderwayStep == UnderwayInv /\ [NextUnderway]_vars => UnderwayInv'
BY UnderwayTablesStep, UnderwayHandlersStep DEF UnderwayInv

LEMMA UnderwayInvariance == SpecUnderway => []UnderwayInv
BY UnderwayInit, UnderwayStep, PTL DEF SpecUnderway

-----------------------------------------------------------------------------
(* The two safety properties.                                              *)

\* Whoever writes the last order counts afterwards, whoever counts none goes
\* on to finalise, and only finalising ends it.
LEMMA LastConclusionStep ==
    ASSUME UnderwayInv, LastConclusionIsSeen, [NextUnderway]_vars
    PROVE  LastConclusionIsSeen'
<1> SUFFICES ASSUME NEW d \in Deliveries, (Under(d) /\ Unfinished(d) = {})'
             PROVE  (\E r \in Requests : Finalising(r, d))'
  BY DEF LastConclusionIsSeen
<1>0. UnderwayTypes /\ orderDelivery' = orderDelivery
  BY UnderwayTablesStep DEF UnderwayInv
<1>d. OrdersOf(d)' = OrdersOf(d)
  BY <1>0 DEF OrdersOf
\* Unless its orders were written, the delivery was concluded before the step.
<1>b. ASSUME UNCHANGED orderStatus, deliveryStatus[d] = "INICIADO"
      PROVE  \E r \in Requests : Finalising(r, d)
  BY <1>d, <1>b DEF Unfinished, Under, LastConclusionIsSeen
<1>1. CASE UNCHANGED vars
  BY <1>1, <1>b DEF Under, Finalising, vars, routeVars
<1>2. ASSUME NEW r \in Requests, NEW driver \in Drivers, NEW o \in Orders,
             NEW to \in OrderStatus, StatusRead(r, driver, o, to)
      PROVE  (\E x \in Requests : Finalising(x, d))'
  <2>1. PICK x \in Requests : Finalising(x, d)
    BY <1>2, <1>b DEF StatusRead, Under, routeVars
  <2>2. x # r
    BY <1>2, <2>1 DEF StatusRead, Starts, At, Finalising
  <2>3. req'[x] = req[x]
    BY <1>0, <1>2, <2>2, OthersWait DEF StatusRead, Starts
  <2>4. QED
    BY <2>1, <2>3 DEF Finalising
<1>3. ASSUME NEW r \in Requests, Proceed(r)
      PROVE  (\E x \in Requests : Finalising(x, d))'
  <2>q. Holds(req[r])
    BY DEF UnderwayInv, HandlersHold
  <2>1. CASE StatusWrite(r)
    <3>1. CASE req[r].d = d
      BY <1>0, <2>1, <3>1, GoesOnWith DEF StatusWrite, Continues, Finalising
    <3>2. CASE req[r].d # d
      <4>1. Unfinished(d) = {} /\ Under(d)
        <5>1. \A o \in OrdersOf(d) : orderStatus'[o] = orderStatus[o]
          BY <1>0, <2>1, <2>q, <3>2 DEF StatusWrite, At, Holds, OrdersOf, UnderwayTypes
        <5>2. QED
          BY <1>d, <2>1, <5>1 DEF StatusWrite, Unfinished, Under
      <4>2. PICK x \in Requests : Finalising(x, d)
        BY <4>1 DEF LastConclusionIsSeen
      <4>3. x # r
        BY <2>1, <4>2 DEF StatusWrite, At, Finalising
      <4>4. req'[x] = req[x]
        BY <1>0, <2>1, <4>3, OthersWait DEF StatusWrite, Continues
      <4>5. QED
        BY <4>2, <4>4 DEF Finalising
    <3>3. QED
      BY <3>1, <3>2
  <2>2. CASE StatusCount(r)
    <3>1. PICK x \in Requests : Finalising(x, d)
      BY <2>2, <1>b DEF StatusCount, Under, routeVars
    <3>2. CASE x # r
      <4>1. req'[x] = req[x]
        BY <1>0, <2>2, <3>2, OthersWait DEF StatusCount, Continues, Ends
      <4>2. QED
        BY <3>1, <4>1 DEF Finalising
    <3>3. CASE x = r
      <4>1. Unfinished(req[r].d) = {}
        BY <1>d, <2>2, <3>1, <3>3 DEF StatusCount, Finalising, Unfinished, routeVars
      <4>2. req' = [req EXCEPT ![r] = [Idle EXCEPT !.pc = "statusFinalize", !.d = d]]
        BY <2>2, <3>1, <3>3, <4>1 DEF StatusCount, Finalising, Continues
      <4>3. QED
        BY <1>0, <4>2, GoesOnWith DEF Finalising
    <3>4. QED
      BY <3>2, <3>3
  <2>3. CASE StatusFinalize(r)
    <3>1. req[r].d # d
      BY <1>0, <2>3 DEF StatusFinalize, UnderwayTypes, Under
    <3>2. deliveryStatus[d] = "INICIADO"
      BY <1>0, <2>3, <3>1 DEF StatusFinalize, UnderwayTypes, Under
    <3>3. PICK x \in Requests : Finalising(x, d)
      BY <2>3, <3>2, <1>b DEF StatusFinalize
    <3>4. x # r
      BY <3>1, <3>3 DEF Finalising
    <3>5. req'[x] = req[x]
      BY <1>0, <2>3, <3>4, OthersWait DEF StatusFinalize, Continues
    <3>6. QED
      BY <3>3, <3>5 DEF Finalising
  <2>4. CASE PayRead(r) \/ PayCheck(r) \/ \E p \in Payments : PayCommit(r, p)
    <3>1. PICK x \in Requests : Finalising(x, d)
      BY <2>4, <1>b DEF PayRead, PayCheck, PayCommit, Under, routeVars
    <3>2. x # r
      BY <2>4, <3>1 DEF PayRead, PayCheck, PayCommit, At, Finalising
    <3>3. req'[x] = req[x]
      BY <1>0, <2>4, <3>2, OthersWait DEF PayRead, PayCheck, PayCommit, Continues, Ends
    <3>4. QED
      BY <3>1, <3>3 DEF Finalising
  <2>5. QED
    BY <1>3, <2>1, <2>2, <2>3, <2>4 DEF Proceed
<1>4. QED
  BY <1>1, <1>2, <1>3 DEF NextUnderway, DriverCall

\* Finalising turns into paying, and paying ends with a link in place, found
\* or made.
LEMMA PaidOrPayingStep ==
    ASSUME UnderwayInv, FinalisedIsPaidOrPaying, [NextUnderway]_vars
    PROVE  FinalisedIsPaidOrPaying'
<1> SUFFICES ASSUME NEW d \in Deliveries, (deliveryStatus[d] = "FINALIZADO")'
             PROVE  (LinksOf(d) # {} \/ \E r \in Requests : Paying(r, d))'
  BY DEF FinalisedIsPaidOrPaying
<1>0. UnderwayTypes /\ UnmadeHaveNoLink
  BY DEF UnderwayInv
\* Links are never cut here.
<1>l. LinksOf(d) # {} => (LinksOf(d) # {})'
  <2>1. CASE UNCHANGED payFor
    BY <2>1 DEF LinksOf
  <2>2. ASSUME NEW r \in Requests, NEW new \in Payments, PayCommit(r, new)
        PROVE  LinksOf(d) # {} => (LinksOf(d) # {})'
    <3>1. \A p \in LinksOf(d) : p # new
      BY <1>0, <2>2, NoneIsNoId DEF PayCommit, UnmadeHaveNoLink, LinksOf
    <3>2. \A p \in LinksOf(d) : payFor'[p] = payFor[p]
      BY <1>0, <2>2, <3>1 DEF PayCommit, UnderwayTypes, LinksOf
    <3>3. QED
      BY <3>2 DEF LinksOf
  <2>3. QED
    BY <2>1, <2>2 DEF NextUnderway, DriverCall, Proceed, StatusRead, StatusWrite,
         StatusCount, StatusFinalize, PayRead, PayCheck, payVars, vars
<1>1. CASE UNCHANGED vars
  BY <1>1, <1>l DEF FinalisedIsPaidOrPaying, Paying, vars, routeVars
<1>2. ASSUME NEW r \in Requests, NEW f, req' = [req EXCEPT ![r] = f],
             deliveryStatus[d] = "FINALIZADO",
             Paying(r, d) => LinksOf(d) # {} \/ (LinksOf(d) # {})' \/ Paying(r, d)'
      PROVE  (LinksOf(d) # {} \/ \E x \in Requests : Paying(x, d))'
  <2>1. \A x \in Requests \ {r} : Paying(x, d)' <=> Paying(x, d)
    BY <1>0, <1>2, OthersWait DEF Paying
  <2>2. QED
    BY <1>l, <1>2, <2>1 DEF FinalisedIsPaidOrPaying
<1>3. ASSUME NEW r \in Requests, NEW driver \in Drivers, NEW o \in Orders,
             NEW to \in OrderStatus, StatusRead(r, driver, o, to)
      PROVE  (LinksOf(d) # {} \/ \E x \in Requests : Paying(x, d))'
  <2>1. deliveryStatus[d] = "FINALIZADO" /\ ~Paying(r, d)
    BY <1>3 DEF StatusRead, Starts, At, Paying, routeVars
  <2>2. QED
    BY <1>2, <1>3, <2>1 DEF StatusRead, Starts
<1>4. ASSUME NEW r \in Requests, Proceed(r)
      PROVE  (LinksOf(d) # {} \/ \E x \in Requests : Paying(x, d))'
  <2>q. Holds(req[r])
    BY DEF UnderwayInv, HandlersHold
  <2>1. CASE StatusWrite(r) \/ StatusCount(r)
    <3>1. deliveryStatus[d] = "FINALIZADO" /\ ~Paying(r, d)
      BY <2>1 DEF StatusWrite, StatusCount, At, Paying, routeVars
    <3>2. \E f : req' = [req EXCEPT ![r] = f]
      BY <2>1 DEF StatusWrite, StatusCount, Continues, Ends
    <3>3. QED
      BY <1>2, <3>1, <3>2
  <2>2. CASE StatusFinalize(r)
    <3>1. req' = [req EXCEPT ![r] = [Idle EXCEPT !.pc = "payRead", !.d = req[r].d]]
      BY <2>2 DEF StatusFinalize, Continues
    <3>2. CASE req[r].d = d
      <4>1. req'[r].pc = "payRead" /\ req'[r].d = d
        BY <1>0, <3>1, <3>2, GoesOnWith
      <4>2. Paying(r, d)'
        BY <4>1 DEF Paying
      <4>3. QED
        BY <4>2
    <3>3. CASE req[r].d # d
      <4>1. deliveryStatus[d] = "FINALIZADO" /\ ~Paying(r, d)
        BY <1>0, <2>2, <3>3 DEF StatusFinalize, UnderwayTypes, Paying
      <4>2. QED
        BY <1>2, <3>1, <4>1
    <3>4. QED
      BY <3>2, <3>3
  <2>3. CASE PayRead(r)
    <3> DEFINE f == [req[r] EXCEPT !.pc = "payCheck", !.driver = deliveryDriver[req[r].d],
                                   !.seen = charged[req[r].d]]
    <3>1. req' = [req EXCEPT ![r] = f] /\ deliveryStatus' = deliveryStatus
      BY <2>3 DEF PayRead, Continues, routeVars
    <3>2. Paying(r, d) => Paying(r, d)'
      <4>1. f.pc = "payCheck" /\ f.d = req[r].d
        BY <2>q, FieldsKept DEF Holds
      <4>2. QED
        BY <1>0, <3>1, <4>1, OthersWait DEF Paying
    <3>3. QED
      BY <1>2, <3>1, <3>2
  <2>4. CASE PayCheck(r)
    <3>1. deliveryStatus[d] = "FINALIZADO"
      BY <2>4 DEF PayCheck, routeVars
    <3>2. CASE LinksOf(req[r].d) = {}
      <4> DEFINE f == [req[r] EXCEPT !.pc = "payCommit"]
      <4>1. req' = [req EXCEPT ![r] = f]
        BY <2>4, <3>2 DEF PayCheck, Continues
      <4>2. f.pc = "payCommit" /\ f.d = req[r].d
        BY <2>q, FieldsKept DEF Holds
      <4>3. Paying(r, d) => Paying(r, d)'
        BY <1>0, <4>1, <4>2, OthersWait DEF Paying
      <4>4. QED
        BY <1>2, <3>1, <4>1, <4>3
    <3>3. CASE LinksOf(req[r].d) # {}
      <4>1. req' = [req EXCEPT ![r] = Idle]
        BY <2>4, <3>3 DEF PayCheck, Ends
      <4>2. QED
        BY <1>2, <3>1, <3>3, <4>1 DEF Paying
    <3>4. QED
      BY <3>2, <3>3
  <2>5. ASSUME NEW new \in Payments, PayCommit(r, new)
        PROVE  (LinksOf(d) # {} \/ \E x \in Requests : Paying(x, d))'
    <3>1. deliveryStatus[d] = "FINALIZADO" /\ req' = [req EXCEPT ![r] = Idle]
      BY <2>5 DEF PayCommit, Ends, routeVars
    <3>2. Paying(r, d) => (LinksOf(d) # {})'
      BY <1>0, <2>5 DEF PayCommit, UnderwayTypes, Paying, LinksOf
    <3>3. QED
      BY <1>2, <3>1, <3>2
  <2>6. QED
    BY <1>4, <2>1, <2>2, <2>3, <2>4, <2>5 DEF Proceed
<1>5. QED
  BY <1>1, <1>3, <1>4 DEF NextUnderway, DriverCall

\* However many drivers' updates overlap, the one that concludes a delivery is
\* followed by its finalisation.
THEOREM LastConclusionIsAlwaysSeen == SpecUnderway => []LastConclusionIsSeen
<1>1. InitUnderway => LastConclusionIsSeen
  BY DEF InitUnderway, LastConclusionIsSeen, Under, Unfinished, OrdersOf, Finished
<1>2. QED
  BY <1>1, LastConclusionStep, UnderwayInvariance, PTL DEF SpecUnderway

\* No delivery is finalised and forgotten: its payment exists or a handler is
\* making it.
THEOREM FinalisedIsNeverForgotten == SpecUnderway => []FinalisedIsPaidOrPaying
<1>1. InitUnderway => FinalisedIsPaidOrPaying
  BY DEF InitUnderway, FinalisedIsPaidOrPaying
<1>2. QED
  BY <1>1, PaidOrPayingStep, UnderwayInvariance, PTL DEF SpecUnderway

-----------------------------------------------------------------------------
(* One call at a time: the handlers implement RouteContract.               *)
(*                                                                         *)
(* OneInv says where one handler stands with the delivery it works on: the *)
(* transition it was granted is still one, what it found concluded is, and *)
(* a delivery it is paying for has no payment yet.                         *)

SoFar(q) ==
    /\ q.pc \in {"statusWrite", "statusCount", "statusFinalize"} =>
          deliveryStatus[q.d] = "INICIADO"
    /\ q.pc = "statusWrite" => isValidOrderStatusTransition(orderStatus[q.o], q.to)
    /\ q.pc = "statusFinalize" => Unfinished(q.d) = {}
    /\ q.pc \in {"payRead", "payCheck", "payCommit"} =>
          deliveryStatus[q.d] = "FINALIZADO" /\ LinksOf(q.d) = {}
    /\ q.pc \in {"payCheck", "payCommit"} => q.driver = deliveryDriver[q.d]

RowsSoFar ==
    /\ deliveryDriver \in [Deliveries -> Drivers]
    /\ payDriver \in [Payments -> Drivers \cup {None}]
    /\ \A p \in Payments : payFor[p] # None =>
          /\ deliveryStatus[payFor[p]] = "FINALIZADO"
          /\ payDriver[p] = deliveryDriver[payFor[p]]
    /\ \A d \in Deliveries : deliveryStatus[d] = "FINALIZADO" => Unfinished(d) = {}

OneInv ==
    /\ OneAtATime
    /\ UnderwayInv
    /\ RowsSoFar
    /\ \A r \in Requests : SoFar(req[r])

LEMMA OneInit == InitUnderway /\ OneAtATime => OneInv
<1> SUFFICES ASSUME InitUnderway
             PROVE  RowsSoFar /\ \A r \in Requests : SoFar(req[r])
  BY UnderwayInit DEF OneInv
<1>1. RowsSoFar
  BY DEF InitUnderway, RowsSoFar
<1>2. \A r \in Requests : SoFar(req[r])
  BY FieldsOf DEF InitUnderway, SoFar
<1>3. QED
  BY <1>1, <1>2

LEMMA RowsSoFarStep ==
    ASSUME OneInv, [NextUnderway]_vars
    PROVE  RowsSoFar' /\ deliveryDriver' = deliveryDriver
<1>0. UnderwayTypes /\ RowsSoFar /\ orderDelivery' = orderDelivery
  BY UnderwayTablesStep DEF OneInv, UnderwayInv
<1>1. CASE UNCHANGED <<routeVars, payVars>>
  BY <1>0, <1>1 DEF RowsSoFar, Unfinished, OrdersOf, routeVars, payVars
<1>2. ASSUME NEW r \in Requests, Proceed(r)
      PROVE  RowsSoFar' /\ deliveryDriver' = deliveryDriver
  <2>q. Holds(req[r]) /\ SoFar(req[r])
    BY DEF OneInv, UnderwayInv, HandlersHold
  <2>1. CASE StatusWrite(r)
    <3>1. /\ deliveryStatus' = deliveryStatus /\ UNCHANGED payVars
          /\ deliveryDriver' = deliveryDriver
      BY <2>1 DEF StatusWrite
    <3>2. /\ deliveryStatus[orderDelivery[req[r].o]] = "INICIADO"
          /\ orderStatus' = [orderStatus EXCEPT ![req[r].o] = req[r].to]
      BY <2>1, <2>q DEF StatusWrite, At, Holds, SoFar
    <3>3. ASSUME NEW d \in Deliveries, deliveryStatus[d] = "FINALIZADO"
          PROVE  Unfinished(d)' = {}
      <4>1. \A o \in OrdersOf(d) : orderStatus'[o] = orderStatus[o]
        BY <3>2, <3>3 DEF OrdersOf
      <4>2. QED
        BY <1>0, <3>3, <4>1 DEF RowsSoFar, Unfinished, OrdersOf
    <3>4. QED
      BY <1>0, <3>1, <3>3 DEF RowsSoFar, payVars
  <2>2. CASE StatusCount(r) \/ PayRead(r) \/ PayCheck(r)
    BY <1>1, <2>2 DEF StatusCount, PayRead, PayCheck, routeVars
  <2>3. CASE StatusFinalize(r)
    <3>1. \A d : Unfinished(d)' = Unfinished(d)
      BY <1>0, <2>3 DEF StatusFinalize, Unfinished, OrdersOf
    <3>2. Unfinished(req[r].d) = {}
      BY <2>3, <2>q DEF StatusFinalize, At, SoFar
    <3>3. QED
      BY <1>0, <2>3, <3>1, <3>2 DEF StatusFinalize, RowsSoFar, UnderwayTypes, payVars
  <2>4. ASSUME NEW new \in Payments, PayCommit(r, new)
        PROVE  RowsSoFar' /\ deliveryDriver' = deliveryDriver
    <3>1. /\ deliveryStatus[req[r].d] = "FINALIZADO" /\ req[r].d \in Deliveries
          /\ req[r].driver = deliveryDriver[req[r].d]
      BY <2>4, <2>q DEF PayCommit, At, Holds, SoFar
    <3>2. /\ payFor' = [payFor EXCEPT ![new] = req[r].d]
          /\ payDriver' = [payDriver EXCEPT ![new] = req[r].driver]
          /\ UNCHANGED routeVars
      BY <2>4 DEF PayCommit
    <3>3. \A d : Unfinished(d)' = Unfinished(d)
      BY <3>2 DEF Unfinished, OrdersOf, routeVars
    <3>4. QED
      BY <1>0, <3>1, <3>2, <3>3 DEF RowsSoFar, UnderwayTypes, routeVars
  <2>5. QED
    BY <1>2, <2>1, <2>2, <2>3, <2>4 DEF Proceed
<1>3. QED
  BY <1>1, <1>2, <1>0 DEF NextUnderway, DriverCall, StatusRead, routeVars, vars

LEMMA SoFarStep ==
    ASSUME OneInv, NEW r \in Requests, DriverCall(r) \/ Proceed(r)
    PROVE  SoFar(req[r])'
<1>0. UnderwayTypes /\ RowsSoFar /\ orderDelivery' = orderDelivery
  BY UnderwayTablesStep DEF OneInv, UnderwayInv, NextUnderway
<1>q. Holds(req[r]) /\ SoFar(req[r])
  BY DEF OneInv, UnderwayInv, HandlersHold
<1>i. ASSUME Ends(r)
      PROVE  SoFar(req[r])'
  BY <1>0, <1>i, FieldsOf, OthersWait DEF Ends, SoFar
<1>d. PICK d : d = req[r].d
  OBVIOUS
<1>1. ASSUME NEW driver \in Drivers, NEW o \in Orders, NEW to \in OrderStatus,
             StatusRead(r, driver, o, to)
      PROVE  SoFar(req[r])'
  <2> DEFINE f == [Idle EXCEPT !.pc = "statusWrite", !.d = orderDelivery[o],
                               !.o = o, !.to = to]
  <2>1. f.pc = "statusWrite" /\ f.d = orderDelivery[o] /\ f.o = o /\ f.to = to
    BY FieldsOf
  <2>2. req'[r] = f
    BY <1>0, <1>1, OthersWait DEF StatusRead, Starts
  <2> HIDE DEF f
  <2>3. QED
    BY <1>1, <2>1, <2>2 DEF StatusRead, SoFar, routeVars
<1>2. CASE StatusWrite(r)
  <2>1. req'[r].pc = "statusCount" /\ req'[r].d = d
    BY <1>0, <1>d, <1>2, GoesOnWith DEF StatusWrite, Continues
  <2>2. deliveryStatus'[d] = "INICIADO"
    BY <1>d, <1>q, <1>2 DEF StatusWrite, At, SoFar
  <2>3. QED
    BY <2>1, <2>2 DEF SoFar
<1>3. CASE StatusCount(r)
  <2>1. CASE Unfinished(d) = {}
    <3>1. req' = [req EXCEPT ![r] = [Idle EXCEPT !.pc = "statusFinalize", !.d = d]]
      BY <1>d, <1>3, <2>1 DEF StatusCount, Continues
    <3>2. req'[r].pc = "statusFinalize" /\ req'[r].d = d
      BY <1>0, <3>1, GoesOnWith
    <3>3. deliveryStatus'[d] = "INICIADO" /\ Unfinished(d)' = {}
      BY <1>d, <1>q, <1>3, <2>1 DEF StatusCount, At, SoFar, Unfinished, OrdersOf, routeVars
    <3>4. QED
      BY <3>2, <3>3 DEF SoFar
  <2>2. CASE Unfinished(d) # {}
    BY <1>i, <1>d, <1>3, <2>2 DEF StatusCount
  <2>3. QED
    BY <2>1, <2>2
<1>4. CASE StatusFinalize(r)
  <2>1. req'[r].pc = "payRead" /\ req'[r].d = d
    BY <1>0, <1>d, <1>4, GoesOnWith DEF StatusFinalize, Continues
  <2>2. d \in Deliveries /\ deliveryStatus[d] = "INICIADO"
    BY <1>d, <1>q, <1>4 DEF StatusFinalize, At, Holds, SoFar
  <2>3. LinksOf(d)' = {} /\ deliveryStatus'[d] = "FINALIZADO"
    BY <1>0, <1>d, <1>4, <2>2, NoneIsNoId
       DEF StatusFinalize, LinksOf, RowsSoFar, UnderwayTypes, payVars
  <2>4. QED
    BY <2>1, <2>3 DEF SoFar
<1>5. CASE PayRead(r)
  <2> DEFINE f == [req[r] EXCEPT !.pc = "payCheck", !.driver = deliveryDriver[d],
                                 !.seen = charged[d]]
  <2>1. f.pc = "payCheck" /\ f.d = d /\ f.driver = deliveryDriver[d]
    BY <1>d, <1>q, FieldsKept DEF Holds
  <2>2. req'[r] = f
    BY <1>0, <1>d, <1>5, OthersWait DEF PayRead, Continues
  <2> HIDE DEF f
  <2>3. /\ deliveryStatus'[d] = "FINALIZADO" /\ LinksOf(d)' = {}
        /\ deliveryDriver' = deliveryDriver
    BY <1>d, <1>q, <1>5 DEF PayRead, At, SoFar, LinksOf, routeVars, payVars
  <2>4. QED
    BY <2>1, <2>2, <2>3 DEF SoFar
<1>6. CASE PayCheck(r)
  <2>1. /\ deliveryStatus'[d] = "FINALIZADO" /\ LinksOf(d)' = {} /\ LinksOf(d) = {}
        /\ deliveryDriver' = deliveryDriver /\ req[r].driver = deliveryDriver[d]
    BY <1>d, <1>q, <1>6 DEF PayCheck, At, SoFar, LinksOf, routeVars, payVars
  <2> DEFINE f == [req[r] EXCEPT !.pc = "payCommit"]
  <2>2. f.pc = "payCommit" /\ f.d = d /\ f.driver = req[r].driver
    BY <1>d, <1>q, FieldsKept DEF Holds
  <2>3. req'[r] = f
    BY <1>0, <1>d, <1>6, <2>1, OthersWait DEF PayCheck, Continues
  <2> HIDE DEF f
  <2>4. QED
    BY <2>1, <2>2, <2>3 DEF SoFar
<1>7. CASE \E p \in Payments : PayCommit(r, p)
  BY <1>i, <1>7 DEF PayCommit
<1>8. QED
  BY <1>1, <1>2, <1>3, <1>4, <1>5, <1>6, <1>7 DEF DriverCall, Proceed

LEMMA OneStep == OneInv /\ [NextUnderway]_vars => OneInv'
<1> SUFFICES ASSUME OneInv, [NextUnderway]_vars
             PROVE  OneInv'
  OBVIOUS
<1>1. UnderwayInv' /\ RowsSoFar'
  BY UnderwayStep, RowsSoFarStep DEF OneInv
<1>2. \A r \in Requests : SoFar(req[r])'
  <2>1. CASE UNCHANGED vars
    BY <2>1 DEF OneInv, SoFar, Unfinished, OrdersOf, LinksOf, vars, routeVars, payVars
  <2>2. CASE NextUnderway
    BY <2>2, SoFarStep DEF OneInv, OneAtATime, NextUnderway
  <2>3. QED
    BY <2>1, <2>2
<1>3. QED
  BY <1>1, <1>2 DEF OneInv, OneAtATime

LEMMA OneInvariance == OneAtATime /\ SpecUnderway => []OneInv
BY OneInit, OneStep, PTL DEF SpecUnderway

\* One call at a time, the row a driver's update is written to still allows it.
THEOREM OrderStepsStayValid == OneAtATime /\ SpecUnderway => OrderStepsAreValid
<1> DEFINE Valid == \A o \in Orders : orderStatus'[o] # orderStatus[o] =>
                       isValidOrderStatusTransition(orderStatus[o], orderStatus'[o])
<1>1. OneInv /\ [NextUnderway]_vars => Valid
  <2> SUFFICES ASSUME OneInv, NextUnderway, NEW o \in Orders,
                      orderStatus'[o] # orderStatus[o]
               PROVE  isValidOrderStatusTransition(orderStatus[o], orderStatus'[o])
    BY DEF vars, routeVars
  <2>1. PICK r \in Requests : StatusWrite(r)
    BY DEF NextUnderway, DriverCall, Proceed, StatusRead, StatusCount, StatusFinalize,
       PayRead, PayCheck, PayCommit, routeVars
  <2>2. orderStatus' = [orderStatus EXCEPT ![req[r].o] = req[r].to]
    BY <2>1 DEF StatusWrite
  <2>3. isValidOrderStatusTransition(orderStatus[req[r].o], req[r].to)
    BY <2>1 DEF StatusWrite, At, OneInv, SoFar
  <2>4. orderStatus \in [Orders -> OrderStatus]
    BY DEF OneInv, UnderwayInv, UnderwayTypes
  <2>5. o = req[r].o /\ orderStatus'[o] = req[r].to
    BY <2>2, <2>4
  <2>6. QED
    BY <2>3, <2>5
<1>2. QED
  BY <1>1, OneInvariance, PTL DEF SpecUnderway, OrderStepsAreValid

-----------------------------------------------------------------------------
(* The refinement: a route is owed to its driver exactly when it is over,  *)
(* and it is over from the write of its last order on.                     *)

PromisedWhenOver ==
    \A d \in Deliveries : PromisedTo(d) = IF Concluding(d) THEN {deliveryDriver[d]} ELSE {}

LEMMA PromisesFollow == OneInv /\ FinalisedIsPaidOrPaying => PromisedWhenOver
<1> SUFFICES ASSUME OneInv, FinalisedIsPaidOrPaying, NEW d \in Deliveries
             PROVE  PromisedTo(d) = IF Concluding(d) THEN {deliveryDriver[d]} ELSE {}
  BY DEF PromisedWhenOver
<1>1. \A p \in LinksOf(d) : /\ deliveryStatus[d] = "FINALIZADO"
                           /\ payDriver[p] = deliveryDriver[d]
  BY NoneIsNoId DEF OneInv, RowsSoFar, LinksOf
<1>2. \A r \in Requests : Paying(r, d) => deliveryStatus[d] = "FINALIZADO"
  BY DEF OneInv, SoFar, Paying
<1>3. CASE deliveryStatus[d] = "FINALIZADO"
  BY <1>1, <1>3 DEF FinalisedIsPaidOrPaying, PromisedTo, Concluding
<1>4. CASE deliveryStatus[d] # "FINALIZADO"
  <2>1. LinksOf(d) = {} /\ \A r \in Requests : ~Paying(r, d)
    BY <1>1, <1>2, <1>4
  <2>2. QED
    BY <1>4, <2>1 DEF PromisedTo, Concluding
<1>5. QED
  BY <1>3, <1>4

\* With one handler, before and after a step of it.
LEMMA OneConcludes ==
    ASSUME OneAtATime, NEW r \in Requests, NEW d
    PROVE  /\ Concluding(d) <=>
                 \/ deliveryStatus[d] = "FINALIZADO"
                 \/ Unfinished(d) = {} /\ Finalising(r, d)
           /\ Concluding(d)' <=>
                 \/ deliveryStatus'[d] = "FINALIZADO"
                 \/ Unfinished(d)' = {} /\ Finalising(r, d)'
BY DEF OneAtATime, Concluding

\* Only the write of an order's status can end a route.
LEMMA ConcludingStep ==
    ASSUME OneInv, NEW r \in Requests, DriverCall(r) \/ (Proceed(r) /\ ~StatusWrite(r)),
           NEW d \in Deliveries
    PROVE  Concluding(d)' <=> Concluding(d)
<1>0. UnderwayTypes /\ OneAtATime /\ Holds(req[r]) /\ SoFar(req[r])
  BY DEF OneInv, UnderwayInv, HandlersHold
<1>1. UNCHANGED <<orderStatus, orderDelivery, deliveryDriver>>
  BY DEF DriverCall, StatusRead, Proceed, StatusCount, StatusFinalize, PayRead, PayCheck,
     PayCommit, routeVars
<1>2. Unfinished(d)' = Unfinished(d)
  BY <1>1 DEF Unfinished, OrdersOf
<1>3. ASSUME NEW driver \in Drivers, NEW o \in Orders, NEW to \in OrderStatus,
             StatusRead(r, driver, o, to)
      PROVE  Concluding(d)' <=> Concluding(d)
  <2>1. ~Finalising(r, d)
    BY <1>3 DEF StatusRead, Starts, At, Finalising
  <2>2. req'[r] = [Idle EXCEPT !.pc = "statusWrite", !.d = orderDelivery[o],
                               !.o = o, !.to = to]
    BY <1>0, <1>3, OthersWait DEF StatusRead, Starts
  <2>3. req'[r].pc = "statusWrite"
    BY <2>2, FieldsOf
  <2>4. ~Finalising(r, d)'
    BY <2>3 DEF Finalising
  <2>5. QED
    BY <1>0, <1>3, <2>1, <2>4, OneConcludes DEF StatusRead, routeVars
<1>4. CASE StatusCount(r)
  <2>1. deliveryStatus' = deliveryStatus
    BY <1>4 DEF StatusCount, routeVars
  <2>2. CASE req[r].d = d /\ Unfinished(d) = {}
    <3>1. req'[r].pc = "statusFinalize" /\ req'[r].d = d
      BY <1>0, <1>4, <2>2, GoesOnWith DEF StatusCount, Continues
    <3>2. Finalising(r, d) /\ Finalising(r, d)'
      BY <1>4, <2>2, <3>1 DEF StatusCount, At, Finalising
    <3>3. QED
      BY <1>0, <1>2, <2>1, <3>2, OneConcludes
  <2>3. CASE req[r].d = d /\ Unfinished(d) # {}
    BY <1>0, <1>2, <2>1, <2>3, OneConcludes
  <2>4. CASE req[r].d # d
    <3>1. \/ req' = [req EXCEPT ![r] = [Idle EXCEPT !.pc = "statusFinalize",
                                                    !.d = req[r].d]]
          \/ req' = [req EXCEPT ![r] = Idle]
      BY <1>4 DEF StatusCount, Continues, Ends
    <3>2. req'[r].d = req[r].d \/ req'[r].pc = "idle"
      <4>1. CASE req' = [req EXCEPT ![r] = [Idle EXCEPT !.pc = "statusFinalize",
                                                        !.d = req[r].d]]
        BY <1>0, <4>1, GoesOnWith
      <4>2. CASE req' = [req EXCEPT ![r] = Idle]
        BY <1>0, <4>2, OthersWait, FieldsOf
      <4>3. QED
        BY <3>1, <4>1, <4>2
    <3>3. ~Finalising(r, d) /\ ~Finalising(r, d)'
      BY <2>4, <3>2 DEF Finalising
    <3>4. QED
      BY <1>0, <2>1, <3>3, OneConcludes
  <2>5. QED
    BY <2>2, <2>3, <2>4
<1>5. CASE StatusFinalize(r)
  <2>1. Unfinished(req[r].d) = {} /\ At(r, "statusFinalize")
    BY <1>0, <1>5 DEF StatusFinalize, At, SoFar
  <2>2. deliveryStatus' = [deliveryStatus EXCEPT ![req[r].d] = "FINALIZADO"]
    BY <1>5 DEF StatusFinalize
  <2>3. CASE req[r].d = d
    BY <1>0, <2>1, <2>2, <2>3, OneConcludes DEF Finalising, At, UnderwayTypes
  <2>4. CASE req[r].d # d
    <3>1. req'[r].d = req[r].d
      BY <1>0, <1>5, GoesOnWith DEF StatusFinalize, Continues
    <3>2. ~Finalising(r, d) /\ ~Finalising(r, d)'
      BY <2>4, <3>1 DEF Finalising
    <3>3. QED
      BY <1>0, <2>2, <2>4, <3>2, OneConcludes DEF UnderwayTypes
  <2>5. QED
    BY <2>3, <2>4
<1>6. CASE PayRead(r) \/ PayCheck(r) \/ \E p \in Payments : PayCommit(r, p)
  <2>1. deliveryStatus' = deliveryStatus /\ ~Finalising(r, d)
    BY <1>6 DEF PayRead, PayCheck, PayCommit, At, Finalising, routeVars
  <2>2. deliveryStatus[req[r].d] = "FINALIZADO"
    BY <1>0, <1>6 DEF PayRead, PayCheck, PayCommit, At, SoFar
  <2>3. req'[r].d = req[r].d \/ req'[r].pc = "idle"
    <3>1. CASE PayRead(r)
      BY <1>0, <3>1, FieldsKept, OthersWait DEF PayRead, Continues, Holds
    <3>2. CASE PayCheck(r)
      <4>1. CASE Continues(r, [req[r] EXCEPT !.pc = "payCommit"])
        BY <1>0, <4>1, FieldsKept, OthersWait DEF Continues, Holds
      <4>2. CASE Ends(r)
        BY <1>0, <4>2, FieldsOf, OthersWait DEF Ends
      <4>3. QED
        BY <3>2, <4>1, <4>2 DEF PayCheck
    <3>3. CASE \E p \in Payments : PayCommit(r, p)
      BY <1>0, <3>3, FieldsOf, OthersWait DEF PayCommit, Ends
    <3>4. QED
      BY <1>6, <3>1, <3>2, <3>3
  <2>4. deliveryStatus[d] = "FINALIZADO" \/ ~Finalising(r, d)'
    BY <2>2, <2>3 DEF Finalising
  <2>5. QED
    BY <1>0, <2>1, <2>4, OneConcludes
<1>7. QED
  BY <1>3, <1>4, <1>5, <1>6 DEF DriverCall, Proceed

\* The write of an order's status ends its route when no other order of it is
\* unfinished, and touches no other route.
LEMMA WriteConcludes ==
    ASSUME OneInv, NEW r \in Requests, StatusWrite(r),
           NEW o, o = req[r].o, NEW d, d = orderDelivery[o]
    PROVE  /\ o \in Orders /\ d \in Deliveries /\ ~Concluding(d)
           /\ Concluding(d)' <=> Unfinished(d)' = {}
           /\ \A x \in Deliveries \ {d} : Concluding(x)' <=> Concluding(x)
           /\ UNCHANGED <<orderDelivery, deliveryDriver>>
<1>0. UnderwayTypes /\ OneAtATime /\ Holds(req[r]) /\ SoFar(req[r])
  BY DEF OneInv, UnderwayInv, HandlersHold
<1>1. At(r, "statusWrite") /\ o \in Orders /\ d = req[r].d /\ d \in Deliveries
  BY <1>0 DEF StatusWrite, At, Holds
<1>2. deliveryStatus[d] = "INICIADO"
  BY <1>0, <1>1 DEF At, SoFar
<1>3. UNCHANGED <<orderDelivery, deliveryDriver, deliveryStatus>>
  BY DEF StatusWrite
<1>4. req' = [req EXCEPT ![r] = [Idle EXCEPT !.pc = "statusCount", !.d = req[r].d]]
  BY DEF StatusWrite, Continues
<1>5. req'[r].pc = "statusCount" /\ req'[r].d = d
  BY <1>0, <1>1, <1>4, GoesOnWith
<1>6. \A x : ~Finalising(r, x)
  BY <1>1 DEF At, Finalising
<1>7. \A x \in Deliveries : Finalising(r, x)' <=> x = d
  BY <1>5 DEF Finalising
<1>8. ~Concluding(d)
  BY <1>0, <1>2, <1>6, OneConcludes
<1>9. Concluding(d)' <=> Unfinished(d)' = {}
  BY <1>0, <1>1, <1>2, <1>3, <1>7, OneConcludes
<1>10. ASSUME NEW x \in Deliveries \ {d}
       PROVE  Concluding(x)' <=> Concluding(x)
  BY <1>0, <1>3, <1>6, <1>7, <1>10, OneConcludes
<1>11. QED
  BY <1>1, <1>3, <1>8, <1>9, <1>10

\* Every step of one handler is a step of the contract or invisible in it.
LEMMA ContractStep ==
    ASSUME OneInv, PromisedWhenOver, PromisedWhenOver', [NextUnderway]_vars
    PROVE  [Contract!Next]_(Contract!contractVars)
<1> DEFINE over == {d \in Deliveries : Concluding(d)}
           owed == [d \in Deliveries |-> PromisedTo(d)]
<1>0. UnderwayTypes
  BY DEF OneInv, UnderwayInv
<1>1. owed = [d \in Deliveries |-> IF d \in over THEN {deliveryDriver[d]} ELSE {}]
  BY DEF PromisedWhenOver
<1>2. owed' = [d \in Deliveries |-> IF d \in over' THEN {deliveryDriver'[d]} ELSE {}]
  BY DEF PromisedWhenOver
<1>3. ASSUME UNCHANGED <<orderStatus, orderDelivery, deliveryDriver>>,
             \A d \in Deliveries : Concluding(d)' <=> Concluding(d)
      PROVE  UNCHANGED Contract!contractVars
  <2>1. over' = over
    BY <1>3
  <2>2. owed' = owed
    BY <1>1, <1>2, <1>3, <2>1
  <2>3. QED
    BY <1>3, <2>1, <2>2 DEF Contract!contractVars
<1>4. CASE UNCHANGED vars
  BY <1>3, <1>4 DEF vars, routeVars, payVars, Concluding, Finalising, Unfinished, OrdersOf
<1>5. ASSUME NEW r \in Requests, StatusWrite(r)
      PROVE  Contract!Next
  <2>1. PICK o : o = req[r].o
    OBVIOUS
  <2>2. PICK d : d = orderDelivery[o]
    OBVIOUS
  <2>3. PICK to : to = req[r].to
    OBVIOUS
  <2>4. /\ o \in Orders /\ d \in Deliveries /\ ~Concluding(d)
        /\ Concluding(d)' <=> Unfinished(d)' = {}
        /\ \A x \in Deliveries \ {d} : Concluding(x)' <=> Concluding(x)
        /\ UNCHANGED <<orderDelivery, deliveryDriver>>
    BY <1>5, <2>1, <2>2, WriteConcludes
  <2>5. orderStatus' = [orderStatus EXCEPT ![o] = to]
    BY <1>5, <2>1, <2>3 DEF StatusWrite
  <2>6. /\ isValidOrderStatusTransition(orderStatus[o], to)
        /\ to \in {"EM_ENTREGA"} \cup Finished
    BY <1>5, <2>1, <2>3 DEF StatusWrite, At, OneInv, UnderwayInv, HandlersHold, Holds, SoFar
  <2>7. Unfinished(d)'
          = {x \in Orders : orderDelivery[x] = d /\ orderStatus'[x] \notin Finished}
    BY <2>4 DEF Unfinished, OrdersOf
  <2>8. CASE to = "EM_ENTREGA"
    <3>1. orderStatus[o] = "EM_ROTA"
      BY <2>6, <2>8 DEF isValidOrderStatusTransition, Finished
    <3>2. orderStatus'[o] \notin Finished
      BY <1>0, <2>4, <2>5, <2>8 DEF UnderwayTypes, Finished
    <3>3. ~Concluding(d)'
      BY <2>2, <2>4, <2>7, <3>2
    <3>4. over' = over
      BY <2>4, <3>3
    <3>5. owed' = owed
      BY <1>1, <1>2, <2>4, <3>4
    <3>6. Contract!Depart(o)
      BY <2>4, <2>5, <2>8, <3>1, <3>4, <3>5 DEF Contract!Depart
    <3>7. QED
      BY <2>4, <3>6 DEF Contract!Next
  <2>9. CASE to \in Finished
    <3> DEFINE last == \A x \in Orders \ {o} :
                          orderDelivery[x] = d => orderStatus[x] \in Contract!Outcome
    <3>1. Contract!Outcome = Finished
      BY DEF Contract!Outcome, Finished
    <3>2. orderStatus[o] = "EM_ENTREGA"
      BY <2>6, <2>9 DEF isValidOrderStatusTransition, Finished
    <3>3. Concluding(d)' <=> last
      <4>1. /\ orderStatus'[o] \in Finished
            /\ \A x \in Orders \ {o} : orderStatus'[x] = orderStatus[x]
        BY <1>0, <2>4, <2>5, <2>9 DEF UnderwayTypes
      <4>2. Unfinished(d)' = {} <=> last
        BY <2>7, <3>1, <4>1
      <4>3. QED
        BY <2>4, <4>2
    <3>4. over' = IF last THEN over \cup {d} ELSE over
      BY <2>4, <3>3
    <3>5. owed' = IF last THEN [owed EXCEPT ![d] = {deliveryDriver[d]}] ELSE owed
      BY <1>1, <1>2, <2>4, <3>4
    <3>6. Contract!Conclude(o, to)
      BY <2>2, <2>4, <2>5, <3>2, <3>4, <3>5 DEF Contract!Conclude
    <3>7. QED
      BY <2>4, <2>9, <3>1, <3>6 DEF Contract!Next
  <2>10. QED
    BY <2>6, <2>8, <2>9
<1>6. QED
  <2>1. CASE NextUnderway
    <3>1. PICK r \in Requests : DriverCall(r) \/ Proceed(r)
      BY <2>1 DEF NextUnderway
    <3>2. CASE StatusWrite(r)
      BY <1>5, <3>2
    <3>3. CASE ~StatusWrite(r)
      <4>1. UNCHANGED <<orderStatus, orderDelivery, deliveryDriver>>
        BY <3>1, <3>3 DEF DriverCall, StatusRead, Proceed, StatusCount, StatusFinalize,
           PayRead, PayCheck, PayCommit, routeVars
      <4>2. \A d \in Deliveries : Concluding(d)' <=> Concluding(d)
        BY <3>1, <3>3, ConcludingStep
      <4>3. QED
        BY <1>3, <4>1, <4>2
    <3>4. QED
      BY <3>2, <3>3
  <2>2. QED
    BY <1>3, <1>4, <2>1

LEMMA ContractInit == InitUnderway /\ OneAtATime => Contract!Init
<1> SUFFICES ASSUME InitUnderway
             PROVE  Contract!Init
  OBVIOUS
<1>1. \A r \in Requests, d \in Deliveries : ~Finalising(r, d) /\ ~Paying(r, d)
  BY FieldsOf DEF InitUnderway, Finalising, Paying
<1>2. \A d \in Deliveries : ~Concluding(d) /\ LinksOf(d) = {}
  BY <1>1, NoneIsNoId DEF InitUnderway, Concluding, LinksOf
<1>3. \A d \in Deliveries : PromisedTo(d) = {}
  BY <1>1, <1>2 DEF PromisedTo
<1>4. QED
  BY <1>2, <1>3 DEF InitUnderway, Contract!Init

\* One call at a time, the handlers keep the contract: seen from outside, the
\* outcome of the last order closes the route and promises its driver one
\* payment in one instant, although five more database calls follow it.
THEOREM HandlersKeepContract == OneAtATime /\ SpecUnderway => KeepsContract
<1>1. InitUnderway /\ OneAtATime => Contract!Init
  BY ContractInit
<1>2. OneInv /\ FinalisedIsPaidOrPaying => PromisedWhenOver
  BY PromisesFollow
<1>3. OneInv /\ PromisedWhenOver /\ PromisedWhenOver' /\ [NextUnderway]_vars
         => [Contract!Next]_(Contract!contractVars)
  BY ContractStep
<1>4. QED
  BY <1>1, <1>2, <1>3, OneInvariance, FinalisedIsNeverForgotten, PTL
     DEF SpecUnderway, KeepsContract, Contract!Spec
=============================================================================
