------------------------ MODULE DeliverySystemProofs ------------------------
(***************************************************************************)
(* What holds of DeliverySystem for any sets of orders, deliveries,        *)
(* payments, drivers and request slots, any set of endpoints in use, and   *)
(* with or without handlers that die half way.                             *)
(*                                                                         *)
(* TypeOK is not inductive: a handler writes statuses and drivers it has   *)
(* kept in its record.  IInv adds what it is well typed on account of: the *)
(* records name what their next write needs, and the rows they copy from   *)
(* have a driver.  The other invariants are then each preserved by the     *)
(* fourteen steps that write a table.                                      *)
(***************************************************************************)
EXTENDS DeliverySystem, TLAPS

\* A handler's record names the rows it is about to write, a status that is
\* legal there and a driver to be paid.
WellAimed(q) ==
    /\ q.pc \notin {"idle", "markPaidWrite", "payStatusWrite", "payRevertWrite"}
          => q.d \in Deliveries
    /\ q.pc = "statusWrite" => q.o \in Orders /\ q.to \in {"EM_ENTREGA"} \cup Finished
    /\ q.pc = "removeOrderWrite" => q.o \in Orders
    /\ q.pc \in {"createCommit", "payCheck", "payCommit"} => q.driver \in Drivers
    /\ q.pc = "payStatusWrite" => q.to \in PaymentStatus

\* The payments a handler has looked up are in the books.
NamedPaymentsExist == \A r \in Requests : \A p \in req[r].pays : payStatus[p] # "absent"

DeliveriesHaveDrivers ==
    \A d \in Deliveries : Exists(d) => deliveryDriver[d] \in Drivers
PaymentsHaveDrivers ==
    \A p \in Payments : payStatus[p] # "absent" => payDriver[p] \in Drivers
RowsAreWhole == DeliveriesHaveDrivers /\ PaymentsHaveDrivers

\* No order and no payment link names a delivery that is not there.
NothingHangs ==
    /\ \A o \in Orders : orderDelivery[o] # None => Exists(orderDelivery[o])
    /\ \A p \in Payments : payFor[p] # None => Exists(payFor[p])

IInv == /\ TypeOK
        /\ \A r \in Requests : WellAimed(req[r])
        /\ NamedPaymentsExist
        /\ RowsAreWhole

Aimed == {q \in Request : WellAimed(q) /\ \A p \in q.pays : payStatus[p] # "absent"}

Tables ==
    /\ orderStatus \in [Orders -> OrderStatus]
    /\ orderDelivery \in [Orders -> Deliveries \cup {None}]
    /\ deliveryStatus \in [Deliveries -> DeliveryStatus \cup {"absent", "deleted"}]
    /\ deliveryDriver \in [Deliveries -> Drivers \cup {None}]
    /\ charged \in [Deliveries -> SUBSET Orders]
    /\ approvals \in [Deliveries -> SUBSET ApprovalAction]
    /\ payStatus \in [Payments -> PaymentStatus \cup {"absent"}]
    /\ payFor \in [Payments -> Deliveries \cup {None}]
    /\ payDriver \in [Payments -> Drivers \cup {None}]
    /\ payBasis \in [Payments -> SUBSET Orders]

Records == req \in [Requests -> Aimed]

\* After a step: the records are aimed at rows that were there before it.
RecordsFollow == req' \in [Requests -> Aimed]

\* IInv, with the tables and the handlers' records told apart.
LEMMA IInvParts ==
    IInv <=> Tables /\ Records /\ RowsAreWhole
BY DEF IInv, TypeOK, NamedPaymentsExist, Tables, Records, Aimed

LEMMA IInvPartsNext ==
    IInv' <=> Tables' /\ Records' /\ RowsAreWhole'
BY DEF IInv, TypeOK, NamedPaymentsExist, Tables, Records, Aimed

LEMMA IdleIsAimed == Idle \in Aimed
BY DEF Idle, Request, Step, Aimed, WellAimed

LEMMA RecordOf ==
    ASSUME Records, NEW r \in Requests
    PROVE  /\ req[r] \in Request /\ WellAimed(req[r])
           /\ \A p \in req[r].pays : payStatus[p] # "absent"
BY DEF Records, Aimed

-----------------------------------------------------------------------------
(* The steps that write a table, and the others.                           *)

Writes(r) ==
    \/ CreateCommit(r)
    \/ LiberarCommit(r)
    \/ RejeitarCommit(r)
    \/ StatusWrite(r)
    \/ StatusFinalize(r)
    \/ UpdateOrders(r)
    \/ FreesItsOrder(r)
    \/ RecalcHold(r)
    \/ RecalcWrite(r)
    \/ RemoveCommit(r)
    \/ \E p \in Payments : PayCommit(r, p)
    \/ MarkPaidWrite(r)
    \/ PayStatusWrite(r)
    \/ PayRevertWrite(r)

\* What a step does is what one handler does.
LEMMA NextIsOfOneHandler ==
    ASSUME [Next]_systemVars
    PROVE  \/ UNCHANGED systemVars
           \/ \E r \in Requests : Works(r) \/ RemoveOrderUnfinished(r) \/ Stops(r)
BY DEF Next, Handles

\* Every other step leaves both services' tables alone.
LEMMA OnlyWritesWrite ==
    ASSUME [Next]_systemVars
    PROVE  UNCHANGED <<routeVars, payVars>> \/ \E r \in Requests : Writes(r)
<1>1. CASE UNCHANGED systemVars
  BY <1>1 DEF systemVars, vars
<1>2. ASSUME NEW r \in Requests, DeliveryCall(r)
      PROVE  UNCHANGED <<routeVars, payVars>>
  BY <1>2 DEF DeliveryCall, CreateRead, LiberarRead, RejeitarRead, RemoveRead,
       StatusRead, UpdateRead, UpdateReadNoOrders, RemoveOrderRead
<1>3. ASSUME NEW r \in Requests, DeliveryStep(r)
      PROVE  UNCHANGED <<routeVars, payVars>> \/ Writes(r)
  BY <1>3 DEF DeliveryStep, Writes, StatusCount, UpdateReread, RemoveOrderWrite
<1>4. ASSUME NEW r \in Requests, PaymentCall(r)
      PROVE  UNCHANGED <<routeVars, payVars>>
  BY <1>4 DEF PaymentCall, PayCall, MarkPaidRead, PayStatusRead, PayRevertRead
<1>5. ASSUME NEW r \in Requests, PaymentStep(r)
      PROVE  UNCHANGED <<routeVars, payVars>> \/ Writes(r)
  BY <1>5 DEF PaymentStep, Writes, PayRead, PayCheck
<1>6. ASSUME NEW r \in Requests, RemoveOrderUnfinished(r)
      PROVE  Writes(r)
  BY <1>6 DEF RemoveOrderUnfinished, Writes
<1>7. ASSUME NEW r \in Requests, Stops(r)
      PROVE  UNCHANGED <<routeVars, payVars>>
  BY <1>7 DEF Stops, DeliveryRefused, DeliveryGone, DriverUnknown, FreightRefused, PayGone,
       Die, Fails
<1>8. QED
  BY <1>1, <1>2, <1>3, <1>4, <1>5, <1>6, <1>7, NextIsOfOneHandler DEF Works

-----------------------------------------------------------------------------
(* The tables stay well typed. *)

LEMMA TablesStep ==
    ASSUME Tables, Records, [Next]_systemVars
    PROVE  Tables'
<1>1. CASE UNCHANGED <<routeVars, payVars>>
  BY <1>1 DEF Tables, routeVars, payVars
<1>2. ASSUME NEW r \in Requests, Writes(r)
      PROVE  Tables'
  <2>q. /\ req[r] \in Request /\ WellAimed(req[r])
        /\ \A p \in req[r].pays : payStatus[p] # "absent"
    BY RecordOf
  <2>1. CASE CreateCommit(r)
    BY <2>q, <2>1 DEF CreateCommit, Tables, WellAimed, OrderStatus, DeliveryStatus,
         Request, At, payVars
  <2>2. CASE LiberarCommit(r)
    BY <2>q, <2>2 DEF LiberarCommit, Tables, OrderStatus, DeliveryStatus,
         ApprovalAction, payVars
  <2>3. CASE RejeitarCommit(r)
    BY <2>q, <2>3 DEF RejeitarCommit, Tables, DeliveryStatus, ApprovalAction, payVars
  <2>4. CASE StatusWrite(r)
    BY <2>q, <2>4 DEF StatusWrite, Tables, WellAimed, OrderStatus, Finished, At, payVars
  <2>5. CASE StatusFinalize(r)
    BY <2>q, <2>5 DEF StatusFinalize, Tables, DeliveryStatus, payVars
  <2>6. CASE UpdateOrders(r)
    BY <2>q, <2>6 DEF UpdateOrders, Tables, WellAimed, OrderStatus, Request, At, payVars
  <2>7. CASE FreesItsOrder(r)
    BY <2>q, <2>7 DEF FreesItsOrder, Tables, OrderStatus, payVars
  <2>8. CASE RecalcHold(r)
    BY <2>q, <2>8 DEF RecalcHold, Tables, OrderStatus, payVars
  <2>9. CASE RecalcWrite(r)
    BY <2>q, <2>9 DEF RecalcWrite, Tables, DeliveryStatus, Request, payVars
  <2>10. CASE RemoveCommit(r)
    BY <2>q, <2>10 DEF RemoveCommit, Tables, OrderStatus
  <2>11. ASSUME NEW p \in Payments, PayCommit(r, p)
         PROVE  Tables'
    BY <2>q, <2>11 DEF PayCommit, Tables, PaymentStatus, Request, At, WellAimed, routeVars
  <2>12. CASE MarkPaidWrite(r)
    BY <2>q, <2>12 DEF MarkPaidWrite, Tables, PaymentStatus, routeVars
  <2>13. CASE PayStatusWrite(r)
    BY <2>q, <2>13 DEF PayStatusWrite, Tables, PaymentStatus, WellAimed, At, routeVars
  <2>14. CASE PayRevertWrite(r)
    BY <2>q, <2>14 DEF PayRevertWrite, Tables, PaymentStatus, routeVars
  <2>15. QED
    BY <1>2, <2>1, <2>2, <2>3, <2>4, <2>5, <2>6, <2>7, <2>8, <2>9, <2>10,
       <2>11, <2>12, <2>13, <2>14 DEF Writes
<1>3. QED
  BY <1>1, <1>2, OnlyWritesWrite

-----------------------------------------------------------------------------
(* Handlers stay well aimed. *)

\* A handler that goes on with a well-aimed record, or ends.
LEMMA RecordFollows ==
    ASSUME Records, NEW r \in Requests, NEW f \in Aimed, req' = [req EXCEPT ![r] = f]
    PROVE  RecordsFollow
BY DEF Records, RecordsFollow

LEMMA EndsKeepsRecords ==
    ASSUME Records, NEW r \in Requests, Ends(r)
    PROVE  RecordsFollow
BY IdleIsAimed, RecordFollows DEF Ends

\* What the edition handlers keep for their last two writes.
LEMMA RecalculatesKeepsRecords ==
    ASSUME Records, NEW r \in Requests, NEW q \in Request, q.d \in Deliveries,
           NEW orders \in SUBSET Orders, NEW needsApproval \in BOOLEAN,
           Recalculates(r, q, orders, needsApproval)
    PROVE  RecordsFollow
<1> DEFINE hold == q.was = "INICIADO" /\ needsApproval
           next(pc, h) == [Idle EXCEPT !.pc = pc, !.d = q.d, !.driver = q.driver,
                                       !.seen = orders, !.hold = h]
<1>1. \A pc \in {"recalcHold", "recalcWrite"}, h \in BOOLEAN : next(pc, h) \in Aimed
  <2> SUFFICES ASSUME NEW pc \in {"recalcHold", "recalcWrite"}, NEW h \in BOOLEAN
               PROVE  next(pc, h) \in Aimed
    OBVIOUS
  <2>1. q.driver \in Drivers \cup {Stranger, None}
    BY DEF Request
  <2>2. next(pc, h) \in Request
    BY <2>1 DEF Request, Step, Idle
  <2>3. /\ next(pc, h).pc \in {"recalcHold", "recalcWrite"}
        /\ next(pc, h).d \in Deliveries
        /\ next(pc, h).pays = {}
    BY DEF Idle
  <2> HIDE DEF next
  <2>4. QED
    BY <2>2, <2>3 DEF Aimed, WellAimed
<1>2. \E pc \in {"recalcHold", "recalcWrite"}, h \in BOOLEAN :
         req' = [req EXCEPT ![r] = next(pc, h)]
  <2>1. req' = [req EXCEPT ![r] =
                  next(IF hold THEN "recalcHold" ELSE "recalcWrite", hold)]
    BY DEF Recalculates, Continues
  <2>2. hold \in BOOLEAN
    OBVIOUS
  <2>3. QED
    BY <2>1, <2>2
<1>3. QED
  BY <1>1, <1>2, RecordFollows

LEMMA RecordsCall ==
    ASSUME Tables, Records, NEW r \in Requests, DeliveryCall(r) \/ PaymentCall(r)
    PROVE  RecordsFollow
<1>1. ASSUME NEW d \in Deliveries, NEW refs \in SUBSET Orders, NEW driver \in Drivers,
             NEW hold \in BOOLEAN, CreateRead(r, d, refs, driver, hold)
      PROVE  RecordsFollow
  <2>1. [Idle EXCEPT !.pc = "createCommit", !.d = d, !.refs = refs,
                     !.driver = driver, !.hold = hold] \in Aimed
    BY DEF Aimed, Request, WellAimed, Step, Idle
  <2>2. QED
    BY <1>1, <2>1, RecordFollows DEF CreateRead, Starts
<1>2. ASSUME NEW d \in Deliveries, LiberarRead(r, d)
      PROVE  RecordsFollow
  <2>1. [Idle EXCEPT !.pc = "liberarCommit", !.d = d] \in Aimed
    BY DEF Aimed, Request, WellAimed, Step, Idle
  <2>2. QED
    BY <1>2, <2>1, RecordFollows DEF LiberarRead, Starts
<1>3. ASSUME NEW d \in Deliveries, RejeitarRead(r, d)
      PROVE  RecordsFollow
  <2>1. [Idle EXCEPT !.pc = "rejeitarCommit", !.d = d] \in Aimed
    BY DEF Aimed, Request, WellAimed, Step, Idle
  <2>2. QED
    BY <1>3, <2>1, RecordFollows DEF RejeitarRead, Starts
<1>4. ASSUME NEW d \in Deliveries, RemoveRead(r, d)
      PROVE  RecordsFollow
  <2>1. [Idle EXCEPT !.pc = "removeCommit", !.d = d] \in Aimed
    BY DEF Aimed, Request, WellAimed, Step, Idle
  <2>2. QED
    BY <1>4, <2>1, RecordFollows DEF RemoveRead, Starts
<1>5. ASSUME NEW driver \in Drivers, NEW o \in Orders, NEW to \in OrderStatus,
             StatusRead(r, driver, o, to)
      PROVE  RecordsFollow
  <2>1. orderDelivery[o] \in Deliveries
    BY <1>5 DEF StatusRead, Tables
  <2>2. to \in {"EM_ENTREGA"} \cup Finished
    BY <1>5 DEF StatusRead, isValidOrderStatusTransition
  <2>3. [Idle EXCEPT !.pc = "statusWrite", !.d = orderDelivery[o], !.o = o, !.to = to]
            \in Aimed
    BY <2>1, <2>2 DEF Aimed, Request, WellAimed, Step, Idle
  <2>4. QED
    BY <1>5, <2>3, RecordFollows DEF StatusRead, Starts
<1>6. ASSUME NEW d \in Deliveries, NEW refs \in SUBSET Orders,
             NEW driver \in Drivers \cup {Stranger, None}, UpdateRead(r, d, refs, driver)
      PROVE  RecordsFollow
  <2>1. [Idle EXCEPT !.pc = "updateOrders", !.d = d, !.refs = refs, !.driver = driver,
                     !.was = deliveryStatus[d], !.seen = OrdersOf(d)] \in Aimed
    BY <1>6 DEF UpdateRead, Editable, Aimed, Request, WellAimed, Step, Idle, OrdersOf
  <2>2. QED
    BY <1>6, <2>1, RecordFollows DEF UpdateRead, Starts
<1>7. ASSUME NEW d \in Deliveries, NEW driver \in Drivers \cup {Stranger, None},
             NEW needsApproval \in BOOLEAN,
             UpdateReadNoOrders(r, d, driver, needsApproval)
      PROVE  RecordsFollow
  <2>1. [Idle EXCEPT !.d = d, !.driver = driver, !.was = deliveryStatus[d]] \in Request
    BY <1>7 DEF UpdateReadNoOrders, Editable, Request, Step, Idle
  <2>2. [Idle EXCEPT !.d = d, !.driver = driver, !.was = deliveryStatus[d]].d
            \in Deliveries
    BY DEF Idle
  <2>3. OrdersOf(d) \in SUBSET Orders
    BY DEF OrdersOf
  <2>4. QED
    BY <1>7, <2>1, <2>2, <2>3, RecalculatesKeepsRecords DEF UpdateReadNoOrders
<1>8. ASSUME NEW d \in Deliveries, NEW o \in Orders, RemoveOrderRead(r, d, o)
      PROVE  RecordsFollow
  <2>1. [Idle EXCEPT !.pc = "removeOrderWrite", !.d = d, !.o = o,
                     !.was = deliveryStatus[d], !.seen = OrdersOf(d)] \in Aimed
    BY <1>8 DEF RemoveOrderRead, Exists, Aimed, Request, WellAimed, Step, Idle, OrdersOf
  <2>2. QED
    BY <1>8, <2>1, RecordFollows DEF RemoveOrderRead, Starts
<1>9. ASSUME NEW d \in Deliveries, PayCall(r, d)
      PROVE  RecordsFollow
  <2>1. [Idle EXCEPT !.pc = "payRead", !.d = d] \in Aimed
    BY DEF Aimed, Request, WellAimed, Step, Idle
  <2>2. QED
    BY <1>9, <2>1, RecordFollows DEF PayCall, Starts
<1>10. ASSUME NEW pays \in SUBSET Payments, MarkPaidRead(r, pays)
       PROVE  RecordsFollow
  <2>1. [Idle EXCEPT !.pc = "markPaidWrite", !.pays = pays] \in Aimed
    BY <1>10 DEF MarkPaidRead, Aimed, Request, WellAimed, Step, Idle
  <2>2. QED
    BY <1>10, <2>1, RecordFollows DEF MarkPaidRead, Starts
<1>11. ASSUME NEW p \in Payments, NEW to \in PaymentStatus, PayStatusRead(r, p, to)
       PROVE  RecordsFollow
  <2>1. [Idle EXCEPT !.pc = "payStatusWrite", !.pays = {p}, !.to = to] \in Aimed
    BY <1>11 DEF PayStatusRead, PaymentStatus, Aimed, Request, WellAimed, Step, Idle
  <2>2. QED
    BY <1>11, <2>1, RecordFollows DEF PayStatusRead, Starts
<1>12. ASSUME NEW p \in Payments, PayRevertRead(r, p)
       PROVE  RecordsFollow
  <2>1. [Idle EXCEPT !.pc = "payRevertWrite", !.pays = {p}] \in Aimed
    BY <1>12 DEF PayRevertRead, Aimed, Request, WellAimed, Step, Idle
  <2>2. QED
    BY <1>12, <2>1, RecordFollows DEF PayRevertRead, Starts
<1>13. QED
  BY <1>1, <1>2, <1>3, <1>4, <1>5, <1>6, <1>7, <1>8, <1>9, <1>10, <1>11, <1>12
     DEF DeliveryCall, PaymentCall

LEMMA RecordsStep ==
    ASSUME Tables, Records, DeliveriesHaveDrivers, [Next]_systemVars
    PROVE  RecordsFollow
<1>1. CASE UNCHANGED systemVars
  BY <1>1 DEF systemVars, vars, Records, RecordsFollow
<1>2. ASSUME NEW r \in Requests, DeliveryCall(r) \/ PaymentCall(r)
      PROVE  RecordsFollow
  BY <1>2, RecordsCall
<1>3. ASSUME NEW r \in Requests, DeliveryStep(r)
      PROVE  RecordsFollow
  <2>q. /\ req[r] \in Request /\ WellAimed(req[r])
        /\ \A p \in req[r].pays : payStatus[p] # "absent"
    BY RecordOf
  <2>1. CASE CreateCommit(r) \/ LiberarCommit(r) \/ RejeitarCommit(r)
             \/ RecalcWrite(r) \/ RemoveCommit(r)
    BY <2>1, EndsKeepsRecords DEF CreateCommit, LiberarCommit, RejeitarCommit,
         RecalcWrite, RemoveCommit
  <2>2. CASE StatusWrite(r)
    <3>1. [Idle EXCEPT !.pc = "statusCount", !.d = req[r].d] \in Aimed
      BY <2>q, <2>2 DEF StatusWrite, At, Aimed, Request, WellAimed, Step, Idle
    <3>2. QED
      BY <2>2, <3>1, RecordFollows DEF StatusWrite, Continues
  <2>3. CASE StatusCount(r)
    <3>1. [Idle EXCEPT !.pc = "statusFinalize", !.d = req[r].d] \in Aimed
      BY <2>q, <2>3 DEF StatusCount, At, Aimed, Request, WellAimed, Step, Idle
    <3>2. QED
      BY <2>3, <3>1, RecordFollows, EndsKeepsRecords DEF StatusCount, Continues
  <2>4. CASE StatusFinalize(r)
    <3>1. [Idle EXCEPT !.pc = "payRead", !.d = req[r].d] \in Aimed
      BY <2>q, <2>4 DEF StatusFinalize, At, Aimed, Request, WellAimed, Step, Idle
    <3>2. QED
      BY <2>4, <3>1, RecordFollows DEF StatusFinalize, Continues
  <2>5. CASE UpdateOrders(r)
    <3>1. [req[r] EXCEPT !.pc = "updateReread", !.refs = {}, !.seen = {}] \in Aimed
      BY <2>q, <2>5 DEF UpdateOrders, At, Aimed, Request, WellAimed, Step
    <3>2. QED
      BY <2>5, <3>1, RecordFollows DEF UpdateOrders, Continues
  <2>6. CASE RecalcHold(r)
    <3>1. [req[r] EXCEPT !.pc = "recalcWrite"] \in Aimed
      BY <2>q, <2>6 DEF RecalcHold, At, Aimed, Request, WellAimed, Step
    <3>2. QED
      BY <2>6, <3>1, RecordFollows DEF RecalcHold, Continues
  <2>7. ASSUME NEW needsApproval \in BOOLEAN, UpdateReread(r, needsApproval)
        PROVE  RecordsFollow
    <3>1. OrdersOf(req[r].d) \in SUBSET Orders /\ req[r].d \in Deliveries
      BY <2>q, <2>7 DEF UpdateReread, At, OrdersOf, WellAimed
    <3>2. QED
      BY <2>q, <2>7, <3>1, RecalculatesKeepsRecords DEF UpdateReread
  <2>8. ASSUME NEW needsApproval \in BOOLEAN, RemoveOrderWrite(r, needsApproval)
        PROVE  RecordsFollow
    <3>1. (req[r].seen \ {req[r].o}) \in SUBSET Orders /\ req[r].d \in Deliveries
      BY <2>q, <2>8 DEF RemoveOrderWrite, FreesItsOrder, At, Request, WellAimed
    <3>2. QED
      BY <2>q, <2>8, <3>1, RecalculatesKeepsRecords DEF RemoveOrderWrite
  <2>9. QED
    BY <1>3, <2>1, <2>2, <2>3, <2>4, <2>5, <2>6, <2>7, <2>8 DEF DeliveryStep
<1>4. ASSUME NEW r \in Requests, PaymentStep(r)
      PROVE  RecordsFollow
  <2>q. /\ req[r] \in Request /\ WellAimed(req[r])
        /\ \A p \in req[r].pays : payStatus[p] # "absent"
    BY RecordOf
  <2>1. CASE PayRead(r)
    <3>1. [req[r] EXCEPT !.pc = "payCheck", !.driver = deliveryDriver[req[r].d],
                         !.seen = charged[req[r].d]] \in Aimed
      BY <2>q, <2>1 DEF PayRead, At, Aimed, Request, WellAimed, Step, Tables,
           DeliveriesHaveDrivers
    <3>2. QED
      BY <2>1, <3>1, RecordFollows DEF PayRead, Continues
  <2>2. CASE PayCheck(r)
    <3>1. [req[r] EXCEPT !.pc = "payCommit"] \in Aimed
      BY <2>q, <2>2 DEF PayCheck, At, Aimed, Request, WellAimed, Step
    <3>2. QED
      BY <2>2, <3>1, RecordFollows, EndsKeepsRecords DEF PayCheck, Continues
  <2>3. QED
    BY <1>4, <2>1, <2>2, EndsKeepsRecords DEF PaymentStep, PayCommit,
         MarkPaidWrite, PayStatusWrite, PayRevertWrite
<1>5. ASSUME NEW r \in Requests, RemoveOrderUnfinished(r) \/ Stops(r)
      PROVE  RecordsFollow
  BY <1>5, EndsKeepsRecords DEF RemoveOrderUnfinished, Stops, DeliveryRefused, DeliveryGone,
     DriverUnknown, FreightRefused, PayGone, Die, Fails
<1>6. QED
  BY <1>1, <1>2, <1>3, <1>4, <1>5, NextIsOfOneHandler DEF Works

-----------------------------------------------------------------------------
(* The books: a row once made keeps its driver, its amount and its status. *)

\* What PaymentStep does to a row, and no other step does anything.
LEMMA BooksStep ==
    ASSUME Tables, Records, [Next]_systemVars, NEW p \in Payments
    PROVE  /\ payStatus[p] # "absent" =>
                 /\ payStatus'[p] # "absent"
                 /\ payDriver'[p] = payDriver[p]
                 /\ payBasis'[p] = payBasis[p]
                 /\ payFor'[p] \in {payFor[p], None}
           /\ payStatus[p] = "absent" /\ payStatus'[p] # "absent" => payDriver'[p] \in Drivers
<1> DEFINE Kept ==
        /\ payStatus[p] # "absent" =>
              /\ payStatus'[p] # "absent"
              /\ payDriver'[p] = payDriver[p]
              /\ payBasis'[p] = payBasis[p]
              /\ payFor'[p] \in {payFor[p], None}
        /\ payStatus[p] = "absent" /\ payStatus'[p] # "absent" => payDriver'[p] \in Drivers
<1>1. CASE UNCHANGED <<routeVars, payVars>>
  BY <1>1 DEF payVars
<1>2. ASSUME NEW r \in Requests, Writes(r)
      PROVE  Kept
  <2>q. /\ req[r] \in Request /\ WellAimed(req[r])
        /\ \A paid \in req[r].pays : payStatus[paid] # "absent"
    BY RecordOf
  <2>1. CASE CreateCommit(r) \/ LiberarCommit(r) \/ RejeitarCommit(r) \/ StatusWrite(r)
             \/ StatusFinalize(r) \/ UpdateOrders(r) \/ RecalcHold(r) \/ RecalcWrite(r)
             \/ FreesItsOrder(r)
    BY <2>1 DEF payVars, CreateCommit, LiberarCommit, RejeitarCommit, StatusWrite,
         StatusFinalize, UpdateOrders, RecalcHold, RecalcWrite, FreesItsOrder
  <2>2. CASE RemoveCommit(r)
    BY <2>2 DEF RemoveCommit, Tables
  <2>3. ASSUME NEW new \in Payments, PayCommit(r, new)
        PROVE  Kept
    BY <2>q, <2>3 DEF PayCommit, Tables, At, WellAimed
  <2>4. CASE MarkPaidWrite(r)
    BY <2>q, <2>4 DEF MarkPaidWrite, Tables
  <2>5. CASE PayStatusWrite(r)
    BY <2>q, <2>5 DEF PayStatusWrite, Tables, At, WellAimed,
         PaymentStatus
  <2>6. CASE PayRevertWrite(r)
    BY <2>q, <2>6 DEF PayRevertWrite, Tables
  <2>7. QED
    BY <1>2, <2>1, <2>2, <2>3, <2>4, <2>5, <2>6 DEF Writes
<1>3. QED
  BY <1>1, <1>2, OnlyWritesWrite

LEMMA DriversStep ==
    ASSUME Tables, Records, DeliveriesHaveDrivers, [Next]_systemVars
    PROVE  DeliveriesHaveDrivers'
<1>1. CASE UNCHANGED <<routeVars, payVars>>
  BY <1>1 DEF DeliveriesHaveDrivers, Exists, routeVars
<1>2. ASSUME NEW r \in Requests, Writes(r)
      PROVE  DeliveriesHaveDrivers'
  <2>q. /\ req[r] \in Request /\ WellAimed(req[r])
        /\ \A p \in req[r].pays : payStatus[p] # "absent"
    BY RecordOf
  <2>1. CASE CreateCommit(r)
    BY <2>q, <2>1 DEF CreateCommit, Tables, DeliveriesHaveDrivers, Exists, At, WellAimed
  <2>2. CASE LiberarCommit(r) \/ RejeitarCommit(r) \/ StatusFinalize(r)
    BY <2>2 DEF LiberarCommit, RejeitarCommit, StatusFinalize, Tables,
         DeliveriesHaveDrivers, Exists
  <2>3. CASE StatusWrite(r) \/ UpdateOrders(r) \/ RecalcHold(r)
             \/ FreesItsOrder(r)
    BY <2>3 DEF StatusWrite, UpdateOrders, RecalcHold, FreesItsOrder,
         DeliveriesHaveDrivers, Exists
  <2>4. CASE RecalcWrite(r)
    BY <2>q, <2>4 DEF RecalcWrite, Tables, DeliveriesHaveDrivers, Exists, Request
  <2>5. CASE RemoveCommit(r)
    BY <2>5 DEF RemoveCommit, Tables, DeliveriesHaveDrivers, Exists, DeliveryStatus
  <2>6. CASE \/ \E p \in Payments : PayCommit(r, p)
             \/ MarkPaidWrite(r) \/ PayStatusWrite(r) \/ PayRevertWrite(r)
    BY <2>6 DEF PayCommit, MarkPaidWrite, PayStatusWrite, PayRevertWrite, routeVars,
         DeliveriesHaveDrivers, Exists
  <2>7. QED
    BY <1>2, <2>1, <2>2, <2>3, <2>4, <2>5, <2>6 DEF Writes
<1>3. QED
  BY <1>1, <1>2, OnlyWritesWrite

-----------------------------------------------------------------------------
(* The inductive invariant. *)

LEMMA IInvInit == Init => IInv
<1> SUFFICES ASSUME Init
             PROVE  IInv
  OBVIOUS
<1>1. Tables
  BY DEF Init, Tables, OrderStatus, PaymentStatus
<1>2. Records
  BY IdleIsAimed DEF Init, Records
<1>3. RowsAreWhole
  BY DEF Init, RowsAreWhole, DeliveriesHaveDrivers, PaymentsHaveDrivers, Exists,
     DeliveryStatus
<1>4. QED
  BY <1>1, <1>2, <1>3, IInvParts

LEMMA IInvStep == IInv /\ [Next]_systemVars => IInv'
<1> SUFFICES ASSUME IInv, [Next]_systemVars
             PROVE  IInv'
  OBVIOUS
<1>1. Tables /\ Records /\ RowsAreWhole
  BY IInvParts
<1>2. Tables'
  BY <1>1, TablesStep
<1>3. RecordsFollow
  BY <1>1, RecordsStep DEF RowsAreWhole
<1>4. Records'
  BY <1>1, <1>3, BooksStep DEF RecordsFollow, Records, Aimed, Request
<1>5. RowsAreWhole'
  <2>1. DeliveriesHaveDrivers'
    BY <1>1, DriversStep DEF RowsAreWhole
  <2>2. PaymentsHaveDrivers'
    BY <1>1, BooksStep DEF RowsAreWhole, PaymentsHaveDrivers
  <2>3. QED
    BY <2>1, <2>2 DEF RowsAreWhole
<1>6. QED
  BY <1>2, <1>4, <1>5, IInvPartsNext

LEMMA Invariance == Spec => []IInv
BY IInvInit, IInvStep, PTL DEF Spec

\* Every column keeps its type, whatever the handlers have kept in hand.
THEOREM TypeCorrect == Spec => []TypeOK
<1>1. IInv => TypeOK
  BY DEF IInv
<1>2. QED
  BY <1>1, Invariance, PTL

\* A payment's driver and amount never move once it is in the books, and its
\* link to the delivery is only ever cut.
THEOREM BooksStayFixed == Spec => BooksAreFixed
<1> DEFINE Fixed == \A p \in Payments : payStatus[p] # "absent" =>
                       /\ payStatus'[p] # "absent"
                       /\ payDriver'[p] = payDriver[p] /\ payDriver[p] \in Drivers
                       /\ payBasis'[p] = payBasis[p]
                       /\ payFor'[p] \in {payFor[p], None}
<1>1. IInv /\ [Next]_systemVars => Fixed
  BY IInvParts, BooksStep DEF RowsAreWhole, PaymentsHaveDrivers
<1>2. QED
  BY <1>1, Invariance, PTL DEF Spec, BooksAreFixed

-----------------------------------------------------------------------------
(* The route tables: a free order is on no delivery, nothing refers to a   *)
(* deleted delivery, and every rejection is on record.  Each is inductive  *)
(* relative to IInv.                                                       *)

\* Status and delivery of an order are written together wherever an order is
\* freed, and a handler's status to write is never SEM_ROTA.
LEMMA FreeOrdersStep ==
    ASSUME IInv, FreeOrdersAreOffRoute, [Next]_systemVars
    PROVE  FreeOrdersAreOffRoute'
<1>0. Tables /\ Records
  BY IInvParts
<1>1. CASE UNCHANGED <<routeVars, payVars>>
  BY <1>1 DEF FreeOrdersAreOffRoute, routeVars
<1>2. ASSUME NEW r \in Requests, Writes(r)
      PROVE  FreeOrdersAreOffRoute'
  <2>q. req[r] \in Request /\ WellAimed(req[r])
    BY <1>0, RecordOf
  <2>1. CASE CreateCommit(r)
    BY <2>1 DEF CreateCommit, FreeOrdersAreOffRoute
  <2>2. CASE LiberarCommit(r) \/ RejeitarCommit(r) \/ RecalcHold(r)
    BY <2>2 DEF LiberarCommit, RejeitarCommit, RecalcHold, FreeOrdersAreOffRoute
  <2>3. CASE StatusWrite(r)
    BY <1>0, <2>q, <2>3 DEF StatusWrite, At, WellAimed, Finished, Tables,
         FreeOrdersAreOffRoute
  <2>4. CASE UpdateOrders(r)
    BY <2>4 DEF UpdateOrders, FreeOrdersAreOffRoute
  <2>5. CASE FreesItsOrder(r)
    BY <1>0, <2>5 DEF FreesItsOrder, Tables, FreeOrdersAreOffRoute
  <2>6. CASE RemoveCommit(r)
    BY <2>6 DEF RemoveCommit, FreeOrdersAreOffRoute
  <2>7. CASE \/ StatusFinalize(r) \/ RecalcWrite(r)
             \/ \E p \in Payments : PayCommit(r, p)
             \/ MarkPaidWrite(r) \/ PayStatusWrite(r) \/ PayRevertWrite(r)
    BY <2>7 DEF StatusFinalize, RecalcWrite, PayCommit, MarkPaidWrite, PayStatusWrite,
         PayRevertWrite, routeVars, FreeOrdersAreOffRoute
  <2>8. QED
    BY <1>2, <2>1, <2>2, <2>3, <2>4, <2>5, <2>6, <2>7 DEF Writes
<1>3. QED
  BY <1>1, <1>2, OnlyWritesWrite

\* Only remove takes a delivery away, and what names it goes with it; whoever
\* names a delivery in a write asks for its row in the same transaction.
LEMMA NothingHangsStep ==
    ASSUME IInv, NothingHangs, [Next]_systemVars
    PROVE  NothingHangs'
<1>0. Tables /\ Records
  BY IInvParts
<1>1. CASE UNCHANGED <<routeVars, payVars>>
  BY <1>1 DEF NothingHangs, Exists, routeVars, payVars
<1>2. ASSUME NEW r \in Requests, Writes(r)
      PROVE  NothingHangs'
  <2>q. req[r] \in Request /\ WellAimed(req[r])
    BY <1>0, RecordOf
  <2>1. CASE CreateCommit(r)
    BY <1>0, <2>q, <2>1 DEF CreateCommit, Tables, At, WellAimed, Exists, DeliveryStatus,
         payVars, NothingHangs
  <2>2. CASE LiberarCommit(r) \/ StatusFinalize(r) \/ RecalcWrite(r)
    BY <1>0, <2>2 DEF LiberarCommit, StatusFinalize, RecalcWrite, Tables, Exists,
         DeliveryStatus, payVars, NothingHangs
  <2>3. CASE RejeitarCommit(r)
    BY <1>0, <2>3 DEF RejeitarCommit, Tables, Exists, DeliveryStatus, payVars,
         NothingHangs
  <2>4. CASE StatusWrite(r) \/ RecalcHold(r)
    BY <2>4 DEF StatusWrite, RecalcHold, Exists, payVars,
         NothingHangs
  <2>5. CASE UpdateOrders(r)
    BY <2>5 DEF UpdateOrders, Exists, payVars, NothingHangs
  <2>6. CASE FreesItsOrder(r)
    BY <1>0, <2>6 DEF FreesItsOrder, Tables, Exists, payVars,
         NothingHangs
  <2>7. CASE RemoveCommit(r)
    BY <1>0, <2>7 DEF RemoveCommit, OrdersOf, Tables, Exists,
         NothingHangs
  <2>8. ASSUME NEW new \in Payments, PayCommit(r, new)
        PROVE  NothingHangs'
    BY <1>0, <2>8 DEF PayCommit, Tables, Exists, routeVars,
         NothingHangs
  <2>9. CASE MarkPaidWrite(r) \/ PayStatusWrite(r) \/ PayRevertWrite(r)
    BY <2>9 DEF MarkPaidWrite, PayStatusWrite, PayRevertWrite, routeVars, Exists,
         NothingHangs
  <2>10. QED
    BY <1>2, <2>1, <2>2, <2>3, <2>4, <2>5, <2>6, <2>7, <2>8, <2>9 DEF Writes
<1>3. QED
  BY <1>1, <1>2, OnlyWritesWrite

\* REJEITADO and the approval row are written in one transaction, and only
\* remove erases an approval.
LEMMA RejectionStep ==
    ASSUME IInv, RejectionIsOnRecord, [Next]_systemVars
    PROVE  RejectionIsOnRecord'
<1>0. Tables /\ Records
  BY IInvParts
<1>1. CASE UNCHANGED <<routeVars, payVars>>
  BY <1>1 DEF RejectionIsOnRecord, routeVars
<1>2. ASSUME NEW r \in Requests, Writes(r)
      PROVE  RejectionIsOnRecord'
  <2>1. CASE CreateCommit(r)
    BY <1>0, <2>1 DEF CreateCommit, Tables, RejectionIsOnRecord
  <2>2. CASE LiberarCommit(r) \/ RejeitarCommit(r)
    BY <1>0, <2>2 DEF LiberarCommit, RejeitarCommit, Tables, RejectionIsOnRecord
  <2>3. CASE StatusFinalize(r) \/ RecalcWrite(r) \/ RemoveCommit(r)
    BY <1>0, <2>3 DEF StatusFinalize, RecalcWrite, RemoveCommit, Tables,
         RejectionIsOnRecord
  <2>4. CASE \/ StatusWrite(r) \/ UpdateOrders(r) \/ RecalcHold(r)
             \/ FreesItsOrder(r)
             \/ \E p \in Payments : PayCommit(r, p)
             \/ MarkPaidWrite(r) \/ PayStatusWrite(r) \/ PayRevertWrite(r)
    BY <2>4 DEF StatusWrite, UpdateOrders, RecalcHold, FreesItsOrder, PayCommit,
         MarkPaidWrite, PayStatusWrite, PayRevertWrite, routeVars, RejectionIsOnRecord
  <2>5. QED
    BY <1>2, <2>1, <2>2, <2>3, <2>4 DEF Writes
<1>3. QED
  BY <1>1, <1>2, OnlyWritesWrite

\* An order that create accepts is on no delivery.
THEOREM FreeOrdersStayOffRoute == Spec => []FreeOrdersAreOffRoute
<1>1. Init => FreeOrdersAreOffRoute
  BY DEF Init, FreeOrdersAreOffRoute
<1>2. QED
  BY <1>1, FreeOrdersStep, Invariance, PTL DEF Spec

LEMMA NothingHangsInvariance == Spec => []NothingHangs
<1>1. Init => NothingHangs
  BY DEF Init, NothingHangs
<1>2. QED
  BY <1>1, NothingHangsStep, Invariance, PTL DEF Spec

\* Every rejected delivery has its rejection in the approval history.
THEOREM RejectionsAreRecorded == Spec => []RejectionIsOnRecord
<1>1. Init => RejectionIsOnRecord
  BY DEF Init, RejectionIsOnRecord
<1>2. QED
  BY <1>1, RejectionStep, Invariance, PTL DEF Spec
=============================================================================
