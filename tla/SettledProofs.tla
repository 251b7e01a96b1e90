---------------------------- MODULE SettledProofs ----------------------------
(***************************************************************************)
(* What DeliverySystem's handlers keep wherever they are not in a race and *)
(* are not stopped half way: for any number of orders, deliveries,         *)
(* payments, drivers and overlapping handlers, any of which may die.       *)
(*                                                                         *)
(* Each handler evaluates its guards on what it has read and writes later, *)
(* by id.  What a handler that was not overtaken has read is still so when *)
(* it writes (ReadsHold), which is the invariant that everything here      *)
(* rests on.  An overtaken one puts what it writes to in `raced`.  Where   *)
(* an invariant of the rows takes several writes to restore, a handler     *)
(* that has begun them is on its way to the last, or its delivery is in    *)
(* `abandoned`.                                                            *)
(***************************************************************************)
EXTENDS DeliverySystemProofs, FiniteSetTheorems

Waiting == "EM_ROTA_AGUARDANDO_LIBERACAO"

\* What the handler's record says of the tables is what they hold.
StillTrue(q) ==
    /\ q.pc = "createCommit" => deliveryStatus[q.d] = "absent"
    /\ q.pc \in {"liberarCommit", "rejeitarCommit"} => deliveryStatus[q.d] = "A_LIBERAR"
    /\ q.pc \in {"statusWrite", "statusCount", "statusFinalize"} =>
          deliveryStatus[q.d] = "INICIADO"
    /\ q.pc = "statusWrite" => orderDelivery[q.o] = q.d
    /\ q.pc = "statusFinalize" => Unfinished(q.d) = {}
    /\ q.pc \in {"updateOrders", "updateReread", "removeOrderWrite"} =>
          Exists(q.d) /\ deliveryStatus[q.d] = q.was
    /\ q.pc \in {"updateOrders", "updateReread"} => Editable(q.d)
    /\ q.pc = "removeOrderWrite" => q.driver = None /\ orderDelivery[q.o] = q.d
    /\ q.pc \in {"updateOrders", "removeOrderWrite", "recalcHold", "recalcWrite"} =>
          q.seen = OrdersOf(q.d)
    /\ q.pc \in {"recalcHold", "recalcWrite"} =>
          /\ Exists(q.d)
          /\ q.hold => deliveryStatus[q.d] = "INICIADO"
          /\ ~q.hold /\ ~Editable(q.d) => q.driver = None
    /\ q.pc = "recalcHold" => q.hold
    /\ q.pc = "recalcWrite" /\ q.hold => \A o \in OrdersOf(q.d) : orderStatus[o] = Waiting
    /\ q.pc \in {"removeCommit", "payCheck", "payCommit"} => Exists(q.d)
    /\ q.pc = "removeCommit" /\ deliveryStatus[q.d] = "INICIADO" =>
          \A o \in OrdersOf(q.d) : orderStatus[o] # "EM_ENTREGA"
    /\ q.pc \in {"payCheck", "payCommit"} =>
          q.driver = deliveryDriver[q.d] /\ q.seen = charged[q.d]
    /\ q.pc = "payCommit" => LinksOf(q.d) = {}
    /\ q.pc = "markPaidWrite" => \A p \in q.pays : payStatus[p] = "PENDENTE"
    /\ q.pc = "payRevertWrite" => \A p \in q.pays : payStatus[p] = "PAGO"

ReadsHold == \A r \in Requests : r \notin overtaken => StillTrue(req[r])

UnbookedIsUnlinked == \A p \in Payments : payStatus[p] = "absent" => payFor[p] = None

GInv == IInv /\ NothingHangs /\ UnbookedIsUnlinked /\ ReadsHold

LEMMA GInvParts ==
    ASSUME GInv
    PROVE  /\ Tables /\ Records /\ DeliveriesHaveDrivers /\ NothingHangs /\ UnbookedIsUnlinked
           /\ \A r \in Requests : /\ req[r] \in Request /\ WellAimed(req[r])
                                  /\ r \notin overtaken => StillTrue(req[r])
BY IInvParts, RecordOf DEF GInv, ReadsHold, RowsAreWhole

-----------------------------------------------------------------------------
(* A handler's own step leaves it with what is so.                         *)

\* The places at which a handler relies on nothing it has read.
LEMMA NothingRead ==
    ASSUME NEW r, req'[r].pc \in {"idle", "payRead", "payStatusWrite"}
    PROVE  StillTrue(req[r])'
BY DEF StillTrue

LEMMA EndsReadsNothing ==
    ASSUME Records, NEW r \in Requests, Ends(r)
    PROVE  StillTrue(req[r])'
<1>1. req'[r].pc = "idle"
  BY DEF Ends, Records, Idle
<1>2. QED
  BY <1>1, NothingRead

\* The edition handlers: the delivery exists, the orders they will charge for
\* are those it has now.
LEMMA RecalculatesReads ==
    ASSUME Records, NEW r \in Requests, NEW q \in Request, q.d \in Deliveries,
           NEW orders \in SUBSET Orders, NEW needsApproval \in BOOLEAN,
           Recalculates(r, q, orders, needsApproval),
           orders = OrdersOf(q.d)', Exists(q.d)', deliveryStatus'[q.d] = q.was,
           Editable(q.d)' \/ q.driver = None
    PROVE  StillTrue(req[r])'
<1> DEFINE hold == q.was = "INICIADO" /\ needsApproval
           f == [Idle EXCEPT !.pc = IF hold THEN "recalcHold" ELSE "recalcWrite",
                             !.d = q.d, !.driver = q.driver,
                             !.seen = orders, !.hold = hold]
<1>1. req'[r] = f
  BY DEF Recalculates, Continues, Records
<1>2. /\ f.pc = IF hold THEN "recalcHold" ELSE "recalcWrite"
      /\ f.d = q.d /\ f.driver = q.driver /\ f.seen = orders /\ f.hold = hold
  BY DEF Idle
<1>3. /\ req'[r].pc = IF hold THEN "recalcHold" ELSE "recalcWrite"
      /\ req'[r].d = q.d /\ req'[r].driver = q.driver
      /\ req'[r].seen = orders /\ req'[r].hold = hold
  BY <1>1, <1>2
<1>4. hold => deliveryStatus'[q.d] = "INICIADO"
  OBVIOUS
<1> HIDE DEF hold, f
<1>5. hold \in BOOLEAN
  BY DEF hold
<1>6. QED
  BY <1>3, <1>4, <1>5 DEF StillTrue

LEMMA ReadsCall ==
    ASSUME GInv, NEW r \in Requests, DeliveryCall(r) \/ PaymentCall(r)
    PROVE  StillTrue(req[r])'
<1>0. Tables /\ Records
  BY GInvParts
<1>1. ASSUME NEW d \in Deliveries, NEW refs \in SUBSET Orders, NEW driver \in Drivers,
             NEW hold \in BOOLEAN, CreateRead(r, d, refs, driver, hold)
      PROVE  StillTrue(req[r])'
  <2>1. req'[r].pc = "createCommit" /\ req'[r].d = d
    BY <1>0, <1>1 DEF CreateRead, Starts, Records, Idle
  <2>2. QED
    BY <1>1, <2>1 DEF CreateRead, FreshDelivery, StillTrue, routeVars
<1>2. ASSUME NEW d \in Deliveries, LiberarRead(r, d) \/ RejeitarRead(r, d)
      PROVE  StillTrue(req[r])'
  <2>1. req'[r].pc \in {"liberarCommit", "rejeitarCommit"} /\ req'[r].d = d
    BY <1>0, <1>2 DEF LiberarRead, RejeitarRead, Starts, Records, Idle
  <2>2. QED
    BY <1>2, <2>1 DEF LiberarRead, RejeitarRead, StillTrue, routeVars
<1>3. ASSUME NEW d \in Deliveries, RemoveRead(r, d)
      PROVE  StillTrue(req[r])'
  <2>1. req'[r].pc = "removeCommit" /\ req'[r].d = d
    BY <1>0, <1>3 DEF RemoveRead, Starts, Records, Idle
  <2>2. OrdersOf(d)' = OrdersOf(d)
    BY <1>3 DEF RemoveRead, OrdersOf, routeVars
  <2>3. QED
    BY <1>3, <2>1, <2>2 DEF RemoveRead, StillTrue, Exists, routeVars
<1>12. ASSUME NEW d \in Deliveries, PayCall(r, d)
       PROVE  StillTrue(req[r])'
  <2>1. req'[r].pc = "payRead"
    BY <1>0, <1>12 DEF PayCall, Starts, Records, Idle
  <2>2. QED
    BY <2>1, NothingRead
<1>4. ASSUME NEW driver \in Drivers, NEW o \in Orders, NEW to \in OrderStatus,
             StatusRead(r, driver, o, to)
      PROVE  StillTrue(req[r])'
  <2>1. req'[r].pc = "statusWrite" /\ req'[r].d = orderDelivery[o] /\ req'[r].o = o
    BY <1>0, <1>4 DEF StatusRead, Starts, Records, Idle
  <2>2. QED
    BY <1>4, <2>1 DEF StatusRead, StillTrue, routeVars
<1>5. ASSUME NEW d \in Deliveries, NEW refs \in SUBSET Orders,
             NEW driver \in Drivers \cup {Stranger, None}, UpdateRead(r, d, refs, driver)
      PROVE  StillTrue(req[r])'
  <2>1. /\ req'[r].pc = "updateOrders" /\ req'[r].d = d
        /\ req'[r].was = deliveryStatus[d] /\ req'[r].seen = OrdersOf(d)
    BY <1>0, <1>5 DEF UpdateRead, Starts, Records, Idle
  <2>2. OrdersOf(d)' = OrdersOf(d)
    BY <1>5 DEF UpdateRead, OrdersOf, routeVars
  <2>3. QED
    BY <1>5, <2>1, <2>2 DEF UpdateRead, Editable, Exists, StillTrue, routeVars
<1>6. ASSUME NEW d \in Deliveries, NEW driver \in Drivers \cup {Stranger, None},
             NEW needsApproval \in BOOLEAN,
             UpdateReadNoOrders(r, d, driver, needsApproval)
      PROVE  StillTrue(req[r])'
  <2> DEFINE q == [Idle EXCEPT !.d = d, !.driver = driver, !.was = deliveryStatus[d]]
  <2>1. q \in Request
    BY <1>6 DEF UpdateReadNoOrders, Editable, Request, Step, Idle
  <2>2. q.d = d /\ q.was = deliveryStatus[d]
    BY DEF Idle
  <2>3. OrdersOf(d) \in SUBSET Orders /\ OrdersOf(d) = OrdersOf(d)'
    BY <1>6 DEF UpdateReadNoOrders, OrdersOf, routeVars
  <2>4. /\ Exists(d)' /\ Editable(d)' /\ deliveryStatus'[d] = deliveryStatus[d]
        /\ Recalculates(r, q, OrdersOf(d), needsApproval)
    BY <1>6 DEF UpdateReadNoOrders, Editable, Exists, routeVars
  <2> HIDE DEF q
  <2>5. QED
    BY <1>0, <2>1, <2>2, <2>3, <2>4, RecalculatesReads
<1>7. ASSUME NEW d \in Deliveries, NEW o \in Orders, RemoveOrderRead(r, d, o)
      PROVE  StillTrue(req[r])'
  <2>1. /\ req'[r].pc = "removeOrderWrite" /\ req'[r].d = d /\ req'[r].o = o
        /\ req'[r].was = deliveryStatus[d] /\ req'[r].seen = OrdersOf(d)
        /\ req'[r].driver = None
    BY <1>0, <1>7 DEF RemoveOrderRead, Starts, Records, Idle
  <2>2. OrdersOf(d)' = OrdersOf(d)
    BY <1>7 DEF RemoveOrderRead, OrdersOf, routeVars
  <2>3. orderDelivery[o] = d
    BY <1>7 DEF RemoveOrderRead, OrdersOf
  <2>4. QED
    BY <1>7, <2>1, <2>2, <2>3 DEF RemoveOrderRead, Exists, StillTrue, routeVars
<1>8. ASSUME NEW pays \in SUBSET Payments, MarkPaidRead(r, pays)
      PROVE  StillTrue(req[r])'
  <2>1. req'[r].pc = "markPaidWrite" /\ req'[r].pays = pays
    BY <1>0, <1>8 DEF MarkPaidRead, Starts, Records, Idle
  <2>2. QED
    BY <1>8, <2>1 DEF MarkPaidRead, StillTrue, payVars
<1>9. ASSUME NEW p \in Payments, NEW to \in PaymentStatus, PayStatusRead(r, p, to)
      PROVE  StillTrue(req[r])'
  <2>1. req'[r].pc = "payStatusWrite"
    BY <1>0, <1>9 DEF PayStatusRead, Starts, Records, Idle
  <2>2. QED
    BY <2>1, NothingRead
<1>10. ASSUME NEW p \in Payments, PayRevertRead(r, p)
       PROVE  StillTrue(req[r])'
  <2>1. req'[r].pc = "payRevertWrite" /\ req'[r].pays = {p}
    BY <1>0, <1>10 DEF PayRevertRead, Starts, Records, Idle
  <2>2. QED
    BY <1>10, <2>1 DEF PayRevertRead, StillTrue, payVars
<1>11. QED
  BY <1>1, <1>2, <1>3, <1>4, <1>5, <1>6, <1>7, <1>8, <1>9, <1>10, <1>12
     DEF DeliveryCall, PaymentCall

LEMMA ReadsStep ==
    ASSUME GInv, NEW r \in Requests, r \notin overtaken, DeliveryStep(r)
    PROVE  StillTrue(req[r])'
<1>0. Tables /\ Records
  BY GInvParts
<1>q. req[r] \in Request /\ WellAimed(req[r]) /\ StillTrue(req[r])
  BY GInvParts
\* The delivery the handler works on, the same before and after the step.
<1>d. PICK d : d = req[r].d
  OBVIOUS
<1>1. CASE \/ CreateCommit(r) \/ LiberarCommit(r) \/ RejeitarCommit(r)
           \/ RecalcWrite(r) \/ RemoveCommit(r)
  BY <1>0, <1>1, EndsReadsNothing DEF CreateCommit, LiberarCommit, RejeitarCommit,
     RecalcWrite, RemoveCommit
<1>2. CASE StatusWrite(r)
  <2>1. req'[r].pc = "statusCount" /\ req'[r].d = d
    BY <1>0, <1>d, <1>2 DEF StatusWrite, Continues, Records, Idle
  <2>2. deliveryStatus'[d] = "INICIADO"
    BY <1>d, <1>q, <1>2 DEF StatusWrite, At, StillTrue
  <2>3. QED
    BY <2>1, <2>2 DEF StillTrue
<1>3. CASE StatusCount(r)
  <2>1. CASE Unfinished(d) = {}
    <3>1. req'[r].pc = "statusFinalize" /\ req'[r].d = d
      BY <1>0, <1>d, <1>3, <2>1 DEF StatusCount, Continues, Records, Idle
    <3>2. /\ deliveryStatus'[d] = "INICIADO"
          /\ Unfinished(d)' = {}
      BY <1>d, <1>q, <1>3, <2>1 DEF StatusCount, At, StillTrue, Unfinished, OrdersOf,
         routeVars
    <3>3. QED
      BY <3>1, <3>2 DEF StillTrue
  <2>2. CASE Unfinished(d) # {}
    BY <1>0, <1>d, <1>3, <2>2, EndsReadsNothing DEF StatusCount
  <2>3. QED
    BY <2>1, <2>2
<1>4. CASE StatusFinalize(r)
  <2>1. req'[r].pc = "payRead"
    BY <1>0, <1>4 DEF StatusFinalize, Continues, Records, Idle
  <2>2. QED
    BY <2>1, NothingRead
<1>5. CASE UpdateOrders(r)
  <2>1. /\ req'[r].pc = "updateReread"
        /\ req'[r].d = d /\ req'[r].was = req[r].was
    BY <1>0, <1>d, <1>q, <1>5 DEF UpdateOrders, Continues, Records, Request
  <2>2. /\ Exists(d)' /\ Editable(d)'
        /\ deliveryStatus'[d] = req[r].was
    BY <1>d, <1>q, <1>5 DEF UpdateOrders, At, StillTrue, Exists, Editable
  <2>3. QED
    BY <2>1, <2>2 DEF StillTrue
<1>6. ASSUME NEW needsApproval \in BOOLEAN, UpdateReread(r, needsApproval)
      PROVE  StillTrue(req[r])'
  <2>1. /\ OrdersOf(d) \in SUBSET Orders /\ d \in Deliveries
        /\ OrdersOf(d) = OrdersOf(d)'
    BY <1>d, <1>q, <1>6 DEF UpdateReread, At, OrdersOf, WellAimed, routeVars
  <2>2. /\ Exists(d)' /\ Editable(d)'
        /\ deliveryStatus'[d] = req[r].was
    BY <1>d, <1>q, <1>6 DEF UpdateReread, At, StillTrue, Exists, Editable, routeVars
  <2>3. QED
    BY <1>0, <1>d, <1>q, <1>6, <2>1, <2>2, RecalculatesReads DEF UpdateReread
<1>7. ASSUME NEW needsApproval \in BOOLEAN, RemoveOrderWrite(r, needsApproval)
      PROVE  StillTrue(req[r])'
  <2> DEFINE orders == req[r].seen \ {req[r].o}
  <2>1. orders \in SUBSET Orders /\ d \in Deliveries /\ req[r].o \in Orders
    BY <1>d, <1>q, <1>7 DEF RemoveOrderWrite, FreesItsOrder, At, Request, WellAimed
  <2>2. orders = OrdersOf(d)'
    BY <1>0, <1>d, <1>q, <1>7, <2>1, NoneIsNoId DEF RemoveOrderWrite, FreesItsOrder, At, StillTrue,
       OrdersOf, Tables
  <2>3. /\ Exists(d)' /\ req[r].driver = None
        /\ deliveryStatus'[d] = req[r].was
    BY <1>d, <1>q, <1>7 DEF RemoveOrderWrite, FreesItsOrder, At, StillTrue, Exists
  <2>4. Recalculates(r, req[r], orders, needsApproval)
    BY <1>d, <1>7 DEF RemoveOrderWrite
  <2> HIDE DEF orders
  <2>5. QED
    BY <1>0, <1>d, <1>q, <2>1, <2>2, <2>3, <2>4, RecalculatesReads
<1>8. CASE RecalcHold(r)
  <2>1. /\ req'[r].pc = "recalcWrite" /\ req'[r].d = d
        /\ req'[r].seen = req[r].seen /\ req'[r].hold = req[r].hold
        /\ req'[r].driver = req[r].driver
    BY <1>0, <1>d, <1>q, <1>8 DEF RecalcHold, Continues, Records, Request
  <2>2. /\ Exists(d)' /\ req[r].hold
        /\ deliveryStatus'[d] = "INICIADO"
        /\ req[r].seen = OrdersOf(d)
    BY <1>d, <1>q, <1>8 DEF RecalcHold, At, StillTrue, Exists
  <2>3. OrdersOf(d)' = OrdersOf(d)
    BY <1>d, <1>8 DEF RecalcHold, OrdersOf
  <2>4. \A o \in OrdersOf(d) : orderStatus'[o] = Waiting
    BY <1>d, <1>8 DEF RecalcHold, OrdersOf, Waiting
  <2>5. QED
    BY <2>1, <2>2, <2>3, <2>4 DEF StillTrue
<1>9. QED
  BY <1>1, <1>2, <1>3, <1>4, <1>5, <1>6, <1>7, <1>8 DEF DeliveryStep

LEMMA ReadsPaying ==
    ASSUME GInv, NEW r \in Requests, r \notin overtaken \/ At(r, "payRead"), PaymentStep(r)
    PROVE  StillTrue(req[r])'
<1>0. Tables /\ Records
  BY GInvParts
<1>q. /\ req[r] \in Request /\ WellAimed(req[r])
      /\ ~At(r, "payRead") => StillTrue(req[r])
  BY GInvParts
\* The delivery the handler works on, the same before and after the step.
<1>d. PICK d : d = req[r].d
  OBVIOUS
<1>1. CASE PayRead(r)
  <2>1. /\ req'[r].pc = "payCheck" /\ req'[r].d = d
        /\ req'[r].driver = deliveryDriver[d] /\ req'[r].seen = charged[d]
    BY <1>0, <1>d, <1>q, <1>1 DEF PayRead, Continues, Records, Request
  <2>2. QED
    BY <1>d, <1>1, <2>1 DEF PayRead, StillTrue, Exists, routeVars
<1>2. CASE PayCheck(r)
  <2>1. CASE LinksOf(d) = {}
    <3>1. /\ req'[r].pc = "payCommit" /\ req'[r].d = d
          /\ req'[r].driver = req[r].driver /\ req'[r].seen = req[r].seen
      BY <1>0, <1>d, <1>q, <1>2, <2>1 DEF PayCheck, Continues, Records, Request
    <3>2. LinksOf(d)' = {}
      BY <1>d, <1>2, <2>1 DEF PayCheck, LinksOf, payVars
    <3>3. QED
      BY <1>d, <1>q, <1>2, <3>1, <3>2 DEF PayCheck, At, StillTrue, Exists, routeVars
  <2>2. CASE LinksOf(d) # {}
    BY <1>0, <1>d, <1>2, <2>2, EndsReadsNothing DEF PayCheck
  <2>3. QED
    BY <2>1, <2>2
<1>3. CASE \/ \E p \in Payments : PayCommit(r, p)
           \/ MarkPaidWrite(r) \/ PayStatusWrite(r) \/ PayRevertWrite(r)
  BY <1>0, <1>3, EndsReadsNothing DEF PayCommit, MarkPaidWrite,
     PayStatusWrite, PayRevertWrite
<1>4. QED
  BY <1>1, <1>2, <1>3 DEF PaymentStep

-----------------------------------------------------------------------------
(* The others' records stay true or are overtaken.                         *)

\* A step of one handler leaves the records of the others alone.
LEMMA OthersAsTheyWere ==
    ASSUME Records, NEW r \in Requests, Works(r) \/ RemoveOrderUnfinished(r) \/ Stops(r)
    PROVE  \A s \in Requests : s # r => req'[s] = req[s]
<1> SUFFICES \E f : req' = [req EXCEPT ![r] = f]
  BY DEF Records
<1>1. CASE DeliveryCall(r) \/ PaymentCall(r)
  BY <1>1 DEF DeliveryCall, PaymentCall, CreateRead, LiberarRead, RejeitarRead, RemoveRead,
     StatusRead, UpdateRead, UpdateReadNoOrders, RemoveOrderRead, PayCall, MarkPaidRead,
     PayStatusRead, PayRevertRead, Starts, Recalculates, Continues
<1>2. CASE DeliveryStep(r)
  BY <1>2 DEF DeliveryStep, CreateCommit, LiberarCommit, RejeitarCommit, StatusWrite,
     StatusCount, StatusFinalize, UpdateOrders, RecalcHold, RecalcWrite, RemoveCommit,
     UpdateReread, RemoveOrderWrite, Recalculates, Continues, Ends
<1>3. CASE PaymentStep(r)
  BY <1>3 DEF PaymentStep, PayRead, PayCheck, PayCommit, MarkPaidWrite, PayStatusWrite,
     PayRevertWrite, Continues, Ends
<1>4. CASE RemoveOrderUnfinished(r) \/ Stops(r)
  BY <1>4 DEF RemoveOrderUnfinished, Stops, DeliveryRefused, DeliveryGone, DriverUnknown,
     FreightRefused, PayGone, Die, Fails, Ends
<1>5. QED
  BY <1>1, <1>2, <1>3, <1>4 DEF Works

LEMMA SameRow ==
    ASSUME NEW d, ~RowChanges(d)
    PROVE  /\ deliveryStatus'[d] = deliveryStatus[d] /\ deliveryDriver'[d] = deliveryDriver[d]
           /\ charged'[d] = charged[d]
           /\ Exists(d)' = Exists(d) /\ Editable(d)' = Editable(d)
BY DEF RowChanges, Exists, Editable

LEMMA SameOrders ==
    ASSUME NEW d, ~OrdersChange(d)
    PROVE  /\ (OrdersOf(d))' = OrdersOf(d)
           /\ \A o \in OrdersOf(d) : orderStatus'[o] = orderStatus[o]
           /\ (Unfinished(d))' = Unfinished(d)
BY DEF OrdersChange, OrderChanges, OrdersOf, Unfinished

LEMMA NotOutdated ==
    ASSUME GInv, NEW s \in Requests, StillTrue(req[s]), req'[s] = req[s], ~Outdates(req[s])
    PROVE  StillTrue(req[s])'
<1> DEFINE q == req[s]
<1>0. /\ q.pc = "statusWrite" => q.o \in Orders
      /\ q.pc = "removeOrderWrite" => q.o \in Orders
  BY GInvParts DEF WellAimed
<1>1. q.pc \in {"createCommit", "liberarCommit", "rejeitarCommit", "statusWrite",
                "statusCount", "statusFinalize", "updateOrders", "updateReread",
                "removeOrderWrite", "recalcHold", "recalcWrite", "removeCommit",
                "payCheck", "payCommit"} => ~RowChanges(q.d)
  BY DEF Outdates
<1>2. q.pc \in {"statusFinalize", "updateOrders", "removeOrderWrite", "recalcHold",
                "recalcWrite", "removeCommit"} => ~OrdersChange(q.d)
  BY DEF Outdates
<1>3. q.pc = "payCommit" => ~LinksChange(q.d)
  BY DEF Outdates
<1>4. q.pc = "statusWrite" => ~OrderChanges(q.o)
  BY DEF Outdates
<1>5. \A p \in q.pays : payStatus'[p] = payStatus[p]
  BY DEF Outdates
<1> HIDE DEF q
<1>q. StillTrue(q) /\ req'[s] = q
  BY DEF q
<1>6. CASE q.pc \in {"createCommit", "liberarCommit", "rejeitarCommit", "statusCount",
                     "updateReread"}
  BY <1>q, <1>1, <1>6, SameRow DEF StillTrue
<1>7. CASE q.pc = "statusWrite"
  BY <1>q, <1>1, <1>4, <1>7, SameRow DEF StillTrue, OrderChanges
<1>8. CASE q.pc \in {"statusFinalize", "updateOrders"}
  BY <1>q, <1>1, <1>2, <1>8, SameRow, SameOrders DEF StillTrue
<1>9. CASE q.pc = "removeOrderWrite"
  <2>1. orderDelivery'[q.o] = orderDelivery[q.o]
    BY <1>0, <1>q, <1>2, <1>9 DEF q, StillTrue, OrdersChange, OrderChanges
  <2>2. QED
    BY <1>q, <1>1, <1>2, <1>9, <2>1, SameRow, SameOrders DEF StillTrue
<1>10. CASE q.pc \in {"recalcHold", "recalcWrite", "removeCommit"}
  BY <1>q, <1>1, <1>2, <1>10, SameRow, SameOrders DEF StillTrue
<1>11. CASE q.pc \in {"payCheck", "payCommit"}
  BY <1>q, <1>1, <1>3, <1>11, SameRow DEF StillTrue, LinksChange, LinksOf
<1>12. CASE q.pc \in {"markPaidWrite", "payRevertWrite"}
  BY <1>q, <1>5, <1>12 DEF StillTrue
<1>13. CASE q.pc \notin {"createCommit", "liberarCommit", "rejeitarCommit", "statusWrite",
                         "statusCount", "statusFinalize", "updateOrders", "updateReread",
                         "removeOrderWrite", "recalcHold", "recalcWrite", "removeCommit",
                         "payCheck", "payCommit", "markPaidWrite", "payRevertWrite"}
  BY <1>q, <1>13 DEF StillTrue
<1>14. QED
  BY <1>6, <1>7, <1>8, <1>9, <1>10, <1>11, <1>12, <1>13

LEMMA ReadsHoldStep ==
    ASSUME GInv, [Next]_systemVars
    PROVE  ReadsHold'
<1>1. CASE UNCHANGED systemVars
  BY <1>1 DEF GInv, ReadsHold, StillTrue, Exists, Editable, OrdersOf, Unfinished, LinksOf,
     systemVars, vars, routeVars, payVars, histories
<1>2. CASE Next
  <2> SUFFICES ASSUME NEW s \in Requests, s \notin overtaken'
               PROVE  StillTrue(req[s])'
    BY DEF ReadsHold
  <2>1. PICK r \in Requests : /\ Works(r) \/ RemoveOrderUnfinished(r) \/ Stops(r)
                              /\ Overtakes(r)
    BY <1>2 DEF Next, Handles
  <2>2. CASE req'[s].pc = "idle"
    BY <2>2, NothingRead
  <2>3. CASE s # r /\ req'[s].pc # "idle"
    <3>1. req'[s] = req[s]
      BY <2>1, <2>3, GInvParts, OthersAsTheyWere
    <3>2. s \notin overtaken /\ ~Outdates(req[s])
      BY <2>1, <2>3 DEF Overtakes
    <3>3. QED
      BY <3>1, <3>2, GInvParts, NotOutdated
  <2>4. CASE s = r /\ req'[s].pc # "idle"
    <3>1. r \notin overtaken \/ At(r, "payRead")
      BY <2>1, <2>4 DEF Overtakes
    <3>2. CASE DeliveryCall(r) \/ PaymentCall(r)
      BY <2>4, <3>2, ReadsCall
    <3>3. CASE PaymentStep(r)
      BY <2>4, <3>1, <3>3, ReadsPaying
    <3>4. CASE DeliveryStep(r)
      <4>1. ~At(r, "payRead")
        BY <3>4 DEF DeliveryStep, CreateCommit, LiberarCommit, RejeitarCommit, StatusWrite,
           StatusCount, StatusFinalize, UpdateOrders, RecalcHold, RecalcWrite, RemoveCommit,
           UpdateReread, RemoveOrderWrite, FreesItsOrder, At
      <4>2. QED
        BY <2>4, <3>1, <3>4, <4>1, ReadsStep
    <3>5. CASE RemoveOrderUnfinished(r) \/ Stops(r)
      BY <2>4, <3>5, GInvParts, EndsReadsNothing DEF RemoveOrderUnfinished, Stops,
         DeliveryRefused, DeliveryGone, DriverUnknown, FreightRefused, PayGone, Die, Fails
    <3>6. QED
      BY <2>1, <3>2, <3>3, <3>4, <3>5 DEF Works
  <2>5. QED
    BY <2>2, <2>3, <2>4
<1>3. QED
  BY <1>1, <1>2

LEMMA UnbookedStep ==
    ASSUME GInv, [Next]_systemVars
    PROVE  UnbookedIsUnlinked'
<1>0. Tables /\ Records /\ UnbookedIsUnlinked
  BY GInvParts
<1>1. CASE UNCHANGED <<routeVars, payVars>>
  BY <1>0, <1>1 DEF UnbookedIsUnlinked, payVars
<1>2. ASSUME NEW r \in Requests, Writes(r)
      PROVE  UnbookedIsUnlinked'
  <2>q. WellAimed(req[r])
    BY GInvParts
  <2>1. CASE RemoveCommit(r)
    BY <1>0, <2>1 DEF RemoveCommit, Tables, UnbookedIsUnlinked
  <2>2. ASSUME NEW new \in Payments, PayCommit(r, new)
        PROVE  UnbookedIsUnlinked'
    BY <1>0, <2>2 DEF PayCommit, Tables, UnbookedIsUnlinked
  <2>3. CASE MarkPaidWrite(r) \/ PayStatusWrite(r) \/ PayRevertWrite(r)
    BY <1>0, <2>q, <2>3 DEF MarkPaidWrite, PayStatusWrite, PayRevertWrite, At, WellAimed,
       PaymentStatus, UnbookedIsUnlinked
  <2>4. CASE \/ CreateCommit(r) \/ LiberarCommit(r) \/ RejeitarCommit(r) \/ StatusWrite(r)
             \/ StatusFinalize(r) \/ UpdateOrders(r) \/ RecalcHold(r) \/ RecalcWrite(r)
             \/ FreesItsOrder(r)
    BY <1>0, <2>4 DEF payVars, CreateCommit, LiberarCommit, RejeitarCommit, StatusWrite,
       StatusFinalize, UpdateOrders, RecalcHold, RecalcWrite, FreesItsOrder,
       UnbookedIsUnlinked
  <2>5. QED
    BY <1>2, <2>1, <2>2, <2>3, <2>4 DEF Writes
<1>3. QED
  BY <1>1, <1>2, OnlyWritesWrite

LEMMA GInvInit == Init /\ HistoriesInit => GInv
<1>1. Init => IInv /\ NothingHangs /\ UnbookedIsUnlinked
  BY IInvInit DEF Init, NothingHangs, UnbookedIsUnlinked
<1>2. Init => ReadsHold
  BY DEF Init, ReadsHold, StillTrue, Idle
<1>3. QED
  BY <1>1, <1>2 DEF GInv

LEMMA GInvStep == GInv /\ [Next]_systemVars => GInv'
BY IInvStep, NothingHangsStep, UnbookedStep, ReadsHoldStep DEF GInv

LEMMA GInvariance == Spec => []GInv
BY GInvInit, GInvStep, PTL DEF Spec

-----------------------------------------------------------------------------
(* What a step can be.                                                     *)

EditingAt == {"updateReread", "recalcHold", "recalcWrite"}
PayingAt == {"payRead", "payCheck", "payCommit"}

NoPaymentByHand == "createPayment" \notin Endpoints

\* A handler that has begun to write, and has yet to hold the delivery it held
\* the orders of; to bring the totals up to date; to book the payment.
Holding(d) ==
    \E r \in Requests : r \in begun /\ At(r, "recalcWrite") /\ req[r].d = d /\ req[r].hold
Editing(d) ==
    \E r \in Requests : r \in begun /\ req[r].pc \in EditingAt /\ req[r].d = d
BeingPaid(d) ==
    \E r \in Requests : r \in begun /\ req[r].pc \in PayingAt /\ req[r].d = d

\* An edition was overtaken, and has yet to be refused or to write in a race.
Doubtful(d) ==
    \E r \in Requests : /\ r \in begun /\ r \in overtaken
                        /\ req[r].pc \in EditingAt /\ req[r].d = d

\* Every step of r.
OneStep(r) ==
    /\ \A s \in Requests : s # r => req'[s] = req[s]
    /\ Overtakes(r) /\ Begins(r)
    /\ raced \subseteq raced' /\ abandoned \subseteq abandoned'

\* A step that only reads, or a call.
Looks(r) ==
    /\ UNCHANGED <<routeVars, payVars>> /\ raced' = raced
    /\ req[r].pc \in Reading
    /\ At(r, "updateReread") => /\ req'[r].pc \in {"recalcHold", "recalcWrite"}
                                /\ req'[r].d = req[r].d
    /\ req[r].pc \in {"payRead", "payCheck"} =>
          \/ req'[r].pc \in {"payCheck", "payCommit"} /\ req'[r].d = req[r].d
          \/ req'[r].pc = "idle" /\ LinksOf(req[r].d) # {}
    /\ NoPaymentByHand /\ req'[r].pc \in PayingAt =>
          req[r].pc \in {"payRead", "payCheck"} /\ req'[r].d = req[r].d

\* A refusal or a death.
GivesUp(r) ==
    /\ UNCHANGED <<routeVars, payVars>> /\ raced' = raced
    /\ req'[r].pc = "idle"
    /\ r \in begun /\ req[r].d \in Deliveries => req[r].d \in abandoned'

\* Where the handlers that go on after a write are then.
Leaves(r) ==
    /\ StatusFinalize(r) => req'[r].pc = "payRead" /\ req'[r].d = req[r].d
    /\ UpdateOrders(r) => req'[r].pc = "updateReread" /\ req'[r].d = req[r].d
    /\ RecalcHold(r) => /\ req'[r].pc = "recalcWrite" /\ req'[r].d = req[r].d
                        /\ req'[r].hold = req[r].hold
    /\ req'[r].pc \in PayingAt => StatusFinalize(r)

\* A write in a race, and one that is not.
Blind(r) ==
    /\ Writes(r) /\ Leaves(r)
    /\ req[r].pays \subseteq raced'
    /\ \A d \in Deliveries : d \notin raced' => d # req[r].d /\ ~OrdersChange(d)

Clean(r) ==
    /\ Writes(r) /\ Leaves(r)
    /\ r \notin overtaken /\ StillTrue(req[r]) /\ raced' = raced

LEMMA EndsIdle ==
    ASSUME Records, NEW r \in Requests, Ends(r)
    PROVE  req'[r].pc = "idle"
BY DEF Ends, Records, Idle

LEMMA CallsLook ==
    ASSUME Records, NEW r \in Requests, DeliveryCall(r) \/ PaymentCall(r)
    PROVE  /\ UNCHANGED <<routeVars, payVars>> /\ At(r, "idle")
           /\ NoPaymentByHand => req'[r].pc \notin PayingAt
<1>1. UNCHANGED <<routeVars, payVars>> /\ At(r, "idle")
  <2>1. CASE DeliveryCall(r)
    BY <2>1 DEF DeliveryCall, CreateRead, LiberarRead, RejeitarRead, RemoveRead,
       StatusRead, UpdateRead, UpdateReadNoOrders, RemoveOrderRead, Starts
  <2>2. CASE PaymentCall(r)
    BY <2>2 DEF PaymentCall, PayCall, MarkPaidRead, PayStatusRead, PayRevertRead, Starts
  <2>3. QED
    BY <2>1, <2>2
<1>2. ASSUME NoPaymentByHand
      PROVE  req'[r].pc \notin PayingAt
  <2>1. ASSUME NEW d \in Deliveries, NEW driver, NEW hold \in BOOLEAN,
               UpdateReadNoOrders(r, d, driver, hold)
        PROVE  req'[r].pc \notin PayingAt
    BY <2>1 DEF UpdateReadNoOrders, Recalculates, Continues, Records, Idle, PayingAt
  <2>2. ASSUME NEW d, NEW o, LiberarRead(r, d) \/ RejeitarRead(r, d) \/ RemoveRead(r, d)
                             \/ RemoveOrderRead(r, d, o)
        PROVE  req'[r].pc \notin PayingAt
    BY <2>2 DEF LiberarRead, RejeitarRead, RemoveRead, RemoveOrderRead, Starts, Records,
       Idle, PayingAt
  <2>3. ASSUME NEW d, NEW refs, NEW driver, NEW hold,
               CreateRead(r, d, refs, driver, hold) \/ UpdateRead(r, d, refs, driver)
        PROVE  req'[r].pc \notin PayingAt
    BY <2>3 DEF CreateRead, UpdateRead, Starts, Records, Idle, PayingAt
  <2>4. ASSUME NEW driver, NEW o, NEW to, StatusRead(r, driver, o, to)
        PROVE  req'[r].pc \notin PayingAt
    BY <2>4 DEF StatusRead, Starts, Records, Idle, PayingAt
  <2>5. ASSUME NEW p, NEW pays, NEW to,
               MarkPaidRead(r, pays) \/ PayStatusRead(r, p, to) \/ PayRevertRead(r, p)
        PROVE  req'[r].pc \notin PayingAt
    BY <2>5 DEF MarkPaidRead, PayStatusRead, PayRevertRead, Starts, Records, Idle, PayingAt
  <2>6. ~ \E d \in Deliveries : PayCall(r, d)
    BY <1>2 DEF PayCall, Starts, NoPaymentByHand
  <2>7. QED
    BY <2>1, <2>2, <2>3, <2>4, <2>5, <2>6 DEF DeliveryCall, PaymentCall
<1>3. QED
  BY <1>1, <1>2

\* The steps of a handler that was called: it reads on, or it writes.
LEMMA StepsLookOrWrite ==
    ASSUME Records, NEW r \in Requests, DeliveryStep(r) \/ PaymentStep(r)
    PROVE  \/ Writes(r) /\ req[r].pc \notin Reading /\ Leaves(r)
           \/ req[r].pc \in Reading /\ (raced' = raced => Looks(r))
<1>q. req[r] \in Request
  BY RecordOf
<1>1. CASE \/ CreateCommit(r) \/ LiberarCommit(r) \/ RejeitarCommit(r) \/ RecalcWrite(r)
           \/ RemoveCommit(r) \/ \E p \in Payments : PayCommit(r, p)
           \/ MarkPaidWrite(r) \/ PayStatusWrite(r) \/ PayRevertWrite(r)
  <2>1. Ends(r) /\ Writes(r)
    BY <1>1 DEF CreateCommit, LiberarCommit, RejeitarCommit, RecalcWrite, RemoveCommit,
       PayCommit, MarkPaidWrite, PayStatusWrite, PayRevertWrite, Writes
  <2>2. req[r].pc \in {"createCommit", "liberarCommit", "rejeitarCommit", "recalcWrite",
                       "removeCommit", "payCommit", "markPaidWrite", "payStatusWrite",
                       "payRevertWrite"}
    BY <1>1 DEF CreateCommit, LiberarCommit, RejeitarCommit, RecalcWrite, RemoveCommit,
       PayCommit, MarkPaidWrite, PayStatusWrite, PayRevertWrite, At
  <2>3. req'[r].pc = "idle"
    BY <2>1, EndsIdle
  <2>4. Leaves(r)
    BY <2>2, <2>3 DEF Leaves, StatusFinalize, UpdateOrders, RecalcHold, At, PayingAt
  <2>5. QED
    BY <2>1, <2>2, <2>4 DEF Reading
<1>2. CASE StatusWrite(r)
  <2>1. req'[r].pc = "statusCount" /\ At(r, "statusWrite")
    BY <1>2 DEF StatusWrite, Continues, Records, Idle
  <2>2. QED
    BY <1>2, <2>1 DEF Writes, Reading, Leaves, StatusFinalize, UpdateOrders, RecalcHold, At,
       PayingAt
<1>3. CASE StatusFinalize(r)
  <2>1. /\ req'[r].pc = "payRead" /\ req'[r].d = req[r].d /\ At(r, "statusFinalize")
    BY <1>3 DEF StatusFinalize, Continues, Records, Idle
  <2>2. QED
    BY <1>3, <2>1 DEF Writes, Reading, Leaves, UpdateOrders, RecalcHold, At
<1>4. CASE UpdateOrders(r)
  <2>1. /\ req'[r].pc = "updateReread" /\ req'[r].d = req[r].d /\ At(r, "updateOrders")
    BY <1>q, <1>4 DEF UpdateOrders, Continues, Records, Request
  <2>2. QED
    BY <1>4, <2>1 DEF Writes, Reading, Leaves, StatusFinalize, RecalcHold, At, PayingAt
<1>5. CASE RecalcHold(r)
  <2>1. /\ req'[r].pc = "recalcWrite" /\ req'[r].d = req[r].d
        /\ req'[r].hold = req[r].hold /\ At(r, "recalcHold")
    BY <1>q, <1>5 DEF RecalcHold, Continues, Records, Request
  <2>2. QED
    BY <1>5, <2>1 DEF Writes, Reading, Leaves, StatusFinalize, UpdateOrders, At, PayingAt
<1>6. ASSUME NEW needsApproval \in BOOLEAN, RemoveOrderWrite(r, needsApproval)
      PROVE  Writes(r) /\ req[r].pc \notin Reading /\ Leaves(r)
  <2>1. /\ req'[r].pc \in {"recalcHold", "recalcWrite"} /\ At(r, "removeOrderWrite")
    BY <1>6 DEF RemoveOrderWrite, FreesItsOrder, Recalculates, Continues, Records, Idle
  <2>2. QED
    BY <1>6, <2>1 DEF RemoveOrderWrite, Writes, Reading, Leaves, StatusFinalize,
       UpdateOrders, RecalcHold, At, PayingAt
<1>7. ASSUME NEW needsApproval \in BOOLEAN, UpdateReread(r, needsApproval)
      PROVE  req[r].pc \in Reading /\ (raced' = raced => Looks(r))
  <2>1. /\ req'[r].pc \in {"recalcHold", "recalcWrite"} /\ req'[r].d = req[r].d
        /\ At(r, "updateReread")
    BY <1>7 DEF UpdateReread, Recalculates, Continues, Records, Idle
  <2>2. QED
    BY <1>7, <2>1 DEF UpdateReread, Looks, Reading, At, PayingAt
<1>8. ASSUME StatusCount(r)
      PROVE  req[r].pc \in Reading /\ (raced' = raced => Looks(r))
  <2>1. req'[r].pc \in {"statusFinalize", "idle"} /\ At(r, "statusCount")
    <3>1. CASE Unfinished(req[r].d) = {}
      BY <1>8, <3>1 DEF StatusCount, Continues, Records, Idle
    <3>2. CASE Unfinished(req[r].d) # {}
      BY <1>8, <3>2, EndsIdle DEF StatusCount
    <3>3. QED
      BY <3>1, <3>2
  <2>2. QED
    BY <1>8, <2>1 DEF StatusCount, Looks, Reading, At, PayingAt
<1>9. ASSUME PayRead(r)
      PROVE  req[r].pc \in Reading /\ (raced' = raced => Looks(r))
  <2>1. req'[r].pc = "payCheck" /\ req'[r].d = req[r].d /\ At(r, "payRead")
    BY <1>q, <1>9 DEF PayRead, Continues, Records, Request
  <2>2. QED
    BY <1>9, <2>1 DEF PayRead, Looks, Reading, At, PayingAt
<1>10. ASSUME PayCheck(r)
       PROVE  req[r].pc \in Reading /\ (raced' = raced => Looks(r))
  <2>1. /\ At(r, "payCheck")
        /\ \/ req'[r].pc = "payCommit" /\ req'[r].d = req[r].d
           \/ req'[r].pc = "idle" /\ LinksOf(req[r].d) # {}
    <3>1. CASE LinksOf(req[r].d) = {}
      BY <1>q, <1>10, <3>1 DEF PayCheck, Continues, Records, Request
    <3>2. CASE LinksOf(req[r].d) # {}
      BY <1>10, <3>2, EndsIdle DEF PayCheck
    <3>3. QED
      BY <3>1, <3>2
  <2>2. QED
    BY <1>10, <2>1 DEF PayCheck, Looks, Reading, At, PayingAt
<1>11. QED
  BY <1>1, <1>2, <1>3, <1>4, <1>5, <1>6, <1>7, <1>8, <1>9, <1>10 DEF DeliveryStep, PaymentStep

LEMMA StepKinds ==
    ASSUME GInv, Next
    PROVE  \E r \in Requests : /\ OneStep(r)
                               /\ Looks(r) \/ GivesUp(r) \/ Blind(r) \/ Clean(r)
<1>0. Records
  BY GInvParts
<1>1. PICK r \in Requests :
         /\ \/ Works(r) /\ Races(r) /\ UNCHANGED abandoned
            \/ RemoveOrderUnfinished(r) /\ Races(r) /\ Abandons(r)
            \/ Stops(r) /\ Abandons(r) /\ UNCHANGED raced
         /\ Overtakes(r) /\ Begins(r)
  BY DEF Next, Handles
<1>2. OneStep(r)
  <2>1. \A s \in Requests : s # r => req'[s] = req[s]
    BY <1>0, <1>1, OthersAsTheyWere
  <2>2. raced \subseteq raced' /\ abandoned \subseteq abandoned'
    BY <1>1 DEF Races, Abandons
  <2>3. QED
    BY <1>1, <2>1, <2>2 DEF OneStep
\* A write, by whether the handler was overtaken.
<1>3. ASSUME Writes(r), req[r].pc \notin Reading, Leaves(r), Races(r)
      PROVE  Blind(r) \/ Clean(r)
  <2>1. CASE r \notin overtaken
    BY <1>3, <2>1, GInvParts DEF Races, Clean
  <2>2. CASE r \in overtaken
    BY <1>3, <2>2 DEF Races, Blind
  <2>3. QED
    BY <2>1, <2>2
<1>4. req[r].pc \in Reading => (Races(r) => raced' = raced)
  BY DEF Races
<1>5. CASE Works(r) /\ Races(r)
  <2>1. CASE DeliveryCall(r) \/ PaymentCall(r)
    <3>1. /\ UNCHANGED <<routeVars, payVars>> /\ req[r].pc = "idle"
          /\ NoPaymentByHand => req'[r].pc \notin PayingAt
      BY <1>0, <2>1, CallsLook DEF At
    <3>2. Looks(r)
      BY <1>4, <1>5, <3>1 DEF Looks, Reading, At
    <3>3. QED
      BY <1>2, <3>2
  <2>2. CASE DeliveryStep(r) \/ PaymentStep(r)
    <3>1. CASE Writes(r) /\ req[r].pc \notin Reading /\ Leaves(r)
      BY <1>2, <1>3, <1>5, <3>1
    <3>2. CASE req[r].pc \in Reading /\ (raced' = raced => Looks(r))
      BY <1>2, <1>4, <1>5, <3>2
    <3>3. QED
      BY <1>0, <2>2, <3>1, <3>2, StepsLookOrWrite
  <2>3. QED
    BY <1>5, <2>1, <2>2 DEF Works
<1>6. CASE RemoveOrderUnfinished(r) /\ Races(r)
  <2>1. req'[r].pc = "idle" /\ At(r, "removeOrderWrite") /\ Writes(r)
    BY <1>0, <1>6, EndsIdle DEF RemoveOrderUnfinished, FreesItsOrder, Writes
  <2>2. Leaves(r) /\ req[r].pc \notin Reading
    BY <2>1 DEF Leaves, StatusFinalize, UpdateOrders, RecalcHold, At, PayingAt, Reading
  <2>3. QED
    BY <1>2, <1>3, <1>6, <2>1, <2>2
<1>7. CASE Stops(r) /\ Abandons(r) /\ UNCHANGED raced
  <2>1. Fails(r)
    BY <1>7 DEF Stops, DeliveryRefused, DeliveryGone, DriverUnknown, FreightRefused, PayGone,
       Die, Fails
  <2>2. req'[r].pc = "idle" /\ UNCHANGED <<routeVars, payVars>>
    BY <1>0, <2>1, EndsIdle DEF Fails
  <2>3. r \in begun /\ req[r].d \in Deliveries => req[r].d \in abandoned'
    BY <1>7 DEF Abandons
  <2>4. QED
    BY <1>2, <1>7, <2>2, <2>3 DEF GivesUp
<1>8. QED
  BY <1>1, <1>5, <1>6, <1>7

-----------------------------------------------------------------------------
(* Which deliveries a step spares.                                         *)

\* The handlers that r is not one of go on, and those that go by what r has
\* changed are overtaken.
LEMMA OthersGoOn ==
    ASSUME NEW r \in Requests, OneStep(r), NEW s \in Requests, s # r, req[s].pc # "idle"
    PROVE  /\ req'[s] = req[s]
           /\ s \in begun => s \in begun'
           /\ s \in overtaken \/ Outdates(req[s]) => s \in overtaken'
BY DEF OneStep, Overtakes, Begins

LEMMA GoesOn ==
    ASSUME NEW r \in Requests, OneStep(r), NEW d \in Deliveries
    PROVE  /\ Holding(d) => \/ Holding(d)'
                            \/ /\ r \in begun /\ At(r, "recalcWrite")
                               /\ req[r].d = d /\ req[r].hold
           /\ Editing(d) => \/ Editing(d)'
                            \/ r \in begun /\ req[r].pc \in EditingAt /\ req[r].d = d
           /\ BeingPaid(d) => \/ BeingPaid(d)'
                              \/ r \in begun /\ req[r].pc \in PayingAt /\ req[r].d = d
           /\ Doubtful(d) => \/ Doubtful(d)'
                             \/ /\ r \in begun /\ r \in overtaken
                                /\ req[r].pc \in EditingAt /\ req[r].d = d
<1>1. ASSUME Holding(d)
      PROVE  \/ Holding(d)'
             \/ r \in begun /\ At(r, "recalcWrite") /\ req[r].d = d /\ req[r].hold
  BY <1>1, OthersGoOn DEF Holding, At
<1>2. ASSUME Editing(d)
      PROVE  \/ Editing(d)'
             \/ r \in begun /\ req[r].pc \in EditingAt /\ req[r].d = d
  BY <1>2, OthersGoOn DEF Editing, EditingAt
<1>3. ASSUME BeingPaid(d)
      PROVE  \/ BeingPaid(d)'
             \/ r \in begun /\ req[r].pc \in PayingAt /\ req[r].d = d
  BY <1>3, OthersGoOn DEF BeingPaid, PayingAt
<1>4. ASSUME Doubtful(d)
      PROVE  \/ Doubtful(d)'
             \/ /\ r \in begun /\ r \in overtaken
                /\ req[r].pc \in EditingAt /\ req[r].d = d
  BY <1>4, OthersGoOn DEF Doubtful, EditingAt
<1>5. QED
  BY <1>1, <1>2, <1>3, <1>4

\* Whoever was at work on the delivery still is, or has left it abandoned.
StillAtWork(d) ==
    d \notin abandoned' =>
        /\ Holding(d) => Holding(d)'
        /\ Editing(d) => Editing(d)'
        /\ Doubtful(d) => Doubtful(d)'
        /\ BeingPaid(d) => BeingPaid(d)' \/ LinksOf(d) # {}

\* A delivery that nothing is written to, except that others may take its orders.
Spared(d) ==
    /\ deliveryStatus'[d] = deliveryStatus[d] /\ deliveryDriver'[d] = deliveryDriver[d]
    /\ charged'[d] = charged[d] /\ approvals'[d] = approvals[d]
    /\ \A p \in Payments : payFor'[p] = d <=> payFor[p] = d
    /\ \A o \in Orders : orderDelivery'[o] = d =>
          orderDelivery[o] = d /\ orderStatus'[o] = orderStatus[o]
    /\ StillAtWork(d)

\* A step of r that writes to d, not in a race.
OnAccountsOnly(r) == MarkPaidWrite(r) \/ PayStatusWrite(r) \/ PayRevertWrite(r)

Written(r, d) ==
    /\ OneStep(r) /\ Clean(r) /\ req[r].d = d
    /\ ~ OnAccountsOnly(r)

LEMMA UntouchedIsSpared ==
    ASSUME UNCHANGED <<routeVars, payVars>>, NEW d \in Deliveries, StillAtWork(d)
    PROVE  Spared(d)
BY DEF Spared, routeVars, payVars

\* What a handler writes besides orders is in the rows of its delivery.
LEMMA WritesAreLocal ==
    ASSUME GInv, NEW r \in Requests, Writes(r), NEW d \in Deliveries,
           d # req[r].d \/ OnAccountsOnly(r)
    PROVE  /\ deliveryStatus'[d] = deliveryStatus[d] /\ deliveryDriver'[d] = deliveryDriver[d]
           /\ charged'[d] = charged[d] /\ approvals'[d] = approvals[d]
           /\ \A p \in Payments : payFor'[p] = d <=> payFor[p] = d
<1>0. Tables /\ UnbookedIsUnlinked
  BY GInvParts
<1>1. CASE d # req[r].d /\ (CreateCommit(r) \/ LiberarCommit(r) \/ RejeitarCommit(r)
                            \/ StatusFinalize(r) \/ RecalcWrite(r))
  BY <1>0, <1>1 DEF CreateCommit, LiberarCommit, RejeitarCommit, StatusFinalize, RecalcWrite,
     Tables, payVars
<1>2. CASE StatusWrite(r) \/ UpdateOrders(r) \/ FreesItsOrder(r) \/ RecalcHold(r)
  BY <1>2 DEF StatusWrite, UpdateOrders, FreesItsOrder, RecalcHold, payVars
<1>3. CASE d # req[r].d /\ RemoveCommit(r)
  BY <1>0, <1>3, NoneIsNoId DEF RemoveCommit, Tables
<1>4. ASSUME NEW new \in Payments, d # req[r].d, PayCommit(r, new)
      PROVE  /\ deliveryStatus'[d] = deliveryStatus[d] /\ deliveryDriver'[d] = deliveryDriver[d]
             /\ charged'[d] = charged[d] /\ approvals'[d] = approvals[d]
             /\ \A p \in Payments : payFor'[p] = d <=> payFor[p] = d
  BY <1>0, <1>4, NoneIsNoId DEF PayCommit, Tables, UnbookedIsUnlinked, routeVars
<1>5. CASE OnAccountsOnly(r)
  BY <1>5 DEF OnAccountsOnly, MarkPaidWrite, PayStatusWrite, PayRevertWrite, routeVars
<1>6. QED
  BY <1>1, <1>2, <1>3, <1>4, <1>5 DEF Writes, OnAccountsOnly

\* And the orders it writes come off their deliveries or go to its own, where
\* the handler goes by what is so.
LEMMA OrdersAreLocal ==
    ASSUME GInv, NEW r \in Requests, Writes(r), StillTrue(req[r]), NEW d \in Deliveries,
           d # req[r].d \/ OnAccountsOnly(r)
    PROVE  \A o \in Orders : orderDelivery'[o] = d =>
              orderDelivery[o] = d /\ orderStatus'[o] = orderStatus[o]
<1>0. Tables /\ WellAimed(req[r])
  BY GInvParts
<1>1. CASE d # req[r].d /\ CreateCommit(r)
  BY <1>1 DEF CreateCommit
<1>2. CASE d # req[r].d /\ (LiberarCommit(r) \/ RejeitarCommit(r) \/ RecalcHold(r)
                            \/ RemoveCommit(r))
  BY <1>2, NoneIsNoId DEF LiberarCommit, RejeitarCommit, RecalcHold, RemoveCommit, OrdersOf
<1>3. CASE d # req[r].d /\ StatusWrite(r)
  BY <1>0, <1>3 DEF StatusWrite, StillTrue, At, Tables, WellAimed
<1>4. CASE d # req[r].d /\ UpdateOrders(r)
  BY <1>4, NoneIsNoId DEF UpdateOrders
<1>5. CASE d # req[r].d /\ FreesItsOrder(r)
  BY <1>0, <1>5, NoneIsNoId DEF FreesItsOrder, Tables
<1>6. CASE \/ StatusFinalize(r) \/ RecalcWrite(r)
           \/ \E p \in Payments : PayCommit(r, p)
           \/ OnAccountsOnly(r)
  BY <1>6 DEF StatusFinalize, RecalcWrite, PayCommit, OnAccountsOnly, MarkPaidWrite,
     PayStatusWrite, PayRevertWrite, routeVars
<1>7. QED
  BY <1>1, <1>2, <1>3, <1>4, <1>5, <1>6 DEF Writes, OnAccountsOnly

LEMMA SparedOrWritten ==
    ASSUME GInv, [Next]_systemVars, NEW d \in Deliveries, d \notin raced'
    PROVE  /\ d \notin raced /\ abandoned \subseteq abandoned'
           /\ Spared(d) \/ \E r \in Requests : Written(r, d)
<1>1. CASE UNCHANGED systemVars
  <2>1. UNCHANGED <<routeVars, payVars, req>> /\ UNCHANGED histories
    BY <1>1 DEF systemVars, vars
  <2>2. StillAtWork(d)
    BY <2>1 DEF StillAtWork, Holding, Editing, Doubtful, BeingPaid, At, histories
  <2>3. QED
    BY <2>1, <2>2, UntouchedIsSpared DEF histories
<1>2. CASE Next
  <2>1. PICK r \in Requests : /\ OneStep(r)
                              /\ Looks(r) \/ GivesUp(r) \/ Blind(r) \/ Clean(r)
    BY <1>2, StepKinds
  <2>2. d \notin raced /\ abandoned \subseteq abandoned'
    BY <2>1 DEF OneStep
  <2>3. req[r].d # d => StillAtWork(d)
    BY <2>1, GoesOn DEF StillAtWork
  <2>4. CASE Looks(r)
    <3>1. req[r].pc \in Reading /\ UNCHANGED <<routeVars, payVars>>
      BY <2>4 DEF Looks
    <3>2. Holding(d) => Holding(d)'
      BY <2>1, <3>1, GoesOn DEF At, Reading
    <3>3. ASSUME r \in begun, req[r].pc \in EditingAt, req[r].d = d
          PROVE  /\ r \in begun' /\ req'[r].pc \in EditingAt /\ req'[r].d = d
                 /\ r \in overtaken => r \in overtaken'
      <4>1. At(r, "updateReread")
        BY <3>1, <3>3 DEF EditingAt, Reading, At
      <4>2. req'[r].pc \in {"recalcHold", "recalcWrite"} /\ req'[r].d = req[r].d
        BY <2>4, <4>1 DEF Looks
      <4>3. QED
        BY <2>1, <3>3, <4>1, <4>2 DEF OneStep, Begins, Overtakes, EditingAt, At
    <3>4. Editing(d) => Editing(d)'
      BY <2>1, <3>3, GoesOn DEF Editing
    <3>5. Doubtful(d) => Doubtful(d)'
      BY <2>1, <3>3, GoesOn DEF Doubtful
    <3>6. BeingPaid(d) => BeingPaid(d)' \/ LinksOf(d) # {}
      <4>1. ASSUME r \in begun, req[r].pc \in PayingAt, req[r].d = d
            PROVE  BeingPaid(d)' \/ LinksOf(d) # {}
        <5>1. req[r].pc \in {"payRead", "payCheck"}
          BY <3>1, <4>1 DEF PayingAt, Reading
        <5>2. CASE req'[r].pc = "idle" /\ LinksOf(req[r].d) # {}
          BY <4>1, <5>2
        <5>3. CASE req'[r].pc \in {"payCheck", "payCommit"} /\ req'[r].d = req[r].d
          <6>1. r \in begun'
            BY <2>1, <4>1, <5>3 DEF OneStep, Begins
          <6>2. QED
            BY <4>1, <5>3, <6>1 DEF BeingPaid, PayingAt
        <5>4. QED
          BY <2>4, <5>1, <5>2, <5>3 DEF Looks
      <4>2. QED
        BY <2>1, <4>1, GoesOn
    <3>7. QED
      BY <2>2, <3>1, <3>2, <3>4, <3>5, <3>6, UntouchedIsSpared DEF StillAtWork
  <2>5. CASE GivesUp(r)
    <3>1. StillAtWork(d)
      BY <2>1, <2>5, GoesOn DEF StillAtWork, GivesUp
    <3>2. QED
      BY <2>2, <2>5, <3>1, UntouchedIsSpared DEF GivesUp
  <2>6. CASE Blind(r)
    <3>1. Writes(r) /\ d # req[r].d /\ ~OrdersChange(d)
      BY <2>6 DEF Blind
    <3>2. \A o \in Orders : orderDelivery'[o] = d =>
             orderDelivery[o] = d /\ orderStatus'[o] = orderStatus[o]
      BY <3>1 DEF OrdersChange, OrderChanges
    <3>3. QED
      BY <2>2, <2>3, <3>1, <3>2, WritesAreLocal DEF Spared
  <2>7. CASE Clean(r)
    <3>1. CASE d # req[r].d \/ OnAccountsOnly(r)
      <4>1. Writes(r) /\ StillTrue(req[r])
        BY <2>7 DEF Clean
      <4>2. OnAccountsOnly(r) =>
               req[r].pc \in {"markPaidWrite", "payStatusWrite", "payRevertWrite"}
        BY DEF OnAccountsOnly, MarkPaidWrite, PayStatusWrite, PayRevertWrite, At
      <4>3. StillAtWork(d)
        BY <2>1, <2>3, <3>1, <4>2, GoesOn DEF StillAtWork, EditingAt, PayingAt, At
      <4>4. QED
        BY <2>2, <3>1, <4>1, <4>3, WritesAreLocal, OrdersAreLocal DEF Spared
    <3>2. CASE ~(d # req[r].d \/ OnAccountsOnly(r))
      BY <2>1, <2>2, <2>7, <3>2 DEF Written
    <3>3. QED
      BY <3>1, <3>2
  <2>8. QED
    BY <2>1, <2>4, <2>5, <2>6, <2>7
<1>3. QED
  BY <1>1, <1>2

\* What r has read of d, and who else is at work there when r writes to it.
LEMMA WrittenParts ==
    ASSUME GInv, NEW r \in Requests, NEW d \in Deliveries, Written(r, d)
    PROVE  /\ Tables /\ NothingHangs /\ UnbookedIsUnlinked
           /\ req[r] \in Request /\ WellAimed(req[r]) /\ StillTrue(req[r]) /\ req[r].d = d
           /\ \/ CreateCommit(r) \/ LiberarCommit(r) \/ RejeitarCommit(r) \/ StatusWrite(r)
              \/ StatusFinalize(r) \/ UpdateOrders(r) \/ FreesItsOrder(r) \/ RecalcHold(r)
              \/ RecalcWrite(r) \/ RemoveCommit(r) \/ \E p \in Payments : PayCommit(r, p)
           /\ raced' = raced /\ abandoned \subseteq abandoned'
BY GInvParts DEF Written, Clean, Writes, OnAccountsOnly, OneStep

LEMMA WrittenAtWork ==
    ASSUME GInv, NEW r \in Requests, NEW d \in Deliveries, Written(r, d)
    PROVE  /\ Holding(d) => Holding(d)' \/ (RecalcWrite(r) /\ req[r].hold)
           /\ Editing(d) => Editing(d)' \/ RecalcWrite(r)
           /\ BeingPaid(d) => BeingPaid(d)' \/ \E p \in Payments : PayCommit(r, p)
           /\ Doubtful(d) => Doubtful(d)'
<1>0. OneStep(r) /\ Leaves(r) /\ r \notin overtaken /\ req[r].d = d
  BY DEF Written, Clean
<1>1. /\ At(r, "recalcWrite") => RecalcWrite(r)
      /\ req[r].pc \in EditingAt => RecalcHold(r) \/ RecalcWrite(r)
      /\ req[r].pc \in PayingAt => \E p \in Payments : PayCommit(r, p)
  BY WrittenParts DEF CreateCommit, LiberarCommit, RejeitarCommit, StatusWrite,
     StatusFinalize, UpdateOrders, FreesItsOrder, RecalcHold, RecalcWrite, RemoveCommit,
     PayCommit, At, EditingAt, PayingAt
<1>2. ASSUME RecalcHold(r), r \in begun
      PROVE  Editing(d)'
  <2>1. req'[r].pc = "recalcWrite" /\ req'[r].d = d
    BY <1>0, <1>2 DEF Leaves
  <2>2. r \in begun'
    BY <1>0, <1>2, <2>1 DEF OneStep, Begins
  <2>3. QED
    BY <2>1, <2>2 DEF Editing, EditingAt
<1>3. QED
  BY <1>0, <1>1, <1>2, GoesOn

\* Where a write changes a table and the handler goes on, it has begun.
LEMMA WrittenHasBegun ==
    ASSUME NEW r \in Requests, NEW d \in Deliveries, Written(r, d), req'[r].pc # "idle"
    PROVE  r \in begun' \/ UNCHANGED <<routeVars, payVars>>
BY DEF Written, OneStep, Begins

-----------------------------------------------------------------------------
(* What a handler may write, as actions: none of the three needs more than  *)
(* that what it goes by is so.                                             *)

LEMMA LifecycleStep ==
    ASSUME GInv, NEW r \in Requests, NEW d \in Deliveries, Written(r, d),
           deliveryStatus'[d] # deliveryStatus[d]
    PROVE  \/ deliveryStatus[d] = "absent" /\ deliveryStatus'[d] \in {"A_LIBERAR", "INICIADO"}
           \/ /\ deliveryStatus[d] = "A_LIBERAR"
              /\ deliveryStatus'[d] \in {"INICIADO", "REJEITADO", "deleted"}
           \/ /\ deliveryStatus[d] = "INICIADO"
              /\ deliveryStatus'[d] \in {"A_LIBERAR", "FINALIZADO"}
           \/ /\ Exists(d) /\ deliveryStatus'[d] = "deleted"
              /\ deliveryStatus[d] = "INICIADO" =>
                    \A o \in OrdersOf(d) : orderStatus[o] # "EM_ENTREGA"
<1>0. /\ Tables /\ StillTrue(req[r]) /\ req[r].d = d
      /\ \/ CreateCommit(r) \/ LiberarCommit(r) \/ RejeitarCommit(r) \/ StatusWrite(r)
         \/ StatusFinalize(r) \/ UpdateOrders(r) \/ FreesItsOrder(r) \/ RecalcHold(r)
         \/ RecalcWrite(r) \/ RemoveCommit(r) \/ \E p \in Payments : PayCommit(r, p)
  BY WrittenParts
<1>1. CASE CreateCommit(r)
  BY <1>0, <1>1 DEF CreateCommit, Tables, At, StillTrue
<1>2. CASE LiberarCommit(r) \/ RejeitarCommit(r)
  BY <1>0, <1>2 DEF LiberarCommit, RejeitarCommit, Tables, At, StillTrue
<1>3. CASE StatusFinalize(r)
  BY <1>0, <1>3 DEF StatusFinalize, Tables, At, StillTrue
<1>4. CASE RecalcWrite(r)
  BY <1>0, <1>4 DEF RecalcWrite, Tables, At, StillTrue
<1>5. CASE RemoveCommit(r)
  BY <1>0, <1>5 DEF RemoveCommit, Tables, At, StillTrue
<1>6. CASE \/ StatusWrite(r) \/ UpdateOrders(r) \/ FreesItsOrder(r) \/ RecalcHold(r)
           \/ \E p \in Payments : PayCommit(r, p)
  BY <1>6 DEF StatusWrite, UpdateOrders, FreesItsOrder, RecalcHold, PayCommit, routeVars
<1>7. QED
  BY <1>0, <1>1, <1>2, <1>3, <1>4, <1>5, <1>6

\* The life cycle of a delivery, unless in a race: nobody reopens what is closed,
\* decides on what does not wait for it or removes a route as a driver sets out.
THEOREM LifecycleHolds == Spec => LifecycleIsRespected
<1> DEFINE Respected(d) ==
        CASE deliveryStatus[d] = "absent" -> deliveryStatus'[d] \in {"A_LIBERAR", "INICIADO"}
          [] deliveryStatus[d] = "A_LIBERAR" ->
               deliveryStatus'[d] \in {"INICIADO", "REJEITADO", "deleted"}
          [] deliveryStatus[d] = "INICIADO" ->
               \/ deliveryStatus'[d] \in {"A_LIBERAR", "FINALIZADO"}
               \/ /\ deliveryStatus'[d] = "deleted"
                  /\ \A o \in OrdersOf(d) : orderStatus[o] # "EM_ENTREGA"
          [] OTHER -> deliveryStatus'[d] = "deleted"
<1>1. ASSUME GInv, [Next]_systemVars, NEW d \in Deliveries,
             deliveryStatus'[d] # deliveryStatus[d], d \notin raced'
      PROVE  Respected(d)
  <2>1. PICK r \in Requests : Written(r, d)
    BY <1>1, SparedOrWritten DEF Spared
  <2>2. \/ deliveryStatus[d] = "absent" /\ deliveryStatus'[d] \in {"A_LIBERAR", "INICIADO"}
        \/ /\ deliveryStatus[d] = "A_LIBERAR"
           /\ deliveryStatus'[d] \in {"INICIADO", "REJEITADO", "deleted"}
        \/ /\ deliveryStatus[d] = "INICIADO"
           /\ deliveryStatus'[d] \in {"A_LIBERAR", "FINALIZADO"}
        \/ /\ deliveryStatus[d] \in DeliveryStatus /\ deliveryStatus'[d] = "deleted"
           /\ deliveryStatus[d] = "INICIADO" =>
                 \A o \in OrdersOf(d) : orderStatus[o] # "EM_ENTREGA"
    BY <1>1, <2>1, LifecycleStep DEF Exists
  <2>3. QED
    BY <2>2 DEF DeliveryStatus
<1>2. GInv /\ [Next]_systemVars =>
        \A d \in Deliveries : (deliveryStatus'[d] # deliveryStatus[d] /\ d \notin raced')
            => Respected(d)
  BY <1>1
<1>3. QED
  BY <1>2, GInvariance, PTL DEF Spec, LifecycleIsRespected

\* No order is added to a delivery that is finalised, unless in a race.
THEOREM FinalisedStaysClosed == Spec => FinalisedIsClosed
<1>1. ASSUME GInv, [Next]_systemVars, NEW d \in Deliveries, deliveryStatus[d] = "FINALIZADO",
             deliveryStatus'[d] = "FINALIZADO", d \notin raced'
      PROVE  (OrdersOf(d))' \subseteq OrdersOf(d)
  <2>1. CASE Spared(d)
    BY <2>1 DEF Spared, OrdersOf
  <2>2. ASSUME NEW r \in Requests, Written(r, d)
        PROVE  (OrdersOf(d))' \subseteq OrdersOf(d)
    <3>0. /\ Tables /\ StillTrue(req[r]) /\ req[r].d = d
          /\ \/ CreateCommit(r) \/ LiberarCommit(r) \/ RejeitarCommit(r) \/ StatusWrite(r)
             \/ StatusFinalize(r) \/ UpdateOrders(r) \/ FreesItsOrder(r) \/ RecalcHold(r)
             \/ RecalcWrite(r) \/ RemoveCommit(r) \/ \E p \in Payments : PayCommit(r, p)
      BY <1>1, <2>2, WrittenParts
    <3>1. ~CreateCommit(r) /\ ~UpdateOrders(r)
      BY <1>1, <3>0 DEF CreateCommit, UpdateOrders, At, StillTrue, Editable
    <3>2. CASE RejeitarCommit(r) \/ RemoveCommit(r) \/ FreesItsOrder(r)
      BY <3>0, <3>2, NoneIsNoId DEF RejeitarCommit, RemoveCommit, FreesItsOrder, OrdersOf,
         Tables
    <3>3. CASE \/ LiberarCommit(r) \/ StatusWrite(r) \/ StatusFinalize(r) \/ RecalcHold(r)
               \/ RecalcWrite(r) \/ \E p \in Payments : PayCommit(r, p)
      BY <3>3 DEF LiberarCommit, StatusWrite, StatusFinalize, RecalcHold, RecalcWrite,
         PayCommit, OrdersOf, routeVars
    <3>4. QED
      BY <3>0, <3>1, <3>2, <3>3
  <2>3. QED
    BY <1>1, <2>1, <2>2, SparedOrWritten
<1>2. GInv /\ [Next]_systemVars =>
        \A d \in Deliveries :
            /\ deliveryStatus[d] = "FINALIZADO" /\ deliveryStatus'[d] = "FINALIZADO"
            /\ d \notin raced'
           => (OrdersOf(d))' \subseteq OrdersOf(d)
  BY <1>1
<1>3. QED
  BY <1>2, GInvariance, PTL DEF Spec, FinalisedIsClosed

\* A booked payment's status moves as it was asked to, unless in a race: nobody
\* pays what was cancelled or reverts what was not paid.
THEOREM PaymentsMoveAsAsked == Spec => PaymentsChangeAsAsked
<1> DEFINE Asked(p) ==
        \/ payStatus[p] = "PENDENTE" /\ payStatus'[p] = "PAGO"
        \/ payStatus[p] = "PAGO" /\ payStatus'[p] = "PENDENTE"
        \/ \E r \in Requests : /\ At(r, "payStatusWrite") /\ p \in req[r].pays
                               /\ req[r].to = payStatus'[p]
<1>1. ASSUME GInv, [Next]_systemVars, NEW p \in Payments, p \notin raced',
             payStatus[p] # "absent", payStatus'[p] # payStatus[p]
      PROVE  Asked(p)
  <2>1. ~ UNCHANGED <<routeVars, payVars>>
    BY <1>1 DEF payVars
  <2>2. PICK r \in Requests : Blind(r) \/ Clean(r)
    <3>1. Next
      BY <1>1, <2>1 DEF systemVars, vars
    <3>2. QED
      BY <1>1, <2>1, <3>1, StepKinds DEF Looks, GivesUp
  <2>0. Tables /\ Writes(r)
    BY <1>1, <2>2, GInvParts DEF Blind, Clean
  <2>3. OnAccountsOnly(r) /\ p \in req[r].pays
    <3>1. CASE OnAccountsOnly(r)
      BY <1>1, <2>0, <3>1 DEF OnAccountsOnly, MarkPaidWrite, PayStatusWrite, PayRevertWrite
    <3>2. ASSUME NEW new \in Payments, PayCommit(r, new)
          PROVE  FALSE
      BY <1>1, <2>0, <3>2 DEF PayCommit, Tables
    <3>3. CASE \/ CreateCommit(r) \/ LiberarCommit(r) \/ RejeitarCommit(r) \/ StatusWrite(r)
               \/ StatusFinalize(r) \/ UpdateOrders(r) \/ FreesItsOrder(r) \/ RecalcHold(r)
               \/ RecalcWrite(r) \/ RemoveCommit(r)
      BY <1>1, <3>3 DEF CreateCommit, LiberarCommit, RejeitarCommit, StatusWrite,
         StatusFinalize, UpdateOrders, FreesItsOrder, RecalcHold, RecalcWrite, RemoveCommit,
         payVars
    <3>4. QED
      BY <2>0, <3>1, <3>2, <3>3 DEF Writes, OnAccountsOnly
  <2>4. Clean(r)
    BY <1>1, <2>2, <2>3 DEF Blind
  <2>5. StillTrue(req[r])
    BY <2>4 DEF Clean
  <2>6. CASE MarkPaidWrite(r)
    BY <1>1, <2>3, <2>5, <2>6 DEF MarkPaidWrite, At, StillTrue
  <2>7. CASE PayRevertWrite(r)
    BY <1>1, <2>3, <2>5, <2>7 DEF PayRevertWrite, At, StillTrue
  <2>8. CASE PayStatusWrite(r)
    BY <1>1, <2>3, <2>8 DEF PayStatusWrite
  <2>9. QED
    BY <2>3, <2>6, <2>7, <2>8 DEF OnAccountsOnly
<1>2. GInv /\ [Next]_systemVars =>
        \A p \in Payments \ raced' :
            (payStatus[p] # "absent" /\ payStatus'[p] # payStatus[p]) => Asked(p)
  BY <1>1
<1>3. QED
  BY <1>2, GInvariance, PTL DEF Spec, PaymentsChangeAsAsked

-----------------------------------------------------------------------------
(* The rows of a delivery that was not written in a race.                  *)

UnderWay == {"EM_ROTA", "EM_ENTREGA"} \cup Finished

Decided(d) == "REJECTED" \in approvals[d] => deliveryStatus[d] = "REJEITADO"

\* Its orders wait with it and go with it, but for those an edition holds first.
Agrees(d) ==
    \A o \in OrdersOf(d) :
        /\ deliveryStatus[d] \in {"A_LIBERAR", "INICIADO", "FINALIZADO"}
        /\ deliveryStatus[d] = "A_LIBERAR" => orderStatus[o] = Waiting
        /\ deliveryStatus[d] = "INICIADO" =>
              \/ orderStatus[o] \in UnderWay
              \/ orderStatus[o] = Waiting /\ (Holding(d) \/ d \in abandoned)
        /\ deliveryStatus[d] = "FINALIZADO" => orderStatus[o] \in Finished

\* Its totals cover its orders, but for those an edition has yet to sum up.
Covers(d) ==
    Exists(d) /\ d \notin abandoned /\ ~Editing(d) => OrdersOf(d) \subseteq charged[d]

\* At the end of the route, even so: an edition under way was overtaken then.
CoversAtEnd(d) ==
    deliveryStatus[d] = "FINALIZADO" /\ d \notin abandoned /\ ~Doubtful(d) =>
        OrdersOf(d) \subseteq charged[d]

\* It has one payment, when it is finalised and nobody is still to book it.
Linked(d) ==
    /\ \A p, q \in Payments : payFor[p] = d /\ payFor[q] = d => p = q
    /\ deliveryStatus[d] = "FINALIZADO" /\ d \notin abandoned =>
          LinksOf(d) # {} \/ BeingPaid(d)

Whole(d) == Decided(d) /\ Agrees(d) /\ Covers(d) /\ CoversAtEnd(d) /\ Linked(d)

RInv == GInv /\ \A d \in Deliveries : d \notin raced => Whole(d)

LEMMA SparedIsWhole ==
    ASSUME NEW d \in Deliveries, Spared(d), Whole(d), abandoned \subseteq abandoned'
    PROVE  Whole(d)'
<1>0. Decided(d) /\ Agrees(d) /\ Covers(d) /\ CoversAtEnd(d) /\ Linked(d)
  BY DEF Whole
<1>1. /\ (OrdersOf(d))' \subseteq OrdersOf(d)
      /\ \A o \in (OrdersOf(d))' : orderStatus'[o] = orderStatus[o]
      /\ (LinksOf(d))' = LinksOf(d)
  BY DEF Spared, OrdersOf, LinksOf
<1>2. /\ deliveryStatus'[d] = deliveryStatus[d] /\ charged'[d] = charged[d]
      /\ approvals'[d] = approvals[d] /\ (Exists(d))' = Exists(d)
      /\ StillAtWork(d)
  BY DEF Spared, Exists
<1>3. Decided(d)'
  BY <1>0, <1>2 DEF Decided
<1>4. Agrees(d)'
  BY <1>0, <1>1, <1>2 DEF Agrees, StillAtWork
<1>5. Covers(d)' /\ CoversAtEnd(d)'
  BY <1>0, <1>1, <1>2 DEF Covers, CoversAtEnd, StillAtWork
<1>6. Linked(d)'
  BY <1>0, <1>1, <1>2 DEF Linked, StillAtWork, Spared
<1>7. QED
  BY <1>3, <1>4, <1>5, <1>6 DEF Whole

\* REJEITADO is the only status that goes with a rejection.
LEMMA WrittenIsDecided ==
    ASSUME GInv, NEW r \in Requests, NEW d \in Deliveries, Written(r, d), Decided(d)
    PROVE  Decided(d)'
<1>0. /\ Tables /\ StillTrue(req[r]) /\ req[r].d = d
      /\ \/ CreateCommit(r) \/ LiberarCommit(r) \/ RejeitarCommit(r) \/ StatusWrite(r)
         \/ StatusFinalize(r) \/ UpdateOrders(r) \/ FreesItsOrder(r) \/ RecalcHold(r)
         \/ RecalcWrite(r) \/ RemoveCommit(r) \/ \E p \in Payments : PayCommit(r, p)
  BY WrittenParts
<1>1. CASE CreateCommit(r)
  BY <1>0, <1>1 DEF CreateCommit, Tables, At, StillTrue, Decided
<1>2. CASE LiberarCommit(r) \/ RejeitarCommit(r)
  BY <1>0, <1>2 DEF LiberarCommit, RejeitarCommit, Tables, At, StillTrue, Decided
<1>3. CASE StatusFinalize(r)
  BY <1>0, <1>3 DEF StatusFinalize, Tables, At, StillTrue, Decided
<1>4. CASE RecalcWrite(r)
  BY <1>0, <1>4 DEF RecalcWrite, Tables, At, StillTrue, Decided
<1>5. CASE RemoveCommit(r)
  BY <1>0, <1>5 DEF RemoveCommit, Tables, Decided
<1>6. CASE \/ StatusWrite(r) \/ UpdateOrders(r) \/ FreesItsOrder(r) \/ RecalcHold(r)
           \/ \E p \in Payments : PayCommit(r, p)
  BY <1>6 DEF StatusWrite, UpdateOrders, FreesItsOrder, RecalcHold, PayCommit, routeVars,
     Decided
<1>7. QED
  BY <1>0, <1>1, <1>2, <1>3, <1>4, <1>5, <1>6

\* The statuses of a delivery's orders move with the delivery's own.
LEMMA WrittenAgrees ==
    ASSUME GInv, NEW r \in Requests, NEW d \in Deliveries, Written(r, d), Agrees(d)
    PROVE  Agrees(d)'
<1>0. /\ Tables /\ NothingHangs /\ WellAimed(req[r]) /\ StillTrue(req[r]) /\ req[r].d = d
      /\ \/ CreateCommit(r) \/ LiberarCommit(r) \/ RejeitarCommit(r) \/ StatusWrite(r)
         \/ StatusFinalize(r) \/ UpdateOrders(r) \/ FreesItsOrder(r) \/ RecalcHold(r)
         \/ RecalcWrite(r) \/ RemoveCommit(r) \/ \E p \in Payments : PayCommit(r, p)
      /\ abandoned \subseteq abandoned' /\ d # None
  BY WrittenParts, NoneIsNoId
<1>1. CASE CreateCommit(r)
  <2>1. OrdersOf(d) = {}
    BY <1>0, <1>1 DEF CreateCommit, At, StillTrue, NothingHangs, OrdersOf, Exists,
       DeliveryStatus
  <2>2. deliveryStatus'[d] = IF req[r].hold THEN "A_LIBERAR" ELSE "INICIADO"
    BY <1>0, <1>1 DEF CreateCommit, Tables
  <2>3. \A o \in (OrdersOf(d))' : orderStatus'[o] = IF req[r].hold THEN Waiting ELSE "EM_ROTA"
    BY <1>0, <1>1, <2>1 DEF CreateCommit, OrdersOf, Waiting
  <2>4. QED
    BY <2>2, <2>3 DEF Agrees, UnderWay
<1>2. CASE LiberarCommit(r)
  <2>1. deliveryStatus[d] = "A_LIBERAR" /\ deliveryStatus'[d] = "INICIADO"
    BY <1>0, <1>2 DEF LiberarCommit, At, StillTrue, Tables
  <2>2. (OrdersOf(d))' = OrdersOf(d)
    BY <1>2 DEF LiberarCommit, OrdersOf
  <2>3. \A o \in OrdersOf(d) : orderStatus'[o] = "EM_ROTA"
    BY <1>0, <1>2, <2>1 DEF LiberarCommit, OrdersOf, Agrees, Waiting
  <2>4. QED
    BY <2>1, <2>2, <2>3 DEF Agrees, UnderWay
<1>3. CASE RejeitarCommit(r) \/ RemoveCommit(r)
  <2>1. (OrdersOf(d))' = {}
    BY <1>0, <1>3 DEF RejeitarCommit, RemoveCommit, OrdersOf
  <2>2. QED
    BY <2>1 DEF Agrees
<1>4. CASE StatusWrite(r)
  <2>1. /\ deliveryStatus[d] = "INICIADO" /\ deliveryStatus'[d] = "INICIADO"
        /\ (OrdersOf(d))' = OrdersOf(d)
    BY <1>0, <1>4 DEF StatusWrite, At, StillTrue, OrdersOf
  <2>2. \A o \in OrdersOf(d) : orderStatus'[o] = orderStatus[o] \/ orderStatus'[o] \in UnderWay
    BY <1>0, <1>4 DEF StatusWrite, Tables, WellAimed, At, OrdersOf, UnderWay
  <2>3. Holding(d) => Holding(d)'
    BY <1>4, WrittenAtWork DEF StatusWrite, RecalcWrite, At
  <2>4. QED
    BY <1>0, <2>1, <2>2, <2>3 DEF Agrees
<1>5. CASE StatusFinalize(r)
  <2>1. /\ deliveryStatus'[d] = "FINALIZADO" /\ Unfinished(d) = {}
        /\ (OrdersOf(d))' = OrdersOf(d) /\ orderStatus' = orderStatus
    BY <1>0, <1>5 DEF StatusFinalize, At, StillTrue, OrdersOf, Tables
  <2>2. QED
    BY <2>1 DEF Agrees, Unfinished
<1>6. CASE UpdateOrders(r)
  <2>1. /\ deliveryStatus[d] = req[r].was /\ req[r].was \in {"A_LIBERAR", "INICIADO"}
        /\ deliveryStatus' = deliveryStatus /\ req[r].seen = OrdersOf(d)
    BY <1>0, <1>6 DEF UpdateOrders, At, StillTrue, Editable, DeliveryStatus
  <2>2. \A o \in (OrdersOf(d))' :
           \/ o \in OrdersOf(d) /\ orderStatus'[o] = orderStatus[o]
           \/ orderStatus'[o] = IF req[r].was = "A_LIBERAR" THEN Waiting ELSE "EM_ROTA"
    BY <1>0, <1>6, <2>1 DEF UpdateOrders, OrdersOf, Waiting
  <2>3. Holding(d) => Holding(d)'
    BY <1>6, WrittenAtWork DEF UpdateOrders, RecalcWrite, At
  <2>4. QED
    BY <1>0, <2>1, <2>2, <2>3 DEF Agrees, UnderWay
<1>7. CASE FreesItsOrder(r)
  <2>1. /\ deliveryStatus' = deliveryStatus
        /\ \A o \in (OrdersOf(d))' : o \in OrdersOf(d) /\ orderStatus'[o] = orderStatus[o]
    BY <1>0, <1>7 DEF FreesItsOrder, OrdersOf, Tables
  <2>2. Holding(d) => Holding(d)'
    BY <1>7, WrittenAtWork DEF FreesItsOrder, RecalcWrite, At
  <2>3. QED
    BY <1>0, <2>1, <2>2 DEF Agrees
<1>8. CASE RecalcHold(r)
  <2>1. /\ deliveryStatus[d] = "INICIADO" /\ deliveryStatus' = deliveryStatus
        /\ (OrdersOf(d))' = OrdersOf(d) /\ req[r].hold
    BY <1>0, <1>8 DEF RecalcHold, At, StillTrue, OrdersOf
  <2>2. \A o \in OrdersOf(d) : orderStatus'[o] = Waiting
    BY <1>0, <1>8 DEF RecalcHold, OrdersOf, Waiting
  <2>3. req'[r].pc = "recalcWrite" /\ req'[r].d = d /\ req'[r].hold
    BY <1>0, <1>8, <2>1 DEF Written, Clean, Leaves
  <2>4. CASE r \in begun'
    <3>1. Holding(d)'
      BY <2>3, <2>4 DEF Holding, At
    <3>2. QED
      BY <2>1, <2>2, <3>1 DEF Agrees
  <2>5. CASE UNCHANGED <<routeVars, payVars>>
    <3>1. Holding(d) => Holding(d)'
      BY <1>8, WrittenAtWork DEF RecalcHold, RecalcWrite, At
    <3>2. orderStatus' = orderStatus
      BY <2>5 DEF routeVars
    <3>3. QED
      BY <1>0, <2>1, <3>1, <3>2 DEF Agrees
  <2>6. QED
    BY <2>3, <2>4, <2>5, WrittenHasBegun
<1>9. CASE RecalcWrite(r)
  <2>1. (OrdersOf(d))' = OrdersOf(d) /\ orderStatus' = orderStatus
    BY <1>9 DEF RecalcWrite, OrdersOf
  <2>2. CASE req[r].hold
    <3>1. /\ deliveryStatus'[d] = "A_LIBERAR"
          /\ \A o \in OrdersOf(d) : orderStatus[o] = Waiting
      BY <1>0, <1>9, <2>2 DEF RecalcWrite, Tables, At, StillTrue
    <3>2. QED
      BY <2>1, <3>1 DEF Agrees
  <2>3. CASE ~req[r].hold
    <3>1. deliveryStatus'[d] = deliveryStatus[d]
      BY <1>0, <1>9, <2>3 DEF RecalcWrite, Tables
    <3>2. Holding(d) => Holding(d)'
      BY <2>3, WrittenAtWork
    <3>3. QED
      BY <1>0, <2>1, <3>1, <3>2 DEF Agrees
  <2>4. QED
    BY <2>2, <2>3
<1>10. ASSUME NEW p \in Payments, PayCommit(r, p)
       PROVE  Agrees(d)'
  <2>1. /\ (OrdersOf(d))' = OrdersOf(d) /\ orderStatus' = orderStatus
        /\ deliveryStatus' = deliveryStatus
    BY <1>10 DEF PayCommit, OrdersOf, routeVars
  <2>2. Holding(d) => Holding(d)'
    BY <1>10, WrittenAtWork DEF PayCommit, RecalcWrite, At
  <2>3. QED
    BY <1>0, <2>1, <2>2 DEF Agrees
<1>11. QED
  BY <1>0, <1>1, <1>2, <1>3, <1>4, <1>5, <1>6, <1>7, <1>8, <1>9, <1>10

\* Whoever changes a delivery's orders is the one who sums them up.
LEMMA WrittenCovers ==
    ASSUME GInv, NEW r \in Requests, NEW d \in Deliveries, Written(r, d), Covers(d)
    PROVE  Covers(d)'
<1>0. /\ Tables /\ NothingHangs /\ StillTrue(req[r]) /\ req[r].d = d
      /\ \/ CreateCommit(r) \/ LiberarCommit(r) \/ RejeitarCommit(r) \/ StatusWrite(r)
         \/ StatusFinalize(r) \/ UpdateOrders(r) \/ FreesItsOrder(r) \/ RecalcHold(r)
         \/ RecalcWrite(r) \/ RemoveCommit(r) \/ \E p \in Payments : PayCommit(r, p)
      /\ abandoned \subseteq abandoned' /\ d # None
  BY WrittenParts, NoneIsNoId
<1>1. CASE CreateCommit(r)
  <2>1. OrdersOf(d) = {}
    BY <1>0, <1>1 DEF CreateCommit, At, StillTrue, NothingHangs, OrdersOf, Exists,
       DeliveryStatus
  <2>2. (OrdersOf(d))' \subseteq charged'[d]
    BY <1>0, <1>1, <2>1 DEF CreateCommit, OrdersOf, Tables
  <2>3. QED
    BY <2>2 DEF Covers
<1>2. CASE RejeitarCommit(r) \/ RemoveCommit(r)
  <2>1. (OrdersOf(d))' = {}
    BY <1>0, <1>2 DEF RejeitarCommit, RemoveCommit, OrdersOf
  <2>2. QED
    BY <2>1 DEF Covers
<1>3. CASE RecalcWrite(r)
  <2>1. (OrdersOf(d))' = OrdersOf(d) /\ charged'[d] = OrdersOf(d)
    BY <1>0, <1>3 DEF RecalcWrite, At, StillTrue, OrdersOf, Tables
  <2>2. QED
    BY <2>1 DEF Covers
<1>4. CASE \/ LiberarCommit(r) \/ StatusWrite(r) \/ StatusFinalize(r) \/ FreesItsOrder(r)
           \/ RecalcHold(r) \/ \E p \in Payments : PayCommit(r, p)
  <2>1. charged' = charged /\ (OrdersOf(d))' \subseteq OrdersOf(d)
    BY <1>0, <1>4 DEF LiberarCommit, StatusWrite, StatusFinalize, FreesItsOrder, RecalcHold,
       PayCommit, OrdersOf, Tables, routeVars
  <2>2. Exists(d)
    BY <1>0, <1>4 DEF LiberarCommit, StatusWrite, StatusFinalize, FreesItsOrder, RecalcHold,
       PayCommit, At, StillTrue, Exists, DeliveryStatus
  <2>3. Editing(d) => Editing(d)'
    BY <1>4, WrittenAtWork DEF LiberarCommit, StatusWrite, StatusFinalize, FreesItsOrder,
       RecalcHold, PayCommit, RecalcWrite, At
  <2>4. QED
    BY <1>0, <2>1, <2>2, <2>3 DEF Covers
<1>5. CASE UpdateOrders(r)
  <2>1. req'[r].pc = "updateReread" /\ req'[r].d = d
    BY <1>0, <1>5 DEF Written, Clean, Leaves
  <2>2. CASE r \in begun'
    BY <2>1, <2>2 DEF Covers, Editing, EditingAt
  <2>3. CASE UNCHANGED <<routeVars, payVars>>
    <3>1. Editing(d) => Editing(d)'
      BY <1>5, WrittenAtWork DEF UpdateOrders, RecalcWrite, At
    <3>2. (OrdersOf(d))' = OrdersOf(d) /\ charged' = charged /\ (Exists(d))' = Exists(d)
      BY <2>3 DEF OrdersOf, Exists, routeVars
    <3>3. QED
      BY <1>0, <3>1, <3>2 DEF Covers
  <2>4. QED
    BY <2>1, <2>2, <2>3, WrittenHasBegun
<1>6. QED
  BY <1>0, <1>1, <1>2, <1>3, <1>4, <1>5

\* An edition that is still to sum up when the route ends has been overtaken by
\* its end: it may yet write in a race, and until then the delivery is doubtful.
LEMMA WrittenCoversAtEnd ==
    ASSUME GInv, NEW r \in Requests, NEW d \in Deliveries, Written(r, d),
           Covers(d), CoversAtEnd(d)
    PROVE  CoversAtEnd(d)'
<1>0. /\ Tables /\ NothingHangs /\ StillTrue(req[r]) /\ req[r].d = d
      /\ \/ CreateCommit(r) \/ LiberarCommit(r) \/ RejeitarCommit(r) \/ StatusWrite(r)
         \/ StatusFinalize(r) \/ UpdateOrders(r) \/ FreesItsOrder(r) \/ RecalcHold(r)
         \/ RecalcWrite(r) \/ RemoveCommit(r) \/ \E p \in Payments : PayCommit(r, p)
      /\ abandoned \subseteq abandoned' /\ d # None
  BY WrittenParts, NoneIsNoId
<1>1. CASE CreateCommit(r) \/ LiberarCommit(r) \/ RejeitarCommit(r) \/ RemoveCommit(r)
  <2>1. deliveryStatus'[d] # "FINALIZADO"
    BY <1>0, <1>1 DEF CreateCommit, LiberarCommit, RejeitarCommit, RemoveCommit, Tables
  <2>2. QED
    BY <2>1 DEF CoversAtEnd
<1>2. CASE StatusWrite(r) \/ UpdateOrders(r) \/ RecalcHold(r)
  <2>1. deliveryStatus'[d] # "FINALIZADO"
    BY <1>0, <1>2 DEF StatusWrite, UpdateOrders, RecalcHold, At, StillTrue, Editable
  <2>2. QED
    BY <2>1 DEF CoversAtEnd
<1>3. CASE RecalcWrite(r)
  <2>1. (OrdersOf(d))' = OrdersOf(d) /\ charged'[d] = OrdersOf(d)
    BY <1>0, <1>3 DEF RecalcWrite, At, StillTrue, OrdersOf, Tables
  <2>2. QED
    BY <2>1 DEF CoversAtEnd
<1>4. CASE FreesItsOrder(r) \/ \E p \in Payments : PayCommit(r, p)
  <2>1. /\ charged' = charged /\ (OrdersOf(d))' \subseteq OrdersOf(d)
        /\ deliveryStatus' = deliveryStatus
    BY <1>0, <1>4 DEF FreesItsOrder, PayCommit, OrdersOf, Tables, routeVars
  <2>2. Doubtful(d) => Doubtful(d)'
    BY WrittenAtWork
  <2>3. QED
    BY <1>0, <2>1, <2>2 DEF CoversAtEnd
<1>5. CASE StatusFinalize(r)
  <2>1. /\ deliveryStatus[d] = "INICIADO" /\ deliveryStatus'[d] = "FINALIZADO"
        /\ charged' = charged /\ (OrdersOf(d))' = OrdersOf(d) /\ At(r, "statusFinalize")
    BY <1>0, <1>5 DEF StatusFinalize, At, StillTrue, Tables, OrdersOf
  <2>2. CASE ~Editing(d)
    BY <1>0, <2>1, <2>2 DEF Covers, CoversAtEnd, Exists, DeliveryStatus
  <2>3. CASE Editing(d)
    <3>1. PICK s \in Requests : s \in begun /\ req[s].pc \in EditingAt /\ req[s].d = d
      BY <2>3 DEF Editing
    <3>2. s # r /\ req[s].pc # "idle"
      BY <2>1, <3>1 DEF EditingAt, At
    <3>3. Outdates(req[s])
      BY <2>1, <3>1 DEF Outdates, RowChanges, EditingAt
    <3>4. s \in begun' /\ s \in overtaken' /\ req'[s] = req[s]
      BY <3>1, <3>2, <3>3, OthersGoOn DEF Written
    <3>5. Doubtful(d)'
      BY <3>1, <3>4 DEF Doubtful
    <3>6. QED
      BY <3>5 DEF CoversAtEnd
  <2>4. QED
    BY <2>2, <2>3
<1>6. QED
  BY <1>0, <1>1, <1>2, <1>3, <1>4, <1>5

\* Only a delivery without a payment gets one, and who finalises it books it.
LEMMA WrittenIsLinked ==
    ASSUME GInv, NEW r \in Requests, NEW d \in Deliveries, Written(r, d), Linked(d)
    PROVE  Linked(d)'
<1>0. /\ Tables /\ UnbookedIsUnlinked /\ StillTrue(req[r]) /\ req[r].d = d
      /\ \/ CreateCommit(r) \/ LiberarCommit(r) \/ RejeitarCommit(r) \/ StatusWrite(r)
         \/ StatusFinalize(r) \/ UpdateOrders(r) \/ FreesItsOrder(r) \/ RecalcHold(r)
         \/ RecalcWrite(r) \/ RemoveCommit(r) \/ \E p \in Payments : PayCommit(r, p)
      /\ abandoned \subseteq abandoned' /\ d # None
  BY WrittenParts, NoneIsNoId
<1>1. ASSUME NEW p \in Payments, PayCommit(r, p)
      PROVE  Linked(d)'
  <2>1. LinksOf(d) = {}
    BY <1>0, <1>1 DEF PayCommit, At, StillTrue
  <2>2. \A q \in Payments : payFor'[q] = d <=> q = p
    BY <1>0, <1>1, <2>1 DEF PayCommit, Tables, LinksOf
  <2>3. QED
    BY <2>2 DEF Linked, LinksOf
<1>2. CASE RemoveCommit(r)
  <2>1. deliveryStatus'[d] = "deleted" /\ \A p \in Payments : payFor'[p] # d
    BY <1>0, <1>2 DEF RemoveCommit, Tables
  <2>2. QED
    BY <2>1 DEF Linked
<1>3. CASE StatusFinalize(r)
  <2>1. req'[r].pc = "payRead" /\ req'[r].d = d
    BY <1>0, <1>3 DEF Written, Clean, Leaves
  <2>2. deliveryStatus[d] = "INICIADO" /\ deliveryStatus'[d] = "FINALIZADO"
    BY <1>0, <1>3 DEF StatusFinalize, At, StillTrue, Tables
  <2>3. BeingPaid(d)'
    BY <2>1, <2>2, WrittenHasBegun DEF BeingPaid, PayingAt, routeVars
  <2>4. payFor' = payFor
    BY <1>3 DEF StatusFinalize, payVars
  <2>5. QED
    BY <2>3, <2>4 DEF Linked, LinksOf
<1>4. CASE CreateCommit(r) \/ LiberarCommit(r) \/ RejeitarCommit(r)
  <2>1. deliveryStatus'[d] # "FINALIZADO" /\ payFor' = payFor
    BY <1>0, <1>4 DEF CreateCommit, LiberarCommit, RejeitarCommit, Tables, payVars
  <2>2. QED
    BY <2>1 DEF Linked
<1>5. CASE StatusWrite(r) \/ UpdateOrders(r) \/ FreesItsOrder(r) \/ RecalcHold(r)
           \/ RecalcWrite(r)
  <2>1. payFor' = payFor
    BY <1>5 DEF StatusWrite, UpdateOrders, FreesItsOrder, RecalcHold, RecalcWrite, payVars
  <2>2. deliveryStatus'[d] = "FINALIZADO" => deliveryStatus[d] = "FINALIZADO"
    BY <1>0, <1>5 DEF StatusWrite, UpdateOrders, FreesItsOrder, RecalcHold, RecalcWrite,
       Tables
  <2>3. BeingPaid(d) => BeingPaid(d)'
    BY <1>5, WrittenAtWork DEF StatusWrite, UpdateOrders, FreesItsOrder, RecalcHold,
       RecalcWrite, PayCommit, At
  <2>4. QED
    BY <1>0, <2>1, <2>2, <2>3 DEF Linked, LinksOf
<1>6. QED
  BY <1>0, <1>1, <1>2, <1>3, <1>4, <1>5

LEMMA WholeStep ==
    ASSUME RInv, [Next]_systemVars
    PROVE  RInv'
<1>1. GInv'
  BY GInvStep DEF RInv
<1>2. ASSUME NEW d \in Deliveries, d \notin raced'
      PROVE  Whole(d)'
  <2>1. GInv /\ d \notin raced /\ Whole(d) /\ abandoned \subseteq abandoned'
    BY <1>2, SparedOrWritten DEF RInv
  <2>2. CASE Spared(d)
    BY <2>1, <2>2, SparedIsWhole
  <2>3. ASSUME NEW r \in Requests, Written(r, d)
        PROVE  Whole(d)'
    BY <2>1, <2>3, WrittenIsDecided, WrittenAgrees, WrittenCovers, WrittenCoversAtEnd,
       WrittenIsLinked DEF Whole
  <2>4. QED
    BY <1>2, <2>1, <2>2, <2>3, SparedOrWritten
<1>3. QED
  BY <1>1, <1>2 DEF RInv

LEMMA RInvInit == Init /\ HistoriesInit => RInv
<1> SUFFICES ASSUME Init, HistoriesInit, NEW d \in Deliveries
             PROVE  Whole(d)
  BY GInvInit DEF RInv
<1>1. /\ deliveryStatus[d] = "absent" /\ approvals[d] = {} /\ OrdersOf(d) = {}
      /\ \A p \in Payments : payFor[p] # d
  BY NoneIsNoId DEF Init, OrdersOf
<1>2. QED
  BY <1>1 DEF Whole, Decided, Agrees, Covers, CoversAtEnd, Linked

LEMMA RInvariance == Spec => []RInv
BY RInvInit, WholeStep, PTL DEF Spec

LEMMA QuietHandlers ==
    ASSUME Quiet, NEW d
    PROVE  ~Holding(d) /\ ~Editing(d) /\ ~BeingPaid(d) /\ ~Doubtful(d)
BY DEF Quiet, At, Holding, Editing, BeingPaid, Doubtful, EditingAt, PayingAt

\* A delivery that was rejected does not run again, unless in a race.
THEOREM RejectedStaysRejected == Spec => []RejectedNeverRuns
<1>1. RInv => RejectedNeverRuns
  BY DEF RInv, Whole, Decided, RejectedNeverRuns
<1>2. QED
  BY <1>1, RInvariance, PTL

\* Between calls every routed order stands where its delivery does, unless the
\* delivery was written in a race: or, while it runs, was left half edited.
THEOREM OrdersAlwaysFollow == Spec => []OrdersFollowTheirDelivery
<1>1. RInv => OrdersFollowTheirDelivery
  <2> SUFFICES ASSUME RInv, Quiet, NEW o \in Orders, orderDelivery[o] # None,
                      orderDelivery[o] \notin raced
               PROVE  CASE deliveryStatus[orderDelivery[o]] = "A_LIBERAR" ->
                             orderStatus[o] = "EM_ROTA_AGUARDANDO_LIBERACAO"
                        [] deliveryStatus[orderDelivery[o]] = "INICIADO" ->
                             \/ orderStatus[o] \in {"EM_ROTA", "EM_ENTREGA"} \cup Finished
                             \/ /\ orderStatus[o] = "EM_ROTA_AGUARDANDO_LIBERACAO"
                                /\ orderDelivery[o] \in abandoned
                        [] deliveryStatus[orderDelivery[o]] = "FINALIZADO" ->
                             orderStatus[o] \in Finished
                        [] OTHER -> FALSE
    BY DEF OrdersFollowTheirDelivery
  <2>1. PICK d \in Deliveries : d = orderDelivery[o]
    BY GInvParts DEF RInv, Tables
  <2>2. Agrees(d) /\ o \in OrdersOf(d) /\ ~Holding(d)
    BY <2>1, QuietHandlers DEF RInv, Whole, OrdersOf
  <2>3. /\ deliveryStatus[d] \in {"A_LIBERAR", "INICIADO", "FINALIZADO"}
        /\ deliveryStatus[d] = "A_LIBERAR" => orderStatus[o] = Waiting
        /\ deliveryStatus[d] = "INICIADO" =>
              \/ orderStatus[o] \in {"EM_ROTA", "EM_ENTREGA"} \cup Finished
              \/ orderStatus[o] = Waiting /\ d \in abandoned
        /\ deliveryStatus[d] = "FINALIZADO" => orderStatus[o] \in Finished
    BY <2>2 DEF Agrees, UnderWay
  <2>4. QED
    BY <2>1, <2>3 DEF Waiting
<1>2. QED
  BY <1>1, RInvariance, PTL

\* Between calls a delivery's totals and freight cover every order it carries,
\* unless it was written in a race or left half edited.
THEOREM ChargesAlwaysCover == Spec => []CarriedOrdersAreCharged
<1>1. RInv => CarriedOrdersAreCharged
  BY QuietHandlers DEF RInv, Whole, Covers, CarriedOrdersAreCharged, Settled
<1>2. QED
  BY <1>1, RInvariance, PTL

\* Between calls a delivery has at most one payment unless in a race, and when it
\* is finalised it has one, unless the handler that ended it died on the way.
THEOREM AlwaysPaidOnce == Spec => []PaidOnce
<1>1. RInv => PaidOnce
  <2> SUFFICES ASSUME RInv, Quiet, NEW d \in Deliveries, d \notin raced
               PROVE  /\ Cardinality(LinksOf(d)) <= 1
                      /\ deliveryStatus[d] = "FINALIZADO" /\ d \notin abandoned =>
                            LinksOf(d) # {}
    BY DEF PaidOnce
  <2>1. Linked(d) /\ ~BeingPaid(d)
    BY QuietHandlers DEF RInv, Whole
  <2>2. CASE LinksOf(d) = {}
    BY <2>1, <2>2, FS_EmptySet DEF Linked
  <2>3. ASSUME NEW p \in LinksOf(d)
        PROVE  Cardinality(LinksOf(d)) <= 1 /\ LinksOf(d) # {}
    <3>1. LinksOf(d) = {p}
      BY <2>1, <2>3 DEF Linked, LinksOf
    <3>2. Cardinality({p}) = 1
      BY FS_Singleton
    <3>3. Cardinality(LinksOf(d)) = 1
      BY <3>1, <3>2
    <3>4. QED
      BY <2>3, <3>3
  <2>4. QED
    BY <2>2, <2>3
<1>2. QED
  BY <1>1, RInvariance, PTL

-----------------------------------------------------------------------------
(* Payments made at the end of the route.  (Those made by hand ask neither *)
(* for the delivery's status nor whether its totals are up to date.)       *)

\* A payment is on its way for finalised deliveries only.
Closing ==
    \A r \in Requests :
        (req[r].pc \in PayingAt /\ req[r].d \in Deliveries /\ req[r].d \notin raced) =>
            deliveryStatus[req[r].d] \in {"FINALIZADO", "deleted"}

\* It is for a finalised delivery, to its driver, and for what it was charged for:
\* a delivery that is finalised changes its totals to fewer orders only.
Matches(d) ==
    \A p \in Payments : payFor[p] = d =>
        /\ deliveryStatus[d] = "FINALIZADO"
        /\ payDriver[p] = deliveryDriver[d]
        /\ d \notin abandoned /\ ~Doubtful(d) => charged[d] \subseteq payBasis[p]

PInv == NoPaymentByHand /\ RInv /\ Closing /\ \A d \in Deliveries : d \notin raced => Matches(d)

LEMMA ClosingStep ==
    ASSUME NoPaymentByHand, GInv, Closing, [Next]_systemVars
    PROVE  Closing'
<1>1. CASE UNCHANGED systemVars
  BY <1>1 DEF Closing, systemVars, vars, routeVars, histories
<1>2. CASE Next
  <2> SUFFICES ASSUME NEW s \in Requests, NEW d \in Deliveries, req'[s].pc \in PayingAt,
                      req'[s].d = d, d \notin raced'
               PROVE  deliveryStatus'[d] \in {"FINALIZADO", "deleted"}
    BY DEF Closing
  <2>1. PICK r \in Requests : /\ OneStep(r)
                              /\ Looks(r) \/ GivesUp(r) \/ Blind(r) \/ Clean(r)
    BY <1>2, StepKinds
  \* The handler of s was there before the step, or it has just ended the route.
  <2>2. CASE req[s].pc \in PayingAt /\ req[s].d = d
    <3>1. deliveryStatus[d] \in {"FINALIZADO", "deleted"}
      BY <2>1, <2>2 DEF Closing, OneStep
    <3>2. deliveryStatus'[d] = deliveryStatus[d] \/ deliveryStatus'[d] = "deleted"
      <4>1. CASE Spared(d)
        BY <4>1 DEF Spared
      <4>2. ASSUME NEW x \in Requests, Written(x, d)
            PROVE  deliveryStatus'[d] = deliveryStatus[d] \/ deliveryStatus'[d] = "deleted"
        BY <3>1, <4>2, LifecycleStep
      <4>3. QED
        BY <4>1, <4>2, SparedOrWritten
    <3>3. QED
      BY <3>1, <3>2
  <2>3. CASE ~(req[s].pc \in PayingAt /\ req[s].d = d)
    <3>1. s = r
      BY <2>1, <2>3 DEF OneStep
    <3>2. ~Looks(r) /\ ~GivesUp(r)
      BY <2>3, <3>1 DEF Looks, GivesUp, PayingAt
    <3>3. StatusFinalize(r) /\ Writes(r)
      BY <2>1, <3>1, <3>2 DEF Blind, Clean, Leaves
    <3>4. req[r].d = d
      BY <2>1, <3>1, <3>2, <3>3 DEF Blind, Clean, Leaves
    <3>5. QED
      BY <3>3, <3>4, GInvParts DEF StatusFinalize, Tables
  <2>4. QED
    BY <2>2, <2>3
<1>3. QED
  BY <1>1, <1>2

LEMMA MatchesStep ==
    ASSUME PInv, [Next]_systemVars, NEW d \in Deliveries, d \notin raced'
    PROVE  Matches(d)'
<1>0. /\ Tables /\ Records /\ NothingHangs /\ UnbookedIsUnlinked /\ GInv
      /\ d \notin raced /\ Matches(d) /\ Whole(d) /\ d # None
      /\ abandoned \subseteq abandoned'
  BY GInvParts, SparedOrWritten, NoneIsNoId DEF PInv, RInv
\* What is in the books does not move.
<1>1. \A p \in Payments : payFor[p] = d =>
         payDriver'[p] = payDriver[p] /\ payBasis'[p] = payBasis[p]
  BY <1>0, BooksStep DEF UnbookedIsUnlinked
<1>2. CASE Spared(d)
  BY <1>0, <1>1, <1>2 DEF Matches, Spared, StillAtWork
<1>3. ASSUME NEW r \in Requests, Written(r, d)
      PROVE  Matches(d)'
  <2>0. /\ WellAimed(req[r]) /\ StillTrue(req[r]) /\ req[r].d = d
        /\ \/ CreateCommit(r) \/ LiberarCommit(r) \/ RejeitarCommit(r) \/ StatusWrite(r)
           \/ StatusFinalize(r) \/ UpdateOrders(r) \/ FreesItsOrder(r) \/ RecalcHold(r)
           \/ RecalcWrite(r) \/ RemoveCommit(r) \/ \E p \in Payments : PayCommit(r, p)
        /\ Doubtful(d) => Doubtful(d)'
    BY <1>0, <1>3, WrittenParts, WrittenAtWork
  <2>1. CASE CreateCommit(r) \/ LiberarCommit(r) \/ RejeitarCommit(r) \/ StatusFinalize(r)
    <3>1. deliveryStatus[d] \in {"absent", "A_LIBERAR", "INICIADO"} /\ payFor' = payFor
      BY <2>0, <2>1 DEF CreateCommit, LiberarCommit, RejeitarCommit, StatusFinalize, At,
         StillTrue, payVars
    <3>2. QED
      BY <1>0, <3>1 DEF Matches
  <2>2. CASE StatusWrite(r) \/ UpdateOrders(r) \/ FreesItsOrder(r) \/ RecalcHold(r)
    <3>1. /\ deliveryStatus' = deliveryStatus /\ deliveryDriver' = deliveryDriver
          /\ charged' = charged /\ payFor' = payFor
      BY <2>2 DEF StatusWrite, UpdateOrders, FreesItsOrder, RecalcHold, payVars
    <3>2. QED
      BY <1>0, <1>1, <2>0, <3>1 DEF Matches
  <2>3. CASE RecalcWrite(r)
    <3> SUFFICES ASSUME NEW p \in Payments, payFor'[p] = d
                 PROVE  /\ deliveryStatus'[d] = "FINALIZADO"
                        /\ payDriver'[p] = deliveryDriver'[d]
                        /\ d \notin abandoned' /\ ~Doubtful(d)' => charged'[d] \subseteq payBasis'[p]
      BY DEF Matches
    <3>1. payFor[p] = d /\ payDriver'[p] = payDriver[p] /\ payBasis'[p] = payBasis[p]
      BY <1>1, <2>3 DEF RecalcWrite, payVars
    <3>2. deliveryStatus[d] = "FINALIZADO" /\ payDriver[p] = deliveryDriver[d]
      BY <1>0, <3>1 DEF Matches
    <3>3. ~req[r].hold /\ req[r].driver = None /\ req[r].seen = OrdersOf(d)
      BY <2>0, <2>3, <3>2 DEF RecalcWrite, At, StillTrue, Editable
    <3>4. /\ deliveryStatus'[d] = deliveryStatus[d] /\ deliveryDriver'[d] = deliveryDriver[d]
          /\ charged'[d] = OrdersOf(d)
      BY <1>0, <2>0, <2>3, <3>3 DEF RecalcWrite, Tables
    <3>5. d \notin abandoned /\ ~Doubtful(d) => OrdersOf(d) \subseteq payBasis[p]
      BY <1>0, <3>1, <3>2 DEF Whole, CoversAtEnd, Matches
    <3>6. QED
      BY <1>0, <2>0, <3>1, <3>2, <3>4, <3>5
  <2>4. CASE RemoveCommit(r)
    <3>1. \A p \in Payments : payFor'[p] # d
      BY <1>0, <2>0, <2>4 DEF RemoveCommit, Tables
    <3>2. QED
      BY <3>1 DEF Matches
  <2>5. ASSUME NEW new \in Payments, PayCommit(r, new)
        PROVE  Matches(d)'
    <3>1. /\ deliveryStatus[d] = "FINALIZADO" /\ LinksOf(d) = {}
          /\ req[r].driver = deliveryDriver[d] /\ req[r].seen = charged[d]
      BY <1>0, <2>0, <2>5 DEF PInv, Closing, PayingAt, PayCommit, At, StillTrue, Exists,
         DeliveryStatus
    <3>2. /\ payFor' = [payFor EXCEPT ![new] = d]
          /\ payDriver' = [payDriver EXCEPT ![new] = req[r].driver]
          /\ payBasis' = [payBasis EXCEPT ![new] = req[r].seen]
          /\ UNCHANGED <<deliveryStatus, deliveryDriver, charged>>
      BY <2>0, <2>5 DEF PayCommit, routeVars
    <3>3. \A p \in Payments : payFor'[p] = d => p = new
      BY <1>0, <3>1, <3>2 DEF Tables, LinksOf
    <3>4. payDriver'[new] = deliveryDriver'[d] /\ payBasis'[new] = charged'[d]
      BY <1>0, <3>1, <3>2 DEF Tables
    <3>5. QED
      BY <3>1, <3>2, <3>3, <3>4 DEF Matches
  <2>6. QED
    BY <2>0, <2>1, <2>2, <2>3, <2>4, <2>5
<1>4. QED
  BY <1>0, <1>2, <1>3, SparedOrWritten

LEMMA PInvariance == NoPaymentByHand /\ Spec => []PInv
<1>1. NoPaymentByHand /\ Init /\ HistoriesInit => PInv
  <2>1. Init => Closing /\ \A d \in Deliveries : Matches(d)
    BY NoneIsNoId DEF Init, Closing, Matches, PayingAt, Idle
  <2>2. QED
    BY <2>1, RInvInit DEF PInv
<1>2. PInv /\ [Next]_systemVars => PInv'
  BY WholeStep, ClosingStep, MatchesStep DEF PInv, RInv, NoPaymentByHand
<1>3. QED
  BY <1>1, <1>2, PTL DEF Spec

\* Between calls, with payments made at the end of the route: each goes to the
\* driver on record unless in a race, and for every order still carried unless
\* an edition was refused or died half way.
THEOREM PaymentsAlwaysMatch == NoPaymentByHand /\ Spec => []PaymentMatchesDelivery
<1>1. PInv => PaymentMatchesDelivery
  <2> SUFFICES ASSUME PInv, Quiet, NEW p \in Payments, payFor[p] # None,
                      payFor[p] \notin raced
               PROVE  /\ payDriver[p] = deliveryDriver[payFor[p]]
                      /\ payFor[p] \notin abandoned => OrdersOf(payFor[p]) \subseteq payBasis[p]
    BY DEF PaymentMatchesDelivery
  <2>1. PICK d \in Deliveries : d = payFor[p]
    BY GInvParts DEF PInv, RInv, Tables
  <2>2. Matches(d) /\ CoversAtEnd(d) /\ ~Doubtful(d)
    BY <2>1, QuietHandlers DEF PInv, RInv, Whole
  <2>3. QED
    BY <2>1, <2>2 DEF Matches, CoversAtEnd
<1>2. QED
  BY <1>1, PInvariance, PTL

-----------------------------------------------------------------------------
(* What is read back.                                                      *)

\* An order that is on no delivery is free, or was when it was rejected.
OffRouteAwaits ==
    raced = {} => \A o \in Orders :
        orderDelivery[o] = None => orderStatus[o] \in {"SEM_ROTA", Waiting}

LEMMA OffRouteStep ==
    ASSUME RInv, OffRouteAwaits, [Next]_systemVars
    PROVE  OffRouteAwaits'
<1> SUFFICES ASSUME raced' = {}
             PROVE  \A o \in Orders : orderDelivery'[o] = None =>
                       orderStatus'[o] \in {"SEM_ROTA", Waiting}
  BY DEF OffRouteAwaits
<1>0. GInv /\ Tables
  BY GInvParts DEF RInv
<1>1. CASE UNCHANGED systemVars
  BY <1>1 DEF OffRouteAwaits, systemVars, vars, routeVars, histories
<1>2. CASE Next
  <2>1. PICK r \in Requests : /\ OneStep(r)
                              /\ Looks(r) \/ GivesUp(r) \/ Blind(r) \/ Clean(r)
    BY <1>0, <1>2, StepKinds
  <2>2. raced = {} /\ \A o \in Orders : orderDelivery[o] = None =>
                         orderStatus[o] \in {"SEM_ROTA", Waiting}
    BY <2>1 DEF OneStep, OffRouteAwaits
  <2>3. CASE Looks(r) \/ GivesUp(r)
    BY <2>2, <2>3 DEF Looks, GivesUp, routeVars
  <2>4. CASE Blind(r) \/ Clean(r)
    <3>0. Writes(r) /\ WellAimed(req[r])
      BY <1>0, <2>4, GInvParts DEF Blind, Clean
    <3>1. CASE OnAccountsOnly(r)
      BY <2>2, <3>1 DEF OnAccountsOnly, MarkPaidWrite, PayStatusWrite, PayRevertWrite, routeVars
    <3>2. CASE ~OnAccountsOnly(r)
      <4>1. PICK d \in Deliveries : req[r].d = d
        BY <3>0, <3>2 DEF Writes, OnAccountsOnly, WellAimed, CreateCommit, LiberarCommit,
           RejeitarCommit, StatusWrite, StatusFinalize, UpdateOrders, FreesItsOrder,
           RecalcHold, RecalcWrite, RemoveCommit, PayCommit, At
      <4>2. Clean(r)
        BY <2>4, <4>1 DEF Blind
      <4>3. StillTrue(req[r]) /\ Agrees(d) /\ d # None
        BY <2>2, <4>2, NoneIsNoId DEF Clean, RInv, Whole
      <4>4. CASE CreateCommit(r) \/ UpdateOrders(r) \/ FreesItsOrder(r) \/ RemoveCommit(r)
        BY <1>0, <2>2, <4>1, <4>3, <4>4 DEF CreateCommit, UpdateOrders, FreesItsOrder,
           RemoveCommit, Tables
      <4>5. CASE RejeitarCommit(r)
        BY <2>2, <4>1, <4>3, <4>5 DEF RejeitarCommit, At, StillTrue, Agrees, OrdersOf
      <4>6. CASE StatusWrite(r)
        BY <1>0, <2>2, <3>0, <4>1, <4>3, <4>6 DEF StatusWrite, At, StillTrue, WellAimed, Tables
      <4>7. CASE LiberarCommit(r) \/ RecalcHold(r)
        BY <2>2, <4>1, <4>3, <4>7 DEF LiberarCommit, RecalcHold, OrdersOf
      <4>8. CASE StatusFinalize(r) \/ RecalcWrite(r) \/ \E p \in Payments : PayCommit(r, p)
        BY <2>2, <4>8 DEF StatusFinalize, RecalcWrite, PayCommit, routeVars
      <4>9. QED
        BY <3>0, <3>2, <4>4, <4>5, <4>6, <4>7, <4>8 DEF Writes, OnAccountsOnly
    <3>3. QED
      BY <3>1, <3>2
  <2>5. QED
    BY <2>1, <2>3, <2>4
<1>3. QED
  BY <1>1, <1>2

LEMMA OffRouteInvariance == Spec => []OffRouteAwaits
<1>1. Init => OffRouteAwaits
  BY DEF Init, OffRouteAwaits
<1>2. RInv /\ OffRouteAwaits /\ [Next]_systemVars => OffRouteAwaits'
  BY OffRouteStep
<1>3. QED
  BY <1>1, <1>2, RInvariance, PTL DEF Spec

LEMMA ReceivablesAgree ==
    ASSUME PInv, Quiet
    PROVE  ReceivablesAreInTheBooks
<1> SUFFICES ASSUME NEW v \in Drivers
             PROVE  /\ {d \in getDriverReceivables(v) : Settled(d)} =
                          {d \in Deliveries : Settled(d) /\ \E p \in LinksOf(d) :
                               payDriver[p] = v /\ payStatus[p] # "PAGO"}
                    /\ \A d \in getDriverReceivables(v) : Settled(d) =>
                           \A p \in LinksOf(d) : charged[d] \subseteq payBasis[p]
  BY DEF ReceivablesAreInTheBooks
<1>1. \A d \in Deliveries : Settled(d) =>
         /\ Matches(d) /\ Linked(d) /\ ~BeingPaid(d) /\ ~Doubtful(d)
         /\ d \notin abandoned
  BY QuietHandlers DEF PInv, RInv, Whole, Settled
<1>2. \A d \in Deliveries : Settled(d) =>
         /\ \A p \in LinksOf(d) :
               /\ p \in Payments /\ deliveryStatus[d] = "FINALIZADO"
               /\ payDriver[p] = deliveryDriver[d] /\ charged[d] \subseteq payBasis[p]
         /\ \A p, q \in LinksOf(d) : p = q
         /\ deliveryStatus[d] = "FINALIZADO" => LinksOf(d) # {}
  BY <1>1 DEF Matches, Linked, LinksOf
<1>3. getDriverReceivables(v) =
        {d \in Deliveries : /\ deliveryStatus[d] = "FINALIZADO" /\ deliveryDriver[d] = v
                            /\ ~ \E p \in LinksOf(d) : payStatus[p] = "PAGO"}
  BY DEF getDriverReceivables, RoutesOf, IsPaid
<1>4. QED
  BY <1>2, <1>3

\* Counts of different rows add up.
LEMMA CountsAddUp ==
    ASSUME NEW A, NEW B, IsFiniteSet(A), IsFiniteSet(B), A \cap B = {}
    PROVE  /\ Cardinality(A) \in Nat /\ Cardinality(B) \in Nat
           /\ IsFiniteSet(A \cup B)
           /\ Cardinality(A \cup B) = Cardinality(A) + Cardinality(B)
<1>1. Cardinality(A) \in Nat /\ Cardinality(B) \in Nat
  BY FS_CardinalityType
<1>2. /\ IsFiniteSet(A \cup B)
      /\ Cardinality(A \cup B) = Cardinality(A) + Cardinality(B) - Cardinality(A \cap B)
  BY FS_Union
<1>3. Cardinality(A \cap B) = 0
  BY FS_EmptySet
<1>4. QED
  BY <1>1, <1>2, <1>3

LEMMA StatisticsAgree ==
    ASSUME RInv, FreeOrdersAreOffRoute, OffRouteAwaits, raced = {}, Quiet
    PROVE  StatisticsCountTheRoutes
<1> DEFINE seen(v) == getDriverRoutes(v, TRUE)
           shown(v) == UNION {getRouteDetails(v, d) : d \in seen(v)}
           Live == {"A_LIBERAR", "INICIADO", "FINALIZADO"}
<1>0. /\ Tables /\ \A d \in Deliveries : Exists(d) => deliveryDriver[d] \in Drivers
      /\ \A d \in Deliveries : Agrees(d)
      /\ \A o \in Orders : orderDelivery[o] = None => orderStatus[o] \in {"SEM_ROTA", Waiting}
      /\ IsFiniteSet(Orders) /\ IsFiniteSet(Deliveries)
  BY GInvParts, TablesAreFinite DEF RInv, Whole, OffRouteAwaits, DeliveriesHaveDrivers
<1>1. \A v : seen(v) = {d \in Deliveries : deliveryStatus[d] \in Live /\ deliveryDriver[d] = v}
  BY DEF getDriverRoutes, RoutesOf
<1>2. \A v : shown(v) = {o \in Orders : \E d \in seen(v) : orderDelivery[o] = d}
  <2> SUFFICES ASSUME NEW v
               PROVE  shown(v) = {o \in Orders : \E d \in seen(v) : orderDelivery[o] = d}
    OBVIOUS
  <2> HIDE DEF seen
  <2>1. \A d \in seen(v) : getRouteDetails(v, d) = {o \in Orders : orderDelivery[o] = d}
    BY <1>1 DEF getRouteDetails, RoutesOf, OrdersOf, DeliveryStatus
  <2>2. QED
    BY <2>1
<1> HIDE DEF seen, shown
<1>3. UNION {seen(v) : v \in Drivers} = {d \in Deliveries : deliveryStatus[d] \in Live}
  BY <1>0, <1>1 DEF Exists, DeliveryStatus
<1>4. \A v, w \in Drivers : v # w => shown(v) \cap shown(w) = {}
  BY <1>1, <1>2
\* Each delivery under way or finalised is on one list.
<1>5. deliveriesCount("INICIADO", None) + deliveriesCount("FINALIZADO", None)
        = Cardinality(UNION {seen(v) : v \in Drivers}) - deliveriesCount("A_LIBERAR", None)
  <2> DEFINE Of(s) == {d \in Deliveries : deliveryStatus[d] = s}
             I == Of("INICIADO")
             F == Of("FINALIZADO")
             W == Of("A_LIBERAR")
  <2>1. /\ deliveriesCount("INICIADO", None) = Cardinality(I)
        /\ deliveriesCount("FINALIZADO", None) = Cardinality(F)
        /\ deliveriesCount("A_LIBERAR", None) = Cardinality(W)
    BY DEF deliveriesCount
  <2>2. IsFiniteSet(I) /\ IsFiniteSet(F) /\ IsFiniteSet(W)
    BY <1>0, FS_Subset
  <2>3. /\ I \cap F = {} /\ (I \cup F) \cap W = {}
        /\ (I \cup F) \cup W = UNION {seen(v) : v \in Drivers}
    BY <1>3
  <2> HIDE DEF I, F, W
  <2>4. /\ Cardinality(I) \in Nat /\ Cardinality(F) \in Nat /\ Cardinality(W) \in Nat
        /\ IsFiniteSet(I \cup F)
        /\ Cardinality(I \cup F) = Cardinality(I) + Cardinality(F)
    BY <2>2, <2>3, CountsAddUp
  <2>5. Cardinality((I \cup F) \cup W) = Cardinality(I) + Cardinality(F) + Cardinality(W)
    BY <2>2, <2>3, <2>4, CountsAddUp
  <2>6. Cardinality(UNION {seen(v) : v \in Drivers})
          = Cardinality(I) + Cardinality(F) + Cardinality(W)
    BY <2>3, <2>5
  <2> HIDE DEF Of
  <2>7. QED
    BY <2>1, <2>4, <2>6
\* An order in route or delivered is on a delivery that a driver is shown.
<1>6. ordersCount("EM_ROTA", None) + ordersCount("ENTREGUE", None)
        = Cardinality({o \in UNION {shown(v) : v \in Drivers} :
                          orderStatus[o] \in {"EM_ROTA", "ENTREGUE"}})
  <2> DEFINE R == {o \in Orders : orderStatus[o] = "EM_ROTA"}
             E == {o \in Orders : orderStatus[o] = "ENTREGUE"}
  <2>1. ordersCount("EM_ROTA", None) = Cardinality(R)
        /\ ordersCount("ENTREGUE", None) = Cardinality(E)
    BY DEF ordersCount
  <2>2. \A o \in Orders : orderStatus[o] \in {"EM_ROTA", "ENTREGUE"} =>
            \E v \in Drivers : o \in shown(v)
    <3> SUFFICES ASSUME NEW o \in Orders, orderStatus[o] \in {"EM_ROTA", "ENTREGUE"}
                 PROVE  \E v \in Drivers : o \in shown(v)
      OBVIOUS
    <3>1. orderDelivery[o] \in Deliveries /\ deliveryStatus[orderDelivery[o]] \in Live
      BY <1>0 DEF Tables, Agrees, OrdersOf, Waiting
    <3>2. deliveryDriver[orderDelivery[o]] \in Drivers
      BY <1>0, <3>1 DEF Exists, DeliveryStatus
    <3>3. QED
      BY <1>1, <1>2, <3>1, <3>2
  <2>3. {o \in UNION {shown(v) : v \in Drivers} : orderStatus[o] \in {"EM_ROTA", "ENTREGUE"}}
          = R \cup E
    BY <1>2, <2>2
  <2>4. IsFiniteSet(R) /\ IsFiniteSet(E) /\ R \cap E = {}
    BY <1>0, FS_Subset
  <2>5. Cardinality({o \in UNION {shown(v) : v \in Drivers} :
                        orderStatus[o] \in {"EM_ROTA", "ENTREGUE"}}) = Cardinality(R \cup E)
    BY <2>3
  <2> HIDE DEF R, E
  <2>6. Cardinality(R \cup E) = Cardinality(R) + Cardinality(E)
    BY <2>4, CountsAddUp
  <2>7. QED
    BY <2>1, <2>5, <2>6
<1>7. \A o \in Orders, v \in Drivers : orderStatus[o] = "SEM_ROTA" =>
         getDeliveryDetails(v, o) = {}
  BY NoneIsNoId DEF FreeOrdersAreOffRoute, getDeliveryDetails, RoutesOf, OrdersOf
<1>8. QED
  BY <1>4, <1>5, <1>6, <1>7 DEF StatisticsCountTheRoutes, seen, shown

\* Between calls the drivers' application and the books tell the same story, and
\* the statistics do where nothing has been written in a race.
THEOREM ViewsAlwaysAgree == NoPaymentByHand /\ Spec => []ViewsAgree
<1>1. PInv /\ FreeOrdersAreOffRoute /\ OffRouteAwaits => ViewsAgree
  BY ReceivablesAgree, StatisticsAgree DEF ViewsAgree, PInv
<1>2. QED
  BY <1>1, PInvariance, FreeOrdersStayOffRoute, OffRouteInvariance, PTL
=============================================================================
