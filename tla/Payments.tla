------------------------------ MODULE Payments ------------------------------
(***************************************************************************)
(* PaymentsService (payments.service.ts): the payment of a delivery to its *)
(* driver, made by POST /payments or by updateOrderStatus when it ends a   *)
(* delivery, and the changes of its status.                                *)
(***************************************************************************)
EXTENDS DeliveryState

\* create, called with any delivery id of the tenant: its status is not asked.
PayCall(r, d) ==
    /\ Exists(d)
    /\ Starts(r, "createPayment", [Idle EXCEPT !.pc = "payRead", !.d = d])
    /\ UNCHANGED <<routeVars, payVars>>

\* Driver and amount are those of the delivery row read here.
PayRead(r) ==
    LET d == req[r].d IN
    /\ At(r, "payRead")
    /\ Exists(d)
    /\ Continues(r, [req[r] EXCEPT !.pc = "payCheck", !.driver = deliveryDriver[d],
                                   !.seen = charged[d]])
    /\ UNCHANGED <<routeVars, payVars>>

PayCheck(r) ==
    /\ At(r, "payCheck")
    /\ IF LinksOf(req[r].d) = {}
       THEN Continues(r, [req[r] EXCEPT !.pc = "payCommit"])
       ELSE Ends(r)
    /\ UNCHANGED <<routeVars, payVars>>

PayCommit(r, p) ==
    LET q == req[r] IN
    /\ At(r, "payCommit")
    /\ Exists(q.d)
    /\ payStatus[p] = "absent"
    /\ payStatus' = [payStatus EXCEPT ![p] = "PENDENTE"]
    /\ payFor' = [payFor EXCEPT ![p] = q.d]
    /\ payDriver' = [payDriver EXCEPT ![p] = q.driver]
    /\ payBasis' = [payBasis EXCEPT ![p] = q.seen]
    /\ Ends(r)
    /\ UNCHANGED routeVars

\* The delivery was removed meanwhile: not found, or the link's foreign key.
PayGone(r) ==
    /\ req[r].pc \in {"payRead", "payCommit"}
    /\ ~Exists(req[r].d)
    /\ Fails(r)

-----------------------------------------------------------------------------
(* Status changes. *)

\* Mutant: any payment can be marked as paid.
MarkPaidReadBooked(r, pays) ==
    /\ pays # {}
    /\ \A p \in pays : payStatus[p] # "absent"
    /\ Starts(r, "markAsPaid", [Idle EXCEPT !.pc = "markPaidWrite", !.pays = pays])
    /\ UNCHANGED <<routeVars, payVars>>

MarkPaidRead(r, pays) ==
    /\ pays # {}
    /\ \A p \in pays : payStatus[p] = "PENDENTE"
    /\ Starts(r, "markAsPaid", [Idle EXCEPT !.pc = "markPaidWrite", !.pays = pays])
    /\ UNCHANGED <<routeVars, payVars>>

\* updateMany names the ids alone: the status read before is not repeated.
MarkPaidWrite(r) ==
    /\ At(r, "markPaidWrite")
    /\ payStatus' = [p \in Payments |->
                       IF p \in req[r].pays THEN "PAGO" ELSE payStatus[p]]
    /\ Ends(r)
    /\ UNCHANGED <<routeVars, payFor, payDriver, payBasis>>

PayStatusRead(r, p, to) ==
    /\ payStatus[p] \in PaymentStatus
    /\ payStatus[p] # to
    /\ Starts(r, "updatePaymentStatus",
              [Idle EXCEPT !.pc = "payStatusWrite", !.pays = {p}, !.to = to])
    /\ UNCHANGED <<routeVars, payVars>>

PayStatusWrite(r) ==
    /\ At(r, "payStatusWrite")
    /\ payStatus' = [p \in Payments |->
                       IF p \in req[r].pays THEN req[r].to ELSE payStatus[p]]
    /\ Ends(r)
    /\ UNCHANGED <<routeVars, payFor, payDriver, payBasis>>

PayRevertRead(r, p) ==
    /\ payStatus[p] = "PAGO"
    /\ Starts(r, "revertPayment", [Idle EXCEPT !.pc = "payRevertWrite", !.pays = {p}])
    /\ UNCHANGED <<routeVars, payVars>>

PayRevertWrite(r) ==
    /\ At(r, "payRevertWrite")
    /\ payStatus' = [p \in Payments |->
                       IF p \in req[r].pays THEN "PENDENTE" ELSE payStatus[p]]
    /\ Ends(r)
    /\ UNCHANGED <<routeVars, payFor, payDriver, payBasis>>

-----------------------------------------------------------------------------
PaymentStep(r) ==
    \/ PayRead(r)
    \/ PayCheck(r)
    \/ \E p \in Payments : PayCommit(r, p)
    \/ MarkPaidWrite(r)
    \/ PayStatusWrite(r)
    \/ PayRevertWrite(r)

PaymentCall(r) ==
    \/ \E d \in Deliveries : PayCall(r, d)
    \/ \E pays \in SUBSET Payments : MarkPaidRead(r, pays)
    \/ \E p \in Payments, to \in PaymentStatus : PayStatusRead(r, p, to)
    \/ \E p \in Payments : PayRevertRead(r, p)

=============================================================================
