---------------------------- MODULE Interference ----------------------------
(***************************************************************************)
(* What the handlers of DeliverySystem do to one another, and what they    *)
(* leave undone: four histories beside the tables, which no guard reads.   *)
(*                                                                         *)
(* Every handler decides on what it has read and writes by id some awaits  *)
(* later.  A handler is overtaken when another one changes, in between, a  *)
(* row it goes by; what it then writes is written in a race.  And where a  *)
(* handler needs several writes, being refused or dying after the first of *)
(* them abandons the delivery it was at.                                   *)
(***************************************************************************)
EXTENDS DeliveryState

VARIABLES
    overtaken,   \* handlers in flight that go by a row changed since they read it
    begun,       \* handlers in flight that have changed a row
    raced,       \* deliveries and payments written by an overtaken handler
    abandoned    \* deliveries a handler of `begun` stopped at before it was through

histories == <<overtaken, begun, raced, abandoned>>

HistoriesInit == overtaken = {} /\ begun = {} /\ raced = {} /\ abandoned = {}

-----------------------------------------------------------------------------
(* What a step changes. *)

OrderChanges(o) == orderStatus'[o] # orderStatus[o] \/ orderDelivery'[o] # orderDelivery[o]

\* The orders of a delivery, those that leave it and those that come to it.
OrdersChange(d) ==
    \E o \in Orders : OrderChanges(o) /\ d \in {orderDelivery[o], orderDelivery'[o]}

RowChanges(d) ==
    \/ deliveryStatus'[d] # deliveryStatus[d]
    \/ deliveryDriver'[d] # deliveryDriver[d]
    \/ charged'[d] # charged[d]

LinksChange(d) == {p \in Payments : payFor'[p] = d} # LinksOf(d)

\* What a handler goes by at its next step: the delivery it has read, from which
\* it may be about to write; its orders, where it has counted or listed them; the
\* orders and payments of its own request.
Outdates(q) ==
    \/ /\ q.pc \in {"createCommit", "liberarCommit", "rejeitarCommit", "statusWrite",
                    "statusCount", "statusFinalize", "updateOrders", "updateReread",
                    "removeOrderWrite", "recalcHold", "recalcWrite", "removeCommit",
                    "payCheck", "payCommit"}
       /\ RowChanges(q.d)
    \/ /\ q.pc \in {"statusFinalize", "updateOrders", "removeOrderWrite", "recalcHold",
                    "recalcWrite", "removeCommit"}
       /\ OrdersChange(q.d)
    \/ q.pc = "payCommit" /\ LinksChange(q.d)
    \/ q.pc = "statusWrite" /\ OrderChanges(q.o)
    \/ q.pc = "createCommit" /\ \E o \in q.refs : OrderChanges(o)
    \/ \E p \in q.pays : payStatus'[p] # payStatus[p]

-----------------------------------------------------------------------------
(* What the histories make of a step of handler r. *)

\* PaymentsService.create starts from nothing but the delivery's id.
Overtakes(r) ==
    overtaken' = {s \in Requests : /\ req'[s].pc # "idle"
                                   /\ \/ s \in overtaken /\ ~(s = r /\ At(r, "payRead"))
                                      \/ s # r /\ Outdates(req[s])}

Begins(r) ==
    begun' = {s \in Requests : /\ req'[s].pc # "idle"
                               /\ \/ s \in begun
                                  \/ s = r /\ ~ UNCHANGED <<routeVars, payVars>>}

\* The places from which a handler only reads on.
Reading == {"idle", "statusCount", "updateReread", "payRead", "payCheck"}

Races(r) ==
    raced' = raced \cup
        (IF r \notin overtaken \/ req[r].pc \in Reading THEN {}
         ELSE req[r].pays \cup
              {d \in Deliveries : \/ d = req[r].d
                                  \/ RowChanges(d) \/ OrdersChange(d) \/ LinksChange(d)})

Abandons(r) ==
    abandoned' = abandoned \cup
        {d \in Deliveries : /\ d = req[r].d
                            /\ r \in begun \/ ~ UNCHANGED <<routeVars, payVars>>}

=============================================================================
