-------------------------- MODULE MCDeliverySystem --------------------------
(***************************************************************************)
(* Small instances of DeliverySystem for TLC.                              *)
(*                                                                         *)
(* All endpoints at once with two overlapping handlers are beyond five     *)
(* minutes of TLC, so a run is the union of several workloads, chosen in   *)
(* the initial state.  A workload bounds what is called, how many handlers *)
(* are in flight at once, and how many orders are routed, deliveries made  *)
(* and payments booked, and which drivers an edition may name.             *)
(***************************************************************************)
EXTENDS DeliverySystem, TLC

VARIABLE workload

AllEndpoints == {"create", "liberar", "rejeitar", "updateOrderStatus", "update",
                 "removeOrder", "remove", "createPayment", "markAsPaid",
                 "updatePaymentStatus", "revertPayment"}

\* All but the payments made by hand: they come from finalisation only.
RouteEndpoints == AllEndpoints \ {"createPayment"}

\* The back office planning, deciding on and undoing routes; taking orders off
\* routes that drivers work on; changing a driver, which may hold a route that is
\* decided on; changing the orders of a route under way; payments against each
\* other and against the life of the delivery; and, by one handler at a time,
\* orders moved between routes.  `calls` are where a called handler first waits.
Workload ==
    [routing |-> [calls |-> {"createCommit", "liberarCommit", "rejeitarCommit",
                             "removeCommit"},
                  ends |-> Finished, names |-> {},
                  handlers |-> 2, orders |-> 2, deliveries |-> 2, payments |-> 0],
     unloading |-> [calls |-> {"createCommit", "liberarCommit", "statusWrite",
                               "removeOrderWrite", "removeCommit"},
                  ends |-> Finished, names |-> {},
                  handlers |-> 2, orders |-> 2, deliveries |-> 1, payments |-> 1],
     holding |-> [calls |-> {"createCommit", "liberarCommit", "rejeitarCommit",
                             "statusWrite", "recalcHold", "recalcWrite"},
                  ends |-> Finished, names |-> Drivers \cup {Stranger, None},
                  handlers |-> 2, orders |-> 1, deliveries |-> 1, payments |-> 1],
     editing |-> [calls |-> {"createCommit", "statusWrite", "updateOrders",
                             "removeCommit"},
                  ends |-> {"ENTREGUE"}, names |-> {Stranger, None},
                  handlers |-> 2, orders |-> 2, deliveries |-> 1, payments |-> 1],
     moving  |-> [calls |-> {"createCommit", "statusWrite", "updateOrders"},
                  ends |-> {"ENTREGUE"}, names |-> Drivers \cup {Stranger, None},
                  handlers |-> 1, orders |-> 2, deliveries |-> 2, payments |-> 1],
     books   |-> [calls |-> {"createCommit", "statusWrite", "removeCommit", "payRead",
                             "markPaidWrite", "payStatusWrite", "payRevertWrite"},
                  ends |-> Finished, names |-> {},
                  handlers |-> 2, orders |-> 1, deliveries |-> 1, payments |-> 2]]

Edits(r) == req[r].pc \in {"updateOrders", "recalcHold", "recalcWrite"}

Within(w) ==
    /\ \A r \in Requests : (At(r, "idle") /\ ~At(r, "idle")') => req'[r].pc \in w.calls
    /\ \A r \in Requests : req'[r].to \in Finished => req'[r].to \in w.ends
    /\ \A r \in Requests : (At(r, "idle") /\ Edits(r)') => req'[r].driver \in w.names
    /\ Cardinality({o \in Orders : orderDelivery'[o] # None}) <= w.orders
    /\ Cardinality({d \in Deliveries : deliveryStatus'[d] # "absent"}) <= w.deliveries
    /\ Cardinality({p \in Payments : payStatus'[p] # "absent"}) <= w.payments

\* A call is taken while few enough handlers are in flight.
Admits(w, r) ==
    At(r, "idle") => Cardinality({s \in Requests : ~At(s, "idle")}) < w.handlers

WorkloadInit == Init /\ HistoriesInit /\ workload \in DOMAIN Workload

\* What the properties of settled deliveries say ends when none is left that
\* was not written in a race.
SettledNext ==
    /\ \E d \in Deliveries : d \notin raced /\ (Exists(d) \/ \A e \in Deliveries : ~Exists(e))
    /\ \E r \in Requests : Admits(Workload[workload], r) /\ Handles(r)
    /\ Within(Workload[workload])
    /\ UNCHANGED workload
SettledSpec == WorkloadInit /\ [][SettledNext]_<<systemVars, workload>>

\* The other properties do not look at the histories, which stand still.
FreeNext ==
    /\ \E r \in Requests :
          Admits(Workload[workload], r) /\ (Works(r) \/ RemoveOrderUnfinished(r) \/ Stops(r))
    /\ Within(Workload[workload])
    /\ UNCHANGED <<histories, workload>>
FreeSpec == WorkloadInit /\ [][FreeNext]_<<systemVars, workload>>

\* With few endpoints no such bound is needed.
UnboundedInit == Init /\ HistoriesInit /\ workload = "all"
UnboundedNext == Next /\ UNCHANGED workload
UnboundedSpec == UnboundedInit /\ [][UnboundedNext]_<<systemVars, workload>>

Symmetry == Permutations(Orders) \cup Permutations(Deliveries)
                \cup Permutations(Payments) \cup Permutations(Drivers)
                \cup Permutations(Requests)
=============================================================================
