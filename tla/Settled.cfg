SPECIFICATION SettledSpec
CONSTANTS
    Stranger = Stranger
    None = None
    Orders = {o1, o2}
    Deliveries = {d1, d2}
    Payments = {p1, p2}
    Drivers = {v1, v2}
    Requests = {r1, r2}
    Endpoints <- RouteEndpoints
    MayFail = TRUE
SYMMETRY Symmetry
INVARIANTS
    OrdersFollowTheirDelivery
    CarriedOrdersAreCharged
    PaidOnce
    PaymentMatchesDelivery
    RejectedNeverRuns
    ViewsAgree
PROPERTIES
    LifecycleIsRespected
    FinalisedIsClosed
    PaymentsChangeAsAsked
CHECK_DEADLOCK FALSE
