SPECIFICATION UnboundedSpec
CONSTANTS
    Stranger = Stranger
    None = None
    Orders = {o1}
    Deliveries = {d1}
    Payments = {p1}
    Drivers = {v1}
    Requests = {r1}
    Endpoints = {"create", "rejeitar"}
    MayFail = FALSE
INVARIANT OffRouteOrdersAreFree
CHECK_DEADLOCK FALSE
