SPECIFICATION UnboundedSpec
CONSTANTS
    Stranger = Stranger
    None = None
    Orders = {o1}
    Deliveries = {d1, d2}
    Payments = {p1}
    Drivers = {v1}
    Requests = {r1, r2}
    Endpoints = {"create"}
    MayFail = FALSE
PROPERTY OnlyFreeOrdersAreRouted
CHECK_DEADLOCK FALSE
