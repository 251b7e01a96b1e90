SPECIFICATION FairUnderway
CONSTANTS
    Stranger = Stranger
    None = None
    Orders = {o1, o2, o3}
    Deliveries = {d1, d2}
    Payments = {p1, p2}
    Drivers = {v1, v2}
    Requests = {r1}
    Endpoints = {"updateOrderStatus"}
    MayFail = FALSE
PROPERTIES
    KeepsContract
    OrderStepsAreValid
CHECK_DEADLOCK FALSE
