SPECIFICATION FairUnderway
CONSTANTS
    Stranger = Stranger
    None = None
    Orders = {o1, o2}
    Deliveries = {d1}
    Payments = {p1, p2}
    Drivers = {v1}
    Requests = {r1, r2}
    Endpoints = {"updateOrderStatus"}
    MayFail = FALSE
INVARIANT OnePaymentPerDelivery
CHECK_DEADLOCK FALSE
