SPECIFICATION FairUnderway
CONSTANTS
    Stranger = Stranger
    None = None
    Orders = {o1, o2, o3}
    Deliveries = {d1}
    Payments = {p1, p2, p3}
    Drivers = {v1}
    Requests = {r1, r2, r3}
    Endpoints = {"updateOrderStatus"}
    MayFail = FALSE
INVARIANTS
    LastConclusionIsSeen
    FinalisedIsPaidOrPaying
PROPERTIES
    ConcludedGetsFinalised
    FinalisedGetsPaid
CHECK_DEADLOCK FALSE
