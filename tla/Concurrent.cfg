SPECIFICATION FreeSpec
CONSTANTS
    Stranger = Stranger
    None = None
    Orders = {o1, o2}
    Deliveries = {d1, d2}
    Payments = {p1, p2}
    Drivers = {v1}
    Requests = {r1, r2}
    Endpoints <- AllEndpoints
    MayFail = TRUE
SYMMETRY Symmetry
INVARIANTS
    TypeOK
    FreeOrdersAreOffRoute
    RejectionIsOnRecord
PROPERTIES
    BooksAreFixed
CHECK_DEADLOCK FALSE
