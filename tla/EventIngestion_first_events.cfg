\* Two different first events of one new shipment, a database that never fails.
SPECIFICATION Spec
CONSTANTS
    Requests = {r1, r2}
    k1 = k1
    t1 = t1
    Keys = {k1, k2}
    Shipments = {t1}
    Times <- MCTimes
    Offered <- MCConflicting
    NoShipment = NoShipment
    NoRequest = NoRequest
    DatabaseMayFail = FALSE
INVARIANTS
    RequestsResolve
