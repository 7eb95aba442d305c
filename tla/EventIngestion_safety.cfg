\* Three concurrent requests on one shipment, with failing connections.
SPECIFICATION Spec
CONSTANTS
    Requests = {r1, r2, r3}
    k1 = k1
    t1 = t1
    Keys = {k1, k2, k3}
    Shipments = {t1}
    Times <- MCTimes
    Offered <- MCConflicting
    NoShipment = NoShipment
    NoRequest = NoRequest
    DatabaseMayFail = TRUE
SYMMETRY MCSymmetry
INVARIANTS
    TypeOK
    DurableAcceptance
    DuplicateNamesOriginal
    RowIsLastApplied
    ArrivalOrderIrrelevant
PROPERTIES
    ShipmentNeverRegresses
    ImplementsSerialIngestion
